---------------------------- MODULE AppDirProofs ----------------------------
(***************************************************************************)
(* Theorems about AppDir for any number of commands, ports, users and      *)
(* faults: type correctness, that thresholds are never out of order, and   *)
(* that settings are kept.                                                 *)
(***************************************************************************)
EXTENDS AppDir, TLAPS

\* A Config before Validate.
Draft == [port : Ports \cup {BadPort}, secret : Commands, warning : Levels, critical : Levels]

Jobs == [kind : {"none", "init", "create-admin", "reset-password"}]
          \cup [kind : {"set"}, key : SetKeys]

\* What a command holds that will write, and what it saves has been validated.
Prepared ==
  /\ job \in [Commands -> Jobs] /\ DOMAIN cfg = Commands
  /\ \A c \in Writing :
       /\ cfg[c] \in Draft /\ job[c].kind \in {"init", "set"}
       /\ pc[c] \in {"save", "write"} => Valid(cfg[c])

\* There is one command that writes at most.  It holds what was reported as saved,
\* but for the key it sets, and whenever nobody writes the file says the same.
OneWriter == \A c, d \in Writing : c = d
Holds(c) ==
  /\ job[c].kind = "init" => told = NoConfig
  /\ job[c].kind = "set" => \A key \in DOMAIN told \ {job[c].key} : cfg[c][key] = told[key]
  /\ pc[c] = "write" => file = NoConfig
FileSays ==
  (\A c \in Commands : pc[c] # "write") =>
    \A key \in DOMAIN told : key \in DOMAIN file /\ file[key] = told[key]

\* So it is as long as no two of them have overlapped and no write was cut short.
Settled ==
  /\ form = "none" => told = NoConfig
  /\ raced = 0 => OneWriter /\ (\A c \in Writing : Holds(c)) /\ FileSays

\* TypeOK, by what its parts are about; the rest of it follows from Prepared.
PcOK == pc \in [Commands -> {"new", "prompt", "save", "write", "admin", "done", "failed"}]
FileOK ==
  /\ form \in {"none", "yaml", "garbled"}
  /\ DOMAIN file \subseteq KeySet /\ \E k \in Config : \A key \in DOMAIN file : file[key] = k[key]
AdminsOK == DOMAIN admins \subseteq Users /\ \A u \in DOMAIN admins : admins[u] \in Passwords
CountsOK == faults \in 0 .. MaxFaults /\ raced \in {0, 1}
ToldOK == DOMAIN told \subseteq KeySet

-----------------------------------------------------------------------------
\* Pieces of package config.

LEMMA DraftFacts ==
  /\ Config \subseteq Draft
  /\ \A k \in Draft : Valid(k) => k \in Config
  /\ \A c \in Commands : Default(c) \in Config
  /\ \A k \in Config : [key \in KeySet |-> k[key]] = k
<1>1. Config \subseteq Draft
  BY DEF Config, Draft
<1>2. \A k \in Draft : Valid(k) => k \in Config
  BY DEF Config, Draft, Valid
<1>3. \A c \in Commands : Default(c) \in Config
  BY AppDirAssumption DEF Config, Default, Levels
<1>4. \A k \in Config : [key \in KeySet |-> k[key]] = k
  BY DEF Config, KeySet
<1> QED BY <1>1, <1>2, <1>3, <1>4

\* Load returns a Config, whatever keys the file has.
LEMMA LoadedType ==
  ASSUME TypeOK, NEW c \in Commands
  PROVE  Loaded(c) \in Config
<1>1. PICK k \in Config : \A key \in DOMAIN file : file[key] = k[key]
  BY DEF TypeOK
<1>2. Default(c) \in Config
  BY DraftFacts
<1>3. Loaded(c) = [key \in KeySet |-> IF key \in DOMAIN file THEN k[key] ELSE Default(c)[key]]
  BY <1>1 DEF Loaded
<1> DEFINE d == Default(c)
           l == [port |-> IF "port" \in DOMAIN file THEN k.port ELSE d.port,
                 secret |-> IF "secret" \in DOMAIN file THEN k.secret ELSE d.secret,
                 warning |-> IF "warning" \in DOMAIN file THEN k.warning ELSE d.warning,
                 critical |-> IF "critical" \in DOMAIN file THEN k.critical ELSE d.critical]
<1>4. l \in Config
  BY <1>1, <1>2 DEF Config
<1>5. Loaded(c) = l
  BY <1>3 DEF KeySet
<1> QED BY <1>4, <1>5

\* Set of one key.
LEMMA SetType ==
  ASSUME NEW k \in Config, NEW key \in SetKeys, NEW value \in Values(key)
  PROVE  [k EXCEPT ![key] = value] \in Draft
<1>1. CASE key = "port"
  BY <1>1 DEF Config, Draft, Values
<1>2. CASE key = "warning"
  BY <1>2 DEF Config, Draft, Values
<1>3. CASE key = "critical"
  BY <1>3 DEF Config, Draft, Values
<1> QED BY <1>1, <1>2, <1>3 DEF SetKeys

LEMMA TypeParts ==
  /\ TypeOK => PcOK /\ FileOK /\ AdminsOK /\ CountsOK /\ ToldOK
  /\ PcOK /\ FileOK /\ AdminsOK /\ CountsOK /\ ToldOK /\ Prepared => TypeOK
<1>1. TypeOK => PcOK /\ FileOK /\ AdminsOK /\ CountsOK /\ ToldOK
  BY DEF TypeOK, PcOK, FileOK, AdminsOK, CountsOK, ToldOK
<1>2. ASSUME Prepared, NEW c \in Commands, pc[c] \in {"save", "write"} PROVE cfg[c] \in Config
  BY <1>2, DraftFacts DEF Prepared, Writing
<1>3. ASSUME Prepared, NEW c \in Commands
      PROVE  job[c].kind \in {"none", "init", "set", "create-admin", "reset-password"}
  BY <1>3 DEF Prepared, Jobs
<1> QED BY <1>1, <1>2, <1>3 DEF TypeOK, PcOK, FileOK, AdminsOK, CountsOK, ToldOK

-----------------------------------------------------------------------------
\* The invariants, action by action.

LEMMA PreparedStep == TypeOK /\ Prepared /\ [Next]_vars => Prepared'
<1> SUFFICES ASSUME TypeOK, Prepared, [Next]_vars PROVE Prepared'
  OBVIOUS
<1> USE DEF PcOK
<1>0. PcOK
  BY TypeParts
<1>1. ASSUME NEW c \in Commands, NEW port \in Ports \cup {BadPort}, InitStat(c, port)
      PROVE  Prepared'
  <2>1. [Default(c) EXCEPT !.port = port] \in Draft
    BY DraftFacts DEF Config, Draft
  <2>2. [kind |-> "init"] \in Jobs
    BY DEF Jobs
  <2> QED BY <1>0, <1>1, <2>1, <2>2 DEF InitStat, GoOn, StartWriter, Prepared, Writing
<1>2. ASSUME NEW c \in Commands, InitSave(c) PROVE Prepared'
  BY <1>0, <1>2 DEF InitSave, GoOn, Prepared, Writing
<1>3. ASSUME NEW c \in Commands, NEW key \in SetKeys, NEW value \in Values(key),
             ConfigSet(c, key, value)
      PROVE  Prepared'
  <2>1. [Loaded(c) EXCEPT ![key] = value] \in Draft
    BY LoadedType, SetType
  <2>2. [kind |-> "set", key |-> key] \in Jobs
    BY DEF Jobs
  <2> QED BY <1>0, <1>3, <2>1, <2>2 DEF ConfigSet, GoOn, StartWriter, Prepared, Writing
<1>4. ASSUME NEW c \in Commands, Truncate(c) PROVE Prepared'
  BY <1>0, <1>4 DEF Truncate, GoOn, Prepared, Writing
<1>5. ASSUME NEW c \in Commands, Write(c) PROVE Prepared'
  BY <1>0, <1>5 DEF Write, GoOn, Prepared, Writing
<1>6. ASSUME NEW c \in Commands, NEW kind \in {"create-admin", "reset-password"}, AdminStart(c, kind)
      PROVE  Prepared'
  <2>1. [kind |-> kind] \in Jobs
    BY DEF Jobs
  <2> QED BY <1>0, <1>6, <2>1 DEF AdminStart, GoOn, Prepared, Writing
<1>7. ASSUME NEW c \in Commands, NEW user \in Users, NEW password \in Passwords \cup {"short"},
             EnsureAdmin(c, user, password)
      PROVE  Prepared'
  BY <1>0, <1>7 DEF EnsureAdmin, GoOn, Prepared, Writing
<1>8. ASSUME NEW c \in Commands, Die(c) PROVE Prepared'
  BY <1>0, <1>8 DEF Die, GoOn, Prepared, Writing
<1>9. CASE UNCHANGED vars
  BY <1>0, <1>9 DEF vars, Prepared, Writing
<1> QED BY <1>1, <1>2, <1>3, <1>4, <1>5, <1>6, <1>7, <1>8, <1>9 DEF Next

LEMMA PcStep == TypeOK /\ Prepared /\ [Next]_vars => PcOK'
<1> SUFFICES ASSUME TypeOK, Prepared, [Next]_vars PROVE PcOK'
  OBVIOUS
<1> USE AppDirAssumption DEF TypeOK, PcOK
<1>1. ASSUME NEW c \in Commands, NEW port \in Ports \cup {BadPort}, InitStat(c, port)
      PROVE  PcOK'
  BY <1>1 DEF InitStat, GoOn, StartWriter
<1>2. ASSUME NEW c \in Commands, InitSave(c) PROVE PcOK'
  BY <1>2 DEF InitSave, GoOn
<1>3. ASSUME NEW c \in Commands, NEW key \in SetKeys, NEW value \in Values(key),
             ConfigSet(c, key, value)
      PROVE  PcOK'
  BY <1>3 DEF ConfigSet, GoOn, StartWriter
<1>4. ASSUME NEW c \in Commands, Truncate(c) PROVE PcOK'
  BY <1>4 DEF Truncate, GoOn
<1>5. ASSUME NEW c \in Commands, Write(c) PROVE PcOK'
  BY <1>5 DEF Write, GoOn
<1>6. ASSUME NEW c \in Commands, NEW kind \in {"create-admin", "reset-password"}, AdminStart(c, kind)
      PROVE  PcOK'
  BY <1>6 DEF AdminStart, GoOn
<1>7. ASSUME NEW c \in Commands, NEW user \in Users, NEW password \in Passwords \cup {"short"},
             EnsureAdmin(c, user, password)
      PROVE  PcOK'
  BY <1>7 DEF EnsureAdmin, GoOn
<1>8. ASSUME NEW c \in Commands, Die(c) PROVE PcOK'
  BY <1>8 DEF Die, GoOn
<1>9. CASE UNCHANGED vars
  BY <1>9 DEF vars
<1> QED BY <1>1, <1>2, <1>3, <1>4, <1>5, <1>6, <1>7, <1>8, <1>9 DEF Next

LEMMA FileStep == TypeOK /\ Prepared /\ [Next]_vars => FileOK'
<1> SUFFICES ASSUME TypeOK, Prepared, [Next]_vars PROVE FileOK'
  OBVIOUS
<1> USE AppDirAssumption DEF TypeOK, FileOK
<1>1. ASSUME NEW c \in Commands, NEW port \in Ports \cup {BadPort}, InitStat(c, port)
      PROVE  FileOK'
  BY <1>1 DEF InitStat, GoOn, StartWriter
<1>2. ASSUME NEW c \in Commands, InitSave(c) PROVE FileOK'
  BY <1>2 DEF InitSave, GoOn
<1>3. ASSUME NEW c \in Commands, NEW key \in SetKeys, NEW value \in Values(key),
             ConfigSet(c, key, value)
      PROVE  FileOK'
  BY <1>3 DEF ConfigSet, GoOn, StartWriter
<1>4. ASSUME NEW c \in Commands, Truncate(c) PROVE FileOK'
  <2>1. DOMAIN NoConfig = {} /\ Default(c) \in Config
    BY DraftFacts DEF NoConfig
  <2> QED BY <1>4, <2>1 DEF Truncate
<1>5. ASSUME NEW c \in Commands, Write(c) PROVE FileOK'
  <2>1. CASE file' = cfg[c] /\ form' = "yaml"
    <3>1. cfg[c] \in Config
      BY <1>5 DEF Write
    <3>2. DOMAIN cfg[c] = KeySet
      BY <3>1 DEF Config, KeySet
    <3> QED BY <2>1, <3>1, <3>2
  <2>2. CASE file' = NoConfig /\ form' = "garbled"
    <3>1. DOMAIN NoConfig = {} /\ Default(c) \in Config
      BY DraftFacts DEF NoConfig
    <3> QED BY <2>2, <3>1
  <2> QED BY <1>5, <2>1, <2>2 DEF Write
<1>6. ASSUME NEW c \in Commands, NEW kind \in {"create-admin", "reset-password"}, AdminStart(c, kind)
      PROVE  FileOK'
  BY <1>6 DEF AdminStart, GoOn
<1>7. ASSUME NEW c \in Commands, NEW user \in Users, NEW password \in Passwords \cup {"short"},
             EnsureAdmin(c, user, password)
      PROVE  FileOK'
  BY <1>7 DEF EnsureAdmin, GoOn
<1>8. ASSUME NEW c \in Commands, Die(c) PROVE FileOK'
  <2>1. CASE pc[c] # "write"
    BY <1>8, <2>1 DEF Die
  <2>2. CASE pc[c] = "write"
    <3>1. cfg[c] \in Config
      BY <2>2
    <3>2. PICK n \in 0 .. Len(Keys) - 1 :
                 file' = [key \in {Keys[i] : i \in 1 .. n} |-> cfg[c][key]]
      BY <1>8, <2>2 DEF Die
    <3>3. \A i \in 1 .. n : Keys[i] \in KeySet
      BY DEF Keys, KeySet
    <3> QED BY <1>8, <2>2, <3>1, <3>2, <3>3 DEF Die
  <2> QED BY <2>1, <2>2
<1>9. CASE UNCHANGED vars
  BY <1>9 DEF vars
<1> QED BY <1>1, <1>2, <1>3, <1>4, <1>5, <1>6, <1>7, <1>8, <1>9 DEF Next

LEMMA AdminsStep == TypeOK /\ Prepared /\ [Next]_vars => AdminsOK'
<1> SUFFICES ASSUME TypeOK, Prepared, [Next]_vars PROVE AdminsOK'
  OBVIOUS
<1> USE AppDirAssumption DEF TypeOK, AdminsOK
<1>1. ASSUME NEW c \in Commands, NEW port \in Ports \cup {BadPort}, InitStat(c, port)
      PROVE  AdminsOK'
  BY <1>1 DEF InitStat, GoOn, StartWriter
<1>2. ASSUME NEW c \in Commands, InitSave(c) PROVE AdminsOK'
  BY <1>2 DEF InitSave, GoOn
<1>3. ASSUME NEW c \in Commands, NEW key \in SetKeys, NEW value \in Values(key),
             ConfigSet(c, key, value)
      PROVE  AdminsOK'
  BY <1>3 DEF ConfigSet, GoOn, StartWriter
<1>4. ASSUME NEW c \in Commands, Truncate(c) PROVE AdminsOK'
  BY <1>4 DEF Truncate, GoOn
<1>5. ASSUME NEW c \in Commands, Write(c) PROVE AdminsOK'
  BY <1>5 DEF Write, GoOn
<1>6. ASSUME NEW c \in Commands, NEW kind \in {"create-admin", "reset-password"}, AdminStart(c, kind)
      PROVE  AdminsOK'
  BY <1>6 DEF AdminStart, GoOn
<1>7. ASSUME NEW c \in Commands, NEW user \in Users, NEW password \in Passwords \cup {"short"},
             EnsureAdmin(c, user, password)
      PROVE  AdminsOK'
  BY <1>7 DEF EnsureAdmin, GoOn
<1>8. ASSUME NEW c \in Commands, Die(c) PROVE AdminsOK'
  BY <1>8 DEF Die, GoOn
<1>9. CASE UNCHANGED vars
  BY <1>9 DEF vars
<1> QED BY <1>1, <1>2, <1>3, <1>4, <1>5, <1>6, <1>7, <1>8, <1>9 DEF Next

LEMMA CountsStep == TypeOK /\ Prepared /\ [Next]_vars => CountsOK'
<1> SUFFICES ASSUME TypeOK, Prepared, [Next]_vars PROVE CountsOK'
  OBVIOUS
<1> USE AppDirAssumption DEF TypeOK, CountsOK
<1>1. ASSUME NEW c \in Commands, NEW port \in Ports \cup {BadPort}, InitStat(c, port)
      PROVE  CountsOK'
  BY <1>1 DEF InitStat, GoOn, StartWriter
<1>2. ASSUME NEW c \in Commands, InitSave(c) PROVE CountsOK'
  BY <1>2 DEF InitSave, GoOn
<1>3. ASSUME NEW c \in Commands, NEW key \in SetKeys, NEW value \in Values(key),
             ConfigSet(c, key, value)
      PROVE  CountsOK'
  BY <1>3 DEF ConfigSet, GoOn, StartWriter
<1>4. ASSUME NEW c \in Commands, Truncate(c) PROVE CountsOK'
  BY <1>4 DEF Truncate, GoOn
<1>5. ASSUME NEW c \in Commands, Write(c) PROVE CountsOK'
  BY <1>5 DEF Write, GoOn
<1>6. ASSUME NEW c \in Commands, NEW kind \in {"create-admin", "reset-password"}, AdminStart(c, kind)
      PROVE  CountsOK'
  BY <1>6 DEF AdminStart, GoOn
<1>7. ASSUME NEW c \in Commands, NEW user \in Users, NEW password \in Passwords \cup {"short"},
             EnsureAdmin(c, user, password)
      PROVE  CountsOK'
  BY <1>7 DEF EnsureAdmin, GoOn
<1>8. ASSUME NEW c \in Commands, Die(c) PROVE CountsOK'
  BY <1>8 DEF Die, GoOn
<1>9. CASE UNCHANGED vars
  BY <1>9 DEF vars
<1> QED BY <1>1, <1>2, <1>3, <1>4, <1>5, <1>6, <1>7, <1>8, <1>9 DEF Next

LEMMA ToldStep == TypeOK /\ Prepared /\ [Next]_vars => ToldOK'
<1> SUFFICES ASSUME TypeOK, Prepared, [Next]_vars PROVE ToldOK'
  OBVIOUS
<1> USE AppDirAssumption DEF TypeOK, ToldOK
<1>1. ASSUME NEW c \in Commands, NEW port \in Ports \cup {BadPort}, InitStat(c, port)
      PROVE  ToldOK'
  BY <1>1 DEF InitStat, GoOn, StartWriter
<1>2. ASSUME NEW c \in Commands, InitSave(c) PROVE ToldOK'
  BY <1>2 DEF InitSave, GoOn
<1>3. ASSUME NEW c \in Commands, NEW key \in SetKeys, NEW value \in Values(key),
             ConfigSet(c, key, value)
      PROVE  ToldOK'
  BY <1>3 DEF ConfigSet, GoOn, StartWriter
<1>4. ASSUME NEW c \in Commands, Truncate(c) PROVE ToldOK'
  BY <1>4 DEF Truncate, GoOn
<1>5. ASSUME NEW c \in Commands, Write(c) PROVE ToldOK'
  <2>1. Reports(c) \subseteq KeySet
    BY <1>5 DEF Write, Reports, Prepared, Writing, Jobs, SetKeys, KeySet
  <2> QED BY <1>5, <2>1 DEF Write
<1>6. ASSUME NEW c \in Commands, NEW kind \in {"create-admin", "reset-password"}, AdminStart(c, kind)
      PROVE  ToldOK'
  BY <1>6 DEF AdminStart, GoOn
<1>7. ASSUME NEW c \in Commands, NEW user \in Users, NEW password \in Passwords \cup {"short"},
             EnsureAdmin(c, user, password)
      PROVE  ToldOK'
  BY <1>7 DEF EnsureAdmin, GoOn
<1>8. ASSUME NEW c \in Commands, Die(c) PROVE ToldOK'
  BY <1>8 DEF Die, GoOn
<1>9. CASE UNCHANGED vars
  BY <1>9 DEF vars
<1> QED BY <1>1, <1>2, <1>3, <1>4, <1>5, <1>6, <1>7, <1>8, <1>9 DEF Next

LEMMA SaneStep == TypeOK /\ Prepared /\ ThresholdsSane /\ [Next]_vars => ThresholdsSane'
<1> SUFFICES ASSUME TypeOK, Prepared, ThresholdsSane, [Next]_vars PROVE ThresholdsSane'
  OBVIOUS
<1> USE DEF ThresholdsSane
<1>1. ASSUME NEW c \in Commands, NEW port \in Ports \cup {BadPort}, InitStat(c, port)
      PROVE  ThresholdsSane'
  BY <1>1 DEF InitStat, GoOn, StartWriter
<1>2. ASSUME NEW c \in Commands, InitSave(c) PROVE ThresholdsSane'
  BY <1>2 DEF InitSave, GoOn
<1>3. ASSUME NEW c \in Commands, NEW key \in SetKeys, NEW value \in Values(key),
             ConfigSet(c, key, value)
      PROVE  ThresholdsSane'
  BY <1>3 DEF ConfigSet, GoOn, StartWriter
<1>4. ASSUME NEW c \in Commands, Truncate(c) PROVE ThresholdsSane'
  <2>1. DOMAIN NoConfig # KeySet
    BY DEF NoConfig, KeySet
  <2> QED BY <1>4, <2>1 DEF Truncate
<1>5. ASSUME NEW c \in Commands, Write(c) PROVE ThresholdsSane'
  <2>1. CASE file' = cfg[c]
    <3>1. cfg[c] \in Config /\ Valid(cfg[c])
      BY <1>5 DEF Write, TypeOK, Prepared, Writing
    <3> QED BY <2>1, <3>1 DEF Valid, AtMost, Config, Levels, NaN
  <2>2. CASE file' = NoConfig
    <3>1. DOMAIN NoConfig # KeySet
      BY DEF NoConfig, KeySet
    <3> QED BY <2>2, <3>1
  <2> QED BY <1>5, <2>1, <2>2 DEF Write
<1>6. ASSUME NEW c \in Commands, NEW kind \in {"create-admin", "reset-password"}, AdminStart(c, kind)
      PROVE  ThresholdsSane'
  BY <1>6 DEF AdminStart, GoOn
<1>7. ASSUME NEW c \in Commands, NEW user \in Users, NEW password \in Passwords \cup {"short"},
             EnsureAdmin(c, user, password)
      PROVE  ThresholdsSane'
  BY <1>7 DEF EnsureAdmin, GoOn
<1>8. ASSUME NEW c \in Commands, Die(c) PROVE ThresholdsSane'
  <2>1. CASE pc[c] # "write"
    BY <1>8, <2>1 DEF Die
  <2>2. CASE pc[c] = "write"
    <3>1. PICK n \in 0 .. Len(Keys) - 1 :
                 file' = [key \in {Keys[i] : i \in 1 .. n} |-> cfg[c][key]]
      BY <1>8, <2>2 DEF Die
    <3>2. "critical" \notin {Keys[i] : i \in 1 .. n}
      BY DEF Keys
    <3> QED BY <3>1, <3>2 DEF KeySet
  <2> QED BY <2>1, <2>2
<1>9. CASE UNCHANGED vars
  BY <1>9 DEF vars
<1> QED BY <1>1, <1>2, <1>3, <1>4, <1>5, <1>6, <1>7, <1>8, <1>9 DEF Next

LEMMA SettledStep == TypeOK /\ Prepared /\ Settled /\ [Next]_vars => Settled'
<1> SUFFICES ASSUME TypeOK, Prepared, Settled, [Next]_vars PROVE Settled'
  OBVIOUS
<1> USE DEF Settled
<1>0. PcOK
  BY TypeParts
<1>1. ASSUME NEW c \in Commands, NEW port \in Ports \cup {BadPort}, InitStat(c, port)
      PROVE  Settled'
  <2>1. form' = "none" => told' = NoConfig
    BY <1>0, <1>1 DEF InitStat, GoOn, StartWriter, PcOK, Writing, Prepared
  <2>2. raced' = 0 => OneWriter'
    BY <1>0, <1>1 DEF InitStat, GoOn, StartWriter, PcOK, Writing, Prepared, OneWriter
  <2>3. ASSUME raced' = 0, NEW d \in Writing' PROVE Holds(d)'
    BY <1>0, <1>1, <2>3 DEF InitStat, GoOn, StartWriter, PcOK, Writing, Prepared, Holds
  <2>4. raced' = 0 => FileSays'
    BY <1>0, <1>1 DEF InitStat, GoOn, StartWriter, PcOK, Writing, Prepared, FileSays
  <2> QED BY <2>1, <2>2, <2>3, <2>4
<1>2. ASSUME NEW c \in Commands, InitSave(c) PROVE Settled'
  <2>1. form' = "none" => told' = NoConfig
    BY <1>0, <1>2 DEF InitSave, GoOn, StartWriter, PcOK, Writing, Prepared
  <2>2. raced' = 0 => OneWriter'
    BY <1>0, <1>2 DEF InitSave, GoOn, StartWriter, PcOK, Writing, Prepared, OneWriter
  <2>3. ASSUME raced' = 0, NEW d \in Writing' PROVE Holds(d)'
    BY <1>0, <1>2, <2>3 DEF InitSave, GoOn, StartWriter, PcOK, Writing, Prepared, Holds
  <2>4. raced' = 0 => FileSays'
    BY <1>0, <1>2 DEF InitSave, GoOn, StartWriter, PcOK, Writing, Prepared, FileSays
  <2> QED BY <2>1, <2>2, <2>3, <2>4
<1>3. ASSUME NEW c \in Commands, NEW key \in SetKeys, NEW value \in Values(key),
             ConfigSet(c, key, value)
      PROVE  Settled'
  <2>1. form' = "none" => told' = NoConfig
    BY <1>0, <1>3 DEF ConfigSet, GoOn, StartWriter, PcOK, Writing, Prepared
  <2>2. raced' = 0 => OneWriter'
    BY <1>0, <1>3 DEF ConfigSet, GoOn, StartWriter, PcOK, Writing, Prepared, OneWriter
  <2>3. ASSUME raced' = 0, NEW d \in Writing' PROVE Holds(d)'
    <3>1. Writing = {} /\ raced = 0 /\ d = c
      BY <1>0, <1>3, <2>3 DEF ConfigSet, GoOn, StartWriter, PcOK, Writing
    <3>2. \A k \in DOMAIN told : k \in KeySet /\ Loaded(c)[k] = told[k]
      BY <3>1 DEF FileSays, Writing, TypeOK, Loaded
    <3>3. Loaded(c) \in Config /\ DOMAIN Loaded(c) = KeySet
      BY LoadedType DEF Loaded
    <3>4. cfg'[c] = [Loaded(c) EXCEPT ![key] = value]
      BY <1>3 DEF ConfigSet, GoOn, Prepared
    <3>5. pc'[c] = "save" /\ job'[c] = [kind |-> "set", key |-> key] /\ told' = told
      BY <1>0, <1>3 DEF ConfigSet, GoOn, StartWriter, PcOK, Prepared
    <3> QED BY <3>1, <3>2, <3>3, <3>4, <3>5 DEF Holds
  <2>4. raced' = 0 => FileSays'
    BY <1>0, <1>3 DEF ConfigSet, GoOn, StartWriter, PcOK, Writing, Prepared, FileSays
  <2> QED BY <2>1, <2>2, <2>3, <2>4
<1>4. ASSUME NEW c \in Commands, Truncate(c) PROVE Settled'
  <2>1. form' = "none" => told' = NoConfig
    BY <1>0, <1>4 DEF Truncate, GoOn, StartWriter, PcOK, Writing, Prepared
  <2>2. raced' = 0 => OneWriter'
    BY <1>0, <1>4 DEF Truncate, GoOn, StartWriter, PcOK, Writing, Prepared, OneWriter
  <2>3. ASSUME raced' = 0, NEW d \in Writing' PROVE Holds(d)'
    BY <1>0, <1>4, <2>3 DEF Truncate, GoOn, StartWriter, PcOK, Writing, Prepared, Holds
  <2>4. raced' = 0 => FileSays'
    BY <1>0, <1>4 DEF Truncate, GoOn, StartWriter, PcOK, Writing, Prepared, FileSays
  <2> QED BY <2>1, <2>2, <2>3, <2>4
<1>5. ASSUME NEW c \in Commands, Write(c) PROVE Settled'
  <2>1. form' = "none" => told' = NoConfig
    BY <1>0, <1>5 DEF Write, GoOn, StartWriter, PcOK, Writing, Prepared
  <2>2. raced' = 0 => OneWriter'
    BY <1>0, <1>5 DEF Write, GoOn, StartWriter, PcOK, Writing, Prepared, OneWriter
  <2>3. ASSUME raced' = 0, NEW d \in Writing' PROVE Holds(d)'
    <3>1. d \in Writing /\ d # c /\ c \in Writing /\ raced = 0
      BY <1>0, <1>5, <2>3 DEF Write, GoOn, PcOK, Writing
    <3> QED BY <3>1 DEF OneWriter
  <2>4. raced' = 0 => FileSays'
    <3> SUFFICES ASSUME raced' = 0, NEW key \in DOMAIN told'
                 PROVE  key \in DOMAIN file' /\ file'[key] = told'[key]
      BY DEF FileSays
    <3>1. raced = 0 /\ c \in Writing /\ Holds(c) /\ cfg[c] \in Config
      BY <1>5 DEF Write, Writing, TypeOK
    <3>2. file' = cfg[c]
      BY <1>5, <3>1 DEF Write, Holds
    <3>3. DOMAIN cfg[c] = KeySet
      BY <3>1 DEF Config, KeySet
    <3>4. job[c].kind = "set" \/ (job[c].kind = "init" /\ told = NoConfig)
      BY <3>1 DEF Prepared, Holds
    <3>5. Reports(c) \subseteq KeySet
      BY <3>1 DEF Reports, Prepared, Jobs, SetKeys, KeySet
    <3>6. DOMAIN NoConfig = {}
      BY DEF NoConfig
    <3>7. CASE key \in Reports(c)
      BY <1>5, <3>2, <3>3, <3>5, <3>7 DEF Write
    <3>8. CASE key \notin Reports(c)
      <4>1. key \in DOMAIN told /\ told'[key] = told[key]
        BY <1>5, <3>8 DEF Write
      <4>2. job[c].kind = "set" /\ key # job[c].key
        BY <3>4, <3>6, <3>8, <4>1 DEF Reports
      <4>3. key \in KeySet /\ cfg[c][key] = told[key]
        BY <3>1, <4>1, <4>2 DEF Holds, TypeOK
      <4> QED BY <3>2, <3>3, <4>1, <4>3
    <3> QED BY <3>7, <3>8
  <2> QED BY <2>1, <2>2, <2>3, <2>4
<1>6. ASSUME NEW c \in Commands, NEW kind \in {"create-admin", "reset-password"}, AdminStart(c, kind)
      PROVE  Settled'
  <2>1. form' = "none" => told' = NoConfig
    BY <1>0, <1>6 DEF AdminStart, GoOn, StartWriter, PcOK, Writing, Prepared
  <2>2. raced' = 0 => OneWriter'
    BY <1>0, <1>6 DEF AdminStart, GoOn, StartWriter, PcOK, Writing, Prepared, OneWriter
  <2>3. ASSUME raced' = 0, NEW d \in Writing' PROVE Holds(d)'
    BY <1>0, <1>6, <2>3 DEF AdminStart, GoOn, StartWriter, PcOK, Writing, Prepared, Holds
  <2>4. raced' = 0 => FileSays'
    BY <1>0, <1>6 DEF AdminStart, GoOn, StartWriter, PcOK, Writing, Prepared, FileSays
  <2> QED BY <2>1, <2>2, <2>3, <2>4
<1>7. ASSUME NEW c \in Commands, NEW user \in Users, NEW password \in Passwords \cup {"short"},
             EnsureAdmin(c, user, password)
      PROVE  Settled'
  <2>1. form' = "none" => told' = NoConfig
    BY <1>0, <1>7 DEF EnsureAdmin, GoOn, StartWriter, PcOK, Writing, Prepared
  <2>2. raced' = 0 => OneWriter'
    BY <1>0, <1>7 DEF EnsureAdmin, GoOn, StartWriter, PcOK, Writing, Prepared, OneWriter
  <2>3. ASSUME raced' = 0, NEW d \in Writing' PROVE Holds(d)'
    BY <1>0, <1>7, <2>3 DEF EnsureAdmin, GoOn, StartWriter, PcOK, Writing, Prepared, Holds
  <2>4. raced' = 0 => FileSays'
    BY <1>0, <1>7 DEF EnsureAdmin, GoOn, StartWriter, PcOK, Writing, Prepared, FileSays
  <2> QED BY <2>1, <2>2, <2>3, <2>4
<1>8. ASSUME NEW c \in Commands, Die(c) PROVE Settled'
  <2>1. form' = "none" => told' = NoConfig
    BY <1>0, <1>8 DEF Die, GoOn, StartWriter, PcOK, Writing, Prepared
  <2>2. raced' = 0 => OneWriter'
    BY <1>0, <1>8 DEF Die, GoOn, StartWriter, PcOK, Writing, Prepared, OneWriter
  <2>3. ASSUME raced' = 0, NEW d \in Writing' PROVE Holds(d)'
    BY <1>0, <1>8, <2>3 DEF Die, GoOn, StartWriter, PcOK, Writing, Prepared, Holds
  <2>4. raced' = 0 => FileSays'
    BY <1>0, <1>8 DEF Die, GoOn, StartWriter, PcOK, Writing, Prepared, FileSays
  <2> QED BY <2>1, <2>2, <2>3, <2>4
<1>9. CASE UNCHANGED vars
  BY <1>9 DEF vars, Writing, OneWriter, Holds, FileSays
<1> QED BY <1>1, <1>2, <1>3, <1>4, <1>5, <1>6, <1>7, <1>8, <1>9 DEF Next

-----------------------------------------------------------------------------
\* Theorems.

IInv == TypeOK /\ Prepared /\ ThresholdsSane /\ Settled

LEMMA InitInv == Init => IInv
<1> SUFFICES ASSUME Init PROVE IInv
  OBVIOUS
<1>1. Writing = {} /\ DOMAIN NoConfig = {} /\ DOMAIN file = {} /\ DOMAIN admins = {}
  BY DEF Init, Writing, NoConfig
<1>2. Prepared
  BY <1>1 DEF Init, Prepared, Jobs, NoJob
<1>3. \A c \in Commands : Default(c) \in Config
  BY DraftFacts
<1>4. PcOK /\ AdminsOK /\ CountsOK /\ ToldOK
  BY <1>1, AppDirAssumption DEF Init, PcOK, AdminsOK, CountsOK, ToldOK
<1>5. \E k \in Config : \A key \in DOMAIN file : file[key] = k[key]
  BY <1>1, <1>3, AppDirAssumption DEF Init
<1>6. FileOK
  BY <1>1, <1>5 DEF Init, FileOK
<1>7. TypeOK
  BY <1>2, <1>4, <1>6, TypeParts
<1>8. ThresholdsSane
  BY <1>1 DEF ThresholdsSane, KeySet
<1>9. Settled
  BY <1>1 DEF Init, Settled, OneWriter, Holds, FileSays
<1> QED BY <1>2, <1>7, <1>8, <1>9 DEF IInv

LEMMA Invariant == Spec => []IInv
<1>1. TypeOK /\ Prepared /\ [Next]_vars => TypeOK'
  <2>1. PcOK /\ FileOK /\ AdminsOK /\ CountsOK /\ ToldOK /\ Prepared => TypeOK
    BY TypeParts
  <2> QED BY <2>1, PreparedStep, PcStep, FileStep, AdminsStep, CountsStep, ToldStep, PTL
<1>2. IInv /\ [Next]_vars => IInv'
  BY <1>1, PreparedStep, SaneStep, SettledStep DEF IInv
<1> QED BY InitInv, <1>2, PTL DEF Spec

\* Every variable of AppDir keeps its type: what init and config set save is a whole
\* Config, and no administrator has a password that is too short.
THEOREM TypeCorrect == Spec => []TypeOK
<1>1. IInv => TypeOK
  BY DEF IInv
<1> QED BY Invariant, <1>1, PTL

\* Validate and Save: however commands overlap or are killed, a complete file never
\* holds thresholds that are numbers and out of order.
THEOREM ThresholdsInOrder == Spec => []ThresholdsSane
<1>1. IInv => ThresholdsSane
  BY DEF IInv
<1> QED BY Invariant, <1>1, PTL

\* Load after Save: what was reported as saved is loaded by whoever comes later.
THEOREM SettingsAreKept == Spec => []SettingsKept
<1>1. ASSUME IInv, raced = 0, \A c \in Commands : pc[c] # "write",
             NEW c \in Commands, NEW key \in DOMAIN told
      PROVE  Loaded(c)[key] = told[key]
  BY <1>1 DEF IInv, Settled, FileSays, TypeOK, Loaded
<1>2. IInv => SettingsKept
  BY <1>1 DEF SettingsKept
<1> QED BY Invariant, <1>2, PTL

=============================================================================
