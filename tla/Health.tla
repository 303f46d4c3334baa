------------------------------- MODULE Health -------------------------------
(***************************************************************************)
(* How a collection becomes health levels, and two consecutive ones become *)
(* events: Threshold.Evaluate, the aggregates over disks and services,     *)
(* OverallStatus, and EmitEvents with its comparison by service name.      *)
(* Sampler.tla takes the levels as given and reduces EmitEvents to the set *)
(* of subjects that changed; here they are computed as the code does, from *)
(* readings of which any may fail, and over restarts between which the     *)
(* list of tracked services may have been configured anew.                 *)
(***************************************************************************)
EXTENDS Integers, Sequences, FiniteSets, SequencesExt

CONSTANTS Warning, Critical, \* thresholds, the same for every resource
          CPUReadings, MemoryReadings, DiskReadings, \* percentages, or Failed;
                             \* for the CPU also Empty
          MaxDisks,          \* bound: mount points
          States,            \* ActiveState, as systemd names it
          TrackedLists       \* lists of tracked services that may be configured

ASSUME HealthAssumption ==
  /\ Warning \in Int /\ Critical \in Int /\ 0 < Warning /\ Warning < Critical
  /\ MemoryReadings \cup DiskReadings \subseteq Nat \cup {-1}
  /\ CPUReadings \subseteq Nat \cup {-1, -2}
  /\ MaxDisks \in Nat
  /\ "absent" \notin States
  /\ \A tracked \in TrackedLists : tracked \in Seq(STRING)

VARIABLES prev, \* `previous` of StartBackground, or the zero snapshot
          cur   \* the snapshot just collected

vars == <<prev, cur>>

Failed == -1                  \* a reading that could not be taken, with an error
Empty == -2                   \* no percentage of the CPU, and no error either
Absent == "absent"            \* the zero Status: not known
Unread == "unread"            \* State "" of a service that systemctl did not show

Aggregates == <<"cpu", "memory", "disk", "services">>

-----------------------------------------------------------------------------
\* types.go and collector.go: levels.

\* Threshold.Evaluate
Evaluate(value) ==
  IF value >= Critical THEN "critical" ELSE IF value >= Warning THEN "warning" ELSE "healthy"

\* Mutant of Level: a failed reading counts as the zero it leaves behind.
LevelOfZero(reading) == Evaluate(IF reading \in {Failed, Empty} THEN 0 ELSE reading)

\* Collect and collectDisks: what fails with an error is unknown; an empty list of
\* percentages leaves the zero of the field, which is evaluated.
Level(reading) ==
  IF reading = Failed THEN "unknown" ELSE Evaluate(IF reading = Empty THEN 0 ELSE reading)

serviceStatus(state) ==
  CASE state = "active" -> "healthy"
    [] state \in {"activating", "reloading"} -> "warning"
    [] state \in {"failed", "inactive", "deactivating"} -> "critical"
    [] OTHER -> "unknown"

\* Mutant of rank: unknown is ranked above a warning.
rankUnknownFirst(status) ==
  CASE status = "critical" -> 4 [] status = "unknown" -> 3 [] status = "warning" -> 2 [] OTHER -> 1

\* rank, and statusRank but for the zero Status, which no collection leaves.
rank(status) ==
  CASE status = "critical" -> 4 [] status = "warning" -> 3 [] status = "unknown" -> 2 [] OTHER -> 1

Worse(status, other) == IF rank(other) > rank(status) THEN other ELSE status

\* Mutant of aggregateDiskStatus: `var status app.Status`.
aggregateFromZero(disks) ==
  IF disks = <<>> THEN "unknown" ELSE FoldLeft(Worse, Absent, disks)

aggregateDiskStatus(disks) ==
  IF disks = <<>> THEN "unknown" ELSE FoldLeft(Worse, "healthy", disks)

aggregateServiceStatus(services) ==
  FoldLeft(Worse, "healthy", [i \in DOMAIN services |-> services[i].status])

\* OverallStatus: the first of the four after sorting by rank.
OverallStatus(snap) ==
  CHOOSE s \in ToSet(snap.status) : \A t \in ToSet(snap.status) : rank(t) <= rank(s)

-----------------------------------------------------------------------------
\* Collect

\* A snapshot from its readings; `other` is 1 when the uptime or the network
\* could not be read. unseen is no part of HostSnapshot: how many of the
\* readings failed with an error, or were not there for a service.
Snapshot(cpu, memory, disks, services, other) ==
  LET levels == [i \in DOMAIN disks |-> Level(disks[i])]
  IN  [status |-> <<Level(cpu), Level(memory), aggregateDiskStatus(levels),
                    aggregateServiceStatus(services)>>,
       disks |-> levels,
       services |-> services,
       errors |-> IF Failed \in {cpu, memory} \/ other = 1 THEN "failing" ELSE "ok",
       unseen |-> Cardinality({i \in 1 .. 2 : <<cpu, memory>>[i] = Failed})
                    + Cardinality({i \in DOMAIN disks : disks[i] = Failed})
                    + Cardinality({i \in DOMAIN services : services[i].state = Unread})]

\* collectServices: one entry per tracked name, in that order.
ServicesOf(tracked) ==
  {[i \in DOMAIN tracked |-> [name |-> tracked[i], state |-> f[i], status |-> serviceStatus(f[i])]] :
     f \in [DOMAIN tracked -> States \cup {Unread}]}

DiskLists == UNION {[1 .. n -> DiskReadings] : n \in 0 .. MaxDisks}

Snapshots ==
  {Snapshot(cpu, memory, disks, services, other) :
     cpu \in CPUReadings, memory \in MemoryReadings, disks \in DiskLists,
     services \in UNION {ServicesOf(tracked) : tracked \in TrackedLists}, other \in {0, 1}}

ZeroSnapshot == [status |-> [i \in DOMAIN Aggregates |-> Absent], disks |-> <<>>,
                 services |-> <<>>, errors |-> "ok", unseen |-> 0]

Init == prev = ZeroSnapshot /\ cur \in Snapshots

\* The next collection, of this process or of one that was configured anew and
\* has read cur back from the table.
Collect == prev' = cur /\ cur' \in Snapshots

Next == Collect

Spec == Init /\ [][Next]_vars

-----------------------------------------------------------------------------
\* EmitEvents

\* prevServices[name].State: the last entry of that name.
PrevState(before, name) ==
  LET at == {i \in DOMAIN before.services : before.services[i].name = name}
  IN  IF at = {} THEN Absent
      ELSE before.services[CHOOSE i \in at : \A j \in at : j <= i].state

\* The kind and the Source of an event; a service may have any name.
LevelsCompared(before, after) ==
  [i \in DOMAIN Aggregates |->
     [subject |-> <<"threshold", Aggregates[i]>>,
      from |-> before.status[i], to |-> after.status[i]]]
ErrorsCompared(before, after) ==
  <<[subject |-> <<"collector", "collector">>, from |-> before.errors, to |-> after.errors]>>

\* Mutant of Compared: services are compared by position.
ComparedByPosition(before, after) ==
  LevelsCompared(before, after)
  \o [i \in DOMAIN after.services |->
       [subject |-> <<"service", after.services[i].name>>,
        from |-> IF i \in DOMAIN before.services THEN before.services[i].state ELSE Absent,
        to |-> after.services[i].state]]
  \o ErrorsCompared(before, after)

\* What is compared, in this order: the four levels, each service now tracked
\* with its namesake, and whether there were errors.
Compared(before, after) ==
  LevelsCompared(before, after)
  \o [i \in DOMAIN after.services |->
       [subject |-> <<"service", after.services[i].name>>,
        from |-> PrevState(before, after.services[i].name),
        to |-> after.services[i].state]]
  \o ErrorsCompared(before, after)

AppendChange(events, item) ==
  IF item.from # Absent /\ item.from # item.to THEN Append(events, item) ELSE events

EmitEvents(before, after) == FoldLeft(AppendChange, <<>>, Compared(before, after))
-----------------------------------------------------------------------------
\* Properties.

Severity == <<"healthy", "unknown", "warning", "critical">>
Statuses == ToSet(Severity)

TypeOK ==
  /\ \A snap \in {prev, cur} :
       /\ snap.status \in [DOMAIN Aggregates -> Statuses \cup {Absent}]
       /\ ToSet(snap.disks) \subseteq Statuses
       /\ \A i \in DOMAIN snap.services :
            snap.services[i].status \in Statuses /\ snap.services[i].state \in States \cup {Unread}
       /\ snap.errors \in {"ok", "failing"} /\ snap.unseen \in Nat
  /\ Absent \notin ToSet(cur.status)

\* s is the most severe of all.
Worst(s, all) ==
  \E i \in DOMAIN Severity : Severity[i] = s /\ s \in all
    /\ \A j \in DOMAIN Severity : j > i => Severity[j] \notin all

\* Whatever the order of disks and services, the level shown for them and for the
\* host is the most severe there is: something unknown never hides an alarm, and
\* is not hidden by what is healthy.
WorstShown ==
  /\ cur.disks # <<>> => Worst(cur.status[3], ToSet(cur.disks))
  /\ cur.services # <<>> =>
       Worst(cur.status[4], {cur.services[i].status : i \in DOMAIN cur.services})
  /\ Worst(OverallStatus(cur), ToSet(cur.status))

\* A host is not shown as healthy when reading the processor, the memory, any disk
\* or the list of disks gave an error, there are no disks, or systemctl did not show
\* a tracked service.  The exception is the code's own: with no percentage of the
\* processor and no error it shows 0 %, which is healthy.
BlindNotHealthy ==
  cur.unseen > 0 \/ cur.disks = <<>> => OverallStatus(cur) # "healthy"

\* What a snapshot says of each subject, services by name; it says nothing of a
\* service that is not tracked, and the zero snapshot nothing of any level.
Subjects(snap) == {<<"threshold", Aggregates[i]>> : i \in DOMAIN Aggregates}
                    \cup {<<"collector", "collector">>}
                    \cup {<<"service", snap.services[i].name>> : i \in DOMAIN snap.services}
EntriesOf(snap, subject) ==
  {i \in DOMAIN snap.services : <<"service", snap.services[i].name>> = subject}
Says(snap, subject) ==
  CASE subject[1] = "threshold" ->
         {snap.status[i] : i \in {j \in DOMAIN Aggregates : Aggregates[j] = subject[2]}} \ {Absent}
    [] subject[1] = "service" -> {snap.services[i].state : i \in EntriesOf(snap, subject)}
    [] OTHER -> {snap.errors}

EventsOf(subject, events) == {i \in DOMAIN events : events[i].subject = subject}

\* Events are what Sampler takes them to be: one for each subject of which the two
\* snapshots say different things, with both of them, and none for the others,
\* in spite of services that were added, dropped or put in another order.
\* A name that is tracked twice is left out: EmitEvents sees its last entry only.
FeedFaithful ==
  LET events == EmitEvents(prev, cur)
  IN  /\ \A i \in DOMAIN events : events[i].subject \in Subjects(cur)
      /\ \A subject \in Subjects(cur) :
           (\A snap \in {prev, cur} : \A i, j \in EntriesOf(snap, subject) : i = j) =>
             /\ \A i, j \in EventsOf(subject, events) : i = j
             /\ {<<events[i].from, events[i].to>> : i \in EventsOf(subject, events)}
                  = {ends \in Says(prev, subject) \X Says(cur, subject) : ends[1] # ends[2]}
=============================================================================
