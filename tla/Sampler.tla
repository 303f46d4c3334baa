------------------------------- MODULE Sampler -------------------------------
(***************************************************************************)
(* The life of one DiMonitorin server process and of the samples and       *)
(* events it leaves in SQLite: the bootstrap sample, the background loop   *)
(* that samples, reports transitions and prunes, the HTTP handlers that    *)
(* read the latest sample (and collect one when the table is empty), the   *)
(* cancellation of their contexts, SIGTERM, crashes, failing database      *)
(* calls, and the restart by systemd.                                      *)
(*                                                                         *)
(* A snapshot is reduced to what EmitEvents compares: one observation per  *)
(* subject.  Subjects are numbered in the order in which EmitEvents lists  *)
(* them (cpu, memory, disk, services, each tracked service); the last one  *)
(* is the collector itself, "ok" while snap.Errors is empty.               *)
(***************************************************************************)
EXTENDS Integers, FiniteSets

CONSTANTS Handlers,     \* HTTP clients, each with at most one request under way
          NSubjects,    \* number of subjects, the collector included
          Statuses,     \* what a subject other than the collector may be
          Retention,    \* retention.days, in units of the logical clock
          MaxTime,      \* bound: later no time passes and no sample ticker fires
          MaxClock,     \* bound: no request starts later
          MaxFaults     \* bound: failing database calls, signals and crashes

ASSUME SamplerAssumption ==
  /\ NSubjects \in Nat \ {0}
  /\ Retention \in Nat \ {0}          \* Config.Validate rejects less
  /\ MaxTime \in Nat /\ MaxClock \in Nat
  /\ MaxFaults \in Nat
  /\ "absent" \notin Statuses
  /\ "main" \notin Handlers
  /\ "bg" \notin Handlers

Main == "main"                        \* cmdRun, up to the bootstrap sample
Bg == "bg"                            \* the goroutine of StartBackground
Procs == Handlers \cup {Main, Bg}

Subjects == 1 .. NSubjects
Collector == NSubjects
Absent == "absent"                    \* the zero Status "": nothing to compare with

Observations == {obs \in [Subjects -> Statuses \cup {"ok", "failing"}] :
                   \A i \in Subjects : (obs[i] \in {"ok", "failing"}) <=> (i = Collector)}

\* `var previous app.HostSnapshot`: no status, no service, no error.
ZeroObs == [i \in Subjects |-> IF i = Collector THEN "ok" ELSE Absent]

\* `ctx` remembers whether the context was still live when Collect ended.
Sample == [ts : Nat, obs : Observations, ctx : {"live", "cancelled"}]
Event == [subject : Subjects, from : Statuses \cup {"ok", "failing"},
          to : Statuses \cup {"ok", "failing"}, at : Nat]
NoSnap == [ts |-> 0, obs |-> ZeroObs, ctx |-> "live"]

VARIABLES
  clock,      \* logical time; each Collect takes an instant of its own
  samples,    \* table metric_samples
  events,     \* table events
  phase,      \* "down", "boot" (BootstrapSample), "seed" (first read of
              \* StartBackground, requests are served), "loop"
  pc,         \* where each process is
  snap,       \* the snapshot each process is working on
  previous,   \* StartBackground's `previous`, its observations
  pending,    \* subjects of EmitEvents' result still to be stored
  cutoff,     \* Prune's `cutoff`, between its two statements
  cancelled,  \* processes whose context is cancelled
  ticks,      \* tickers in whose channel a tick waits: "sample" (ticker.C),
              \* "prune" (pruneTicker.C); one slot each, further ticks dropped
  shown,      \* newest timestamp each client has been shown
  faults,     \* faults spent
  gap         \* history: subjects whose chain of events may be broken

durable == <<clock, samples, events>>
bgVars == <<previous, pending, cutoff>>
vars == <<durable, phase, pc, snap, bgVars, cancelled, ticks, shown, faults, gap>>

Init ==
  /\ clock = 0 /\ samples = {} /\ events = {}
  /\ phase = "down"
  /\ pc = [p \in Procs |-> "idle"]
  /\ snap = [p \in Procs |-> NoSnap]
  /\ previous = ZeroObs /\ pending = {} /\ cutoff = 0
  /\ cancelled = {}
  /\ ticks = {}
  /\ shown = [h \in Handlers |-> 0]
  /\ faults = 0 /\ gap = {}

-----------------------------------------------------------------------------
\* Pieces of the handlers and of the loop.

\* The process has received SIGTERM: the loop's context is cancelled, the
\* server is shutting down, the store may already be closed.
Stopping == Bg \in cancelled

\* A statement under a cancelled context, or while the store is being closed,
\* may fail at no cost; any other failure is a fault (SQLITE_BUSY, disk full).
Fails(p) ==
  IF p \in cancelled \/ Stopping
    THEN UNCHANGED faults
    ELSE faults < MaxFaults /\ faults' = faults + 1

\* Mutant of LatestSample: ascending order.
OldestSample(s) == \A other \in samples : other.ts >= s.ts

\* SELECT ... ORDER BY ts DESC LIMIT 1
LatestSample(s) == \A other \in samples : other.ts <= s.ts

\* Mutant of InsertSample: context.Background() instead of ctx.
InsertSampleDetached(p) == samples' = samples \cup {snap[p]}

\* INSERT INTO metric_samples, refused under a cancelled context.
InsertSample(p) ==
  /\ p \notin cancelled
  /\ samples' = samples \cup {snap[p]}

\* Collect: `snap.CollectedAt` is read on entry.
StartCollect(p) ==
  /\ clock' = clock + 1
  /\ snap' = [snap EXCEPT ![p].ts = clock + 1]
  /\ pc' = [pc EXCEPT ![p] = "collect"]

\* Mutant of Transitions: without `item.prev != ""`.
TransitionsFromZero(prev, cur) == {i \in Subjects : prev[i] # cur[i]}

\* EmitEvents: the subjects whose observation differs from a known one.
Transitions(prev, cur) == {i \in Subjects : prev[i] # Absent /\ prev[i] # cur[i]}

\* The process is gone: everything but the tables is lost.
GoDown ==
  /\ phase' = "down"
  /\ pc' = [p \in Procs |-> "idle"]
  /\ snap' = [p \in Procs |-> NoSnap]
  /\ previous' = ZeroObs /\ pending' = {} /\ cutoff' = 0
  /\ cancelled' = {}
  /\ ticks' = {}
  /\ gap' = gap \cup pending
  /\ UNCHANGED <<durable, shown>>

-----------------------------------------------------------------------------
\* latestSnapshot, called by cmdRun (BootstrapSample), by StartBackground for
\* its first `previous`, and by the page and partial handlers.

\* The sample reaches the caller.
Return(p, s) ==
  \/ /\ p = Main                      \* go server.StartBackground(ctx)
     /\ phase' = "seed"
     /\ pc' = [pc EXCEPT ![Main] = "idle", ![Bg] = "read"]
     /\ UNCHANGED <<previous, shown>>
  \/ /\ p = Bg                        \* previous = current
     /\ phase' = "loop"
     /\ pc' = [pc EXCEPT ![Bg] = "select"]
     /\ previous' = s.obs
     /\ UNCHANGED shown
  \/ /\ p \in Handlers                \* the page is rendered
     /\ pc' = [pc EXCEPT ![p] = "idle"]
     /\ shown' = [shown EXCEPT ![p] = s.ts]
     /\ UNCHANGED <<phase, previous>>

ReadFound(p) ==
  /\ pc[p] = "read" /\ p \notin cancelled
  /\ \E s \in samples : LatestSample(s) /\ Return(p, s)
  /\ UNCHANGED <<durable, snap, pending, cutoff, cancelled, ticks, faults, gap>>

\* Mutant of ReadEmpty: BootstrapSample reports the empty table as an error.
ReadEmptyOrGiveUp(p) ==
  /\ pc[p] = "read" /\ p \notin cancelled
  /\ samples = {}
  /\ IF p = Main
       THEN GoDown /\ UNCHANGED faults
       ELSE /\ StartCollect(p)
            /\ UNCHANGED <<samples, events, phase, bgVars, cancelled, ticks, shown, faults, gap>>

\* sql.ErrNoRows: collect a first sample here.
ReadEmpty(p) ==
  /\ pc[p] = "read" /\ p \notin cancelled
  /\ samples = {}
  /\ StartCollect(p)
  /\ UNCHANGED <<samples, events, phase, bgVars, cancelled, ticks, shown, faults, gap>>

Ctx(p) == IF p \in cancelled THEN "cancelled" ELSE "live"

\* The rest of Collect.  Under a cancelled context the probes that honour it
\* fail, so what is observed need not be the state of the host.
FinishCollect(p) ==
  /\ pc[p] = "collect"
  /\ \E obs \in Observations :
       snap' = [snap EXCEPT ![p] = [ts |-> @.ts, obs |-> obs, ctx |-> Ctx(p)]]
  /\ pc' = [pc EXCEPT ![p] = "insert"]
  /\ UNCHANGED <<durable, phase, bgVars, cancelled, ticks, shown, faults, gap>>

\* latestSnapshot stores what it collected and returns it.  The loop does not
\* learn of a sample a handler stores, so a later restart may compare with it.
InsertFirst(p) ==
  /\ pc[p] = "insert" /\ ~(p = Bg /\ phase = "loop")
  /\ InsertSample(p)
  /\ Return(p, snap[p])
  /\ snap' = [snap EXCEPT ![p] = NoSnap]
  /\ gap' = gap \cup (IF p \in Handlers THEN Subjects ELSE {e.subject : e \in events})
  /\ UNCHANGED <<clock, events, pending, cutoff, cancelled, ticks, faults>>

\* latestSnapshot fails, reading or inserting: StartBackground goes on with the
\* zero snapshot, a handler answers 500.
SnapshotError(p) ==
  /\ p # Main
  /\ pc[p] \in {"read", "insert"} /\ ~(p = Bg /\ phase = "loop")
  /\ Fails(p)
  /\ snap' = [snap EXCEPT ![p] = NoSnap]
  /\ IF p = Bg
       THEN /\ phase' = "loop"
            /\ pc' = [pc EXCEPT ![Bg] = "select"]
            /\ gap' = Subjects
       ELSE /\ pc' = [pc EXCEPT ![p] = "idle"]
            /\ UNCHANGED <<phase, gap>>
  /\ UNCHANGED <<durable, bgVars, cancelled, ticks, shown>>

-----------------------------------------------------------------------------
\* The process: started by systemd, stopped by a signal or a fault.

Start ==
  /\ phase = "down"
  /\ phase' = "boot"
  /\ pc' = [pc EXCEPT ![Main] = "read"]
  /\ UNCHANGED <<durable, snap, bgVars, cancelled, ticks, shown, faults, gap>>

\* BootstrapSample fails and cmdRun returns the error.
BootError ==
  /\ pc[Main] \in {"read", "insert"}
  /\ Fails(Main)
  /\ GoDown

\* SIGTERM once signal.NotifyContext has been installed; before, it kills.
Sigterm ==
  /\ phase \in {"seed", "loop"} /\ ~Stopping
  /\ faults < MaxFaults /\ faults' = faults + 1
  /\ cancelled' = cancelled \cup {Bg}
  /\ UNCHANGED <<durable, phase, pc, snap, bgVars, ticks, shown, gap>>

\* Shutdown makes ListenAndServe return: cmdRun returns without waiting for the
\* loop or for requests.
Exit ==
  /\ Stopping
  /\ GoDown
  /\ UNCHANGED faults

Crash ==
  /\ phase # "down"
  /\ faults < MaxFaults /\ faults' = faults + 1
  /\ GoDown

-----------------------------------------------------------------------------
\* Requests that need the latest sample.

Request(h) ==
  /\ phase \in {"seed", "loop"} /\ pc[h] = "idle"
  /\ clock < MaxClock
  /\ pc' = [pc EXCEPT ![h] = "read"]
  /\ cancelled' = cancelled \ {h}
  /\ UNCHANGED <<durable, phase, snap, bgVars, ticks, shown, faults, gap>>

\* The client goes away: r.Context() is cancelled.
Disconnect(h) ==
  /\ pc[h] # "idle" /\ h \notin cancelled
  /\ cancelled' = cancelled \cup {h}
  /\ UNCHANGED <<durable, phase, pc, snap, bgVars, ticks, shown, faults, gap>>

-----------------------------------------------------------------------------
\* The loop of StartBackground.  Its tickers run from its first line.

TimePasses ==
  /\ clock < MaxTime
  /\ clock' = clock + 1
  /\ UNCHANGED <<samples, events, phase, pc, snap, bgVars, cancelled, ticks, shown, faults, gap>>

TickSample ==
  /\ phase \in {"seed", "loop"} /\ "sample" \notin ticks
  /\ clock < MaxTime
  /\ ticks' = ticks \cup {"sample"}
  /\ UNCHANGED <<durable, phase, pc, snap, bgVars, cancelled, shown, faults, gap>>

TickPrune ==
  /\ phase \in {"seed", "loop"} /\ "prune" \notin ticks
  /\ ticks' = ticks \cup {"prune"}
  /\ UNCHANGED <<durable, phase, pc, snap, bgVars, cancelled, shown, faults, gap>>

\* case <-ctx.Done()
SelectDone ==
  /\ pc[Bg] = "select" /\ Bg \in cancelled
  /\ pc' = [pc EXCEPT ![Bg] = "done"]
  /\ UNCHANGED <<durable, phase, snap, bgVars, cancelled, ticks, shown, faults, gap>>

\* Mutant of SelectSample: the prune ticker is looked at first.
SelectSampleLast ==
  /\ pc[Bg] = "select" /\ "sample" \in ticks /\ "prune" \notin ticks
  /\ ticks' = ticks \ {"sample"}
  /\ StartCollect(Bg)
  /\ UNCHANGED <<samples, events, phase, bgVars, cancelled, shown, faults, gap>>

\* case <-ticker.C
SelectSample ==
  /\ pc[Bg] = "select" /\ "sample" \in ticks
  /\ ticks' = ticks \ {"sample"}
  /\ StartCollect(Bg)
  /\ UNCHANGED <<samples, events, phase, bgVars, cancelled, shown, faults, gap>>

\* InsertSample succeeds: the transitions since `previous` are to be stored.
RecordSample ==
  /\ pc[Bg] = "insert" /\ phase = "loop"
  /\ InsertSample(Bg)
  /\ pending' = Transitions(previous, snap[Bg].obs)
  /\ pc' = [pc EXCEPT ![Bg] = "emit"]
  /\ UNCHANGED <<clock, events, phase, snap, previous, cutoff, cancelled, ticks, shown, faults, gap>>

\* Mutants of DropSample: `previous = snapshot` outside of the if, and events
\* emitted whether or not the sample was stored.
DropSampleButAdvance ==
  /\ pc[Bg] = "insert" /\ phase = "loop"
  /\ Fails(Bg)
  /\ pc' = [pc EXCEPT ![Bg] = "select"]
  /\ snap' = [snap EXCEPT ![Bg] = NoSnap]
  /\ previous' = snap[Bg].obs
  /\ UNCHANGED <<durable, phase, pending, cutoff, cancelled, ticks, shown, gap>>

DropSampleButEmit ==
  /\ pc[Bg] = "insert" /\ phase = "loop"
  /\ Fails(Bg)
  /\ pc' = [pc EXCEPT ![Bg] = "emit"]
  /\ pending' = Transitions(previous, snap[Bg].obs)
  /\ UNCHANGED <<durable, phase, snap, previous, cutoff, cancelled, ticks, shown, gap>>

\* InsertSample fails: the snapshot is dropped, `previous` stays.
DropSample ==
  /\ pc[Bg] = "insert" /\ phase = "loop"
  /\ Fails(Bg)
  /\ pc' = [pc EXCEPT ![Bg] = "select"]
  /\ snap' = [snap EXCEPT ![Bg] = NoSnap]
  /\ UNCHANGED <<durable, phase, bgVars, cancelled, ticks, shown, gap>>

\* The next event in the order of EmitEvents.
IsNext(i) == i \in pending /\ \A j \in pending : i <= j

AddEvent(i) ==
  /\ pc[Bg] = "emit" /\ IsNext(i)
  /\ Bg \notin cancelled
  /\ events' = events \cup {[subject |-> i, from |-> previous[i],
                             to |-> snap[Bg].obs[i], at |-> snap[Bg].ts]}
  /\ pending' = pending \ {i}
  /\ UNCHANGED <<clock, samples, phase, pc, snap, previous, cutoff, cancelled, ticks, shown, faults, gap>>

\* `_ = s.store.AddEvent(...)`: the error is dropped, and the event with it.
LoseEvent(i) ==
  /\ pc[Bg] = "emit" /\ IsNext(i)
  /\ Fails(Bg)
  /\ pending' = pending \ {i}
  /\ gap' = gap \cup {i}
  /\ UNCHANGED <<durable, phase, pc, snap, previous, cutoff, cancelled, ticks, shown>>

\* Mutant of EmitDone: `previous` keeps the first sample of the process.
EmitDoneStale ==
  /\ pc[Bg] = "emit" /\ pending = {}
  /\ snap' = [snap EXCEPT ![Bg] = NoSnap]
  /\ pc' = [pc EXCEPT ![Bg] = "select"]
  /\ UNCHANGED <<durable, phase, previous, pending, cutoff, cancelled, ticks, shown, faults, gap>>

\* previous = snapshot
EmitDone ==
  /\ pc[Bg] = "emit" /\ pending = {}
  /\ previous' = snap[Bg].obs
  /\ snap' = [snap EXCEPT ![Bg] = NoSnap]
  /\ pc' = [pc EXCEPT ![Bg] = "select"]
  /\ UNCHANGED <<durable, phase, pending, cutoff, cancelled, ticks, shown, faults, gap>>

\* case <-pruneTicker.C, and the first statement of Prune.  (The sessions that
\* are purged after it are the subject of another module.)
SelectPrune ==
  /\ pc[Bg] = "select" /\ "prune" \in ticks
  /\ ticks' = ticks \ {"prune"}
  /\ \/ /\ Bg \notin cancelled
        /\ samples' = {s \in samples : s.ts >= clock - Retention}
        /\ cutoff' = clock - Retention
        /\ pc' = [pc EXCEPT ![Bg] = "prune"]
        /\ UNCHANGED faults
     \/ /\ Fails(Bg)
        /\ UNCHANGED <<samples, cutoff, pc>>
  /\ UNCHANGED <<clock, events, phase, snap, previous, pending, cancelled, shown, gap>>

\* Mutant of PruneEvents: Prune deletes samples only.
PruneNoEvents ==
  /\ pc[Bg] = "prune"
  /\ pc' = [pc EXCEPT ![Bg] = "select"]
  /\ cutoff' = 0
  /\ UNCHANGED <<durable, phase, snap, previous, pending, cancelled, ticks, shown, faults, gap>>

\* The second statement of Prune, with the cutoff of the first.
PruneEvents ==
  /\ pc[Bg] = "prune"
  /\ \/ /\ Bg \notin cancelled
        /\ events' = {e \in events : e.at >= cutoff}
        /\ UNCHANGED faults
     \/ /\ Fails(Bg)
        /\ UNCHANGED events
  /\ pc' = [pc EXCEPT ![Bg] = "select"]
  /\ cutoff' = 0
  /\ UNCHANGED <<clock, samples, phase, snap, previous, pending, cancelled, ticks, shown, gap>>

-----------------------------------------------------------------------------
\* One step of a call to latestSnapshot or of the body of a select branch.
Step(p) ==
  \/ ReadFound(p) \/ ReadEmpty(p) \/ FinishCollect(p) \/ InsertFirst(p) \/ SnapshotError(p)
  \/ p = Bg /\ \/ RecordSample \/ DropSample \/ EmitDone \/ PruneEvents
               \/ \E i \in Subjects : AddEvent(i) \/ LoseEvent(i)
  \/ p = Main /\ BootError

Next ==
  \/ \E p \in Procs : Step(p)
  \/ \E h \in Handlers : Request(h) \/ Disconnect(h)
  \/ Start \/ Sigterm \/ Exit \/ Crash
  \/ TimePasses \/ TickSample \/ TickPrune
  \/ SelectDone \/ SelectSample \/ SelectPrune

Spec == Init /\ [][Next]_vars

\* Every goroutine that can run is scheduled; systemd restarts the unit
\* (Restart=always); the process exits after SIGTERM; a ticker keeps firing;
\* and select chooses at random among the cases that are ready, so that none
\* is passed over for ever.
Fairness ==
  /\ \A p \in Procs : WF_vars(Step(p))
  /\ WF_vars(Start) /\ WF_vars(Exit) /\ WF_vars(TickPrune)
  /\ SF_vars(SelectSample) /\ SF_vars(SelectPrune)

FairSpec == Spec /\ Fairness

-----------------------------------------------------------------------------
\* Properties.

\* Every variable keeps to its type, rows of the two tables included.
TypeOK ==
  /\ clock \in Nat
  /\ samples \subseteq Sample
  /\ events \subseteq Event
  /\ phase \in {"down", "boot", "seed", "loop"}
  /\ pc \in [Procs -> {"idle", "read", "collect", "insert", "select", "emit", "prune", "done"}]
  /\ snap \in [Procs -> [ts : Nat, obs : Observations \cup {ZeroObs}, ctx : {"live", "cancelled"}]]
  /\ previous \in Observations \cup {ZeroObs}
  /\ pending \subseteq Subjects
  /\ cutoff \in Int
  /\ cancelled \subseteq Procs \ {Main}
  /\ ticks \subseteq {"sample", "prune"}
  /\ shown \in [Handlers -> Nat]
  /\ faults \in 0 .. MaxFaults
  /\ gap \subseteq Subjects

\* A snapshot collected after its context was cancelled (SIGTERM kills the
\* systemctl probes, a client disconnects) says "unknown" of what it could not
\* probe; it never reaches the table, so no restart compares with it.
NoDegradedSample == \A s \in samples : s.ctx = "live"

\* The events of one subject, and of an instant.
EventsOf(i) == {e \in events : e.subject = i}

\* Unless an event was lost (AddEvent failed, the process went down between
\* InsertSample and the last AddEvent) or the baseline was replaced behind the
\* loop's back, the events of a subject form a chain, each starting from the
\* state the one before ended in, and the last one ends in the loop's baseline.
FeedChains ==
  \A i \in Subjects \ gap :
    /\ \A e, f \in EventsOf(i) :
         (e.at < f.at /\ \A g \in EventsOf(i) : ~(e.at < g.at /\ g.at < f.at)) => e.to = f.from
    /\ pc[Bg] = "select" => \A e \in EventsOf(i) :
         (\A f \in EventsOf(i) : f.at <= e.at) => e.to = previous[i]

\* Two stored samples with none between them.
Adjacent(s, t) == s.ts < t.ts /\ \A u \in samples : ~(s.ts < u.ts /\ u.ts < t.ts)

\* The converse: every transition one can see in the stored history, from one
\* sample to the next, is in the feed or about to be stored, but for the
\* subjects whose events were lost.
FeedComplete ==
  \A s, t \in samples : Adjacent(s, t) =>
    \A i \in Subjects \ gap : s.obs[i] # t.obs[i] =>
      \/ [subject |-> i, from |-> s.obs[i], to |-> t.obs[i], at |-> t.ts] \in events
      \/ i \in pending /\ snap[Bg].ts = t.ts

\* What a client is shown never goes back in time, across restarts, prunes and
\* samples that other requests insert late, until what it saw is past retention.
NeverBack ==
  \A h \in Handlers : shown'[h] >= shown[h] \/ shown[h] < clock - Retention

MonotonicReads == [][NeverBack]_vars

\* A server that is down comes back to sampling: Restart=always, and a start on
\* an empty table collects its own first sample.
ComesUp == phase = "down" ~> phase = "loop"

\* A tick that waits is served, however often the prune ticker fires.
TickServed == "sample" \in ticks ~> "sample" \notin ticks

\* A row older than the retention leaves both tables for good, in spite of
\* failing statements, restarts and samples inserted late.
OldRowsGo ==
  \A t \in 1 .. MaxClock :
    t < clock - Retention ~> [](~(\E s \in samples : s.ts = t) /\ ~(\E e \in events : e.at = t))

\* The tables behave as EventFeed says.
Feed == INSTANCE EventFeed WITH now <- clock

ImplementsFeed == Feed!Spec
=============================================================================
