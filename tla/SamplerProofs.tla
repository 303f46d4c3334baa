---------------------------- MODULE SamplerProofs ----------------------------
(***************************************************************************)
(* Theorems about Sampler for every set of clients, number of subjects,    *)
(* retention and bound: type correctness, that no sample collected under a *)
(* cancelled context is stored, that clients never go back in time, and    *)
(* that the tables implement EventFeed.                                    *)
(***************************************************************************)
EXTENDS Sampler, TLAPS

\* What a subject may be in a snapshot or in an event.
Values == Statuses \cup {"ok", "failing"}

\* Processes that hold a snapshot they have not stored yet.
Collecting(p) == pc[p] \in {"collect", "insert"}

\* Timestamps are in the past; a snapshot under way has one of its own.
Instants ==
  /\ \A s \in samples : 1 <= s.ts /\ s.ts <= clock
  /\ \A e \in events : e.at <= clock
  /\ \A p \in Procs : Collecting(p) =>
       /\ 1 <= snap[p].ts /\ snap[p].ts <= clock
       /\ \A s \in samples : s.ts # snap[p].ts
       /\ \A q \in Procs \ {p} : Collecting(q) => snap[q].ts # snap[p].ts

\* A complete snapshot says something of every subject, and is clean unless its
\* context is cancelled by now.
Complete ==
  /\ \A p \in Procs : pc[p] = "insert" =>
       /\ snap[p].obs \in Observations
       /\ p \notin cancelled => snap[p].ctx = "live"
  /\ NoDegradedSample

\* The loop reports about a stored sample, past which the feed has not gone.
Emitting ==
  /\ pending # {} => pc[Bg] = "emit"
  /\ pc[Bg] = "emit" => snap[Bg] \in samples
  /\ Collecting(Bg) => \A e \in events : e.at < snap[Bg].ts
  /\ pc[Bg] = "emit" => \A e \in events :
       /\ e.at <= snap[Bg].ts
       /\ e.at = snap[Bg].ts => \A i \in pending : e.subject < i
  /\ \A i \in pending : previous[i] # Absent /\ previous[i] # snap[Bg].obs[i]
  /\ pc[Bg] = "prune" => cutoff <= clock - Retention

\* Until BootstrapSample has returned nothing else runs.
Booting ==
  /\ phase = "down" => \A p \in Procs : pc[p] = "idle"
  /\ pc[Main] # "idle" => phase = "boot"
  /\ phase = "boot" => pc[Bg] = "idle"

\* The table still has a sample as new as the one a client has been shown, or
\* that one is past retention, or the client has not been shown any.
Clients ==
  \A h \in Handlers :
    /\ shown[h] <= clock
    /\ Collecting(h) => shown[h] < snap[h].ts
    /\ \/ shown[h] = 0
       \/ shown[h] < clock - Retention
       \/ \E s \in samples : s.ts >= shown[h]

IInv == TypeOK /\ Instants /\ Complete /\ Booting /\ Emitting /\ Clients

-----------------------------------------------------------------------------

LEMMA Names == Main # Bg /\ Main \notin Handlers /\ Bg \notin Handlers
BY SamplerAssumption DEF Main, Bg

LEMMA ObsValues ==
  /\ \A obs \in Observations, i \in Subjects : obs[i] \in Values /\ obs[i] # Absent
  /\ \A i \in Subjects : ZeroObs[i] \in Values \/ ZeroObs[i] = Absent
BY SamplerAssumption DEF Observations, ZeroObs, Values, Absent

LEMMA TypeInit == Init => TypeOK
BY SamplerAssumption DEF Init, TypeOK, Procs, NoSnap, Main, Bg

LEMMA TypeStep == IInv /\ [Next]_vars => TypeOK'
<1> SUFFICES ASSUME IInv, [Next]_vars PROVE TypeOK'
  OBVIOUS
<1> USE SamplerAssumption, Names, ObsValues DEF IInv
<1>1. ASSUME NEW p \in Procs, ReadFound(p) PROVE TypeOK'
  BY <1>1 DEF ReadFound, Return, TypeOK, Sample, Event, Complete, Emitting, Values, Procs, NoSnap, durable, bgVars, Ctx
<1>2. ASSUME NEW p \in Procs, ReadEmpty(p) PROVE TypeOK'
  BY <1>2 DEF ReadEmpty, StartCollect, TypeOK, Sample, Event, Complete, Emitting, Values, Procs, NoSnap, durable, bgVars, Ctx
<1>3. ASSUME NEW p \in Procs, FinishCollect(p) PROVE TypeOK'
  BY <1>3 DEF FinishCollect, TypeOK, Sample, Event, Complete, Emitting, Values, Procs, NoSnap, durable, bgVars, Ctx
<1>4. ASSUME NEW p \in Procs, InsertFirst(p) PROVE TypeOK'
  BY <1>4 DEF InsertFirst, InsertSample, Return, TypeOK, Sample, Event, Complete, Emitting, Values, Procs, NoSnap, durable, bgVars, Ctx
<1>5. ASSUME NEW p \in Procs, SnapshotError(p) PROVE TypeOK'
  BY <1>5 DEF SnapshotError, Fails, Stopping, TypeOK, Sample, Event, Complete, Emitting, Values, Procs, NoSnap, durable, bgVars, Ctx
<1>6. CASE RecordSample
  BY <1>6 DEF RecordSample, InsertSample, Transitions, TypeOK, Sample, Event, Complete, Emitting, Values, Procs, NoSnap, durable, bgVars, Ctx
<1>7. CASE DropSample
  BY <1>7 DEF DropSample, Fails, Stopping, TypeOK, Sample, Event, Complete, Emitting, Values, Procs, NoSnap, durable, bgVars, Ctx
<1>8. CASE EmitDone
  BY <1>8 DEF EmitDone, TypeOK, Sample, Event, Complete, Emitting, Values, Procs, NoSnap, durable, bgVars, Ctx
<1>9. CASE PruneEvents
  BY <1>9 DEF PruneEvents, Fails, Stopping, TypeOK, Sample, Event, Complete, Emitting, Values, Procs, NoSnap, durable, bgVars, Ctx
<1>10. ASSUME NEW i \in Subjects, AddEvent(i) PROVE TypeOK'
  BY <1>10 DEF AddEvent, IsNext, TypeOK, Sample, Event, Complete, Emitting, Values, Procs, NoSnap, durable, bgVars, Ctx
<1>11. ASSUME NEW i \in Subjects, LoseEvent(i) PROVE TypeOK'
  BY <1>11 DEF LoseEvent, IsNext, Fails, Stopping, TypeOK, Sample, Event, Complete, Emitting, Values, Procs, NoSnap, durable, bgVars, Ctx
<1>12. CASE BootError
  BY <1>12 DEF BootError, GoDown, Fails, Stopping, TypeOK, Sample, Event, Complete, Emitting, Values, Procs, NoSnap, durable, bgVars, Ctx
<1>13. ASSUME NEW h \in Handlers, Request(h) PROVE TypeOK'
  BY <1>13 DEF Request, TypeOK, Sample, Event, Complete, Emitting, Values, Procs, NoSnap, durable, bgVars, Ctx
<1>14. ASSUME NEW h \in Handlers, Disconnect(h) PROVE TypeOK'
  BY <1>14 DEF Disconnect, TypeOK, Sample, Event, Complete, Emitting, Values, Procs, NoSnap, durable, bgVars, Ctx
<1>15. CASE Start
  BY <1>15 DEF Start, TypeOK, Sample, Event, Complete, Emitting, Values, Procs, NoSnap, durable, bgVars, Ctx
<1>16. CASE Sigterm
  BY <1>16 DEF Sigterm, Stopping, TypeOK, Sample, Event, Complete, Emitting, Values, Procs, NoSnap, durable, bgVars, Ctx
<1>17. CASE Exit
  BY <1>17 DEF Exit, GoDown, TypeOK, Sample, Event, Complete, Emitting, Values, Procs, NoSnap, durable, bgVars, Ctx
<1>18. CASE Crash
  BY <1>18 DEF Crash, GoDown, TypeOK, Sample, Event, Complete, Emitting, Values, Procs, NoSnap, durable, bgVars, Ctx
<1>19. CASE TimePasses
  BY <1>19 DEF TimePasses, TypeOK, Sample, Event, Complete, Emitting, Values, Procs, NoSnap, durable, bgVars, Ctx
<1>20. CASE TickSample
  BY <1>20 DEF TickSample, TypeOK, Sample, Event, Complete, Emitting, Values, Procs, NoSnap, durable, bgVars, Ctx
<1>21. CASE TickPrune
  BY <1>21 DEF TickPrune, TypeOK, Sample, Event, Complete, Emitting, Values, Procs, NoSnap, durable, bgVars, Ctx
<1>22. CASE SelectDone
  BY <1>22 DEF SelectDone, TypeOK, Sample, Event, Complete, Emitting, Values, Procs, NoSnap, durable, bgVars, Ctx
<1>23. CASE SelectSample
  BY <1>23 DEF SelectSample, StartCollect, TypeOK, Sample, Event, Complete, Emitting, Values, Procs, NoSnap, durable, bgVars, Ctx
<1>24. CASE SelectPrune
  BY <1>24 DEF SelectPrune, Fails, Stopping, TypeOK, Sample, Event, Complete, Emitting, Values, Procs, NoSnap, durable, bgVars, Ctx
<1>25. CASE UNCHANGED vars
  BY <1>25 DEF TypeOK, Sample, Event, Complete, Emitting, Values, Procs, NoSnap, durable, bgVars, Ctx, vars
<1> QED
  BY <1>1, <1>2, <1>3, <1>4, <1>5, <1>6, <1>7, <1>8, <1>9, <1>10, <1>11, <1>12, <1>13, <1>14, <1>15, <1>16, <1>17, <1>18, <1>19, <1>20, <1>21, <1>22, <1>23, <1>24, <1>25 DEF Next, Step


LEMMA InstantsStep == IInv /\ TypeOK' /\ [Next]_vars => Instants'
<1> SUFFICES ASSUME IInv, TypeOK', [Next]_vars PROVE Instants'
  OBVIOUS
<1> USE SamplerAssumption, Names DEF IInv
<1>1. ASSUME NEW p \in Procs, ReadFound(p) PROVE Instants'
  BY <1>1 DEF ReadFound, Return, Instants, Collecting, TypeOK, Emitting, Sample, Event, Procs, NoSnap, durable, bgVars, Ctx
<1>2. ASSUME NEW p \in Procs, ReadEmpty(p) PROVE Instants'
  BY <1>2 DEF ReadEmpty, StartCollect, Instants, Collecting, TypeOK, Emitting, Sample, Event, Procs, NoSnap, durable, bgVars, Ctx
<1>3. ASSUME NEW p \in Procs, FinishCollect(p) PROVE Instants'
  BY <1>3 DEF FinishCollect, Instants, Collecting, TypeOK, Emitting, Sample, Event, Procs, NoSnap, durable, bgVars, Ctx
<1>4. ASSUME NEW p \in Procs, InsertFirst(p) PROVE Instants'
  BY <1>4 DEF InsertFirst, InsertSample, Return, Instants, Collecting, TypeOK, Emitting, Sample, Event, Procs, NoSnap, durable, bgVars, Ctx
<1>5. ASSUME NEW p \in Procs, SnapshotError(p) PROVE Instants'
  BY <1>5 DEF SnapshotError, Fails, Stopping, Instants, Collecting, TypeOK, Emitting, Sample, Event, Procs, NoSnap, durable, bgVars, Ctx
<1>6. CASE RecordSample
  BY <1>6 DEF RecordSample, InsertSample, Transitions, Instants, Collecting, TypeOK, Emitting, Sample, Event, Procs, NoSnap, durable, bgVars, Ctx
<1>7. CASE DropSample
  BY <1>7 DEF DropSample, Fails, Stopping, Instants, Collecting, TypeOK, Emitting, Sample, Event, Procs, NoSnap, durable, bgVars, Ctx
<1>8. CASE EmitDone
  BY <1>8 DEF EmitDone, Instants, Collecting, TypeOK, Emitting, Sample, Event, Procs, NoSnap, durable, bgVars, Ctx
<1>9. CASE PruneEvents
  BY <1>9 DEF PruneEvents, Fails, Stopping, Instants, Collecting, TypeOK, Emitting, Sample, Event, Procs, NoSnap, durable, bgVars, Ctx
<1>10. ASSUME NEW i \in Subjects, AddEvent(i) PROVE Instants'
  BY <1>10 DEF AddEvent, IsNext, Instants, Collecting, TypeOK, Emitting, Sample, Event, Procs, NoSnap, durable, bgVars, Ctx
<1>11. ASSUME NEW i \in Subjects, LoseEvent(i) PROVE Instants'
  BY <1>11 DEF LoseEvent, IsNext, Fails, Stopping, Instants, Collecting, TypeOK, Emitting, Sample, Event, Procs, NoSnap, durable, bgVars, Ctx
<1>12. CASE BootError
  BY <1>12 DEF BootError, GoDown, Fails, Stopping, Instants, Collecting, TypeOK, Emitting, Sample, Event, Procs, NoSnap, durable, bgVars, Ctx
<1>13. ASSUME NEW h \in Handlers, Request(h) PROVE Instants'
  BY <1>13 DEF Request, Instants, Collecting, TypeOK, Emitting, Sample, Event, Procs, NoSnap, durable, bgVars, Ctx
<1>14. ASSUME NEW h \in Handlers, Disconnect(h) PROVE Instants'
  BY <1>14 DEF Disconnect, Instants, Collecting, TypeOK, Emitting, Sample, Event, Procs, NoSnap, durable, bgVars, Ctx
<1>15. CASE Start
  BY <1>15 DEF Start, Instants, Collecting, TypeOK, Emitting, Sample, Event, Procs, NoSnap, durable, bgVars, Ctx
<1>16. CASE Sigterm
  BY <1>16 DEF Sigterm, Stopping, Instants, Collecting, TypeOK, Emitting, Sample, Event, Procs, NoSnap, durable, bgVars, Ctx
<1>17. CASE Exit
  BY <1>17 DEF Exit, GoDown, Instants, Collecting, TypeOK, Emitting, Sample, Event, Procs, NoSnap, durable, bgVars, Ctx
<1>18. CASE Crash
  BY <1>18 DEF Crash, GoDown, Instants, Collecting, TypeOK, Emitting, Sample, Event, Procs, NoSnap, durable, bgVars, Ctx
<1>19. CASE TimePasses
  BY <1>19 DEF TimePasses, Instants, Collecting, TypeOK, Emitting, Sample, Event, Procs, NoSnap, durable, bgVars, Ctx
<1>20. CASE TickSample
  BY <1>20 DEF TickSample, Instants, Collecting, TypeOK, Emitting, Sample, Event, Procs, NoSnap, durable, bgVars, Ctx
<1>21. CASE TickPrune
  BY <1>21 DEF TickPrune, Instants, Collecting, TypeOK, Emitting, Sample, Event, Procs, NoSnap, durable, bgVars, Ctx
<1>22. CASE SelectDone
  BY <1>22 DEF SelectDone, Instants, Collecting, TypeOK, Emitting, Sample, Event, Procs, NoSnap, durable, bgVars, Ctx
<1>23. CASE SelectSample
  BY <1>23 DEF SelectSample, StartCollect, Instants, Collecting, TypeOK, Emitting, Sample, Event, Procs, NoSnap, durable, bgVars, Ctx
<1>24. CASE SelectPrune
  BY <1>24 DEF SelectPrune, Fails, Stopping, Instants, Collecting, TypeOK, Emitting, Sample, Event, Procs, NoSnap, durable, bgVars, Ctx
<1>25. CASE UNCHANGED vars
  BY <1>25 DEF Instants, Collecting, TypeOK, Emitting, Sample, Event, Procs, NoSnap, durable, bgVars, Ctx, vars
<1> QED
  BY <1>1, <1>2, <1>3, <1>4, <1>5, <1>6, <1>7, <1>8, <1>9, <1>10, <1>11, <1>12, <1>13, <1>14, <1>15, <1>16, <1>17, <1>18, <1>19, <1>20, <1>21, <1>22, <1>23, <1>24, <1>25 DEF Next, Step

LEMMA CompleteStep == IInv /\ TypeOK' /\ [Next]_vars => Complete'
<1> SUFFICES ASSUME IInv, TypeOK', [Next]_vars PROVE Complete'
  OBVIOUS
<1> USE SamplerAssumption, Names DEF IInv
<1>1. ASSUME NEW p \in Procs, ReadFound(p) PROVE Complete'
  BY <1>1 DEF ReadFound, Return, Complete, NoDegradedSample, TypeOK, Sample, Event, Procs, NoSnap, durable, bgVars, Ctx
<1>2. ASSUME NEW p \in Procs, ReadEmpty(p) PROVE Complete'
  BY <1>2 DEF ReadEmpty, StartCollect, Complete, NoDegradedSample, TypeOK, Sample, Event, Procs, NoSnap, durable, bgVars, Ctx
<1>3. ASSUME NEW p \in Procs, FinishCollect(p) PROVE Complete'
  BY <1>3 DEF FinishCollect, Complete, NoDegradedSample, TypeOK, Sample, Event, Procs, NoSnap, durable, bgVars, Ctx
<1>4. ASSUME NEW p \in Procs, InsertFirst(p) PROVE Complete'
  BY <1>4 DEF InsertFirst, InsertSample, Return, Complete, NoDegradedSample, TypeOK, Sample, Event, Procs, NoSnap, durable, bgVars, Ctx
<1>5. ASSUME NEW p \in Procs, SnapshotError(p) PROVE Complete'
  BY <1>5 DEF SnapshotError, Fails, Stopping, Complete, NoDegradedSample, TypeOK, Sample, Event, Procs, NoSnap, durable, bgVars, Ctx
<1>6. CASE RecordSample
  BY <1>6 DEF RecordSample, InsertSample, Transitions, Complete, NoDegradedSample, TypeOK, Sample, Event, Procs, NoSnap, durable, bgVars, Ctx
<1>7. CASE DropSample
  BY <1>7 DEF DropSample, Fails, Stopping, Complete, NoDegradedSample, TypeOK, Sample, Event, Procs, NoSnap, durable, bgVars, Ctx
<1>8. CASE EmitDone
  BY <1>8 DEF EmitDone, Complete, NoDegradedSample, TypeOK, Sample, Event, Procs, NoSnap, durable, bgVars, Ctx
<1>9. CASE PruneEvents
  BY <1>9 DEF PruneEvents, Fails, Stopping, Complete, NoDegradedSample, TypeOK, Sample, Event, Procs, NoSnap, durable, bgVars, Ctx
<1>10. ASSUME NEW i \in Subjects, AddEvent(i) PROVE Complete'
  BY <1>10 DEF AddEvent, IsNext, Complete, NoDegradedSample, TypeOK, Sample, Event, Procs, NoSnap, durable, bgVars, Ctx
<1>11. ASSUME NEW i \in Subjects, LoseEvent(i) PROVE Complete'
  BY <1>11 DEF LoseEvent, IsNext, Fails, Stopping, Complete, NoDegradedSample, TypeOK, Sample, Event, Procs, NoSnap, durable, bgVars, Ctx
<1>12. CASE BootError
  BY <1>12 DEF BootError, GoDown, Fails, Stopping, Complete, NoDegradedSample, TypeOK, Sample, Event, Procs, NoSnap, durable, bgVars, Ctx
<1>13. ASSUME NEW h \in Handlers, Request(h) PROVE Complete'
  BY <1>13 DEF Request, Complete, NoDegradedSample, TypeOK, Sample, Event, Procs, NoSnap, durable, bgVars, Ctx
<1>14. ASSUME NEW h \in Handlers, Disconnect(h) PROVE Complete'
  BY <1>14 DEF Disconnect, Complete, NoDegradedSample, TypeOK, Sample, Event, Procs, NoSnap, durable, bgVars, Ctx
<1>15. CASE Start
  BY <1>15 DEF Start, Complete, NoDegradedSample, TypeOK, Sample, Event, Procs, NoSnap, durable, bgVars, Ctx
<1>16. CASE Sigterm
  BY <1>16 DEF Sigterm, Stopping, Complete, NoDegradedSample, TypeOK, Sample, Event, Procs, NoSnap, durable, bgVars, Ctx
<1>17. CASE Exit
  BY <1>17 DEF Exit, GoDown, Complete, NoDegradedSample, TypeOK, Sample, Event, Procs, NoSnap, durable, bgVars, Ctx
<1>18. CASE Crash
  BY <1>18 DEF Crash, GoDown, Complete, NoDegradedSample, TypeOK, Sample, Event, Procs, NoSnap, durable, bgVars, Ctx
<1>19. CASE TimePasses
  BY <1>19 DEF TimePasses, Complete, NoDegradedSample, TypeOK, Sample, Event, Procs, NoSnap, durable, bgVars, Ctx
<1>20. CASE TickSample
  BY <1>20 DEF TickSample, Complete, NoDegradedSample, TypeOK, Sample, Event, Procs, NoSnap, durable, bgVars, Ctx
<1>21. CASE TickPrune
  BY <1>21 DEF TickPrune, Complete, NoDegradedSample, TypeOK, Sample, Event, Procs, NoSnap, durable, bgVars, Ctx
<1>22. CASE SelectDone
  BY <1>22 DEF SelectDone, Complete, NoDegradedSample, TypeOK, Sample, Event, Procs, NoSnap, durable, bgVars, Ctx
<1>23. CASE SelectSample
  BY <1>23 DEF SelectSample, StartCollect, Complete, NoDegradedSample, TypeOK, Sample, Event, Procs, NoSnap, durable, bgVars, Ctx
<1>24. CASE SelectPrune
  BY <1>24 DEF SelectPrune, Fails, Stopping, Complete, NoDegradedSample, TypeOK, Sample, Event, Procs, NoSnap, durable, bgVars, Ctx
<1>25. CASE UNCHANGED vars
  BY <1>25 DEF Complete, NoDegradedSample, TypeOK, Sample, Event, Procs, NoSnap, durable, bgVars, Ctx, vars
<1> QED
  BY <1>1, <1>2, <1>3, <1>4, <1>5, <1>6, <1>7, <1>8, <1>9, <1>10, <1>11, <1>12, <1>13, <1>14, <1>15, <1>16, <1>17, <1>18, <1>19, <1>20, <1>21, <1>22, <1>23, <1>24, <1>25 DEF Next, Step

LEMMA BootingStep == IInv /\ TypeOK' /\ [Next]_vars => Booting'
<1> SUFFICES ASSUME IInv, TypeOK', [Next]_vars PROVE Booting'
  OBVIOUS
<1> USE SamplerAssumption, Names DEF IInv
<1>1. ASSUME NEW p \in Procs, ReadFound(p) PROVE Booting'
  BY <1>1 DEF ReadFound, Return, Booting, TypeOK, Procs, durable, bgVars
<1>2. ASSUME NEW p \in Procs, ReadEmpty(p) PROVE Booting'
  BY <1>2 DEF ReadEmpty, StartCollect, Booting, TypeOK, Procs, durable, bgVars
<1>3. ASSUME NEW p \in Procs, FinishCollect(p) PROVE Booting'
  BY <1>3 DEF FinishCollect, Booting, TypeOK, Procs, durable, bgVars
<1>4. ASSUME NEW p \in Procs, InsertFirst(p) PROVE Booting'
  BY <1>4 DEF InsertFirst, InsertSample, Return, Booting, TypeOK, Procs, durable, bgVars
<1>5. ASSUME NEW p \in Procs, SnapshotError(p) PROVE Booting'
  BY <1>5 DEF SnapshotError, Fails, Stopping, Booting, TypeOK, Procs, durable, bgVars
<1>6. CASE RecordSample
  BY <1>6 DEF RecordSample, InsertSample, Transitions, Booting, TypeOK, Procs, durable, bgVars
<1>7. CASE DropSample
  BY <1>7 DEF DropSample, Fails, Stopping, Booting, TypeOK, Procs, durable, bgVars
<1>8. CASE EmitDone
  BY <1>8 DEF EmitDone, Booting, TypeOK, Procs, durable, bgVars
<1>9. CASE PruneEvents
  BY <1>9 DEF PruneEvents, Fails, Stopping, Booting, TypeOK, Procs, durable, bgVars
<1>10. ASSUME NEW i \in Subjects, AddEvent(i) PROVE Booting'
  BY <1>10 DEF AddEvent, IsNext, Booting, TypeOK, Procs, durable, bgVars
<1>11. ASSUME NEW i \in Subjects, LoseEvent(i) PROVE Booting'
  BY <1>11 DEF LoseEvent, IsNext, Fails, Stopping, Booting, TypeOK, Procs, durable, bgVars
<1>12. CASE BootError
  BY <1>12 DEF BootError, GoDown, Fails, Stopping, Booting, TypeOK, Procs, durable, bgVars
<1>13. ASSUME NEW h \in Handlers, Request(h) PROVE Booting'
  BY <1>13 DEF Request, Booting, TypeOK, Procs, durable, bgVars
<1>14. ASSUME NEW h \in Handlers, Disconnect(h) PROVE Booting'
  BY <1>14 DEF Disconnect, Booting, TypeOK, Procs, durable, bgVars
<1>15. CASE Start
  BY <1>15 DEF Start, Booting, TypeOK, Procs, durable, bgVars
<1>16. CASE Sigterm
  BY <1>16 DEF Sigterm, Stopping, Booting, TypeOK, Procs, durable, bgVars
<1>17. CASE Exit
  BY <1>17 DEF Exit, GoDown, Booting, TypeOK, Procs, durable, bgVars
<1>18. CASE Crash
  BY <1>18 DEF Crash, GoDown, Booting, TypeOK, Procs, durable, bgVars
<1>19. CASE TimePasses
  BY <1>19 DEF TimePasses, Booting, TypeOK, Procs, durable, bgVars
<1>20. CASE TickSample
  BY <1>20 DEF TickSample, Booting, TypeOK, Procs, durable, bgVars
<1>21. CASE TickPrune
  BY <1>21 DEF TickPrune, Booting, TypeOK, Procs, durable, bgVars
<1>22. CASE SelectDone
  BY <1>22 DEF SelectDone, Booting, TypeOK, Procs, durable, bgVars
<1>23. CASE SelectSample
  BY <1>23 DEF SelectSample, StartCollect, Booting, TypeOK, Procs, durable, bgVars
<1>24. CASE SelectPrune
  BY <1>24 DEF SelectPrune, Fails, Stopping, Booting, TypeOK, Procs, durable, bgVars
<1>25. CASE UNCHANGED vars
  BY <1>25 DEF Booting, TypeOK, Procs, durable, bgVars, vars
<1> QED
  BY <1>1, <1>2, <1>3, <1>4, <1>5, <1>6, <1>7, <1>8, <1>9, <1>10, <1>11, <1>12, <1>13, <1>14, <1>15, <1>16, <1>17, <1>18, <1>19, <1>20, <1>21, <1>22, <1>23, <1>24, <1>25 DEF Next, Step

LEMMA EmittingStep == IInv /\ TypeOK' /\ [Next]_vars => Emitting'
<1> SUFFICES ASSUME IInv, TypeOK', [Next]_vars PROVE Emitting'
  OBVIOUS
<1> USE SamplerAssumption, Names DEF IInv
<1>1. ASSUME NEW p \in Procs, ReadFound(p) PROVE Emitting'
  BY <1>1 DEF ReadFound, Return, Emitting, Booting, Instants, Collecting, TypeOK, Subjects, Sample, Event, Procs, NoSnap, durable, bgVars, Ctx
<1>2. ASSUME NEW p \in Procs, ReadEmpty(p) PROVE Emitting'
  BY <1>2 DEF ReadEmpty, StartCollect, Emitting, Booting, Instants, Collecting, TypeOK, Subjects, Sample, Event, Procs, NoSnap, durable, bgVars, Ctx
<1>3. ASSUME NEW p \in Procs, FinishCollect(p) PROVE Emitting'
  BY <1>3 DEF FinishCollect, Emitting, Booting, Instants, Collecting, TypeOK, Subjects, Sample, Event, Procs, NoSnap, durable, bgVars, Ctx
<1>4. ASSUME NEW p \in Procs, InsertFirst(p) PROVE Emitting'
  BY <1>4 DEF InsertFirst, InsertSample, Return, Emitting, Booting, Instants, Collecting, TypeOK, Subjects, Sample, Event, Procs, NoSnap, durable, bgVars, Ctx
<1>5. ASSUME NEW p \in Procs, SnapshotError(p) PROVE Emitting'
  BY <1>5 DEF SnapshotError, Fails, Stopping, Emitting, Booting, Instants, Collecting, TypeOK, Subjects, Sample, Event, Procs, NoSnap, durable, bgVars, Ctx
<1>6. CASE RecordSample
  BY <1>6 DEF RecordSample, InsertSample, Transitions, Emitting, Booting, Instants, Collecting, TypeOK, Subjects, Sample, Event, Procs, NoSnap, durable, bgVars, Ctx
<1>7. CASE DropSample
  BY <1>7 DEF DropSample, Fails, Stopping, Emitting, Booting, Instants, Collecting, TypeOK, Subjects, Sample, Event, Procs, NoSnap, durable, bgVars, Ctx
<1>8. CASE EmitDone
  BY <1>8 DEF EmitDone, Emitting, Booting, Instants, Collecting, TypeOK, Subjects, Sample, Event, Procs, NoSnap, durable, bgVars, Ctx
<1>9. CASE PruneEvents
  BY <1>9 DEF PruneEvents, Fails, Stopping, Emitting, Booting, Instants, Collecting, TypeOK, Subjects, Sample, Event, Procs, NoSnap, durable, bgVars, Ctx
<1>10. ASSUME NEW i \in Subjects, AddEvent(i) PROVE Emitting'
  BY <1>10 DEF AddEvent, IsNext, Emitting, Booting, Instants, Collecting, TypeOK, Subjects, Sample, Event, Procs, NoSnap, durable, bgVars, Ctx
<1>11. ASSUME NEW i \in Subjects, LoseEvent(i) PROVE Emitting'
  BY <1>11 DEF LoseEvent, IsNext, Fails, Stopping, Emitting, Booting, Instants, Collecting, TypeOK, Subjects, Sample, Event, Procs, NoSnap, durable, bgVars, Ctx
<1>12. CASE BootError
  BY <1>12 DEF BootError, GoDown, Fails, Stopping, Emitting, Booting, Instants, Collecting, TypeOK, Subjects, Sample, Event, Procs, NoSnap, durable, bgVars, Ctx
<1>13. ASSUME NEW h \in Handlers, Request(h) PROVE Emitting'
  BY <1>13 DEF Request, Emitting, Booting, Instants, Collecting, TypeOK, Subjects, Sample, Event, Procs, NoSnap, durable, bgVars, Ctx
<1>14. ASSUME NEW h \in Handlers, Disconnect(h) PROVE Emitting'
  BY <1>14 DEF Disconnect, Emitting, Booting, Instants, Collecting, TypeOK, Subjects, Sample, Event, Procs, NoSnap, durable, bgVars, Ctx
<1>15. CASE Start
  BY <1>15 DEF Start, Emitting, Booting, Instants, Collecting, TypeOK, Subjects, Sample, Event, Procs, NoSnap, durable, bgVars, Ctx
<1>16. CASE Sigterm
  BY <1>16 DEF Sigterm, Stopping, Emitting, Booting, Instants, Collecting, TypeOK, Subjects, Sample, Event, Procs, NoSnap, durable, bgVars, Ctx
<1>17. CASE Exit
  BY <1>17 DEF Exit, GoDown, Emitting, Booting, Instants, Collecting, TypeOK, Subjects, Sample, Event, Procs, NoSnap, durable, bgVars, Ctx
<1>18. CASE Crash
  BY <1>18 DEF Crash, GoDown, Emitting, Booting, Instants, Collecting, TypeOK, Subjects, Sample, Event, Procs, NoSnap, durable, bgVars, Ctx
<1>19. CASE TimePasses
  BY <1>19 DEF TimePasses, Emitting, Booting, Instants, Collecting, TypeOK, Subjects, Sample, Event, Procs, NoSnap, durable, bgVars, Ctx
<1>20. CASE TickSample
  BY <1>20 DEF TickSample, Emitting, Booting, Instants, Collecting, TypeOK, Subjects, Sample, Event, Procs, NoSnap, durable, bgVars, Ctx
<1>21. CASE TickPrune
  BY <1>21 DEF TickPrune, Emitting, Booting, Instants, Collecting, TypeOK, Subjects, Sample, Event, Procs, NoSnap, durable, bgVars, Ctx
<1>22. CASE SelectDone
  BY <1>22 DEF SelectDone, Emitting, Booting, Instants, Collecting, TypeOK, Subjects, Sample, Event, Procs, NoSnap, durable, bgVars, Ctx
<1>23. CASE SelectSample
  BY <1>23 DEF SelectSample, StartCollect, Emitting, Booting, Instants, Collecting, TypeOK, Subjects, Sample, Event, Procs, NoSnap, durable, bgVars, Ctx
<1>24. CASE SelectPrune
  BY <1>24 DEF SelectPrune, Fails, Stopping, Emitting, Booting, Instants, Collecting, TypeOK, Subjects, Sample, Event, Procs, NoSnap, durable, bgVars, Ctx
<1>25. CASE UNCHANGED vars
  BY <1>25 DEF Emitting, Booting, Instants, Collecting, TypeOK, Subjects, Sample, Event, Procs, NoSnap, durable, bgVars, Ctx, vars
<1> QED
  BY <1>1, <1>2, <1>3, <1>4, <1>5, <1>6, <1>7, <1>8, <1>9, <1>10, <1>11, <1>12, <1>13, <1>14, <1>15, <1>16, <1>17, <1>18, <1>19, <1>20, <1>21, <1>22, <1>23, <1>24, <1>25 DEF Next, Step

LEMMA ClientsStep == IInv /\ TypeOK' /\ [Next]_vars => Clients'
<1> SUFFICES ASSUME IInv, TypeOK', [Next]_vars PROVE Clients'
  OBVIOUS
<1> USE SamplerAssumption, Names DEF IInv
<1>1. ASSUME NEW p \in Procs, ReadFound(p) PROVE Clients'
  BY <1>1 DEF ReadFound, Return, Clients, LatestSample, Instants, Collecting, TypeOK, Sample, Event, Procs, NoSnap, durable, bgVars, Ctx
<1>2. ASSUME NEW p \in Procs, ReadEmpty(p) PROVE Clients'
  BY <1>2 DEF ReadEmpty, StartCollect, Clients, LatestSample, Instants, Collecting, TypeOK, Sample, Event, Procs, NoSnap, durable, bgVars, Ctx
<1>3. ASSUME NEW p \in Procs, FinishCollect(p) PROVE Clients'
  BY <1>3 DEF FinishCollect, Clients, LatestSample, Instants, Collecting, TypeOK, Sample, Event, Procs, NoSnap, durable, bgVars, Ctx
<1>4. ASSUME NEW p \in Procs, InsertFirst(p) PROVE Clients'
  BY <1>4 DEF InsertFirst, InsertSample, Return, Clients, LatestSample, Instants, Collecting, TypeOK, Sample, Event, Procs, NoSnap, durable, bgVars, Ctx
<1>5. ASSUME NEW p \in Procs, SnapshotError(p) PROVE Clients'
  BY <1>5 DEF SnapshotError, Fails, Stopping, Clients, LatestSample, Instants, Collecting, TypeOK, Sample, Event, Procs, NoSnap, durable, bgVars, Ctx
<1>6. CASE RecordSample
  BY <1>6 DEF RecordSample, InsertSample, Transitions, Clients, LatestSample, Instants, Collecting, TypeOK, Sample, Event, Procs, NoSnap, durable, bgVars, Ctx
<1>7. CASE DropSample
  BY <1>7 DEF DropSample, Fails, Stopping, Clients, LatestSample, Instants, Collecting, TypeOK, Sample, Event, Procs, NoSnap, durable, bgVars, Ctx
<1>8. CASE EmitDone
  BY <1>8 DEF EmitDone, Clients, LatestSample, Instants, Collecting, TypeOK, Sample, Event, Procs, NoSnap, durable, bgVars, Ctx
<1>9. CASE PruneEvents
  BY <1>9 DEF PruneEvents, Fails, Stopping, Clients, LatestSample, Instants, Collecting, TypeOK, Sample, Event, Procs, NoSnap, durable, bgVars, Ctx
<1>10. ASSUME NEW i \in Subjects, AddEvent(i) PROVE Clients'
  BY <1>10 DEF AddEvent, IsNext, Clients, LatestSample, Instants, Collecting, TypeOK, Sample, Event, Procs, NoSnap, durable, bgVars, Ctx
<1>11. ASSUME NEW i \in Subjects, LoseEvent(i) PROVE Clients'
  BY <1>11 DEF LoseEvent, IsNext, Fails, Stopping, Clients, LatestSample, Instants, Collecting, TypeOK, Sample, Event, Procs, NoSnap, durable, bgVars, Ctx
<1>12. CASE BootError
  BY <1>12 DEF BootError, GoDown, Fails, Stopping, Clients, LatestSample, Instants, Collecting, TypeOK, Sample, Event, Procs, NoSnap, durable, bgVars, Ctx
<1>13. ASSUME NEW h \in Handlers, Request(h) PROVE Clients'
  BY <1>13 DEF Request, Clients, LatestSample, Instants, Collecting, TypeOK, Sample, Event, Procs, NoSnap, durable, bgVars, Ctx
<1>14. ASSUME NEW h \in Handlers, Disconnect(h) PROVE Clients'
  BY <1>14 DEF Disconnect, Clients, LatestSample, Instants, Collecting, TypeOK, Sample, Event, Procs, NoSnap, durable, bgVars, Ctx
<1>15. CASE Start
  BY <1>15 DEF Start, Clients, LatestSample, Instants, Collecting, TypeOK, Sample, Event, Procs, NoSnap, durable, bgVars, Ctx
<1>16. CASE Sigterm
  BY <1>16 DEF Sigterm, Stopping, Clients, LatestSample, Instants, Collecting, TypeOK, Sample, Event, Procs, NoSnap, durable, bgVars, Ctx
<1>17. CASE Exit
  BY <1>17 DEF Exit, GoDown, Clients, LatestSample, Instants, Collecting, TypeOK, Sample, Event, Procs, NoSnap, durable, bgVars, Ctx
<1>18. CASE Crash
  BY <1>18 DEF Crash, GoDown, Clients, LatestSample, Instants, Collecting, TypeOK, Sample, Event, Procs, NoSnap, durable, bgVars, Ctx
<1>19. CASE TimePasses
  BY <1>19 DEF TimePasses, Clients, LatestSample, Instants, Collecting, TypeOK, Sample, Event, Procs, NoSnap, durable, bgVars, Ctx
<1>20. CASE TickSample
  BY <1>20 DEF TickSample, Clients, LatestSample, Instants, Collecting, TypeOK, Sample, Event, Procs, NoSnap, durable, bgVars, Ctx
<1>21. CASE TickPrune
  BY <1>21 DEF TickPrune, Clients, LatestSample, Instants, Collecting, TypeOK, Sample, Event, Procs, NoSnap, durable, bgVars, Ctx
<1>22. CASE SelectDone
  BY <1>22 DEF SelectDone, Clients, LatestSample, Instants, Collecting, TypeOK, Sample, Event, Procs, NoSnap, durable, bgVars, Ctx
<1>23. CASE SelectSample
  BY <1>23 DEF SelectSample, StartCollect, Clients, LatestSample, Instants, Collecting, TypeOK, Sample, Event, Procs, NoSnap, durable, bgVars, Ctx
<1>24. CASE SelectPrune
  BY <1>24 DEF SelectPrune, Fails, Stopping, Clients, LatestSample, Instants, Collecting, TypeOK, Sample, Event, Procs, NoSnap, durable, bgVars, Ctx
<1>25. CASE UNCHANGED vars
  BY <1>25 DEF Clients, LatestSample, Instants, Collecting, TypeOK, Sample, Event, Procs, NoSnap, durable, bgVars, Ctx, vars
<1> QED
  BY <1>1, <1>2, <1>3, <1>4, <1>5, <1>6, <1>7, <1>8, <1>9, <1>10, <1>11, <1>12, <1>13, <1>14, <1>15, <1>16, <1>17, <1>18, <1>19, <1>20, <1>21, <1>22, <1>23, <1>24, <1>25 DEF Next, Step

LEMMA Inductive == Spec => []IInv
<1>1. Init => IInv
  BY TypeInit, SamplerAssumption DEF Init, IInv, Instants, Complete, NoDegradedSample,
     Booting, Emitting, Clients, Collecting, Procs
<1>2. IInv /\ [Next]_vars => IInv'
  BY TypeStep, InstantsStep, CompleteStep, BootingStep, EmittingStep, ClientsStep DEF IInv
<1> QED
  BY <1>1, <1>2, PTL DEF Spec

-----------------------------------------------------------------------------
\* In every reachable state each variable has its type, rows of the tables
\* included.
THEOREM TypeCorrect == Spec => []TypeOK
<1>1. IInv => TypeOK
  BY DEF IInv
<1> QED
  BY <1>1, Inductive, PTL

\* Nothing collected under a cancelled context is ever in the table: InsertSample
\* is given the context the probes were run with.
THEOREM SamplesAreClean == Spec => []NoDegradedSample
<1>1. IInv => NoDegradedSample
  BY DEF IInv, Complete
<1> QED
  BY <1>1, Inductive, PTL

\* A client that polls is never shown an older sample than before, unless that
\* one was past retention: latestSnapshot takes the newest timestamp, Prune takes
\* the oldest rows first, and a snapshot collected for a client is newer than
\* anything it has seen.
THEOREM ReadsAreMonotonic == Spec => MonotonicReads
<1>1. IInv /\ [Next]_vars => [NeverBack]_vars
  <2> SUFFICES ASSUME IInv, [Next]_vars PROVE [NeverBack]_vars
    OBVIOUS
  <2> USE SamplerAssumption, Names DEF IInv
  <2>1. CASE shown' = shown
    BY <2>1 DEF NeverBack, TypeOK
  <2>2. ASSUME NEW p \in Procs, NEW s \in samples, LatestSample(s), Return(p, s)
        PROVE  NeverBack
    BY <2>2 DEF NeverBack, TypeOK, Clients, Return, LatestSample, Sample, Instants
  <2>3. ASSUME NEW p \in Procs, InsertFirst(p) PROVE NeverBack
    BY <2>3 DEF NeverBack, TypeOK, Clients, Collecting, InsertFirst, Return
  <2> QED
    BY <2>1, <2>2, <2>3 DEF Next, Step, vars, ReadFound, ReadEmpty, FinishCollect,
       SnapshotError, RecordSample, DropSample, EmitDone, PruneEvents, AddEvent,
       LoseEvent, BootError, GoDown, Request, Disconnect, Start, Sigterm, Exit, Crash,
       TimePasses, TickSample, TickPrune, SelectDone, SelectSample, SelectPrune
<1> QED
  BY <1>1, Inductive, PTL DEF Spec, MonotonicReads

\* A previous observation that can be reported is one an observation can have.
LEMMA FromObservable ==
  ASSUME NEW prev \in Observations \cup {ZeroObs}, NEW cur \in Observations,
         NEW i \in Subjects, prev[i] # Absent
  PROVE  \E obs \in Observations : obs[i] = prev[i]
<1>1. CASE prev \in Observations
  BY <1>1
<1>2. CASE prev = ZeroObs
  <2>1. i = Collector /\ prev[i] = "ok"
    BY <1>2 DEF ZeroObs
  <2>2. [cur EXCEPT ![i] = "ok"] \in Observations
    BY <2>1 DEF Observations
  <2> QED
    BY <2>1, <2>2 DEF Observations
<1> QED
  BY <1>1, <1>2

\* The tables keep the promises of EventFeed: distinct past timestamps; events
\* only about samples that are stored, at most once per subject and sample, in
\* time order; rows deleted only past retention.
THEOREM Refinement == Spec => ImplementsFeed
<1>1. Init => Feed!Init
  BY DEF Init, Feed!Init
<1>2. IInv /\ TypeOK' /\ [Next]_vars => [Feed!Next]_Feed!vars
  <2> SUFFICES ASSUME IInv, TypeOK', [Next]_vars PROVE [Feed!Next]_Feed!vars
    OBVIOUS
  <2> USE SamplerAssumption, Names DEF IInv
  <2>1. ASSUME clock' = clock + 1, UNCHANGED <<samples, events>> PROVE Feed!Next
    BY <2>1 DEF Feed!Next, Feed!Advance
  <2>2. ASSUME NEW p \in Procs, pc[p] = "insert", InsertSample(p), UNCHANGED <<clock, events>>
        PROVE  Feed!Next
    <3>1. /\ snap[p] \in [ts : 1 .. clock, obs : Observations, ctx : {"live", "cancelled"}]
          /\ \A other \in samples : other.ts # snap[p].ts
      BY <2>2 DEF Instants, Complete, Collecting, TypeOK
    <3> QED
      BY <2>2, <3>1 DEF Feed!Next, Feed!Record, InsertSample
  <2>3. ASSUME NEW i \in Subjects, AddEvent(i) PROVE Feed!Next
    <3> DEFINE s == snap[Bg]
    <3>1. /\ s \in samples /\ s.obs \in Observations
          /\ previous[i] # Absent /\ previous[i] # s.obs[i]
      BY <2>3 DEF AddEvent, IsNext, Emitting, TypeOK, Sample
    <3>2. \A e \in events : e.at <= s.ts /\ (e.at = s.ts => e.subject < i)
      BY <2>3 DEF AddEvent, IsNext, Emitting
    <3>3. previous[i] \in {obs[i] : obs \in Observations} \ {s.obs[i]}
      BY <3>1, FromObservable DEF TypeOK
    <3>4. events' = events \cup {[subject |-> i, from |-> previous[i], to |-> s.obs[i], at |-> s.ts]}
          /\ UNCHANGED <<clock, samples>>
      BY <2>3 DEF AddEvent
    <3> HIDE DEF s
    <3>5. Feed!Report
      BY <3>1, <3>2, <3>3, <3>4 DEF Feed!Report
    <3> QED
      BY <3>5 DEF Feed!Next
  <2>4. CASE SelectPrune
    <3>1. CASE samples' = samples
      BY <2>4, <3>1 DEF SelectPrune, Feed!vars
    <3>2. CASE samples' = {s \in samples : s.ts >= clock - Retention} /\ clock - Retention \in Nat
      BY <2>4, <3>2 DEF SelectPrune, Feed!Next, Feed!Retire, TypeOK
    <3>3. CASE samples' = {s \in samples : s.ts >= clock - Retention} /\ clock - Retention \notin Nat
      BY <2>4, <3>3 DEF SelectPrune, Feed!vars, TypeOK, Sample
    <3> QED
      BY <2>4, <3>1, <3>2, <3>3 DEF SelectPrune
  <2>5. CASE PruneEvents
    <3>1. CASE events' = events
      BY <2>5, <3>1 DEF PruneEvents, Feed!vars
    <3>2. CASE events' = {e \in events : e.at >= cutoff} /\ cutoff \in Nat
      BY <2>5, <3>2 DEF PruneEvents, Feed!Next, Feed!Retire, TypeOK, Emitting
    <3>3. CASE events' = {e \in events : e.at >= cutoff} /\ cutoff \notin Nat
      BY <2>5, <3>3 DEF PruneEvents, Feed!vars, TypeOK, Event
    <3> QED
      BY <2>5, <3>1, <3>2, <3>3 DEF PruneEvents
  <2>6. ASSUME UNCHANGED <<clock, samples, events>> PROVE UNCHANGED Feed!vars
    BY <2>6 DEF Feed!vars
  <2>7. ASSUME NEW p \in Procs, ReadEmpty(p) PROVE Feed!Next
    BY <2>1, <2>7 DEF ReadEmpty, StartCollect
  <2>8. CASE SelectSample
    BY <2>1, <2>8 DEF SelectSample, StartCollect
  <2>9. CASE TimePasses
    BY <2>1, <2>9 DEF TimePasses
  <2>10. ASSUME NEW p \in Procs, InsertFirst(p) PROVE Feed!Next
    BY <2>2, <2>10 DEF InsertFirst
  <2>11. CASE RecordSample
    BY <2>2, <2>11 DEF RecordSample, Procs
  <2> QED
    BY <2>3, <2>4, <2>5, <2>6, <2>7, <2>8, <2>9, <2>10, <2>11 DEF Next, Step, vars, durable,
       ReadFound, FinishCollect, SnapshotError, DropSample, EmitDone, LoseEvent, BootError,
       GoDown, Request, Disconnect, Start, Sigterm, Exit, Crash, TickSample, TickPrune,
       SelectDone
<1>3. IInv /\ IInv' => TypeOK'
  BY DEF IInv
<1> QED
  BY <1>1, <1>2, <1>3, Inductive, PTL DEF Spec, ImplementsFeed, Feed!Spec

-----------------------------------------------------------------------------
\* The events stored and the samples stored agree in both directions, but for the
\* subjects in `gap`.

\* Timestamps tell samples apart.  As long as some subject is not in `gap`, no
\* handler has stored a sample: those of the loop come one after the other, the
\* first of a process goes into an empty table, and Prune takes the same prefix
\* from both tables.
Unique == \A s, t \in samples : s.ts = t.ts => s = t
Phases ==
  /\ phase = "boot" => \A h \in Handlers : pc[h] = "idle"
  /\ pc[Bg] \in {"select", "emit", "prune"} => phase = "loop"
  /\ Collecting(Main) => samples = {}
Ordered ==
  /\ Collecting(Bg) => \A s \in samples : s.ts < snap[Bg].ts
  /\ Collecting(Bg) /\ phase # "loop" => samples = {}
  /\ pc[Bg] = "emit" => \A s \in samples : s.ts <= snap[Bg].ts
  /\ pc[Bg] = "prune" => \A s \in samples : s.ts >= cutoff

\* The events of i form a chain, and its last one ends in v.
Chain(i) ==
  \A e, f \in EventsOf(i) :
    (e.at < f.at /\ \A g \in EventsOf(i) : ~(e.at < g.at /\ g.at < f.at)) => e.to = f.from
Ends(i, v) == \A e \in EventsOf(i) : (\A f \in EventsOf(i) : f.at <= e.at) => e.to = v

\* What the newest sample says of i, and what of it has been reported.
Newest(i, v) == \A s \in samples : LatestSample(s) => s.obs[i] = v
Observed(i) == IF pc[Bg] = "emit" THEN snap[Bg].obs[i] ELSE previous[i]
Reported(i) == IF i \in pending THEN previous[i] ELSE Observed(i)

\* In the loop the feed ends in what was reported, and between two processes in
\* the newest sample, which the next one compares with.
Baseline(i) ==
  /\ phase = "loop" => previous[i] # Absent /\ Ends(i, Reported(i)) /\ Newest(i, Observed(i))
  /\ phase # "loop" => \A s \in samples : LatestSample(s) => Ends(i, s.obs[i])

\* Every transition between neighbouring samples is in the feed or about to be;
\* the one about to be stored starts from `previous`.
Told(i) ==
  \A s, t \in samples : Adjacent(s, t) /\ s.obs[i] # t.obs[i] =>
    \/ [subject |-> i, from |-> s.obs[i], to |-> t.obs[i], at |-> t.ts] \in events
    \/ i \in pending /\ snap[Bg].ts = t.ts /\ s.obs[i] = previous[i]

Faithful ==
  /\ Unique /\ Phases
  /\ gap # Subjects => Ordered
  /\ \A i \in Subjects \ gap : Chain(i) /\ Baseline(i) /\ Told(i)

-----------------------------------------------------------------------------
\* Steps that the feed does not notice.

Quiet ==
  /\ UNCHANGED <<samples, events, previous, pending>>
  /\ phase' = "loop" <=> phase = "loop"
  /\ pc'[Bg] = "emit" <=> pc[Bg] = "emit"
  /\ snap'[Bg] = snap[Bg] \/ pc[Bg] # "emit"

\* GoDown is not one of them, and neither are these.
Heard ==
  \/ ReadFound(Bg)
  \/ \E p \in Procs : InsertFirst(p) \/ SnapshotError(p)
  \/ RecordSample \/ EmitDone \/ PruneEvents \/ SelectPrune
  \/ \E i \in Subjects : AddEvent(i) \/ LoseEvent(i)

LEMMA GapGrows == TypeOK /\ [Next]_vars => gap \subseteq gap'
<1> SUFFICES ASSUME TypeOK, [Next]_vars PROVE gap \subseteq gap'
  OBVIOUS
<1>1. CASE \E p \in Procs : Step(p)
  BY <1>1
  DEF TypeOK, Step, ReadFound, ReadEmpty, FinishCollect, InsertFirst, SnapshotError, RecordSample,
      DropSample, EmitDone, PruneEvents, AddEvent, LoseEvent, BootError, GoDown
<1>2. CASE \E h \in Handlers : Request(h) \/ Disconnect(h)
  BY <1>2 DEF Request, Disconnect
<1>3. CASE Start \/ Sigterm \/ Exit \/ Crash
  BY <1>3 DEF Start, Sigterm, Exit, Crash, GoDown
<1>4. CASE TimePasses \/ TickSample \/ TickPrune \/ SelectDone \/ SelectSample \/ SelectPrune
  BY <1>4 DEF TimePasses, TickSample, TickPrune, SelectDone, SelectSample, SelectPrune
<1>5. CASE UNCHANGED vars
  BY <1>5 DEF vars
<1> QED BY <1>1, <1>2, <1>3, <1>4, <1>5 DEF Next

\* A step is quiet, heard, or the end of the process.
LEMMA Kinds == IInv /\ Phases /\ [Next]_vars => Quiet \/ Heard \/ GoDown
<1> SUFFICES ASSUME IInv, Phases, [Next]_vars PROVE Quiet \/ Heard \/ GoDown
  OBVIOUS
<1> USE Names DEF IInv, TypeOK, Phases
<1>1. ASSUME NEW p \in Procs, ReadFound(p) PROVE Quiet \/ Heard
  <2>1. CASE p # Bg
    BY <1>1, <2>1 DEF ReadFound, Return, Quiet, Booting, durable, Procs
  <2> QED BY <1>1, <2>1 DEF Heard
<1>2. ASSUME NEW p \in Procs, ReadEmpty(p) PROVE Quiet
  BY <1>2 DEF ReadEmpty, StartCollect, Quiet, bgVars, Procs
<1>3. ASSUME NEW p \in Procs, FinishCollect(p) PROVE Quiet
  BY <1>3 DEF FinishCollect, Quiet, durable, bgVars, Procs
<1>4. CASE DropSample
  BY <1>4 DEF DropSample, Quiet, durable, bgVars, Procs
<1>5. ASSUME NEW h \in Handlers, Request(h) \/ Disconnect(h) PROVE Quiet
  BY <1>5 DEF Request, Disconnect, Quiet, durable, bgVars, Procs
<1>6. CASE Start \/ Sigterm
  BY <1>6 DEF Start, Sigterm, Quiet, durable, bgVars, Procs
<1>7. CASE BootError \/ Exit \/ Crash
  BY <1>7 DEF BootError, Exit, Crash
<1>8. CASE TimePasses \/ TickSample \/ TickPrune
  BY <1>8 DEF TimePasses, TickSample, TickPrune, Quiet, durable, bgVars
<1>9. CASE SelectDone \/ SelectSample
  BY <1>9 DEF SelectDone, SelectSample, StartCollect, Quiet, durable, bgVars, Procs
<1>10. CASE UNCHANGED vars
  BY <1>10 DEF vars, Quiet, durable, bgVars
<1> QED
  BY <1>1, <1>2, <1>3, <1>4, <1>5, <1>6, <1>7, <1>8, <1>9, <1>10 DEF Next, Step, Heard

-----------------------------------------------------------------------------
\* Unique, Phases and Ordered.

LEMMA UniqueStep == IInv /\ Unique /\ [Next]_vars => Unique'
<1> SUFFICES ASSUME IInv, Unique, [Next]_vars PROVE Unique'
  OBVIOUS
<1>1. ASSUME NEW p \in Procs, InsertFirst(p) PROVE Unique'
  BY <1>1 DEF InsertFirst, InsertSample, Unique, IInv, Instants, Collecting
<1>2. CASE RecordSample
  BY <1>2 DEF RecordSample, InsertSample, Unique, IInv, Instants, Collecting, Procs
<1>3. CASE samples' \subseteq samples
  BY <1>3 DEF Unique
<1> QED
  BY <1>1, <1>2, <1>3
  DEF Next, Step, ReadFound, ReadEmpty, FinishCollect, SnapshotError, DropSample, EmitDone,
      PruneEvents, AddEvent, LoseEvent, BootError, GoDown, Request, Disconnect, Start, Sigterm,
      Exit, Crash, TimePasses, TickSample, TickPrune, SelectDone, SelectSample, SelectPrune,
      vars, durable

LEMMA PhasesStep == IInv /\ Phases /\ [Next]_vars => Phases'
<1> SUFFICES ASSUME IInv, Phases, [Next]_vars PROVE Phases'
  OBVIOUS
<1> USE Names DEF IInv, TypeOK, Phases, Collecting, Booting, Procs
<1>1. ASSUME NEW p \in Procs, ReadFound(p) \/ ReadEmpty(p) PROVE Phases'
  BY <1>1 DEF ReadFound, ReadEmpty, StartCollect, Return, durable
<1>2. ASSUME NEW p \in Procs, FinishCollect(p) PROVE Phases'
  BY <1>2 DEF FinishCollect, durable
<1>3. ASSUME NEW p \in Procs, InsertFirst(p) PROVE Phases'
  BY <1>3 DEF InsertFirst, InsertSample, Return
<1>4. ASSUME NEW p \in Procs, SnapshotError(p) PROVE Phases'
  BY <1>4 DEF SnapshotError, durable
<1>5. CASE RecordSample
  BY <1>5 DEF RecordSample, InsertSample
<1>6. CASE DropSample \/ EmitDone \/ PruneEvents
  BY <1>6 DEF DropSample, EmitDone, PruneEvents, durable
<1>7. ASSUME NEW i \in Subjects, AddEvent(i) \/ LoseEvent(i) PROVE Phases'
  BY <1>7 DEF AddEvent, LoseEvent, durable
<1>8. CASE GoDown
  BY <1>8 DEF GoDown, durable
<1>9. ASSUME NEW h \in Handlers, Request(h) \/ Disconnect(h) PROVE Phases'
  BY <1>9 DEF Request, Disconnect, durable
<1>10. CASE Start \/ Sigterm
  BY <1>10 DEF Start, Sigterm, durable
<1>11. CASE TimePasses \/ TickSample \/ TickPrune \/ UNCHANGED vars
  BY <1>11 DEF TimePasses, TickSample, TickPrune, vars, durable
<1>12. CASE SelectDone \/ SelectSample
  BY <1>12 DEF SelectDone, SelectSample, StartCollect, durable
<1>13. CASE SelectPrune
  BY <1>13 DEF SelectPrune
<1> QED
  BY <1>1, <1>2, <1>3, <1>4, <1>5, <1>6, <1>7, <1>8, <1>9, <1>10, <1>11, <1>12, <1>13
  DEF Next, Step, BootError, Exit, Crash

\* A handler that stores a sample, and a loop that begins without one, put every
\* subject into `gap`.
LEMMA OrderedStep ==
  ASSUME IInv, Phases, Ordered, [Next]_vars, gap' # Subjects
  PROVE  Ordered'
<1> USE Names DEF IInv, TypeOK, Phases, Ordered, Collecting, Booting, Procs
<1>1. ASSUME NEW p \in Procs, ReadFound(p) PROVE Ordered'
  BY <1>1 DEF ReadFound, Return, durable
<1>2. ASSUME NEW p \in Procs, ReadEmpty(p) PROVE Ordered'
  BY <1>2 DEF ReadEmpty, StartCollect
<1>3. ASSUME NEW p \in Procs, FinishCollect(p) PROVE Ordered'
  <2>1. snap'[Bg].ts = snap[Bg].ts /\ (pc'[Bg] = pc[Bg] \/ (p = Bg /\ pc'[Bg] = "insert"))
    BY <1>3 DEF FinishCollect
  <2> QED BY <1>3, <2>1 DEF FinishCollect, durable, bgVars
<1>4. ASSUME NEW p \in Procs, InsertFirst(p) PROVE Ordered'
  BY <1>4 DEF InsertFirst, InsertSample, Return
<1>5. ASSUME NEW p \in Procs, SnapshotError(p) PROVE Ordered'
  <2>1. p # Bg /\ snap'[Bg] = snap[Bg] /\ pc'[Bg] = pc[Bg] /\ phase' = phase
    BY <1>5 DEF SnapshotError
  <2> QED BY <1>5, <2>1 DEF SnapshotError, durable, bgVars
<1>6. CASE RecordSample
  BY <1>6 DEF RecordSample, InsertSample, Sample
<1>7. CASE DropSample \/ EmitDone \/ PruneEvents
  BY <1>7 DEF DropSample, EmitDone, PruneEvents, durable
<1>8. ASSUME NEW i \in Subjects, AddEvent(i) \/ LoseEvent(i) PROVE Ordered'
  BY <1>8 DEF AddEvent, LoseEvent, durable
<1>9. CASE GoDown
  BY <1>9 DEF GoDown, durable
<1>10. ASSUME NEW h \in Handlers, Request(h) \/ Disconnect(h) PROVE Ordered'
  BY <1>10 DEF Request, Disconnect, durable, bgVars
<1>11. CASE Start \/ Sigterm
  BY <1>11 DEF Start, Sigterm, durable, bgVars
<1>12. CASE TimePasses \/ TickSample \/ TickPrune \/ UNCHANGED vars
  BY <1>12 DEF TimePasses, TickSample, TickPrune, vars, durable, bgVars
<1>13. CASE SelectDone
  BY <1>13 DEF SelectDone, durable
<1>14. CASE SelectSample
  <2>1. pc'[Bg] = "collect" /\ snap'[Bg].ts = clock + 1 /\ samples' = samples /\ phase' = "loop"
    BY <1>14 DEF SelectSample, StartCollect
  <2>2. \A s \in samples : s.ts \in Nat /\ s.ts <= clock
    BY DEF Instants, Sample
  <2> QED BY <2>1, <2>2
<1>15. CASE SelectPrune
  BY <1>15 DEF SelectPrune
<1> QED
  BY <1>1, <1>2, <1>3, <1>4, <1>5, <1>6, <1>7, <1>8, <1>9, <1>10, <1>11, <1>12, <1>13, <1>14,
     <1>15
  DEF Next, Step, BootError, Exit, Crash

-----------------------------------------------------------------------------
\* The feed of a subject that stays out of `gap`.

LEMMA QuietStep ==
  ASSUME Emitting, Quiet, NEW i, Chain(i), Baseline(i), Told(i)
  PROVE  Chain(i)' /\ Baseline(i)' /\ Told(i)'
<1> USE DEF Quiet, EventsOf
<1>1. Chain(i)'
  BY DEF Chain
<1>2. Observed(i)' = Observed(i) /\ Reported(i)' = Reported(i)
  BY DEF Observed, Reported
<1>3. (\A v : Ends(i, v)' <=> Ends(i, v)) /\ (\A s : LatestSample(s)' <=> LatestSample(s))
  BY DEF Ends, LatestSample
<1>4. Baseline(i)'
  BY <1>2, <1>3 DEF Baseline, Ends, Newest, LatestSample
<1>5. Told(i)'
  BY DEF Told, Adjacent, Emitting
<1> QED BY <1>1, <1>4, <1>5

\* The first `previous` is the newest sample.
LEMMA SeedStep ==
  ASSUME IInv, Unique, Phases, ReadFound(Bg), NEW i \in Subjects, Chain(i), Baseline(i), Told(i)
  PROVE  Chain(i)' /\ Baseline(i)' /\ Told(i)'
<1> USE DEF EventsOf
<1>1. PICK s \in samples : LatestSample(s) /\ Return(Bg, s)
  BY DEF ReadFound
<1>2. phase' = "loop" /\ pc'[Bg] = "select" /\ previous' = s.obs
  BY <1>1, Names DEF Return, IInv, TypeOK, Procs
<1>3. UNCHANGED <<samples, events, pending, snap>> /\ pc[Bg] = "read" /\ pending = {}
  BY DEF ReadFound, durable, IInv, Emitting
<1>4. s.obs[i] # Absent
  BY <1>1, ObsValues DEF IInv, TypeOK, Sample
<1>5. phase # "loop" \/ (Ends(i, s.obs[i]) /\ Newest(i, s.obs[i]))
  BY <1>1, <1>3 DEF Baseline, Newest, Observed, Reported
<1>6. \A t \in samples : LatestSample(t) => t = s
  BY <1>1 DEF Unique, LatestSample, IInv, TypeOK, Sample
<1>7. Ends(i, s.obs[i])
  BY <1>1, <1>5 DEF Baseline
<1>8. Chain(i)' /\ Told(i)'
  BY <1>3 DEF Chain, Told, Adjacent
<1>9. Observed(i)' = s.obs[i] /\ Reported(i)' = s.obs[i]
  BY <1>2, <1>3 DEF Observed, Reported
<1>10. Ends(i, s.obs[i])' /\ Newest(i, s.obs[i])'
  BY <1>1, <1>3, <1>6, <1>7 DEF Ends, Newest, LatestSample
<1>11. Baseline(i)'
  BY <1>2, <1>4, <1>9, <1>10 DEF Baseline, Ends, Newest
<1> QED BY <1>8, <1>11

\* A first sample goes into an empty table: nothing has been said of i.
LEMMA FirstStep ==
  ASSUME IInv, Phases, Ordered, NEW p \in Procs, InsertFirst(p), NEW i \in Subjects \ gap'
  PROVE  Chain(i)' /\ Baseline(i)' /\ Told(i)'
<1> USE DEF EventsOf
<1>1. p \notin Handlers
  BY DEF InsertFirst
<1>2. (p = Main \/ (p = Bg /\ phase # "loop")) /\ samples = {}
  BY <1>1 DEF InsertFirst, Procs, Phases, Ordered, Collecting
<1>3. samples' = {snap[p]}
  BY <1>2 DEF InsertFirst, InsertSample
<1>4. \A e \in events' : e.subject # i
  BY <1>1 DEF InsertFirst
<1>5. snap[p].obs[i] # Absent /\ pc[p] = "insert" /\ pending' = {} /\ snap[p].ts \in Nat
  BY <1>2, ObsValues DEF InsertFirst, IInv, TypeOK, Complete, Emitting, Phases, Booting, Procs
<1>6. Chain(i)' /\ (\A v : Ends(i, v)')
  BY <1>4 DEF Chain, Ends
<1>7. Told(i)'
  BY <1>3, <1>5 DEF Told, Adjacent
<1>8. CASE p = Main
  <2>1. phase' = "seed"
    BY <1>8, Names DEF InsertFirst, Return
  <2> QED BY <2>1, <1>6, <1>7 DEF Baseline, Ends
<1>9. CASE p = Bg
  <2>1. phase' = "loop" /\ pc'[Bg] = "select" /\ previous' = snap[Bg].obs
    BY <1>9, Names DEF InsertFirst, Return, IInv, TypeOK, Procs
  <2>2. Observed(i)' = snap[Bg].obs[i]
    BY <2>1 DEF Observed
  <2>3. Newest(i, Observed(i))'
    BY <1>3, <1>9, <2>2 DEF Newest
  <2>4. Ends(i, Reported(i))'
    BY <1>4 DEF Ends
  <2> QED BY <1>5, <1>6, <1>7, <1>9, <2>1, <2>3, <2>4 DEF Baseline
<1> QED BY <1>2, <1>8, <1>9

\* A sample of the loop comes after all others; what differs in it is pending.
LEMMA RecordStep ==
  ASSUME IInv, Unique, Phases, Ordered, RecordSample, NEW i \in Subjects,
         Chain(i), Baseline(i), Told(i)
  PROVE  Chain(i)' /\ Baseline(i)' /\ Told(i)'
<1> USE DEF EventsOf
<1> DEFINE new == snap[Bg]
<1>1. /\ phase = "loop" /\ phase' = "loop" /\ pc[Bg] = "insert" /\ pc'[Bg] = "emit"
      /\ samples' = samples \cup {new} /\ events' = events /\ previous' = previous
      /\ snap' = snap /\ pending = {} /\ pending' = Transitions(previous, new.obs)
  BY DEF RecordSample, InsertSample, IInv, TypeOK, Emitting, Procs
<1>2. new.ts \in Nat /\ \A s \in samples : s.ts < new.ts /\ s.ts \in Nat
  BY <1>1 DEF Ordered, Collecting, IInv, TypeOK, Sample, Procs
<1>3. previous[i] # Absent /\ Ends(i, previous[i]) /\ Newest(i, previous[i])
  BY <1>1 DEF Baseline, Observed, Reported
<1>4. i \in pending' <=> previous[i] # new.obs[i]
  BY <1>1, <1>3 DEF Transitions
<1> HIDE DEF new
<1>5. Chain(i)'
  BY <1>1 DEF Chain
<1>6. Observed(i)' = new.obs[i] /\ Reported(i)' = previous[i]
  BY <1>1, <1>4 DEF Observed, Reported, new
<1>7. \A s \in samples' : LatestSample(s)' => s = new
  BY <1>1, <1>2 DEF LatestSample
<1>8. Newest(i, Observed(i))'
  BY <1>6, <1>7 DEF Newest
<1>9. Ends(i, Reported(i))'
  BY <1>1, <1>3, <1>6 DEF Ends
<1>10. Baseline(i)'
  BY <1>1, <1>3, <1>8, <1>9 DEF Baseline
<1>11. ASSUME NEW s \in samples', NEW t \in samples', Adjacent(s, t)', s.obs[i] # t.obs[i]
       PROVE  \/ [subject |-> i, from |-> s.obs[i], to |-> t.obs[i], at |-> t.ts] \in events'
              \/ i \in pending' /\ snap'[Bg].ts = t.ts /\ s.obs[i] = previous'[i]
  <2>1. CASE t = new
    <3>1. s \in samples /\ LatestSample(s)
      BY <1>1, <1>2, <1>11, <2>1 DEF Adjacent, LatestSample
    <3>2. s.obs[i] = previous[i]
      BY <1>3, <3>1 DEF Newest
    <3> QED BY <1>1, <1>4, <1>11, <2>1, <3>2 DEF new
  <2>2. CASE t # new
    <3>1. s \in samples /\ t \in samples
      BY <1>1, <1>2, <1>11, <2>2 DEF Adjacent
    <3>2. Adjacent(s, t)
      BY <1>1, <1>11 DEF Adjacent
    <3> QED BY <1>1, <1>11, <3>1, <3>2 DEF Told
  <2> QED BY <2>1, <2>2
<1>12. Told(i)'
  BY <1>11 DEF Told
<1> QED BY <1>5, <1>10, <1>12

LEMMA DoneStep ==
  ASSUME IInv, Phases, EmitDone, NEW i \in Subjects, Chain(i), Baseline(i), Told(i)
  PROVE  Chain(i)' /\ Baseline(i)' /\ Told(i)'
<1> USE DEF EventsOf
<1>1. /\ phase = "loop" /\ phase' = "loop" /\ pc[Bg] = "emit" /\ pc'[Bg] = "select"
      /\ UNCHANGED <<samples, events>> /\ pending = {} /\ pending' = {}
      /\ previous' = snap[Bg].obs
  BY DEF EmitDone, durable, Phases, IInv, TypeOK, Procs
<1>2. snap[Bg].obs[i] # Absent
  BY <1>1, ObsValues DEF IInv, Emitting, TypeOK, Sample
<1>3. Observed(i)' = Observed(i) /\ Reported(i)' = Reported(i) /\ previous'[i] # Absent
  BY <1>1, <1>2 DEF Observed, Reported
<1>4. Ends(i, Reported(i)) /\ Newest(i, Observed(i))
  BY <1>1 DEF Baseline
<1>5. Ends(i, Reported(i))' /\ Newest(i, Observed(i))'
  BY <1>1, <1>3, <1>4 DEF Ends, Newest, LatestSample
<1>6. Chain(i)' /\ Told(i)'
  BY <1>1 DEF Chain, Told, Adjacent
<1> QED BY <1>1, <1>3, <1>5, <1>6 DEF Baseline

\* The event of another subject is stored, or lost.
LEMMA OtherStep ==
  ASSUME IInv, NEW i \in Subjects, NEW j \in Subjects \ {i}, AddEvent(j) \/ LoseEvent(j),
         Chain(i), Baseline(i), Told(i)
  PROVE  Chain(i)' /\ Baseline(i)' /\ Told(i)'
<1>1. /\ UNCHANGED <<samples, phase, pc, snap, previous>> /\ events \subseteq events'
      /\ pending' = pending \ {j} /\ EventsOf(i)' = EventsOf(i)
  BY DEF AddEvent, LoseEvent, durable, EventsOf
<1>2. Observed(i)' = Observed(i) /\ Reported(i)' = Reported(i)
  BY <1>1 DEF Observed, Reported
<1>3. Chain(i)' /\ Told(i)'
  BY <1>1 DEF Chain, Told, Adjacent
<1>4. \A v : (Ends(i, v) => Ends(i, v)') /\ (Newest(i, v) => Newest(i, v)')
  BY <1>1 DEF Ends, Newest, LatestSample
<1>5. Baseline(i)'
  BY <1>1, <1>2 DEF Baseline, Ends, Newest, LatestSample
<1> QED BY <1>3, <1>5

\* The event of i itself comes after all others of i and starts from where they
\* end.
LEMMA AddStep ==
  ASSUME IInv, Unique, Phases, NEW i \in Subjects, AddEvent(i),
         Chain(i), Baseline(i), Told(i)
  PROVE  Chain(i)' /\ Baseline(i)' /\ Told(i)'
<1> DEFINE e0 == [subject |-> i, from |-> previous[i], to |-> snap[Bg].obs[i], at |-> snap[Bg].ts]
<1>1. /\ phase = "loop" /\ pc[Bg] = "emit" /\ i \in pending /\ pending' = pending \ {i}
      /\ UNCHANGED <<samples, phase, pc, snap, previous>> /\ events' = events \cup {e0}
  BY DEF AddEvent, IsNext, Phases
<1>2. EventsOf(i)' = EventsOf(i) \cup {e0}
  BY <1>1 DEF EventsOf
<1>3. e0.at \in Nat /\ \A e \in EventsOf(i) : e.at \in Nat /\ e.at < e0.at
  <2>1. snap[Bg].ts \in Nat
    BY DEF IInv, TypeOK, Procs
  <2>2. ASSUME NEW e \in EventsOf(i) PROVE e.at \in Nat /\ e.at < snap[Bg].ts
    <3>1. e \in events /\ e.subject = i /\ e.at \in Nat
      BY DEF EventsOf, IInv, TypeOK, Event
    <3>2. e.at <= snap[Bg].ts /\ (e.at = snap[Bg].ts => i < i)
      BY <1>1, <3>1 DEF IInv, Emitting
    <3> QED BY <2>1, <3>1, <3>2 DEF Subjects
  <2> QED BY <2>1, <2>2
<1>4. /\ e0.from = previous[i] /\ e0.to = snap[Bg].obs[i] /\ e0.at = snap[Bg].ts
      /\ e0 \in events'
  BY <1>1
<1>5. Ends(i, previous[i]) /\ Newest(i, snap[Bg].obs[i]) /\ previous[i] # Absent
  BY <1>1 DEF Baseline, Reported, Observed
<1>6. snap[Bg] \in samples
  BY <1>1 DEF IInv, Emitting
<1>7. Told(i)'
  <2> SUFFICES ASSUME NEW s \in samples, NEW t \in samples, Adjacent(s, t), s.obs[i] # t.obs[i]
               PROVE  [subject |-> i, from |-> s.obs[i], to |-> t.obs[i], at |-> t.ts] \in events'
    BY <1>1 DEF Told, Adjacent
  <2>1. CASE snap[Bg].ts = t.ts /\ s.obs[i] = previous[i]
    <3>1. t = snap[Bg]
      BY <1>6, <2>1 DEF Unique
    <3> QED BY <1>4, <2>1, <3>1
  <2> QED BY <1>1, <2>1 DEF Told
<1> HIDE DEF e0
<1>8. Chain(i)'
  <2> SUFFICES ASSUME NEW e \in EventsOf(i) \cup {e0}, NEW f \in EventsOf(i) \cup {e0},
                      e.at < f.at,
                      \A g \in EventsOf(i) \cup {e0} : ~(e.at < g.at /\ g.at < f.at)
               PROVE  e.to = f.from
    BY <1>2 DEF Chain
  <2>1. e \in EventsOf(i)
    BY <1>3
  <2>2. CASE f = e0
    BY <1>3, <1>4, <1>5, <2>1, <2>2 DEF Ends
  <2>3. CASE f # e0
    BY <2>1, <2>3 DEF Chain
  <2> QED BY <2>2, <2>3
<1>9. Reported(i)' = e0.to /\ Observed(i)' = e0.to
  BY <1>1, <1>4 DEF Reported, Observed
<1>10. Ends(i, Reported(i))'
  BY <1>2, <1>3, <1>9 DEF Ends
<1>11. Newest(i, Observed(i))'
  BY <1>1, <1>4, <1>5, <1>9 DEF Newest, LatestSample
<1>12. Baseline(i)'
  BY <1>1, <1>5, <1>10, <1>11 DEF Baseline
<1> QED BY <1>7, <1>8, <1>12

\* Prune takes the oldest rows: those that stay keep their neighbours, and its
\* two statements share one cutoff.
LEMMA PruneSamplesStep ==
  ASSUME IInv, Phases, SelectPrune, samples' # samples, NEW i \in Subjects,
         Chain(i), Baseline(i), Told(i)
  PROVE  Chain(i)' /\ Baseline(i)' /\ Told(i)'
<1> USE DEF EventsOf
<1> DEFINE bound == clock - Retention
<1>1. /\ phase = "loop" /\ phase' = "loop" /\ pc[Bg] = "select" /\ pc'[Bg] = "prune"
      /\ UNCHANGED <<events, snap, previous, pending>>
      /\ samples' = {s \in samples : s.ts >= bound}
  BY DEF SelectPrune, Phases, IInv, TypeOK, Procs
<1>2. bound \in Int /\ \A s \in samples : s.ts \in Nat
  BY SamplerAssumption DEF IInv, TypeOK, Sample
<1> HIDE DEF bound
<1>3. \A s \in samples' : LatestSample(s)' => LatestSample(s)
  BY <1>1, <1>2 DEF LatestSample
<1>4. \A s, t \in samples' : Adjacent(s, t)' => Adjacent(s, t)
  BY <1>1, <1>2 DEF Adjacent
<1>5. Observed(i)' = Observed(i) /\ Reported(i)' = Reported(i)
  BY <1>1 DEF Observed, Reported
<1>6. Ends(i, Reported(i))' /\ Chain(i)'
  BY <1>1, <1>5 DEF Baseline, Ends, Chain
<1>7. Newest(i, Observed(i))'
  BY <1>1, <1>3, <1>5 DEF Baseline, Newest
<1>8. Told(i)'
  BY <1>1, <1>4 DEF Told
<1> QED BY <1>1, <1>6, <1>7, <1>8 DEF Baseline

LEMMA PruneEventsStep ==
  ASSUME IInv, Phases, Ordered, PruneEvents, events' # events, NEW i \in Subjects,
         Chain(i), Baseline(i), Told(i)
  PROVE  Chain(i)' /\ Baseline(i)' /\ Told(i)'
<1>1. /\ phase = "loop" /\ phase' = "loop" /\ pc[Bg] = "prune" /\ pc'[Bg] = "select"
      /\ UNCHANGED <<samples, snap, previous, pending>>
      /\ events' = {e \in events : e.at >= cutoff}
  BY DEF PruneEvents, Phases, IInv, TypeOK, Procs
<1>2. cutoff \in Int /\ \A e \in events : e.at \in Nat
  BY DEF IInv, TypeOK, Event
<1>3. EventsOf(i)' = {e \in EventsOf(i) : e.at >= cutoff} /\ \A e \in EventsOf(i) : e.at \in Nat
  BY <1>1, <1>2 DEF EventsOf
<1>4. Observed(i)' = Observed(i) /\ Reported(i)' = Reported(i)
  BY <1>1 DEF Observed, Reported
<1>5. Chain(i)'
  <2> SUFFICES ASSUME NEW e \in EventsOf(i)', NEW f \in EventsOf(i)', e.at < f.at,
                      \A g \in EventsOf(i)' : ~(e.at < g.at /\ g.at < f.at)
               PROVE  e.to = f.from
    BY DEF Chain
  <2>1. e \in EventsOf(i) /\ f \in EventsOf(i) /\ e.at >= cutoff
    BY <1>3
  <2>2. \A g \in EventsOf(i) : ~(e.at < g.at /\ g.at < f.at)
    BY <1>2, <1>3, <2>1
  <2> QED BY <2>1, <2>2 DEF Chain
<1>6. Ends(i, Reported(i))'
  <2>1. Ends(i, Reported(i))
    BY <1>1 DEF Baseline
  <2>2. \A e \in EventsOf(i)' : (\A f \in EventsOf(i)' : f.at <= e.at) =>
          e \in EventsOf(i) /\ \A f \in EventsOf(i) : f.at <= e.at
    BY <1>2, <1>3
  <2> QED BY <1>4, <2>1, <2>2 DEF Ends
<1>7. Newest(i, Observed(i))'
  BY <1>1, <1>4 DEF Baseline, Newest, LatestSample
<1>8. Told(i)'
  <2>1. \A t \in samples : t.ts >= cutoff
    BY <1>1 DEF Ordered
  <2> QED BY <1>1, <2>1 DEF Told, Adjacent
<1> QED BY <1>1, <1>5, <1>6, <1>7, <1>8 DEF Baseline

\* Between two processes the feed of a subject with nothing pending ends in the
\* newest sample.
LEMMA DownStep ==
  ASSUME GoDown, NEW i \in Subjects \ gap', Chain(i), Baseline(i), Told(i)
  PROVE  Chain(i)' /\ Baseline(i)' /\ Told(i)'
<1> USE DEF EventsOf
<1>1. UNCHANGED <<samples, events>> /\ phase' = "down" /\ i \notin pending
  BY DEF GoDown, durable
<1>2. Chain(i)' /\ Told(i)'
  BY <1>1 DEF Chain, Told, Adjacent
<1>3. \A s \in samples : LatestSample(s) => Ends(i, s.obs[i])
  BY <1>1 DEF Baseline, Newest, Reported
<1>4. Baseline(i)'
  BY <1>1, <1>3 DEF Baseline, Ends, LatestSample
<1> QED BY <1>2, <1>4

-----------------------------------------------------------------------------
LEMMA FeedInit == Init => Faithful
BY Names DEF Init, Faithful, Unique, Phases, Ordered, Collecting, Chain, Baseline, Told, EventsOf, Procs

LEMMA FaithfulStep == IInv /\ Faithful /\ [Next]_vars => Faithful'
<1> SUFFICES ASSUME IInv, Faithful, [Next]_vars PROVE Faithful'
  OBVIOUS
<1>1. Unique' /\ Phases' /\ gap \subseteq gap'
  BY UniqueStep, PhasesStep, GapGrows DEF Faithful, IInv
<1>2. gap' \subseteq Subjects
  BY TypeStep DEF TypeOK
<1>3. gap' # Subjects => Ordered /\ Ordered'
  BY <1>1, <1>2, OrderedStep DEF Faithful
<1>4. ASSUME NEW i \in Subjects \ gap' PROVE Chain(i)' /\ Baseline(i)' /\ Told(i)'
  <2>1. Chain(i) /\ Baseline(i) /\ Told(i) /\ Unique /\ Phases /\ Ordered /\ Emitting
    BY <1>1, <1>3, <1>4 DEF Faithful, IInv
  <2>2. CASE Quiet
    BY <2>1, <2>2, QuietStep
  <2>3. CASE GoDown
    BY <2>1, <2>3, DownStep
  <2>4. CASE ReadFound(Bg)
    BY <2>1, <2>4, SeedStep
  <2>5. ASSUME NEW p \in Procs, InsertFirst(p) PROVE Chain(i)' /\ Baseline(i)' /\ Told(i)'
    BY <2>1, <2>5, FirstStep
  <2>6. ASSUME NEW p \in Procs, SnapshotError(p) PROVE Chain(i)' /\ Baseline(i)' /\ Told(i)'
    <3>1. p # Bg
      BY <1>4, <2>6 DEF SnapshotError
    <3>2. Quiet
      BY <2>6, <3>1, Names DEF SnapshotError, Quiet, durable, bgVars, IInv, TypeOK, Procs
    <3> QED BY <2>1, <3>2, QuietStep
  <2>7. CASE RecordSample
    BY <2>1, <2>7, RecordStep
  <2>8. CASE EmitDone
    BY <2>1, <2>8, DoneStep
  <2>9. CASE PruneEvents
    <3>1. CASE events' = events
      <4>1. Quiet
        BY <2>9, <3>1 DEF PruneEvents, Quiet, IInv, TypeOK, Procs
      <4> QED BY <2>1, <4>1, QuietStep
    <3> QED BY <2>1, <2>9, <3>1, PruneEventsStep
  <2>10. CASE SelectPrune
    <3>1. CASE samples' = samples
      <4>1. Quiet
        BY <2>10, <3>1 DEF SelectPrune, Quiet, IInv, TypeOK, Procs
      <4> QED BY <2>1, <4>1, QuietStep
    <3> QED BY <2>1, <2>10, <3>1, PruneSamplesStep
  <2>11. ASSUME NEW j \in Subjects, AddEvent(j) \/ LoseEvent(j)
         PROVE  Chain(i)' /\ Baseline(i)' /\ Told(i)'
    <3>1. CASE j # i
      BY <2>1, <2>11, <3>1, OtherStep
    <3>2. CASE j = i
      <4>1. AddEvent(i)
        BY <1>4, <2>11, <3>2 DEF LoseEvent
      <4> QED BY <2>1, <4>1, AddStep
    <3> QED BY <3>1, <3>2
  <2> QED
    BY <2>1, <2>2, <2>3, <2>4, <2>5, <2>6, <2>7, <2>8, <2>9, <2>10, <2>11, Kinds DEF Heard
<1> QED BY <1>1, <1>3, <1>4 DEF Faithful

LEMMA AlwaysFaithful == Spec => [](IInv /\ Faithful)
<1>1. IInv /\ Faithful /\ [Next]_vars => Faithful'
  BY FaithfulStep
<1> QED BY <1>1, FeedInit, Inductive, PTL DEF Spec

\* The events of a subject form an unbroken chain that ends where the loop
\* stands: each transition is reported once, from the state the last report
\* ended in, across restarts, prunes and samples that could not be stored.
THEOREM ChainsUnbroken == Spec => []FeedChains
<1>1. IInv /\ Faithful => FeedChains
  <2> SUFFICES ASSUME IInv, Faithful, NEW i \in Subjects \ gap
               PROVE  /\ Chain(i)
                      /\ pc[Bg] = "select" => Ends(i, previous[i])
    BY DEF FeedChains, Chain, Ends
  <2>1. Chain(i) /\ Baseline(i) /\ Phases
    BY DEF Faithful
  <2>2. ASSUME pc[Bg] = "select" PROVE Ends(i, previous[i])
    <3>1. Reported(i) = previous[i] /\ phase = "loop"
      BY <2>1, <2>2 DEF Phases, Reported, Observed
    <3> QED BY <2>1, <3>1 DEF Baseline
  <2> QED BY <2>1, <2>2
<1> QED BY <1>1, AlwaysFaithful, PTL

\* Every transition that shows between two neighbouring rows of the history is in
\* the feed or about to be stored.
THEOREM HistoryReported == Spec => []FeedComplete
<1>1. IInv /\ Faithful => FeedComplete
  BY DEF Faithful, FeedComplete, Told
<1> QED BY <1>1, AlwaysFaithful, PTL
=============================================================================
