--------------------------- MODULE SessionsProofs ---------------------------
(***************************************************************************)
(* Theorems about Sessions for any number of requests, sessions and faults *)
(* and any life of a session: type correctness, that the audit log tells   *)
(* the truth, that rows only age, that a session that would still be       *)
(* accepted ends only by its own logout, and that requests and the loop    *)
(* together behave as SessionStore says.                                   *)
(***************************************************************************)
EXTENDS Sessions, TLAPS

\* Every id in use was drawn.
Drawn ==
  /\ \A s \in sessions : s.id <= issued
  /\ \A id \in removed : id <= issued
  /\ \A a \in audit : a.id <= issued
  /\ \A r \in Requests : session[r] <= issued /\ (pc[r] # "idle" => session[r] # 0)

\* The id of a session that is about to be stored is found nowhere else yet.
Fresh ==
  \A r \in Requests : pc[r] = "create" =>
    /\ session[r] \notin Ids \cup removed
    /\ \A a \in audit : a.id # session[r]
    /\ \A q \in Requests \ {r} : session[q] # session[r]

\* What is about to be audited is as true as what is.
Truthful ==
  \A r \in Requests :
    /\ pc[r] = "auditLogout" => session[r] \notin Ids \/ session[r] \in kept
    /\ pc[r] \notin {"idle", "create"} => session[r] \in Ids \cup removed

IInv == TypeOK /\ Drawn /\ Fresh /\ Truthful /\ AuditTruthful

-----------------------------------------------------------------------------

\* The empty tables satisfy it.
LEMMA InitInv == Init => IInv
BY SessionsAssumption
DEF Init, IInv, TypeOK, Drawn, Fresh, Truthful, AuditTruthful, Ids

\* A theme switch changes no id and no expiry, and leaves rows that are rows.
LEMMA UpdateFacts ==
  ASSUME sessions \subseteq Session, NEW id, NEW value,
         sessions' = UpdateSessionTheme(id, ThemeOf(value))
  PROVE  /\ sessions' \subseteq Session
         /\ \A t \in sessions' : \E s \in sessions : s.id = t.id /\ s.expires = t.expires
         /\ Ids' = Ids
<1>1. ThemeOf(value) \in Themes
  BY DEF ThemeOf, Themes
<1> DEFINE Updated(s) == IF s.id = id THEN [s EXCEPT !.theme = ThemeOf(value)] ELSE s
<1>2. sessions' = {Updated(s) : s \in sessions}
  BY DEF UpdateSessionTheme
<1>3. \A s \in sessions : /\ Updated(s) \in Session
                          /\ Updated(s).id = s.id /\ Updated(s).expires = s.expires
  BY <1>1 DEF Session
<1> HIDE DEF Updated
<1> QED BY <1>2, <1>3 DEF Ids

\* An INSERT adds the id of its row to those in the table.
LEMMA IdsAfterCreate ==
  ASSUME NEW row, sessions' = sessions \cup {row}
  PROVE  Ids' = Ids \cup {row.id}
BY DEF Ids

\* Ids in the table that a DELETE takes out are on record as removed.
LEMMA IdsAfterDelete ==
  ASSUME NEW gone \in SUBSET sessions, DeleteRows(gone)
  PROVE  /\ Ids' \subseteq Ids
         /\ Ids \subseteq Ids' \cup removed'
         /\ removed' \subseteq removed \cup Ids
         /\ removed \subseteq removed'
BY DEF DeleteRows, Ids

-----------------------------------------------------------------------------
\* The conjuncts of IInv, action by action.

LEMMA TypeStep == TypeOK /\ Drawn /\ [Next]_vars => TypeOK'
<1> SUFFICES ASSUME TypeOK, Drawn, [Next]_vars PROVE TypeOK'
  OBVIOUS
<1> USE DEF TypeOK
<1>1. ASSUME NEW r \in Requests, DrawId(r) PROVE TypeOK'
  BY <1>1 DEF DrawId, At, Audit, Actions
<1>2. ASSUME NEW r \in Requests, CreateSession(r) PROVE TypeOK'
  <2>1. [id |-> session[r], theme |-> DefaultTheme, expires |-> now + TTL] \in Session
    BY <1>2, SessionsAssumption DEF CreateSession, Drawn, Session, DefaultTheme, Themes
  <2> QED BY <1>2, <2>1 DEF CreateSession, At, Fails, Audit, Actions
<1>3. ASSUME NEW r \in Requests, NEW id \in 1 .. issued, RequireAuth(r, id) PROVE TypeOK'
  BY <1>3 DEF RequireAuth, At, Audit, Actions
<1>4. ASSUME NEW r \in Requests, Page(r) PROVE TypeOK'
  BY <1>4 DEF Page, At, Audit, Actions
<1>5. ASSUME NEW r \in Requests, Logout(r) PROVE TypeOK'
  BY <1>5 DEF Logout, At, Fails, DeleteRows, Expired, Session, Audit, Actions
<1>6. ASSUME NEW r \in Requests, NEW value \in FormValues, Theme(r, value) PROVE TypeOK'
  <2>1. CASE sessions' = UpdateSessionTheme(session[r], ThemeOf(value))
    <3>1. sessions' \subseteq Session
      BY <2>1, UpdateFacts
    <3>2. "auditTheme" \in {Audit(action) : action \in Actions}
      BY DEF Audit, Actions
    <3> QED BY <1>6, <3>1, <3>2 DEF Theme, At, Fails
  <2>2. CASE UNCHANGED sessions
    BY <1>6, <2>2 DEF Theme, At, Fails, Audit, Actions
  <2> QED BY <1>6, <2>1, <2>2 DEF Theme
<1>7. ASSUME NEW r \in Requests, NEW action \in Actions, AddAudit(r, action) PROVE TypeOK'
  <2>1. session[r] \in Nat \ {0}
    BY <1>7 DEF AddAudit, Drawn, Audit, Actions
  <2> QED BY <1>7, <2>1 DEF AddAudit, At, Fails, Audit, Actions
<1>8. CASE Purge
  <2>1. \A s \in sessions : s.id \in Nat
    BY DEF Session
  <2>2. sessions' \subseteq sessions /\ removed' \subseteq Nat
    BY <1>8, <2>1 DEF Purge, DeleteRows, Expired
  <2> QED BY <1>8, <2>2 DEF Purge, Fails
<1>9. CASE Restart
  BY <1>9 DEF Restart, Fails
<1>10. CASE TimePasses
  BY <1>10 DEF TimePasses
<1>11. CASE UNCHANGED vars
  BY <1>11 DEF vars
<1> QED BY <1>1, <1>2, <1>3, <1>4, <1>5, <1>6, <1>7, <1>8, <1>9, <1>10, <1>11 DEF Next

LEMMA DrawnStep == TypeOK /\ Drawn /\ [Next]_vars => Drawn'
<1> SUFFICES ASSUME TypeOK, Drawn, [Next]_vars PROVE Drawn'
  OBVIOUS
<1> USE DEF TypeOK, Drawn, Session
<1>1. ASSUME NEW r \in Requests, DrawId(r) PROVE Drawn'
  BY <1>1 DEF DrawId, At
<1>2. ASSUME NEW r \in Requests, CreateSession(r) PROVE Drawn'
  <2>1. \A s \in sessions' : s.id <= issued
    BY <1>2 DEF CreateSession
  <2>2. session[r] <= issued /\ session[r] # 0 /\ 0 <= issued
    BY <1>2 DEF CreateSession
  <2>3. \A q \in Requests : session'[q] <= issued /\ (pc'[q] # "idle" => session'[q] # 0)
    BY <1>2, <2>2 DEF CreateSession, At
  <2> QED BY <1>2, <2>1, <2>3 DEF CreateSession
<1>3. ASSUME NEW r \in Requests, NEW id \in 1 .. issued, RequireAuth(r, id) PROVE Drawn'
  BY <1>3 DEF RequireAuth, At
<1>4. ASSUME NEW r \in Requests, Page(r) PROVE Drawn'
  BY <1>4 DEF Page, At
<1>5. ASSUME NEW r \in Requests, Logout(r) PROVE Drawn'
  BY <1>5 DEF Logout, At, Fails, DeleteRows, Expired
<1>6. ASSUME NEW r \in Requests, NEW value \in FormValues, Theme(r, value) PROVE Drawn'
  <2>1. CASE sessions' = UpdateSessionTheme(session[r], ThemeOf(value))
    BY <1>6, <2>1, UpdateFacts DEF Theme, At
  <2>2. CASE UNCHANGED sessions
    BY <1>6, <2>2 DEF Theme, At, Fails
  <2> QED BY <1>6, <2>1, <2>2 DEF Theme
<1>7. ASSUME NEW r \in Requests, NEW action \in Actions, AddAudit(r, action) PROVE Drawn'
  BY <1>7 DEF AddAudit, At, Fails
<1>8. CASE Purge
  BY <1>8 DEF Purge, Fails, DeleteRows, Expired
<1>9. CASE Restart
  BY <1>9 DEF Restart, Fails
<1>10. CASE TimePasses
  BY <1>10 DEF TimePasses
<1>11. CASE UNCHANGED vars
  BY <1>11 DEF vars
<1> QED BY <1>1, <1>2, <1>3, <1>4, <1>5, <1>6, <1>7, <1>8, <1>9, <1>10, <1>11 DEF Next

LEMMA FreshStep == TypeOK /\ Drawn /\ Fresh /\ [Next]_vars => Fresh'
<1> SUFFICES ASSUME TypeOK, Drawn, Fresh, [Next]_vars PROVE Fresh'
  OBVIOUS
<1> USE DEF TypeOK, Drawn, Fresh
<1>1. ASSUME NEW r \in Requests, DrawId(r) PROVE Fresh'
  BY <1>1 DEF DrawId, At, Ids
<1>2. ASSUME NEW r \in Requests, CreateSession(r) PROVE Fresh'
  BY <1>2 DEF CreateSession, At, Fails, Ids
<1>3. ASSUME NEW r \in Requests, NEW id \in 1 .. issued, RequireAuth(r, id) PROVE Fresh'
  BY <1>3 DEF RequireAuth, At, Ids
<1>4. ASSUME NEW r \in Requests, Page(r) PROVE Fresh'
  BY <1>4 DEF Page, At, Ids
<1>5. ASSUME NEW r \in Requests, Logout(r) PROVE Fresh'
  BY <1>5 DEF Logout, At, Fails, DeleteRows, Expired, Ids
<1>6. ASSUME NEW r \in Requests, NEW value \in FormValues, Theme(r, value) PROVE Fresh'
  <2>1. CASE sessions' = UpdateSessionTheme(session[r], ThemeOf(value))
    BY <1>6, <2>1, UpdateFacts DEF Theme, At
  <2>2. CASE UNCHANGED sessions
    BY <1>6, <2>2 DEF Theme, At, Fails, Ids
  <2> QED BY <1>6, <2>1, <2>2 DEF Theme
<1>7. ASSUME NEW r \in Requests, NEW action \in Actions, AddAudit(r, action) PROVE Fresh'
  BY <1>7 DEF AddAudit, At, Fails, Audit, Actions, Ids
<1>8. CASE Purge
  BY <1>8 DEF Purge, Fails, DeleteRows, Expired, Ids
<1>9. CASE Restart
  BY <1>9 DEF Restart, Fails, Ids
<1>10. CASE TimePasses
  BY <1>10 DEF TimePasses, Ids
<1>11. CASE UNCHANGED vars
  BY <1>11 DEF vars, Ids
<1> QED BY <1>1, <1>2, <1>3, <1>4, <1>5, <1>6, <1>7, <1>8, <1>9, <1>10, <1>11 DEF Next

LEMMA TruthfulStep == TypeOK /\ Drawn /\ Fresh /\ Truthful /\ [Next]_vars => Truthful'
<1> SUFFICES ASSUME TypeOK, Drawn, Fresh, Truthful, [Next]_vars PROVE Truthful'
  OBVIOUS
<1> USE DEF TypeOK, Drawn, Fresh, Truthful
<1>1. ASSUME NEW r \in Requests, DrawId(r) PROVE Truthful'
  BY <1>1 DEF DrawId, At, Ids
<1>2. ASSUME NEW r \in Requests, CreateSession(r) PROVE Truthful'
  <2>1. CASE Fails
    BY <1>2, <2>1 DEF CreateSession, At, Fails, Ids
  <2>2. CASE ~Fails
    <3>1. Ids' = Ids \cup {session[r]} /\ removed' = removed /\ kept' = kept
      <4> DEFINE row == [id |-> session[r], theme |-> DefaultTheme, expires |-> now + TTL]
      <4>1. sessions' = sessions \cup {row} /\ row.id = session[r]
        BY <1>2, <2>2 DEF CreateSession
      <4> HIDE DEF row
      <4> QED BY <1>2, <4>1, IdsAfterCreate DEF CreateSession
    <3>2. pc' = [pc EXCEPT ![r] = "auditLogin"] /\ session' = session
      BY <1>2, <2>2 DEF CreateSession, At
    <3> QED BY <1>2, <3>1, <3>2 DEF CreateSession
  <2> QED BY <2>1, <2>2
<1>3. ASSUME NEW r \in Requests, NEW id \in 1 .. issued, RequireAuth(r, id) PROVE Truthful'
  BY <1>3 DEF RequireAuth, At, Ids
<1>4. ASSUME NEW r \in Requests, Page(r) PROVE Truthful'
  BY <1>4 DEF Page, At, Ids
<1>5. ASSUME NEW r \in Requests, Logout(r) PROVE Truthful'
  BY <1>5 DEF Logout, At, Fails, DeleteRows, Expired, Ids
<1>6. ASSUME NEW r \in Requests, NEW value \in FormValues, Theme(r, value) PROVE Truthful'
  <2>1. CASE sessions' = UpdateSessionTheme(session[r], ThemeOf(value))
    BY <1>6, <2>1, UpdateFacts DEF Theme, At
  <2>2. CASE UNCHANGED sessions
    BY <1>6, <2>2 DEF Theme, At, Fails, Ids
  <2> QED BY <1>6, <2>1, <2>2 DEF Theme
<1>7. ASSUME NEW r \in Requests, NEW action \in Actions, AddAudit(r, action) PROVE Truthful'
  BY <1>7 DEF AddAudit, At, Fails, Audit, Actions, Ids
<1>8. CASE Purge
  BY <1>8 DEF Purge, Fails, DeleteRows, Expired, Ids
<1>9. CASE Restart
  BY <1>9 DEF Restart, Fails, Ids
<1>10. CASE TimePasses
  BY <1>10 DEF TimePasses, Ids
<1>11. CASE UNCHANGED vars
  BY <1>11 DEF vars, Ids
<1> QED BY <1>1, <1>2, <1>3, <1>4, <1>5, <1>6, <1>7, <1>8, <1>9, <1>10, <1>11 DEF Next

LEMMA AuditStep == TypeOK /\ Drawn /\ Fresh /\ Truthful /\ AuditTruthful /\ [Next]_vars => AuditTruthful'
<1> SUFFICES ASSUME TypeOK, Drawn, Fresh, Truthful, AuditTruthful, [Next]_vars PROVE AuditTruthful'
  OBVIOUS
<1> USE DEF TypeOK, Drawn, Fresh, Truthful, AuditTruthful
<1>1. ASSUME NEW r \in Requests, DrawId(r) PROVE AuditTruthful'
  BY <1>1 DEF DrawId, At, Ids
<1>2. ASSUME NEW r \in Requests, CreateSession(r) PROVE AuditTruthful'
  BY <1>2 DEF CreateSession, At, Fails, Ids
<1>3. ASSUME NEW r \in Requests, NEW id \in 1 .. issued, RequireAuth(r, id)
      PROVE  AuditTruthful'
  BY <1>3 DEF RequireAuth, At, Ids
<1>4. ASSUME NEW r \in Requests, Page(r) PROVE AuditTruthful'
  BY <1>4 DEF Page, At, Ids
<1>5. ASSUME NEW r \in Requests, Logout(r) PROVE AuditTruthful'
  BY <1>5 DEF Logout, At, Fails, DeleteRows, Expired, Ids
<1>6. ASSUME NEW r \in Requests, NEW value \in FormValues, Theme(r, value)
      PROVE  AuditTruthful'
  <2>1. CASE sessions' = UpdateSessionTheme(session[r], ThemeOf(value))
    BY <1>6, <2>1, UpdateFacts DEF Theme, At
  <2>2. CASE UNCHANGED sessions
    BY <1>6, <2>2 DEF Theme, At, Fails, Ids
  <2> QED BY <1>6, <2>1, <2>2 DEF Theme
<1>7. ASSUME NEW r \in Requests, NEW action \in Actions, AddAudit(r, action)
      PROVE  AuditTruthful'
  BY <1>7 DEF AddAudit, At, Fails, Audit, Actions, Ids
<1>8. CASE Purge
  BY <1>8 DEF Purge, Fails, DeleteRows, Expired, Ids
<1>9. CASE Restart
  BY <1>9 DEF Restart, Fails, Ids
<1>10. CASE TimePasses
  BY <1>10 DEF TimePasses, Ids
<1>11. CASE UNCHANGED vars
  BY <1>11 DEF vars, Ids
<1> QED BY <1>1, <1>2, <1>3, <1>4, <1>5, <1>6, <1>7, <1>8, <1>9, <1>10, <1>11 DEF Next

-----------------------------------------------------------------------------
\* Invariants.

LEMMA Invariant == Spec => []IInv
<1>1. IInv /\ [Next]_vars => IInv'
  BY TypeStep, DrawnStep, FreshStep, TruthfulStep, AuditStep DEF IInv
<1> QED BY InitInv, <1>1, PTL DEF Spec

\* Every variable of Sessions keeps its type: no handler stores a theme that is
\* not one or works for a session that was never drawn.
THEOREM TypeCorrect == Spec => []TypeOK
<1>1. IInv => TypeOK
  BY DEF IInv
<1> QED BY Invariant, <1>1, PTL

\* handleLogin, handleLogout and handleTheme: the audit log names no session that was
\* not stored, and no logout whose session is still there, unless its DELETE failed.
THEOREM LogTellsTruth == Spec => []AuditTruthful
<1>1. IInv => AuditTruthful
  BY DEF IInv
<1> QED BY Invariant, <1>1, PTL

-----------------------------------------------------------------------------
\* Steps.

\* What RowsOnlyAge says of one step.
RowsAge ==
  \A t \in sessions' :
    \/ \E s \in sessions : s.id = t.id /\ s.expires = t.expires
    \/ t.id \notin Ids \cup removed /\ t.expires = now + TTL

LEMMA RowsAgeStep == IInv /\ [Next]_vars => RowsAge
<1> SUFFICES ASSUME IInv, [Next]_vars PROVE RowsAge
  OBVIOUS
<1>1. CASE sessions' \subseteq sessions
  BY <1>1 DEF RowsAge
<1>2. ASSUME NEW r \in Requests, CreateSession(r) PROVE RowsAge
  BY <1>2 DEF CreateSession, RowsAge, IInv, Fresh
<1>3. ASSUME NEW r \in Requests, NEW value \in FormValues, Theme(r, value) PROVE RowsAge
  BY <1>3, <1>1, UpdateFacts DEF Theme, RowsAge, IInv, TypeOK
<1> QED
  BY <1>1, <1>2, <1>3
  DEF Next, vars, DrawId, RequireAuth, Page, Logout, AddAudit, Purge, Restart, TimePasses,
      DeleteRows

\* No theme switch, whatever it was let in with, brings a row back or prolongs it.
THEOREM RowsAgeOnly == Spec => RowsOnlyAge
<1>1. IInv /\ [Next]_vars => [RowsAge]_vars
  BY RowsAgeStep
<1> QED BY Invariant, <1>1, PTL DEF Spec, RowsOnlyAge, RowsAge

\* What EndedOnlyByLogout says of one step.
EndsByLogout ==
  \A s \in sessions :
    s.id \in {t.id : t \in sessions'} \/ now > s.expires
      \/ \E r \in Requests : session[r] = s.id /\ pc'[r] = "auditLogout"

LEMMA EndsStep == IInv /\ [Next]_vars => EndsByLogout
<1> SUFFICES ASSUME IInv, [Next]_vars PROVE EndsByLogout
  OBVIOUS
<1>1. CASE sessions \subseteq sessions'
  BY <1>1 DEF EndsByLogout
<1>2. ASSUME NEW r \in Requests, NEW value \in FormValues, Theme(r, value) PROVE EndsByLogout
  <2>1. CASE sessions' = UpdateSessionTheme(session[r], ThemeOf(value))
    BY <2>1, UpdateFacts DEF EndsByLogout, Ids, IInv, TypeOK
  <2> QED BY <1>1, <1>2, <2>1 DEF Theme
<1>3. ASSUME NEW r \in Requests, Logout(r) PROVE EndsByLogout
  <2>1. pc'[r] = "auditLogout"
    BY <1>3 DEF Logout, At, IInv, TypeOK
  <2>2. \A s \in sessions : s \in sessions' \/ s.id = session[r]
    BY <1>3 DEF Logout, DeleteRows
  <2> QED BY <2>1, <2>2 DEF EndsByLogout
<1>4. CASE Purge
  <2>1. \A s \in sessions : s \in sessions' \/ s.expires < now
    BY <1>4 DEF Purge, DeleteRows, Expired
  <2>2. now \in Nat /\ \A s \in sessions : s.expires \in Nat
    BY DEF IInv, TypeOK, Session
  <2> QED BY <2>1, <2>2 DEF EndsByLogout
<1> QED
  BY <1>1, <1>2, <1>3, <1>4
  DEF Next, vars, DrawId, CreateSession, RequireAuth, Page, AddAudit, Restart, TimePasses

\* requireAuth and PurgeExpiredSessions: nothing but its own logout ends a session
\* that would still be accepted.
THEOREM OnlyLogoutEnds == Spec => EndedOnlyByLogout
<1>1. IInv /\ [Next]_vars => [EndsByLogout]_vars
  BY EndsStep
<1> QED BY Invariant, <1>1, PTL DEF Spec, EndedOnlyByLogout, EndsByLogout

-----------------------------------------------------------------------------
\* Sessions implements SessionStore.

\* Ids are within the bound, and what a request is served for was stored.
Served ==
  /\ issued <= MaxSessions
  /\ \A r \in Requests : pc[r] \in Serving => session[r] \in Ids \cup removed

\* The state SessionStore sees of the table.
Live == {Row(s) : s \in sessions}

\* What was stored once stays on record, in the table or as removed.
LEMMA RecordGrows ==
  ASSUME TypeOK, [Next]_vars
  PROVE  Ids \cup removed \subseteq Ids' \cup removed'
<1>1. CASE sessions' = sessions /\ removed' = removed
  BY <1>1 DEF Ids
<1>2. ASSUME NEW r \in Requests, CreateSession(r) PROVE Ids \cup removed \subseteq Ids' \cup removed'
  BY <1>2 DEF CreateSession, Ids
<1>3. ASSUME NEW r \in Requests, NEW value \in FormValues, Theme(r, value)
      PROVE  Ids \cup removed \subseteq Ids' \cup removed'
  BY <1>1, <1>3, UpdateFacts DEF Theme, TypeOK
<1>4. ASSUME NEW gone \in SUBSET sessions, DeleteRows(gone)
      PROVE  Ids \cup removed \subseteq Ids' \cup removed'
  BY <1>4, IdsAfterDelete
<1>5. ASSUME NEW r \in Requests, Logout(r) PROVE Ids \cup removed \subseteq Ids' \cup removed'
  BY <1>1, <1>4, <1>5 DEF Logout
<1>6. CASE Purge
  BY <1>1, <1>4, <1>6 DEF Purge, Expired
<1> QED
  BY <1>1, <1>2, <1>3, <1>5, <1>6
  DEF Next, vars, DrawId, RequireAuth, Page, AddAudit, Restart, TimePasses

LEMMA ServedInit == Init => Served
BY SessionsAssumption DEF Init, Served, Serving

\* Only requireAuth lets a request into a handler.
LEMMA ServedStep == TypeOK /\ Served /\ [Next]_vars => Served'
<1> SUFFICES ASSUME TypeOK, Served, [Next]_vars PROVE Served'
  OBVIOUS
<1>1. issued' <= MaxSessions
  <2>1. ASSUME NEW r \in Requests, DrawId(r) PROVE issued' <= MaxSessions
    BY <2>1, SessionsAssumption DEF DrawId, TypeOK
  <2>2. CASE issued' = issued
    BY <2>2 DEF Served
  <2> QED
    BY <2>1, <2>2
    DEF Next, vars, CreateSession, RequireAuth, Page, Logout, Theme, AddAudit, Purge, Restart,
        TimePasses
<1>2. ASSUME NEW q \in Requests, pc'[q] \in Serving
      PROVE  session'[q] \in Ids \cup removed
  <2>1. ASSUME NEW r \in Requests, NEW id \in 1 .. issued, RequireAuth(r, id)
        PROVE  session'[q] \in Ids \cup removed
    BY <1>2, <2>1 DEF RequireAuth, At, Ids, Served, TypeOK
  <2>2. ASSUME NEW r \in Requests, DrawId(r) \/ CreateSession(r) \/ Page(r)
        PROVE  session'[q] \in Ids \cup removed
    BY <1>2, <2>2 DEF DrawId, CreateSession, Page, At, Served, Serving, TypeOK
  <2>3. ASSUME NEW r \in Requests, Logout(r) PROVE session'[q] \in Ids \cup removed
    BY <1>2, <2>3 DEF Logout, At, Served, Serving, TypeOK
  <2>4. ASSUME NEW r \in Requests, NEW value \in FormValues, Theme(r, value)
        PROVE  session'[q] \in Ids \cup removed
    BY <1>2, <2>4 DEF Theme, At, Served, Serving, TypeOK
  <2>5. ASSUME NEW r \in Requests, NEW action \in Actions, AddAudit(r, action)
        PROVE  session'[q] \in Ids \cup removed
    BY <1>2, <2>5 DEF AddAudit, At, Served, Serving, TypeOK
  <2>6. CASE Restart
    BY <1>2, <2>6 DEF Restart, Serving
  <2>7. CASE Purge \/ TimePasses \/ UNCHANGED vars
    BY <1>2, <2>7 DEF Purge, TimePasses, vars, Served
  <2> QED BY <2>1, <2>2, <2>3, <2>4, <2>5, <2>6, <2>7 DEF Next
<1>3. Ids \cup removed \subseteq Ids' \cup removed'
  BY RecordGrows
<1> QED BY <1>1, <1>2, <1>3 DEF Served

LEMMA ServedInvariant == Spec => []Served
<1>1. IInv => TypeOK
  BY DEF IInv
<1> QED BY ServedInit, ServedStep, Invariant, <1>1, PTL DEF Spec

\* A request that moves on is served for its id where it arrives, if it is served
\* there at all, and the others stay.
LEMMA ServesAfter ==
  ASSUME TypeOK, NEW r \in Requests, NEW where, NEW id, At(r, where, id)
  PROVE  Serves' = [Serves EXCEPT ![r] = IF where \in Serving THEN id ELSE 0]
BY DEF At, Serves, TypeOK

\* A request that is served nowhere before or after a step, or for the same id,
\* does not show.
LEMMA ServesStay ==
  ASSUME NEW r \in Requests, NEW value, Serves' = [Serves EXCEPT ![r] = value], value = Serves[r]
  PROVE  Serves' = Serves
BY DEF Serves

\* Rows as SessionStore sees them.
LEMMA LiveRows ==
  /\ \A s \in sessions : Row(s) \in Live /\ Row(s).id = s.id /\ Row(s).expires = s.expires
  /\ \A row \in Live : \E s \in sessions : row = Row(s)
BY DEF Live, Row

LEMMA LiveIds == Store!IdsOf(Live) = Ids
BY LiveRows DEF Store!IdsOf, Ids

\* Rows that go are gone from Live, and their ids, no more, are on record.
LEMMA LiveAfterDelete ==
  ASSUME TypeOK, NEW gone \in SUBSET sessions, DeleteRows(gone),
         \A s \in sessions, t \in gone : Row(s) = Row(t) => s \in gone
  PROVE  /\ Live' = Live \ {Row(s) : s \in gone}
         /\ removed' = removed \cup Store!IdsOf(Live \ Live')
<1> DEFINE rows == {Row(s) : s \in gone}
<1>1. sessions' = sessions \ gone /\ removed' = removed \cup {s.id : s \in gone}
  BY DEF DeleteRows
<1>2. Live' = Live \ rows
  BY <1>1 DEF Live
<1>3. Live \ Live' = rows
  BY <1>2 DEF Live
<1>4. Store!IdsOf(rows) = {s.id : s \in gone}
  <2>1. \A s \in gone : Row(s) \in rows /\ Row(s).id = s.id
    BY DEF Row
  <2>2. \A row \in rows : \E s \in gone : row = Row(s)
    OBVIOUS
  <2> HIDE DEF rows
  <2> QED BY <2>1, <2>2 DEF Store!IdsOf
<1> QED BY <1>1, <1>2, <1>3, <1>4

-----------------------------------------------------------------------------
\* Each action is a step of SessionStore, or none.

StoreStep == [Store!Next]_(Store!vars)

\* Where neither the tables nor what requests are served for change, nothing shows.
LEMMA Unseen ==
  ASSUME UNCHANGED <<now, removed, kept, audit>>, Live' = Live, Serves' = Serves
  PROVE  StoreStep
BY DEF StoreStep, Store!vars, Live

LEMMA LoginSteps ==
  ASSUME IInv, Served, NEW r \in Requests, DrawId(r) \/ CreateSession(r), Served'
  PROVE  StoreStep
<1>1. Serves[r] = 0 /\ TypeOK
  BY DEF DrawId, CreateSession, Serves, Serving, IInv
<1>2. CASE DrawId(r)
  <2>1. Serves' = [Serves EXCEPT ![r] = 0]
    BY <1>1, <1>2, ServesAfter DEF DrawId, Serving
  <2>2. Serves' = Serves
    BY <1>1, <2>1, ServesStay
  <2> QED BY <1>2, <2>2, Unseen DEF DrawId, Live
<1>3. CASE CreateSession(r)
  <2>1. Serves' = [Serves EXCEPT ![r] = 0]
    <3>1. "auditLogin" \notin Serving /\ "idle" \notin Serving
      BY DEF Serving
    <3> QED BY <1>1, <1>3, <3>1, ServesAfter DEF CreateSession
  <2>2. Serves' = Serves
    BY <1>1, <2>1, ServesStay
  <2>3. CASE UNCHANGED sessions
    BY <1>3, <2>2, <2>3, Unseen DEF CreateSession, Live
  <2>4. CASE sessions' = sessions \cup {[id |-> session[r], theme |-> DefaultTheme, expires |-> now + TTL]}
    <3>1. Live' = Live \cup {[id |-> session[r], expires |-> now + TTL]}
      <4> DEFINE row == [id |-> session[r], theme |-> DefaultTheme, expires |-> now + TTL]
      <4>1. sessions' = sessions \cup {row}
        BY <2>4
      <4>2. Row(row) = [id |-> session[r], expires |-> now + TTL]
        BY DEF Row
      <4> HIDE DEF row
      <4>3. Live' = Live \cup {Row(row)}
        BY <4>1 DEF Live
      <4> QED BY <4>2, <4>3
    <3>2. session[r] \in 1 .. MaxSessions \ (Ids \cup removed)
      <4>1. session[r] \in Nat /\ session[r] # 0 /\ session[r] <= issued /\ issued \in Nat
        BY <1>1, <1>3 DEF CreateSession, IInv, Drawn, TypeOK
      <4>2. session[r] \notin Ids \cup removed
        BY <1>3 DEF CreateSession, IInv, Fresh
      <4>3. issued <= MaxSessions /\ MaxSessions \in Nat
        BY SessionsAssumption DEF Served
      <4> QED BY <4>1, <4>2, <4>3
    <3>3. Store!Open
      BY <1>3, <2>2, <3>1, <3>2, LiveIds DEF Store!Open, CreateSession, Live
    <3> QED BY <3>3 DEF StoreStep, Store!Next
  <2> QED BY <1>3, <2>3, <2>4 DEF CreateSession
<1> QED BY <1>2, <1>3

LEMMA RequireAuthStep ==
  ASSUME IInv, NEW r \in Requests, NEW id \in 1 .. issued, RequireAuth(r, id)
  PROVE  StoreStep
<1>1. TypeOK /\ Serves[r] = 0 /\ Serves' = [Serves EXCEPT ![r] = id]
  BY ServesAfter DEF RequireAuth, Serves, Serving, IInv
<1>2. PICK s \in sessions : s.id = id /\ ~(now > s.expires)
  BY DEF RequireAuth
<1>3. Row(s) \in Live /\ Row(s).id = id /\ now <= Row(s).expires
  BY <1>1, <1>2, LiveRows DEF TypeOK, Session
<1>4. Store!Enter(r)
  BY <1>1, <1>3 DEF Store!Enter, RequireAuth, Live
<1> QED BY <1>4 DEF StoreStep, Store!Next

\* What a request in a handler, or at the audit behind one, is served for.
LEMMA InService ==
  ASSUME IInv, NEW r \in Requests, pc[r] \in Serving
  PROVE  Serves[r] = session[r] /\ Serves[r] # 0
BY DEF IInv, Drawn, Serves, Serving

\* A request that ends where it is served leaves, with what it logs.
LEMMA LeaveStep ==
  ASSUME IInv, NEW r \in Requests, pc[r] \in Serving, At(r, "idle", 0),
         UNCHANGED <<now, sessions, removed, kept>>,
         \/ UNCHANGED audit
         \/ session[r] \in removed \cup kept /\ audit' = audit \cup {[action |-> "logout", id |-> session[r]]}
         \/ audit' = audit \cup {[action |-> "theme_change", id |-> session[r]]}
  PROVE  StoreStep
<1>1. Serves' = [Serves EXCEPT ![r] = 0]
  BY ServesAfter DEF IInv, Serving
<1>2. Serves[r] = session[r] /\ Serves[r] # 0
  BY InService
<1>3. Live' = Live
  BY DEF Live
<1>4. Store!Leave(r)
  BY <1>1, <1>2, <1>3 DEF Store!Leave, Live
<1> QED BY <1>4 DEF StoreStep, Store!Next

LEMMA LogoutStep ==
  ASSUME IInv, NEW r \in Requests, Logout(r)
  PROVE  StoreStep
<1>1. Serves[r] = session[r] /\ Serves[r] # 0 /\ TypeOK
  BY InService DEF Logout, Serving, IInv
<1>2. Serves' = [Serves EXCEPT ![r] = session[r]]
  BY <1>1, ServesAfter DEF Logout, Serving
<1>3. Serves' = Serves
  BY <1>1, <1>2, ServesStay
<1>4. CASE UNCHANGED <<sessions, removed>> /\ kept' = kept \cup {session[r]}
  <2>1. Live' = Live
    BY <1>4 DEF Live
  <2>2. Store!Close(r)
    BY <1>1, <1>3, <1>4, <2>1 DEF Store!Close, Logout, Live
  <2> QED BY <2>2 DEF StoreStep, Store!Next
<1>5. CASE DeleteRows({s \in sessions : s.id = session[r]}) /\ UNCHANGED kept
  <2> DEFINE gone == {s \in sessions : s.id = session[r]}
  <2>1. \A s \in sessions, t \in gone : Row(s) = Row(t) => s \in gone
    BY LiveRows
  <2>2. /\ Live' = Live \ {Row(s) : s \in gone}
        /\ removed' = removed \cup Store!IdsOf(Live \ Live')
    BY <1>1, <1>5, <2>1, LiveAfterDelete
  <2>3. Live \ {Row(s) : s \in gone} = {row \in Live : row.id # Serves[r]}
    BY <1>1, LiveRows
  <2>4. Store!Close(r)
    BY <1>1, <1>3, <1>5, <2>2, <2>3 DEF Store!Close, Logout, Live
  <2> QED BY <2>4 DEF StoreStep, Store!Next
<1> QED BY <1>4, <1>5 DEF Logout

LEMMA ThemeStep ==
  ASSUME IInv, NEW r \in Requests, NEW value \in FormValues, Theme(r, value)
  PROVE  StoreStep
<1>1. TypeOK /\ pc[r] \in Serving /\ Serves[r] = session[r]
  BY InService DEF Theme, Serving, IInv
<1>2. CASE UNCHANGED sessions /\ At(r, "idle", 0)
  BY <1>1, <1>2, LeaveStep DEF Theme
<1>3. CASE sessions' = UpdateSessionTheme(session[r], ThemeOf(value)) /\ At(r, "auditTheme", session[r])
  <2>1. Serves' = [Serves EXCEPT ![r] = session[r]]
    BY <1>1, <1>3, ServesAfter DEF Serving
  <2>2. Serves' = Serves
    BY <1>1, <2>1, ServesStay
  <2>3. Live' = Live
    <3> DEFINE Updated(s) == IF s.id = session[r] THEN [s EXCEPT !.theme = ThemeOf(value)] ELSE s
    <3>1. sessions' = {Updated(s) : s \in sessions}
      BY <1>3 DEF UpdateSessionTheme
    <3>2. \A s \in sessions : Row(Updated(s)) = Row(s)
      BY <1>1 DEF TypeOK, Session, Row
    <3> HIDE DEF Updated
    <3>3. Live' = {Row(s) : s \in sessions'}
      BY DEF Live
    <3> QED BY <3>1, <3>2, <3>3 DEF Live
  <2> QED BY <1>3, <2>2, <2>3, Unseen DEF Theme
<1> QED BY <1>2, <1>3 DEF Theme

LEMMA AuditSteps ==
  ASSUME IInv, Served, NEW r \in Requests, NEW action \in Actions, AddAudit(r, action)
  PROVE  StoreStep
<1>1. TypeOK /\ At(r, "idle", 0) /\ UNCHANGED <<now, sessions, removed, kept>>
      /\ (UNCHANGED audit \/ audit' = audit \cup {[action |-> action, id |-> session[r]]})
  BY DEF AddAudit, IInv
<1>2. CASE action = "login"
  <2>1. pc[r] = "auditLogin" /\ Serves[r] = 0
    BY <1>2 DEF AddAudit, Audit, Serves, Serving
  <2>2. Serves' = [Serves EXCEPT ![r] = 0]
    BY <1>1, ServesAfter DEF Serving
  <2>3. Serves' = Serves /\ Live' = Live
    BY <1>1, <2>1, <2>2, ServesStay DEF Live
  <2>4. CASE UNCHANGED audit
    BY <1>1, <2>3, <2>4, Unseen
  <2>5. CASE audit' = audit \cup {[action |-> "login", id |-> session[r]]}
    <3>1. session[r] \in Ids \cup removed
      BY <2>1 DEF IInv, Truthful
    <3>2. Store!LogLogin
      BY <1>1, <2>3, <2>5, <3>1, LiveIds DEF Store!LogLogin, Live
    <3> QED BY <3>2 DEF StoreStep, Store!Next
  <2> QED BY <1>1, <1>2, <2>4, <2>5
<1>3. CASE action = "logout"
  <2>1. pc[r] = "auditLogout" /\ pc[r] \in Serving
    BY <1>3 DEF AddAudit, Audit, Serving
  <2>2. session[r] \in removed \cup kept
    BY <2>1 DEF IInv, Truthful, Served
  <2> QED BY <1>1, <1>3, <2>1, <2>2, LeaveStep
<1>4. CASE action = "theme_change"
  <2>1. pc[r] \in Serving
    BY <1>4 DEF AddAudit, Audit, Serving
  <2> QED BY <1>1, <1>4, <2>1, LeaveStep
<1> QED BY <1>2, <1>3, <1>4 DEF Actions

LEMMA PurgeStep ==
  ASSUME IInv, Purge
  PROVE  StoreStep
<1>1. Serves' = Serves /\ TypeOK
  BY DEF Purge, Serves, IInv
<1>2. CASE UNCHANGED <<sessions, removed>>
  BY <1>1, <1>2, Unseen DEF Purge, Live
<1>3. CASE DeleteRows(Expired)
  <2>1. Expired \in SUBSET sessions /\ \A s \in sessions, t \in Expired : Row(s) = Row(t) => s \in Expired
    BY LiveRows DEF Expired
  <2>2. /\ Live' = Live \ {Row(s) : s \in Expired}
        /\ removed' = removed \cup Store!IdsOf(Live \ Live')
    BY <1>1, <1>3, <2>1, LiveAfterDelete
  <2>3. now \in Nat /\ \A s \in sessions : s.expires \in Nat
    BY <1>1 DEF TypeOK, Session
  <2>4. Live \ {Row(s) : s \in Expired} = {row \in Live : now <= row.expires}
    BY <2>3, LiveRows DEF Expired
  <2>5. Store!Expire
    BY <1>1, <2>2, <2>4 DEF Store!Expire, Purge, Live
  <2> QED BY <2>5 DEF StoreStep, Store!Next
<1> QED BY <1>2, <1>3 DEF Purge

\* A step of Sessions maps to one of SessionStore.
LEMMA StepsMap == IInv /\ Served /\ Served' /\ [Next]_vars => StoreStep
<1> SUFFICES ASSUME IInv, Served, Served', [Next]_vars PROVE StoreStep
  OBVIOUS
<1>1. ASSUME NEW r \in Requests, Page(r) PROVE StoreStep
  BY <1>1, LeaveStep DEF Page, Serving
<1>2. CASE Restart
  <2>1. Serves' = [r \in Requests |-> 0] /\ Live' = Live
    BY <1>2 DEF Restart, Serves, Serving, Live
  <2>2. Store!Crash
    BY <1>2, <2>1 DEF Store!Crash, Restart, Live
  <2> QED BY <2>2 DEF StoreStep, Store!Next
<1>3. CASE TimePasses
  <2>1. Serves' = Serves /\ Live' = Live
    BY <1>3 DEF TimePasses, Serves, Live
  <2>2. Store!Advance
    BY <1>3, <2>1 DEF Store!Advance, TimePasses, Live
  <2> QED BY <2>2 DEF StoreStep, Store!Next
<1>4. CASE UNCHANGED vars
  BY <1>4, Unseen DEF vars, Serves, Live
<1> QED
  BY <1>1, <1>2, <1>3, <1>4, LoginSteps, RequireAuthStep, LogoutStep, ThemeStep, AuditSteps, PurgeStep
  DEF Next

\* Requests and the loop, statement by statement, with failures and restarts in
\* between, behave as SessionStore says: each request is let in, ends its session
\* and is logged at single instants, and a theme switch does neither.
THEOREM Refinement == Spec => ImplementsStore
<1>1. Init => Store!Init
  BY DEF Init, Store!Init, Serves, Serving
<1>2. IInv /\ Served /\ Served' /\ [Next]_vars => [Store!Next]_(Store!vars)
  BY StepsMap DEF StoreStep
<1> QED BY <1>1, <1>2, Invariant, ServedInvariant, PTL DEF Spec, ImplementsStore, Store!Spec
=============================================================================
