------------------------------ MODULE Sessions ------------------------------
(***************************************************************************)
(* The sessions table and the requests that use it: the end of a login     *)
(* (CreateSession, audit), requireAuth in front of every page, logout, the *)
(* theme switch, and the purge of expired rows by the background loop.     *)
(* Requests run concurrently; between requireAuth and what the handler     *)
(* does with the session, another request or the purge may have removed    *)
(* the row.  Statements can fail, clients can go away, the process can be  *)
(* restarted.                                                              *)
(*                                                                         *)
(* Session ids are drawn at random and never repeat: they are numbered in  *)
(* the order in which they are drawn.  A request may present the id of any *)
(* session that was ever created.                                          *)
(***************************************************************************)
EXTENDS Integers, FiniteSets

CONSTANTS Requests,   \* requests that may be under way at once
          TTL,        \* life of a session, in units of the logical clock
          MaxTime,    \* bound: time stops here
          MaxSessions,\* bound: sessions ever created
          MaxFaults   \* bound: failing statements and restarts

ASSUME SessionsAssumption ==
  /\ TTL \in Nat \ {0}
  /\ MaxTime \in Nat /\ MaxSessions \in Nat /\ MaxFaults \in Nat

Themes == {"dark", "light"}
DefaultTheme == "dark"
FormValues == Themes \cup {"other"}  \* what a form may send as a theme

VARIABLES
  now,       \* logical time
  sessions,  \* table sessions: rows [id, theme, expires]
  audit,     \* table audit_logs: rows [action, id], the id added for history
  issued,    \* number of session ids drawn
  pc,        \* where each request is
  session,   \* the session in each request's context
  faults,    \* faults spent
  removed,   \* history: ids whose row has been deleted
  kept       \* history: ids whose DELETE failed in handleLogout

vars == <<now, sessions, audit, issued, pc, session, faults, removed, kept>>

Ids == {s.id : s \in sessions}

Init ==
  /\ now = 0
  /\ sessions = {} /\ audit = {}
  /\ issued = 0
  /\ pc = [r \in Requests |-> "idle"]
  /\ session = [r \in Requests |-> 0]
  /\ faults = 0
  /\ removed = {} /\ kept = {}

\* A statement fails: SQLITE_BUSY, disk full, or the client's context is done.
Fails == faults < MaxFaults /\ faults' = faults + 1

\* The request is over, or goes on at `where` with session id.
At(r, where, id) ==
  /\ pc' = [pc EXCEPT ![r] = where]
  /\ session' = [session EXCEPT ![r] = id]

-----------------------------------------------------------------------------
\* handleLogin, after the password has been accepted.

DrawId(r) ==
  /\ pc[r] = "idle" /\ issued < MaxSessions
  /\ issued' = issued + 1
  /\ At(r, "create", issued + 1)
  /\ UNCHANGED <<now, sessions, audit, faults, removed, kept>>

CreateSession(r) ==
  /\ pc[r] = "create"
  /\ \/ /\ sessions' = sessions \cup
             {[id |-> session[r], theme |-> DefaultTheme, expires |-> now + TTL]}
        /\ At(r, "auditLogin", session[r])
        /\ UNCHANGED faults
     \/ /\ Fails
        /\ At(r, "idle", 0)
        /\ UNCHANGED sessions
  /\ UNCHANGED <<now, audit, issued, removed, kept>>

\* `_ = s.store.AddAudit(...)`, at the end of login, logout and theme switch.
Actions == {"login", "logout", "theme_change"}
Audit(action) ==
  CASE action = "login" -> "auditLogin"
    [] action = "logout" -> "auditLogout"
    [] action = "theme_change" -> "auditTheme"

AddAudit(r, action) ==
  /\ pc[r] = Audit(action)
  /\ \/ audit' = audit \cup {[action |-> action, id |-> session[r]]} /\ UNCHANGED faults
     \/ Fails /\ UNCHANGED audit
  /\ At(r, "idle", 0)
  /\ UNCHANGED <<now, sessions, issued, removed, kept>>

-----------------------------------------------------------------------------
\* requireAuth and the handlers behind it.

\* Ids a client can hold: the login that drew the id has answered.
Presentable(id) ==
  \A r \in Requests : session[r] = id => pc[r] \notin {"create", "auditLogin"}

\* Mutant of RequireAuth: expiry is left to the purge.
RequireAuthAnyRow(r, id) ==
  /\ pc[r] = "idle" /\ Presentable(id)
  /\ id \in Ids
  /\ At(r, "handler", id)
  /\ UNCHANGED <<now, sessions, audit, issued, faults, removed, kept>>

\* The row is there and not past its expiry.  Any other request is redirected to
\* /login and changes nothing.
RequireAuth(r, id) ==
  /\ pc[r] = "idle" /\ Presentable(id)
  /\ \E s \in sessions : s.id = id /\ ~(now > s.expires)
  /\ At(r, "handler", id)
  /\ UNCHANGED <<now, sessions, audit, issued, faults, removed, kept>>

\* A page is rendered, or the CSRF token of a POST is not the session's.
Page(r) ==
  /\ pc[r] = "handler"
  /\ At(r, "idle", 0)
  /\ UNCHANGED <<now, sessions, audit, issued, faults, removed, kept>>

\* DELETE FROM sessions WHERE ...
DeleteRows(gone) ==
  /\ sessions' = sessions \ gone
  /\ removed' = removed \cup {s.id : s \in gone}

\* Mutant of Logout: the audit row is written before the session is deleted.
LogoutAuditFirst(r) ==
  /\ pc[r] = "handler"
  /\ IF [action |-> "logout", id |-> session[r]] \notin audit
       THEN /\ audit' = audit \cup {[action |-> "logout", id |-> session[r]]}
            /\ UNCHANGED <<sessions, removed, pc, session>>
       ELSE /\ DeleteRows({s \in sessions : s.id = session[r]})
            /\ At(r, "idle", 0)
            /\ UNCHANGED audit
  /\ UNCHANGED <<now, issued, faults, kept>>

\* handleLogout: `_ = s.store.DeleteSession(...)`, audited whether or not the row
\* could be deleted; the cookie is cleared in any case.
Logout(r) ==
  /\ pc[r] = "handler"
  /\ \/ DeleteRows({s \in sessions : s.id = session[r]}) /\ UNCHANGED <<faults, kept>>
     \/ Fails /\ kept' = kept \cup {session[r]} /\ UNCHANGED <<sessions, removed>>
  /\ At(r, "auditLogout", session[r])
  /\ UNCHANGED <<now, audit, issued>>

\* Mutant of UpdateSessionTheme: INSERT OR REPLACE.
ReplaceSession(id, theme) ==
  {s \in sessions : s.id # id} \cup {[id |-> id, theme |-> theme, expires |-> now + TTL]}

\* UPDATE sessions SET theme = ? WHERE id = ?
UpdateSessionTheme(id, theme) ==
  {IF s.id = id THEN [s EXCEPT !.theme = theme] ELSE s : s \in sessions}

\* Mutant of ThemeOf: the form value is taken as it comes.
ThemeAsSent(value) == value

\* Anything but "light" is dark.
ThemeOf(value) == IF value = "light" THEN "light" ELSE "dark"

\* handleTheme: no row need be left to update; the change is audited unless the
\* statement fails.
Theme(r, value) ==
  /\ pc[r] = "handler"
  /\ \/ /\ sessions' = UpdateSessionTheme(session[r], ThemeOf(value))
        /\ At(r, "auditTheme", session[r])
        /\ UNCHANGED faults
     \/ /\ Fails
        /\ At(r, "idle", 0)
        /\ UNCHANGED sessions
  /\ UNCHANGED <<now, audit, issued, removed, kept>>

-----------------------------------------------------------------------------
\* The background loop, the process and the clock.

\* Mutant of Expired: the instant of expiry included.
ExpiredOrAlmost == {s \in sessions : s.expires <= now}

\* Mutant of Expired: only what has expired since the last purge was due.
ExpiredJustNow == {s \in sessions : s.expires = now - 1}

\* WHERE expires_at < now
Expired == {s \in sessions : s.expires < now}

\* PurgeExpiredSessions, in the prune branch of the loop; its error is dropped.
Purge ==
  /\ \/ DeleteRows(Expired) /\ UNCHANGED faults
     \/ Fails /\ UNCHANGED <<sessions, removed>>
  /\ UNCHANGED <<now, audit, issued, pc, session, kept>>

Restart ==
  /\ Fails
  /\ pc' = [r \in Requests |-> "idle"]
  /\ session' = [r \in Requests |-> 0]
  /\ UNCHANGED <<now, sessions, audit, issued, removed, kept>>

TimePasses ==
  /\ now < MaxTime
  /\ now' = now + 1
  /\ UNCHANGED <<sessions, audit, issued, pc, session, faults, removed, kept>>

Next ==
  \/ \E r \in Requests :
       \/ DrawId(r) \/ CreateSession(r)
       \/ \E id \in 1 .. issued : RequireAuth(r, id)
       \/ Page(r) \/ Logout(r)
       \/ \E value \in FormValues : Theme(r, value)
       \/ \E action \in Actions : AddAudit(r, action)
  \/ Purge \/ Restart \/ TimePasses

Spec == Init /\ [][Next]_vars

\* The prune ticker fires again and again in a process that stays up for six hours,
\* as one does once the faults are spent; clients need not go on.
FairSpec == Spec /\ WF_vars(Purge)

-----------------------------------------------------------------------------
\* Properties.

Session == [id : Nat \ {0}, theme : Themes, expires : Nat]

TypeOK ==
  /\ now \in Nat /\ issued \in Nat /\ faults \in Nat
  /\ sessions \subseteq Session
  /\ audit \subseteq [action : Actions, id : Nat \ {0}]
  /\ pc \in [Requests -> {"idle", "create", "handler"} \cup {Audit(action) : action \in Actions}]
  /\ session \in [Requests -> Nat]
  /\ removed \subseteq Nat /\ kept \subseteq Nat

\* The audit log tells the truth about the table, across restarts between two
\* statements: whatever is audited was done by a session that had been stored, and
\* a logout has ended it for good, unless its DELETE failed.  That a theme was
\* changed is not claimed: the row may be gone when the switch is audited.
AuditTruthful ==
  \A a \in audit :
    /\ a.id \in Ids \cup removed
    /\ a.action = "logout" => a.id \notin Ids \/ a.id \in kept

\* A row never comes back once deleted and never lives longer than promised,
\* whatever theme switch is still under way in another request: every row is
\* one that was there, with the same expiry, or that of a fresh login.
RowsOnlyAge ==
  [][\A t \in sessions' :
       \/ \E s \in sessions : s.id = t.id /\ s.expires = t.expires
       \/ t.id \notin Ids \cup removed /\ t.expires = now + TTL]_vars

\* A session that requireAuth would still accept ends only by its own logout:
\* the purge and requireAuth agree about when a session is over.
EndedOnlyByLogout ==
  [][\A s \in sessions :
       s.id \in {t.id : t \in sessions'} \/ now > s.expires
         \/ \E r \in Requests : session[r] = s.id /\ pc'[r] = "auditLogout"]_vars

\* Requests at the granularity of their statements, with failures, restarts and
\* theme switches in between, behave as SessionStore says: whatever runs at the
\* same time, each is let in, ends its session and is logged at single instants.
Row(s) == [id |-> s.id, expires |-> s.expires]
Serving == {"handler", "auditLogout", "auditTheme"}
Serves == [r \in Requests |-> IF pc[r] \in Serving THEN session[r] ELSE 0]

Store == INSTANCE SessionStore
           WITH live <- {Row(s) : s \in sessions}, ended <- removed, log <- audit,
                serves <- Serves, SessionIds <- 1 .. MaxSessions

ImplementsStore == Store!Spec

\* An expired session does not stay in the table, although a purge may fail and a
\* request that was let in before the expiry may still write to its row.
ExpiredGo ==
  \A id \in 1 .. MaxSessions :
    (\E s \in sessions : s.id = id /\ s.expires < now) ~> id \notin Ids
=============================================================================
