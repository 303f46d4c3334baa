---------------------------- MODULE SessionStore ----------------------------
(***************************************************************************)
(* What the tables sessions and audit_logs promise, whatever the requests  *)
(* and the loop that write them are doing: a session is stored once, for   *)
(* TTL units; a request is served for a session that is live and not past  *)
(* its expiry at that moment; a session ends by a request that was served  *)
(* for it, or once it is past its expiry, and for good; and a request is   *)
(* logged as what it did, at most once.  Themes are not part of it, so a   *)
(* theme switch is no step but for its audit.                              *)
(* Sessions.tla is shown to implement this specification.                  *)
(***************************************************************************)
EXTENDS Integers

CONSTANTS Requests,   \* requests that may be under way at once
          SessionIds, \* ids that a session may have; 0 is none
          TTL         \* life of a session

VARIABLES now,    \* logical time
          live,   \* sessions that are stored, [id, expires]
          ended,  \* ids of those that were
          kept,   \* ids of those that a logout failed to end
          log,    \* what has been logged, [action, id]
          serves  \* the id each request is served for, or 0

vars == <<now, live, ended, kept, log, serves>>

Init ==
  /\ now = 0
  /\ live = {} /\ ended = {} /\ kept = {} /\ log = {}
  /\ serves = [r \in Requests |-> 0]

IdsOf(rows) == {s.id : s \in rows}

Advance ==
  /\ now' = now + 1
  /\ UNCHANGED <<live, ended, kept, log, serves>>

\* A login stores a session that was never stored before.
Open ==
  /\ \E id \in SessionIds \ (IdsOf(live) \cup ended) :
       live' = live \cup {[id |-> id, expires |-> now + TTL]}
  /\ UNCHANGED <<now, ended, kept, log, serves>>

LogLogin ==
  /\ \E id \in IdsOf(live) \cup ended : log' = log \cup {[action |-> "login", id |-> id]}
  /\ UNCHANGED <<now, live, ended, kept, serves>>

\* A request is let in.
Enter(r) ==
  /\ serves[r] = 0
  /\ \E s \in live : now <= s.expires /\ serves' = [serves EXCEPT ![r] = s.id]
  /\ UNCHANGED <<now, live, ended, kept, log>>

\* It is a logout, and ends its session, if that is still live, or fails to.
Close(r) ==
  /\ serves[r] # 0
  /\ \/ /\ live' = {s \in live : s.id # serves[r]}
        /\ ended' = ended \cup IdsOf(live \ live')
        /\ UNCHANGED kept
     \/ /\ kept' = kept \cup {serves[r]}
        /\ UNCHANGED <<live, ended>>
  /\ UNCHANGED <<now, log, serves>>

\* It is over, with or without its audit.
Leave(r) ==
  /\ serves[r] # 0
  /\ \/ UNCHANGED log
     \/ serves[r] \in ended \cup kept /\ log' = log \cup {[action |-> "logout", id |-> serves[r]]}
     \/ log' = log \cup {[action |-> "theme_change", id |-> serves[r]]}
  /\ serves' = [serves EXCEPT ![r] = 0]
  /\ UNCHANGED <<now, live, ended, kept>>

\* What is past its expiry ends.
Expire ==
  /\ live' = {s \in live : now <= s.expires}
  /\ ended' = ended \cup IdsOf(live \ live')
  /\ UNCHANGED <<now, kept, log, serves>>

\* No request survives the process.
Crash ==
  /\ serves' = [r \in Requests |-> 0]
  /\ UNCHANGED <<now, live, ended, kept, log>>

Next ==
  \/ Advance \/ Open \/ LogLogin \/ Expire \/ Crash
  \/ \E r \in Requests : Enter(r) \/ Close(r) \/ Leave(r)

Spec == Init /\ [][Next]_vars
=============================================================================
