--------------------------- MODULE LoginProtector ---------------------------
(***************************************************************************)
(* The throttle of POST /login: one record per client address, read by     *)
(* Check before the password is compared and written by Fail or Success    *)
(* after.  Check, Fail and Success each hold the mutex, but not across the *)
(* comparison, which is slow on purpose: any number of requests can be     *)
(* past Check when the record changes under them.                          *)
(*                                                                         *)
(* Each failure has an instant of its own, the one passed to Fail; taking  *)
(* it and entering the critical section are one step here.  A request that *)
(* the CSRF check turns away touches nothing and is left out.              *)
(***************************************************************************)
EXTENDS Integers, FiniteSets

CONSTANTS Requests,   \* requests that may be under way at once
          Addresses,  \* client addresses
          MaxFails, Window, Lockout,
          MaxTime,    \* bound: later nobody is let in, and time passes only
                      \* until the locks are over
          MaxRestarts \* bound: restarts of the process

ASSUME ProtectorAssumption ==
  /\ IsFiniteSet(Requests) /\ Requests # {}
  /\ MaxFails \in Nat \ {0, 1}                \* 5; a first failure never locks
  /\ Window \in Nat \ {0}
  /\ Lockout \in Nat /\ Lockout >= Window     \* NewLoginProtector: both 15m
  /\ MaxTime \in Nat /\ MaxRestarts \in Nat

VARIABLES
  now,      \* logical time
  byIP,     \* p.byIP: the records, a partial function on Addresses
  pc,       \* "idle", or "compare": past Check, its password being compared
  from,     \* the address of each request
  failures, \* history: when each address failed, since its last success
  restarts  \* restarts so far

vars == <<now, byIP, pc, from, failures, restarts>>

\* LockedUntil is the zero time until the record is locked.
Attempt == [Count : Nat \ {0}, FirstFailed : Nat, LockedUntil : Nat]

Init ==
  /\ now = 0
  /\ byIP = <<>>
  /\ pc = [r \in Requests |-> "idle"]
  /\ from \in [Requests -> Addresses]
  /\ failures = [ip \in Addresses |-> {}]
  /\ restarts = 0

Known(ip) == ip \in DOMAIN byIP

\* Mutant of Locked: !LockedUntil.IsZero().
LockedForGood(ip) == Known(ip) /\ byIP[ip].LockedUntil # 0

Locked(ip) == Known(ip) /\ now < byIP[ip].LockedUntil
WindowOver(ip, t) == t - byIP[ip].FirstFailed > Window

\* Mutant of Forget: the record is reset where it is.
ResetRecord(ip) ==
  [other \in DOMAIN byIP \cup {ip} |->
     IF other = ip THEN [Count |-> 0, FirstFailed |-> 0, LockedUntil |-> 0] ELSE byIP[other]]

\* byIP without ip: delete(p.byIP, ip)
Forget(ip) == [other \in DOMAIN byIP \ {ip} |-> byIP[other]]

\* byIP with the record a at ip.
Store(ip, a) == [other \in DOMAIN byIP \cup {ip} |-> IF other = ip THEN a ELSE byIP[other]]

\* Mutant of Check: the window is looked at before the lock.
CheckWindowFirst(r, ip) ==
  /\ pc[r] = "idle"
  /\ IF Known(ip) /\ WindowOver(ip, now) THEN byIP' = Forget(ip) ELSE UNCHANGED byIP
  /\ IF Locked(ip) /\ ~WindowOver(ip, now)
       THEN UNCHANGED <<pc, from>>
       ELSE now < MaxTime /\ pc' = [pc EXCEPT ![r] = "compare"] /\ from' = [from EXCEPT ![r] = ip]
  /\ UNCHANGED <<now, failures, restarts>>

\* protector.Check: an old record is forgotten and the request let in.  At a
\* locked address it is turned away instead, and nothing changes.
Check(r, ip) ==
  /\ pc[r] = "idle"
  /\ ~Locked(ip)
  /\ now < MaxTime
  /\ byIP' = IF Known(ip) /\ WindowOver(ip, now) THEN Forget(ip) ELSE byIP
  /\ pc' = [pc EXCEPT ![r] = "compare"]
  /\ from' = [from EXCEPT ![r] = ip]
  /\ UNCHANGED <<now, failures, restarts>>

\* Mutants of AfterFailure: the window is left to Check; lock after maxFails.
AfterFailureNoWindow(ip, t) ==
  IF ~Known(ip)
    THEN [Count |-> 1, FirstFailed |-> t, LockedUntil |-> 0]
    ELSE [byIP[ip] EXCEPT !.Count = @ + 1,
                          !.LockedUntil = IF byIP[ip].Count + 1 >= MaxFails THEN t + Lockout ELSE @]

AfterFailureOffByOne(ip, t) ==
  IF ~Known(ip) \/ WindowOver(ip, t)
    THEN [Count |-> 1, FirstFailed |-> t, LockedUntil |-> 0]
    ELSE [byIP[ip] EXCEPT !.Count = @ + 1,
                          !.LockedUntil = IF byIP[ip].Count + 1 > MaxFails THEN t + Lockout ELSE @]

\* The record after one more failure at t: a first failure, or one past the
\* window, starts a record; the others are counted, and from maxFails on lock.
AfterFailure(ip, t) ==
  IF ~Known(ip) \/ WindowOver(ip, t)
    THEN [Count |-> 1, FirstFailed |-> t, LockedUntil |-> 0]
    ELSE [byIP[ip] EXCEPT !.Count = @ + 1,
                          !.LockedUntil = IF byIP[ip].Count + 1 >= MaxFails THEN t + Lockout ELSE @]

\* GetAdminHash fails or the password is wrong: protector.Fail.
Fail(r) ==
  /\ pc[r] = "compare"
  /\ now' = now + 1
  /\ byIP' = Store(from[r], AfterFailure(from[r], now'))
  /\ failures' = [failures EXCEPT ![from[r]] = @ \cup {now'}]
  /\ pc' = [pc EXCEPT ![r] = "idle"]
  /\ UNCHANGED <<from, restarts>>

\* The password is right: protector.Success.
Succeed(r) ==
  /\ pc[r] = "compare"
  /\ byIP' = Forget(from[r])
  /\ failures' = [failures EXCEPT ![from[r]] = {}]
  /\ pc' = [pc EXCEPT ![r] = "idle"]
  /\ UNCHANGED <<now, from, restarts>>

\* A restarted process has a fresh protector and no request under way.
Restart ==
  /\ restarts < MaxRestarts
  /\ restarts' = restarts + 1
  /\ byIP' = <<>>
  /\ failures' = [ip \in Addresses |-> {}]
  /\ pc' = [r \in Requests |-> "idle"]
  /\ UNCHANGED <<now, from>>

TimePasses ==
  /\ now < MaxTime \/ \E ip \in Addresses : Locked(ip)
  /\ now < MaxTime + (Cardinality(Requests) + 1) * (Lockout + 1)
  /\ now' = now + 1
  /\ UNCHANGED <<byIP, pc, from, failures, restarts>>

Next ==
  \/ \E r \in Requests :
       \/ \E ip \in Addresses : Check(r, ip)
       \/ Fail(r) \/ Succeed(r)
  \/ Restart \/ TimePasses

Spec == Init /\ [][Next]_vars

\* Time passes.
FairSpec == Spec /\ WF_vars(TimePasses)

-----------------------------------------------------------------------------
\* Properties.

TypeOK ==
  /\ now \in Nat
  /\ DOMAIN byIP \subseteq Addresses
  /\ \A ip \in DOMAIN byIP : byIP[ip] \in Attempt
  /\ pc \in [Requests -> {"idle", "compare"}]
  /\ from \in [Requests -> Addresses]
  /\ failures \in [Addresses -> SUBSET Nat]
  /\ restarts \in Nat

\* Requests of ip whose password is being compared.
InFlight(ip) == {r \in Requests : pc[r] = "compare" /\ from[r] = ip}

\* However many requests race past Check, the failures counted against an
\* address and those still to come stay below maxFails plus the number of
\* requests that can be under way: once locked, nobody else is let in, and when
\* the lock is over the record is past its window and starts afresh.
CountBounded ==
  \A ip \in DOMAIN byIP :
    byIP[ip].Count + Cardinality(InFlight(ip)) < MaxFails + Cardinality(Requests)

\* The throttle throttles: in any stretch of one window an address fails at most
\* twice maxFails plus the other requests that can be under way, less one.  The
\* window of the code is fixed at the first failure, so a stretch can meet two
\* records, but the first failure of the older is never in it; and neither a
\* late answer, which takes the place of the lock it finds, nor a record that
\* Check forgets gives way to a third.  A success or a restart starts afresh.
GuessesBounded ==
  \A ip \in Addresses :
    Cardinality({f \in failures[ip] : now - Window <= f})
      <= 2 * (MaxFails + Cardinality(Requests) - 2)

\* An address is locked only for maxFails failures, since its last success,
\* within one window: neither old failures nor those before a successful login
\* count, even if the window ends between Check and Fail.
LockEarned ==
  \A ip \in Addresses : Locked(ip) =>
    \E t \in failures[ip] :
      /\ byIP[ip].LockedUntil = t + Lockout
      /\ Cardinality({f \in failures[ip] : t - Window <= f /\ f <= t}) >= MaxFails

\* A lock is not lifted or shortened before its time but by the answer to a
\* request that was let in before it began, or by a restart.
LockKept ==
  [][\A ip \in Addresses : Locked(ip) =>
       \/ Known(ip)' /\ byIP'[ip].LockedUntil >= byIP[ip].LockedUntil
       \/ \E r \in InFlight(ip) : pc'[r] = "idle"
       \/ restarts' # restarts]_vars

\* No lock is for ever, whatever the locked-out client keeps sending.
Unlocks == \A ip \in Addresses : Locked(ip) ~> ~Locked(ip)
=============================================================================
