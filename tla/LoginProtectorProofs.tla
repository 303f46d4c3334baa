------------------------ MODULE LoginProtectorProofs ------------------------
(***************************************************************************)
(* Theorems about LoginProtector for any number of requests and addresses  *)
(* and any maxFails, window and lockout that its assumption admits: type   *)
(* correctness, how far the count can overshoot, how many guesses fit into *)
(* one window, that a lock is earned within one, and what may end it       *)
(* before its time.                                                        *)
(***************************************************************************)
EXTENDS LoginProtector, FiniteSetTheorems, TLAPS

\* A record at its limit is locked until after its window: whoever finds it
\* unlocked forgets it.
Outlasting ==
  \A ip \in DOMAIN byIP :
    /\ byIP[ip].FirstFailed <= now
    /\ byIP[ip].Count >= MaxFails => byIP[ip].LockedUntil > byIP[ip].FirstFailed + Window

\* Of the failures F, those from t on, and those in the window that ends at t.
Since(F, t) == {f \in F : t <= f}
Within(F, t) == {f \in F : t - Window <= f /\ f <= t}

Past == \A ip \in Addresses : IsFiniteSet(failures[ip]) /\ \A f \in failures[ip] : f <= now

\* The count is covered by failures since the first, and so is a lock by those
\* within the window of the one that set it, even when it is over.
Covered ==
  \A ip \in DOMAIN byIP :
    /\ Cardinality(Since(failures[ip], byIP[ip].FirstFailed)) >= byIP[ip].Count
    /\ byIP[ip].LockedUntil # 0 =>
         \E t \in failures[ip] :
           /\ byIP[ip].LockedUntil = t + Lockout
           /\ Cardinality(Within(failures[ip], t)) >= MaxFails

\* Failures in the window before t, and those still in the window at the next instant.
Before(F, t) == {f \in F : t - Window <= f /\ f < t}
Fresh(F) == {f \in F : now - Window < f}

\* What one record can leave in the window of the next: the first of its failures
\* is past, and either it was forgotten below its limit or a request was still
\* to come.
Rest == MaxFails + Cardinality(Requests) - 3

\* No more than Rest failures are in the window before a record began, or are fresh
\* where there is none.  The record has counted all since, and a record at its
\* limit is locked for the whole lockout after the latest.
PacedAt(ip) ==
  /\ Known(ip) =>
       /\ byIP[ip].FirstFailed \in failures[ip]
       /\ Cardinality(Since(failures[ip], byIP[ip].FirstFailed)) <= byIP[ip].Count
       /\ Cardinality(Before(failures[ip], byIP[ip].FirstFailed)) <= Rest
       /\ byIP[ip].Count >= MaxFails =>
            \A f \in failures[ip] : f + Lockout <= byIP[ip].LockedUntil
  /\ ~Known(ip) => Cardinality(Fresh(failures[ip])) <= Rest

Paced == \A ip \in Addresses : PacedAt(ip)

IInv == TypeOK /\ Outlasting /\ CountBounded /\ Past /\ Covered /\ Paced

-----------------------------------------------------------------------------

LEMMA RestIs == Rest \in Nat /\ MaxFails - 2 <= Rest /\ Cardinality(Requests) \in Nat
<1>1. Cardinality(Requests) \in Nat /\ Cardinality(Requests) # 0
  BY ProtectorAssumption, FS_CardinalityType, FS_EmptySet
<1> QED BY <1>1, ProtectorAssumption DEF Rest

LEMMA InitInv == Init => IInv
<1> SUFFICES ASSUME Init PROVE IInv
  OBVIOUS
<1>1. TypeOK
  BY ProtectorAssumption DEF Init, TypeOK
<1>2. DOMAIN byIP = {}
  BY DEF Init
<1>3. Past
  BY FS_EmptySet DEF Init, Past
<1>4. Paced
  <2>1. \A ip \in Addresses : Fresh(failures[ip]) = {}
    BY DEF Init, Fresh
  <2>2. Cardinality({}) <= Rest
    BY RestIs, FS_EmptySet
  <2> QED BY <1>2, <2>1, <2>2 DEF Paced, PacedAt, Known
<1> QED BY <1>1, <1>2, <1>3, <1>4 DEF IInv, Outlasting, CountBounded, Covered

\* The record that Fail stores is one.
LEMMA AfterFailureType ==
  ASSUME TypeOK, NEW ip \in Addresses, NEW t \in Nat
  PROVE  AfterFailure(ip, t) \in Attempt
<1>1. CASE ~Known(ip) \/ WindowOver(ip, t)
  BY <1>1, ProtectorAssumption DEF AfterFailure, Attempt
<1>2. CASE ~(~Known(ip) \/ WindowOver(ip, t))
  <2> DEFINE a == byIP[ip]
  <2>1. a \in Attempt
    BY <1>2 DEF Known, TypeOK
  <2>2. a.Count + 1 \in Nat \ {0} /\ t + Lockout \in Nat
    BY <2>1, ProtectorAssumption DEF Attempt
  <2>3. AfterFailure(ip, t) =
          [a EXCEPT !.Count = a.Count + 1,
                    !.LockedUntil = IF a.Count + 1 >= MaxFails THEN t + Lockout ELSE a.LockedUntil]
    BY <1>2 DEF AfterFailure
  <2> QED BY <2>1, <2>2, <2>3 DEF Attempt
<1> QED BY <1>1, <1>2

LEMMA TypeStep == TypeOK /\ [Next]_vars => TypeOK'
<1> SUFFICES ASSUME TypeOK, [Next]_vars PROVE TypeOK'
  OBVIOUS
<1> USE ProtectorAssumption DEF TypeOK
<1>1. ASSUME NEW r \in Requests, NEW ip \in Addresses, Check(r, ip) PROVE TypeOK'
  BY <1>1 DEF Check, Forget
<1>2. ASSUME NEW r \in Requests, Fail(r) PROVE TypeOK'
  <2>1. from[r] \in Addresses /\ now' \in Nat
    BY <1>2 DEF Fail
  <2>2. AfterFailure(from[r], now') \in Attempt
    BY <2>1, AfterFailureType
  <2>3. DOMAIN byIP' \subseteq Addresses /\ \A ip \in DOMAIN byIP' : byIP'[ip] \in Attempt
    BY <1>2, <2>1, <2>2 DEF Fail, Store
  <2> QED BY <1>2, <2>1, <2>3 DEF Fail
<1>3. ASSUME NEW r \in Requests, Succeed(r) PROVE TypeOK'
  BY <1>3 DEF Succeed, Forget
<1>4. CASE Restart
  BY <1>4 DEF Restart
<1>5. CASE TimePasses
  BY <1>5 DEF TimePasses
<1>6. CASE UNCHANGED vars
  BY <1>6 DEF vars
<1> QED BY <1>1, <1>2, <1>3, <1>4, <1>5, <1>6 DEF Next

\* A step leaves the record of ip as it is, forgets it, or is a Fail that counts.
LEMMA RecordStep ==
  ASSUME TypeOK, [Next]_vars, NEW ip \in DOMAIN byIP'
  PROVE  \/ ip \in DOMAIN byIP /\ byIP'[ip] = byIP[ip]
         \/ \E r \in Requests : Fail(r) /\ from[r] = ip /\ byIP'[ip] = AfterFailure(ip, now + 1)
<1>1. ASSUME NEW r \in Requests, NEW other \in Addresses, Check(r, other)
      PROVE  ip \in DOMAIN byIP /\ byIP'[ip] = byIP[ip]
  BY <1>1 DEF Check, Forget
<1>2. ASSUME NEW r \in Requests, Fail(r)
      PROVE  \/ ip \in DOMAIN byIP /\ byIP'[ip] = byIP[ip]
             \/ from[r] = ip /\ byIP'[ip] = AfterFailure(ip, now + 1)
  BY <1>2 DEF Fail, Store
<1>3. ASSUME NEW r \in Requests, Succeed(r)
      PROVE  ip \in DOMAIN byIP /\ byIP'[ip] = byIP[ip]
  BY <1>3 DEF Succeed, Forget
<1>4. CASE Restart \/ TimePasses \/ UNCHANGED vars
  BY <1>4 DEF Restart, TimePasses, vars
<1> QED BY <1>1, <1>2, <1>3, <1>4 DEF Next

LEMMA TimeStep == TypeOK /\ [Next]_vars => now' \in Nat /\ now <= now'
BY DEF TypeOK, Next, vars, Check, Fail, Succeed, Restart, TimePasses

LEMMA OutlastingStep == TypeOK /\ Outlasting /\ [Next]_vars => Outlasting'
<1> SUFFICES ASSUME TypeOK, Outlasting, [Next]_vars, NEW ip \in DOMAIN byIP'
             PROVE  /\ byIP'[ip].FirstFailed <= now'
                    /\ byIP'[ip].Count >= MaxFails =>
                         byIP'[ip].LockedUntil > byIP'[ip].FirstFailed + Window
  BY DEF Outlasting
<1>1. CASE ip \in DOMAIN byIP /\ byIP'[ip] = byIP[ip]
  <2>1. byIP[ip] \in Attempt
    BY <1>1 DEF TypeOK
  <2> QED BY <1>1, <2>1, TimeStep DEF Outlasting, TypeOK, Attempt
<1>2. ASSUME NEW r \in Requests, Fail(r), byIP'[ip] = AfterFailure(ip, now + 1)
      PROVE  /\ byIP'[ip].FirstFailed <= now'
             /\ byIP'[ip].Count >= MaxFails =>
                  byIP'[ip].LockedUntil > byIP'[ip].FirstFailed + Window
  <2>1. now' = now + 1 /\ now \in Nat
    BY <1>2 DEF Fail, TypeOK
  <2>2. CASE ~Known(ip) \/ WindowOver(ip, now + 1)
    BY <1>2, <2>1, <2>2, ProtectorAssumption DEF AfterFailure
  <2>3. CASE ~(~Known(ip) \/ WindowOver(ip, now + 1))
    <3>1. byIP[ip] \in Attempt /\ byIP[ip].FirstFailed <= now
      BY <2>3 DEF Known, TypeOK, Outlasting
    <3> QED BY <1>2, <2>1, <2>3, <3>1, ProtectorAssumption DEF AfterFailure, Attempt
  <2> QED BY <2>2, <2>3
<1> QED BY <1>1, <1>2, RecordStep

-----------------------------------------------------------------------------

LEMMA InFlightCard ==
  ASSUME NEW ip
  PROVE  /\ IsFiniteSet(InFlight(ip)) /\ Cardinality(InFlight(ip)) \in Nat
         /\ Cardinality(Requests) \in Nat
         /\ Cardinality(InFlight(ip)) <= Cardinality(Requests)
         /\ \A r \in Requests : r \notin InFlight(ip) =>
              Cardinality(InFlight(ip)) < Cardinality(Requests)
<1>1. InFlight(ip) \subseteq Requests
  BY DEF InFlight
<1>2. IsFiniteSet(Requests)
  BY ProtectorAssumption
<1>3. \A r \in Requests : r \notin InFlight(ip) => InFlight(ip) # Requests
  OBVIOUS
<1> QED BY <1>1, <1>2, <1>3, FS_Subset, FS_CardinalityType

\* Whoever is let in finds a record below its limit, or forgets it.
LEMMA CountStep == TypeOK /\ Outlasting /\ CountBounded /\ [Next]_vars => CountBounded'
<1> SUFFICES ASSUME TypeOK, Outlasting, CountBounded, [Next]_vars, TypeOK', NEW ip \in DOMAIN byIP'
             PROVE  byIP'[ip].Count + Cardinality(InFlight(ip)') < MaxFails + Cardinality(Requests)
  BY TypeStep DEF CountBounded
<1> DEFINE Bounded == byIP'[ip].Count + Cardinality(InFlight(ip)') < MaxFails + Cardinality(Requests)
<1>a. byIP'[ip] \in Attempt
  BY DEF TypeOK
<1>b. /\ IsFiniteSet(InFlight(ip)) /\ Cardinality(InFlight(ip)) \in Nat
      /\ Cardinality(Requests) \in Nat
      /\ Cardinality(InFlight(ip)) <= Cardinality(Requests)
  BY InFlightCard
<1>1. ASSUME NEW r \in Requests, NEW other \in Addresses, Check(r, other) PROVE Bounded
  <2>1. ip \in DOMAIN byIP /\ byIP'[ip] = byIP[ip]
    BY <1>1 DEF Check, Forget
  <2>2. CASE ip # other
    <3>1. InFlight(ip)' = InFlight(ip)
      BY <1>1, <2>2 DEF Check, InFlight, TypeOK
    <3> QED BY <2>1, <3>1 DEF CountBounded
  <2>3. CASE ip = other
    <3>1. byIP[ip].Count < MaxFails
      <4>1. ~WindowOver(ip, now) /\ now >= byIP[ip].LockedUntil
        <5>1. Known(ip) /\ ~Locked(ip)
          BY <1>1, <2>1, <2>3 DEF Check, Known
        <5>2. ~WindowOver(ip, now)
          BY <1>1, <2>3, <5>1 DEF Check, Forget
        <5> QED BY <2>1, <5>1, <5>2, <1>a DEF Locked, TypeOK, Attempt
      <4> QED BY <2>1, <4>1, <1>a, ProtectorAssumption DEF WindowOver, Outlasting, TypeOK, Attempt
    <3>2. InFlight(ip)' = InFlight(ip) \cup {r} /\ r \notin InFlight(ip)
      BY <1>1, <2>3 DEF Check, InFlight, TypeOK
    <3>3. Cardinality(InFlight(ip)') = Cardinality(InFlight(ip)) + 1
      BY <3>2, <1>b, FS_AddElement
    <3>4. Cardinality(InFlight(ip)) < Cardinality(Requests)
      BY <3>2, InFlightCard
    <3> QED BY <2>1, <3>1, <3>3, <3>4, <1>a, <1>b, ProtectorAssumption DEF Attempt
  <2> QED BY <2>2, <2>3
<1>2. ASSUME NEW r \in Requests, Fail(r) PROVE Bounded
  <2>1. CASE from[r] # ip
    <3>1. InFlight(ip)' = InFlight(ip)
      BY <1>2, <2>1 DEF Fail, InFlight, TypeOK
    <3>2. ip \in DOMAIN byIP /\ byIP'[ip] = byIP[ip]
      BY <1>2, <2>1 DEF Fail, Store
    <3> QED BY <3>1, <3>2 DEF CountBounded
  <2>2. CASE from[r] = ip
    <3>1. InFlight(ip)' = InFlight(ip) \ {r} /\ r \in InFlight(ip)
      BY <1>2, <2>2 DEF Fail, InFlight, TypeOK
    <3>2. Cardinality(InFlight(ip)') = Cardinality(InFlight(ip)) - 1
      BY <3>1, <1>b, FS_RemoveElement
    <3>3. byIP'[ip] = AfterFailure(ip, now + 1)
      BY <1>2, <2>2 DEF Fail, Store
    <3>4. CASE ~Known(ip) \/ WindowOver(ip, now + 1)
      <4>1. byIP'[ip].Count = 1
        BY <3>3, <3>4 DEF AfterFailure
      <4> QED BY <4>1, <3>2, <1>b, ProtectorAssumption
    <3>5. CASE ~(~Known(ip) \/ WindowOver(ip, now + 1))
      <4>1. ip \in DOMAIN byIP /\ byIP[ip] \in Attempt
        BY <3>5 DEF Known, TypeOK
      <4>2. byIP'[ip].Count = byIP[ip].Count + 1
        BY <3>3, <3>5, <4>1 DEF AfterFailure, Attempt
      <4> QED BY <4>1, <4>2, <3>2, <1>b, ProtectorAssumption DEF CountBounded, Attempt
    <3> QED BY <3>4, <3>5
  <2> QED BY <2>1, <2>2
<1>3. ASSUME NEW r \in Requests, Succeed(r) PROVE Bounded
  <2>1. ip # from[r] /\ ip \in DOMAIN byIP /\ byIP'[ip] = byIP[ip]
    BY <1>3 DEF Succeed, Forget
  <2>2. InFlight(ip)' = InFlight(ip)
    BY <1>3, <2>1 DEF Succeed, InFlight, TypeOK
  <2> QED BY <2>1, <2>2 DEF CountBounded
<1>4. CASE Restart
  BY <1>4 DEF Restart
<1>5. CASE TimePasses \/ UNCHANGED vars
  BY <1>5 DEF TimePasses, vars, CountBounded, InFlight
<1> QED BY <1>1, <1>2, <1>3, <1>4, <1>5 DEF Next

-----------------------------------------------------------------------------

LEMMA PastStep == TypeOK /\ Past /\ [Next]_vars => Past'
<1> SUFFICES ASSUME TypeOK, Past, [Next]_vars, NEW ip \in Addresses
             PROVE  IsFiniteSet(failures'[ip]) /\ \A f \in failures'[ip] : f <= now'
  BY DEF Past
<1>1. now' \in Nat /\ now \in Nat /\ now <= now' /\ failures[ip] \subseteq Nat
  BY TimeStep DEF TypeOK
<1>2. CASE failures'[ip] = failures[ip]
  BY <1>1, <1>2 DEF Past
<1>3. CASE failures'[ip] = {}
  BY <1>3, FS_EmptySet
<1>4. CASE failures'[ip] = failures[ip] \cup {now'}
  BY <1>1, <1>4, FS_AddElement DEF Past
<1> QED
  BY <1>2, <1>3, <1>4 DEF Next, vars, Check, Fail, Succeed, Restart, TimePasses, TypeOK

\* A failure that is counted is one more of those that cover the record.
LEMMA CoveredFail ==
  ASSUME TypeOK, Outlasting, Past, Covered, NEW r \in Requests, Fail(r), Past',
         NEW ip, from[r] = ip, byIP'[ip] = AfterFailure(ip, now + 1)
  PROVE  /\ Cardinality(Since(failures'[ip], byIP'[ip].FirstFailed)) >= byIP'[ip].Count
         /\ byIP'[ip].LockedUntil # 0 =>
              \E t \in failures'[ip] :
                /\ byIP'[ip].LockedUntil = t + Lockout
                /\ Cardinality(Within(failures'[ip], t)) >= MaxFails
<1> DEFINE t == now + 1
<1>1. ip \in Addresses /\ t \in Nat /\ now \in Nat /\ now' = t /\ failures[ip] \subseteq Nat
  BY DEF Fail, TypeOK
<1>2. failures'[ip] = failures[ip] \cup {t} /\ t \notin failures[ip]
  BY <1>1 DEF Fail, TypeOK, Past
<1>3. IsFiniteSet(failures[ip]) /\ IsFiniteSet(failures'[ip]) /\ \A f \in failures[ip] : f <= now
  BY <1>1 DEF Past
<1>4. CASE ~Known(ip) \/ WindowOver(ip, t)
  <2>1. byIP'[ip] = [Count |-> 1, FirstFailed |-> t, LockedUntil |-> 0]
    BY <1>4 DEF AfterFailure
  <2>2. Since(failures'[ip], t) = {t}
    BY <1>1, <1>2, <1>3 DEF Since
  <2>3. Cardinality({t}) = 1
    BY FS_Singleton
  <2> QED BY <2>1, <2>2, <2>3
<1>5. CASE ~(~Known(ip) \/ WindowOver(ip, t))
  <2> DEFINE a == byIP[ip]
             first == a.FirstFailed
  <2>1. ip \in DOMAIN byIP /\ a \in Attempt /\ first \in Nat /\ first <= now /\ t - first <= Window
    BY <1>1, <1>5, ProtectorAssumption DEF Known, WindowOver, TypeOK, Attempt, Outlasting
  <2>2. /\ byIP'[ip].Count = a.Count + 1 /\ byIP'[ip].FirstFailed = first
        /\ byIP'[ip].LockedUntil = IF a.Count + 1 >= MaxFails THEN t + Lockout ELSE a.LockedUntil
    BY <1>5, <2>1 DEF AfterFailure, Attempt
  <2>3. Since(failures'[ip], first) = Since(failures[ip], first) \cup {t} /\ t \notin Since(failures[ip], first)
    BY <1>1, <1>2, <2>1, <2>2 DEF Since
  <2>4. IsFiniteSet(Since(failures[ip], first)) /\ Cardinality(Since(failures[ip], first)) \in Nat
    BY <1>3, FS_Subset, FS_CardinalityType DEF Since
  <2>5. Cardinality(Since(failures'[ip], first)) = Cardinality(Since(failures[ip], first)) + 1
    <3> DEFINE S == Since(failures[ip], first)
    <3>1. t \notin S /\ IsFiniteSet(S)
      BY <2>3, <2>4
    <3>2. Cardinality(S \cup {t}) = Cardinality(S) + 1
      BY <3>1, FS_AddElement
    <3> QED BY <2>3, <3>2
  <2>6. Cardinality(Since(failures'[ip], first)) >= a.Count + 1
    BY <2>1, <2>4, <2>5 DEF Covered, Attempt
  <2>7. CASE a.Count + 1 >= MaxFails
    <3>1. Since(failures'[ip], first) \subseteq Within(failures'[ip], t)
      BY <1>1, <1>2, <1>3, <2>1, <2>2, ProtectorAssumption DEF Since, Within
    <3>2. IsFiniteSet(Within(failures'[ip], t))
      BY <1>3, FS_Subset DEF Within
    <3>3. /\ Cardinality(Since(failures'[ip], first)) <= Cardinality(Within(failures'[ip], t))
          /\ Cardinality(Within(failures'[ip], t)) \in Nat
      BY <3>1, <3>2, FS_Subset, FS_CardinalityType
    <3>4. Cardinality(Within(failures'[ip], t)) >= MaxFails
      BY <2>1, <2>4, <2>5, <2>6, <2>7, <3>3, ProtectorAssumption DEF Attempt
    <3> QED BY <1>2, <2>2, <2>6, <2>7, <3>4
  <2>8. CASE ~(a.Count + 1 >= MaxFails)
    <3> SUFFICES ASSUME a.LockedUntil # 0
                 PROVE  \E u \in failures'[ip] :
                          a.LockedUntil = u + Lockout /\ Cardinality(Within(failures'[ip], u)) >= MaxFails
      BY <2>2, <2>6, <2>8
    <3>1. PICK u \in failures[ip] :
             a.LockedUntil = u + Lockout /\ Cardinality(Within(failures[ip], u)) >= MaxFails
      BY <2>1 DEF Covered
    <3>2. Within(failures'[ip], u) = Within(failures[ip], u)
      BY <1>1, <1>2, <1>3, <3>1 DEF Within
    <3> QED BY <1>2, <3>1, <3>2
  <2> QED BY <2>7, <2>8
<1> QED BY <1>4, <1>5

LEMMA CoveredStep ==
  TypeOK /\ Outlasting /\ Past /\ Covered /\ [Next]_vars /\ Past' => Covered'
<1> SUFFICES ASSUME TypeOK, Outlasting, Past, Covered, [Next]_vars, Past', NEW ip \in DOMAIN byIP'
             PROVE  /\ Cardinality(Since(failures'[ip], byIP'[ip].FirstFailed)) >= byIP'[ip].Count
                    /\ byIP'[ip].LockedUntil # 0 =>
                         \E t \in failures'[ip] :
                           /\ byIP'[ip].LockedUntil = t + Lockout
                           /\ Cardinality(Within(failures'[ip], t)) >= MaxFails
  BY DEF Covered
<1>1. ASSUME NEW r \in Requests, Fail(r), from[r] = ip, byIP'[ip] = AfterFailure(ip, now + 1)
      PROVE  /\ Cardinality(Since(failures'[ip], byIP'[ip].FirstFailed)) >= byIP'[ip].Count
             /\ byIP'[ip].LockedUntil # 0 =>
                  \E t \in failures'[ip] :
                    /\ byIP'[ip].LockedUntil = t + Lockout
                    /\ Cardinality(Within(failures'[ip], t)) >= MaxFails
  BY <1>1, CoveredFail
<1>2. CASE /\ ip \in DOMAIN byIP /\ byIP'[ip] = byIP[ip]
           /\ ~\E r \in Requests : Fail(r) /\ from[r] = ip
  <2>1. ip \in Addresses
    BY <1>2 DEF TypeOK
  <2>2. failures'[ip] = failures[ip]
    <3>1. ASSUME NEW r \in Requests, Fail(r) PROVE failures'[ip] = failures[ip]
      BY <1>2, <2>1, <3>1 DEF Fail, TypeOK
    <3>2. ASSUME NEW r \in Requests, Succeed(r) PROVE failures'[ip] = failures[ip]
      <4>1. from[r] # ip
        BY <3>2 DEF Succeed, Forget
      <4> QED BY <2>1, <3>2, <4>1 DEF Succeed, TypeOK
    <3>3. CASE Restart
      BY <3>3 DEF Restart
    <3>4. ASSUME NEW r \in Requests, NEW other \in Addresses, Check(r, other)
          PROVE  failures'[ip] = failures[ip]
      BY <3>4 DEF Check
    <3>5. CASE TimePasses \/ UNCHANGED vars
      BY <3>5 DEF TimePasses, vars
    <3> QED BY <3>1, <3>2, <3>3, <3>4, <3>5 DEF Next
  <2>3. Since(failures'[ip], byIP'[ip].FirstFailed) = Since(failures[ip], byIP[ip].FirstFailed)
    BY <1>2, <2>2 DEF Since
  <2>4. \A t : Within(failures'[ip], t) = Within(failures[ip], t)
    BY <2>2 DEF Within
  <2> QED BY <1>2, <2>2, <2>3, <2>4 DEF Covered
<1>3. ASSUME NEW r \in Requests, Fail(r), from[r] = ip
      PROVE  byIP'[ip] = AfterFailure(ip, now + 1)
  BY <1>3 DEF Fail, Store, TypeOK
<1> QED BY <1>1, <1>2, <1>3, RecordStep

-----------------------------------------------------------------------------

\* Parts of the failures of an address are finite.
LEMMA Parts ==
  ASSUME Past, NEW ip \in Addresses, NEW S, S \subseteq failures[ip]
  PROVE  /\ IsFiniteSet(S) /\ Cardinality(S) \in Nat
         /\ \A T \in SUBSET S : Cardinality(T) <= Cardinality(S) /\ Cardinality(T) \in Nat
<1>1. IsFiniteSet(S)
  BY FS_Subset DEF Past
<1>2. \A T \in SUBSET S : IsFiniteSet(T) /\ Cardinality(T) <= Cardinality(S)
  BY <1>1, FS_Subset
<1> QED BY <1>1, <1>2, FS_CardinalityType

\* Where the record and the failures stay, time can only help.
LEMMA PacedQuiet ==
  ASSUME TypeOK, Past, [Next]_vars, NEW ip \in Addresses, PacedAt(ip),
         failures'[ip] = failures[ip], Known(ip)' <=> Known(ip), Known(ip) => byIP'[ip] = byIP[ip]
  PROVE  PacedAt(ip)'
<1>1. now \in Nat /\ now' \in Nat /\ now <= now' /\ failures[ip] \subseteq Nat
  BY TimeStep DEF TypeOK
<1>2. CASE Known(ip)
  BY <1>2 DEF PacedAt, Since, Before
<1>3. CASE ~Known(ip)
  <2>1. Fresh(failures[ip]) \subseteq failures[ip] /\ Fresh(failures[ip])' \subseteq Fresh(failures[ip])
    BY <1>1, ProtectorAssumption DEF Fresh
  <2>2. /\ Cardinality(Fresh(failures[ip])') <= Cardinality(Fresh(failures[ip]))
        /\ Cardinality(Fresh(failures[ip])') \in Nat /\ Cardinality(Fresh(failures[ip])) \in Nat
    BY <2>1, Parts
  <2> QED BY <1>3, <2>2, RestIs DEF PacedAt
<1> QED BY <1>2, <1>3

\* A success or a restart leaves nothing to count.
LEMMA PacedAfresh ==
  ASSUME NEW ip \in Addresses, failures'[ip] = {}, ~Known(ip)'
  PROVE  PacedAt(ip)'
<1>1. Fresh(failures[ip])' = {}
  BY DEF Fresh
<1>2. Cardinality(Fresh(failures[ip])') = 0
  BY <1>1, FS_EmptySet
<1> QED BY <1>2, RestIs DEF PacedAt

\* The failures since the first, without it.
LEMMA AllButFirst ==
  ASSUME TypeOK, Past, NEW ip \in Addresses, Known(ip), PacedAt(ip)
  PROVE  LET later == Since(failures[ip], byIP[ip].FirstFailed) \ {byIP[ip].FirstFailed}
         IN  Cardinality(later) + 1 <= byIP[ip].Count
<1> DEFINE first == byIP[ip].FirstFailed
           all == Since(failures[ip], first)
<1>1. byIP[ip] \in Attempt /\ first \in failures[ip] /\ Cardinality(all) <= byIP[ip].Count
  BY DEF Known, TypeOK, PacedAt
<1>2. all \subseteq failures[ip] /\ first \in all
  BY <1>1 DEF Since, Attempt
<1>3. IsFiniteSet(all) /\ Cardinality(all) \in Nat
  BY <1>2, Parts
<1>4. Cardinality(all \ {first}) = Cardinality(all) - 1
  BY <1>2, <1>3, FS_RemoveElement
<1> QED BY <1>1, <1>3, <1>4 DEF Attempt

\* A record that Check forgets was below its limit, or its lockout is over and with
\* it the window of every failure.
LEMMA PacedForgotten ==
  ASSUME TypeOK, Past, NEW ip \in Addresses, Known(ip), ~Locked(ip), WindowOver(ip, now),
         PacedAt(ip), failures'[ip] = failures[ip], now' = now, ~Known(ip)'
  PROVE  PacedAt(ip)'
<1> DEFINE first == byIP[ip].FirstFailed
           later == Since(failures[ip], first) \ {first}
<1>1. /\ byIP[ip] \in Attempt /\ now \in Nat /\ failures[ip] \subseteq Nat
      /\ now >= byIP[ip].LockedUntil /\ now - first > Window
  BY DEF Known, TypeOK, Locked, WindowOver, Attempt
<1>2. Fresh(failures[ip])' = Fresh(failures[ip])
  BY DEF Fresh
<1>3. CASE byIP[ip].Count < MaxFails
  <2>1. Fresh(failures[ip]) \subseteq later /\ later \subseteq failures[ip]
    BY <1>1, ProtectorAssumption DEF Fresh, Since, Attempt
  <2>2. /\ Cardinality(Fresh(failures[ip])) <= Cardinality(later)
        /\ Cardinality(Fresh(failures[ip])) \in Nat /\ Cardinality(later) \in Nat
    BY <2>1, Parts
  <2>3. Cardinality(later) + 1 <= byIP[ip].Count
    BY AllButFirst
  <2>4. Cardinality(later) <= MaxFails - 2
    BY <1>1, <1>3, <2>2, <2>3, ProtectorAssumption DEF Attempt
  <2> QED BY <1>2, <2>2, <2>4, RestIs, ProtectorAssumption DEF PacedAt
<1>4. CASE ~(byIP[ip].Count < MaxFails)
  <2>1. \A f \in failures[ip] : f + Lockout <= byIP[ip].LockedUntil
    BY <1>1, <1>4, ProtectorAssumption DEF PacedAt, Attempt
  <2>2. Fresh(failures[ip]) = {}
    BY <1>1, <2>1, ProtectorAssumption DEF Fresh, Attempt
  <2>3. Cardinality(Fresh(failures[ip])) = 0
    BY <2>2, FS_EmptySet
  <2> QED BY <1>2, <2>3, RestIs DEF PacedAt
<1> QED BY <1>3, <1>4

\* A failure that starts a record leaves no more than Rest others in its window.
LEMMA PacedFirst ==
  ASSUME TypeOK, CountBounded, Past, NEW r \in Requests, Fail(r), NEW ip, from[r] = ip,
         PacedAt(ip), ~Known(ip) \/ WindowOver(ip, now + 1)
  PROVE  Cardinality(Before(failures[ip], now + 1)) <= Rest
<1> DEFINE older == Before(failures[ip], now + 1)
<1>1. ip \in Addresses /\ now \in Nat /\ failures[ip] \subseteq Nat /\ older \subseteq failures[ip]
  BY DEF Fail, TypeOK, Before
<1>2. CASE ~Known(ip)
  <2>1. older = Fresh(failures[ip])
    BY <1>1, ProtectorAssumption DEF Before, Fresh, Past
  <2> QED BY <1>2, <2>1 DEF PacedAt
<1>3. CASE Known(ip) /\ WindowOver(ip, now + 1)
  <2> DEFINE first == byIP[ip].FirstFailed
             later == Since(failures[ip], first) \ {first}
  <2>1. byIP[ip] \in Attempt /\ (now + 1) - first > Window
    BY <1>3 DEF Known, TypeOK, WindowOver
  <2>2. older \subseteq later /\ later \subseteq failures[ip]
    BY <1>1, <2>1, ProtectorAssumption DEF Before, Since, Attempt
  <2>3. /\ Cardinality(older) <= Cardinality(later)
        /\ Cardinality(older) \in Nat /\ Cardinality(later) \in Nat
    BY <1>1, <2>2, Parts
  <2>4. Cardinality(later) + 1 <= byIP[ip].Count
    BY <1>1, <1>3, AllButFirst
  <2>5. Cardinality(InFlight(ip)) \in Nat /\ Cardinality(InFlight(ip)) # 0
    <3>1. r \in InFlight(ip) /\ IsFiniteSet(InFlight(ip)) /\ Cardinality(InFlight(ip)) \in Nat
      BY InFlightCard DEF Fail, InFlight
    <3> QED BY <3>1, FS_EmptySet
  <2>6. byIP[ip].Count + Cardinality(InFlight(ip)) < MaxFails + Cardinality(Requests)
    BY <1>3 DEF CountBounded, Known
  <2>7. Cardinality(older) <= MaxFails + Cardinality(Requests) - 3
    BY <2>1, <2>3, <2>4, <2>5, <2>6, RestIs, ProtectorAssumption DEF Attempt
  <2> QED BY <2>7 DEF Rest
<1> QED BY <1>2, <1>3

LEMMA PacedFail ==
  ASSUME TypeOK, Outlasting, CountBounded, Past, NEW r \in Requests, Fail(r), Past',
         NEW ip, from[r] = ip, PacedAt(ip)
  PROVE  PacedAt(ip)'
<1> DEFINE t == now + 1
<1>1. ip \in Addresses /\ t \in Nat /\ now \in Nat /\ now' = t /\ failures[ip] \subseteq Nat
  BY DEF Fail, TypeOK
<1>2. failures'[ip] = failures[ip] \cup {t} /\ t \notin failures[ip] /\ \A f \in failures[ip] : f <= now
  BY <1>1 DEF Fail, TypeOK, Past
<1>3. Known(ip)' /\ byIP'[ip] = AfterFailure(ip, t)
  BY DEF Fail, Store, Known
<1>4. CASE ~Known(ip) \/ WindowOver(ip, t)
  <2>1. byIP'[ip] = [Count |-> 1, FirstFailed |-> t, LockedUntil |-> 0]
    BY <1>3, <1>4 DEF AfterFailure
  <2>2. Since(failures'[ip], t) = {t} /\ Before(failures'[ip], t) = Before(failures[ip], t)
    BY <1>1, <1>2 DEF Since, Before
  <2>3. Cardinality(Since(failures'[ip], t)) = 1
    BY <2>2, FS_Singleton
  <2>4. Cardinality(Before(failures'[ip], t)) <= Rest
    BY <1>4, <2>2, PacedFirst
  <2> QED BY <1>2, <1>3, <2>1, <2>3, <2>4, ProtectorAssumption DEF PacedAt
<1>5. CASE ~(~Known(ip) \/ WindowOver(ip, t))
  <2> DEFINE a == byIP[ip]
             first == a.FirstFailed
             since == Since(failures[ip], first)
  <2>1. a \in Attempt /\ first \in Nat /\ first <= now
    BY <1>5 DEF Known, TypeOK, Attempt, Outlasting
  <2>2. /\ byIP'[ip].Count = a.Count + 1 /\ byIP'[ip].FirstFailed = first
        /\ a.Count + 1 >= MaxFails => byIP'[ip].LockedUntil = t + Lockout
    BY <1>3, <1>5, <2>1 DEF AfterFailure, Attempt
  <2>3. /\ Since(failures'[ip], first) = since \cup {t} /\ t \notin since
        /\ Before(failures'[ip], first) = Before(failures[ip], first)
    BY <1>1, <1>2, <2>1 DEF Since, Before
  <2>4. IsFiniteSet(since) /\ Cardinality(since) \in Nat
    BY <1>1, Parts DEF Since
  <2>5. Cardinality(since \cup {t}) = Cardinality(since) + 1
    BY <2>3, <2>4, FS_AddElement
  <2>6. Cardinality(Since(failures'[ip], first)) <= byIP'[ip].Count
    BY <1>5, <2>1, <2>2, <2>3, <2>4, <2>5 DEF PacedAt, Attempt
  <2>7. \A f \in failures'[ip] : f + Lockout <= t + Lockout
    BY <1>1, <1>2, ProtectorAssumption
  <2>8. first \in failures'[ip] /\ Cardinality(Before(failures'[ip], first)) <= Rest
    BY <1>2, <1>5, <2>3 DEF PacedAt
  <2> QED BY <1>3, <2>2, <2>6, <2>7, <2>8 DEF PacedAt
<1> QED BY <1>4, <1>5

LEMMA PacedStep ==
  TypeOK /\ Outlasting /\ CountBounded /\ Past /\ Paced /\ [Next]_vars /\ Past' => Paced'
<1> SUFFICES ASSUME TypeOK, Outlasting, CountBounded, Past, Paced, [Next]_vars, Past',
                    NEW ip \in Addresses
             PROVE  PacedAt(ip)'
  BY DEF Paced
<1>0. PacedAt(ip)
  BY DEF Paced
<1>1. ASSUME NEW r \in Requests, NEW other \in Addresses, Check(r, other) PROVE PacedAt(ip)'
  <2>1. failures'[ip] = failures[ip] /\ now' = now /\ ~Locked(other)
    BY <1>1 DEF Check
  <2>2. CASE ip = other /\ Known(ip) /\ WindowOver(ip, now)
    <3>1. ~Known(ip)'
      BY <1>1, <2>2 DEF Check, Forget, Known
    <3> QED BY <1>0, <2>1, <2>2, <3>1, PacedForgotten
  <2>3. CASE ~(ip = other /\ Known(ip) /\ WindowOver(ip, now))
    <3>1. (Known(ip)' <=> Known(ip)) /\ (Known(ip) => byIP'[ip] = byIP[ip])
      BY <1>1, <2>3 DEF Check, Forget, Known
    <3> QED BY <1>0, <2>1, <3>1, PacedQuiet
  <2> QED BY <2>2, <2>3
<1>2. ASSUME NEW r \in Requests, Fail(r) PROVE PacedAt(ip)'
  <2>1. CASE from[r] = ip
    BY <1>0, <1>2, <2>1, PacedFail
  <2>2. CASE from[r] # ip
    <3>1. /\ failures'[ip] = failures[ip] /\ (Known(ip)' <=> Known(ip))
          /\ Known(ip) => byIP'[ip] = byIP[ip]
      BY <1>2, <2>2 DEF Fail, Store, Known, TypeOK
    <3> QED BY <1>0, <3>1, PacedQuiet
  <2> QED BY <2>1, <2>2
<1>3. ASSUME NEW r \in Requests, Succeed(r) PROVE PacedAt(ip)'
  <2>1. CASE from[r] = ip
    BY <1>3, <2>1, PacedAfresh DEF Succeed, Forget, Known, TypeOK
  <2>2. CASE from[r] # ip
    <3>1. /\ failures'[ip] = failures[ip] /\ (Known(ip)' <=> Known(ip))
          /\ Known(ip) => byIP'[ip] = byIP[ip]
      BY <1>3, <2>2 DEF Succeed, Forget, Known, TypeOK
    <3> QED BY <1>0, <3>1, PacedQuiet
  <2> QED BY <2>1, <2>2
<1>4. CASE Restart
  BY <1>4, PacedAfresh DEF Restart, Known
<1>5. CASE TimePasses \/ UNCHANGED vars
  BY <1>0, <1>5, PacedQuiet DEF TimePasses, vars, Known
<1> QED BY <1>1, <1>2, <1>3, <1>4, <1>5 DEF Next

LEMMA Inductive == Spec => []IInv
<1>1. IInv /\ [Next]_vars => IInv'
  BY TypeStep, OutlastingStep, CountStep, PastStep, CoveredStep, PacedStep DEF IInv
<1> QED BY InitInv, <1>1, PTL DEF Spec

-----------------------------------------------------------------------------

\* Every record of the protector is one, at a client address.
THEOREM TypeCorrect == Spec => []TypeOK
BY Inductive, PTL DEF IInv

\* However many requests race past Check, an address is guessed at fewer than
\* maxFails plus that many times before it is locked.
THEOREM CountIsBounded == Spec => []CountBounded
BY Inductive, PTL DEF IInv

\* An address fails at most twice maxFails plus the other requests, less one, in any
\* stretch of one window: it meets at most two records, the older without its first
\* failure and with a request to come or below its limit.
THEOREM GuessesAreBounded == Spec => []GuessesBounded
<1>1. IInv => GuessesBounded
  <2> SUFFICES ASSUME IInv, NEW ip \in Addresses
               PROVE  Cardinality({f \in failures[ip] : now - Window <= f})
                        <= 2 * (MaxFails + Cardinality(Requests) - 2)
    BY DEF GuessesBounded
  <2> DEFINE recent == {f \in failures[ip] : now - Window <= f}
  <2>1. now \in Nat /\ failures[ip] \subseteq Nat /\ Past /\ PacedAt(ip)
    BY DEF IInv, TypeOK, Paced
  <2>2. CASE Known(ip)
    <3> DEFINE first == byIP[ip].FirstFailed
               older == Before(failures[ip], first)
               since == Since(failures[ip], first)
    <3>1. byIP[ip] \in Attempt /\ first <= now
      BY <2>2 DEF Known, IInv, TypeOK, Outlasting
    <3>2. recent \subseteq older \cup since /\ older \subseteq failures[ip] /\ since \subseteq failures[ip]
      BY <2>1, <3>1, ProtectorAssumption DEF Before, Since, Attempt
    <3>3. /\ IsFiniteSet(older) /\ IsFiniteSet(since)
          /\ Cardinality(older) \in Nat /\ Cardinality(since) \in Nat
      BY <2>1, <3>2, Parts
    <3>4. older \cup since \subseteq failures[ip] /\ older \cap since = {}
      BY <2>1, <3>1, <3>2 DEF Before, Since, Attempt
    <3>5. Cardinality(older \cup since) = Cardinality(older) + Cardinality(since)
      <4>1. /\ Cardinality(older \cap since) = 0
            /\ Cardinality(older \cup since)
                 = Cardinality(older) + Cardinality(since) - Cardinality(older \cap since)
        BY <3>3, <3>4, FS_Union, FS_EmptySet
      <4> QED BY <3>3, <4>1
    <3>6. /\ Cardinality(recent) <= Cardinality(older \cup since)
          /\ Cardinality(recent) \in Nat
      BY <2>1, <3>2, <3>4, Parts
    <3>7. byIP[ip].Count + Cardinality(InFlight(ip)) < MaxFails + Cardinality(Requests)
      BY <2>2 DEF IInv, CountBounded, Known
    <3>8. Cardinality(InFlight(ip)) \in Nat
      BY InFlightCard
    <3>9. Cardinality(older) <= Rest /\ Cardinality(since) <= byIP[ip].Count
      BY <2>1, <2>2 DEF PacedAt
    <3> QED BY <3>1, <3>3, <3>5, <3>6, <3>7, <3>8, <3>9, RestIs, ProtectorAssumption DEF Rest, Attempt
  <2>3. CASE ~Known(ip)
    <3> DEFINE fresh == Fresh(failures[ip])
               edge == now - Window
    <3>1. recent \subseteq fresh \cup {edge} /\ fresh \subseteq failures[ip] /\ edge \notin fresh
      BY <2>1, ProtectorAssumption DEF Fresh
    <3>2. IsFiniteSet(fresh) /\ Cardinality(fresh) \in Nat
      BY <2>1, <3>1, Parts
    <3>3. Cardinality(fresh \cup {edge}) = Cardinality(fresh) + 1 /\ IsFiniteSet(fresh \cup {edge})
      BY <3>1, <3>2, FS_AddElement
    <3>4. Cardinality(recent) <= Cardinality(fresh \cup {edge}) /\ Cardinality(recent) \in Nat
      BY <3>1, <3>3, FS_Subset, FS_CardinalityType
    <3>5. Cardinality(fresh) <= Rest
      BY <2>1, <2>3 DEF PacedAt
    <3> QED BY <3>2, <3>3, <3>4, <3>5, RestIs, ProtectorAssumption DEF Rest
  <2> QED BY <2>2, <2>3
<1> QED BY Inductive, <1>1, PTL

\* A lock that holds was earned by maxFails failures within one window, none of
\* them before the last success.
THEOREM LocksAreEarned == Spec => []LockEarned
<1>1. IInv => LockEarned
  <2> SUFFICES ASSUME IInv, NEW ip \in Addresses, Locked(ip)
               PROVE  \E t \in failures[ip] :
                        /\ byIP[ip].LockedUntil = t + Lockout
                        /\ Cardinality({f \in failures[ip] : t - Window <= f /\ f <= t}) >= MaxFails
    BY DEF LockEarned
  <2>1. ip \in DOMAIN byIP /\ byIP[ip] \in Attempt /\ now \in Nat
    BY DEF Locked, Known, IInv, TypeOK
  <2>2. byIP[ip].LockedUntil # 0
    BY <2>1 DEF Locked, Attempt
  <2> QED BY <2>1, <2>2 DEF IInv, Covered, Within
<1> QED BY Inductive, <1>1, PTL

-----------------------------------------------------------------------------

\* What LockKept says of one step.
LocksKeep ==
  \A ip \in Addresses : Locked(ip) =>
    \/ Known(ip)' /\ byIP'[ip].LockedUntil >= byIP[ip].LockedUntil
    \/ \E r \in InFlight(ip) : pc'[r] = "idle"
    \/ restarts' # restarts

LEMMA KeepStep == TypeOK /\ [Next]_vars => LocksKeep
<1> SUFFICES ASSUME TypeOK, [Next]_vars, NEW ip \in Addresses, Locked(ip)
             PROVE  \/ Known(ip)' /\ byIP'[ip].LockedUntil >= byIP[ip].LockedUntil
                    \/ \E r \in InFlight(ip) : pc'[r] = "idle"
                    \/ restarts' # restarts
  BY DEF LocksKeep
<1>1. Known(ip)' /\ byIP'[ip] = byIP[ip] => byIP'[ip].LockedUntil >= byIP[ip].LockedUntil
  BY DEF Locked, Known, TypeOK, Attempt
<1>2. ASSUME NEW r \in Requests, NEW other \in Addresses, Check(r, other)
      PROVE  Known(ip)' /\ byIP'[ip] = byIP[ip]
  <2>1. ip # other /\ ip \in DOMAIN byIP
    BY <1>2 DEF Check, Locked, Known
  <2> QED BY <1>2, <2>1 DEF Check, Forget, Known
<1>3. ASSUME NEW r \in Requests, Fail(r) \/ Succeed(r), from[r] # ip
      PROVE  Known(ip)' /\ byIP'[ip] = byIP[ip]
  BY <1>3 DEF Fail, Succeed, Store, Forget, Locked, Known
<1>4. ASSUME NEW r \in Requests, Fail(r) \/ Succeed(r), from[r] = ip
      PROVE  \E q \in InFlight(ip) : pc'[q] = "idle"
  BY <1>4 DEF Fail, Succeed, InFlight, TypeOK
<1>5. CASE Restart
  BY <1>5 DEF Restart, TypeOK
<1>6. CASE TimePasses \/ UNCHANGED vars
  BY <1>1, <1>6 DEF TimePasses, vars, Locked, Known
<1> QED BY <1>1, <1>2, <1>3, <1>4, <1>5, <1>6 DEF Next

\* A lock is ended early only by a request that was let in before it began, or by
\* a restart: Check turns the others away and leaves the record alone.
THEOREM LocksAreKept == Spec => LockKept
<1>1. TypeOK /\ [Next]_vars => [LocksKeep]_vars
  BY KeepStep
<1> QED BY TypeCorrect, <1>1, PTL DEF Spec, LockKept, LocksKeep
=============================================================================
