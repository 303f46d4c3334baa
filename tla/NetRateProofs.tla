---------------------------- MODULE NetRateProofs ----------------------------
(***************************************************************************)
(* Theorems about NetRate for any number of collections at once, of        *)
(* interfaces, bytes and resets, and for counters of any width: type       *)
(* correctness, and which bytes and which time a rate belongs to.          *)
(***************************************************************************)
EXTENDS NetRate, TLAPS

\* A reading shows the bytes since the reset before it, as far as W goes.
Honest(r) == r.base <= r.sent /\ r.count = (r.sent - r.base) % W
AllHonest ==
  /\ \A p \in Collectors : pc[p] # "idle" => Honest(read[p])
  /\ \A i \in DOMAIN last : Honest(last[i])

\* The shared time is that of the last reading of some interface.
TimeOfOne == prevTime # 0 => \E i \in DOMAIN last : last[i].at = prevTime

IInv == TypeOK /\ AllHonest /\ TimeOfOne

-----------------------------------------------------------------------------
\* Unsigned arithmetic: what the counters of width W say of bytes.

LEMMA SmallRemainder ==
  ASSUME NEW w \in Nat \ {0}, NEW d \in 0 .. w - 1
  PROVE  d % w = d
OBVIOUS

LEMMA BorrowedRemainder ==
  ASSUME NEW w \in Nat \ {0}, NEW d \in 0 .. w - 1
  PROVE  (d - w) % w = d
OBVIOUS

LEMMA Division ==
  ASSUME NEW w \in Nat \ {0}, NEW x \in Nat
  PROVE  x = w * (x \div w) + (x % w) /\ x \div w \in Nat /\ x % w \in 0 .. w - 1
OBVIOUS

\* The difference of two counters, at most one wrap apart, is that of the bytes.
LEMMA Wrap ==
  ASSUME NEW w \in Nat \ {0}, NEW x \in Nat, NEW y \in Nat, x - y \in 0 .. w - 1
  PROVE  ((x % w) - (y % w)) % w = x - y
<1> DEFINE p == x \div w  q == y \div w  a == x % w  b == y % w
<1>1. x = w * p + a /\ p \in Nat /\ a \in 0 .. w - 1
  BY Division
<1>2. y = w * q + b /\ q \in Nat /\ b \in 0 .. w - 1
  BY Division
<1> HIDE DEF p, q, a, b
<1>3. w * p - w * q = w * (p - q)
  BY <1>1, <1>2
<1>4. a - b = (x - y) - w * (p - q)
  BY <1>1, <1>2, <1>3
<1>5. CASE p = q
  <2>1. a - b = x - y
    BY <1>4, <1>5, <1>1, <1>2
  <2> QED BY <2>1, SmallRemainder DEF a, b
<1>6. CASE p - q = 1
  <2>1. a - b = (x - y) - w
    BY <1>4, <1>6, <1>1, <1>2
  <2> QED BY <2>1, BorrowedRemainder DEF a, b
<1>7. ~(p - q >= 2)
  <2> SUFFICES ASSUME p - q >= 2 PROVE FALSE
    OBVIOUS
  <2>1. w * (p - q) >= w * 2
    BY <1>1, <1>2
  <2> QED BY <2>1, <1>4, <1>1, <1>2
<1>8. ~(p - q <= -1)
  <2> SUFFICES ASSUME p - q <= -1 PROVE FALSE
    OBVIOUS
  <2>1. w * (p - q) <= -w
    BY <1>1, <1>2
  <2> QED BY <2>1, <1>4, <1>1, <1>2
<1> QED BY <1>1, <1>2, <1>5, <1>6, <1>7, <1>8

-----------------------------------------------------------------------------
\* The invariant.

LEMMA InitInv == Init => IInv
<1> SUFFICES ASSUME Init PROVE IInv
  OBVIOUS
<1>1. NoReading \in Reading
  BY NetRateAssumption DEF Init, NoReading, Reading
<1>2. TypeOK
  BY <1>1, NetRateAssumption DEF Init, TypeOK
<1>3. AllHonest /\ TimeOfOne
  BY DEF Init, AllHonest, TimeOfOne
<1> QED BY <1>2, <1>3 DEF IInv

\* What a reading is made of, and what becomes of it.
LEMMA ReadingFacts ==
  ASSUME TypeOK
  PROVE  /\ NoReading \in Reading
         /\ \A i \in Ifaces : Counter(i) \in 0 .. W - 1
         /\ \A r \in Reading : [r EXCEPT !.at = now] \in Reading
<1>1. \A i \in Ifaces : sent[i] - base[i] \in Nat
  BY DEF TypeOK
<1>2. \A i \in Ifaces : Counter(i) \in 0 .. W - 1
  BY <1>1, Division, NetRateAssumption DEF Counter
<1>3. NoReading \in Reading
  BY NetRateAssumption DEF TypeOK, NoReading, Reading
<1>4. \A r \in Reading : [r EXCEPT !.at = now] \in Reading
  BY DEF TypeOK, Reading
<1> QED BY <1>2, <1>3, <1>4

LEMMA TypeStep == TypeOK /\ [Next]_vars => TypeOK'
<1> SUFFICES ASSUME TypeOK, [Next]_vars PROVE TypeOK'
  OBVIOUS
<1> USE DEF TypeOK
<1>1. ASSUME NEW p \in Collectors, ReadCounters(p) PROVE TypeOK'
  <2>1. read'[p] \in Reading
    BY <1>1, ReadingFacts DEF ReadCounters, Reading
  <2> QED BY <1>1, <2>1 DEF ReadCounters
<1>2. ASSUME NEW p \in Collectors, TakeTime(p) PROVE TypeOK'
  BY <1>2, ReadingFacts DEF TakeTime
<1>3. ASSUME NEW p \in Collectors, Store(p) PROVE TypeOK'
  <2>1. read[p] \in Reading /\ read[p].iface \in Ifaces /\ read[p].at \in Nat
    BY DEF Reading
  <2> QED BY <1>3, <2>1, ReadingFacts DEF Store, Idle, With
<1>4. ASSUME NEW p \in Collectors, GiveUp(p) PROVE TypeOK'
  BY <1>4, ReadingFacts DEF GiveUp, Idle
<1>5. ASSUME NEW i \in Ifaces, Traffic(i) PROVE TypeOK'
  BY <1>5 DEF Traffic
<1>6. ASSUME NEW i \in Ifaces, ResetCounter(i) PROVE TypeOK'
  BY <1>6 DEF ResetCounter
<1>7. CASE TimePasses
  BY <1>7 DEF TimePasses
<1>8. CASE Reroute
  BY <1>8 DEF Reroute
<1>9. CASE UNCHANGED vars
  BY <1>9 DEF vars
<1> QED BY <1>1, <1>2, <1>3, <1>4, <1>5, <1>6, <1>7, <1>8, <1>9 DEF Next

LEMMA HonestStep == TypeOK /\ AllHonest /\ [Next]_vars => AllHonest'
<1> SUFFICES ASSUME TypeOK, AllHonest, [Next]_vars PROVE AllHonest'
  OBVIOUS
<1> USE DEF TypeOK, AllHonest, Honest
<1>1. ASSUME NEW p \in Collectors, ReadCounters(p) PROVE AllHonest'
  BY <1>1 DEF ReadCounters, Counter
<1>2. ASSUME NEW p \in Collectors, TakeTime(p) PROVE AllHonest'
  BY <1>2 DEF TakeTime
<1>3. ASSUME NEW p \in Collectors, Store(p) PROVE AllHonest'
  BY <1>3 DEF Store, Idle, With
<1>4. ASSUME NEW p \in Collectors, GiveUp(p) PROVE AllHonest'
  BY <1>4 DEF GiveUp, Idle
<1>5. ASSUME NEW i \in Ifaces, Traffic(i) PROVE AllHonest'
  BY <1>5 DEF Traffic
<1>6. ASSUME NEW i \in Ifaces, ResetCounter(i) PROVE AllHonest'
  BY <1>6 DEF ResetCounter
<1>7. CASE TimePasses
  BY <1>7 DEF TimePasses
<1>8. CASE Reroute
  BY <1>8 DEF Reroute
<1>9. CASE UNCHANGED vars
  BY <1>9 DEF vars
<1> QED BY <1>1, <1>2, <1>3, <1>4, <1>5, <1>6, <1>7, <1>8, <1>9 DEF Next

LEMMA TimeStep == TypeOK /\ TimeOfOne /\ [Next]_vars => TimeOfOne'
<1> SUFFICES ASSUME TypeOK, TimeOfOne, [Next]_vars PROVE TimeOfOne'
  OBVIOUS
<1> USE DEF TypeOK, TimeOfOne
<1>1. ASSUME NEW p \in Collectors, ReadCounters(p) PROVE TimeOfOne'
  BY <1>1 DEF ReadCounters, Counter
<1>2. ASSUME NEW p \in Collectors, TakeTime(p) PROVE TimeOfOne'
  BY <1>2 DEF TakeTime
<1>3. ASSUME NEW p \in Collectors, Store(p) PROVE TimeOfOne'
  BY <1>3 DEF Store, Idle, With
<1>4. ASSUME NEW p \in Collectors, GiveUp(p) PROVE TimeOfOne'
  BY <1>4 DEF GiveUp, Idle
<1>5. ASSUME NEW i \in Ifaces, Traffic(i) PROVE TimeOfOne'
  BY <1>5 DEF Traffic
<1>6. ASSUME NEW i \in Ifaces, ResetCounter(i) PROVE TimeOfOne'
  BY <1>6 DEF ResetCounter
<1>7. CASE TimePasses
  BY <1>7 DEF TimePasses
<1>8. CASE Reroute
  BY <1>8 DEF Reroute
<1>9. CASE UNCHANGED vars
  BY <1>9 DEF vars
<1> QED BY <1>1, <1>2, <1>3, <1>4, <1>5, <1>6, <1>7, <1>8, <1>9 DEF Next

LEMMA Invariant == Spec => []IInv
<1>1. IInv /\ [Next]_vars => IInv'
  BY TypeStep, HonestStep, TimeStep DEF IInv
<1> QED BY InitInv, <1>1, PTL DEF Spec

\* Every variable of NetRate keeps its type; what prevNet holds is the last reading
\* of each interface.
THEOREM TypeCorrect == Spec => []TypeOK
<1>1. IInv => TypeOK
  BY DEF IInv
<1> QED BY Invariant, <1>1, PTL

\* collectNetwork: a rate counts the bytes carried between the two readings it
\* compares, across a wrap of the counter, but for a reset or readings stored in
\* the opposite order.
THEOREM RatesAreExact == Spec => []RateExact
<1>1. ASSUME IInv, NEW p \in Collectors, Rated(p)
      PROVE  LET r == read[p]  l == last[r.iface]
             IN  \/ Rate(r).diff = r.sent - l.sent
                 \/ r.base # l.base
                 \/ ~(r.sent - l.sent \in 0 .. W - 1)
  <2> DEFINE r == read[p]  l == last[r.iface]
  <2>1. r \in Reading /\ r.iface \in DOMAIN prevNet /\ l \in Reading /\ prevNet[r.iface] = l.count
    BY <1>1 DEF IInv, TypeOK, Rated, Rate
  <2>2. Honest(r) /\ Honest(l)
    BY <1>1, <2>1 DEF IInv, TypeOK, AllHonest, Rated
  <2>3. Rate(r).diff = (r.count - l.count) % W
    BY <1>1, <2>1 DEF Rated, Rate, Diff
  <2>4. ASSUME r.base = l.base, r.sent - l.sent \in 0 .. W - 1
        PROVE  Rate(r).diff = r.sent - l.sent
    <3>1. r.sent - r.base \in Nat /\ l.sent - l.base \in Nat
      BY <2>1, <2>2 DEF Reading, Honest
    <3>2. (r.sent - r.base) - (l.sent - l.base) = r.sent - l.sent
      BY <2>1, <2>4 DEF Reading
    <3> HIDE DEF r, l
    <3>3. (((r.sent - r.base) % W) - ((l.sent - l.base) % W)) % W
            = (r.sent - r.base) - (l.sent - l.base)
      BY <3>1, <3>2, <2>4, Wrap, NetRateAssumption
    <3> QED BY <3>2, <3>3, <2>2, <2>3 DEF Honest
  <2> QED BY <2>4
<1>2. IInv => RateExact
  BY <1>1 DEF RateExact
<1> QED BY Invariant, <1>2, PTL

\* collectNetwork: it is taken over the time between those readings, unless the
\* shared time is that of another interface.
THEOREM RatesAreTimely == Spec => []RateTimely
<1>1. ASSUME IInv, NEW p \in Collectors, Rated(p)
      PROVE  LET r == read[p]  l == last[r.iface]
             IN  \/ Rate(r).seconds = r.at - l.at /\ r.at > l.at
                 \/ \E i \in DOMAIN last : i # r.iface /\ last[i].at = prevTime
  <2>1. PICK i \in DOMAIN last : last[i].at = prevTime
    BY <1>1 DEF IInv, TimeOfOne, Rated, Rate
  <2>2. CASE i = read[p].iface
    BY <1>1, <2>1, <2>2 DEF Rated, Rate
  <2> QED BY <2>1, <2>2
<1>2. IInv => RateTimely
  BY <1>1 DEF RateTimely
<1> QED BY Invariant, <1>2, PTL

=============================================================================
