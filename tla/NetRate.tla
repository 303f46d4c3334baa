------------------------------- MODULE NetRate -------------------------------
(***************************************************************************)
(* collectNetwork: the rates of the primary interface, from the difference *)
(* between two readings of its byte counters.  The counters, then the      *)
(* clock are read before the mutex is taken, so that two collections at    *)
(* once (the loop's and a request's) may enter in either order.            *)
(*                                                                         *)
(* The counter of an interface is W units wide (2^64 bytes in the code) and *)
(* its unsigned differences wrap.  One counter per interface stands for rx *)
(* and tx.  Without monitor.primary_interface the interface is the first   *)
(* that is up, and may be another one from one collection to the next.     *)
(***************************************************************************)
EXTENDS Integers

CONSTANTS Collectors, \* collections that may be under way at once
          Ifaces,     \* interfaces that may be the primary one
          W,          \* 2^64
          MaxTime,    \* bound: time stops here
          MaxBytes,   \* bound: bytes an interface ever carries
          MaxResets   \* bound: counters that start again at zero

ASSUME NetRateAssumption ==
  /\ W \in Nat \ {0} /\ MaxTime \in Nat /\ MaxBytes \in Nat /\ MaxResets \in Nat

VARIABLES
  now,      \* the monotonic clock
  sent,     \* bytes each interface has carried
  base,     \* of those, the ones before its counters were last reset
  primary,  \* the interface detectPrimaryInterface finds
  prevNet,  \* c.prevNet: counters last stored, a partial function on Ifaces
  prevTime, \* c.prevTime
  pc,       \* "idle", "read" (counters read), "lock" (time taken)
  read,     \* what each collection has read: iface, count, at; and, for history,
            \* the bytes carried and the base at that moment
  last,     \* history: the reading prevNet holds for each interface
  resets    \* resets so far

vars == <<now, sent, base, primary, prevNet, prevTime, pc, read, last, resets>>

NoRate == [diff |-> 0, seconds |-> 0]
NoReading == [iface |-> CHOOSE i \in Ifaces : TRUE, count |-> 0, at |-> 0, sent |-> 0, base |-> 0]

Init ==
  /\ now = 1
  /\ sent = [i \in Ifaces |-> 0] /\ base = [i \in Ifaces |-> 0]
  /\ primary \in Ifaces
  /\ prevNet = <<>> /\ prevTime = 0
  /\ pc = [p \in Collectors |-> "idle"]
  /\ read = [p \in Collectors |-> NoReading]
  /\ last = <<>>
  /\ resets = 0

\* What the kernel shows.
Counter(i) == (sent[i] - base[i]) % W

\* gonet.IOCountersWithContext
ReadCounters(p) ==
  /\ pc[p] = "idle"
  /\ read' = [read EXCEPT ![p] = [iface |-> primary, count |-> Counter(primary), at |-> 0,
                                  sent |-> sent[primary], base |-> base[primary]]]
  /\ pc' = [pc EXCEPT ![p] = "read"]
  /\ UNCHANGED <<now, sent, base, primary, prevNet, prevTime, last, resets>>

\* now := time.Now()
TakeTime(p) ==
  /\ pc[p] = "read"
  /\ read' = [read EXCEPT ![p].at = now]
  /\ pc' = [pc EXCEPT ![p] = "lock"]
  /\ UNCHANGED <<now, sent, base, primary, prevNet, prevTime, last, resets>>

\* Mutant of Diff: a counter that went down counts from zero.
DiffFromZero(count, prev) == IF count < prev THEN count ELSE count - prev

\* uint64 subtraction
Diff(count, prev) == (count - prev) % W

\* Mutant of Rate: the time of a collection that came later is no obstacle.
RateAnyOrder(r) ==
  IF r.iface \in DOMAIN prevNet /\ prevTime # 0
    THEN [diff |-> Diff(r.count, prevNet[r.iface]), seconds |-> r.at - prevTime]
    ELSE NoRate

\* What the critical section returns: a rate needs a previous reading of the
\* interface, and time in between.
Rate(r) ==
  IF r.iface \in DOMAIN prevNet /\ prevTime # 0 /\ r.at > prevTime
    THEN [diff |-> Diff(r.count, prevNet[r.iface]), seconds |-> r.at - prevTime]
    ELSE NoRate

\* A partial function with r at the interface of r.
With(f, i, r) == [j \in DOMAIN f \cup {i} |-> IF j = i THEN r ELSE f[j]]

Idle(p) == pc' = [pc EXCEPT ![p] = "idle"] /\ read' = [read EXCEPT ![p] = NoReading]

\* Mutant of Store: the counters are stored for a new interface only.
StoreOnce(p) ==
  /\ pc[p] = "lock"
  /\ prevNet' = IF read[p].iface \in DOMAIN prevNet
                  THEN prevNet ELSE With(prevNet, read[p].iface, read[p].count)
  /\ prevTime' = read[p].at
  /\ last' = With(last, read[p].iface, read[p])
  /\ Idle(p)
  /\ UNCHANGED <<now, sent, base, primary, resets>>

\* The rest of the critical section.
Store(p) ==
  /\ pc[p] = "lock"
  /\ prevNet' = With(prevNet, read[p].iface, read[p].count)
  /\ prevTime' = read[p].at
  /\ last' = With(last, read[p].iface, read[p])
  /\ Idle(p)
  /\ UNCHANGED <<now, sent, base, primary, resets>>

\* The interface is not among those read, or reading failed: nothing is stored.
GiveUp(p) ==
  /\ pc[p] = "lock"
  /\ Idle(p)
  /\ UNCHANGED <<now, sent, base, primary, prevNet, prevTime, last, resets>>

-----------------------------------------------------------------------------
\* The host.

TimePasses ==
  /\ now < MaxTime
  /\ now' = now + 1
  /\ UNCHANGED <<sent, base, primary, prevNet, prevTime, pc, read, last, resets>>

Traffic(i) ==
  /\ sent[i] < MaxBytes
  /\ sent' = [sent EXCEPT ![i] = @ + 1]
  /\ UNCHANGED <<now, base, primary, prevNet, prevTime, pc, read, last, resets>>

\* The interface is taken down and created anew.
ResetCounter(i) ==
  /\ resets < MaxResets /\ resets' = resets + 1
  /\ base' = [base EXCEPT ![i] = sent[i]]
  /\ UNCHANGED <<now, sent, primary, prevNet, prevTime, pc, read, last>>

Reroute ==
  /\ primary' \in Ifaces \ {primary}
  /\ UNCHANGED <<now, sent, base, prevNet, prevTime, pc, read, last, resets>>

Next ==
  \/ \E p \in Collectors : ReadCounters(p) \/ TakeTime(p) \/ Store(p) \/ GiveUp(p)
  \/ \E i \in Ifaces : Traffic(i) \/ ResetCounter(i)
  \/ TimePasses \/ Reroute

Spec == Init /\ [][Next]_vars

-----------------------------------------------------------------------------
\* Properties.

Reading == [iface : Ifaces, count : 0 .. W - 1, at : Nat, sent : Nat, base : Nat]

TypeOK ==
  /\ now \in Nat \ {0}
  /\ sent \in [Ifaces -> Nat] /\ base \in [Ifaces -> Nat]
  /\ \A i \in Ifaces : base[i] <= sent[i]
  /\ primary \in Ifaces
  /\ DOMAIN prevNet \subseteq Ifaces /\ DOMAIN last = DOMAIN prevNet
  /\ \A i \in DOMAIN prevNet : last[i] \in Reading /\ prevNet[i] = last[i].count
  /\ prevTime \in Nat
  /\ pc \in [Collectors -> {"idle", "read", "lock"}]
  /\ read \in [Collectors -> Reading]
  /\ resets \in Nat

\* The collection p is at the lock and gets a rate.
Rated(p) == pc[p] = "lock" /\ Rate(read[p]) # NoRate

\* A rate counts exactly the bytes carried between the two readings it compares,
\* even when the counter wrapped in between; unless the counter was reset, or
\* the readings are stored in the order opposite to that in which they were
\* taken, which two collections at once can bring about.
RateExact ==
  \A p \in Collectors : Rated(p) =>
    LET r == read[p]  l == last[r.iface]
    IN  \/ Rate(r).diff = r.sent - l.sent
        \/ r.base # l.base
        \/ ~(r.sent - l.sent \in 0 .. W - 1)

\* It is taken over the time between those two readings, which is not zero;
\* unless a reading of another interface was stored in between.
RateTimely ==
  \A p \in Collectors : Rated(p) =>
    LET r == read[p]  l == last[r.iface]
    IN  \/ Rate(r).seconds = r.at - l.at /\ r.at > l.at
        \/ \E i \in DOMAIN last : i # r.iface /\ last[i].at = prevTime
=============================================================================
