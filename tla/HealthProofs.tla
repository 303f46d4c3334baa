---------------------------- MODULE HealthProofs ----------------------------
(***************************************************************************)
(* Theorems about Health for all thresholds, readings, numbers of disks    *)
(* and lists of services: type correctness, that the most severe level is  *)
(* shown, that what could not be looked at is never healthy, and that the  *)
(* events are the differences between two collections.  The loops are      *)
(* reasoned about by induction over an explicit set of numbers.            *)
(***************************************************************************)
EXTENDS Health, FiniteSetTheorems, WellFoundedInduction, TLAPS

-----------------------------------------------------------------------------
\* Loops.

Less == {ss \in Nat \X Nat : ss[1] < ss[2]}

\* Induction over an explicit set of numbers.
LEMMA NatSet ==
  ASSUME NEW S, 0 \in S, \A n \in Nat : n \in S => n + 1 \in S
  PROVE  Nat \subseteq S
<1> DEFINE T == {n \in Nat : n \notin S}
<1> SUFFICES ASSUME T # {} PROVE FALSE
  OBVIOUS
<1>1. IsWellFoundedOn(Less, Nat)
  BY NatLessThanWellFounded, Zenon DEF OpToRel, Less
<1>2. PICK x \in T : \A y \in T : ~(<<y, x>> \in Less)
  <2>1. T \subseteq Nat
    OBVIOUS
  <2> HIDE DEF T
  <2> QED BY <1>1, <2>1, WFMin
<1>3. x \in Nat /\ x # 0
  OBVIOUS
<1>4. x - 1 \in Nat /\ x - 1 < x /\ (x - 1) + 1 = x
  BY <1>3
<1>5. x - 1 \notin T
  BY <1>2, <1>3, <1>4 DEF Less
<1> QED BY <1>3, <1>4, <1>5

\* What SequencesExt finds the last item with.
LEMMA MaxOfSome ==
  ASSUME NEW n \in Nat, NEW s \in SUBSET (1 .. n), s # {}
  PROVE  Max(s) \in s /\ \A j \in s : j <= Max(s)
<1> DEFINE Has(m) == \A t \in SUBSET (1 .. m) : t # {} => \E x \in t : \A j \in t : j <= x
           S == {m \in Nat : Has(m)}
<1>1. 0 \in S
  <2>1. 1 .. 0 = {}
    OBVIOUS
  <2> QED BY <2>1
<1>2. ASSUME NEW m \in Nat, m \in S PROVE m + 1 \in S
  <2> SUFFICES ASSUME NEW t \in SUBSET (1 .. m + 1), t # {}
               PROVE  \E x \in t : \A j \in t : j <= x
    OBVIOUS
  <2>1. CASE m + 1 \in t
    BY <2>1
  <2>2. CASE m + 1 \notin t
    <3>1. t \in SUBSET (1 .. m)
      BY <2>2
    <3> QED BY <1>2, <3>1
  <2> QED BY <2>1, <2>2
<1>3. Nat \subseteq S
  <2> HIDE DEF S
  <2> QED BY <1>1, <1>2, NatSet
<1>4. Has(n)
  BY <1>3
<1>5. \E x \in s : \A j \in s : x >= j
  BY <1>4
<1> QED BY <1>5 DEF Max

\* The bodies of the loops that Health folds with; "worse" and "append" tell them
\* apart, as no lemma can take an operator for a parameter.
Body(loop, value, item) ==
  IF loop = "worse" THEN Worse(value, item) ELSE AppendChange(value, item)

\* The function that FoldLeft defines on the sets of indices in D.
Step(loop, it, s, start, items) ==
  IF s = {} THEN start ELSE Body(loop, it[s \ {Max(s)}], items[Max(s)])
Folds(loop, it, D, start, items) ==
  it = [s \in SUBSET D |-> Step(loop, it, s, start, items)]

LEMMA FoldDefined ==
  ASSUME NEW loop, NEW start, NEW items, NEW n \in Nat
  PROVE  \E it : Folds(loop, it, 1 .. n, start, items)
<1> DEFINE S == {m \in Nat : \E it : Folds(loop, it, 1 .. m, start, items)}
<1>1. 0 \in S
  <2> DEFINE it == [s \in SUBSET (1 .. 0) |-> start]
  <2>1. \A s \in SUBSET (1 .. 0) : s = {}
    OBVIOUS
  <2>2. Folds(loop, it, 1 .. 0, start, items)
    BY <2>1 DEF Folds, Step
  <2> QED BY <2>2
<1>2. ASSUME NEW m \in Nat, m \in S PROVE m + 1 \in S
  <2>1. PICK old : Folds(loop, old, 1 .. m, start, items)
    BY <1>2
  <2> DEFINE new == [s \in SUBSET (1 .. m + 1) |->
                       IF m + 1 \in s THEN Body(loop, old[s \ {m + 1}], items[m + 1]) ELSE old[s]]
  <2>2. ASSUME NEW s \in SUBSET (1 .. m + 1) PROVE new[s] = Step(loop, new, s, start, items)
    <3>1. CASE m + 1 \in s
      <4>1. Max(s) = m + 1
        <5>1. Max(s) \in s /\ \A j \in s : j <= Max(s)
          BY <3>1, MaxOfSome, m + 1 \in Nat
        <5>2. Max(s) \in 1 .. m + 1 /\ m + 1 <= Max(s)
          BY <3>1, <5>1
        <5> QED BY <5>2
      <4>2. s \ {m + 1} \in SUBSET (1 .. m + 1) /\ m + 1 \notin s \ {m + 1}
        OBVIOUS
      <4>3. new[s \ {m + 1}] = old[s \ {m + 1}]
        BY <4>2
      <4> QED BY <3>1, <4>1, <4>3 DEF Step
    <3>2. CASE m + 1 \notin s
      <4>1. s \in SUBSET (1 .. m)
        BY <3>2
      <4>2. new[s] = Step(loop, old, s, start, items)
        BY <2>1, <3>2, <4>1 DEF Folds
      <4>3. CASE s = {}
        BY <4>2, <4>3 DEF Step
      <4>4. CASE s # {}
        <5>1. s \ {Max(s)} \in SUBSET (1 .. m + 1) /\ m + 1 \notin s \ {Max(s)}
          BY <3>2
        <5>2. new[s \ {Max(s)}] = old[s \ {Max(s)}]
          BY <5>1
        <5> QED BY <4>2, <4>4, <5>2 DEF Step
      <4> QED BY <4>3, <4>4
    <3> QED BY <3>1, <3>2
  <2>3. new = [s \in SUBSET (1 .. m + 1) |-> Step(loop, new, s, start, items)]
    <3>1. new = [s \in SUBSET (1 .. m + 1) |-> new[s]]
      OBVIOUS
    <3> HIDE DEF new
    <3> QED BY <2>2, <3>1
  <2>4. Folds(loop, new, 1 .. m + 1, start, items)
    <3> HIDE DEF new
    <3> QED BY <2>3 DEF Folds
  <2> HIDE DEF new
  <2> QED BY <2>4
<1>3. Nat \subseteq S
  <2> HIDE DEF S
  <2> QED BY <1>1, <1>2, NatSet
<1> QED BY <1>3


\* A loop over items goes through a value for each number of items seen.
LEMMA FoldSteps ==
  ASSUME NEW loop \in {"worse", "append"}, NEW start, NEW n \in Nat, NEW items, DOMAIN items = 1 .. n
  PROVE  \E F : /\ F[0] = start
                /\ \A k \in 0 .. n - 1 : F[k + 1] = Body(loop, F[k], items[k + 1])
                /\ loop = "worse" => F[n] = FoldLeft(Worse, start, items)
                /\ loop = "append" => F[n] = FoldLeft(AppendChange, start, items)
<1> DEFINE it == CHOOSE g : Folds(loop, g, 1 .. n, start, items)
           F == [k \in 0 .. n |-> it[1 .. k]]
<1>1. ASSUME loop = "worse" PROVE FoldLeft(Worse, start, items) = it[1 .. n]
  BY <1>1 DEF FoldLeft, MapThenFoldSet, Folds, Step, Body
<1>2. ASSUME loop = "append" PROVE FoldLeft(AppendChange, start, items) = it[1 .. n]
  BY <1>2 DEF FoldLeft, MapThenFoldSet, Folds, Step, Body
<1>3. Folds(loop, it, 1 .. n, start, items)
  BY FoldDefined
<1> HIDE DEF it
<1>4. F[0] = start
  <2>1. 1 .. 0 = {} /\ 1 .. 0 \in SUBSET (1 .. n)
    OBVIOUS
  <2> QED BY <1>3, <2>1 DEF Folds, Step
<1>5. ASSUME NEW k \in 0 .. n - 1 PROVE F[k + 1] = Body(loop, F[k], items[k + 1])
  <2> DEFINE s == 1 .. k + 1
  <2>1. k + 1 \in s /\ s \in SUBSET (1 .. n) /\ s # {} /\ k + 1 \in Nat
    <3>1. k \in Nat /\ k + 1 <= n
      OBVIOUS
    <3>2. k + 1 \in s /\ \A j \in s : j \in 1 .. n
      BY <3>1
    <3>3. s \in SUBSET (1 .. n) /\ s # {}
      BY <3>2, Zenon
    <3> QED BY <3>1, <3>2, <3>3
  <2>2. Max(s) = k + 1
    <3>1. Max(s) \in s /\ \A j \in s : j <= Max(s)
      BY <2>1, MaxOfSome
    <3> QED BY <2>1, <3>1
  <2>3. s \ {k + 1} = 1 .. k
    OBVIOUS
  <2>4. it[s] = Step(loop, it, s, start, items)
    BY <1>3, <2>1 DEF Folds
  <2>5. F[k + 1] = it[s] /\ F[k] = it[1 .. k]
    OBVIOUS
  <2> HIDE DEF s, F
  <2> QED BY <2>1, <2>2, <2>3, <2>4, <2>5 DEF Step
<1>6. F[n] = it[1 .. n]
  OBVIOUS
<1> QED BY <1>1, <1>2, <1>4, <1>5, <1>6

\* w is start or one of the first k levels, and as severe as each of them.
Tops(w, start, levels, k) ==
  /\ w = start \/ \E j \in 1 .. k : w = levels[j]
  /\ rank(start) <= rank(w)
  /\ \A j \in 1 .. k : rank(levels[j]) <= rank(w)

LEMMA RankType == \A s : rank(s) \in Nat
BY DEF rank

\* The loops of the aggregates find the most severe level, in any order.
LEMMA WorstFound ==
  ASSUME NEW n \in Nat, NEW levels, DOMAIN levels = 1 .. n, NEW start
  PROVE  Tops(FoldLeft(Worse, start, levels), start, levels, n)
<1>1. PICK F : /\ F[0] = start
               /\ \A k \in 0 .. n - 1 : F[k + 1] = Worse(F[k], levels[k + 1])
               /\ F[n] = FoldLeft(Worse, start, levels)
  <2>1. "worse" \in {"worse", "append"}
    OBVIOUS
  <2>2. PICK G : /\ G[0] = start
                 /\ \A k \in 0 .. n - 1 : G[k + 1] = Body("worse", G[k], levels[k + 1])
                 /\ G[n] = FoldLeft(Worse, start, levels)
    BY FoldSteps, <2>1
  <2> QED BY <2>2 DEF Body
<1> DEFINE S == {k \in Nat : k <= n => Tops(F[k], start, levels, k)}
<1>2. 0 \in S
  BY <1>1, RankType DEF Tops
<1>3. ASSUME NEW k \in Nat, k \in S PROVE k + 1 \in S
  <2> SUFFICES ASSUME k + 1 <= n PROVE Tops(F[k + 1], start, levels, k + 1)
    OBVIOUS
  <2> DEFINE old == F[k]
             new == F[k + 1]
             top == levels[k + 1]
  <2>1. Tops(old, start, levels, k)
    BY <1>3
  <2>2. new = Worse(old, top)
    BY <1>1
  <2>3. k + 1 \in 1 .. k + 1 /\ \A j \in 1 .. k + 1 : j \in 1 .. k \/ j = k + 1
    OBVIOUS
  <2>4. rank(old) \in Nat /\ rank(top) \in Nat /\ rank(start) \in Nat
        /\ \A j \in 1 .. k : rank(levels[j]) \in Nat
    BY RankType
  <2>5. top = levels[k + 1]
    OBVIOUS
  <2> HIDE DEF old, new, top
  <2>6. ASSUME rank(top) > rank(old) PROVE Tops(new, start, levels, k + 1)
    BY <2>1, <2>2, <2>3, <2>4, <2>5, <2>6 DEF Tops, Worse
  <2>7. ASSUME ~(rank(top) > rank(old)) PROVE Tops(new, start, levels, k + 1)
    BY <2>1, <2>2, <2>3, <2>4, <2>5, <2>7 DEF Tops, Worse
  <2>8. Tops(new, start, levels, k + 1)
    BY <2>6, <2>7
  <2> QED BY <2>8 DEF new
<1>4. Nat \subseteq S
  <2> HIDE DEF S
  <2> QED BY <1>2, <1>3, NatSet
<1> QED BY <1>1, <1>4

\* The events so far are the first k items that changed, in their order.
Kept(found, items, k) ==
  \E at \in [1 .. Len(found) -> 1 .. k] :
    /\ \A i \in 1 .. Len(found) : found[i] = items[at[i]]
    /\ \A i \in 1 .. Len(found) : items[at[i]].from # Absent /\ items[at[i]].from # items[at[i]].to
    /\ \A i, j \in 1 .. Len(found) : i < j => at[i] < at[j]
    /\ \A p \in 1 .. k : items[p].from # Absent /\ items[p].from # items[p].to =>
         \E i \in 1 .. Len(found) : at[i] = p

LEMMA ChangesKept ==
  ASSUME NEW n \in Nat, NEW Item, NEW items \in [1 .. n -> Item]
  PROVE  /\ FoldLeft(AppendChange, <<>>, items) \in Seq(Item)
         /\ Kept(FoldLeft(AppendChange, <<>>, items), items, n)
<1>1. PICK F : /\ F[0] = <<>>
               /\ \A k \in 0 .. n - 1 : F[k + 1] = AppendChange(F[k], items[k + 1])
               /\ F[n] = FoldLeft(AppendChange, <<>>, items)
  <2>1. "append" \in {"worse", "append"} /\ DOMAIN items = 1 .. n
    OBVIOUS
  <2>2. PICK G : /\ G[0] = <<>>
                 /\ \A k \in 0 .. n - 1 : G[k + 1] = Body("append", G[k], items[k + 1])
                 /\ G[n] = FoldLeft(AppendChange, <<>>, items)
    BY FoldSteps, <2>1
  <2>3. \A k \in 0 .. n - 1 : G[k + 1] = AppendChange(G[k], items[k + 1])
    BY <2>2 DEF Body
  <2> QED BY <2>2, <2>3
<1> DEFINE S == {k \in Nat : k <= n => F[k] \in Seq(Item) /\ Kept(F[k], items, k)}
<1>2. 0 \in S
  <2>1. <<>> \in Seq(Item) /\ Len(<<>>) = 0
    OBVIOUS
  <2>2. Kept(<<>>, items, 0)
    <3> DEFINE at == [i \in 1 .. 0 |-> 0]
    <3>1. 1 .. Len(<<>>) = {} /\ 1 .. 0 = {}
      BY <2>1
    <3>2. at \in [1 .. Len(<<>>) -> 1 .. 0]
      BY <3>1
    <3> HIDE DEF at
    <3> QED BY <3>1, <3>2 DEF Kept
  <2> QED BY <1>1, <2>1, <2>2
<1>3. ASSUME NEW k \in Nat, k \in S PROVE k + 1 \in S
  <2> SUFFICES ASSUME k + 1 <= n PROVE F[k + 1] \in Seq(Item) /\ Kept(F[k + 1], items, k + 1)
    OBVIOUS
  <2> DEFINE old == F[k]
             new == F[k + 1]
             item == items[k + 1]
  <2>1. old \in Seq(Item) /\ Kept(old, items, k)
    BY <1>3
  <2>2. new = AppendChange(old, item) /\ item \in Item /\ item = items[k + 1]
    BY <1>1
  <2> HIDE DEF old, new, item
  <2>3. PICK at \in [1 .. Len(old) -> 1 .. k] :
          /\ \A i \in 1 .. Len(old) : old[i] = items[at[i]]
          /\ \A i \in 1 .. Len(old) : items[at[i]].from # Absent /\ items[at[i]].from # items[at[i]].to
          /\ \A i, j \in 1 .. Len(old) : i < j => at[i] < at[j]
          /\ \A p \in 1 .. k : items[p].from # Absent /\ items[p].from # items[p].to =>
               \E i \in 1 .. Len(old) : at[i] = p
    BY <2>1 DEF Kept
  <2>4. ASSUME item.from # Absent /\ item.from # item.to
        PROVE  new \in Seq(Item) /\ Kept(new, items, k + 1)
    <3>1. new = Append(old, item)
      BY <2>2, <2>4 DEF AppendChange
    <3>2. new \in Seq(Item) /\ Len(new) = Len(old) + 1 /\ Len(old) \in Nat
      <4>1. Append(old, item) \in Seq(Item)
        BY <2>1, <2>2
      <4>2. Len(Append(old, item)) = Len(old) + 1 /\ Len(old) \in Nat
        BY <2>1
      <4> QED BY <3>1, <4>1, <4>2
    <3>3. \A i \in 1 .. Len(new) : new[i] = IF i \in 1 .. Len(old) THEN old[i] ELSE item
      <4>1. \A i \in 1 .. Len(old) + 1 : i = Len(old) + 1 \/ i \in 1 .. Len(old)
        BY <3>2
      <4>2. \A i \in 1 .. Len(old) : new[i] = old[i] /\ i # Len(old) + 1
        BY <2>1, <2>2, <3>1, <3>2
      <4>3. new[Len(old) + 1] = item /\ Len(old) + 1 \notin 1 .. Len(old)
        BY <2>1, <2>2, <3>1, <3>2
      <4> QED BY <3>2, <4>1, <4>2, <4>3
    <3> DEFINE next == [i \in 1 .. Len(new) |-> IF i \in 1 .. Len(old) THEN at[i] ELSE k + 1]
    <3>4. next \in [1 .. Len(new) -> 1 .. k + 1]
      BY <3>2
    <3>5. \A i \in 1 .. Len(new) : i \in 1 .. Len(old) \/ i = Len(old) + 1
      BY <3>2
    <3>6. \A i \in 1 .. Len(new) : new[i] = items[next[i]]
      BY <2>2, <2>3, <3>2, <3>3
    <3>7. \A i \in 1 .. Len(new) : items[next[i]].from # Absent /\ items[next[i]].from # items[next[i]].to
      BY <2>2, <2>3, <2>4, <3>2
    <3>8. \A i, j \in 1 .. Len(new) : i < j => next[i] < next[j]
      BY <2>3, <3>2, <3>5
    <3>9. ASSUME NEW p \in 1 .. k + 1, items[p].from # Absent, items[p].from # items[p].to
          PROVE  \E i \in 1 .. Len(new) : next[i] = p
      <4>1. CASE p = k + 1
        <5>1. Len(new) \in 1 .. Len(new) /\ Len(new) \notin 1 .. Len(old)
          BY <3>2
        <5> QED BY <4>1, <5>1
      <4>2. CASE p \in 1 .. k
        <5>1. PICK i \in 1 .. Len(old) : at[i] = p
          BY <2>3, <3>9, <4>2
        <5>2. i \in 1 .. Len(new)
          BY <3>2
        <5> QED BY <5>1, <5>2
      <4> QED BY <4>1, <4>2
    <3>10. Kept(new, items, k + 1)
      <4> HIDE DEF next
      <4> QED BY <3>4, <3>6, <3>7, <3>8, <3>9 DEF Kept
    <3> QED BY <3>2, <3>10
  <2>5. ASSUME ~(item.from # Absent /\ item.from # item.to)
        PROVE  new \in Seq(Item) /\ Kept(new, items, k + 1)
    <3>1. new = old
      BY <2>2, <2>5 DEF AppendChange
    <3>2. at \in [1 .. Len(old) -> 1 .. k + 1]
      OBVIOUS
    <3>3. \A p \in 1 .. k + 1 : p \in 1 .. k \/ p = k + 1
      OBVIOUS
    <3>4. Kept(old, items, k + 1)
      BY <2>2, <2>3, <2>5, <3>2, <3>3 DEF Kept
    <3> QED BY <2>1, <3>1, <3>4
  <2>6. new \in Seq(Item) /\ Kept(new, items, k + 1)
    BY <2>4, <2>5
  <2> QED BY <2>6 DEF new
<1>4. Nat \subseteq S
  <2> HIDE DEF S
  <2> QED BY <1>2, <1>3, NatSet
<1> QED BY <1>1, <1>4

-----------------------------------------------------------------------------
\* What a collection leaves in a snapshot.

LEMMA StatusesAre == Statuses = {"healthy", "unknown", "warning", "critical"}
BY DEF Statuses, Severity, ToSet

LEMMA LevelsAre ==
  /\ \A reading : Level(reading) \in Statuses
  /\ Level(Failed) = "unknown"
  /\ \A state : serviceStatus(state) \in Statuses
  /\ serviceStatus(Unread) = "unknown"
BY StatusesAre DEF Level, Evaluate, serviceStatus, Failed, Unread

Entry == [name : STRING, state : States \cup {Unread}, status : Statuses]

\* Something is shown as unknown.
Unknowns(snap) ==
  \/ snap.status[1] = "unknown" \/ snap.status[2] = "unknown"
  \/ \E i \in DOMAIN snap.disks : snap.disks[i] = "unknown"
  \/ \E i \in DOMAIN snap.services : snap.services[i].status = "unknown"

WellFormed(snap) ==
  /\ \E n \in Nat : snap.disks \in [1 .. n -> Statuses]
  /\ \E m \in Nat : snap.services \in [1 .. m -> Entry]
  /\ snap.status \in [1 .. 4 -> Statuses]
  /\ snap.status[3] = aggregateDiskStatus(snap.disks)
  /\ snap.status[4] = aggregateServiceStatus(snap.services)
  /\ snap.errors \in {"ok", "failing"}
  /\ snap.unseen \in Nat
  /\ snap.unseen > 0 => Unknowns(snap)

\* A list of levels has its most severe level for aggregate.
LEMMA AggregateType ==
  ASSUME NEW n \in Nat, NEW levels \in [1 .. n -> Statuses]
  PROVE  FoldLeft(Worse, "healthy", levels) \in Statuses
<1>1. Tops(FoldLeft(Worse, "healthy", levels), "healthy", levels, n)
  BY WorstFound, DOMAIN levels = 1 .. n
<1> QED BY <1>1, StatusesAre DEF Tops

LEMMA SnapshotWellFormed ==
  ASSUME NEW cpu, NEW memory, NEW other, NEW n \in Nat, NEW disks, DOMAIN disks = 1 .. n,
         NEW m \in Nat, NEW services \in [1 .. m -> Entry],
         \A i \in 1 .. m : services[i].status = serviceStatus(services[i].state)
  PROVE  WellFormed(Snapshot(cpu, memory, disks, services, other))
<1> DEFINE snap == Snapshot(cpu, memory, disks, services, other)
           levels == [i \in DOMAIN disks |-> Level(disks[i])]
           blind == {i \in 1 .. 2 : <<cpu, memory>>[i] = Failed}
           unreadDisks == {i \in DOMAIN disks : disks[i] = Failed}
           unreadServices == {i \in DOMAIN services : services[i].state = Unread}
<1>1. /\ snap.status = <<Level(cpu), Level(memory), aggregateDiskStatus(levels),
                         aggregateServiceStatus(services)>>
      /\ snap.disks = levels
      /\ snap.services = services
      /\ snap.errors \in {"ok", "failing"}
      /\ snap.unseen = Cardinality(blind) + Cardinality(unreadDisks) + Cardinality(unreadServices)
  BY DEF Snapshot
<1>2. levels \in [1 .. n -> Statuses]
  BY LevelsAre
<1>3. aggregateDiskStatus(levels) \in Statuses
  BY <1>2, AggregateType, StatusesAre DEF aggregateDiskStatus
<1>4. aggregateServiceStatus(services) \in Statuses
  <2> DEFINE shown == [i \in DOMAIN services |-> services[i].status]
  <2>1. shown \in [1 .. m -> Statuses]
    BY DEF Entry
  <2> HIDE DEF shown
  <2>2. FoldLeft(Worse, "healthy", shown) \in Statuses
    BY <2>1, AggregateType
  <2> QED BY <2>2 DEF shown, aggregateServiceStatus
<1>5. /\ IsFiniteSet(blind) /\ blind \subseteq 1 .. 2
      /\ IsFiniteSet(unreadDisks) /\ unreadDisks \subseteq 1 .. n
      /\ IsFiniteSet(unreadServices) /\ unreadServices \subseteq 1 .. m
  <2>1. blind \subseteq 1 .. 2 /\ unreadDisks \subseteq 1 .. n /\ unreadServices \subseteq 1 .. m
    OBVIOUS
  <2>2. IsFiniteSet(1 .. 2) /\ IsFiniteSet(1 .. n) /\ IsFiniteSet(1 .. m)
    BY FS_Interval, 1 \in Int, 2 \in Int, n \in Int, m \in Int
  <2> HIDE DEF blind, unreadDisks, unreadServices
  <2> QED BY <2>1, <2>2, FS_Subset
<1> DEFINE b == Cardinality(blind)
           d == Cardinality(unreadDisks)
           v == Cardinality(unreadServices)
<1>6. b \in Nat /\ d \in Nat /\ v \in Nat
  <2> HIDE DEF blind, unreadDisks, unreadServices
  <2> QED BY <1>5, FS_CardinalityType
<1>7. (b = 0 <=> blind = {}) /\ (d = 0 <=> unreadDisks = {}) /\ (v = 0 <=> unreadServices = {})
  <2> HIDE DEF blind, unreadDisks, unreadServices
  <2> QED BY <1>5, FS_EmptySet
<1>8. ASSUME snap.unseen > 0 PROVE Unknowns(snap)
  <2>1. blind # {} \/ unreadDisks # {} \/ unreadServices # {}
    <3> HIDE DEF blind, unreadDisks, unreadServices, snap
    <3> QED BY <1>1, <1>6, <1>7, <1>8
  <2>2. CASE blind # {}
    <3>1. cpu = Failed \/ memory = Failed
      BY <2>2
    <3>2. snap.status[1] = Level(cpu) /\ snap.status[2] = Level(memory)
      BY <1>1
    <3> QED BY <3>1, <3>2, LevelsAre DEF Unknowns
  <2>3. CASE unreadDisks # {}
    <3>1. PICK i \in DOMAIN disks : disks[i] = Failed
      BY <2>3
    <3>2. i \in DOMAIN snap.disks /\ snap.disks[i] = Level(Failed)
      BY <1>1, <3>1
    <3> QED BY <3>2, LevelsAre DEF Unknowns
  <2>4. CASE unreadServices # {}
    <3>1. PICK i \in 1 .. m : services[i].state = Unread
      BY <2>4
    <3>2. i \in DOMAIN snap.services /\ snap.services[i].status = "unknown"
      BY <1>1, <3>1, LevelsAre
    <3> QED BY <3>2 DEF Unknowns
  <2> QED BY <2>1, <2>2, <2>3, <2>4
<1>9. snap.unseen \in Nat
  <2> HIDE DEF blind, unreadDisks, unreadServices, snap
  <2> QED BY <1>1, <1>6
<1>10. /\ snap.status \in [1 .. 4 -> Statuses]
       /\ snap.status[3] = aggregateDiskStatus(snap.disks)
       /\ snap.status[4] = aggregateServiceStatus(snap.services)
  <2>1. Level(cpu) \in Statuses /\ Level(memory) \in Statuses
    BY LevelsAre
  <2> HIDE DEF snap, levels
  <2> QED BY <1>1, <1>3, <1>4, <2>1
<1> HIDE DEF snap, levels
<1>11. WellFormed(snap)
  BY <1>1, <1>2, <1>8, <1>9, <1>10 DEF WellFormed
<1> QED BY <1>11 DEF snap

LEMMA CollectedWellFormed == ASSUME NEW snap \in Snapshots PROVE WellFormed(snap)
<1>1. PICK cpu \in CPUReadings, memory \in MemoryReadings, disks \in DiskLists,
           services \in UNION {ServicesOf(tracked) : tracked \in TrackedLists}, other \in {0, 1} :
             snap = Snapshot(cpu, memory, disks, services, other)
  BY DEF Snapshots
<1>2. PICK n \in Nat : disks \in [1 .. n -> DiskReadings]
  BY HealthAssumption DEF DiskLists
<1>3. PICK tracked \in TrackedLists : services \in ServicesOf(tracked)
  OBVIOUS
<1>4. PICK f \in [DOMAIN tracked -> States \cup {Unread}] :
        services = [i \in DOMAIN tracked |->
                      [name |-> tracked[i], state |-> f[i], status |-> serviceStatus(f[i])]]
  BY <1>3 DEF ServicesOf
<1>5. tracked \in Seq(STRING)
  BY HealthAssumption
<1>6. Len(tracked) \in Nat /\ DOMAIN tracked = 1 .. Len(tracked)
      /\ \A i \in 1 .. Len(tracked) : tracked[i] \in STRING
  BY <1>5
<1>7. services \in [1 .. Len(tracked) -> Entry]
      /\ \A i \in 1 .. Len(tracked) : services[i].status = serviceStatus(services[i].state)
  BY <1>4, <1>6, LevelsAre DEF Entry
<1> QED BY <1>1, <1>2, <1>6, <1>7, SnapshotWellFormed

\* Every collection leaves such a snapshot; the one before may be the zero one.
Collected == cur \in Snapshots /\ prev \in Snapshots \cup {ZeroSnapshot}

LEMMA CollectedInv == Spec => []Collected
<1>1. Init => Collected
  BY DEF Init, Collected
<1>2. Collected /\ [Next]_vars => Collected'
  BY DEF Collected, Next, Collect, vars
<1> QED BY <1>1, <1>2, PTL DEF Spec

LEMMA ZeroIs ==
  /\ ZeroSnapshot.status \in [1 .. 4 -> {Absent}] /\ ZeroSnapshot.disks = <<>>
  /\ ZeroSnapshot.services = <<>> /\ ZeroSnapshot.errors = "ok" /\ ZeroSnapshot.unseen = 0
<1>1. DOMAIN Aggregates = 1 .. 4
  BY DEF Aggregates
<1> QED BY <1>1 DEF ZeroSnapshot

\* Type correctness: every level is one of the four, and no collection leaves the
\* zero Status behind, whatever could not be read.
THEOREM TypeCorrect == Spec => []TypeOK
<1>1. DOMAIN Aggregates = 1 .. 4
  BY DEF Aggregates
<1> DEFINE Typed(snap) ==
      /\ snap.status \in [DOMAIN Aggregates -> Statuses \cup {Absent}]
      /\ ToSet(snap.disks) \subseteq Statuses
      /\ \A i \in DOMAIN snap.services :
           snap.services[i].status \in Statuses /\ snap.services[i].state \in States \cup {Unread}
      /\ snap.errors \in {"ok", "failing"} /\ snap.unseen \in Nat
<1>2. ASSUME NEW snap, WellFormed(snap) PROVE Typed(snap) /\ Absent \notin ToSet(snap.status)
  <2>1. PICK n \in Nat : snap.disks \in [1 .. n -> Statuses]
    BY <1>2 DEF WellFormed
  <2>2. PICK m \in Nat : snap.services \in [1 .. m -> Entry]
    BY <1>2 DEF WellFormed
  <2>3. snap.status \in [1 .. 4 -> Statuses] /\ snap.errors \in {"ok", "failing"} /\ snap.unseen \in Nat
    BY <1>2 DEF WellFormed
  <2>4. ToSet(snap.disks) \subseteq Statuses
    BY <2>1 DEF ToSet
  <2>5. \A i \in DOMAIN snap.services :
           snap.services[i].status \in Statuses /\ snap.services[i].state \in States \cup {Unread}
    BY <2>2 DEF Entry
  <2>6. Absent \notin ToSet(snap.status)
    BY <2>3, StatusesAre DEF ToSet, Absent
  <2>7. snap.status \in [DOMAIN Aggregates -> Statuses \cup {Absent}]
    BY <1>1, <2>3
  <2> QED BY <2>3, <2>4, <2>5, <2>6, <2>7
<1>3. Typed(ZeroSnapshot)
  BY <1>1, ZeroIs DEF ToSet
<1>4. Collected => TypeOK
  <2> SUFFICES ASSUME Collected PROVE TypeOK
    OBVIOUS
  <2>1. WellFormed(cur) /\ (WellFormed(prev) \/ prev = ZeroSnapshot)
    BY CollectedWellFormed DEF Collected
  <2>2. Typed(cur) /\ Typed(prev) /\ Absent \notin ToSet(cur.status)
    <3> HIDE DEF Typed
    <3> QED BY <1>2, <1>3, <2>1
  <2> QED BY <2>2 DEF TypeOK
<1> QED BY <1>4, CollectedInv, PTL

-----------------------------------------------------------------------------
\* The most severe level.

LEMMA Ranks ==
  /\ rank("healthy") = 1 /\ rank("unknown") = 2 /\ rank("warning") = 3 /\ rank("critical") = 4
BY DEF rank

LEMMA WorstIs ==
  ASSUME NEW all \in SUBSET Statuses, NEW s \in all, \A t \in all : rank(t) <= rank(s)
  PROVE  Worst(s, all)
<1>1. DOMAIN Severity = 1 .. 4 /\ Severity[1] = "healthy" /\ Severity[2] = "unknown"
      /\ Severity[3] = "warning" /\ Severity[4] = "critical"
  BY DEF Severity
<1>2. \A i \in 1 .. 4 : rank(Severity[i]) = i
  BY <1>1, Ranks
<1>3. PICK i \in 1 .. 4 : Severity[i] = s
  BY <1>1, StatusesAre
<1>4. ASSUME NEW j \in 1 .. 4, j > i PROVE Severity[j] \notin all
  BY <1>2, <1>3, <1>4
<1> QED BY <1>1, <1>3, <1>4 DEF Worst

LEMMA AggregateWorst ==
  ASSUME NEW n \in Nat, n > 0, NEW levels \in [1 .. n -> Statuses]
  PROVE  Worst(FoldLeft(Worse, "healthy", levels), {levels[i] : i \in 1 .. n})
<1> DEFINE w == FoldLeft(Worse, "healthy", levels)
           all == {levels[i] : i \in 1 .. n}
<1>1. Tops(w, "healthy", levels, n)
  BY WorstFound, DOMAIN levels = 1 .. n
<1> HIDE DEF w
<1>2. \A t \in all : rank(t) <= rank(w)
  BY <1>1 DEF Tops
<1>3. w \in all
  <2>1. CASE \E j \in 1 .. n : w = levels[j]
    BY <2>1
  <2>2. CASE w = "healthy"
    <3>1. levels[1] \in Statuses /\ rank(levels[1]) <= 1 /\ 1 \in 1 .. n
      BY <1>1, <2>2, Ranks DEF Tops
    <3>2. levels[1] = "healthy"
      BY <3>1, Ranks, StatusesAre
    <3> QED BY <2>2, <3>1, <3>2
  <2> QED BY <1>1, <2>1, <2>2 DEF Tops
<1>4. all \in SUBSET Statuses
  OBVIOUS
<1>5. Worst(w, all)
  <2> HIDE DEF all
  <2> QED BY <1>2, <1>3, <1>4, WorstIs
<1> QED BY <1>5 DEF w

\* OverallStatus is one of the four levels, and as severe as each of them.
LEMMA OverallIs ==
  ASSUME NEW snap, snap.status \in [1 .. 4 -> Statuses]
  PROVE  /\ OverallStatus(snap) \in ToSet(snap.status)
         /\ \A t \in ToSet(snap.status) : rank(t) <= rank(OverallStatus(snap))
<1> DEFINE all == ToSet(snap.status)
<1>1. all \in SUBSET Statuses /\ snap.status[1] \in all
  BY DEF ToSet
<1>2. \E s \in all : \A t \in all : rank(t) <= rank(s)
  <2> HIDE DEF all
  <2> QED BY <1>1, StatusesAre, Ranks
<1> QED BY <1>2 DEF OverallStatus

\* WorstShown for all thresholds, readings, numbers of disks and lists of services:
\* the loops of aggregateDiskStatus and aggregateServiceStatus and the sort of
\* OverallStatus find the most severe level in any order.
THEOREM WorstAlwaysShown == Spec => []WorstShown
<1>1. Collected => WorstShown
  <2> SUFFICES ASSUME Collected PROVE WorstShown
    OBVIOUS
  <2>1. WellFormed(cur)
    BY CollectedWellFormed DEF Collected
  <2>2. ASSUME cur.disks # <<>> PROVE Worst(cur.status[3], ToSet(cur.disks))
    <3>1. PICK n \in Nat : cur.disks \in [1 .. n -> Statuses]
      BY <2>1 DEF WellFormed
    <3>2. n > 0
      BY <2>2, <3>1
    <3>3. ToSet(cur.disks) = {cur.disks[i] : i \in 1 .. n}
      BY <3>1 DEF ToSet
    <3>4. cur.status[3] = FoldLeft(Worse, "healthy", cur.disks)
      BY <2>1, <2>2 DEF WellFormed, aggregateDiskStatus
    <3> QED BY <3>1, <3>2, <3>3, <3>4, AggregateWorst
  <2>3. ASSUME cur.services # <<>>
        PROVE  Worst(cur.status[4], {cur.services[i].status : i \in DOMAIN cur.services})
    <3>1. PICK m \in Nat : cur.services \in [1 .. m -> Entry]
      BY <2>1 DEF WellFormed
    <3>2. m > 0
      BY <2>3, <3>1
    <3> DEFINE shown == [i \in DOMAIN cur.services |-> cur.services[i].status]
    <3>3. shown \in [1 .. m -> Statuses]
          /\ {cur.services[i].status : i \in DOMAIN cur.services} = {shown[i] : i \in 1 .. m}
      BY <3>1 DEF Entry
    <3>4. cur.status[4] = FoldLeft(Worse, "healthy", shown)
      BY <2>1 DEF WellFormed, aggregateServiceStatus
    <3> HIDE DEF shown
    <3> QED BY <3>2, <3>3, <3>4, AggregateWorst
  <2>4. Worst(OverallStatus(cur), ToSet(cur.status))
    <3>1. cur.status \in [1 .. 4 -> Statuses]
      BY <2>1 DEF WellFormed
    <3>2. ToSet(cur.status) \in SUBSET Statuses
      BY <3>1 DEF ToSet
    <3> QED BY <3>1, <3>2, OverallIs, WorstIs
  <2> QED BY <2>2, <2>3, <2>4 DEF WorstShown
<1> QED BY <1>1, CollectedInv, PTL

\* BlindNotHealthy for all readings: one failed probe among any number of them
\* keeps the host from being shown as healthy.
THEOREM BlindNeverHealthy == Spec => []BlindNotHealthy
<1>1. Collected => BlindNotHealthy
  <2> SUFFICES ASSUME Collected, cur.unseen > 0 \/ cur.disks = <<>>
               PROVE  OverallStatus(cur) # "healthy"
    BY DEF BlindNotHealthy
  <2>1. WellFormed(cur)
    BY CollectedWellFormed DEF Collected
  <2>2. cur.status \in [1 .. 4 -> Statuses]
    BY <2>1 DEF WellFormed
  <2>3. \E i \in 1 .. 4 : rank(cur.status[i]) >= 2
    <3>1. CASE cur.disks = <<>>
      BY <2>1, <3>1, Ranks DEF WellFormed, aggregateDiskStatus
    <3>2. CASE cur.disks # <<>> /\ Unknowns(cur)
      <4>1. CASE cur.status[1] = "unknown" \/ cur.status[2] = "unknown"
        BY <4>1, Ranks
      <4>2. CASE \E i \in DOMAIN cur.disks : cur.disks[i] = "unknown"
        <5>1. PICK n \in Nat : cur.disks \in [1 .. n -> Statuses]
          BY <2>1 DEF WellFormed
        <5>2. PICK i \in 1 .. n : cur.disks[i] = "unknown"
          BY <4>2, <5>1
        <5>3. cur.status[3] = FoldLeft(Worse, "healthy", cur.disks)
          BY <2>1, <3>2 DEF WellFormed, aggregateDiskStatus
        <5>4. Tops(cur.status[3], "healthy", cur.disks, n)
          BY <5>1, <5>3, WorstFound, DOMAIN cur.disks = 1 .. n
        <5>5. 2 <= rank(cur.status[3])
          BY <5>2, <5>4, Ranks DEF Tops
        <5> QED BY <5>5, RankType
      <4>3. CASE \E i \in DOMAIN cur.services : cur.services[i].status = "unknown"
        <5>1. PICK m \in Nat : cur.services \in [1 .. m -> Entry]
          BY <2>1 DEF WellFormed
        <5>2. PICK i \in 1 .. m : cur.services[i].status = "unknown"
          BY <4>3, <5>1
        <5> DEFINE shown == [j \in DOMAIN cur.services |-> cur.services[j].status]
        <5>3. DOMAIN shown = 1 .. m /\ shown[i] = "unknown"
          BY <5>1, <5>2
        <5>4. cur.status[4] = FoldLeft(Worse, "healthy", shown)
          BY <2>1 DEF WellFormed, aggregateServiceStatus
        <5> HIDE DEF shown
        <5>5. Tops(cur.status[4], "healthy", shown, m)
          BY <5>3, <5>4, WorstFound
        <5>6. 2 <= rank(cur.status[4])
          BY <5>3, <5>5, Ranks DEF Tops
        <5> QED BY <5>6, RankType
      <4> QED BY <3>2, <4>1, <4>2, <4>3 DEF Unknowns
    <3>3. cur.unseen > 0 => Unknowns(cur)
      BY <2>1 DEF WellFormed
    <3> QED BY <3>1, <3>2, <3>3
  <2>4. PICK i \in 1 .. 4 : rank(cur.status[i]) >= 2
    BY <2>3
  <2>5. cur.status[i] \in ToSet(cur.status)
    BY <2>2 DEF ToSet
  <2>6. rank(cur.status[i]) <= rank(OverallStatus(cur))
    BY <2>2, <2>5, OverallIs
  <2> QED BY <2>4, <2>6, Ranks, RankType
<1> QED BY <1>1, CollectedInv, PTL

-----------------------------------------------------------------------------
\* Events.

\* What one may assume of the snapshots compared.
Known(snap) ==
  /\ snap.status \in [1 .. 4 -> Statuses \cup {Absent}]
  /\ \E m \in Nat : snap.services \in [1 .. m -> Entry]
  /\ snap.errors \in {"ok", "failing"}

LEMMA BothKnown == Collected => Known(prev) /\ Known(cur) /\ cur.status \in [1 .. 4 -> Statuses]
<1>1. ASSUME NEW snap, WellFormed(snap) PROVE Known(snap) /\ snap.status \in [1 .. 4 -> Statuses]
  BY <1>1 DEF WellFormed, Known
<1>2. Known(ZeroSnapshot)
  <2>1. ZeroSnapshot.services \in [1 .. 0 -> Entry]
    BY ZeroIs
  <2> QED BY <2>1, ZeroIs DEF Known
<1> QED BY <1>1, <1>2, CollectedWellFormed DEF Collected

LEMMA AggregatesAre ==
  /\ DOMAIN Aggregates = 1 .. 4
  /\ \A i, j \in 1 .. 4 : Aggregates[i] = Aggregates[j] => i = j
BY DEF Aggregates

LEMMA ListIsSeq ==
  ASSUME NEW S, NEW k \in Nat, NEW f \in [1 .. k -> S]
  PROVE  f \in Seq(S) /\ Len(f) = k
OBVIOUS

\* all is a, b and c in this order.  The lengths are variables: the provers lose a
\* sequence when they are given its length as a numeral.
Parts(all, a, b, c, k, m, n, S) ==
  /\ all \in [1 .. k + m + n -> S]
  /\ \A i \in 1 .. k : all[i] = a[i]
  /\ \A i \in 1 .. m : all[i + k] = b[i]
  /\ \A i \in 1 .. n : all[i + k + m] = c[i]

LEMMA ConcatLen ==
  ASSUME NEW S, NEW a \in Seq(S), NEW b \in Seq(S)
  PROVE  Len(a \o b) = Len(a) + Len(b)
OBVIOUS

LEMMA PartsAre ==
  ASSUME NEW S, NEW k \in Nat, NEW m \in Nat, NEW n \in Nat,
         NEW a \in Seq(S), Len(a) = k, NEW b \in Seq(S), Len(b) = m, NEW c \in Seq(S), Len(c) = n
  PROVE  Parts((a \o b) \o c, a, b, c, k, m, n, S)
<1> DEFINE front == a \o b
           all == front \o c
<1>1. /\ front \in Seq(S) /\ Len(front) = k + m
      /\ \A i \in 1 .. k : front[i] = a[i]
      /\ \A i \in 1 .. m : front[i + k] = b[i]
  <2>1. front \in Seq(S) /\ Len(front) = Len(a) + Len(b)
    OBVIOUS
  <2>2. \A i \in 1 .. Len(a) : front[i] = a[i]
    OBVIOUS
  <2>3. \A i \in 1 .. Len(b) : front[i + Len(a)] = b[i]
    OBVIOUS
  <2> HIDE DEF front
  <2> QED BY <2>1, <2>2, <2>3
<1> HIDE DEF front
<1>2. /\ all \in Seq(S) /\ Len(all) = k + m + n
      /\ \A i \in 1 .. k + m : all[i] = front[i]
      /\ \A i \in 1 .. n : all[i + (k + m)] = c[i]
  <2>1. front \in Seq(S)
    BY <1>1
  <2>2. all \in Seq(S) /\ Len(all) = Len(front) + Len(c)
    <3>1. all \in Seq(S)
      BY <2>1
    <3>2. Len(all) = Len(front) + Len(c)
      BY <2>1, ConcatLen, Zenon
    <3> QED BY <3>1, <3>2
  <2>3. \A i \in 1 .. Len(front) : all[i] = front[i]
    BY <2>1
  <2>4. \A i \in 1 .. Len(c) : all[i + Len(front)] = c[i]
    BY <2>1
  <2>5. Len(front) = k + m
    BY <1>1
  <2> HIDE DEF all
  <2> QED BY <2>2, <2>3, <2>4, <2>5
<1> HIDE DEF all
<1>3. all \in [1 .. k + m + n -> S]
  BY <1>2
<1>4. \A i \in 1 .. k : i \in 1 .. k + m
  OBVIOUS
<1>5. \A i \in 1 .. m : i + k \in 1 .. k + m
  OBVIOUS
<1>6. \A i \in 1 .. n : i + (k + m) = i + k + m
  OBVIOUS
<1> QED BY <1>1, <1>2, <1>3, <1>4, <1>5, <1>6 DEF Parts, all, front

\* The items compared, by their places.
LEMMA ComparedIs ==
  ASSUME NEW before, NEW after, NEW m \in Nat, DOMAIN after.services = 1 .. m
  PROVE  LET items == Compared(before, after)
         IN  /\ \E Item : items \in [1 .. m + 5 -> Item]
             /\ \A i \in 1 .. 4 :
                  items[i] = [subject |-> <<"threshold", Aggregates[i]>>,
                              from |-> before.status[i], to |-> after.status[i]]
             /\ \A i \in 1 .. m :
                  items[i + 4] = [subject |-> <<"service", after.services[i].name>>,
                                  from |-> PrevState(before, after.services[i].name),
                                  to |-> after.services[i].state]
             /\ items[m + 5] = [subject |-> <<"collector", "collector">>,
                                from |-> before.errors, to |-> after.errors]
<1> DEFINE levels == LevelsCompared(before, after)
           tracked == [i \in DOMAIN after.services |->
                         [subject |-> <<"service", after.services[i].name>>,
                          from |-> PrevState(before, after.services[i].name),
                          to |-> after.services[i].state]]
           last == [subject |-> <<"collector", "collector">>,
                    from |-> before.errors, to |-> after.errors]
           Item == {levels[i] : i \in 1 .. 4} \cup {tracked[i] : i \in 1 .. m} \cup {last}
           items == Compared(before, after)
<1>1. DOMAIN levels = 1 .. 4 /\ \A i \in 1 .. 4 :
        levels[i] = [subject |-> <<"threshold", Aggregates[i]>>,
                     from |-> before.status[i], to |-> after.status[i]]
  BY AggregatesAre DEF LevelsCompared
<1>2. DOMAIN tracked = 1 .. m /\ \A i \in 1 .. m :
        tracked[i] = [subject |-> <<"service", after.services[i].name>>,
                      from |-> PrevState(before, after.services[i].name),
                      to |-> after.services[i].state]
  OBVIOUS
<1>3. levels \in [1 .. 4 -> Item] /\ tracked \in [1 .. m -> Item] /\ last \in Item
  <2>1. levels = [i \in 1 .. 4 |-> levels[i]] /\ tracked = [i \in 1 .. m |-> tracked[i]]
    BY <1>1, <1>2 DEF LevelsCompared
  <2> HIDE DEF levels, tracked, last
  <2> QED BY <2>1
<1> DEFINE errors == ErrorsCompared(before, after)
<1>4. items = (levels \o tracked) \o errors
  BY DEF Compared
<1>5. errors \in [1 .. 1 -> Item] /\ errors[1] = last
  BY <1>3 DEF ErrorsCompared
<1> HIDE DEF levels, tracked, last, errors, Item, items
<1>6. PICK k \in Nat : k = 4
  OBVIOUS
<1>7. PICK n \in Nat : n = 1
  OBVIOUS
<1>8. /\ levels \in Seq(Item) /\ Len(levels) = k
      /\ tracked \in Seq(Item) /\ Len(tracked) = m
      /\ errors \in Seq(Item) /\ Len(errors) = n
  <2>1. levels \in [1 .. k -> Item] /\ tracked \in [1 .. m -> Item] /\ errors \in [1 .. n -> Item]
    BY <1>3, <1>5, <1>6, <1>7
  <2>2. levels \in Seq(Item) /\ Len(levels) = k
    BY <2>1, ListIsSeq
  <2>3. tracked \in Seq(Item) /\ Len(tracked) = m
    BY <2>1, ListIsSeq
  <2>4. errors \in Seq(Item) /\ Len(errors) = n
    BY <2>1, ListIsSeq
  <2> QED BY <2>2, <2>3, <2>4
<1>9. /\ items \in [1 .. k + m + n -> Item]
      /\ \A i \in 1 .. k : items[i] = levels[i]
      /\ \A i \in 1 .. m : items[i + k] = tracked[i]
      /\ \A i \in 1 .. n : items[i + k + m] = errors[i]
  <2>1. Parts((levels \o tracked) \o errors, levels, tracked, errors, k, m, n, Item)
    BY <1>8, PartsAre, Zenon
  <2>2. Parts(items, levels, tracked, errors, k, m, n, Item)
    BY <1>4, <2>1
  <2> QED BY <2>2 DEF Parts
<1>10. k + m + n = m + 5 /\ 1 + k + m = m + 5
  BY <1>6, <1>7
<1>11. items[m + 5] = last
  BY <1>5, <1>7, <1>9, <1>10
<1> QED BY <1>1, <1>2, <1>6, <1>9, <1>10, <1>11 DEF last, items

\* PrevState is the state of the only entry of a name, if there is one.
LEMMA PrevStateIs ==
  ASSUME NEW snap, Known(snap), NEW name,
         \A i, j \in EntriesOf(snap, <<"service", name>>) : i = j
  PROVE  Says(snap, <<"service", name>>)
           = IF PrevState(snap, name) = Absent THEN {} ELSE {PrevState(snap, name)}
<1> DEFINE subject == <<"service", name>>
           at == {i \in DOMAIN snap.services : snap.services[i].name = name}
<1>1. EntriesOf(snap, subject) = at
  BY DEF EntriesOf
<1>2. Says(snap, subject) = {snap.services[i].state : i \in at}
  <2>1. Says(snap, subject) = {snap.services[i].state : i \in EntriesOf(snap, subject)}
    BY DEF Says
  <2> QED BY <1>1, <2>1
<1>3. CASE at = {}
  <2>1. PrevState(snap, name) = Absent
    BY <1>3 DEF PrevState
  <2>2. Says(snap, subject) = {}
    BY <1>2, <1>3
  <2> QED BY <2>1, <2>2
<1>4. CASE at # {}
  <2>1. PICK m \in Nat : snap.services \in [1 .. m -> Entry]
    BY DEF Known
  <2>2. PICK i \in at : at = {i}
    BY <1>1, <1>4
  <2>3. i \in 1 .. m
    BY <2>1
  <2>4. i = CHOOSE k \in at : \A j \in at : j <= k
    BY <2>2, <2>3
  <2>5. PrevState(snap, name) = snap.services[i].state
    BY <1>4, <2>4 DEF PrevState
  <2>6. snap.services[i].state \in States \cup {Unread}
    BY <2>1, <2>3 DEF Entry
  <2>7. snap.services[i].state # Absent
    BY <2>6, HealthAssumption DEF Absent, Unread
  <2>8. Says(snap, subject) = {snap.services[i].state}
    <3> HIDE DEF at
    <3> QED BY <1>2, <2>2
  <2> QED BY <2>5, <2>7, <2>8
<1> QED BY <1>3, <1>4

\* Each subject of the newer snapshot that has one entry in both is compared once,
\* with what the two snapshots say of it.
ComparedOnce(subject, items) ==
  \E p \in DOMAIN items :
    /\ items[p].subject = subject
    /\ \A q \in DOMAIN items : items[q].subject = subject => q = p
    /\ Says(cur, subject) = {items[p].to}
    /\ Says(prev, subject) = IF items[p].from = Absent THEN {} ELSE {items[p].from}

LEMMA SubjectsCompared ==
  ASSUME Collected, NEW subject \in Subjects(cur),
         \A snap \in {prev, cur} : \A i, j \in EntriesOf(snap, subject) : i = j
  PROVE  ComparedOnce(subject, Compared(prev, cur))
<1> DEFINE items == Compared(prev, cur)
<1>1. Known(prev) /\ Known(cur) /\ cur.status \in [1 .. 4 -> Statuses]
  BY BothKnown
<1>2. PICK m \in Nat : cur.services \in [1 .. m -> Entry]
  BY <1>1 DEF Known
<1>3. /\ DOMAIN items = 1 .. m + 5
      /\ \A i \in 1 .. 4 :
           items[i] = [subject |-> <<"threshold", Aggregates[i]>>,
                       from |-> prev.status[i], to |-> cur.status[i]]
      /\ \A i \in 1 .. m :
           items[i + 4] = [subject |-> <<"service", cur.services[i].name>>,
                           from |-> PrevState(prev, cur.services[i].name),
                           to |-> cur.services[i].state]
      /\ items[m + 5] = [subject |-> <<"collector", "collector">>,
                         from |-> prev.errors, to |-> cur.errors]
  BY <1>2, ComparedIs, DOMAIN cur.services = 1 .. m
<1> HIDE DEF items
<1>4. \A q \in 1 .. m + 5 : q \in 1 .. 4 \/ (q - 4 \in 1 .. m /\ q = (q - 4) + 4) \/ q = m + 5
  OBVIOUS
<1>5. /\ \A i \in 1 .. 4 : items[i].subject = <<"threshold", Aggregates[i]>> /\ i \in DOMAIN items
      /\ \A i \in 1 .. m : items[i + 4].subject = <<"service", cur.services[i].name>> /\ i + 4 \in DOMAIN items
      /\ items[m + 5].subject = <<"collector", "collector">> /\ m + 5 \in DOMAIN items
  <2>1. m + 5 \in 1 .. m + 5 /\ (\A i \in 1 .. 4 : i \in 1 .. m + 5)
        /\ \A i \in 1 .. m : i + 4 \in 1 .. m + 5
    OBVIOUS
  <2>2. \A i \in 1 .. 4 : items[i].subject = <<"threshold", Aggregates[i]>>
    BY <1>3
  <2>3. \A i \in 1 .. m : items[i + 4].subject = <<"service", cur.services[i].name>>
    <3> TAKE i \in 1 .. m
    <3> DEFINE name == cur.services[i].name
    <3>1. items[i + 4] = [subject |-> <<"service", name>>, from |-> PrevState(prev, name),
                          to |-> cur.services[i].state]
      BY <1>3
    <3> HIDE DEF name
    <3>2. items[i + 4].subject = <<"service", name>>
      BY <3>1
    <3> QED BY <3>2 DEF name
  <2>4. items[m + 5].subject = <<"collector", "collector">>
    BY <1>3
  <2> QED BY <1>3, <2>1, <2>2, <2>3, <2>4
<1>6. CASE subject \in {<<"threshold", Aggregates[i]>> : i \in DOMAIN Aggregates}
  <2>1. PICK p \in 1 .. 4 : subject = <<"threshold", Aggregates[p]>>
    BY <1>6, AggregatesAre
  <2>2. ASSUME NEW q \in DOMAIN items, items[q].subject = subject PROVE q = p
    <3>1. CASE q \in 1 .. 4
      <4>1. <<"threshold", Aggregates[q]>> = <<"threshold", Aggregates[p]>>
        BY <1>5, <2>1, <2>2, <3>1
      <4> QED BY <3>1, <4>1, AggregatesAre
    <3>2. CASE q - 4 \in 1 .. m /\ q = (q - 4) + 4
      <4>1. items[q].subject = <<"service", cur.services[q - 4].name>>
        BY <1>5, <3>2
      <4> QED BY <2>1, <2>2, <4>1
    <3>3. CASE q = m + 5
      BY <1>5, <2>1, <2>2, <3>3
    <3> QED BY <1>3, <1>4, <3>1, <3>2, <3>3
  <2>3. ASSUME NEW snap PROVE Says(snap, subject) = {snap.status[p]} \ {Absent}
    <3>1. {j \in DOMAIN Aggregates : Aggregates[j] = Aggregates[p]} = {p}
      BY AggregatesAre
    <3>2. Says(snap, subject) =
            {snap.status[i] : i \in {j \in DOMAIN Aggregates : Aggregates[j] = Aggregates[p]}} \ {Absent}
      BY <2>1 DEF Says
    <3> QED BY <3>1, <3>2
  <2>4. cur.status[p] # Absent
    BY <1>1, StatusesAre DEF Absent
  <2>5. items[p].to = cur.status[p] /\ items[p].from = prev.status[p]
    BY <1>3
  <2>6. items[p].subject = subject /\ p \in DOMAIN items
    BY <1>5, <2>1
  <2>7. Says(cur, subject) = {items[p].to}
    <3>1. Says(cur, subject) = {cur.status[p]} \ {Absent}
      BY <2>3
    <3> QED BY <2>4, <2>5, <3>1
  <2>8. Says(prev, subject) = IF items[p].from = Absent THEN {} ELSE {items[p].from}
    <3>1. Says(prev, subject) = {prev.status[p]} \ {Absent}
      BY <2>3
    <3> QED BY <2>5, <3>1
  <2>9. ComparedOnce(subject, items)
    BY <2>2, <2>6, <2>7, <2>8 DEF ComparedOnce
  <2> QED BY <2>9 DEF items
<1>7. CASE subject \in {<<"service", cur.services[i].name>> : i \in DOMAIN cur.services}
  <2>1. PICK i \in 1 .. m : subject = <<"service", cur.services[i].name>>
    BY <1>2, <1>7
  <2> DEFINE name == cur.services[i].name
             p == i + 4
  <2>2. i \in EntriesOf(cur, subject)
    BY <1>2, <2>1 DEF EntriesOf
  <2>3. EntriesOf(cur, subject) = {i}
    BY <2>2
  <2>4. ASSUME NEW q \in DOMAIN items, items[q].subject = subject PROVE q = p
    <3>1. q - 4 \in 1 .. m /\ q = (q - 4) + 4
      BY <1>3, <1>4, <1>5, <2>1, <2>4
    <3>2. q - 4 \in EntriesOf(cur, subject)
      BY <1>2, <1>5, <2>4, <3>1 DEF EntriesOf
    <3> QED BY <2>3, <3>1, <3>2
  <2>5. Says(cur, subject) = {cur.services[i].state}
    <3>1. Says(cur, subject) = {cur.services[j].state : j \in EntriesOf(cur, subject)}
      BY <2>1 DEF Says
    <3> QED BY <2>3, <3>1
  <2>6. Says(prev, subject)
           = IF PrevState(prev, name) = Absent THEN {} ELSE {PrevState(prev, name)}
    BY <1>1, <2>1, PrevStateIs
  <2>7. items[p].to = cur.services[i].state /\ items[p].from = PrevState(prev, name)
    <3>1. items[i + 4] = [subject |-> <<"service", name>>, from |-> PrevState(prev, name),
                          to |-> cur.services[i].state]
      BY <1>3
    <3> HIDE DEF name
    <3> QED BY <3>1
  <2>8. items[p].subject = subject /\ p \in DOMAIN items
    BY <1>5, <2>1
  <2> HIDE DEF p, name
  <2> QED BY <2>4, <2>5, <2>6, <2>7, <2>8 DEF ComparedOnce, items
<1>8. CASE subject = <<"collector", "collector">>
  <2>1. ASSUME NEW q \in DOMAIN items, items[q].subject = subject PROVE q = m + 5
    <3>1. CASE q \in 1 .. 4
      BY <1>5, <1>8, <2>1, <3>1
    <3>2. CASE q - 4 \in 1 .. m /\ q = (q - 4) + 4
      <4>1. items[q].subject = <<"service", cur.services[q - 4].name>>
        BY <1>5, <3>2
      <4> QED BY <1>8, <2>1, <4>1
    <3> QED BY <1>3, <1>4, <3>1, <3>2
  <2>2. \A snap : Says(snap, subject) = {snap.errors}
    BY <1>8 DEF Says
  <2>3. prev.errors # Absent
    BY <1>1 DEF Known, Absent
  <2>4. items[m + 5].to = cur.errors /\ items[m + 5].from = prev.errors
    BY <1>3
  <2>5. items[m + 5].subject = subject /\ m + 5 \in DOMAIN items
    BY <1>5, <1>8
  <2>6. Says(cur, subject) = {items[m + 5].to} /\ Says(prev, subject) = {items[m + 5].from}
    BY <2>2, <2>4
  <2>7. items[m + 5].from # Absent
    BY <2>3, <2>4
  <2>8. ComparedOnce(subject, items)
    BY <2>1, <2>5, <2>6, <2>7 DEF ComparedOnce
  <2> QED BY <2>8 DEF items
<1> QED BY <1>6, <1>7, <1>8 DEF Subjects

\* Nothing else is compared.
LEMMA OnlySubjectsCompared ==
  ASSUME Collected, NEW p \in DOMAIN Compared(prev, cur)
  PROVE  Compared(prev, cur)[p].subject \in Subjects(cur)
<1> DEFINE items == Compared(prev, cur)
<1>1. PICK m \in Nat : cur.services \in [1 .. m -> Entry]
  BY BothKnown DEF Known
<1>2. /\ DOMAIN items = 1 .. m + 5
      /\ \A i \in 1 .. 4 : items[i].subject = <<"threshold", Aggregates[i]>>
      /\ \A i \in 1 .. m : items[i + 4].subject = <<"service", cur.services[i].name>>
      /\ items[m + 5].subject = <<"collector", "collector">>
  <2>1. DOMAIN cur.services = 1 .. m
    BY <1>1
  <2>2. /\ \E Item : items \in [1 .. m + 5 -> Item]
        /\ \A i \in 1 .. 4 :
             items[i] = [subject |-> <<"threshold", Aggregates[i]>>,
                         from |-> prev.status[i], to |-> cur.status[i]]
        /\ \A i \in 1 .. m :
             items[i + 4] = [subject |-> <<"service", cur.services[i].name>>,
                             from |-> PrevState(prev, cur.services[i].name),
                             to |-> cur.services[i].state]
        /\ items[m + 5] = [subject |-> <<"collector", "collector">>,
                           from |-> prev.errors, to |-> cur.errors]
    BY <2>1, ComparedIs
  <2> HIDE DEF items
  <2>3. \A i \in 1 .. m : items[i + 4].subject = <<"service", cur.services[i].name>>
    <3> TAKE i \in 1 .. m
    <3> DEFINE name == cur.services[i].name
    <3>1. items[i + 4] = [subject |-> <<"service", name>>, from |-> PrevState(prev, name),
                          to |-> cur.services[i].state]
      BY <2>2
    <3> HIDE DEF name
    <3>2. items[i + 4].subject = <<"service", name>>
      BY <3>1
    <3> QED BY <3>2 DEF name
  <2>4. items[m + 5].subject = <<"collector", "collector">>
    BY <2>2
  <2>5. \A i \in 1 .. 4 : items[i].subject = <<"threshold", Aggregates[i]>>
    BY <2>2
  <2> QED BY <2>2, <2>3, <2>4, <2>5
<1> HIDE DEF items
<1>3. p \in 1 .. 4 \/ (p - 4 \in 1 .. m /\ p = (p - 4) + 4) \/ p = m + 5
  BY <1>2 DEF items
<1>4. items[p].subject \in Subjects(cur)
  BY <1>1, <1>2, <1>3, AggregatesAre DEF Subjects
<1> QED BY <1>4 DEF items

\* FeedFaithful for all readings and lists of services: the feed that Sampler and
\* EventFeed build on reports each difference between two collections, once.
THEOREM FeedAlwaysFaithful == Spec => []FeedFaithful
<1>1. Collected => FeedFaithful
  <2> SUFFICES ASSUME Collected PROVE FeedFaithful
    OBVIOUS
  <2> DEFINE items == Compared(prev, cur)
             events == EmitEvents(prev, cur)
             Changed(p) == items[p].from # Absent /\ items[p].from # items[p].to
  <2>1. PICK m \in Nat : cur.services \in [1 .. m -> Entry]
    BY BothKnown DEF Known
  <2>2. PICK Item : items \in [1 .. m + 5 -> Item]
    BY <2>1, ComparedIs, DOMAIN cur.services = 1 .. m
  <2>3. events \in Seq(Item) /\ Kept(events, items, m + 5)
    <3>1. events = FoldLeft(AppendChange, <<>>, items)
      BY DEF EmitEvents
    <3> HIDE DEF items, events
    <3> QED BY <2>2, <3>1, ChangesKept, m + 5 \in Nat
  <2>4. DOMAIN events = 1 .. Len(events) /\ Len(events) \in Nat /\ DOMAIN items = 1 .. m + 5
    <3> HIDE DEF items, events
    <3> QED BY <2>2, <2>3
  <2> HIDE DEF items, events
  <2>5. PICK at \in [1 .. Len(events) -> 1 .. m + 5] :
          /\ \A i \in 1 .. Len(events) : events[i] = items[at[i]]
          /\ \A i \in 1 .. Len(events) : Changed(at[i])
          /\ \A i, j \in 1 .. Len(events) : i < j => at[i] < at[j]
          /\ \A p \in 1 .. m + 5 : Changed(p) => \E i \in 1 .. Len(events) : at[i] = p
    BY <2>3 DEF Kept
  <2>6. \A i \in DOMAIN events : events[i].subject \in Subjects(cur)
    BY <2>4, <2>5, OnlySubjectsCompared DEF items
  <2>7. ASSUME NEW subject \in Subjects(cur),
               \A snap \in {prev, cur} : \A i, j \in EntriesOf(snap, subject) : i = j
        PROVE  /\ \A i, j \in EventsOf(subject, events) : i = j
               /\ {<<events[i].from, events[i].to>> : i \in EventsOf(subject, events)}
                    = {ends \in Says(prev, subject) \X Says(cur, subject) : ends[1] # ends[2]}
    <3>1. PICK p \in DOMAIN items :
            /\ items[p].subject = subject
            /\ \A q \in DOMAIN items : items[q].subject = subject => q = p
            /\ Says(cur, subject) = {items[p].to}
            /\ Says(prev, subject) = IF items[p].from = Absent THEN {} ELSE {items[p].from}
      BY <2>7, SubjectsCompared DEF ComparedOnce, items
    <3>2. \A i \in EventsOf(subject, events) : i \in 1 .. Len(events) /\ at[i] = p
      BY <2>4, <2>5, <3>1 DEF EventsOf
    <3>3. ASSUME NEW i \in EventsOf(subject, events), NEW j \in EventsOf(subject, events)
          PROVE  i = j
      <4>1. i \in 1 .. Len(events) /\ j \in 1 .. Len(events) /\ at[i] = p /\ at[j] = p
        BY <3>2
      <4>2. ~(i < j) /\ ~(j < i)
        BY <2>4, <2>5, <4>1
      <4> QED BY <2>4, <4>1, <4>2
    <3> DEFINE shown == {<<events[i].from, events[i].to>> : i \in EventsOf(subject, events)}
               different == {ends \in Says(prev, subject) \X Says(cur, subject) : ends[1] # ends[2]}
    <3>4. CASE Changed(p)
      <4>1. PICK i \in 1 .. Len(events) : at[i] = p
        BY <2>4, <2>5, <3>1, <3>4
      <4>2. i \in EventsOf(subject, events) /\ events[i] = items[p]
        BY <2>4, <2>5, <3>1, <4>1 DEF EventsOf
      <4>3. EventsOf(subject, events) = {i}
        BY <3>3, <4>2
      <4>4. shown = {<<items[p].from, items[p].to>>}
        BY <4>2, <4>3
      <4>5. different = {<<items[p].from, items[p].to>>}
        BY <3>1, <3>4
      <4> QED BY <3>3, <4>4, <4>5
    <3>5. CASE ~Changed(p)
      <4>1. EventsOf(subject, events) = {}
        BY <2>5, <3>2, <3>5
      <4>2. shown = {}
        BY <4>1
      <4>3. different = {}
        BY <3>1, <3>5
      <4> QED BY <3>3, <4>2, <4>3
    <3> QED BY <3>4, <3>5
  <2> QED BY <2>6, <2>7 DEF FeedFaithful, events
<1> QED BY <1>1, CollectedInv, PTL
=============================================================================
