------------------------ MODULE ClusterTables_proofs ------------------------
(* Proofs about ClusterTables for every number of slaves, every table size,  *)
(* queue length and packet size.                                             *)
EXTENDS ClusterTables, FiniteSetTheorems, SequenceTheorems, TLAPS

-----------------------------------------------------------------------------
(* Cells, counters and the queue.                                            *)

\* A cell is of one of the three kinds, and is a pair of its kind and a number.
LEMMA CellsByKind ==
  /\ \A k \in Kind : Cell(k) \subseteq Cells
  /\ \A c \in Cells : /\ c[1] \in Kind
                      /\ c \in Cell(c[1])
                      /\ c[2] \in Nat
                      /\ c = <<c[1], c[2]>>
BY LastIdType DEF Cells, Cell, Id

\* The cells of a kind are finitely many, so that the counters count.
LEMMA CellFinite ==
  ASSUME NEW k \in Kind
  PROVE  IsFiniteSet(Cell(k)) /\ Cardinality(Cell(k)) = LastId[k]
<1> DEFINE f == [i \in Id(k) |-> <<k, i>>]
<1>1. LastId[k] \in Nat \ {0}
  BY LastIdType
<1>2. IsFiniteSet(Id(k)) /\ Cardinality(Id(k)) = LastId[k]
  BY <1>1, FS_Interval, SMTT(20) DEF Id
<1>3. f \in Bijection(Id(k), Cell(k))
  BY DEF Bijection, Injection, Surjection, IsInjective, Cell
<1> QED
  BY <1>2, <1>3, FS_Bijection DEF ExistsBijection

\* A slave's tables keep a finite number of undefined entries, whatever they hold.
LEMMA UndefCountType ==
  ASSUME NEW r, NEW k \in Kind
  PROVE  /\ UndefCount(r, k) \in Nat
         /\ UndefCount(r, k) = 0 <=> \A c \in Cell(k) : r[c] # Undef
<1> DEFINE U == {c \in Cell(k) : r[c] = Undef}
<1>1. IsFiniteSet(U)
  BY CellFinite, FS_Subset
<1> QED
  BY <1>1, FS_CardinalityType, FS_EmptySet DEF UndefCount

\* What recv_session and its siblings subtract is what they define.
LEMMA UndefCountDrops ==
  ASSUME NEW k \in Kind, NEW r, NEW vals, NEW new,
         \A c \in Cell(k) : new[c] = IF c \in DOMAIN vals THEN vals[c] ELSE r[c],
         \A c \in DOMAIN vals : vals[c] # Undef
  PROVE  /\ Cardinality(Defined(r, vals, k)) \in Nat
         /\ UndefCount(new, k) = UndefCount(r, k) - Cardinality(Defined(r, vals, k))
<1> DEFINE U == {c \in Cell(k) : r[c] = Undef}
           V == {c \in Cell(k) : new[c] = Undef}
           D == Defined(r, vals, k)
<1>1. IsFiniteSet(U) /\ IsFiniteSet(V) /\ IsFiniteSet(D)
  BY CellFinite, FS_Subset DEF Defined
<1>2. V \cap D = {} /\ V \cup D = U
  BY DEF Defined
<1>3. Cardinality(U) = Cardinality(V) + Cardinality(D) - Cardinality(V \cap D)
  BY <1>1, <1>2, FS_Union
<1>4. Cardinality(V \cap D) = 0
  BY <1>2, FS_EmptySet
<1>5. Cardinality(V) \in Nat /\ Cardinality(D) \in Nat
  BY <1>1, FS_CardinalityType
<1> HIDE DEF U, V, D
<1>6. Cardinality(V) = Cardinality(U) - Cardinality(D)
  BY <1>3, <1>4, <1>5
<1> QED
  BY <1>5, <1>6 DEF U, V, D, UndefCount

\* type_changed keeps every cell that was queued and adds the one that changed.
LEMMA RequeuedCells ==
  ASSUME queue \in Seq(Cells), NEW c \in Cells
  PROVE  /\ Requeued(c) \in Seq(Cells)
         /\ \A d \in Cells : Contains(Requeued(c), d) <=> Contains(queue, d) \/ d = c
<1>1. CASE ~Contains(queue, c)
  <2>1. Requeued(c) = Append(queue, c)
    BY <1>1 DEF Requeued
  <2>2. /\ Append(queue, c) \in Seq(Cells)
        /\ Len(Append(queue, c)) = Len(queue) + 1
        /\ \A j \in 1 .. Len(queue) : Append(queue, c)[j] = queue[j]
        /\ Append(queue, c)[Len(queue) + 1] = c
        /\ Len(queue) \in Nat
    OBVIOUS
  <2>3. \A d : Contains(Append(queue, c), d) <=> Contains(queue, d) \/ d = c
    BY <2>2 DEF Contains
  <2> QED
    BY <2>1, <2>2, <2>3
<1>2. CASE Contains(queue, c)
  <2> DEFINE i == Slot(c)
             r == RemoveAt(queue, i)
  <2>1. i \in 1 .. Len(queue) /\ queue[i] = c
    BY <1>2 DEF Slot, Contains
  <2> HIDE DEF i
  <2>2. /\ r \in Seq(Cells)
        /\ Len(r) = Len(queue) - 1
        /\ \A j \in 1 .. Len(r) : r[j] = IF j < i THEN queue[j] ELSE queue[j + 1]
    <3> DEFINE a == SubSeq(queue, 1, i - 1)
               b == SubSeq(queue, i + 1, Len(queue))
    <3>1. Len(queue) \in Nat
      OBVIOUS
    <3>2. /\ a \in Seq(Cells)
          /\ Len(a) = i - 1
          /\ \A j \in 1 .. i - 1 : a[j] = queue[j]
      BY <2>1, <3>1
    <3>3. /\ b \in Seq(Cells)
          /\ Len(b) = Len(queue) - i
          /\ \A j \in 1 .. Len(queue) - i : b[j] = queue[i + j]
      BY <2>1, <3>1
    <3> HIDE DEF a, b
    <3>4. /\ a \o b \in Seq(Cells)
          /\ Len(a \o b) = Len(queue) - 1
          /\ \A j \in 1 .. Len(queue) - 1 :
               (a \o b)[j] = IF j <= i - 1 THEN a[j] ELSE b[j - (i - 1)]
      <4>1. Len(a) + Len(b) = Len(queue) - 1
        BY <2>1, <3>1, <3>2, <3>3
      <4> QED
        BY <4>1, <3>2, <3>3, ConcatProperties
    <3>5. r = a \o b
      BY DEF RemoveAt, a, b
    <3> HIDE DEF r
    <3>6. ASSUME NEW j \in 1 .. Len(queue) - 1
          PROVE  r[j] = IF j < i THEN queue[j] ELSE queue[j + 1]
      <4>1. CASE j < i
        BY <4>1, <2>1, <3>1, <3>2, <3>4, <3>5
      <4>2. CASE j >= i
        <5>1. j - (i - 1) \in 1 .. Len(queue) - i /\ i + (j - (i - 1)) = j + 1
          BY <4>2, <2>1, <3>1
        <5>2. ~(j <= i - 1)
          BY <4>2, <2>1, <3>1
        <5>3. (a \o b)[j] = b[j - (i - 1)]
          BY <5>2, <3>4, Zenon
        <5>4. r[j] = b[j - (i - 1)]
          BY <5>3, <3>5, Zenon
        <5>5. b[j - (i - 1)] = queue[i + (j - (i - 1))]
          BY <5>1, <3>3
        <5> QED
          BY <5>1, <5>4, <5>5, <4>2, <2>1
      <4> QED
        BY <4>1, <4>2, <2>1, <3>1
    <3> QED
      BY <3>4, <3>5, <3>6
  <2> HIDE DEF r
  <2>3. Requeued(c) = Append(r, c)
    BY <1>2 DEF Requeued, r, i
  <2>4. ASSUME NEW d \in Cells, d # c, Contains(queue, d)
        PROVE  Contains(r, d)
    <3>1. PICK j \in 1 .. Len(queue) : queue[j] = d
      BY <2>4 DEF Contains
    <3>2. j # i
      BY <3>1, <2>1, <2>4
    <3>3. CASE j < i
      BY <3>1, <3>3, <2>1, <2>2 DEF Contains
    <3>4. CASE j > i
      <4>1. j - 1 \in 1 .. Len(r) /\ r[j - 1] = queue[j]
        BY <3>1, <3>4, <2>1, <2>2
      <4> QED
        BY <4>1, <3>1 DEF Contains
    <3> QED
      BY <3>1, <3>2, <3>3, <3>4, <2>1
  <2>5. ASSUME NEW d \in Cells, Contains(r, d)
        PROVE  Contains(queue, d)
    BY <2>5, <2>1, <2>2 DEF Contains
  <2>6. \A d : Contains(Append(r, c), d) <=> Contains(r, d) \/ d = c
    BY <2>2 DEF Contains
  <2>7. Append(r, c) \in Seq(Cells)
    BY <2>2
  <2> QED
    BY <2>3, <2>4, <2>5, <2>6, <2>7, <1>2
<1> QED
  BY <1>1, <1>2

-----------------------------------------------------------------------------
(* The heartbeat a master builds.                                            *)

\* The number of steps of a walk is a number.
LEMMA StepsType ==
  ASSUME NEW k \in Kind, NEW p \in Nat, NEW h \in Nat
  PROVE  Steps(k, p, h) \in 0 .. h /\ EntriesSize(k, Steps(k, p, h)) \in Nat
<1> DEFINE e == EntryHeader + PackedSize[k]
           room == MAX_HEART_SIZE - Reserve(k) - p
           fit == (room + e - 1) \div e
<1>1. e \in Nat /\ e > 0
  BY PacketSizes
<1>2. room \in Int
  BY PacketSizes DEF Reserve
<1> HIDE DEF e, room
<1>3. ASSUME room > 0 PROVE fit \in Nat
  BY <1>1, <1>2, <1>3
<1> HIDE DEF fit
<1>4. Steps(k, p, h) \in 0 .. h
  <2>1. Steps(k, p, h) = IF room <= 0 THEN 0 ELSE IF fit < h THEN fit ELSE h
    BY DEF Steps, room, e, fit
  <2> QED
    BY <2>1, <1>2, <1>3
<1> DEFINE n == Steps(k, p, h)
<1>5. EntriesSize(k, n) = n * e
  BY DEF EntriesSize, e
<1>6. n \in Nat
  BY <1>4
<1> HIDE DEF n
<1>7. n * e \in Nat
  BY <1>1, <1>6
<1> QED
  BY <1>4, <1>5, <1>7 DEF n

\* The offset behind the queued changes is a number.
LEMMA QueueEndType == ASSUME NEW q PROVE QueueEnd(q) \in Nat
<1>1. ASSUME NEW k \in Kind
      PROVE  EntriesSize(k, Cardinality(QueueCells(q, k))) \in Nat
  <2>1. Cardinality(QueueCells(q, k)) \in Nat
    BY CellFinite, FS_Subset, FS_CardinalityType DEF QueueCells
  <2>2. EntryHeader + PackedSize[k] \in Nat
    BY PacketSizes
  <2> QED
    BY <2>1, <2>2 DEF EntriesSize
<1>2. HeaderSize \in Nat
  BY PacketSizes
<1> QED
  BY <1>1, <1>2 DEF QueueEnd, Kind

\* So is the number of steps of each of the three walks.
LEMMA WalkStepsType ==
  ASSUME NEW q, NEW h \in [Kind -> Nat], NEW k \in Kind
  PROVE  WalkSteps(q, h)[k] \in 0 .. h[k]
<1> DEFINE p0 == QueueEnd(q)
           ns == Steps("sess", p0, h["sess"])
           p1 == p0 + EntriesSize("sess", ns)
           nt == Steps("tunn", p1, h["tunn"])
           p2 == p1 + EntriesSize("tunn", nt)
           nb == Steps("bund", p2, h["bund"])
<1>1. WalkSteps(q, h) =
        [j \in Kind |-> CASE j = "sess" -> ns [] j = "tunn" -> nt [] j = "bund" -> nb]
  BY DEF WalkSteps
<1>2. p0 \in Nat
  BY QueueEndType
<1> HIDE DEF p0
<1>3. ns \in 0 .. h["sess"] /\ EntriesSize("sess", ns) \in Nat
  BY <1>2, StepsType DEF Kind
<1> HIDE DEF ns
<1>4. p1 \in Nat
  BY <1>2, <1>3
<1> HIDE DEF p1
<1>5. nt \in 0 .. h["tunn"] /\ EntriesSize("tunn", nt) \in Nat
  BY <1>4, StepsType DEF Kind
<1> HIDE DEF nt
<1>6. p2 \in Nat
  BY <1>4, <1>5
<1> HIDE DEF p2
<1>7. nb \in 0 .. h["bund"]
  BY <1>6, StepsType DEF Kind
<1> HIDE DEF nb
<1> QED
  BY <1>1, <1>3, <1>5, <1>7 DEF Kind

\* The walk never lands on entry 0, even when it starts above the highest id.
LEMMA NthType ==
  ASSUME NEW w \in Nat \ {0}, NEW h \in Nat, NEW n \in 0 .. h
  PROVE  Nth(w, h, n) \in Nat \ {0}
<1>1. CASE n = 0
  BY <1>1 DEF Nth
<1>2. CASE n > 0 /\ w <= h
  <2>1. (w - 1 + n) % h \in Nat
    BY <1>2
  <2> QED
    BY <1>2, <2>1 DEF Nth
<1>3. CASE n > 0 /\ w > h
  <2>1. NextId(w, h) \in Nat \ {0}
    <3>1. (w + 1) % (h + 1) \in Nat
      OBVIOUS
    <3> QED
      BY <3>1 DEF NextId
  <2>2. (NextId(w, h) - 2 + n) % h \in Nat
    BY <2>1, <1>3
  <2> QED
    BY <1>3, <2>2 DEF Nth
<1> QED
  BY <1>1, <1>2, <1>3

\* A heartbeat carries cells, and every queued one.
LEMMA SentCellsFacts ==
  ASSUME NEW q, NEW h
  PROVE  /\ SentCells(q, h) \subseteq Cells
         /\ \A c \in Cells : Contains(q, c) => c \in SentCells(q, h)
<1>1. SentCells(q, h) \subseteq Cells
  BY CellsByKind DEF SentCells, QueueCells, WalkCells
<1>2. ASSUME NEW c \in Cells, Contains(q, c)
      PROVE  c \in SentCells(q, h)
  <2>1. c[1] \in Kind /\ c \in QueueCells(q, c[1])
    BY <1>2, CellsByKind DEF QueueCells
  <2> QED
    BY <2>1 DEF SentCells
<1> QED
  BY <1>1, <1>2

\* What cluster_heartbeat builds is a heartbeat.
LEMMA BuiltType ==
  ASSUME NEW t \in [Cells -> Value], NEW h \in [Kind -> Nat], NEW q \in Seq(Cells)
  PROVE  /\ Built(t, h, q) \in Heartbeat
         /\ Built(t, h, q).high = h
         /\ DOMAIN Built(t, h, q).vals = SentCells(q, h)
         /\ \A c \in SentCells(q, h) : Built(t, h, q).vals[c] = t[c]
<1> DEFINE C == SentCells(q, h)
           f == [c \in C |-> t[c]]
<1>1. C \in SUBSET Cells
  BY SentCellsFacts
<1> HIDE DEF C
<1>2. f \in [C -> Value]
  BY <1>1
<1>3. f \in UNION {[D -> Value] : D \in SUBSET Cells}
  BY <1>1, <1>2
<1>4. Len(q) \in Nat
  OBVIOUS
<1>5. Built(t, h, q) = [high |-> h, changes |-> Len(q), vals |-> f]
  BY DEF Built, C
<1> HIDE DEF f
<1>6. Built(t, h, q) \in Heartbeat
  BY <1>3, <1>4, <1>5 DEF Heartbeat
<1>7. DOMAIN f = C /\ \A c \in C : f[c] = t[c]
  BY DEF f
<1> QED
  BY <1>5, <1>6, <1>7 DEF C

-----------------------------------------------------------------------------
(* Types and counters.                                                       *)

\* Raising the highest ids keeps their type.
LEMMA RaisedType ==
  ASSUME TypeOK, NEW c \in Cells, NEW v \in Value
  PROVE  Raised(c, v) \in [Kind -> Nat]
BY CellsByKind DEF TypeOK, Raised

\* Publishing keeps the types of the queue, the walks and the inboxes.
LEMMA PublishType ==
  ASSUME TypeOK, NEW t \in [Cells -> Value], NEW h \in [Kind -> Nat],
         NEW q \in Seq(Cells), NEW u \in SUBSET Cells, Publish(t, h, q, u)
  PROVE  /\ inbox' \in [Slave -> Seq(Heartbeat)]
         /\ queue' \in Seq(Cells)
         /\ walk' \in [Kind -> Nat \ {0}]
         /\ silent' \subseteq Cells
<1>1. inbox' \in [Slave -> Seq(Heartbeat)]
  <2>1. Built(t, h, q) \in Heartbeat
    BY BuiltType
  <2> QED
    BY <2>1 DEF Publish, TypeOK
<1>2. walk' \in [Kind -> Nat \ {0}]
  <2>1. ASSUME NEW k \in Kind
        PROVE  Nth(walk[k], h[k], WalkSteps(q, h)[k]) \in Nat \ {0}
    BY WalkStepsType, NthType DEF TypeOK
  <2> QED
    BY <2>1 DEF Publish
<1> QED
  BY <1>1, <1>2 DEF Publish

\* The counters are right at the start.
LEMMA InitCounters == Init => CountersInv
<1> SUFFICES ASSUME Init PROVE CountersInv
  OBVIOUS
<1>1. TypeOK
  BY LastIdType, CellsByKind DEF Init, TypeOK, Value
<1>2. UndefExact
  <2> SUFFICES ASSUME NEW s \in Slave, NEW k \in Kind
               PROVE  undef[s][k] = UndefCount(replica[s], k)
    BY DEF UndefExact
  <2>1. {c \in Cell(k) : replica[s][c] = Undef} = Cell(k)
    BY CellsByKind DEF Init
  <2> QED
    BY <2>1, CellFinite DEF Init, UndefCount
<1>3. UptodateZero
  BY DEF Init, UptodateZero
<1> QED
  BY <1>1, <1>2, <1>3 DEF CountersInv

\* What one heartbeat leaves in the tables and counters of the slave that applies it.
LEMMA ApplyFacts ==
  ASSUME CountersInv, NEW s \in Slave, Apply(s),
         NEW hb, hb = Head(inbox[s]),
         NEW r, r = IF NeedsRecount(s, hb.high) THEN Cleared(replica[s], hb.high) ELSE replica[s]
  PROVE  /\ hb \in Heartbeat
         /\ r \in [Cells -> Value \cup {Undef}]
         /\ replica'[s] = [c \in Cells |-> IF c \in DOMAIN hb.vals THEN hb.vals[c] ELSE r[c]]
         /\ replica'[s] \in [Cells -> Value \cup {Undef}]
         /\ \A k \in Kind : undef'[s][k] = UndefCount(replica'[s], k)
         /\ undef'[s] \in [Kind -> Int]
         /\ uptodate'[s] \in BOOLEAN
         /\ uptodate'[s] => AllDefined(undef'[s])
<1> DEFINE recount == NeedsRecount(s, hb.high)
           n == IF recount THEN [k \in Kind |-> UndefCount(r, k)] ELSE undef[s]
           m == IF uptodate[s] \/ (recount /\ AllDefined(n))
                THEN n
                ELSE [k \in Kind |-> n[k] - Cardinality(Defined(r, hb.vals, k))]
           new == [c \in Cells |-> IF c \in DOMAIN hb.vals THEN hb.vals[c] ELSE r[c]]
<1>1. TypeOK /\ UndefExact /\ UptodateZero
  BY DEF CountersInv
<1>2. hb \in Heartbeat
  BY <1>1 DEF TypeOK, Apply
<1>3. /\ hb.high \in [Kind -> Nat]
      /\ \A c \in DOMAIN hb.vals : c \in Cells /\ hb.vals[c] \in Value
      /\ \A c \in DOMAIN hb.vals : hb.vals[c] # Undef
  BY <1>2, ValuesDistinct DEF Heartbeat
<1>4. r \in [Cells -> Value \cup {Undef}]
  BY <1>1 DEF TypeOK, Cleared, Value
<1>5. new \in [Cells -> Value \cup {Undef}]
  BY <1>3, <1>4
<1>6. /\ replica'[s] = new
      /\ undef'[s] = m
      /\ uptodate'[s] = \/ uptodate[s]
                        \/ recount /\ AllDefined(n)
                        \/ DOMAIN hb.vals # {} /\ AllDefined(m)
  BY <1>1 DEF Apply, TypeOK
<1>7. ASSUME NEW k \in Kind
      PROVE  n[k] = UndefCount(r, k) /\ n[k] \in Nat
  BY <1>1, UndefCountType DEF UndefExact
<1>8. ASSUME NEW k \in Kind
      PROVE  /\ Cardinality(Defined(r, hb.vals, k)) \in Nat
             /\ UndefCount(new, k) = n[k] - Cardinality(Defined(r, hb.vals, k))
  BY <1>3, <1>7, CellsByKind, UndefCountDrops
<1>9. ASSUME uptodate[s] \/ (recount /\ AllDefined(n)), NEW k \in Kind
      PROVE  n[k] = 0 /\ Cardinality(Defined(r, hb.vals, k)) = 0
  <2>1. n[k] = 0
    BY <1>1, <1>9 DEF UptodateZero, AllDefined, NeedsRecount
  <2>2. Cardinality(Defined(r, hb.vals, k)) = 0
    <3>1. \A c \in Cell(k) : r[c] # Undef
      BY <2>1, <1>7, UndefCountType
    <3>2. Defined(r, hb.vals, k) = {}
      BY <3>1 DEF Defined
    <3> QED
      BY <3>2, FS_EmptySet
  <2> QED
    BY <2>1, <2>2
<1>10. ASSUME NEW k \in Kind
       PROVE  m[k] = UndefCount(new, k) /\ m[k] \in Int
  <2>1. CASE uptodate[s] \/ (recount /\ AllDefined(n))
    BY <2>1, <1>7, <1>8, <1>9
  <2>2. CASE ~(uptodate[s] \/ (recount /\ AllDefined(n)))
    BY <2>2, <1>7, <1>8
  <2> QED
    BY <2>1, <2>2
<1>11. m \in [Kind -> Int]
  <2>1. n \in [Kind -> Int]
    BY <1>1, <1>7 DEF TypeOK
  <2> QED
    BY <2>1, <1>10
<1>12. uptodate'[s] => AllDefined(m)
  BY <1>6, <1>9 DEF AllDefined
<1>13. uptodate'[s] \in BOOLEAN
  BY <1>1, <1>6 DEF TypeOK
<1> QED
  BY <1>2, <1>4, <1>5, <1>6, <1>10, <1>11, <1>12, <1>13

\* A change keeps the types.
LEMMA ChangeType ==
  ASSUME TypeOK, NEW c \in Cells, NEW v \in Value, Change(c, v)
  PROVE  TypeOK'
<1> DEFINE t == [table EXCEPT ![c] = v]
           h == Raised(c, v)
           q == Requeued(c)
           u == silent \ {c}
<1>1. t \in [Cells -> Value] /\ h \in [Kind -> Nat] /\ u \subseteq Cells
  BY RaisedType DEF TypeOK
<1>2. q \in Seq(Cells)
  BY RequeuedCells DEF TypeOK
<1>3. table' = t /\ high' = h /\ UNCHANGED slaveVars
  BY DEF Change
<1>4. CASE Len(q) > MAX_CHANGES
  <2>1. Publish(t, h, q, u)
    BY <1>4 DEF Change
  <2> HIDE DEF t, h, q, u
  <2> QED
    BY <1>1, <1>2, <1>3, <2>1, PublishType DEF TypeOK, slaveVars
<1>5. CASE ~(Len(q) > MAX_CHANGES)
  <2>1. queue' = q /\ silent' = u /\ UNCHANGED <<walk, inbox>>
    BY <1>5 DEF Change
  <2> HIDE DEF t, h, q, u
  <2> QED
    BY <1>1, <1>2, <1>3, <2>1 DEF TypeOK, slaveVars
<1> QED
  BY <1>4, <1>5

\* Every step keeps the counters right.
LEMMA StepCounters == CountersInv /\ [Next]_vars => CountersInv'
<1> SUFFICES ASSUME CountersInv, [Next]_vars PROVE CountersInv'
  OBVIOUS
<1> USE DEF CountersInv
<1>1. ASSUME TypeOK', UNCHANGED slaveVars
      PROVE  CountersInv'
  BY <1>1 DEF slaveVars, UndefExact, UptodateZero, UndefCount, AllDefined
<1>2. ASSUME NEW c \in Cells, NEW v \in Value, Change(c, v)
      PROVE  CountersInv'
  BY <1>1, <1>2, ChangeType DEF Change
<1>3. ASSUME NEW c \in Cells, NEW v \in Value, Touch(c, v)
      PROVE  CountersInv'
  <2>1. TypeOK'
    BY <1>3, RaisedType DEF Touch, TypeOK, slaveVars
  <2> QED
    BY <1>1, <1>3, <2>1 DEF Touch
<1>4. CASE SendHeartbeat
  <2>1. TypeOK'
    BY <1>4, PublishType DEF SendHeartbeat, TypeOK, slaveVars
  <2> QED
    BY <1>1, <1>4, <2>1 DEF SendHeartbeat
<1>5. ASSUME NEW s \in Slave, Apply(s)
      PROVE  CountersInv'
  <2> DEFINE hb == Head(inbox[s])
             r == IF NeedsRecount(s, hb.high) THEN Cleared(replica[s], hb.high) ELSE replica[s]
  <2>1. /\ replica'[s] \in [Cells -> Value \cup {Undef}]
        /\ \A k \in Kind : undef'[s][k] = UndefCount(replica'[s], k)
        /\ undef'[s] \in [Kind -> Int]
        /\ uptodate'[s] \in BOOLEAN
        /\ uptodate'[s] => AllDefined(undef'[s])
    BY <1>5, ApplyFacts
  <2>2. /\ \A z \in Slave \ {s} : /\ replica'[z] = replica[z]
                                  /\ undef'[z] = undef[z]
                                  /\ uptodate'[z] = uptodate[z]
        /\ DOMAIN replica' = Slave /\ replica' = [z \in Slave |-> replica'[z]]
        /\ undef' = [z \in Slave |-> undef'[z]]
        /\ uptodate' = [z \in Slave |-> uptodate'[z]]
    BY <1>5 DEF Apply, TypeOK
  <2>3. UNCHANGED masterVars /\ inbox' \in [Slave -> Seq(Heartbeat)]
    <3>1. inbox[s] \in Seq(Heartbeat) /\ inbox[s] # <<>>
      BY <1>5 DEF Apply, TypeOK
    <3>2. Tail(inbox[s]) \in Seq(Heartbeat)
      BY <3>1
    <3> QED
      BY <1>5, <3>2 DEF Apply, TypeOK
  <2>4. /\ replica' \in [Slave -> [Cells -> Value \cup {Undef}]]
        /\ undef' \in [Slave -> [Kind -> Int]]
        /\ uptodate' \in [Slave -> BOOLEAN]
    <3>1. ASSUME NEW z \in Slave
          PROVE  /\ replica'[z] \in [Cells -> Value \cup {Undef}]
                 /\ undef'[z] \in [Kind -> Int]
                 /\ uptodate'[z] \in BOOLEAN
      BY <2>1, <2>2 DEF TypeOK
    <3> QED
      BY <2>2, <3>1
  <2>5. TypeOK'
    BY <2>3, <2>4 DEF TypeOK, masterVars
  <2>6. UndefExact'
    BY <2>1, <2>2 DEF UndefExact, UndefCount
  <2>7. UptodateZero'
    BY <2>1, <2>2 DEF UptodateZero, AllDefined
  <2> QED
    BY <2>5, <2>6, <2>7
<1>6. ASSUME NEW s \in Slave, Restart(s)
      PROVE  CountersInv'
  <2>1. TypeOK'
    <3>1. LastId \in [Kind -> Int]
      BY LastIdType
    <3> QED
      BY <1>6, <3>1 DEF Restart, TypeOK, masterVars
  <2>3. UndefExact'
    <3> SUFFICES ASSUME NEW z \in Slave, NEW k \in Kind
                 PROVE  undef'[z][k] = UndefCount(replica'[z], k)
      BY DEF UndefExact, UndefCount
    <3>1. CASE z = s
      <4>1. {c \in Cell(k) : replica'[z][c] = Undef} = Cell(k)
        BY <1>6, <3>1, CellsByKind DEF Restart, TypeOK
      <4> QED
        BY <1>6, <3>1, <4>1, CellFinite DEF Restart, TypeOK, UndefCount
    <3>2. CASE z # s
      BY <1>6, <3>2 DEF Restart, TypeOK, UndefExact
    <3> QED
      BY <3>1, <3>2
  <2>4. UptodateZero'
    BY <1>6 DEF Restart, TypeOK, UptodateZero, AllDefined
  <2> QED
    BY <2>1, <2>3, <2>4
<1>7. CASE UNCHANGED vars
  BY <1>1, <1>7 DEF vars, slaveVars, TypeOK
<1> QED
  BY <1>2, <1>3, <1>4, <1>5, <1>6, <1>7 DEF Next

\* Every state of the program is of the types above.
THEOREM TypeCorrect == Spec => []TypeOK
<1>1. CountersInv => TypeOK
  BY DEF CountersInv
<1> QED
  BY <1>1, InitCounters, StepCounters, PTL DEF Spec

\* The counters of undefined sessions, bundles and tunnels in cluster.c never
\* drift from the tables, through any sequence of heartbeats and restarts.
THEOREM CountersExact == Spec => []UndefExact
<1>1. CountersInv => UndefExact
  BY DEF CountersInv
<1> QED
  BY <1>1, InitCounters, StepCounters, PTL DEF Spec

\* A slave that says it is up to date has no undefined entry.
THEOREM UptodateIsDefined == Spec => []UptodateDefined
<1>1. CountersInv => UptodateDefined
  <2> SUFFICES ASSUME CountersInv, NEW s \in Slave, uptodate[s], NEW c \in Cells
               PROVE  replica[s][c] # Undef
    BY DEF UptodateDefined
  <2>1. c[1] \in Kind /\ c \in Cell(c[1])
    BY CellsByKind
  <2>2. UndefCount(replica[s], c[1]) = 0
    BY <2>1 DEF CountersInv, UptodateZero, AllDefined, UndefExact
  <2> QED
    BY <2>1, <2>2, UndefCountType
<1> QED
  BY <1>1, InitCounters, StepCounters, PTL DEF Spec

-----------------------------------------------------------------------------
(* No change is lost.                                                        *)

\* What a step of the master must respect for the cell d: a change leaves d in
\* the queue q or in the silent cells u.
Tracked(t, q, u, d) == \/ Contains(q, d)
                       \/ d \in u
                       \/ t[d] = table[d] /\ ~Contains(queue, d) /\ d \notin silent

\* Raising the highest ids covers an entry that comes into use.
LEMMA RaisedCovers ==
  ASSUME TypeOK, HighCovers, NEW c \in Cells, NEW v \in Value,
         table' = [table EXCEPT ![c] = v], high' = Raised(c, v)
  PROVE  HighCovers'
<1> SUFFICES ASSUME NEW d \in Cells
             PROVE  table'[d] = Free \/ d[2] <= high'[d[1]]
  BY DEF HighCovers
<1>1. /\ c[1] \in Kind /\ d[1] \in Kind
      /\ c[2] \in Nat /\ d[2] \in Nat
      /\ high \in [Kind -> Nat] /\ table \in [Cells -> Value]
  BY CellsByKind DEF TypeOK
<1>2. high'[d[1]] \in Nat /\ high[d[1]] <= high'[d[1]]
  BY <1>1 DEF Raised
<1>3. CASE d = c
  BY <1>1, <1>3 DEF Raised
<1>4. CASE d # c
  <2>1. table'[d] = table[d]
    BY <1>1, <1>4
  <2> QED
    BY <2>1, <1>1, <1>2 DEF HighCovers
<1> QED
  BY <1>3, <1>4

\* A step of the master that sends nothing.
LEMMA QuietChanges ==
  ASSUME ReplicationInv, UNCHANGED <<inbox, replica>>,
         \A d \in Cells : Tracked(table', queue', silent', d)
  PROVE  ClearedUnused' /\ NoLostChange'
<1> SUFFICES ASSUME NEW s \in Slave, NEW d \in Cells,
                    ~Contains(queue', d), d \notin silent'
             PROVE  /\ SentAfter(s, d, 0)' \/ replica'[s][d] \in {table'[d], Undef}
                    /\ \A n \in DOMAIN inbox'[s] :
                         /\ \/ SentAfter(s, d, n)'
                            \/ d \notin DOMAIN inbox'[s][n].vals
                            \/ inbox'[s][n].vals[d] = table'[d]
                         /\ \/ SentAfter(s, d, n)'
                            \/ d[2] <= inbox'[s][n].high[d[1]]
                            \/ table'[d] = Free
  BY DEF ClearedUnused, NoLostChange
<1>1. table'[d] = table[d] /\ ~Contains(queue, d) /\ d \notin silent
  BY DEF Tracked
<1>2. \A n : SentAfter(s, d, n)' <=> SentAfter(s, d, n)
  BY DEF SentAfter
<1> QED
  BY <1>1, <1>2 DEF ReplicationInv, ClearedUnused, NoLostChange

\* A heartbeat sent to every slave.
LEMMA PublishChanges ==
  ASSUME ReplicationInv, HighCovers',
         NEW t \in [Cells -> Value], NEW h \in [Kind -> Nat], NEW q \in Seq(Cells), NEW u,
         table' = t, high' = h, replica' = replica, Publish(t, h, q, u),
         \A d \in Cells : Tracked(t, q, u, d)
  PROVE  ClearedUnused' /\ NoLostChange'
<1> DEFINE hb == Built(t, h, q)
           C == SentCells(q, h)
<1>1. /\ hb.high = h
      /\ DOMAIN hb.vals = C
      /\ \A c \in C : hb.vals[c] = t[c]
  BY BuiltType
<1>2. /\ inbox' = [s \in Slave |-> Append(inbox[s], hb)]
      /\ silent' = u \ C
      /\ \A c \in Cells : ~Contains(queue', c)
  BY DEF Publish, Contains
<1>3. \A c \in Cells : Contains(q, c) => c \in C
  BY SentCellsFacts
<1> HIDE DEF hb, C
<1> SUFFICES ASSUME NEW s \in Slave, NEW d \in Cells, d \notin silent'
             PROVE  /\ SentAfter(s, d, 0)' \/ replica'[s][d] \in {table'[d], Undef}
                    /\ \A n \in DOMAIN inbox'[s] :
                         /\ \/ SentAfter(s, d, n)'
                            \/ d \notin DOMAIN inbox'[s][n].vals
                            \/ inbox'[s][n].vals[d] = table'[d]
                         /\ \/ SentAfter(s, d, n)'
                            \/ d[2] <= inbox'[s][n].high[d[1]]
                            \/ table'[d] = Free
  BY DEF ClearedUnused, NoLostChange
<1> DEFINE L == Len(inbox[s])
<1>4. L \in Nat /\ inbox[s] \in Seq(Heartbeat) /\ DOMAIN inbox[s] = 1 .. L
  BY DEF ReplicationInv, CountersInv, TypeOK
<1>5. /\ DOMAIN inbox'[s] = 1 .. L + 1
      /\ inbox'[s][L + 1] = hb
      /\ \A n \in 1 .. L : inbox'[s][n] = inbox[s][n]
  BY <1>2, <1>4
<1> HIDE DEF L
<1>6. d[2] <= h[d[1]] \/ t[d] = Free
  BY DEF HighCovers
<1>7. CASE d \in C
  <2>1. ASSUME NEW n \in 0 .. L PROVE SentAfter(s, d, n)'
    <3>1. L + 1 \in DOMAIN inbox'[s] /\ L + 1 > n
      BY <1>4, <1>5
    <3>2. d \in DOMAIN inbox'[s][L + 1].vals
      BY <1>1, <1>5, <1>7
    <3> QED
      BY <3>1, <3>2 DEF SentAfter
  <2>2. \A n \in DOMAIN inbox'[s] : n \in 0 .. L \/ n = L + 1
    BY <1>4, <1>5
  <2>3. 0 \in 0 .. L
    BY <1>4
  <2> QED
    BY <1>1, <1>5, <1>6, <1>7, <2>1, <2>2, <2>3
<1>8. CASE d \notin C
  <2>1. t[d] = table[d] /\ ~Contains(queue, d) /\ d \notin silent
    BY <1>2, <1>3, <1>8 DEF Tracked
  <2>2. \A n : SentAfter(s, d, n) => SentAfter(s, d, n)'
    BY <1>4, <1>5 DEF SentAfter
  <2>3. SentAfter(s, d, 0) \/ replica[s][d] \in {table[d], Undef}
    BY <2>1 DEF ReplicationInv, NoLostChange
  <2>4. ASSUME NEW n \in 1 .. L
        PROVE  /\ \/ SentAfter(s, d, n)
                  \/ d \notin DOMAIN inbox[s][n].vals
                  \/ inbox[s][n].vals[d] = table[d]
               /\ \/ SentAfter(s, d, n)
                  \/ d[2] <= inbox[s][n].high[d[1]]
                  \/ table[d] = Free
    <3>1. n \in DOMAIN inbox[s]
      BY <1>4
    <3>2. \/ SentAfter(s, d, n)
          \/ d \notin DOMAIN inbox[s][n].vals
          \/ inbox[s][n].vals[d] = table[d]
      BY <2>1, <3>1, Zenon DEF ReplicationInv, NoLostChange
    <3>3. \/ SentAfter(s, d, n)
          \/ d[2] <= inbox[s][n].high[d[1]]
          \/ table[d] = Free
      BY <2>1, <3>1, Zenon DEF ReplicationInv, ClearedUnused
    <3> QED
      BY <3>2, <3>3
  <2>5. ASSUME NEW n \in DOMAIN inbox'[s]
        PROVE  /\ \/ SentAfter(s, d, n)'
                  \/ d \notin DOMAIN inbox'[s][n].vals
                  \/ inbox'[s][n].vals[d] = table'[d]
               /\ \/ SentAfter(s, d, n)'
                  \/ d[2] <= inbox'[s][n].high[d[1]]
                  \/ table'[d] = Free
    <3>1. CASE n \in 1 .. L
      BY <3>1, <2>1, <2>2, <2>4, <1>5
    <3>2. CASE n = L + 1
      BY <3>2, <1>1, <1>5, <1>6, <1>8
    <3> QED
      BY <3>1, <3>2, <1>4, <1>5
  <2> QED
    BY <2>1, <2>2, <2>3, <2>5
<1> QED
  BY <1>7, <1>8

\* A slave that applies the next heartbeat, or starts afresh.
LEMMA ApplyChanges ==
  ASSUME ReplicationInv, NEW s \in Slave, Apply(s)
  PROVE  ClearedUnused' /\ NoLostChange'
<1> DEFINE hb == Head(inbox[s])
           r == IF NeedsRecount(s, hb.high) THEN Cleared(replica[s], hb.high) ELSE replica[s]
           L == Len(inbox[s])
<1>1. TypeOK
  BY DEF ReplicationInv, CountersInv
<1>2. replica'[s] = [c \in Cells |-> IF c \in DOMAIN hb.vals THEN hb.vals[c] ELSE r[c]]
  BY ApplyFacts DEF ReplicationInv
<1>3. /\ L \in Nat \ {0}
      /\ DOMAIN inbox[s] = 1 .. L
      /\ inbox[s] \in Seq(Heartbeat)
      /\ hb = inbox[s][1]
  BY <1>1 DEF TypeOK, Apply
<1>4. /\ UNCHANGED masterVars
      /\ inbox'[s] = Tail(inbox[s])
      /\ \A z \in Slave : z # s => inbox'[z] = inbox[z] /\ replica'[z] = replica[z]
  BY <1>1 DEF Apply, TypeOK
<1>5. /\ DOMAIN inbox'[s] = 1 .. L - 1
      /\ \A n \in 1 .. L - 1 : inbox'[s][n] = inbox[s][n + 1]
  BY <1>3, <1>4
<1>6. ASSUME NEW d \in Cells
      PROVE  r[d] = replica[s][d] \/ (d[2] > hb.high[d[1]] /\ replica[s][d] = Undef /\ r[d] = Free)
  BY DEF Cleared
<1> HIDE DEF hb, r, L
<1> SUFFICES ASSUME NEW z \in Slave, NEW d \in Cells,
                    ~Contains(queue', d), d \notin silent'
             PROVE  /\ SentAfter(z, d, 0)' \/ replica'[z][d] \in {table'[d], Undef}
                    /\ \A n \in DOMAIN inbox'[z] :
                         /\ \/ SentAfter(z, d, n)'
                            \/ d \notin DOMAIN inbox'[z][n].vals
                            \/ inbox'[z][n].vals[d] = table'[d]
                         /\ \/ SentAfter(z, d, n)'
                            \/ d[2] <= inbox'[z][n].high[d[1]]
                            \/ table'[d] = Free
  BY DEF ClearedUnused, NoLostChange
<1>7. table' = table /\ ~Contains(queue, d) /\ d \notin silent
  BY <1>4 DEF masterVars
<1>8. /\ SentAfter(z, d, 0) \/ replica[z][d] \in {table[d], Undef}
      /\ \A n \in DOMAIN inbox[z] :
           \/ SentAfter(z, d, n)
           \/ d \notin DOMAIN inbox[z][n].vals
           \/ inbox[z][n].vals[d] = table[d]
  BY <1>7, Zenon DEF ReplicationInv, NoLostChange
<1>9. \A n \in DOMAIN inbox[z] :
        \/ SentAfter(z, d, n)
        \/ d[2] <= inbox[z][n].high[d[1]]
        \/ table[d] = Free
  BY <1>7, Zenon DEF ReplicationInv, ClearedUnused
<1>10. CASE z # s
  <2>1. \A n : SentAfter(z, d, n)' <=> SentAfter(z, d, n)
    BY <1>4, <1>10 DEF SentAfter
  <2> QED
    BY <1>4, <1>7, <1>8, <1>9, <1>10, <2>1
<1>11. CASE z = s
  <2>1. ASSUME NEW n \in Nat, SentAfter(s, d, n + 1)
        PROVE  SentAfter(s, d, n)'
    <3>1. PICK m \in 1 .. L : m > n + 1 /\ d \in DOMAIN inbox[s][m].vals
      BY <2>1, <1>3 DEF SentAfter
    <3>2. m - 1 \in DOMAIN inbox'[s] /\ m - 1 > n /\ inbox'[s][m - 1] = inbox[s][m]
      BY <3>1, <1>3, <1>5
    <3> QED
      BY <3>1, <3>2 DEF SentAfter
  <2>2. ASSUME NEW n \in DOMAIN inbox'[s]
        PROVE  /\ n + 1 \in DOMAIN inbox[s]
               /\ n \in Nat
               /\ inbox'[s][n] = inbox[s][n + 1]
    BY <1>3, <1>5
  <2>3. ASSUME ~SentAfter(s, d, 1)
        PROVE  replica'[s][d] \in {table[d], Undef}
    <3>1. 1 \in DOMAIN inbox[s]
      BY <1>3
    <3>2. CASE d \in DOMAIN hb.vals
      <4>1. hb.vals[d] = table[d]
        BY <2>3, <3>1, <3>2, <1>3, <1>8, <1>11
      <4> QED
        BY <4>1, <3>2, <1>2
    <3>3. CASE d \notin DOMAIN hb.vals
      <4>1. ~SentAfter(s, d, 0)
        <5> SUFFICES ASSUME NEW m \in DOMAIN inbox[s], m > 0, d \in DOMAIN inbox[s][m].vals
                     PROVE  FALSE
          BY DEF SentAfter
        <5>1. m # 1
          BY <3>3, <1>3
        <5>2. m > 1
          BY <5>1, <1>3
        <5> QED
          BY <5>2, <2>3 DEF SentAfter
      <4>2. replica[s][d] \in {table[d], Undef}
        BY <4>1, <1>8, <1>11
      <4>3. CASE d[2] > hb.high[d[1]] /\ replica[s][d] = Undef /\ r[d] = Free
        <5>1. hb \in Heartbeat
          BY ApplyFacts DEF ReplicationInv, hb
        <5>2. d[2] \in Nat /\ hb.high[d[1]] \in Nat
          BY <5>1, CellsByKind DEF Heartbeat
        <5>3. table[d] = Free
          BY <4>3, <5>2, <2>3, <3>1, <1>3, <1>9, <1>11
        <5> QED
          BY <4>3, <5>3, <3>3, <1>2
      <4>4. CASE r[d] = replica[s][d]
        BY <4>2, <4>4, <3>3, <1>2
      <4> QED
        BY <4>3, <4>4, <1>6
    <3> QED
      BY <3>2, <3>3
  <2>4. SentAfter(s, d, 0)' \/ replica'[s][d] \in {table[d], Undef}
    BY <2>1, <2>3
  <2>5. ASSUME NEW n \in DOMAIN inbox'[s]
        PROVE  /\ \/ SentAfter(s, d, n)'
                  \/ d \notin DOMAIN inbox'[s][n].vals
                  \/ inbox'[s][n].vals[d] = table[d]
               /\ \/ SentAfter(s, d, n)'
                  \/ d[2] <= inbox'[s][n].high[d[1]]
                  \/ table[d] = Free
    BY <2>1, <2>2, <1>8, <1>9, <1>11
  <2> QED
    BY <2>4, <2>5, <1>7, <1>11
<1> QED
  BY <1>10, <1>11

\* A restarted slave has lost nothing that was sent to it.
LEMMA RestartChanges ==
  ASSUME ReplicationInv, NEW s \in Slave, Restart(s)
  PROVE  ClearedUnused' /\ NoLostChange'
<1>1. /\ UNCHANGED masterVars
      /\ inbox'[s] = <<>>
      /\ \A c \in Cells : replica'[s][c] = Undef
      /\ \A z \in Slave : z # s => inbox'[z] = inbox[z] /\ replica'[z] = replica[z]
  BY DEF Restart, ReplicationInv, CountersInv, TypeOK
<1>2. DOMAIN inbox'[s] = {}
  BY <1>1
<1>3. \A z \in Slave : z # s => \A d, n : SentAfter(z, d, n)' <=> SentAfter(z, d, n)
  BY <1>1 DEF SentAfter
<1>4. UNCHANGED <<table, queue, silent>>
  BY <1>1 DEF masterVars
<1>5. ClearedUnused'
  BY <1>1, <1>2, <1>3, <1>4 DEF ReplicationInv, ClearedUnused
<1>6. NoLostChange'
  BY <1>1, <1>2, <1>3, <1>4 DEF ReplicationInv, NoLostChange
<1> QED
  BY <1>5, <1>6

\* The invariant of replication holds at the start.
LEMMA InitReplication == Init => ReplicationInv
<1> SUFFICES ASSUME Init PROVE ReplicationInv
  OBVIOUS
<1>1. \A s \in Slave : DOMAIN inbox[s] = {}
  BY DEF Init
<1>2. HighCovers /\ ClearedUnused /\ NoLostChange
  BY <1>1, CellsByKind DEF Init, HighCovers, ClearedUnused, NoLostChange
<1> QED
  BY <1>2, InitCounters DEF ReplicationInv

\* Every step keeps the invariant of replication.
LEMMA StepReplication == ReplicationInv /\ [Next]_vars => ReplicationInv'
<1> SUFFICES ASSUME ReplicationInv, [Next]_vars PROVE ReplicationInv'
  OBVIOUS
<1>1. CountersInv' /\ TypeOK /\ HighCovers
  BY StepCounters DEF ReplicationInv, CountersInv
<1>2. ASSUME NEW c \in Cells, NEW v \in Value, Change(c, v)
      PROVE  HighCovers' /\ ClearedUnused' /\ NoLostChange'
  <2> DEFINE t == [table EXCEPT ![c] = v]
             h == Raised(c, v)
             q == Requeued(c)
             u == silent \ {c}
  <2>1. table' = t /\ high' = h /\ replica' = replica
    BY <1>2 DEF Change, slaveVars
  <2>2. HighCovers'
    BY <1>1, <2>1, RaisedCovers
  <2>3. /\ t \in [Cells -> Value] /\ h \in [Kind -> Nat]
        /\ \A d \in Cells : d # c => t[d] = table[d]
    BY <1>1, RaisedType DEF TypeOK
  <2>4. /\ q \in Seq(Cells)
        /\ \A d \in Cells : Contains(q, d) <=> Contains(queue, d) \/ d = c
    BY <1>1, RequeuedCells DEF TypeOK
  <2>5. \A d \in Cells : Tracked(t, q, u, d)
    BY <2>3, <2>4 DEF Tracked
  <2>6. CASE Len(q) > MAX_CHANGES
    <3>1. Publish(t, h, q, u)
      BY <1>2, <2>6 DEF Change
    <3> HIDE DEF t, h, q, u
    <3> QED
      BY <2>1, <2>2, <2>3, <2>4, <2>5, <3>1, PublishChanges
  <2>7. CASE ~(Len(q) > MAX_CHANGES)
    <3>1. queue' = q /\ silent' = u /\ inbox' = inbox
      BY <1>2, <2>7 DEF Change
    <3>2. \A d \in Cells : Tracked(table', queue', silent', d)
      BY <2>1, <2>5, <3>1
    <3> QED
      BY <2>1, <2>2, <3>1, <3>2, QuietChanges
  <2> QED
    BY <2>6, <2>7
<1>3. ASSUME NEW c \in Cells, NEW v \in Value, Touch(c, v)
      PROVE  HighCovers' /\ ClearedUnused' /\ NoLostChange'
  <2>1. HighCovers'
    BY <1>1, <1>3, RaisedCovers DEF Touch
  <2>2. UNCHANGED <<queue, inbox, replica>>
    BY <1>3 DEF Touch, slaveVars
  <2>3. \A d \in Cells : Tracked(table', queue', silent', d)
    <3> SUFFICES ASSUME NEW d \in Cells PROVE Tracked(table', queue', silent', d)
      OBVIOUS
    <3>1. /\ table' = [table EXCEPT ![c] = v]
          /\ silent' = IF Contains(queue, c) THEN silent ELSE silent \cup {c}
          /\ table \in [Cells -> Value]
      BY <1>1, <1>3 DEF Touch, TypeOK
    <3>2. Contains(queue', d) <=> Contains(queue, d)
      BY <2>2
    <3>3. d # c => table'[d] = table[d] /\ (d \in silent' <=> d \in silent)
      BY <3>1
    <3>4. d = c => Contains(queue, d) \/ d \in silent'
      BY <3>1
    <3> QED
      BY <3>2, <3>3, <3>4 DEF Tracked
  <2> QED
    BY <2>1, <2>2, <2>3, QuietChanges
<1>4. ASSUME SendHeartbeat
      PROVE  HighCovers' /\ ClearedUnused' /\ NoLostChange'
  <2>1. HighCovers'
    BY <1>1, <1>4 DEF SendHeartbeat, HighCovers
  <2>2. \A d \in Cells : Tracked(table, queue, silent, d)
    BY DEF Tracked
  <2> QED
    <3>1. /\ Publish(table, high, queue, silent)
          /\ table' = table /\ high' = high /\ replica' = replica
      BY <1>4 DEF SendHeartbeat, slaveVars
    <3>2. table \in [Cells -> Value] /\ high \in [Kind -> Nat] /\ queue \in Seq(Cells)
      BY <1>1 DEF TypeOK
    <3> QED
      BY <2>1, <2>2, <3>1, <3>2, PublishChanges
<1>5. ASSUME NEW s \in Slave, Apply(s) \/ Restart(s)
      PROVE  HighCovers' /\ ClearedUnused' /\ NoLostChange'
  <2>1. HighCovers'
    BY <1>1, <1>5 DEF Apply, Restart, masterVars, HighCovers
  <2> QED
    BY <1>5, <2>1, ApplyChanges, RestartChanges
<1>6. ASSUME UNCHANGED vars
      PROVE  HighCovers' /\ ClearedUnused' /\ NoLostChange'
  <2>1. \A d \in Cells : Tracked(table', queue', silent', d)
    BY <1>6 DEF Tracked, vars
  <2>2. HighCovers'
    BY <1>1, <1>6 DEF vars, HighCovers
  <2>3. UNCHANGED <<inbox, replica>>
    BY <1>6 DEF vars
  <2> QED
    BY <2>1, <2>2, <2>3, QuietChanges
<1> QED
  BY <1>1, <1>2, <1>3, <1>4, <1>5, <1>6 DEF Next, ReplicationInv

\* A table entry that was queued with type_changed reaches every slave: after the
\* heartbeats on their way, a slave holds the master's entry, the entry still
\* waits in the queue, or it was changed without queueing it.
THEOREM ChangesReachSlaves == Spec => []NoLostChange
<1>1. ReplicationInv => NoLostChange
  BY DEF ReplicationInv
<1> QED
  BY <1>1, InitReplication, StepReplication, PTL DEF Spec
=============================================================================
