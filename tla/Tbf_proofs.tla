------------------------------ MODULE Tbf_proofs ------------------------------
(***************************************************************************)
(* What a bucket lets pass stays within its burst and rate, and the timer  *)
(* chain, the buckets in which packets wait and the sessions that own them *)
(* fit together, for any number of sessions and buckets, rates, packet     *)
(* sizes, jumps of TIME and widths of its variable.                        *)
(***************************************************************************)
EXTENDS Tbf, NaturalsInduction, WellFoundedInduction, TLAPS

BucketType ==
  [sid : Sess \cup {Nobody, 0}, send : Dir, credit : Nat, age : 0 .. Word - 1, queued : 0 .. Queue,
   oldest : 0 .. Queue - 1, max : Nat, rate : Nat, next : Ids, prev : Ids,
   sizes : [0 .. Queue - 1 -> Sizes \cup {0}], allow : Int]

\* The credit a bucket has, and what it is due since it was last run, is within what the exact one allows.
Covered(f) == f.allow = f.max * Ticks \/ f.credit * Ticks + f.age * f.rate <= f.allow

Ok(f) == f \in BucketType /\ f.credit <= f.max /\ Covered(f)

-----------------------------------------------------------------------------
(* Arithmetic. *)

LEMMA Remainder ==
  ASSUME NEW x \in Nat, NEW w \in Nat \ {0}
  PROVE  x % w \in 0 .. w - 1 /\ x % w <= x
  OBVIOUS

LEMMA Quotient ==
  ASSUME NEW x \in Nat, NEW t \in Nat \ {0}
  PROVE  x \div t \in Nat /\ (x \div t) * t <= x
  OBVIOUS

LEMMA Product == ASSUME NEW x \in Nat, NEW y \in Nat PROVE x * y \in Nat
  OBVIOUS

-----------------------------------------------------------------------------
(* One bucket. *)

LEMMA Fields ==
  ASSUME NEW f \in BucketType
  PROVE  /\ f.credit \in Nat /\ f.age \in 0 .. Word - 1 /\ f.queued \in 0 .. Queue /\ f.oldest \in 0 .. Queue - 1
         /\ f.max \in Nat /\ f.rate \in Nat /\ f.allow \in Int /\ f.next \in Ids /\ f.prev \in Ids
         /\ f.sizes \in [0 .. Queue - 1 -> Sizes \cup {0}] /\ f.sid \in Sess \cup {Nobody, 0}
  BY DEF BucketType

\* What comes with the time is covered by what comes with the time to the exact bucket.
LEMMA CreditedOk ==
  ASSUME NEW f, Ok(f)
  PROVE  Ok(Credited(f)) /\ Credited(f).age = 0
<1> DEFINE due == ((f.age * f.rate) % Word) \div Ticks
           c   == f.credit + due
           g   == Credited(f)
<1>0. f \in BucketType /\ f.credit <= f.max /\ Covered(f)
  BY DEF Ok
<1>1. /\ f.credit \in Nat /\ f.age \in Nat /\ f.max \in Nat /\ f.rate \in Nat /\ f.allow \in Int
      /\ Ticks \in Nat \ {0} /\ Word \in Nat \ {0}
  BY <1>0, Fields, NumbersAreNats
<1>2. f.age * f.rate \in Nat
  BY <1>1, Product
<1>3. (f.age * f.rate) % Word \in Nat /\ (f.age * f.rate) % Word <= f.age * f.rate
  BY <1>1, <1>2, Remainder
<1>4. due \in Nat /\ due * Ticks <= f.age * f.rate
  <2>1. due \in Nat /\ due * Ticks <= (f.age * f.rate) % Word
    BY <1>1, <1>3, Quotient
  <2> HIDE DEF due
  <2> QED
    BY <1>1, <1>2, <1>3, <2>1, Product
<1>5. /\ g = [f EXCEPT !.credit = IF c > f.max THEN f.max ELSE c, !.age = 0]
  BY DEF Credited
<1> HIDE DEF due
<1>6. c \in Nat /\ 0 \in 0 .. Word - 1
  BY <1>1, <1>4
<1> HIDE DEF c
<1>7. /\ g \in BucketType /\ g.age = 0 /\ g.max = f.max /\ g.rate = f.rate /\ g.allow = f.allow
      /\ g.credit = IF c > f.max THEN f.max ELSE c
  BY <1>0, <1>1, <1>5, <1>6 DEF BucketType
<1> HIDE DEF g
<1>8. g.credit \in Nat /\ g.credit <= f.max /\ g.credit <= c
  BY <1>1, <1>6, <1>7
<1>9. Covered(g)
  <2>1. CASE f.allow = f.max * Ticks
    BY <1>7, <2>1 DEF Covered
  <2>2. CASE f.credit * Ticks + f.age * f.rate <= f.allow
    <3>1. c * Ticks = f.credit * Ticks + due * Ticks
      BY <1>1, <1>4 DEF c
    <3>2. g.credit * Ticks <= c * Ticks
      BY <1>1, <1>6, <1>8
    <3>3. g.age * g.rate = 0
      BY <1>1, <1>7
    <3>4. f.credit * Ticks \in Nat /\ due * Ticks \in Nat /\ g.credit * Ticks \in Nat
      BY <1>1, <1>4, <1>8, Product
    <3>5. g.credit * Ticks <= f.allow
      <4> DEFINE cT == f.credit * Ticks
                 dT == due * Ticks
                 gT == g.credit * Ticks
                 ar == f.age * f.rate
      <4>1. cT + ar <= f.allow /\ dT <= ar /\ gT <= cT + dT
        BY <1>4, <2>2, <3>1, <3>2
      <4>2. cT \in Nat /\ dT \in Nat /\ gT \in Nat /\ ar \in Nat
        BY <1>2, <3>4
      <4> HIDE DEF cT, dT, gT, ar
      <4>3. gT <= f.allow
        BY <1>1, <4>1, <4>2
      <4> QED
        BY <4>3 DEF gT
    <3> QED
      BY <1>1, <1>7, <3>3, <3>4, <3>5 DEF Covered
  <2> QED
    BY <1>0, <2>1, <2>2 DEF Covered
<1> QED
  BY <1>7, <1>8, <1>9 DEF Ok, g

LEMMA SpentOk ==
  ASSUME NEW f, Ok(f), f.age = 0, NEW size \in Nat, size <= f.credit
  PROVE  Ok(Spent(f, size)) /\ Spent(f, size).age = 0
<1> DEFINE g == Spent(f, size)
<1>0. f \in BucketType /\ f.credit <= f.max /\ Covered(f)
  BY DEF Ok
<1>1. /\ f.credit \in Nat /\ f.max \in Nat /\ f.rate \in Nat /\ f.allow \in Int /\ Ticks \in Nat \ {0}
  BY <1>0, Fields, NumbersAreNats
<1>2. f.credit - size \in Nat /\ size * Ticks \in Nat
  BY <1>1, Product
<1>3. /\ g \in BucketType /\ g.age = 0 /\ g.max = f.max /\ g.rate = f.rate
      /\ g.credit = f.credit - size /\ g.allow = f.allow - size * Ticks
  <2> DEFINE c == f.credit - size
             a == f.allow - size * Ticks
  <2>1. g = [f EXCEPT !.credit = c, !.allow = a]
    BY <1>0 DEF Spent, BucketType
  <2>2. c \in Nat /\ a \in Int
    BY <1>1, <1>2
  <2> HIDE DEF c, a, g
  <2>3. g \in BucketType /\ g.age = f.age /\ g.max = f.max /\ g.rate = f.rate /\ g.credit = c /\ g.allow = a
    BY <1>0, <2>1, <2>2 DEF BucketType
  <2> QED
    BY <2>3 DEF c, a
<1> HIDE DEF g
<1>4. f.credit * Ticks <= f.allow
  <2>1. CASE f.allow = f.max * Ticks
    BY <1>0, <1>1, <2>1
  <2>2. CASE f.credit * Ticks + f.age * f.rate <= f.allow
    <3>1. f.age * f.rate = 0
      BY <1>1
    <3> QED
      BY <1>1, <2>2, <3>1, Product
  <2> QED
    BY <1>0, <2>1, <2>2 DEF Covered
<1>5. g.credit * Ticks = f.credit * Ticks - size * Ticks /\ g.age * g.rate = 0
  BY <1>1, <1>3
<1>6. Covered(g)
  BY <1>1, <1>2, <1>3, <1>4, <1>5, Product DEF Covered
<1> QED
  BY <1>0, <1>1, <1>3, <1>6 DEF Ok, g

LEMMA SendOldestOk ==
  ASSUME NEW f, Ok(f), f.age = 0
  PROVE  Ok(SendOldest(f)) /\ SendOldest(f).age = 0
<1> DEFINE size == f.sizes[f.oldest]
           g    == Spent(f, size)
           h    == [g EXCEPT !.oldest = (@ + 1) % Queue, !.queued = @ - 1]
<1>1. CASE f.queued > 0 /\ f.credit >= size
  <2>1. f \in BucketType /\ f.queued \in 0 .. 2 /\ f.oldest \in 0 .. 1 /\ f.sizes \in [0 .. 1 -> Sizes \cup {0}]
        /\ f.credit \in Nat
    BY Fields DEF Ok, Queue
  <2>2. size \in Nat
    BY <2>1, NumbersAreNats
  <2>3. Ok(g) /\ g.age = 0
    BY <1>1, <2>1, <2>2, SpentOk
  <2>4. g.queued = f.queued /\ g.oldest = f.oldest
    BY <2>1 DEF Spent, BucketType
  <2> HIDE DEF g
  <2>5. (g.oldest + 1) % Queue \in 0 .. Queue - 1 /\ g.queued - 1 \in 0 .. Queue
    BY <1>1, <2>1, <2>4 DEF Queue
  <2>6. h \in BucketType /\ h.age = 0 /\ h.credit = g.credit /\ h.max = g.max /\ h.rate = g.rate /\ h.allow = g.allow
    BY <2>3, <2>5 DEF Ok, BucketType
  <2> HIDE DEF h
  <2>7. Ok(h)
    BY <2>3, <2>6 DEF Ok, Covered
  <2>8. SendOldest(f) = h
    BY <1>1 DEF SendOldest, h, g
  <2> QED
    BY <2>6, <2>7, <2>8
<1>2. CASE ~(f.queued > 0 /\ f.credit >= size)
  BY <1>2 DEF SendOldest
<1> QED
  BY <1>1, <1>2

LEMMA DrainedOk ==
  ASSUME NEW f, Ok(f)
  PROVE  Ok(Drained(f)) /\ Drained(f).age = 0
  BY CreditedOk, SendOldestOk DEF Drained

LEMMA OlderOk ==
  ASSUME NEW f, Ok(f), NEW d \in Nat
  PROVE  Ok(Older(f, d))
<1> DEFINE a == f.allow + d * f.rate
           e == (f.age + d) % Word
           g == Older(f, d)
<1>0. f \in BucketType /\ f.credit <= f.max /\ Covered(f)
  BY DEF Ok
<1>1. /\ f.credit \in Nat /\ f.age \in Nat /\ f.max \in Nat /\ f.rate \in Nat /\ f.allow \in Int
      /\ Ticks \in Nat \ {0} /\ Word \in Nat \ {0}
  BY <1>0, Fields, NumbersAreNats
<1>2. e \in 0 .. Word - 1 /\ e <= f.age + d
  <2>1. f.age + d \in Nat
    BY <1>1
  <2> QED
    BY <1>1, <2>1, Remainder
<1>3. /\ d * f.rate \in Nat /\ f.max * Ticks \in Nat /\ f.credit * Ticks \in Nat /\ f.age * f.rate \in Nat
      /\ e * f.rate \in Nat
  BY <1>1, <1>2, Product
<1>4. e * f.rate <= f.age * f.rate + d * f.rate
  <2> HIDE DEF e
  <2>1. (f.age + d) * f.rate = f.age * f.rate + d * f.rate
    BY <1>1
  <2>2. e * f.rate <= (f.age + d) * f.rate
    BY <1>1, <1>2
  <2> QED
    BY <2>1, <2>2
<1>5. g = [f EXCEPT !.age = e, !.allow = IF a > f.max * Ticks THEN f.max * Ticks ELSE a]
  BY <1>0 DEF Older, BucketType
<1> HIDE DEF e
<1>6. /\ g \in BucketType /\ g.age = e /\ g.max = f.max /\ g.rate = f.rate /\ g.credit = f.credit
      /\ g.allow = IF a > f.max * Ticks THEN f.max * Ticks ELSE a
  <2> DEFINE v == IF a > f.max * Ticks THEN f.max * Ticks ELSE a
  <2>1. v \in Int
    BY <1>1, <1>3
  <2> HIDE DEF v
  <2>2. g = [f EXCEPT !.age = e, !.allow = v]
    BY <1>5 DEF v
  <2>3. g \in BucketType /\ g.age = e /\ g.max = f.max /\ g.rate = f.rate /\ g.credit = f.credit /\ g.allow = v
    BY <1>0, <1>2, <2>1, <2>2 DEF BucketType
  <2> QED
    BY <2>3 DEF v
<1> HIDE DEF g
<1>7. Covered(g)
  <2> DEFINE dr == d * f.rate
             mT == f.max * Ticks
             cT == f.credit * Ticks
             ar == f.age * f.rate
             er == e * f.rate
  <2>1. dr \in Nat /\ mT \in Nat /\ cT \in Nat /\ ar \in Nat /\ er \in Nat /\ er <= ar + dr
    BY <1>3, <1>4
  <2>2. f.allow = mT \/ cT + ar <= f.allow
    BY <1>0 DEF Covered
  <2>3. g.allow = IF f.allow + dr > mT THEN mT ELSE f.allow + dr
    BY <1>6
  <2>4. (g.allow = mT \/ cT + er <= g.allow) => Covered(g)
    BY <1>6 DEF Covered
  <2> HIDE DEF dr, mT, cT, ar, er
  <2> QED
    BY <1>1, <2>1, <2>2, <2>3, <2>4
<1> QED
  BY <1>0, <1>6, <1>7 DEF Ok, g

LEMMA BucketOk ==
  ASSUME NEW sid \in Sess \cup {Nobody, 0}, NEW dir \in Dir, NEW bytes \in Nat, NEW burst \in Nat, NEW age \in 0 .. Word - 1
  PROVE  Ok(Bucket(sid, dir, bytes, burst, age))
<1>1. Ticks \in Nat \ {0} /\ burst * Ticks \in Nat /\ 0 \in Ids
  BY NumbersAreNats, Product DEF Ids
<1>2. [k \in 0 .. Queue - 1 |-> 0] \in [0 .. Queue - 1 -> Sizes \cup {0}]
  OBVIOUS
<1> QED
  BY <1>1, <1>2 DEF Bucket, Ok, Covered, BucketType, Queue

LEMMA UnusedOk == Ok(Unused)
<1>1. 0 \in Nat /\ 0 \in Sess \cup {Nobody, 0} /\ "in" \in Dir /\ 0 \in 0 .. Word - 1
  BY NumbersAreNats DEF Dir
<1>2. Ok(Bucket(0, "in", 0, 0, 0))
  BY <1>1, BucketOk
<1> QED
  BY <1>2 DEF Unused

\* The timer chain is no matter of credit.
LEMMA RelinkOk ==
  ASSUME NEW f, Ok(f), NEW n \in Ids
  PROVE  Ok([f EXCEPT !.next = n]) /\ Ok([f EXCEPT !.prev = n])
  BY DEF Ok, Covered, BucketType

-----------------------------------------------------------------------------
(* All buckets, and the chain. *)

OkBucket == {f \in BucketType : Ok(f)}
List     == [Ids -> OkBucket]
Chained  == [b : List, chain : Ids \cup {Nobody}]

LEMMA ListOk ==
  ASSUME NEW l \in List, NEW i \in Ids
  PROVE  l[i] \in BucketType /\ Ok(l[i])
  BY DEF List, OkBucket

LEMMA PutOk ==
  ASSUME NEW l \in List, NEW i \in Ids, NEW g, Ok(g)
  PROVE  [l EXCEPT ![i] = g] \in List
  BY DEF List, OkBucket, Ok

SameAges(l, m) == \A j \in Ids : l[j].age = m[j].age

LEMMA RelinkListOk ==
  ASSUME NEW l \in List, NEW i \in Ids, NEW n \in Ids
  PROVE  /\ [l EXCEPT ![i].next = n] \in List /\ [l EXCEPT ![i].prev = n] \in List
         /\ SameAges([l EXCEPT ![i].next = n], l) /\ SameAges([l EXCEPT ![i].prev = n], l)
<1>1. Ok([l[i] EXCEPT !.next = n]) /\ Ok([l[i] EXCEPT !.prev = n])
  BY ListOk, RelinkOk
<1>2. [l EXCEPT ![i] = [l[i] EXCEPT !.next = n]] \in List /\ [l EXCEPT ![i] = [l[i] EXCEPT !.prev = n]] \in List
  BY <1>1, PutOk
<1>3. SameAges([l EXCEPT ![i].next = n], l) /\ SameAges([l EXCEPT ![i].prev = n], l)
  BY DEF SameAges, List, OkBucket, BucketType
<1> QED
  BY <1>2, <1>3

LEMMA AddToTimerOk ==
  ASSUME NEW f \in Chained, NEW id \in Ids
  PROVE  AddToTimer(f, id) \in Chained
<1>0. f.b \in List /\ f.chain \in Ids \cup {Nobody}
  BY DEF Chained
<1>1. CASE f.chain = Nobody
  <2> DEFINE l1 == [f.b EXCEPT ![id].next = id]
             l2 == [l1 EXCEPT ![id].prev = id]
  <2>1. l1 \in List
    BY <1>0, RelinkListOk
  <2>2. l2 \in List
    <3> HIDE DEF l1
    <3> QED
      BY <2>1, RelinkListOk
  <2>3. AddToTimer(f, id) = [b |-> l2, chain |-> id]
    BY <1>1 DEF AddToTimer
  <2> HIDE DEF l2
  <2> QED
    BY <2>2, <2>3 DEF Chained
<1>2. CASE f.chain # Nobody
  <2> DEFINE head == f.chain
             tail == f.b[head].prev
             l1 == [f.b EXCEPT ![id].next = head]
             l2 == [l1 EXCEPT ![id].prev = tail]
             l3 == [l2 EXCEPT ![tail].next = id]
             l4 == [l3 EXCEPT ![head].prev = id]
  <2>1. head \in Ids
    BY <1>0, <1>2
  <2>2. tail \in Ids
    BY <1>0, <2>1, ListOk, Fields
  <2>3. l1 \in List
    BY <1>0, <2>1, RelinkListOk
  <2>4. l2 \in List
    <3> HIDE DEF l1, tail, head
    <3> QED
      BY <2>2, <2>3, RelinkListOk
  <2>5. l3 \in List
    <3> HIDE DEF l2, tail, head
    <3> QED
      BY <2>2, <2>4, RelinkListOk
  <2>6. l4 \in List
    <3> HIDE DEF l3, head
    <3> QED
      BY <2>1, <2>5, RelinkListOk
  <2>7. AddToTimer(f, id) = [f EXCEPT !.b = l4]
    BY <1>0, <1>2 DEF AddToTimer, Chained
  <2> HIDE DEF l4
  <2> QED
    BY <2>6, <2>7 DEF Chained
<1> QED
  BY <1>1, <1>2

LEMMA DelFromTimerOk ==
  ASSUME NEW f \in Chained, NEW id \in Ids
  PROVE  DelFromTimer(f, id) \in Chained /\ SameAges(DelFromTimer(f, id).b, f.b)
<1> DEFINE n == f.b[id].next
           q == f.b[id].prev
           l0 == IF n = id THEN f.b ELSE [[f.b EXCEPT ![n].prev = q] EXCEPT ![q].next = n]
           l1 == [l0 EXCEPT ![id].next = 0]
           l2 == [l1 EXCEPT ![id].prev = 0]
           c  == IF n = id THEN IF f.chain = id THEN Nobody ELSE f.chain
                 ELSE IF f.chain = id THEN n ELSE f.chain
<1>0. f.b \in List /\ f.chain \in Ids \cup {Nobody} /\ 0 \in Ids
  BY NumbersAreNats DEF Chained, Ids
<1>1. n \in Ids /\ q \in Ids
  BY <1>0, ListOk, Fields
<1>2. DelFromTimer(f, id) = [b |-> l2, chain |-> c]
  BY DEF DelFromTimer
<1> HIDE DEF n, q
<1>3. l0 \in List /\ SameAges(l0, f.b)
  <2>1. [f.b EXCEPT ![n].prev = q] \in List /\ SameAges([f.b EXCEPT ![n].prev = q], f.b)
    BY <1>0, <1>1, RelinkListOk
  <2> DEFINE l == [f.b EXCEPT ![n].prev = q]
  <2> HIDE DEF l
  <2>2. [l EXCEPT ![q].next = n] \in List /\ SameAges([l EXCEPT ![q].next = n], l)
    BY <1>1, <2>1, RelinkListOk DEF l
  <2> QED
    BY <1>0, <2>1, <2>2 DEF l, SameAges
<1>4. l1 \in List /\ SameAges(l1, l0)
  <2> HIDE DEF l0
  <2> QED
    BY <1>0, <1>3, RelinkListOk
<1>5. l2 \in List /\ SameAges(l2, l1)
  <2> HIDE DEF l1
  <2> QED
    BY <1>0, <1>4, RelinkListOk
<1>6. c \in Ids \cup {Nobody}
  BY <1>0, <1>1
<1>7. SameAges(l2, f.b)
  <2> HIDE DEF l0, l1, l2
  <2> QED
    BY <1>3, <1>4, <1>5 DEF SameAges
<1> HIDE DEF l2, c
<1> QED
  BY <1>2, <1>5, <1>6, <1>7 DEF Chained

LEMMA RunQueueOk ==
  ASSUME NEW f \in Chained, NEW id \in Ids
  PROVE  RunQueue(f, id) \in Chained /\ RunQueue(f, id).b[id].age = 0
<1> DEFINE h == Drained(f.b[id])
           g == [f EXCEPT !.b[id] = h]
<1>0. f.b \in List
  BY DEF Chained
<1>1. Ok(h) /\ h.age = 0
  BY <1>0, ListOk, DrainedOk
<1>2. [f.b EXCEPT ![id] = h] \in List
  BY <1>0, <1>1, PutOk
<1>3. RunQueue(f, id) = IF g.b[id].queued = 0 /\ g.b[id].next # 0 THEN DelFromTimer(g, id) ELSE g
  BY DEF RunQueue
<1> HIDE DEF h
<1>4. g \in Chained /\ g.b[id] = h
  BY <1>0, <1>2 DEF Chained, List
<1> HIDE DEF g
<1>5. DelFromTimer(g, id) \in Chained /\ DelFromTimer(g, id).b[id].age = g.b[id].age
  BY <1>4, DelFromTimerOk DEF SameAges
<1> QED
  BY <1>1, <1>3, <1>4, <1>5

\* A packet as it is written to the fields of a bucket in the list, and to the bucket.
WrittenThere(f, id, k, size) == [f EXCEPT !.b[id].sizes[k] = size, !.b[id].queued = @ + 1]
WithPacket(o, k, size)       == [o EXCEPT !.sizes = [o.sizes EXCEPT ![k] = size], !.queued = o.queued + 1]

LEMMA QueuedBucket ==
  ASSUME NEW f \in Chained, NEW id \in Ids, NEW k, NEW size
  PROVE  WrittenThere(f, id, k, size) = [f EXCEPT !.b = [f.b EXCEPT ![id] = WithPacket(f.b[id], k, size)]]
<1> DEFINE o == f.b[id]
           x == [o EXCEPT !.sizes = [@ EXCEPT ![k] = size], !.queued = @ + 1]
           y == WithPacket(o, k, size)
<1>1. f.b \in List /\ o \in BucketType
  BY ListOk DEF Chained
<1>2. x = y
  BY <1>1 DEF BucketType, WithPacket
<1>3. WrittenThere(f, id, k, size) = [f EXCEPT !.b = [f.b EXCEPT ![id] = x]]
  BY <1>1 DEF Chained, List, OkBucket, BucketType, WrittenThere
<1> HIDE DEF x, y
<1> QED
  BY <1>2, <1>3 DEF y

LEMMA QueuedOk ==
  ASSUME NEW f \in Chained, NEW id \in Ids, NEW size \in Sizes, f.b[id].queued < Queue
  PROVE  Queued(f, id, size) \in Chained
<1> DEFINE o == f.b[id]
           k == (o.oldest + o.queued) % Queue
           h == [o EXCEPT !.sizes = [@ EXCEPT ![k] = size], !.queued = @ + 1]
           g == [f EXCEPT !.b[id].sizes[k] = size, !.b[id].queued = @ + 1]
<1>0. f.b \in List
  BY DEF Chained
<1>1. o \in BucketType /\ Ok(o)
  BY <1>0, ListOk
<1>2. o.queued + 1 \in 0 .. Queue /\ o.sizes \in [0 .. Queue - 1 -> Sizes \cup {0}]
  BY <1>1, Fields DEF Queue
<1>3. [o.sizes EXCEPT ![k] = size] \in [0 .. Queue - 1 -> Sizes \cup {0}]
  BY <1>2
<1>4. g = [f EXCEPT !.b = [f.b EXCEPT ![id] = h]]
  BY <1>0, <1>1 DEF Chained, List, OkBucket, BucketType
<1> DEFINE z == [o.sizes EXCEPT ![k] = size]
           q == o.queued + 1
<1>5. h = [o EXCEPT !.sizes = z, !.queued = q]
  BY <1>1 DEF BucketType
<1> HIDE DEF k, z, q
<1>6. /\ [o EXCEPT !.sizes = z, !.queued = q] \in BucketType
      /\ \A x \in {[o EXCEPT !.sizes = z, !.queued = q]} :
           x.credit = o.credit /\ x.age = o.age /\ x.max = o.max /\ x.rate = o.rate /\ x.allow = o.allow
  BY <1>1, <1>2, <1>3 DEF BucketType, z, q
<1> HIDE DEF h, o
<1>7. Ok(h)
  BY <1>1, <1>5, <1>6 DEF Ok, Covered
<1>8. [f.b EXCEPT ![id] = h] \in List
  BY <1>0, <1>7, PutOk
<1>9. Queued(f, id, size) = IF g.b[id].next = 0 THEN AddToTimer(g, id) ELSE g
  BY DEF Queued, k, o
<1> HIDE DEF g
<1>10. g \in Chained
  BY <1>4, <1>8 DEF Chained
<1> QED
  BY <1>9, <1>10, AddToTimerOk

LEMMA QueuePacketOk ==
  ASSUME NEW f \in Chained, NEW id \in Ids, NEW size \in Sizes
  PROVE  QueuePacket(f, id, size) \in Chained
<1> DEFINE g == RunQueue(f, id)
<1>1. g \in Chained /\ g.b \in List /\ g.b[id].age = 0
  BY RunQueueOk DEF Chained
<1>2. size \in Nat
  BY NumbersAreNats
<1>3. g.b[id] \in BucketType /\ Ok(g.b[id])
  BY <1>1, ListOk
<1>4. g.b[id].credit \in Nat /\ g.b[id].queued \in 0 .. Queue
  BY <1>3, Fields
<1>5. ASSUME g.b[id].credit > size
      PROVE  [g EXCEPT !.b[id] = Spent(@, size)] \in Chained
  <2>1. Ok(Spent(g.b[id], size))
    BY <1>1, <1>2, <1>3, <1>4, <1>5, SpentOk
  <2>2. [g.b EXCEPT ![id] = Spent(g.b[id], size)] \in List
    BY <1>1, <2>1, PutOk
  <2> HIDE DEF g
  <2> QED
    BY <1>1, <2>2 DEF Chained
<1>6. ASSUME ~(g.b[id].queued >= Queue)
      PROVE  Queued(g, id, size) \in Chained
  BY <1>1, <1>4, <1>6, QueuedOk DEF Queue
<1> HIDE DEF g
<1> QED
  BY <1>1, <1>5, <1>6 DEF QueuePacket, g

-----------------------------------------------------------------------------
(* Buckets and sessions. *)

SessionType == [state : {"free", "up", "dying"}, tbf : [Dir -> Ids], throttle : [Dir -> Rates]]

All == [b : List, chain : Ids \cup {Nobody}, pos : Ids, s : [Sess -> SessionType]]

LEMMA Smallest ==
  ASSUME NEW S \in SUBSET Nat, S # {}
  PROVE  Min(S) \in S
<1> DEFINE Less == {p \in Nat \X Nat : p[1] < p[2]}
<1>0. IsWellFoundedOn(Less, Nat)
  BY NatLessThanWellFounded DEF OpToRel
<1>1. \E x \in S : \A y \in S : ~(<<y, x>> \in Less)
  <2> HIDE DEF Less
  <2> QED
    BY <1>0, WFMin
<1>2. PICK x \in S : \A y \in S : ~(<<y, x>> \in Less)
  BY <1>1
<1>3. ASSUME NEW y \in S PROVE x =< y
  <2>1. x \in Nat /\ y \in Nat /\ ~(<<y, x>> \in Less)
    BY <1>2, <1>3
  <2>2. ~(y < x)
    BY <2>1
  <2> QED
    BY <2>1, <2>2
<1> HIDE DEF Less
<1> QED
  BY <1>3 DEF Min

LEMMA FreeTbfOk ==
  ASSUME NEW m \in All, NEW id \in Ids
  PROVE  FreeTbf(m, id) \in All
<1> DEFINE f == [b |-> m.b, chain |-> m.chain]
           g == IF m.b[id].next # 0 THEN DelFromTimer(f, id) ELSE f
<1>1. f \in Chained
  BY DEF All, Chained
<1>2. g \in Chained
  BY <1>1, DelFromTimerOk
<1>3. Ok(Unused)
  BY UnusedOk
<1> HIDE DEF g
<1>4. [g.b EXCEPT ![id] = Unused] \in List /\ g.chain \in Ids \cup {Nobody}
  BY <1>2, <1>3, PutOk DEF Chained
<1>5. FreeTbf(m, id) = IF id < 1 THEN m ELSE [m EXCEPT !.b = [g.b EXCEPT ![id] = Unused], !.chain = g.chain]
  BY DEF FreeTbf, g
<1> QED
  BY <1>4, <1>5 DEF All

LEMMA NewTbfOk ==
  ASSUME NEW m \in All, NEW i \in Sess, NEW dir \in Dir, NEW bytes \in Nat, now \in 0 .. Word - 1
  PROVE  NewTbf(m, i, dir, bytes).m \in All /\ NewTbf(m, i, dir, bytes).id \in Ids
<1> DEFINE S  == {k \in Ids : m.b[(m.pos + k) % NumTbfs].sid = 0}
           id == (m.pos + Min(S)) % NumTbfs
           g  == Bucket(i, dir, bytes, 2 * bytes, now)
<1>1. m.b \in List /\ m.pos \in Ids /\ NumTbfs \in Nat \ {0} /\ 0 \in Ids
  BY NumbersAreNats DEF All, Ids
<1>2. CASE \A k \in Ids : m.b[k].sid # 0
  BY <1>1, <1>2 DEF NewTbf
<1>3. CASE \E k \in Ids : m.b[k].sid = 0
  <2>1. S # {}
    <3>1. PICK k \in Ids : m.b[k].sid = 0
      BY <1>3
    <3> DEFINE j == IF k >= m.pos THEN k - m.pos ELSE k + NumTbfs - m.pos
    <3>2. j \in Ids /\ (m.pos + j) % NumTbfs = k
      BY <1>1 DEF Ids
    <3> QED
      BY <3>1, <3>2
  <2>2. Min(S) \in S /\ S \subseteq Nat
    <3>1. S \in SUBSET Nat
      BY DEF Ids
    <3> HIDE DEF S
    <3> QED
      BY <2>1, <3>1, Smallest
  <2>3. m.pos + Min(S) \in Nat
    <3>1. m.pos \in Nat
      BY <1>1 DEF Ids
    <3> HIDE DEF S
    <3>2. Min(S) \in Nat
      BY <2>2
    <3> QED
      BY <3>1, <3>2
  <2>4. id \in Ids
    BY <1>1, <2>3, Remainder DEF Ids
  <2>5. Ok(g)
    BY BucketOk
  <2> HIDE DEF id, g
  <2>6. [m.b EXCEPT ![id] = g] \in List
    BY <1>1, <2>4, <2>5, PutOk
  <2>7. [m EXCEPT !.pos = id, !.b[id] = g] \in All
    BY <2>4, <2>6 DEF All
  <2>8. NewTbf(m, i, dir, bytes) = [m |-> [m EXCEPT !.pos = id, !.b[id] = g], id |-> id]
    BY <1>3 DEF NewTbf, id, g
  <2> QED
    BY <2>4, <2>7, <2>8
<1> QED
  BY <1>2, <1>3

LEMMA ThrottleOneOk ==
  ASSUME NEW m \in All, NEW i \in Sess, NEW dir \in Dir, NEW rate \in Rates \cup {-1}, now \in 0 .. Word - 1
  PROVE  ThrottleOne(m, i, dir, rate) \in All
<1> DEFINE freed == IF m.s[i].tbf[dir] # 0 THEN FreeTbf(m, m.s[i].tbf[dir]) ELSE m
           new   == NewTbf(freed, i, dir, rate * Kbit)
           got   == IF rate > 0 THEN new ELSE [m |-> freed, id |-> 0]
           r     == [got.m EXCEPT !.s[i].tbf[dir] = got.id, !.s[i].throttle[dir] = rate]
<1>1. m.s[i].tbf[dir] \in Ids /\ 0 \in Ids
  BY NumbersAreNats DEF All, SessionType, Ids
<1>2. freed \in All
  BY <1>1, FreeTbfOk
<1>3. CASE rate < 0
  BY <1>3 DEF ThrottleOne
<1>4. CASE ~(rate < 0)
  <2>1. rate \in Rates /\ rate \in Nat /\ Kbit \in Nat
    BY <1>4, NumbersAreNats
  <2>2. rate * Kbit \in Nat
    BY <2>1, Product
  <2> HIDE DEF freed
  <2>3. new.m \in All /\ new.id \in Ids
    BY <1>2, <2>2, NewTbfOk
  <2> HIDE DEF new
  <2>4. got.m \in All /\ got.id \in Ids
    BY <1>1, <1>2, <2>3
  <2>5. ThrottleOne(m, i, dir, rate) = r
    BY <1>4 DEF ThrottleOne, got, new, freed
  <2> HIDE DEF got
  <2>6. r \in All
    <3> DEFINE t  == got.m.s[i]
               t1 == [t EXCEPT !.tbf = [t.tbf EXCEPT ![dir] = got.id]]
               t2 == [t1 EXCEPT !.throttle = [t.throttle EXCEPT ![dir] = rate]]
    <3>1. t \in SessionType
      BY <2>4 DEF All
    <3>2. [t.tbf EXCEPT ![dir] = got.id] \in [Dir -> Ids] /\ [t.throttle EXCEPT ![dir] = rate] \in [Dir -> Rates]
      BY <2>1, <2>4, <3>1 DEF SessionType
    <3>3. t1 \in SessionType
      BY <3>1, <3>2 DEF SessionType
    <3>4. t1.throttle = t.throttle
      BY <3>1 DEF SessionType
    <3>5. t2 \in SessionType
      <4> HIDE DEF t, t1
      <4> QED
        BY <3>2, <3>3 DEF SessionType
    <3>6. r = [got.m EXCEPT !.s = [got.m.s EXCEPT ![i] = t2]]
      BY <2>4, <3>1, <3>4 DEF All, SessionType
    <3> HIDE DEF t2, r
    <3> QED
      BY <2>4, <3>5, <3>6 DEF All
  <2> QED
    BY <2>5, <2>6
<1> QED
  BY <1>3, <1>4

LEMMA ThrottleSessionOk ==
  ASSUME NEW m \in All, NEW i \in Sess, NEW in \in Rates \cup {-1}, NEW out \in Rates \cup {-1}, now \in 0 .. Word - 1
  PROVE  ThrottleSession(m, i, in, out) \in All
<1>1. ThrottleOne(m, i, "in", in) \in All
  BY ThrottleOneOk DEF Dir
<1>2. ThrottleOne(ThrottleOne(m, i, "in", in), i, "out", out) \in All
  BY <1>1, ThrottleOneOk DEF Dir
<1> QED
  BY <1>2 DEF ThrottleSession

LEMMA UnthrottledOk ==
  ASSUME NEW m \in All, NEW i \in Sess, now \in 0 .. Word - 1
  PROVE  Unthrottled(m, i) \in All
  BY ThrottleSessionOk, NumbersAreNats DEF Unthrottled

-----------------------------------------------------------------------------
(* The steps. *)

Rest ==
  /\ walk \in [i : Ids \cup {Nobody}, last : Ids \cup {Nobody}] /\ todo \subseteq Sess
  /\ now \in 0 .. Word - 1 /\ ran \in BOOLEAN
  /\ packets \in 0 .. MaxPackets /\ ops \in 0 .. MaxOps

IInv == Tables \in All /\ Rest

LEMMA TablesParts == Tables \in All <=> /\ b \in List /\ chain \in Ids \cup {Nobody} /\ pos \in Ids
                                        /\ s \in [Sess -> SessionType]
  BY DEF Tables, All

LEMMA TablesPartsNext ==
  ASSUME b' \in List, chain' \in Ids \cup {Nobody}, pos' \in Ids, s' \in [Sess -> SessionType]
  PROVE  (Tables \in All)'
  BY DEF Tables, All

LEMMA BecomeOk ==
  ASSUME NEW m, m \in All, Become(m)
  PROVE  (Tables \in All)'
  BY TablesPartsNext DEF Become, All

\* A step of a session changes nothing else.
LEMMA OpOk ==
  ASSUME Rest, Op
  PROVE  Rest'
  BY NumbersAreNats DEF Rest, Op

LEMMA FilterListOk == Filters \in List /\ Free \in SessionType /\ 0 \in Ids /\ Nobody \notin Sess
<1>1. Ok(Unused)
  BY UnusedOk
<1>2. Ok([Unused EXCEPT !.sid = Nobody])
  BY <1>1 DEF Ok, Covered, BucketType
<1>3. Filters \in List
  BY <1>1, <1>2 DEF Filters, List, OkBucket, Ok
<1>4. 0 \in Ids /\ 0 \in Rates
  BY NumbersAreNats DEF Ids
<1>5. Free \in SessionType
  BY <1>4 DEF Free, SessionType
<1> QED
  BY <1>3, <1>4, <1>5, SessionsAreNumbers DEF Nobody

LEMMA InitOk == Init => IInv
<1> SUFFICES ASSUME Init PROVE IInv
  OBVIOUS
<1>1. Tables \in All
  BY FilterListOk, TablesParts DEF Init
<1>2. Rest
  BY NumbersAreNats DEF Init, Rest, Stopped
<1> QED
  BY <1>1, <1>2 DEF IInv

LEMMA SessionStepsOk ==
  ASSUME IInv, NEW i \in Sess, NEW in \in Rates \cup {-1}, NEW out \in Rates \cup {-1},
         Setup(i, in, out) \/ Throttle(i, in, out) \/ Reset(i) \/ Shutdown(i) \/ Kill(i)
  PROVE  IInv'
<1>0. Tables \in All /\ Rest /\ now \in 0 .. Word - 1 /\ s \in [Sess -> SessionType] /\ 0 \in Rates
  BY TablesParts, NumbersAreNats DEF IInv, Rest
<1>1. CASE Setup(i, in, out)
  <2> DEFINE said(d, r) == IF r < 0 THEN s[i].throttle[d] ELSE r
             t == [s[i] EXCEPT !.state = IF @ = "free" THEN "up" ELSE @,
                               !.throttle = [d \in Dir |-> said(d, IF d = "in" THEN in ELSE out)]]
             m == [Tables EXCEPT !.s[i] = t]
             r == IF Throttled(t) THEN ThrottleSession(m, i, t.throttle["in"], t.throttle["out"]) ELSE m
  <2>1. \A d \in Dir : said(d, IF d = "in" THEN in ELSE out) \in Rates
    BY <1>0, NumbersAreNats DEF SessionType
  <2>2. t \in SessionType
    <3> DEFINE th == [d \in Dir |-> said(d, IF d = "in" THEN in ELSE out)]
    <3>1. th \in [Dir -> Rates]
      BY <2>1
    <3> DEFINE st == IF s[i].state = "free" THEN "up" ELSE s[i].state
    <3>2. s[i] \in SessionType /\ st \in {"free", "up", "dying"}
      BY <1>0 DEF SessionType
    <3>3. t = [s[i] EXCEPT !.state = st, !.throttle = th]
      BY <3>2 DEF SessionType
    <3> HIDE DEF th, st, t
    <3> QED
      BY <3>1, <3>2, <3>3 DEF SessionType
  <2>3. Op /\ Become(r)
    BY <1>1 DEF Setup
  <2> HIDE DEF t
  <2>4. m \in All
    BY <1>0, <2>2 DEF All, Tables
  <2>5. t.throttle["in"] \in Rates /\ t.throttle["out"] \in Rates
    BY <2>2 DEF SessionType, Dir
  <2> HIDE DEF m
  <2>6. r \in All
    BY <1>0, <2>4, <2>5, ThrottleSessionOk
  <2> HIDE DEF r
  <2> QED
    BY <1>0, <2>3, <2>6, BecomeOk, OpOk DEF IInv
<1>2. CASE Throttle(i, in, out)
  <2>1. ThrottleSession(Tables, i, in, out) \in All
    BY <1>0, ThrottleSessionOk
  <2> QED
    BY <1>0, <1>2, <2>1, BecomeOk, OpOk DEF IInv, Throttle
<1>3. CASE Reset(i)
  <2>1. ThrottleSession(Tables, i, 0, 0) \in All
    BY <1>0, ThrottleSessionOk
  <2> QED
    BY <1>0, <1>3, <2>1, BecomeOk, OpOk DEF IInv, Reset
<1>4. CASE Shutdown(i)
  <2> DEFINE u == Unthrottled(Tables, i)
  <2>1. u \in All
    BY <1>0, UnthrottledOk
  <2>2. Op /\ Become([u EXCEPT !.s[i].state = "dying"])
    BY <1>4 DEF Shutdown
  <2> HIDE DEF u
  <2>3. [u EXCEPT !.s[i].state = "dying"] \in All
    <3>1. [u.s[i] EXCEPT !.state = "dying"] \in SessionType
      BY <2>1 DEF All, SessionType
    <3> QED
      BY <2>1, <3>1 DEF All
  <2> QED
    BY <1>0, <2>2, <2>3, BecomeOk, OpOk DEF IInv
<1>5. CASE Kill(i)
  <2> DEFINE u == IF s[i].state = "up" THEN Unthrottled(Tables, i) ELSE Tables
  <2>1. u \in All
    BY <1>0, UnthrottledOk
  <2>2. Op /\ Become([u EXCEPT !.s[i] = Free])
    BY <1>5 DEF Kill
  <2> HIDE DEF u
  <2>3. [u EXCEPT !.s[i] = Free] \in All
    BY <2>1, FilterListOk DEF All
  <2> QED
    BY <1>0, <2>2, <2>3, BecomeOk, OpOk DEF IInv
<1> QED
  BY <1>1, <1>2, <1>3, <1>4, <1>5

LEMMA OtherStepsOk ==
  ASSUME IInv,
         \/ FailOver \/ Restore \/ RunTimer \/ TimerStep
         \/ \E id \in Ids \ {0}, size \in Sizes : Packet(id, size)
         \/ \E d \in Jumps : Tick(d)
         \/ UNCHANGED vars
  PROVE  IInv'
<1>0. /\ Tables \in All /\ Rest /\ b \in List /\ chain \in Ids \cup {Nobody} /\ pos \in Ids
      /\ s \in [Sess -> SessionType] /\ now \in 0 .. Word - 1
  BY TablesParts DEF IInv, Rest
<1>1. CASE FailOver
  <2>1. (Tables \in All)'
    BY <1>0, <1>1, FilterListOk, TablesPartsNext DEF FailOver
  <2>2. Rest'
    BY <1>0, <1>1, NumbersAreNats DEF FailOver, Rest
  <2> QED
    BY <2>1, <2>2 DEF IInv
<1>2. CASE Restore
  <2> DEFINE i == Min(todo)
             m == [Tables EXCEPT !.s[i].tbf = Free.tbf]
             r == ThrottleSession(m, i, s[i].throttle["in"], s[i].throttle["out"])
  <2>1. i \in Sess
    <3>1. todo \in SUBSET Nat /\ todo # {} /\ todo \subseteq Sess
      BY <1>0, <1>2, SessionsAreNumbers DEF Restore, Rest
    <3> QED
      BY <3>1, Smallest
  <2>2. Become(r)
    BY <1>2 DEF Restore
  <2>3. Rest'
    BY <1>0, <1>2 DEF Restore, Rest
  <2> HIDE DEF i
  <2>4. [s[i] EXCEPT !.tbf = Free.tbf] \in SessionType
    BY <1>0, <2>1, FilterListOk DEF SessionType
  <2>5. m \in All
    BY <1>0, <2>1, <2>4 DEF All, Tables
  <2>6. s[i].throttle["in"] \in Rates /\ s[i].throttle["out"] \in Rates
    BY <1>0, <2>1 DEF SessionType, Dir
  <2> HIDE DEF m
  <2>7. r \in All
    BY <1>0, <2>1, <2>5, <2>6, ThrottleSessionOk
  <2> HIDE DEF r
  <2> QED
    BY <2>2, <2>3, <2>7, BecomeOk DEF IInv
<1>3. CASE RunTimer
  <2>1. (Tables \in All)'
    BY <1>0, <1>3, TablesPartsNext DEF RunTimer
  <2>2. chain # Nobody => b[chain].prev \in Ids
    BY <1>0, ListOk, Fields
  <2>3. Rest'
    BY <1>0, <1>3, <2>2 DEF RunTimer, Rest, Stopped
  <2> QED
    BY <2>1, <2>3 DEF IInv
<1>4. CASE TimerStep
  <2> DEFINE f == RunQueue([b |-> b, chain |-> chain], walk.i)
             i == b[walk.i].next
  <2>1. walk.i \in Ids
    BY <1>0, <1>4 DEF TimerStep, Rest
  <2>2. [b |-> b, chain |-> chain] \in Chained
    BY <1>0 DEF Chained
  <2>3. f \in Chained /\ i \in Ids
    BY <1>0, <2>1, <2>2, RunQueueOk, ListOk, Fields
  <2>4. /\ b' = f.b /\ chain' = f.chain /\ UNCHANGED <<pos, s, todo, now, ran, packets, ops>>
        /\ walk' = IF f.chain > 0 /\ i # 0 /\ walk.i # walk.last THEN [walk EXCEPT !.i = i] ELSE Stopped
    BY <1>4 DEF TimerStep
  <2> HIDE DEF f, i
  <2>5. (Tables \in All)'
    BY <1>0, <2>3, <2>4, TablesPartsNext DEF Chained
  <2>6. Rest'
    BY <1>0, <2>3, <2>4 DEF Rest, Stopped
  <2> QED
    BY <2>5, <2>6 DEF IInv
<1>5. ASSUME NEW id \in Ids \ {0}, NEW size \in Sizes, Packet(id, size)
      PROVE  IInv'
  <2> DEFINE f == QueuePacket([b |-> b, chain |-> chain], id, size)
  <2>1. [b |-> b, chain |-> chain] \in Chained
    BY <1>0 DEF Chained
  <2>2. f \in Chained
    BY <2>1, QueuePacketOk
  <2>3. /\ b' = f.b /\ chain' = f.chain /\ packets < MaxPackets /\ packets' = packets + 1
        /\ UNCHANGED <<pos, s, walk, todo, now, ran, ops>>
    BY <1>5 DEF Packet
  <2> HIDE DEF f
  <2>4. (Tables \in All)'
    BY <1>0, <2>2, <2>3, TablesPartsNext DEF Chained
  <2>5. Rest'
    BY <1>0, <2>3, NumbersAreNats DEF Rest
  <2> QED
    BY <2>4, <2>5 DEF IInv
<1>6. ASSUME NEW d \in Jumps, Tick(d)
      PROVE  IInv'
  <2>1. d \in Nat /\ Word \in Nat \ {0} /\ now + d \in Nat
    BY <1>0, NumbersAreNats
  <2>2. now' \in 0 .. Word - 1
    BY <1>6, <2>1, Remainder DEF Tick
  <2>3. \A i \in Ids : b[i] \in OkBucket /\ Older(b[i], d) \in OkBucket
    BY <1>0, <2>1, ListOk, OlderOk DEF OkBucket, Ok
  <2>4. b' \in List
    BY <1>6, <2>3 DEF Tick, List
  <2>5. (Tables \in All)'
    BY <1>0, <1>6, <2>4, TablesPartsNext DEF Tick
  <2>6. Rest'
    BY <1>0, <1>6, <2>2 DEF Tick, Rest
  <2> QED
    BY <2>5, <2>6 DEF IInv
<1>7. CASE UNCHANGED vars
  <2>1. (Tables \in All)'
    BY <1>0, <1>7, TablesPartsNext DEF vars
  <2>2. Rest'
    BY <1>0, <1>7 DEF Rest, vars
  <2> QED
    BY <2>1, <2>2 DEF IInv
<1> QED
  BY <1>1, <1>2, <1>3, <1>4, <1>5, <1>6, <1>7

LEMMA StepOk == IInv /\ [Next]_vars => IInv'
<1> SUFFICES ASSUME IInv, [Next]_vars PROVE IInv'
  OBVIOUS
<1>1. \/ \E i \in Sess : \E in, out \in Rates \cup {-1} :
              Setup(i, in, out) \/ Throttle(i, in, out) \/ Reset(i) \/ Shutdown(i) \/ Kill(i)
      \/ FailOver \/ Restore \/ RunTimer \/ TimerStep
      \/ \E id \in Ids \ {0}, size \in Sizes : Packet(id, size)
      \/ \E d \in Jumps : Tick(d)
      \/ UNCHANGED vars
  BY DEF Next, Loop
<1> QED
  BY <1>1, SessionStepsOk, OtherStepsOk

\* What new_tbf, throttle_session and the timer chain do keeps every table in its type.
THEOREM TypeCorrect == Spec => []TypeOK
<1>1. IInv => TypeOK
  <2> SUFFICES ASSUME IInv PROVE TypeOK
    OBVIOUS
  <2>1. b \in [Ids -> BucketType]
    BY TablesParts DEF IInv, List, OkBucket
  <2> QED
    BY <2>1, TablesParts DEF IInv, Rest, TypeOK, BucketType, SessionType
<1> QED
  BY <1>1, InitOk, StepOk, PTL DEF Spec

\* A bucket passes no more than its burst and its rate allow, over any stretch of its life, however late the
\* main loop runs its queue, however often packets run it in between and wherever TIME and its product with
\* the rate wrap.
THEOREM RateKept == Spec => []Conforms
<1>1. IInv => Conforms
  <2> SUFFICES ASSUME IInv, NEW i \in Ids PROVE b[i].allow >= 0
    BY DEF Conforms
  <2> DEFINE f == b[i]
  <2>1. f \in BucketType /\ Covered(f)
    BY TablesParts, ListOk DEF IInv, Ok
  <2>2. f.credit \in Nat /\ f.age \in Nat /\ f.max \in Nat /\ f.rate \in Nat /\ f.allow \in Int /\ Ticks \in Nat
    <3> HIDE DEF f
    <3>1. f \in BucketType /\ Ticks \in Nat
      BY <2>1, NumbersAreNats
    <3> QED
      BY <3>1, Fields
  <2>3. f.max * Ticks \in Nat /\ f.credit * Ticks \in Nat /\ f.age * f.rate \in Nat
    BY <2>2, Product
  <2> QED
    BY <2>1, <2>2, <2>3 DEF Covered
<1> QED
  BY <1>1, InitOk, StepOk, PTL DEF Spec

-----------------------------------------------------------------------------
(* The timer chain. *)

Nexts(l) == [i \in Ids |-> l[i].next]
Prevs(l) == [i \in Ids |-> l[i].prev]
On(n)    == {i \in Ids : n[i] # 0}

Links == [Ids -> Ids]

\* n and p link what is on the chain into one ring, both ways, and its head c is on it.
Linked(n, p, c) ==
  /\ n[0] = 0
  /\ \A i \in On(n) : n[i] \in On(n) /\ p[i] \in On(n) /\ p[n[i]] = i /\ n[p[i]] = i
  /\ IF On(n) = {} THEN c = Nobody ELSE c \in On(n)
  /\ \A S \in SUBSET On(n) : c \in S /\ (\A i \in S : n[i] \in S) => S = On(n)

\* Taking one off leaves a ring of the others.
LEMMA LinkOff ==
  ASSUME NEW n \in Links, NEW p, NEW c, Linked(n, p, c), NEW id \in On(n),
         NEW n2 \in Links, NEW p2, n2[id] = 0,
         \A j \in Ids \ {id} : n2[j] = IF j = p[id] THEN n[id] ELSE n[j],
         \A j \in Ids \ {id} : p2[j] = IF j = n[id] THEN p[id] ELSE p[j]
  PROVE  /\ On(n2) = On(n) \ {id}
         /\ Linked(n2, p2, IF c # id THEN c ELSE IF n[id] = id THEN Nobody ELSE n[id])
<1> DEFINE O == On(n)
           d == IF c # id THEN c ELSE IF n[id] = id THEN Nobody ELSE n[id]
<1>0. /\ n[0] = 0 /\ c \in O /\ 0 \notin O /\ id # 0 /\ O \subseteq Ids /\ id \in O /\ 0 \in Ids
      /\ \A i \in O : n[i] \in O /\ p[i] \in O /\ p[n[i]] = i /\ n[p[i]] = i
      /\ \A S \in SUBSET O : c \in S /\ (\A i \in S : n[i] \in S) => S = O
  BY NumbersAreNats DEF Linked, On, Ids
<1>1. On(n2) = O \ {id}
  <2>1. ASSUME NEW j \in Ids \ {id} PROVE n2[j] # 0 <=> n[j] # 0
    BY <1>0, <2>1 DEF On
  <2> QED
    BY <2>1 DEF On
<1>2. \A j \in O \ {id} : n2[j] = (IF n[j] = id THEN n[id] ELSE n[j]) /\ p2[j] = (IF p[j] = id THEN p[id] ELSE p[j])
  BY <1>0
<1> HIDE DEF O
<1>3. n2[0] = 0
  BY <1>0, <1>1 DEF On
<1>4. \A i \in O \ {id} : /\ n2[i] \in O \ {id} /\ p2[i] \in O \ {id} 
                          /\ p2[n2[i]] = i /\ n2[p2[i]] = i
  <2> SUFFICES ASSUME NEW i \in O \ {id}
               PROVE  /\ n2[i] \in O \ {id} /\ p2[i] \in O \ {id} 
                      /\ p2[n2[i]] = i /\ n2[p2[i]] = i
    OBVIOUS
  <2>1. n[i] \in O /\ p[i] \in O /\ n[id] \in O /\ p[id] \in O /\ p[n[i]] = i /\ n[p[i]] = i /\ p[n[id]] = id /\ n[p[id]] = id
    BY <1>0
  <2>2. n2[i] \in O \ {id} /\ p2[i] \in O \ {id}
    BY <1>2, <2>1
  <2>3. p2[n2[i]] = i
    BY <1>2, <2>1, <2>2
  <2>4. n2[p2[i]] = i
    BY <1>2, <2>1, <2>2
  <2> QED
    BY <2>2, <2>3, <2>4
<1>5. ASSUME n[id] = id PROVE Linked(n2, p2, d)
  <2>1. O = {id}
    <3>1. p[id] = id
      BY <1>0, <1>5
    <3>2. \A i \in O \ {id} : n[i] \in O \ {id}
      BY <1>0, <3>1
    <3>3. c = id
      BY <1>0, <3>2
    <3>4. {id} \in SUBSET O /\ c \in {id} /\ \A i \in {id} : n[i] \in {id}
      BY <1>0, <1>5, <3>3
    <3> QED
      BY <1>0, <3>4
  <2>2. On(n2) = {} /\ d = Nobody
    BY <1>0, <1>1, <1>5, <2>1
  <2> HIDE DEF d
  <2> QED
    BY <1>3, <2>2 DEF Linked, Nobody
<1>6. ASSUME n[id] # id PROVE Linked(n2, p2, d)
  <2>1. d \in O \ {id}
    BY <1>0, <1>6
  <2>2. ASSUME NEW S \in SUBSET (O \ {id}), d \in S, \A i \in S : n2[i] \in S
        PROVE  S = O \ {id}
    <3> DEFINE T == S \cup {id}
    <3>1. CASE p[id] \in S
      <4>0. p[id] \in O \ {id} /\ n[p[id]] = id
        BY <1>0, <2>2, <3>1
      <4>1. n[id] \in S
        BY <1>2, <2>2, <3>1, <4>0
      <4>2. \A i \in T : n[i] \in T
        BY <1>2, <2>2, <4>1
      <4>3. c \in T /\ T \in SUBSET O
        BY <1>0, <2>2
      <4>4. T = O
        BY <1>0, <4>2, <4>3
      <4> QED
        BY <2>2, <4>4
    <3>2. CASE p[id] \notin S
      <4>1. \A i \in S : n[i] # id /\ n[i] \in S
        BY <1>0, <1>2, <2>2, <3>2
      <4>2. CASE c # id
        <5>1. c \in S /\ S \in SUBSET O
          BY <2>2, <4>2
        <5>2. S = O
          BY <1>0, <4>1, <5>1
        <5> QED
          BY <2>2, <5>2, <1>0
      <4>3. CASE c = id
        <5>1. n[id] \in S
          BY <1>6, <2>2, <4>3
        <5>2. \A i \in T : n[i] \in T
          BY <4>1, <5>1
        <5>3. c \in T /\ T \in SUBSET O
          BY <1>0, <2>2, <4>3
        <5>4. T = O
          BY <1>0, <5>2, <5>3
        <5> QED
          BY <2>2, <5>4
      <4> QED
        BY <4>2, <4>3
    <3> QED
      BY <3>1, <3>2
  <2> HIDE DEF d
  <2> QED
    BY <1>1, <1>3, <1>4, <2>1, <2>2 DEF Linked, d
<1> QED
  BY <1>1, <1>5, <1>6 DEF O, d

\* Putting one at the end makes a ring of all.
LEMMA LinkOn ==
  ASSUME NEW n \in Links, NEW p, NEW c, Linked(n, p, c), NEW id \in Ids \ {0}, id \notin On(n),
         NEW n2 \in Links, NEW p2,
         IF c = Nobody THEN n2[id] = id /\ p2[id] = id ELSE n2[id] = c /\ p2[id] = p[c],
         \A j \in Ids \ {id} : n2[j] = (IF c # Nobody /\ j = p[c] THEN id ELSE n[j]),
         \A j \in Ids \ {id} : p2[j] = (IF j = c THEN id ELSE p[j])
  PROVE  /\ On(n2) = On(n) \cup {id}
         /\ Linked(n2, p2, IF c = Nobody THEN id ELSE c)
<1> DEFINE O == On(n)
           d == IF c = Nobody THEN id ELSE c
<1>0. /\ n[0] = 0 /\ 0 \notin O /\ O \subseteq Ids /\ Nobody \notin Ids /\ 0 \in Ids
      /\ \A i \in O : n[i] \in O /\ p[i] \in O /\ p[n[i]] = i /\ n[p[i]] = i
      /\ IF O = {} THEN c = Nobody ELSE c \in O
      /\ \A S \in SUBSET O : c \in S /\ (\A i \in S : n[i] \in S) => S = O
  BY NumbersAreNats DEF Linked, On, Nobody, Ids
<1>1. On(n2) = O \cup {id} /\ n2[0] = 0
  <2>1. n2[id] # 0
    BY <1>0
  <2>2. ASSUME NEW j \in Ids \ {id} PROVE n2[j] # 0 <=> n[j] # 0
    BY <1>0, <2>2 DEF On
  <2>3. 0 \in Ids
    BY NumbersAreNats DEF Ids
  <2> QED
    BY <1>0, <2>1, <2>2, <2>3 DEF On
<1>2. ASSUME c = Nobody PROVE Linked(n2, p2, d)
  <2>1. O = {}
    BY <1>0, <1>2
  <2>2. On(n2) = {id} /\ n2[id] = id /\ p2[id] = id /\ d = id
    BY <1>1, <1>2, <2>1
  <2> HIDE DEF O, d
  <2> QED
    BY <1>1, <2>2 DEF Linked
<1>3. ASSUME c # Nobody PROVE Linked(n2, p2, d)
  <2>1. c \in O /\ d = c /\ id # c /\ p[c] \in O /\ n[p[c]] = c /\ id # p[c] /\ n2[id] = c /\ p2[id] = p[c]
    BY <1>0, <1>3
  <2> HIDE DEF O, d
  <2>2. /\ \A j \in O : n2[j] = (IF j = p[c] THEN id ELSE n[j]) /\ p2[j] = (IF j = c THEN id ELSE p[j])
    BY <1>0, <1>3 DEF O
  <2>3. ASSUME NEW i \in O \cup {id}
        PROVE  n2[i] \in O \cup {id} /\ p2[i] \in O \cup {id} /\ p2[n2[i]] = i /\ n2[p2[i]] = i
    <3>1. CASE i = id
      BY <2>1, <2>2, <3>1
    <3>2. CASE i \in O
      <4>1. n[i] \in O /\ p[i] \in O /\ p[n[i]] = i /\ n[p[i]] = i
        BY <1>0, <3>2
      <4>2. n2[i] \in O \cup {id} /\ p2[i] \in O \cup {id}
        BY <2>2, <3>2, <4>1
      <4>3. p2[n2[i]] = i
        BY <2>1, <2>2, <3>2, <4>1
      <4>4. n2[p2[i]] = i
        BY <2>1, <2>2, <3>2, <4>1
      <4> QED
        BY <4>2, <4>3, <4>4
    <3> QED
      BY <2>3, <3>1, <3>2
  <2>4. ASSUME NEW S \in SUBSET (O \cup {id}), c \in S, \A i \in S : n2[i] \in S
        PROVE  S = O \cup {id}
    <3> DEFINE T == S \ {id}
    <3>1. c \in T /\ T \in SUBSET O
      BY <2>1, <2>4
    <3>2. \A i \in T : n[i] \in T
      <4> SUFFICES ASSUME NEW i \in T PROVE n[i] \in T
        OBVIOUS
      <4>1. i \in O /\ n[i] \in O /\ n[i] # id
        BY <1>0, <3>1 DEF O
      <4>2. CASE i = p[c]
        BY <2>1, <3>1, <4>2
      <4>3. CASE i # p[c]
        BY <2>2, <2>4, <4>1, <4>3
      <4> QED
        BY <4>2, <4>3
    <3>3. T = O
      BY <1>0, <3>1, <3>2
    <3>4. id \in S
      BY <2>1, <2>2, <2>4, <3>3
    <3> QED
      BY <2>4, <3>3, <3>4
  <2> QED
    BY <1>1, <2>1, <2>3, <2>4 DEF Linked
<1> QED
  BY <1>1, <1>2, <1>3 DEF O, d

-----------------------------------------------------------------------------
(* Buckets on the chain. *)

\* On the chain are the buckets in which packets wait; the reserved one is in use, and on no chain.
Waits(l)   == l[0].sid = Nobody /\ \A i \in Ids : l[i].next # 0 <=> l[i].queued > 0 /\ l[i].sid # 0
Fits(l, c) == Linked(Nexts(l), Prevs(l), c) /\ Waits(l)

\* The lists differ in their links only.
Relinks(l, m) ==
  \A j \in Ids : /\ l[j].sid = m[j].sid /\ l[j].send = m[j].send /\ l[j].queued = m[j].queued
                 /\ l[j].age = m[j].age

SetNext(l, i, x) == [l EXCEPT ![i].next = x]
SetPrev(l, i, x) == [l EXCEPT ![i].prev = x]

NextSet(m, l, i, x) ==
  /\ m \in List /\ Relinks(m, l)
  /\ \A j \in Ids : m[j].next = (IF j = i THEN x ELSE l[j].next) /\ m[j].prev = l[j].prev

PrevSet(m, l, i, x) ==
  /\ m \in List /\ Relinks(m, l)
  /\ \A j \in Ids : m[j].prev = (IF j = i THEN x ELSE l[j].prev) /\ m[j].next = l[j].next

LEMMA NextIs ==
  ASSUME NEW l \in List, NEW i \in Ids, NEW x \in Ids
  PROVE  NextSet(SetNext(l, i, x), l, i, x)
<1> DEFINE m == SetNext(l, i, x)
<1>1. m \in List
  BY RelinkListOk DEF SetNext
<1>2. ASSUME NEW j \in Ids
      PROVE  /\ m[j].next = (IF j = i THEN x ELSE l[j].next) /\ m[j].prev = l[j].prev
             /\ m[j].sid = l[j].sid /\ m[j].send = l[j].send /\ m[j].queued = l[j].queued /\ m[j].age = l[j].age
  <2>1. l[j] \in BucketType /\ m[j] = IF j = i THEN [l[j] EXCEPT !.next = x] ELSE l[j]
    BY ListOk DEF List, SetNext
  <2> QED
    BY <2>1 DEF BucketType
<1> QED
  BY <1>1, <1>2 DEF Relinks, NextSet

LEMMA PrevIs ==
  ASSUME NEW l \in List, NEW i \in Ids, NEW x \in Ids
  PROVE  PrevSet(SetPrev(l, i, x), l, i, x)
<1> DEFINE m == SetPrev(l, i, x)
<1>1. m \in List
  BY RelinkListOk DEF SetPrev
<1>2. ASSUME NEW j \in Ids
      PROVE  /\ m[j].prev = (IF j = i THEN x ELSE l[j].prev) /\ m[j].next = l[j].next
             /\ m[j].sid = l[j].sid /\ m[j].send = l[j].send /\ m[j].queued = l[j].queued /\ m[j].age = l[j].age
  <2>1. l[j] \in BucketType /\ m[j] = IF j = i THEN [l[j] EXCEPT !.prev = x] ELSE l[j]
    BY ListOk DEF List, SetPrev
  <2> QED
    BY <2>1 DEF BucketType
<1> QED
  BY <1>1, <1>2 DEF Relinks, PrevSet

LEMMA AddToTimerIs ==
  ASSUME NEW f \in Chained, NEW id \in Ids, Linked(Nexts(f.b), Prevs(f.b), f.chain), f.b[id].next = 0, id # 0
  PROVE  LET g == AddToTimer(f, id)
         IN  /\ g \in Chained /\ Relinks(g.b, f.b) /\ Linked(Nexts(g.b), Prevs(g.b), g.chain)
             /\ On(Nexts(g.b)) = On(Nexts(f.b)) \cup {id}
<1> DEFINE n == Nexts(f.b)
           p == Prevs(f.b)
           c == f.chain
           g == AddToTimer(f, id)
<1>0. f.b \in List /\ c \in Ids \cup {Nobody} /\ Linked(n, p, c) /\ g \in Chained /\ g.b \in List
  BY AddToTimerOk DEF Fits, Chained
<1>1. n \in Links /\ Nexts(g.b) \in Links /\ id \in Ids \ {0} /\ id \notin On(n)
  <2>1. \A l \in List : Nexts(l) \in Links
    BY ListOk, Fields DEF Nexts, Links
  <2> QED
    BY <1>0, <2>1 DEF On, Nexts
<1>2. CASE c = Nobody
  <2> DEFINE l1 == [f.b EXCEPT ![id].next = id]
             l2 == [l1 EXCEPT ![id].prev = id]
  <2>1. g = [b |-> l2, chain |-> id]
    BY <1>2 DEF AddToTimer
  <2>2. NextSet(l1, f.b, id, id)
    <3>1. l1 = SetNext(f.b, id, id)
      BY DEF SetNext
    <3> HIDE DEF l1
    <3> QED
      BY <1>0, <3>1, NextIs
  <2> HIDE DEF l1
  <2>3. PrevSet(l2, l1, id, id)
    <3>1. l2 = SetPrev(l1, id, id)
      BY DEF SetPrev
    <3> HIDE DEF l2
    <3> QED
      BY <2>2, <3>1, PrevIs DEF NextSet
  <2> HIDE DEF l2
  <2>4. Relinks(l2, f.b)
    BY <2>2, <2>3 DEF Relinks, NextSet, PrevSet
  <2>5. /\ Nexts(l2)[id] = id /\ Prevs(l2)[id] = id
        /\ \A j \in Ids \ {id} : Nexts(l2)[j] = n[j] /\ Prevs(l2)[j] = p[j]
    BY <2>2, <2>3 DEF Nexts, Prevs, NextSet, PrevSet
  <2>6. On(Nexts(l2)) = On(n) \cup {id} /\ Linked(Nexts(l2), Prevs(l2), id)
    <3> DEFINE n2 == Nexts(l2)
               p2 == Prevs(l2)
    <3>1. n2 \in Links
      BY <1>1, <2>1
    <3>2. Nobody \notin Ids
      BY NumbersAreNats DEF Nobody, Ids
    <3>3. /\ \A j \in Ids \ {id} : n2[j] = (IF c # Nobody /\ j = p[c] THEN id ELSE n[j])
          /\ \A j \in Ids \ {id} : p2[j] = (IF j = c THEN id ELSE p[j])
      BY <1>2, <2>5, <3>2
    <3>4. n2[id] = id /\ p2[id] = id
      BY <2>5
    <3> HIDE DEF n, p, n2, p2, c
    <3> QED
      BY <1>0, <1>1, <1>2, <3>1, <3>3, <3>4, LinkOn DEF n2, p2
  <2> QED
    BY <1>0, <2>1, <2>4, <2>6
<1>3. CASE c # Nobody
  <2> DEFINE tail == f.b[c].prev
             l1 == [f.b EXCEPT ![id].next = c]
             l2 == [l1 EXCEPT ![id].prev = tail]
             l3 == [l2 EXCEPT ![tail].next = id]
             l4 == [l3 EXCEPT ![c].prev = id]
  <2>1. c \in Ids /\ tail \in Ids /\ c # id /\ tail # id /\ p[c] = tail
    <3>1. c \in On(n) /\ p[c] \in On(n)
      BY <1>0, <1>3 DEF Linked
    <3> QED
      BY <1>1, <3>1 DEF On, Prevs
  <2>2. g = [f EXCEPT !.b = l4]
    BY <1>0, <1>3 DEF AddToTimer, Chained
  <2>3. NextSet(l1, f.b, id, c)
    <3>1. l1 = SetNext(f.b, id, c)
      BY DEF SetNext
    <3> HIDE DEF l1
    <3> QED
      BY <1>0, <2>1, <3>1, NextIs
  <2> HIDE DEF l1, tail
  <2>4. PrevSet(l2, l1, id, tail)
    <3>1. l2 = SetPrev(l1, id, tail)
      BY DEF SetPrev
    <3> HIDE DEF l2
    <3> QED
      BY <2>1, <2>3, <3>1, PrevIs DEF NextSet
  <2> HIDE DEF l2
  <2>5. NextSet(l3, l2, tail, id)
    <3>1. l3 = SetNext(l2, tail, id)
      BY DEF SetNext
    <3> HIDE DEF l3
    <3> QED
      BY <2>1, <2>4, <3>1, NextIs DEF PrevSet
  <2> HIDE DEF l3
  <2>6. PrevSet(l4, l3, c, id)
    <3>1. l4 = SetPrev(l3, c, id)
      BY DEF SetPrev
    <3> HIDE DEF l4
    <3> QED
      BY <2>1, <2>5, <3>1, PrevIs DEF NextSet
  <2> HIDE DEF l4
  <2>7. Relinks(l4, f.b)
    BY <2>3, <2>4, <2>5, <2>6 DEF Relinks, NextSet, PrevSet
  <2> DEFINE n2 == Nexts(l4)
             p2 == Prevs(l4)
  <2>8. /\ n2[id] = c /\ p2[id] = tail
        /\ \A j \in Ids \ {id} : n2[j] = (IF j = tail THEN id ELSE n[j]) /\ p2[j] = (IF j = c THEN id ELSE p[j])
    BY <2>1, <2>3, <2>4, <2>5, <2>6 DEF Nexts, Prevs, NextSet, PrevSet
  <2>9. g.b = l4 /\ g.chain = c
    BY <1>0, <2>2 DEF Chained
  <2>10. On(n2) = On(n) \cup {id} /\ Linked(n2, p2, c)
    <3>1. n2 \in Links
      BY <1>1, <2>9
    <3>2. \A j \in Ids \ {id} : n2[j] = (IF c # Nobody /\ j = p[c] THEN id ELSE n[j])
      BY <1>3, <2>1, <2>8
    <3>3. \A j \in Ids \ {id} : p2[j] = (IF j = c THEN id ELSE p[j])
      BY <2>8
    <3>4. IF c = Nobody THEN n2[id] = id /\ p2[id] = id ELSE n2[id] = c /\ p2[id] = p[c]
      BY <1>3, <2>1, <2>8
    <3> HIDE DEF n, p, n2, p2, c
    <3> QED
      BY <1>0, <1>1, <1>3, <3>1, <3>2, <3>3, <3>4, LinkOn
  <2> QED
    BY <1>0, <2>7, <2>9, <2>10
<1> QED
  BY <1>2, <1>3

LEMMA DelFromTimerIs ==
  ASSUME NEW f \in Chained, NEW id \in Ids, Linked(Nexts(f.b), Prevs(f.b), f.chain), f.b[id].next # 0
  PROVE  LET g == DelFromTimer(f, id)
         IN  /\ g \in Chained /\ Relinks(g.b, f.b) /\ Linked(Nexts(g.b), Prevs(g.b), g.chain)
             /\ On(Nexts(g.b)) = On(Nexts(f.b)) \ {id} /\ id # 0
             /\ \A j \in Ids \ {id} : g.b[j].next = f.b[j].next \/ f.b[j].next = id
<1> DEFINE n == Nexts(f.b)
           p == Prevs(f.b)
           c == f.chain
           g == DelFromTimer(f, id)
<1>0. f.b \in List /\ c \in Ids \cup {Nobody} /\ g \in Chained /\ g.b \in List /\ 0 \in Ids
  BY DelFromTimerOk, NumbersAreNats DEF Chained, Ids
<1>1. n \in Links /\ Nexts(g.b) \in Links /\ id \in On(n) /\ id # 0
  <2>1. \A l \in List : Nexts(l) \in Links
    BY ListOk, Fields DEF Nexts, Links
  <2>2. id \in On(n)
    BY DEF On, Nexts
  <2>3. n[0] = 0
    BY DEF Linked
  <2> QED
    BY <1>0, <2>1, <2>2, <2>3 DEF On
<1> DEFINE x == f.b[id].next
           q == f.b[id].prev
           l0 == IF x = id THEN f.b ELSE [[f.b EXCEPT ![x].prev = q] EXCEPT ![q].next = x]
           l1 == [l0 EXCEPT ![id].next = 0]
           l2 == [l1 EXCEPT ![id].prev = 0]
           d  == IF c # id THEN c ELSE IF x = id THEN Nobody ELSE x
<1>2. g = [b |-> l2, chain |-> d]
  BY DEF DelFromTimer
<1>3. x \in Ids /\ q \in Ids /\ n[id] = x /\ p[id] = q /\ p[x] = id /\ n[q] = id
  <2>1. n[id] = x /\ p[id] = q
    BY DEF Nexts, Prevs, NextSet, PrevSet
  <2>2. x \in On(n) /\ q \in On(n) /\ p[x] = id /\ n[q] = id
    BY <1>1, <2>1 DEF Linked
  <2> QED
    BY <2>1, <2>2 DEF On
<1> HIDE DEF x, q
<1>4. /\ l0 \in List /\ Relinks(l0, f.b)
      /\ \A j \in Ids \ {id} : l0[j].next = (IF j = q THEN x ELSE f.b[j].next) /\ l0[j].prev = (IF j = x THEN q ELSE f.b[j].prev)
  <2>1. CASE x = id
    <3>1. q = id
      BY <1>3, <2>1 
    <3> QED
      BY <1>0, <2>1, <3>1 DEF Relinks, NextSet, PrevSet
  <2>2. CASE x # id
    <3> DEFINE m == [f.b EXCEPT ![x].prev = q]
    <3>1. PrevSet(m, f.b, x, q)
      <4>1. m = SetPrev(f.b, x, q)
        BY DEF SetPrev
      <4> HIDE DEF m
      <4> QED
        BY <1>0, <1>3, <4>1, PrevIs
    <3> HIDE DEF m
    <3>3. l0 = SetNext(m, q, x)
      BY <2>2 DEF m, SetNext
    <3> HIDE DEF l0
    <3>2. NextSet(l0, m, q, x)
      BY <1>3, <3>1, <3>3, NextIs DEF PrevSet
    <3> QED
      BY <3>1, <3>2 DEF Relinks, NextSet, PrevSet
  <2> QED
    BY <2>1, <2>2
<1> HIDE DEF l0
<1>5. NextSet(l1, l0, id, 0)
  <2>1. l1 = SetNext(l0, id, 0)
    BY DEF SetNext
  <2> HIDE DEF l1
  <2> QED
    BY <1>0, <1>4, <2>1, NextIs
<1> HIDE DEF l1
<1>6. PrevSet(l2, l1, id, 0)
  <2>1. l2 = SetPrev(l1, id, 0)
    BY DEF SetPrev
  <2> HIDE DEF l2
  <2> QED
    BY <1>0, <1>5, <2>1, PrevIs DEF NextSet
<1> HIDE DEF l2
<1>7. Relinks(l2, f.b)
  BY <1>4, <1>5, <1>6 DEF Relinks, NextSet, PrevSet
<1> DEFINE n2 == Nexts(l2)
           p2 == Prevs(l2)
<1>8. /\ n2[id] = 0
      /\ \A j \in Ids \ {id} : n2[j] = (IF j = q THEN x ELSE n[j]) /\ p2[j] = (IF j = x THEN q ELSE p[j])
  BY <1>4, <1>5, <1>6 DEF Nexts, Prevs, NextSet, PrevSet
<1>9. On(n2) = On(n) \ {id} /\ Linked(n2, p2, d)
  <2>1. n2 \in Links
    BY <1>1, <1>2
  <2>2. \A j \in Ids \ {id} : n2[j] = IF j = p[id] THEN n[id] ELSE n[j]
    BY <1>3, <1>8
  <2>3. \A j \in Ids \ {id} : p2[j] = IF j = n[id] THEN p[id] ELSE p[j]
    BY <1>3, <1>8
  <2>4. n2[id] = 0 /\ Linked(n, p, c) /\ d = IF c # id THEN c ELSE IF n[id] = id THEN Nobody ELSE n[id]
    BY <1>3, <1>8
  <2> HIDE DEF n, p, n2, p2, c, d
  <2> QED
    BY <1>1, <2>1, <2>2, <2>3, <2>4, LinkOff
<1>10. \A j \in Ids \ {id} : l2[j].next = f.b[j].next \/ f.b[j].next = id
  BY <1>3, <1>8 DEF Nexts
<1> HIDE DEF d
<1> QED
  BY <1>0, <1>1, <1>2, <1>7, <1>9, <1>10

\* A bucket that is changed where it is stays where it is.
LEMMA PutIs ==
  ASSUME NEW l \in List, NEW i \in Ids, NEW v, Ok(v), v.next = l[i].next, v.prev = l[i].prev
  PROVE  /\ [l EXCEPT ![i] = v] \in List /\ [l EXCEPT ![i] = v][i] = v
         /\ \A j \in Ids \ {i} : [l EXCEPT ![i] = v][j] = l[j]
         /\ Nexts([l EXCEPT ![i] = v]) = Nexts(l) /\ Prevs([l EXCEPT ![i] = v]) = Prevs(l)
<1> DEFINE m == [l EXCEPT ![i] = v]
<1>1. m \in List
  BY PutOk
<1>2. m[i] = v /\ \A j \in Ids \ {i} : m[j] = l[j]
  BY DEF List
<1> HIDE DEF m
<1>3. Nexts(m) = Nexts(l) /\ Prevs(m) = Prevs(l)
  BY <1>2 DEF Nexts, Prevs
<1> QED
  BY <1>1, <1>2, <1>3 DEF m

\* Running a bucket's queue.
LEMMA SendOldestIs ==
  ASSUME NEW f \in BucketType
  PROVE  LET g == SendOldest(f)
         IN  /\ g.sid = f.sid /\ g.send = f.send /\ g.next = f.next /\ g.prev = f.prev
             /\ f.queued = 0 => g.queued = 0
<1> DEFINE h == Spent(f, f.sizes[f.oldest])
           g == [h EXCEPT !.oldest = (@ + 1) % Queue, !.queued = @ - 1]
<1>1. f.queued > 0 => f.queued # 0
  BY Fields
<1>2. /\ h.sid = f.sid /\ h.send = f.send /\ h.next = f.next /\ h.prev = f.prev
      /\ DOMAIN h = DOMAIN f
  BY DEF Spent, BucketType
<1>3. DOMAIN f = {"sid", "send", "credit", "age", "queued", "oldest", "max", "rate", "next", "prev", "sizes", "allow"}
  BY DEF BucketType
<1> HIDE DEF h
<1>4. g.sid = h.sid /\ g.send = h.send /\ g.next = h.next /\ g.prev = h.prev
  BY <1>2, <1>3
<1>5. SendOldest(f) = f \/ (f.queued > 0 /\ SendOldest(f) = g)
  BY DEF SendOldest, h
<1> HIDE DEF g
<1> QED
  BY <1>1, <1>2, <1>4, <1>5

LEMMA DrainedIs ==
  ASSUME NEW f, Ok(f)
  PROVE  LET g == Drained(f)
         IN  /\ Ok(g) /\ g.age = 0
             /\ g.sid = f.sid /\ g.send = f.send /\ g.next = f.next /\ g.prev = f.prev
             /\ f.queued = 0 => g.queued = 0
<1> DEFINE c == Credited(f)
           d == SendOldest(c)
<1>1. Ok(c) /\ c.age = 0 /\ Ok(d) /\ d.age = 0
  BY CreditedOk, SendOldestOk
<1>2. c.sid = f.sid /\ c.send = f.send /\ c.next = f.next /\ c.prev = f.prev /\ c.queued = f.queued
  <2>1. f \in BucketType
    BY DEF Ok
  <2> QED
    BY <2>1 DEF Credited, BucketType
<1> HIDE DEF c
<1>3. c \in BucketType
  BY <1>1 DEF Ok
<1>4. /\ d.sid = c.sid /\ d.send = c.send /\ d.next = c.next /\ d.prev = c.prev
      /\ c.queued = 0 => d.queued = 0
  BY <1>3, SendOldestIs
<1> HIDE DEF d
<1>5. d \in BucketType
  BY <1>1 DEF Ok
<1> DEFINE g == SendOldest(d)
<1>6. /\ g.sid = d.sid /\ g.send = d.send /\ g.next = d.next /\ g.prev = d.prev
      /\ d.queued = 0 => g.queued = 0
  BY <1>5, SendOldestIs
<1>7. g = Drained(f)
  BY DEF Drained, d, c
<1>8. Ok(Drained(f)) /\ Drained(f).age = 0
  BY DrainedOk
<1> HIDE DEF g
<1> QED
  BY <1>2, <1>4, <1>6, <1>7, <1>8

\* What running the queue of id leaves of a list: only that bucket's packets
\* and age change, and it leaves the chain or stays.
RunFrom(m, l, id) ==
  /\ \A j \in Ids : m[j].sid = l[j].sid /\ m[j].send = l[j].send
  /\ \A j \in Ids \ {id} : m[j].queued = l[j].queued /\ m[j].age = l[j].age
  /\ m[id].age = 0
  /\ On(Nexts(m)) \subseteq On(Nexts(l)) /\ On(Nexts(l)) \ {id} \subseteq On(Nexts(m))
  /\ \A j \in On(Nexts(m)) : m[j].next = l[j].next \/ l[j].next = id

LEMMA RunQueueIs ==
  ASSUME NEW f \in Chained, Fits(f.b, f.chain), NEW id \in Ids, f.b[id].sid # 0
  PROVE  LET g == RunQueue(f, id)
         IN  g \in Chained /\ Fits(g.b, g.chain) /\ RunFrom(g.b, f.b, id)
<1> DEFINE v == Drained(f.b[id])
           l == [f.b EXCEPT ![id] = v]
           h == [f EXCEPT !.b[id] = v]
           g == RunQueue(f, id)
<1>1. f.b \in List /\ Linked(Nexts(f.b), Prevs(f.b), f.chain) /\ Waits(f.b) /\ g \in Chained
  BY RunQueueOk DEF Chained, Fits
<1>2. /\ Ok(v) /\ v.age = 0 /\ v.sid = f.b[id].sid /\ v.send = f.b[id].send
      /\ v.next = f.b[id].next /\ v.prev = f.b[id].prev /\ (f.b[id].queued = 0 => v.queued = 0)
  BY <1>1, ListOk, DrainedIs
<1> HIDE DEF v
<1>3. /\ l \in List /\ l[id] = v /\ \A j \in Ids \ {id} : l[j] = f.b[j]
      /\ Nexts(l) = Nexts(f.b) /\ Prevs(l) = Prevs(f.b)
  BY <1>1, <1>2, PutIs
<1>4. h = [f EXCEPT !.b = l] /\ h.b = l /\ h.chain = f.chain
  BY <1>1 DEF Chained
<1>5. g = IF h.b[id].queued = 0 /\ h.b[id].next # 0 THEN DelFromTimer(h, id) ELSE h
  BY DEF RunQueue, v
<1> HIDE DEF l
<1>6. h \in Chained
  BY <1>1, <1>3, <1>4 DEF Chained
<1> HIDE DEF h
<1>7. \A j \in Ids : f.b[j].queued \in Nat /\ l[j].queued \in Nat
  <2>1. \A x \in List : \A j \in Ids : x[j].queued \in Nat
    BY ListOk, Fields
  <2> QED
    BY <1>1, <1>3, <2>1
<1>8. l[0].sid = Nobody /\ \A j \in Ids : l[j].sid = f.b[j].sid /\ l[j].send = f.b[j].send
  <2>1. 0 \in Ids
    BY NumbersAreNats DEF Ids
  <2> QED
    BY <1>1, <1>2, <1>3, <2>1 DEF Waits
<1>9. CASE l[id].queued = 0 /\ l[id].next # 0
  <2>1. g = DelFromTimer(h, id)
    BY <1>4, <1>5, <1>9
  <2>2. /\ Relinks(g.b, l) /\ Linked(Nexts(g.b), Prevs(g.b), g.chain)
        /\ On(Nexts(g.b)) = On(Nexts(l)) \ {id}
        /\ \A j \in Ids \ {id} : g.b[j].next = l[j].next \/ l[j].next = id
    <3>1. h.b \in List /\ Linked(Nexts(h.b), Prevs(h.b), h.chain) /\ h.b[id].next # 0
      BY <1>1, <1>3, <1>4, <1>9
    <3> HIDE DEF g
    <3>2. /\ Relinks(g.b, h.b) /\ Linked(Nexts(g.b), Prevs(g.b), g.chain)
          /\ On(Nexts(g.b)) = On(Nexts(h.b)) \ {id}
          /\ \A j \in Ids \ {id} : g.b[j].next = h.b[j].next \/ h.b[j].next = id
      BY <1>6, <2>1, <3>1, DelFromTimerIs
    <3> QED
      BY <1>4, <3>2
  <2> HIDE DEF g
  <2>3. \A j \in Ids : g.b[j].next # 0 <=> (l[j].next # 0 /\ j # id)
    BY <2>2 DEF On, Nexts
  <2>4. Waits(g.b)
    <3>1. 0 \in Ids
      BY NumbersAreNats DEF Ids
    <3>2. g.b[0].sid = Nobody
      BY <1>8, <2>2, <3>1 DEF Relinks
    <3>3. ASSUME NEW j \in Ids PROVE g.b[j].next # 0 <=> g.b[j].queued > 0 /\ g.b[j].sid # 0
      <4>1. CASE j = id
        BY <1>9, <2>2, <2>3, <4>1 DEF Relinks
      <4>2. CASE j # id
        BY <1>1, <1>3, <2>2, <2>3, <4>2 DEF Relinks, Waits
      <4> QED
        BY <4>1, <4>2
    <3> QED
      BY <3>2, <3>3 DEF Waits
  <2>5. RunFrom(g.b, f.b, id)
    <3>1. \A j \in Ids : g.b[j].sid = f.b[j].sid /\ g.b[j].send = f.b[j].send
      BY <1>8, <2>2 DEF Relinks
    <3>2. /\ \A j \in Ids \ {id} : g.b[j].queued = f.b[j].queued /\ g.b[j].age = f.b[j].age
          /\ g.b[id].age = 0
      BY <1>2, <1>3, <2>2 DEF Relinks
    <3>3. \A j \in On(Nexts(g.b)) : g.b[j].next = f.b[j].next \/ f.b[j].next = id
      <4>1. \A j \in On(Nexts(g.b)) : j \in Ids \ {id}
        BY <2>2 DEF On
      <4> QED
        BY <1>3, <2>2, <4>1
    <3> QED
      BY <1>3, <2>2, <3>1, <3>2, <3>3 DEF RunFrom
  <2> QED
    BY <1>1, <2>2, <2>4, <2>5 DEF Fits, g
<1>10. CASE ~(l[id].queued = 0 /\ l[id].next # 0)
  <2>1. g = h /\ g.b = l /\ g.chain = f.chain
    BY <1>4, <1>5, <1>10
  <2> HIDE DEF g
  <2>2. Waits(l)
    <3>1. ASSUME NEW j \in Ids PROVE l[j].next # 0 <=> l[j].queued > 0 /\ l[j].sid # 0
      <4>1. CASE j = id
        <5>1. f.b[id].next # 0 <=> f.b[id].queued > 0
          BY <1>1 DEF Waits
        <5>2. l[id].next # 0 <=> l[id].queued > 0
          BY <1>2, <1>3, <1>7, <1>10, <5>1
        <5> QED
          BY <1>8, <4>1, <5>2
      <4>2. CASE j # id
        BY <1>1, <1>3, <4>2 DEF Waits
      <4> QED
        BY <4>1, <4>2
    <3> QED
      BY <1>8, <3>1 DEF Waits
  <2>3. RunFrom(l, f.b, id)
    <3>1. \A j \in Ids : l[j].next = f.b[j].next
      BY <1>2, <1>3
    <3>2. \A j \in On(Nexts(l)) : j \in Ids
      BY DEF On
    <3> QED
      BY <1>2, <1>3, <1>8, <3>1, <3>2 DEF RunFrom
  <2> QED
    BY <1>1, <1>3, <2>1, <2>2, <2>3 DEF Fits, g
<1> QED
  BY <1>9, <1>10

\* The buckets in which packets wait that were not run at this TIME.
Late(l) == {i \in Ids : l[i].sid # 0 /\ l[i].queued > 0 /\ l[i].age # 0}

\* What a packet for id leaves of a list: no bucket changes hands, and only id is run.
PacketFrom(m, l, id) ==
  /\ \A j \in Ids : m[j].sid = l[j].sid /\ m[j].send = l[j].send
  /\ \A j \in Ids \ {id} : m[j].queued = l[j].queued /\ m[j].age = l[j].age
  /\ m[id].age = 0

LEMMA QueuedIs ==
  ASSUME NEW f \in Chained, Fits(f.b, f.chain), NEW id \in Ids \ {0}, NEW size \in Sizes,
         f.b[id].queued < Queue, f.b[id].sid # 0, f.b[id].age = 0
  PROVE  LET g == Queued(f, id, size)
         IN  Fits(g.b, g.chain) /\ PacketFrom(g.b, f.b, id)
<1> DEFINE o == f.b[id]
           k == (o.oldest + o.queued) % Queue
           z == [o.sizes EXCEPT ![k] = size]
           q == o.queued + 1
           h == WithPacket(o, k, size)
           l == [f.b EXCEPT ![id] = h]
           y == [f EXCEPT !.b = l]
           g == Queued(f, id, size)
<1>1. /\ f.b \in List /\ f.chain \in Ids \cup {Nobody} /\ id \in Ids /\ 0 \in Ids
      /\ Linked(Nexts(f.b), Prevs(f.b), f.chain) /\ Waits(f.b) /\ o \in BucketType /\ Ok(o) /\ g \in Chained
  BY ListOk, QueuedOk, NumbersAreNats DEF Chained, Fits, Ids
<1>2. /\ o.queued \in Nat /\ q \in 0 .. Queue /\ q > 0 /\ z \in [0 .. Queue - 1 -> Sizes \cup {0}]
  <2>1. o.queued \in 0 .. 2 /\ o.queued < 2 /\ o.sizes \in [0 .. Queue - 1 -> Sizes \cup {0}]
    BY <1>1, Fields DEF Queue
  <2> HIDE DEF o, k
  <2>2. o.queued \in Nat /\ q \in 0 .. Queue /\ q > 0
    BY <2>1 DEF Queue
  <2> QED
    BY <2>1, <2>2
<1> DEFINE w == [f EXCEPT !.b[id].sizes[k] = size, !.b[id].queued = @ + 1]
<1>3. y = w
  <2> HIDE DEF k
  <2>1. w = WrittenThere(f, id, k, size)
    BY DEF WrittenThere
  <2> HIDE DEF w
  <2> QED
    BY <1>1, <2>1, QueuedBucket
<1>4. g = IF w.b[id].next = 0 THEN AddToTimer(w, id) ELSE w
  BY DEF Queued
<1>5. h = [o EXCEPT !.sizes = z, !.queued = q]
  BY DEF WithPacket
<1> HIDE DEF w, z, q, h
<1>6. /\ h \in BucketType /\ h.credit = o.credit /\ h.age = o.age /\ h.max = o.max /\ h.rate = o.rate /\ h.allow = o.allow
      /\ h.next = o.next /\ h.prev = o.prev /\ h.sid = o.sid /\ h.send = o.send /\ h.queued = q
  <2> HIDE DEF o
  <2> DEFINE x == [o EXCEPT !.sizes = z, !.queued = q]
  <2>1. /\ x \in BucketType /\ x.credit = o.credit /\ x.age = o.age /\ x.max = o.max /\ x.rate = o.rate
        /\ x.allow = o.allow /\ x.next = o.next /\ x.prev = o.prev /\ x.sid = o.sid /\ x.send = o.send /\ x.queued = q
    BY <1>1, <1>2 DEF BucketType
  <2>2. h = x
    BY <1>5
  <2> HIDE DEF x
  <2> QED
    BY <2>1, <2>2
<1>7. Ok(h)
  BY <1>1, <1>6 DEF Ok, Covered
<1>8. /\ l \in List /\ l[id] = h /\ \A j \in Ids \ {id} : l[j] = f.b[j]
      /\ Nexts(l) = Nexts(f.b) /\ Prevs(l) = Prevs(f.b)
  BY <1>1, <1>6, <1>7, PutIs
<1> HIDE DEF l
<1>9. y \in Chained /\ y.b = l /\ y.chain = f.chain
  BY <1>1, <1>8 DEF Chained
<1> HIDE DEF y
<1>10. PacketFrom(l, f.b, id)
  BY <1>1, <1>6, <1>8 DEF PacketFrom
<1>11. /\ Relinks(g.b, l) /\ Linked(Nexts(g.b), Prevs(g.b), g.chain)
       /\ On(Nexts(g.b)) = On(Nexts(l)) \cup {id}
  <2>1. CASE l[id].next = 0
    <3>1. Linked(Nexts(y.b), Prevs(y.b), y.chain) /\ y.b[id].next = 0 /\ g = AddToTimer(y, id)
      BY <1>1, <1>3, <1>4, <1>8, <1>9, <2>1
    <3> HIDE DEF g
    <3>2. Relinks(g.b, y.b) /\ Linked(Nexts(g.b), Prevs(g.b), g.chain) /\ On(Nexts(g.b)) = On(Nexts(y.b)) \cup {id}
      BY <1>1, <1>9, <3>1, AddToTimerIs
    <3> QED
      BY <1>9, <3>2
  <2>2. CASE l[id].next # 0
    <3>1. g.b = l /\ g.chain = f.chain
      BY <1>3, <1>4, <1>9, <2>2
    <3>2. id \in On(Nexts(l))
      BY <1>1, <2>2 DEF On, Nexts
    <3> HIDE DEF g
    <3> QED
      BY <1>1, <1>8, <3>1, <3>2 DEF Relinks
  <2> QED
    BY <2>1, <2>2
<1> HIDE DEF g
<1>12. \A j \in Ids : g.b[j].next # 0 <=> (l[j].next # 0 \/ j = id)
  BY <1>1, <1>11 DEF On, Nexts
<1>13. Waits(g.b)
  <2>1. g.b[0].sid = Nobody
    BY <1>1, <1>10, <1>11 DEF Relinks, PacketFrom, Waits
  <2>2. ASSUME NEW j \in Ids PROVE g.b[j].next # 0 <=> g.b[j].queued > 0 /\ g.b[j].sid # 0
    <3>1. CASE j = id
      BY <1>2, <1>6, <1>8, <1>11, <1>12, <3>1 DEF Relinks
    <3>2. CASE j # id
      BY <1>1, <1>8, <1>11, <1>12, <3>2 DEF Relinks, Waits
    <3> QED
      BY <3>1, <3>2
  <2> QED
    BY <2>1, <2>2 DEF Waits
<1>14. PacketFrom(g.b, f.b, id)
  BY <1>1, <1>10, <1>11 DEF PacketFrom, Relinks
<1> QED
  BY <1>11, <1>13, <1>14 DEF Fits, g

LEMMA SpentIs ==
  ASSUME NEW f \in BucketType, NEW size
  PROVE  LET g == Spent(f, size)
         IN  /\ g.sid = f.sid /\ g.send = f.send /\ g.next = f.next /\ g.prev = f.prev
             /\ g.queued = f.queued /\ g.age = f.age
  BY DEF Spent, BucketType

LEMMA QueuePacketIs ==
  ASSUME NEW f \in Chained, Fits(f.b, f.chain), NEW id \in Ids \ {0}, NEW size \in Sizes
  PROVE  LET g == QueuePacket(f, id, size)
         IN  Fits(g.b, g.chain) /\ (g = f \/ PacketFrom(g.b, f.b, id))
<1> DEFINE r == RunQueue(f, id)
           g == QueuePacket(f, id, size)
<1>1. CASE f.b[id].sid = 0
  BY <1>1 DEF QueuePacket
<1>2. CASE f.b[id].sid # 0
  <2>1. r \in Chained /\ Fits(r.b, r.chain) /\ RunFrom(r.b, f.b, id)
    BY <1>2, RunQueueIs
  <2>2. PacketFrom(r.b, f.b, id) /\ r.b[id].sid # 0 /\ r.b[id].age = 0
    BY <1>2, <2>1 DEF RunFrom, PacketFrom
  <2>3. /\ r.b \in List /\ r.b[id] \in BucketType /\ Ok(r.b[id]) /\ r.b[id].queued \in 0 .. Queue /\ size \in Nat
        /\ r.b[id].credit \in Nat
    BY <2>1, ListOk, Fields, NumbersAreNats DEF Chained
  <2>4. \/ /\ r.b[id].credit > size
           /\ g = [r EXCEPT !.b = [r.b EXCEPT ![id] = Spent(r.b[id], size)]]
        \/ g = r
        \/ r.b[id].queued < Queue /\ g = Queued(r, id, size)
    BY <1>2, <2>1, <2>3 DEF QueuePacket, Chained, Queue
  <2> HIDE DEF r, g
  <2>5. CASE r.b[id].credit > size /\ g = [r EXCEPT !.b = [r.b EXCEPT ![id] = Spent(r.b[id], size)]]
    <3> DEFINE v == Spent(r.b[id], size)
               l == [r.b EXCEPT ![id] = v]
    <3>1. /\ v.sid = r.b[id].sid /\ v.send = r.b[id].send /\ v.next = r.b[id].next /\ v.prev = r.b[id].prev
          /\ v.queued = r.b[id].queued /\ v.age = r.b[id].age
      BY <2>3, SpentIs
    <3>2. Ok(v)
      BY <2>2, <2>3, <2>5, SpentOk
    <3> HIDE DEF v
    <3>3. /\ l[id] = v /\ \A j \in Ids \ {id} : l[j] = r.b[j]
          /\ Nexts(l) = Nexts(r.b) /\ Prevs(l) = Prevs(r.b)
      BY <2>3, <3>1, <3>2, PutIs
    <3>4. g.b = l /\ g.chain = r.chain
      BY <2>1, <2>5 DEF Chained, v
    <3> HIDE DEF l
    <3>5. Waits(l)
      <4>1. 0 \in Ids /\ Waits(r.b)
        BY <2>1, NumbersAreNats DEF Ids, Fits
      <4>2. l[0].sid = r.b[0].sid
        BY <3>3, <4>1
      <4>3. \A j \in Ids : l[j].next = r.b[j].next /\ l[j].queued = r.b[j].queued /\ l[j].sid = r.b[j].sid
        BY <3>1, <3>3
      <4> QED
        BY <4>1, <4>2, <4>3 DEF Waits
    <3>6. PacketFrom(l, f.b, id)
      BY <2>2, <3>1, <3>3 DEF PacketFrom
    <3> QED
      BY <2>1, <3>3, <3>4, <3>5, <3>6 DEF Fits, g
  <2>6. CASE g = r
    BY <2>1, <2>2, <2>6 DEF g
  <2>7. CASE r.b[id].queued < Queue /\ g = Queued(r, id, size)
    <3>1. Fits(g.b, g.chain) /\ PacketFrom(g.b, r.b, id)
      BY <2>1, <2>2, <2>7, QueuedIs
    <3>2. PacketFrom(g.b, f.b, id)
      BY <2>2, <3>1 DEF PacketFrom
    <3> QED
      BY <3>1, <3>2 DEF g
  <2> QED
    BY <2>4, <2>5, <2>6, <2>7
<1> QED
  BY <1>1, <1>2

\* What is not on the chain does not matter to it.
LEMMA SameLinks ==
  ASSUME NEW n, NEW p, NEW r, NEW c, Linked(n, p, c), \A j \in On(n) : r[j] = p[j]
  PROVE  Linked(n, r, c)
<1> DEFINE O == On(n)
<1>1. \A k \in O : n[k] \in O /\ p[k] \in O /\ p[n[k]] = k /\ n[p[k]] = k /\ r[k] = p[k]
  BY DEF Linked
<1>2. \A k \in O : n[k] \in O /\ r[k] \in O /\ r[n[k]] = k /\ n[r[k]] = k
  <2> HIDE DEF O
  <2> QED
    BY <1>1
<1> QED
  BY <1>2 DEF Linked

\* A bucket that is not on the chain may be replaced by one that is not.
LEMMA OffIs ==
  ASSUME NEW l \in List, NEW c, Fits(l, c), NEW i \in Ids \ {0}, l[i].next = 0, NEW v, Ok(v), v.next = 0, v.queued = 0
  PROVE  LET m == [l EXCEPT ![i] = v]
         IN  m \in List /\ Fits(m, c) /\ m[i] = v /\ (\A j \in Ids \ {i} : m[j] = l[j]) /\ Late(m) \subseteq Late(l)
<1> DEFINE m == [l EXCEPT ![i] = v]
<1>1. m \in List
  BY PutOk
<1>2. m[i] = v /\ (\A j \in Ids \ {i} : m[j] = l[j]) /\ 0 \in Ids /\ i \in Ids
  BY NumbersAreNats DEF List, Ids
<1> HIDE DEF m
<1>3. Nexts(m) = Nexts(l)
  BY <1>2 DEF Nexts
<1>4. \A j \in On(Nexts(l)) : Prevs(m)[j] = Prevs(l)[j]
  BY <1>2 DEF On, Nexts, Prevs
<1>5. Linked(Nexts(m), Prevs(m), c)
  BY <1>3, <1>4, SameLinks DEF Fits
<1>6. Waits(m)
  <2>1. Waits(l)
    BY DEF Fits
  <2>2. m[0].sid = Nobody
    BY <1>2, <2>1 DEF Waits
  <2>3. \A j \in Ids : m[j].next # 0 <=> m[j].queued > 0 /\ m[j].sid # 0
    BY <1>2, <2>1 DEF Waits
  <2> QED
    BY <2>2, <2>3 DEF Waits
<1>7. Late(m) \subseteq Late(l)
  BY <1>2 DEF Late
<1> QED
  BY <1>1, <1>2, <1>5, <1>6, <1>7 DEF Fits, m

\* The tables, when the buckets of the sessions and directions of X are not to be looked at.
Owned(m, X) ==
  \A i \in Sess, d \in Dir :
    m.s[i].tbf[d] # 0 /\ <<i, d>> \notin X => m.b[m.s[i].tbf[d]].sid = i /\ m.b[m.s[i].tbf[d]].send = d

Sound(m, X) == m \in All /\ Fits(m.b, m.chain) /\ Owned(m, X)

LEMMA FreeTbfIs ==
  ASSUME NEW m \in All, Fits(m.b, m.chain), NEW id \in Ids \ {0}
  PROVE  LET r == FreeTbf(m, id)
         IN  /\ r \in All /\ Fits(r.b, r.chain) /\ r.s = m.s /\ Late(r.b) \subseteq Late(m.b)
             /\ \A j \in Ids \ {id} : r.b[j].sid = m.b[j].sid /\ r.b[j].send = m.b[j].send
<1> DEFINE f == [b |-> m.b, chain |-> m.chain]
           g == IF m.b[id].next # 0 THEN DelFromTimer(f, id) ELSE f
           l == [g.b EXCEPT ![id] = Unused]
           r == FreeTbf(m, id)
<1>1. f \in Chained /\ f.b = m.b /\ f.chain = m.chain /\ m.b \in List /\ id \in Ids /\ 0 \in Ids /\ r \in All
  BY FreeTbfOk, NumbersAreNats DEF All, Chained, Ids
<1>2. r = [m EXCEPT !.b = l, !.chain = g.chain]
  <2>1. ~(id < 1)
    BY DEF Ids
  <2> QED
    BY <2>1 DEF FreeTbf
<1>3. r.b = l /\ r.chain = g.chain /\ r.s = m.s
  <2> HIDE DEF l, g
  <2> QED
    BY <1>2 DEF All
<1> HIDE DEF f, r
<1>4. /\ g.b \in List /\ Linked(Nexts(g.b), Prevs(g.b), g.chain) /\ Relinks(g.b, m.b)
      /\ On(Nexts(g.b)) = On(Nexts(m.b)) \ {id}
  <2>1. CASE m.b[id].next # 0
    <3>1. Linked(Nexts(f.b), Prevs(f.b), f.chain) /\ f.b[id].next # 0 /\ g = DelFromTimer(f, id)
      BY <1>1, <2>1 DEF Fits
    <3> HIDE DEF g
    <3>2. /\ g \in Chained /\ Relinks(g.b, f.b) /\ Linked(Nexts(g.b), Prevs(g.b), g.chain)
          /\ On(Nexts(g.b)) = On(Nexts(f.b)) \ {id}
      BY <1>1, <3>1, DelFromTimerIs
    <3> QED
      BY <1>1, <3>2 DEF Chained
  <2>2. CASE m.b[id].next = 0
    <3>1. g = f
      BY <2>2
    <3> HIDE DEF g
    <3>2. id \notin On(Nexts(m.b))
      BY <2>2 DEF On, Nexts
    <3> QED
      BY <1>1, <3>1, <3>2 DEF Relinks, Fits
  <2> QED
    BY <2>1, <2>2
<1> HIDE DEF g
<1>5. g.b[id].next = 0
  BY <1>1, <1>4 DEF On, Nexts
\* The bucket still has its packets, but is to be cleared.
<1> DEFINE v == Unused
<1>6. Ok(v) /\ v.next = 0 /\ v.queued = 0 /\ v.sid = 0
  BY UnusedOk DEF Unused, Bucket
<1> HIDE DEF v
<1>7. l \in List /\ l[id] = v /\ \A j \in Ids \ {id} : l[j] = g.b[j]
  BY <1>1, <1>4, <1>6, PutOk DEF List, v
<1> HIDE DEF l
<1>8. Nexts(l) = Nexts(g.b)
  BY <1>5, <1>6, <1>7 DEF Nexts
<1>9. \A j \in On(Nexts(g.b)) : Prevs(l)[j] = Prevs(g.b)[j]
  BY <1>4, <1>7 DEF On, Nexts, Prevs
<1>10. Linked(Nexts(l), Prevs(l), g.chain)
  BY <1>4, <1>8, <1>9, SameLinks
<1>11. Waits(l)
  <2>1. Waits(m.b)
    BY DEF Fits
  <2>2. \A j \in Ids : g.b[j].next # 0 <=> (m.b[j].next # 0 /\ j # id)
    BY <1>4 DEF On, Nexts
  <2>3. l[0].sid = Nobody
    BY <1>1, <1>4, <1>7, <2>1 DEF Relinks, Waits
  <2>4. ASSUME NEW j \in Ids PROVE l[j].next # 0 <=> l[j].queued > 0 /\ l[j].sid # 0
    <3>1. CASE j = id
      BY <1>6, <1>7, <3>1
    <3>2. CASE j # id
      BY <1>4, <1>7, <2>1, <2>2, <3>2 DEF Relinks, Waits
    <3> QED
      BY <3>1, <3>2
  <2> QED
    BY <2>3, <2>4 DEF Waits
<1>12. \A j \in Ids \ {id} : l[j].sid = m.b[j].sid /\ l[j].send = m.b[j].send
  BY <1>4, <1>7 DEF Relinks
<1>13. Late(l) \subseteq Late(m.b)
  BY <1>4, <1>6, <1>7 DEF Relinks, Late
<1> QED
  BY <1>1, <1>3, <1>10, <1>11, <1>12, <1>13 DEF Fits, r

\* r is what new_tbf leaves of m when it finds a bucket for dir of session i.
NewFrom(r, m, i, dir) ==
  /\ r.m \in All /\ Fits(r.m.b, r.m.chain) /\ r.m.s = m.s /\ Late(r.m.b) \subseteq Late(m.b)
  /\ r.id \in Ids \ {0} /\ m.b[r.id].sid = 0 /\ r.m.b[r.id].sid = i /\ r.m.b[r.id].send = dir
  /\ \A j \in Ids \ {r.id} : r.m.b[j].sid = m.b[j].sid /\ r.m.b[j].send = m.b[j].send

LEMMA NewTbfIs ==
  ASSUME NEW m \in All, Fits(m.b, m.chain), NEW i \in Sess, NEW dir \in Dir, NEW bytes \in Nat, now \in 0 .. Word - 1
  PROVE  LET r == NewTbf(m, i, dir, bytes)
         IN  (r.m = m /\ r.id = 0) \/ NewFrom(r, m, i, dir)
<1> DEFINE S  == {k \in Ids : m.b[(m.pos + k) % NumTbfs].sid = 0}
           id == (m.pos + Min(S)) % NumTbfs
           v  == Bucket(i, dir, bytes, 2 * bytes, now)
           l  == [m.b EXCEPT ![id] = v]
           r  == NewTbf(m, i, dir, bytes)
<1>1. /\ m.b \in List /\ m.pos \in Ids /\ NumTbfs \in Nat \ {0} /\ 0 \in Ids /\ r.m \in All /\ r.id \in Ids
      /\ Waits(m.b)
  BY NumbersAreNats, NewTbfOk DEF All, Ids, Fits
<1>2. CASE \A k \in Ids : m.b[k].sid # 0
  BY <1>2 DEF NewTbf
<1>3. CASE \E k \in Ids : m.b[k].sid = 0
  <2>1. S # {}
    <3>1. PICK k \in Ids : m.b[k].sid = 0
      BY <1>3
    <3> DEFINE j == IF k >= m.pos THEN k - m.pos ELSE k + NumTbfs - m.pos
    <3>2. j \in Ids /\ (m.pos + j) % NumTbfs = k
      BY <1>1 DEF Ids
    <3> QED
      BY <3>1, <3>2
  <2>2. Min(S) \in S
    <3>1. S \in SUBSET Nat
      BY DEF Ids
    <3> HIDE DEF S
    <3> QED
      BY <2>1, <3>1, Smallest
  <2>3. m.b[id].sid = 0
    BY <2>2
  <2>4. r = [m |-> [m EXCEPT !.pos = id, !.b = l], id |-> id]
    BY <1>1, <1>3 DEF NewTbf, All
  <2>5. id \in Ids /\ r.id = id
    <3> HIDE DEF r, S, l
    <3>1. r.id = id
      BY <2>4
    <3> QED
      BY <1>1, <3>1
  <2>6. Ok(v) /\ v.next = 0 /\ v.queued = 0 /\ v.sid = i /\ v.send = dir
    BY BucketOk, NumbersAreNats DEF Bucket
  <2> HIDE DEF id, v
  <2>7. id # 0 /\ m.b[id].next = 0
    BY <1>1, <2>3, <2>5, SessionsAreNumbers DEF Waits, Nobody
  <2>8. /\ Fits(l, m.chain) /\ l[id] = v /\ (\A j \in Ids \ {id} : l[j] = m.b[j]) /\ Late(l) \subseteq Late(m.b)
    BY <1>1, <2>5, <2>6, <2>7, OffIs
  <2> HIDE DEF l, r, S
  <2>9. r.m.b = l /\ r.m.chain = m.chain /\ r.m.s = m.s
    <3> DEFINE z == [m EXCEPT !.pos = id, !.b = l]
    <3>1. z.b = l /\ z.chain = m.chain /\ z.s = m.s
      BY DEF All
    <3>2. r.m = z
      BY <2>4
    <3> HIDE DEF z
    <3> QED
      BY <3>1, <3>2
  <2> QED
    BY <1>1, <2>3, <2>5, <2>6, <2>7, <2>8, <2>9 DEF r, NewFrom
<1> QED
  BY <1>2, <1>3

\* m stands for tables, and has none that is late that l does not have.
Kept(r, m, X) == Sound(r, X) /\ Late(r.b) \subseteq Late(m.b)

LEMMA ThrottleOneIs ==
  ASSUME NEW m, NEW X, Sound(m, X), NEW i \in Sess, NEW dir \in Dir, <<i, dir>> \notin X,
         NEW rate \in Rates \cup {-1}, now \in 0 .. Word - 1
  PROVE  Kept(ThrottleOne(m, i, dir, rate), m, X)
<1> DEFINE Y     == X \cup {<<i, dir>>}
           old   == m.s[i].tbf[dir]
           freed == IF old # 0 THEN FreeTbf(m, old) ELSE m
           bytes == rate * Kbit
           new   == NewTbf(freed, i, dir, bytes)
           got   == IF rate > 0 THEN new ELSE [m |-> freed, id |-> 0]
           r     == [got.m EXCEPT !.s[i].tbf[dir] = got.id, !.s[i].throttle[dir] = rate]
<1>1. /\ m \in All /\ m.s \in [Sess -> SessionType] /\ old \in Ids /\ 0 \in Ids /\ Fits(m.b, m.chain) /\ Owned(m, X)
      /\ 0 \notin Sess
  BY NumbersAreNats, SessionsAreNumbers DEF Sound, All, SessionType, Ids
<1>2. CASE rate < 0
  BY <1>2 DEF ThrottleOne, Kept
<1>3. CASE ~(rate < 0)
  <2>1. rate \in Nat /\ bytes \in Nat
    <3>1. rate \in Nat /\ Kbit \in Nat
      BY <1>3, NumbersAreNats
    <3> QED
      BY <3>1, Product
  <2>2. ThrottleOne(m, i, dir, rate) = r
    BY <1>3 DEF ThrottleOne
  <2>3. r \in All
    <3>1. ThrottleOne(m, i, dir, rate) \in All
      BY <1>1, ThrottleOneOk
    <3> HIDE DEF r
    <3> QED
      BY <2>2, <3>1
  <2>4. freed \in All /\ Fits(freed.b, freed.chain) /\ freed.s = m.s /\ Late(freed.b) \subseteq Late(m.b)
        /\ (old = 0 => freed = m)
        /\ \A j \in Ids \ {old} : freed.b[j].sid = m.b[j].sid /\ freed.b[j].send = m.b[j].send
    <3>1. CASE old = 0
      BY <1>1, <3>1
    <3>2. CASE old # 0
      <4>1. freed = FreeTbf(m, old) /\ old \in Ids \ {0}
        BY <1>1, <3>2
      <4> HIDE DEF freed, old
      <4> QED
        BY <1>1, <3>2, <4>1, FreeTbfIs
    <3> QED
      BY <3>1, <3>2
  <2> HIDE DEF bytes
  <2>5. Owned(freed, Y)
    <3> HIDE DEF freed
    <3> SUFFICES ASSUME NEW k \in Sess, NEW d \in Dir, m.s[k].tbf[d] # 0, <<k, d>> \notin Y
                 PROVE  freed.b[m.s[k].tbf[d]].sid = k /\ freed.b[m.s[k].tbf[d]].send = d
      BY <2>4 DEF Owned
    <3>1. m.b[m.s[k].tbf[d]].sid = k /\ m.b[m.s[k].tbf[d]].send = d /\ m.s[k].tbf[d] \in Ids
      BY <1>1 DEF Owned, SessionType
    <3>2. k # i \/ d # dir
      OBVIOUS
    <3>3. old # 0 => m.b[old].sid = i /\ m.b[old].send = dir
      BY <1>1 DEF Owned
    <3>4. old = 0 \/ m.s[k].tbf[d] # old
      <4> HIDE DEF old
      <4> QED
        BY <3>1, <3>2, <3>3
    <3> HIDE DEF old
    <3> QED
      BY <2>4, <3>1, <3>4
  <2> HIDE DEF freed, old
  <2>6. /\ got.m \in All /\ Fits(got.m.b, got.m.chain) /\ got.m.s = m.s /\ Late(got.m.b) \subseteq Late(m.b)
        /\ Owned(got.m, Y) /\ (got.id # 0 => got.id \in Ids /\ got.m.b[got.id].sid = i /\ got.m.b[got.id].send = dir)
    <3>1. CASE got.m = freed /\ got.id = 0
      <4> HIDE DEF got
      <4> QED
        BY <2>4, <2>5, <3>1
    <3>2. CASE rate > 0 /\ ~(new.m = freed /\ new.id = 0)
      <4>1. got = new
        BY <3>2
      <4> HIDE DEF got
      <4>2. /\ new.m \in All /\ Fits(new.m.b, new.m.chain) /\ new.m.s = freed.s /\ Late(new.m.b) \subseteq Late(freed.b)
            /\ new.id \in Ids \ {0} /\ freed.b[new.id].sid = 0 /\ new.m.b[new.id].sid = i /\ new.m.b[new.id].send = dir
            /\ \A j \in Ids \ {new.id} : new.m.b[j].sid = freed.b[j].sid /\ new.m.b[j].send = freed.b[j].send
        <5>1. NewFrom(new, freed, i, dir)
          BY <2>1, <2>4, <3>2, NewTbfIs
        <5> HIDE DEF new
        <5> QED
          BY <5>1 DEF NewFrom
      <4> HIDE DEF new
      <4>3. Owned(new.m, Y)
        <5> HIDE DEF Y
        <5> SUFFICES ASSUME NEW k \in Sess, NEW d \in Dir, new.m.s[k].tbf[d] # 0, <<k, d>> \notin Y
                     PROVE  new.m.b[new.m.s[k].tbf[d]].sid = k /\ new.m.b[new.m.s[k].tbf[d]].send = d
          BY DEF Owned
        <5> DEFINE z == freed.s[k].tbf[d]
        <5>0. new.m.s[k].tbf[d] = z /\ z # 0
          BY <4>2
        <5>1. freed.b[z].sid = k /\ freed.b[z].send = d
          BY <2>5, <5>0 DEF Owned
        <5>2. z \in Ids
          BY <1>1, <2>4 DEF SessionType
        <5>3. k # 0
          BY <1>1
        <5> HIDE DEF z
        <5>4. z # new.id
          BY <4>2, <5>1, <5>3
        <5>5. new.m.b[z].sid = k /\ new.m.b[z].send = d
          BY <4>2, <5>1, <5>2, <5>4
        <5> QED
          BY <5>0, <5>5
      <4> QED
        BY <2>4, <4>1, <4>2, <4>3
    <3>3. CASE ~(rate > 0) \/ (new.m = freed /\ new.id = 0)
      <4> HIDE DEF new
      <4>1. got.m = freed /\ got.id = 0
        BY <3>3
      <4> QED
        BY <3>1, <4>1
    <3> QED
      BY <3>2, <3>3
  <2> HIDE DEF got
  <2>7. r.b = got.m.b /\ r.chain = got.m.chain
    BY <2>6 DEF All
  <2>8. \A k \in Sess, d \in Dir : r.s[k].tbf[d] = IF k = i /\ d = dir THEN got.id ELSE got.m.s[k].tbf[d]
    BY <2>6 DEF All, SessionType
  <2> HIDE DEF r
  <2>9. Owned(r, X)
    <3> SUFFICES ASSUME NEW k \in Sess, NEW d \in Dir, r.s[k].tbf[d] # 0, <<k, d>> \notin X
                 PROVE  r.b[r.s[k].tbf[d]].sid = k /\ r.b[r.s[k].tbf[d]].send = d
      BY DEF Owned
    <3>1. CASE k = i /\ d = dir
      BY <2>6, <2>7, <2>8, <3>1
    <3>2. CASE ~(k = i /\ d = dir)
      <4>1. <<k, d>> \notin Y
        BY <3>2
      <4>2. r.s[k].tbf[d] = got.m.s[k].tbf[d]
        BY <2>8, <3>2
      <4> HIDE DEF Y
      <4> DEFINE z == got.m.s[k].tbf[d]
      <4>3. z # 0 => got.m.b[z].sid = k /\ got.m.b[z].send = d
        BY <2>6, <4>1 DEF Owned
      <4> HIDE DEF z
      <4>4. r.s[k].tbf[d] = z
        BY <4>2 DEF z
      <4> QED
        BY <2>7, <4>3, <4>4
    <3> QED
      BY <3>1, <3>2
  <2> QED
    BY <2>2, <2>3, <2>6, <2>7, <2>9 DEF Kept, Sound
<1> QED
  BY <1>2, <1>3

LEMMA ThrottleSessionIs ==
  ASSUME NEW m, NEW X, Sound(m, X), NEW i \in Sess, \A d \in Dir : <<i, d>> \notin X,
         NEW in \in Rates \cup {-1}, NEW out \in Rates \cup {-1}, now \in 0 .. Word - 1
  PROVE  Kept(ThrottleSession(m, i, in, out), m, X)
<1> DEFINE r == ThrottleOne(m, i, "in", in)
           t == ThrottleOne(r, i, "out", out)
<1>1. Kept(r, m, X)
  BY ThrottleOneIs DEF Dir
<1>2. Sound(r, X) /\ Late(r.b) \subseteq Late(m.b)
  BY <1>1 DEF Kept
<1> HIDE DEF r
<1>3. Kept(t, r, X)
  BY <1>2, ThrottleOneIs DEF Dir
<1>4. Kept(t, m, X)
  BY <1>2, <1>3 DEF Kept
<1> HIDE DEF t
<1>5. Kept(m, m, X)
  BY DEF Kept
<1> QED
  BY <1>4, <1>5 DEF ThrottleSession, t, r

LEMMA UnthrottledIs ==
  ASSUME NEW m, NEW X, Sound(m, X), NEW i \in Sess, \A d \in Dir : <<i, d>> \notin X, now \in 0 .. Word - 1
  PROVE  Kept(Unthrottled(m, i), m, X)
<1>1. Kept(ThrottleSession(m, i, 0, 0), m, X)
  BY ThrottleSessionIs, NumbersAreNats
<1> QED
  BY <1>1 DEF Unthrottled, Kept

\* A session whose buckets stay, or are gone, may change otherwise.
LEMMA SessionIs ==
  ASSUME NEW m, NEW X, NEW Z, Sound(m, X), NEW i \in Sess, NEW t \in SessionType,
         t.tbf = m.s[i].tbf \/ t.tbf = Free.tbf,
         Z = X \/ (t.tbf = Free.tbf /\ Z = X \ {<<i, d>> : d \in Dir})
  PROVE  Kept([m EXCEPT !.s[i] = t], m, Z)
<1> DEFINE r == [m EXCEPT !.s[i] = t]
<1>1. m \in All /\ Owned(m, X) /\ m.s \in [Sess -> SessionType]
  BY DEF Sound, All
<1>2. r \in All /\ r.b = m.b /\ r.chain = m.chain /\ r.s[i] = t /\ \A k \in Sess \ {i} : r.s[k] = m.s[k]
  BY <1>1 DEF All
<1> HIDE DEF r
<1>3. Owned(r, Z)
  <2> SUFFICES ASSUME NEW k \in Sess, NEW d \in Dir, r.s[k].tbf[d] # 0, <<k, d>> \notin Z
               PROVE  r.b[r.s[k].tbf[d]].sid = k /\ r.b[r.s[k].tbf[d]].send = d
    BY DEF Owned
  <2>1. ~(k = i /\ t.tbf = Free.tbf)
    BY <1>2 DEF Free
  <2>2. <<k, d>> \notin X
    BY <2>1
  <2>3. r.s[k].tbf = m.s[k].tbf
    BY <1>2, <2>1
  <2> QED
    BY <1>1, <1>2, <2>2, <2>3 DEF Owned
<1> QED
  BY <1>2, <1>3 DEF Kept, Sound, r

-----------------------------------------------------------------------------
(* The steps and the timer chain. *)

\* From i to last along the chain come all buckets that are still to be run at this TIME.
Ahead(l, i, last) ==
  \A S \in SUBSET On(Nexts(l)) : i \in S /\ (\A j \in S \ {last} : l[j].next \in S) => Late(l) \subseteq S

Walked ==
  IF walk.i = Nobody
  THEN ran => Late(b) = {}
  ELSE todo = {} /\ walk.i \in On(Nexts(b)) /\ walk.last \in On(Nexts(b)) /\ Ahead(b, walk.i, walk.last)

QInv == Fits(b, chain) /\ Owned(Tables, todo \X Dir) /\ Walked

LEMMA TablesSound == IInv /\ QInv => Sound(Tables, todo \X Dir)
  BY DEF IInv, QInv, Sound, Tables

LEMMA KeptAgain ==
  ASSUME NEW r, NEW m, NEW l, NEW X, NEW Y, Kept(r, m, X), Kept(m, l, Y)
  PROVE  Kept(r, l, X)
  BY DEF Kept

\* A step that leaves sound tables, when the timer is not running.
LEMMA BecomeIs ==
  ASSUME QInv, walk.i = Nobody, UNCHANGED <<walk, ran>>, NEW m, Become(m), Kept(m, Tables, todo' \X Dir)
  PROVE  QInv'
<1>1. /\ b' = m.b /\ chain' = m.chain /\ s' = m.s
      /\ Fits(m.b, m.chain) /\ Owned(m, todo' \X Dir) /\ Late(m.b) \subseteq Late(b)
  BY DEF Become, Kept, Sound, Tables
<1>2. Fits(b', chain')
  BY <1>1
<1>3. Owned(Tables, todo \X Dir)'
  BY <1>1 DEF Owned, Tables
<1>4. Walked'
  <2>1. ran => Late(b) = {}
    BY DEF QInv, Walked
  <2>2. ran' => Late(b') = {}
    BY <1>1, <2>1
  <2> QED
    BY <2>2 DEF Walked
<1> QED
  BY <1>2, <1>3, <1>4 DEF QInv

LEMMA SessionStepsIs ==
  ASSUME IInv, QInv, NEW i \in Sess, NEW in \in Rates \cup {-1}, NEW out \in Rates \cup {-1},
         Setup(i, in, out) \/ Throttle(i, in, out) \/ Reset(i) \/ Shutdown(i) \/ Kill(i)
  PROVE  QInv'
<1> DEFINE X == todo \X Dir
<1>0. /\ Tables \in All /\ now \in 0 .. Word - 1 /\ s \in [Sess -> SessionType] /\ 0 \in Rates
      /\ Tables.s = s /\ Sound(Tables, X)
  BY TablesParts, TablesSound, NumbersAreNats DEF IInv, Rest, Tables
<1>1. Op
  BY DEF Setup, Throttle, Reset, Shutdown, Kill
<1>2. walk.i = Nobody /\ UNCHANGED <<walk, ran>> /\ todo' \X Dir = X /\ \A d \in Dir : <<i, d>> \notin X
  BY <1>1 DEF Op, Idle
<1> HIDE DEF X
<1>3. Kept(Tables, Tables, X)
  BY <1>0 DEF Kept
<1>4. CASE Setup(i, in, out)
  <2> DEFINE said(d, r) == IF r < 0 THEN s[i].throttle[d] ELSE r
             t == [s[i] EXCEPT !.state = IF @ = "free" THEN "up" ELSE @,
                               !.throttle = [d \in Dir |-> said(d, IF d = "in" THEN in ELSE out)]]
             m == [Tables EXCEPT !.s[i] = t]
             r == IF Throttled(t) THEN ThrottleSession(m, i, t.throttle["in"], t.throttle["out"]) ELSE m
  <2>1. \A d \in Dir : said(d, IF d = "in" THEN in ELSE out) \in Rates
    BY <1>0, NumbersAreNats DEF SessionType
  <2>2. t \in SessionType /\ t.tbf = s[i].tbf
    <3> DEFINE th == [d \in Dir |-> said(d, IF d = "in" THEN in ELSE out)]
               st == IF s[i].state = "free" THEN "up" ELSE s[i].state
    <3>1. th \in [Dir -> Rates]
      BY <2>1
    <3>2. s[i] \in SessionType /\ st \in {"free", "up", "dying"}
      BY <1>0 DEF SessionType
    <3>3. t = [s[i] EXCEPT !.state = st, !.throttle = th]
      BY <3>2 DEF SessionType
    <3> HIDE DEF th, st, t
    <3> QED
      BY <3>1, <3>2, <3>3 DEF SessionType
  <2>3. Become(r)
    BY <1>4 DEF Setup
  <2> HIDE DEF t
  <2>4. Kept(m, Tables, X)
    BY <1>0, <2>2, SessionIs
  <2>5. t.throttle["in"] \in Rates /\ t.throttle["out"] \in Rates
    BY <2>2 DEF SessionType, Dir
  <2> HIDE DEF m
  <2>6. Kept(r, Tables, X)
    <3>1. Kept(ThrottleSession(m, i, t.throttle["in"], t.throttle["out"]), m, X)
      BY <1>0, <1>2, <2>4, <2>5, ThrottleSessionIs DEF Kept
    <3>2. Kept(ThrottleSession(m, i, t.throttle["in"], t.throttle["out"]), Tables, X)
      BY <2>4, <3>1, KeptAgain
    <3> QED
      BY <2>4, <3>2
  <2> HIDE DEF r
  <2> QED
    BY <1>2, <2>3, <2>6, BecomeIs
<1>5. CASE Throttle(i, in, out)
  <2> DEFINE r == ThrottleSession(Tables, i, in, out)
  <2>1. Become(r)
    BY <1>5 DEF Throttle
  <2>2. Kept(r, Tables, X)
    BY <1>0, <1>2, ThrottleSessionIs
  <2> HIDE DEF r
  <2> QED
    BY <1>2, <2>1, <2>2, BecomeIs
<1>6. CASE Reset(i)
  <2> DEFINE r == ThrottleSession(Tables, i, 0, 0)
  <2>1. Become(r)
    BY <1>6 DEF Reset
  <2>2. Kept(r, Tables, X)
    BY <1>0, <1>2, ThrottleSessionIs
  <2> HIDE DEF r
  <2> QED
    BY <1>2, <2>1, <2>2, BecomeIs
<1>7. Kept(Unthrottled(Tables, i), Tables, X)
  BY <1>0, <1>2, UnthrottledIs
<1>8. CASE Shutdown(i)
  <2> DEFINE u == Unthrottled(Tables, i)
  <2>1. Become([u EXCEPT !.s[i].state = "dying"])
    BY <1>8 DEF Shutdown
  <2>2. Kept(u, Tables, X) /\ Sound(u, X)
    BY <1>7 DEF Kept
  <2> HIDE DEF u
  <2> DEFINE t == [u.s[i] EXCEPT !.state = "dying"]
             r == [u EXCEPT !.s[i] = t]
  <2>3. t \in SessionType /\ t.tbf = u.s[i].tbf
    BY <2>2 DEF Sound, All, SessionType
  <2>4. Become(r)
    BY <2>1, <2>2 DEF Sound, All
  <2> HIDE DEF t
  <2>5. Kept(r, u, X)
    BY <2>2, <2>3, SessionIs
  <2> HIDE DEF r
  <2>6. Kept(r, Tables, X)
    BY <2>2, <2>5, KeptAgain
  <2> QED
    BY <1>2, <2>4, <2>6, BecomeIs
<1>9. CASE Kill(i)
  <2> DEFINE u == IF s[i].state = "up" THEN Unthrottled(Tables, i) ELSE Tables
             r == [u EXCEPT !.s[i] = Free]
  <2>1. Become(r)
    BY <1>9 DEF Kill
  <2>2. Kept(u, Tables, X) /\ Sound(u, X)
    BY <1>3, <1>7 DEF Kept
  <2> HIDE DEF u
  <2>3. Free \in SessionType
    BY FilterListOk
  <2>4. Kept(r, u, X)
    BY <2>2, <2>3, SessionIs
  <2> HIDE DEF r
  <2>5. Kept(r, Tables, X)
    BY <2>2, <2>4, KeptAgain
  <2> QED
    BY <1>2, <2>1, <2>5, BecomeIs
<1> QED
  BY <1>4, <1>5, <1>6, <1>8, <1>9

\* No bucket is in use.
LEMMA FiltersFit == Fits(Filters, Nobody) /\ Late(Filters) = {}
<1>1. \A i \in Ids : /\ Filters[i].next = 0 /\ Filters[i].queued = 0
                     /\ Filters[i].sid = IF i = 0 THEN Nobody ELSE 0
  BY DEF Filters, Unused, Bucket
<1>2. 0 \in Ids
  BY NumbersAreNats DEF Ids
<1>3. On(Nexts(Filters)) = {} /\ Nexts(Filters)[0] = 0
  BY <1>1, <1>2 DEF On, Nexts
<1>4. Linked(Nexts(Filters), Prevs(Filters), Nobody)
  BY <1>3 DEF Linked
<1>5. Waits(Filters)
  BY <1>1, <1>2 DEF Waits
<1>6. Late(Filters) = {}
  BY <1>1 DEF Late
<1> QED
  BY <1>4, <1>5, <1>6 DEF Fits

LEMMA InitIs == Init => QInv
<1> SUFFICES ASSUME Init PROVE QInv
  OBVIOUS
<1>1. Fits(b, chain) /\ Late(b) = {}
  BY FiltersFit DEF Init
<1>2. Owned(Tables, todo \X Dir)
  BY DEF Init, Owned, Tables, Free
<1>3. Walked
  BY <1>1 DEF Init, Walked, Stopped
<1> QED
  BY <1>1, <1>2, <1>3 DEF QInv

LEMMA FailOverIs ==
  ASSUME IInv, QInv, FailOver
  PROVE  QInv'
<1>1. b' = Filters /\ chain' = Nobody /\ todo' = Sess /\ UNCHANGED <<s, walk, ran>> /\ walk.i = Nobody
  BY DEF FailOver, Idle
<1>2. Fits(b', chain') /\ Late(b') = {}
  BY <1>1, FiltersFit
<1>3. Owned(Tables, todo \X Dir)'
  BY <1>1 DEF Owned, Tables
<1>4. Walked'
  BY <1>1, <1>2 DEF Walked
<1> QED
  BY <1>2, <1>3, <1>4 DEF QInv

LEMMA RestoreIs ==
  ASSUME IInv, QInv, Restore
  PROVE  QInv'
<1> DEFINE i == Min(todo)
           X == todo \X Dir
           Z == todo' \X Dir
           t == [s[i] EXCEPT !.tbf = Free.tbf]
           m == [Tables EXCEPT !.s[i] = t]
           r == ThrottleSession(m, i, s[i].throttle["in"], s[i].throttle["out"])
<1>0. /\ Tables \in All /\ now \in 0 .. Word - 1 /\ s \in [Sess -> SessionType]
      /\ Tables.s = s /\ Sound(Tables, X) /\ todo \subseteq Sess
  BY TablesParts, TablesSound DEF IInv, Rest, Tables
<1>1. i \in Sess /\ i \in todo
  <2>1. todo \in SUBSET Nat /\ todo # {}
    BY <1>0, SessionsAreNumbers DEF Restore
  <2>2. i \in todo
    BY <2>1, Smallest
  <2> QED
    BY <1>0, <2>2
<1>2. walk.i = Nobody /\ todo' = todo \ {i} /\ Become(r) /\ UNCHANGED <<walk, ran>>
  <2>1. m = [Tables EXCEPT !.s[i].tbf = Free.tbf]
    BY <1>0 DEF All
  <2> HIDE DEF m
  <2> QED
    BY <2>1 DEF Restore
<1> HIDE DEF i
<1>3. Z = X \ {<<i, d>> : d \in Dir} /\ \A d \in Dir : <<i, d>> \notin Z
  BY <1>2
<1> HIDE DEF X, Z
<1>4. t \in SessionType /\ t.tbf = Free.tbf
  BY <1>0, <1>1, FilterListOk DEF SessionType
<1>5. s[i].throttle["in"] \in Rates /\ s[i].throttle["out"] \in Rates
  BY <1>0, <1>1 DEF SessionType, Dir
<1> HIDE DEF t
<1>6. Kept(m, Tables, Z)
  BY <1>0, <1>1, <1>3, <1>4, SessionIs
<1> HIDE DEF m
<1>7. Kept(r, m, Z)
  BY <1>0, <1>1, <1>3, <1>5, <1>6, ThrottleSessionIs DEF Kept
<1> HIDE DEF r
<1>8. Kept(r, Tables, Z)
  BY <1>6, <1>7, KeptAgain
<1> QED
  BY <1>2, <1>8, BecomeIs DEF Z

LEMMA ChainParts ==
  ASSUME IInv, QInv
  PROVE  /\ b \in List /\ chain \in Ids \cup {Nobody} /\ [b |-> b, chain |-> chain] \in Chained
         /\ s \in [Sess -> SessionType] /\ todo \subseteq Sess /\ 0 \in Ids /\ Nobody \notin Ids
         /\ Fits(b, chain) /\ Linked(Nexts(b), Prevs(b), chain) /\ Waits(b) /\ Owned(Tables, todo \X Dir) /\ Walked
         /\ Late(b) \subseteq On(Nexts(b))
<1>1. Waits(b)
  BY DEF QInv, Fits
<1>2. Late(b) \subseteq On(Nexts(b))
  BY <1>1 DEF Waits, Late, On, Nexts
<1>3. 0 \in Ids /\ Nobody \notin Ids
  BY NumbersAreNats DEF Ids, Nobody
<1>4. b \in List /\ chain \in Ids \cup {Nobody} /\ s \in [Sess -> SessionType] /\ todo \subseteq Sess
  BY TablesParts DEF IInv, Rest
<1> QED
  BY <1>1, <1>2, <1>3, <1>4 DEF QInv, Fits, Chained

\* No bucket changes hands.
LEMMA StillOwned ==
  ASSUME IInv, QInv, UNCHANGED <<s, todo>>, \A j \in Ids : b'[j].sid = b[j].sid /\ b'[j].send = b[j].send
  PROVE  Owned(Tables, todo \X Dir)'
<1>1. \A i \in Sess, d \in Dir : s[i].tbf[d] \in Ids
  BY ChainParts DEF SessionType
<1>2. Owned(Tables, todo \X Dir)
  BY DEF QInv
<1> QED
  BY <1>1, <1>2 DEF Owned, Tables

LEMMA PacketIs ==
  ASSUME IInv, QInv, NEW id \in Ids \ {0}, NEW size \in Sizes, Packet(id, size)
  PROVE  QInv'
<1> DEFINE e == [b |-> b, chain |-> chain]
           f == QueuePacket(e, id, size)
<1>1. /\ b' = f.b /\ chain' = f.chain /\ UNCHANGED <<s, walk, todo, ran>> /\ walk.i = Nobody
  BY DEF Packet, Idle
<1>2. e \in Chained /\ e.b = b /\ e.chain = chain /\ Fits(b, chain) /\ id \in Ids /\ Walked
  BY ChainParts
<1> HIDE DEF e
<1>3. Fits(f.b, f.chain) /\ (f = e \/ PacketFrom(f.b, b, id))
  BY <1>2, QueuePacketIs
<1> HIDE DEF f
<1>4. \A j \in Ids : b'[j].sid = b[j].sid /\ b'[j].send = b[j].send
  BY <1>1, <1>2, <1>3 DEF PacketFrom
<1>5. Late(b') \subseteq Late(b)
  <2>1. CASE f = e
    BY <1>1, <1>2, <2>1
  <2>2. CASE PacketFrom(f.b, b, id)
    BY <1>1, <2>2 DEF PacketFrom, Late
  <2> QED
    BY <1>3, <2>1, <2>2
<1>6. Walked'
  BY <1>1, <1>2, <1>5 DEF Walked
<1> QED
  BY <1>1, <1>3, <1>4, <1>6, StillOwned DEF QInv

LEMMA TickIs ==
  ASSUME IInv, QInv, NEW d \in Jumps, Tick(d)
  PROVE  QInv'
<1>1. /\ b' = [i \in Ids |-> IF b[i].sid \in {0, Nobody} THEN b[i] ELSE Older(b[i], d)]
      /\ UNCHANGED <<chain, s, walk, todo>> /\ walk.i = Nobody /\ ran' = FALSE
  BY DEF Tick, Idle
<1>2. b \in List /\ 0 \in Ids /\ Linked(Nexts(b), Prevs(b), chain) /\ Waits(b)
  BY ChainParts
<1>3. ASSUME NEW i \in Ids
      PROVE  /\ b'[i].sid = b[i].sid /\ b'[i].send = b[i].send /\ b'[i].queued = b[i].queued
             /\ b'[i].next = b[i].next /\ b'[i].prev = b[i].prev
  <2>1. b[i] \in BucketType
    BY <1>2, ListOk
  <2>2. b'[i] = b[i] \/ b'[i] = Older(b[i], d)
    BY <1>1
  <2> QED
    BY <2>1, <2>2 DEF Older, BucketType
<1>4. Nexts(b') = Nexts(b) /\ Prevs(b') = Prevs(b)
  BY <1>3 DEF Nexts, Prevs
<1>5. Waits(b')
  BY <1>2, <1>3 DEF Waits
<1>6. Walked'
  BY <1>1 DEF Walked
<1>7. Fits(b', chain')
  BY <1>1, <1>2, <1>4, <1>5 DEF Fits
<1>8. Owned(Tables, todo \X Dir)'
  BY <1>1, <1>3, StillOwned
<1> QED
  BY <1>6, <1>7, <1>8 DEF QInv

LEMMA RunTimerIs ==
  ASSUME IInv, QInv, RunTimer
  PROVE  QInv'
<1>1. /\ UNCHANGED <<b, chain, s, todo>> /\ todo = {} /\ ran' = TRUE
      /\ walk' = IF chain = Nobody THEN Stopped ELSE [i |-> chain, last |-> b[chain].prev]
  BY DEF RunTimer, Idle
<1> DEFINE n == Nexts(b)
           p == Prevs(b)
           O == On(n)
<1>2. /\ Fits(b, chain) /\ Linked(n, p, chain) /\ Late(b) \subseteq O /\ O \subseteq Ids /\ Nobody \notin Ids
      /\ Owned(Tables, todo \X Dir)
  BY ChainParts DEF On
<1>3. Walked'
  <2>1. CASE chain = Nobody
    <3>1. Late(b) = {}
      BY <1>2, <2>1 DEF Linked
    <3> QED
      BY <1>1, <2>1, <3>1 DEF Walked, Stopped
  <2>2. CASE chain # Nobody
    <3> DEFINE last == b[chain].prev
    <3>1. chain \in O /\ p[chain] \in O /\ n[p[chain]] = chain
      BY <1>2, <2>2 DEF Linked
    <3>2. chain \in Ids /\ p[chain] = last
      BY <1>2, <3>1 DEF Prevs
    <3>3. walk' = [i |-> chain, last |-> last]
      BY <1>1, <2>2
    <3>4. Ahead(b, chain, last)
      <4> SUFFICES ASSUME NEW S \in SUBSET O, chain \in S, \A j \in S \ {last} : b[j].next \in S
                   PROVE  Late(b) \subseteq S
        BY DEF Ahead
      <4>1. \A j \in S : n[j] \in S
        <5>1. \A j \in S \ {last} : n[j] \in S
          BY <1>2 DEF Nexts
        <5> HIDE DEF n, p, O, last
        <5> QED
          BY <3>1, <3>2, <5>1
      <4>2. S = O
        BY <1>2, <4>1 DEF Linked
      <4> QED
        BY <1>2, <4>2
    <3> HIDE DEF last, n, p, O
    <3>5. walk'.i = chain /\ walk'.last = last /\ chain # Nobody /\ last \in O
      BY <2>2, <3>1, <3>2, <3>3
    <3>6. b' = b /\ todo' = {}
      BY <1>1
    <3> QED
      BY <3>1, <3>4, <3>5, <3>6 DEF Walked, O, n
  <2> QED
    BY <2>1, <2>2
<1>4. Fits(b', chain') /\ Owned(Tables, todo \X Dir)'
  BY <1>1, <1>2, StillOwned
<1> QED
  BY <1>3, <1>4 DEF QInv

\* Only one that is alone on the chain comes before itself.
LEMMA AloneIs ==
  ASSUME NEW n, NEW p, NEW c, Linked(n, p, c), NEW w \in On(n), n[w] = w
  PROVE  On(n) = {w}
<1> DEFINE O == On(n)
<1>1. /\ \A k \in O : n[k] \in O /\ p[n[k]] = k
      /\ c \in O
      /\ \A S \in SUBSET O : c \in S /\ (\A k \in S : n[k] \in S) => S = O
  BY DEF Linked
<1>2. w \in O
  OBVIOUS
<1> HIDE DEF O
<1>3. CASE c = w
  <2>1. {w} \in SUBSET O /\ c \in {w} /\ \A k \in {w} : n[k] \in {w}
    BY <1>2, <1>3
  <2> QED
    BY <1>1, <2>1 DEF O
<1>4. CASE c # w
  <2>1. \A k \in O \ {w} : n[k] \in O \ {w}
    BY <1>1, <1>2
  <2>2. O \ {w} \in SUBSET O /\ c \in O \ {w}
    BY <1>1, <1>4
  <2>3. O \ {w} = O
    BY <1>1, <2>1, <2>2
  <2> QED
    BY <1>2, <2>3
<1> QED
  BY <1>3, <1>4

LEMMA TimerStepIs ==
  ASSUME IInv, QInv, TimerStep
  PROVE  QInv'
<1> DEFINE w == walk.i
           e == [b |-> b, chain |-> chain]
           f == RunQueue(e, w)
           i == b[w].next
           last == walk.last
           n == Nexts(b)
           O == On(n)
<1>1. /\ w # Nobody /\ b' = f.b /\ chain' = f.chain /\ UNCHANGED <<s, todo, ran>>
      /\ walk' = IF f.chain > 0 /\ i # 0 /\ w # last THEN [walk EXCEPT !.i = i] ELSE Stopped
  BY DEF TimerStep
<1>2. /\ b \in List /\ e \in Chained /\ e.b = b /\ e.chain = chain /\ Fits(b, chain) /\ Waits(b)
      /\ Linked(n, Prevs(b), chain) /\ O \subseteq Ids /\ 0 \in Ids /\ Nobody \notin Ids /\ Walked
      /\ Late(b) \subseteq O
  BY ChainParts DEF On
<1>3. todo = {} /\ w \in O /\ last \in O /\ Ahead(b, w, last)
  BY <1>1, <1>2 DEF Walked
<1>4. w \in Ids /\ n[w] = i /\ i \in O /\ i # 0 /\ w # 0 /\ b[w].sid # 0
  <2>1. w \in Ids /\ n[w] = i
    BY <1>2, <1>3 DEF Nexts
  <2>2. i # 0
    BY <1>3, <2>1 DEF On
  <2>3. i \in O /\ n[0] = 0
    BY <1>2, <1>3, <2>1 DEF Linked
  <2>4. w # 0 /\ b[w].sid # 0
    BY <1>2, <2>1, <2>2, <2>3 DEF Waits
  <2> QED
    BY <2>1, <2>2, <2>3, <2>4
<1> HIDE DEF e
<1>5. f \in Chained /\ Fits(f.b, f.chain) /\ RunFrom(f.b, b, w)
  <2> HIDE DEF w
  <2> QED
    BY <1>2, <1>4, RunQueueIs
<1> HIDE DEF f, i, last, w, n, O
<1>6. /\ \A j \in Ids : b'[j].sid = b[j].sid /\ b'[j].send = b[j].send
      /\ On(Nexts(b')) \subseteq O /\ O \ {w} \subseteq On(Nexts(b'))
      /\ \A j \in On(Nexts(b')) : b'[j].next = b[j].next \/ b[j].next = w
  BY <1>1, <1>5 DEF RunFrom, O, n
<1>7. Late(b') \subseteq Late(b) \ {w}
  BY <1>1, <1>4, <1>5 DEF RunFrom, Late
<1>8. Fits(b', chain') /\ Owned(Tables, todo \X Dir)'
  BY <1>1, <1>5, <1>6, StillOwned
<1>9. Late(b') \subseteq On(Nexts(b'))
  <2>1. Waits(b')
    BY <1>8 DEF Fits
  <2> QED
    BY <2>1 DEF Waits, Late, On, Nexts
<1>10. CASE f.chain > 0 /\ i # 0 /\ w # last
  <2>1. walk' = [walk EXCEPT !.i = i] /\ walk \in [i : Ids \cup {Nobody}, last : Ids \cup {Nobody}]
    BY <1>1, <1>10 DEF IInv, Rest
  <2>2. walk'.i = i /\ walk'.last = last
    BY <2>1 DEF last
  <2>3. i # w
    BY <1>2, <1>3, <1>4, <1>10, AloneIs DEF O
  <2>4. i \in On(Nexts(b')) /\ last \in On(Nexts(b'))
    BY <1>3, <1>4, <1>6, <1>10, <2>3
  <2>5. Ahead(b', i, last)
    <3> SUFFICES ASSUME NEW S \in SUBSET On(Nexts(b')), i \in S, \A j \in S \ {last} : b'[j].next \in S
                 PROVE  Late(b') \subseteq S
      BY DEF Ahead
    <3> DEFINE T == S \cup {w}
    <3>1. T \in SUBSET O /\ w \in T
      BY <1>3, <1>6
    <3>2. ASSUME NEW j \in T \ {last} PROVE b[j].next \in T
      <4>1. CASE j = w
        BY <4>1 DEF i
      <4>2. CASE j # w
        BY <1>6, <3>2, <4>2
      <4> QED
        BY <4>1, <4>2
    <3>3. Late(b) \subseteq T
      <4> HIDE DEF T
      <4>1. T \in SUBSET On(Nexts(b))
        BY <3>1 DEF O, n
      <4> QED
        BY <1>3, <3>1, <3>2, <4>1 DEF Ahead
    <3> QED
      BY <1>7, <3>3
  <2>6. i # Nobody /\ todo' = {}
    BY <1>1, <1>2, <1>3, <1>4
  <2>7. Walked'
    BY <2>2, <2>4, <2>5, <2>6 DEF Walked
  <2> QED
    BY <1>8, <2>7 DEF QInv
<1>11. CASE ~(f.chain > 0 /\ i # 0 /\ w # last)
  <2>1. Late(b') = {}
    <3>1. CASE w = last
      <4>1. {w} \in SUBSET On(Nexts(b)) /\ w \in {w} /\ \A j \in {w} \ {last} : b[j].next \in {w}
        BY <1>3, <3>1 DEF O, n
      <4>2. Late(b) \subseteq {w}
        BY <1>3, <4>1 DEF Ahead
      <4> QED
        BY <1>7, <4>2
    <3>2. CASE ~(f.chain > 0)
      <4>1. Linked(Nexts(b'), Prevs(b'), f.chain)
        BY <1>1, <1>8 DEF Fits
      <4>2. f.chain \notin Ids \ {0}
        <5>1. \A x \in Ids \ {0} : x > 0
          BY NumbersAreNats DEF Ids
        <5> QED
          BY <3>2, <5>1
      <4>3. 0 \notin On(Nexts(b')) /\ On(Nexts(b')) \subseteq Ids
        BY <4>1 DEF Linked, On
      <4>4. On(Nexts(b')) = {}
        BY <4>1, <4>2, <4>3 DEF Linked
      <4> QED
        BY <1>9, <4>4
    <3> QED
      BY <1>4, <1>11, <3>1, <3>2
  <2>2. walk'.i = Nobody
    BY <1>1, <1>11 DEF Stopped
  <2>3. Walked'
    BY <2>1, <2>2 DEF Walked
  <2> QED
    BY <1>8, <2>3 DEF QInv
<1> QED
  BY <1>10, <1>11

LEMMA QStepOk == IInv /\ QInv /\ [Next]_vars => QInv'
<1> SUFFICES ASSUME IInv, QInv, [Next]_vars PROVE QInv'
  OBVIOUS
<1>1. \/ \E i \in Sess : \E in, out \in Rates \cup {-1} :
              Setup(i, in, out) \/ Throttle(i, in, out) \/ Reset(i) \/ Shutdown(i) \/ Kill(i)
      \/ FailOver \/ Restore \/ RunTimer \/ TimerStep
      \/ \E id \in Ids \ {0}, size \in Sizes : Packet(id, size)
      \/ \E d \in Jumps : Tick(d)
      \/ UNCHANGED vars
  BY DEF Next, Loop
<1>2. UNCHANGED vars => QInv'
  BY DEF QInv, vars, Tables, Walked
<1> QED
  BY <1>1, <1>2, SessionStepsIs, FailOverIs, RestoreIs, RunTimerIs, TimerStepIs, PacketIs, TickIs

\* The timer chain (add_to_timer, del_from_timer, tbf.c) stays one ring of exactly the buckets in which packets
\* wait; throttle_session, a shutdown and a failover give every session buckets of its own; and the walk of
\* tbf_run_timer, which reads the next bucket before it runs one that may leave the chain, misses none.
THEOREM QueuesKept == Spec => []Queues
<1>1. IInv /\ QInv => Queues
  <2> SUFFICES ASSUME IInv, QInv PROVE Queues
    OBVIOUS
  <2> DEFINE n == Nexts(b)
             p == Prevs(b)
             O == On(n)
  <2>1. /\ Waits(b) /\ Linked(n, p, chain) /\ Walked /\ Owned(Tables, todo \X Dir) /\ Nobody \notin Ids
    BY ChainParts
  <2>2. O = {i \in Ids : b[i].next # 0}
    BY DEF On, Nexts
  <2>3. \A i \in Ids : n[i] = b[i].next /\ p[i] = b[i].prev
    BY DEF Nexts, Prevs
  <2>4. /\ \A i \in O : n[i] \in O /\ p[n[i]] = i
        /\ IF O = {} THEN chain = Nobody ELSE chain \in O
        /\ \A S \in SUBSET O : chain \in S /\ (\A i \in S : n[i] \in S) => S = O
    BY <2>1 DEF Linked
  <2> HIDE DEF n, p, O
  <2>5. Ring
    <3>1. /\ \A i \in O : b[i].queued > 0 /\ b[i].sid # 0
          /\ \A i \in Ids : b[i].queued > 0 /\ b[i].sid # 0 => i \in O
      BY <2>1, <2>2 DEF Waits
    <3>2. O \subseteq Ids
      BY <2>2
    <3>3. \A i \in O : b[i].next \in O /\ b[b[i].next].prev = i
      BY <2>3, <2>4, <3>2
    <3>4. (chain = Nobody) = (O = {})
      BY <2>1, <2>4, <3>2
    <3>5. O # {} => chain \in O /\ \A S \in SUBSET O : chain \in S /\ (\A i \in S : b[i].next \in S) => S = O
      BY <2>3, <2>4, <3>2
    <3> QED
      BY <2>2, <3>1, <3>3, <3>4, <3>5 DEF Ring
  <2>6. OwnBucket
    BY <2>1 DEF OwnBucket, Owned, Tables
  <2>7. NoneMissed
    BY <2>1 DEF NoneMissed, Walked, Late
  <2> QED
    BY <2>5, <2>6, <2>7 DEF Queues
<1> DEFINE I == IInv /\ QInv
<1>2. Init => I
  BY InitOk, InitIs
<1>3. I /\ [Next]_vars => I'
  BY StepOk, QStepOk
<1>4. I => Queues
  BY <1>1
<1> HIDE DEF I
<1> QED
  BY <1>2, <1>3, <1>4, PTL DEF Spec
=============================================================================
