--------------------------------- MODULE Tbf ---------------------------------
(***************************************************************************)
(* The token bucket filters (src/tbf.c) of the master, and the sessions    *)
(* that own them: throttle_session and its callers (src/l2tpns.c), the     *)
(* rates RADIUS sets (src/autothrottle.c), and a failover.                 *)
(*                                                                         *)
(* A packet is its size.  TIME and lasttime only occur as TIME - lasttime, *)
(* so a bucket holds that, age, modulo 2^32 as in clockt.  tbf_run_timer   *)
(* is one step a bucket, with nothing else in between.  Packets come with  *)
(* any id: a slave sends the one in its copy of the session.               *)
(*                                                                         *)
(* Every session has a user name, without which throttle_session does      *)
(* nothing, and no packet names the id filter_list_size, which the test in *)
(* tbf_queue_packet lets pass; no id in any entry reaches that (TypeOK).   *)
(***************************************************************************)
EXTENDS Integers, FiniteSets, FiniteSetsExt, Functions

CONSTANTS
  Sess,        \* sessions
  NumTbfs,     \* num_tbfs, the size of filter_list
  Rates,       \* rates in kbit/s that users have, 0 for none
  Kbit,        \* bytes a second in a kbit/s: 1024 / 8
  Ticks,       \* of TIME in a second: 10
  Word,        \* 2^32
  Sizes,       \* of packets
  MaxSize,     \* TBF_MAX_SIZE
  Jumps,       \* bound: by how many ticks TIME moves on
  MaxPackets,  \* bound: packets
  MaxOps       \* bound: sessions set up, throttled, shut down, killed

ASSUME NumbersAreNats == /\ {NumTbfs, Ticks, Word} \subseteq Nat \ {0} /\ {Kbit, MaxSize, MaxPackets, MaxOps} \subseteq Nat
                         /\ 0 \in Rates /\ Rates \cup Sizes \cup Jumps \subseteq Nat
ASSUME SessionsAreNumbers == Sess \subseteq Nat \ {0}

Queue == 2    \* TBF_MAX_QUEUE
Ids   == 0 .. NumTbfs - 1
Dir   == {"in", "out"}
Nobody == -1  \* the reserved filter_list[0].sid, and timer_chain when it is empty

VARIABLES
  b,       \* filter_list
  chain,   \* timer_chain
  pos,     \* p of new_tbf
  s,       \* sessions: state, and for each direction tbf_in/out and throttle_in/out
  walk,    \* tbf_run_timer: i and last; i = Nobody when it is not running
  todo,    \* sessions a new master has yet to throttle
  now,     \* TIME
  ran,     \* last_run = TIME in the main loop
  packets, ops

vars == <<b, chain, pos, s, walk, todo, now, ran, packets, ops>>

\* allow is history: what an exact bucket, in 1/Ticks bytes, would still let pass.
Bucket(sid, dir, rate, max, age) ==
  [sid |-> sid, send |-> dir, credit |-> max, age |-> age, queued |-> 0, oldest |-> 0, max |-> max, rate |-> rate,
   next |-> 0, prev |-> 0, sizes |-> [k \in 0 .. Queue - 1 |-> 0], allow |-> max * Ticks]

Unused  == Bucket(0, "in", 0, 0, 0)
Filters == [i \in Ids |-> IF i = 0 THEN [Unused EXCEPT !.sid = Nobody] ELSE Unused]
Free    == [state |-> "free", tbf |-> [d \in Dir |-> 0], throttle |-> [d \in Dir |-> 0]]

-----------------------------------------------------------------------------
(* The timer chain: a call works on f = [b, chain]. *)

\* At the tail.
AddToTimer(f, id) ==
  IF f.chain = Nobody
  THEN [b |-> [f.b EXCEPT ![id].next = id, ![id].prev = id], chain |-> id]
  ELSE LET tail == f.b[f.chain].prev
       IN  [f EXCEPT !.b = [@ EXCEPT ![id].next = f.chain, ![id].prev = tail, ![tail].next = id, ![f.chain].prev = id]]

DelFromTimer(f, id) ==
  LET n == f.b[id].next
      q == f.b[id].prev
      off(g) == [g EXCEPT ![id].next = 0, ![id].prev = 0]
  IN  IF n = id
      THEN [b |-> off(f.b), chain |-> IF f.chain = id THEN Nobody ELSE f.chain]
      ELSE [b |-> off([f.b EXCEPT ![n].prev = q, ![q].next = n]), chain |-> IF f.chain = id THEN n ELSE f.chain]

-----------------------------------------------------------------------------
(* One bucket. *)

\* Mutant: lasttime is not brought up to date.
Credited_Again(f) == [f EXCEPT !.credit = Min({f.max, f.credit + ((f.age * f.rate) % Word) \div Ticks})]

Credited(f) ==
  LET c == f.credit + ((f.age * f.rate) % Word) \div Ticks
  IN  [f EXCEPT !.credit = IF c > f.max THEN f.max ELSE c, !.age = 0]

\* size bytes leave.
Spent(f, size) == [f EXCEPT !.credit = @ - size, !.allow = @ - size * Ticks]

\* Mutant: a packet leaves when there is some credit.
SendOldest_Some(f) ==
  IF f.queued > 0 /\ f.credit > 0
  THEN [Spent(f, f.sizes[f.oldest]) EXCEPT !.oldest = (@ + 1) % Queue, !.queued = @ - 1]
  ELSE f

SendOldest(f) ==
  IF f.queued > 0 /\ f.credit >= f.sizes[f.oldest]
  THEN [Spent(f, f.sizes[f.oldest]) EXCEPT !.oldest = (@ + 1) % Queue, !.queued = @ - 1]
  ELSE f

\* d ticks later.
Older(f, d) ==
  LET a == f.allow + d * f.rate
  IN  [f EXCEPT !.age = (@ + d) % Word, !.allow = IF a > f.max * Ticks THEN f.max * Ticks ELSE a]

\* The loop of tbf_run_queue runs at most Queue times.
Drained(f) == SendOldest(SendOldest(Credited(f)))

RunQueue(f, id) ==
  LET g == [f EXCEPT !.b[id] = Drained(@)]
  IN  IF g.b[id].queued = 0 /\ g.b[id].next # 0 THEN DelFromTimer(g, id) ELSE g

Queued(f, id, size) ==
  LET k == (f.b[id].oldest + f.b[id].queued) % Queue
      g == [f EXCEPT !.b[id].sizes[k] = size, !.b[id].queued = @ + 1]
  IN  IF g.b[id].next = 0 THEN AddToTimer(g, id) ELSE g

QueuePacket(f, id, size) ==
  LET g == RunQueue(f, id)
  IN  IF f.b[id].sid = 0 THEN f
      ELSE IF g.b[id].queued = 0 /\ g.b[id].credit > size THEN [g EXCEPT !.b[id] = Spent(@, size)]
      ELSE IF g.b[id].queued >= Queue \/ size >= MaxSize THEN g
      ELSE Queued(g, id, size)

-----------------------------------------------------------------------------
(* Buckets and sessions: a call works on m = [b, chain, pos, s]. *)

\* Mutant: a bucket with packets in it stays on the chain.
FreeTbf_OnChain(m, id) == [m EXCEPT !.b[id].sid = 0]

\* What new_tbf clears is cleared here: nobody looks at it in between.
FreeTbf(m, id) ==
  LET f == [b |-> m.b, chain |-> m.chain]
      g == IF m.b[id].next # 0 THEN DelFromTimer(f, id) ELSE f
  IN  IF id < 1 THEN m ELSE [m EXCEPT !.b = [g.b EXCEPT ![id] = Unused], !.chain = g.chain]

\* The first free one from pos on; 0 when there is none.
NewTbf(m, i, dir, bytes) ==
  LET id == (m.pos + Min({k \in Ids : m.b[(m.pos + k) % NumTbfs].sid = 0})) % NumTbfs
  IN  IF \A k \in Ids : m.b[k].sid # 0 THEN [m |-> m, id |-> 0]
      ELSE [m |-> [m EXCEPT !.pos = id, !.b[id] = Bucket(i, dir, bytes, 2 * bytes, now)], id |-> id]

\* rate < 0 leaves the direction alone.
ThrottleOne(m, i, dir, rate) ==
  LET freed == IF m.s[i].tbf[dir] # 0 THEN FreeTbf(m, m.s[i].tbf[dir]) ELSE m
      got   == IF rate > 0 THEN NewTbf(freed, i, dir, rate * Kbit) ELSE [m |-> freed, id |-> 0]
  IN  IF rate < 0 THEN m ELSE [got.m EXCEPT !.s[i].tbf[dir] = got.id, !.s[i].throttle[dir] = rate]

ThrottleSession(m, i, in, out) ==
  IF m.s[i].state = "free" THEN m ELSE ThrottleOne(ThrottleOne(m, i, "in", in), i, "out", out)

Throttled(t) == \E d \in Dir : t.throttle[d] # 0

-----------------------------------------------------------------------------
(* Actions. *)

Tables == [b |-> b, chain |-> chain, pos |-> pos, s |-> s]
Become(m) == b' = m.b /\ chain' = m.chain /\ pos' = m.pos /\ s' = m.s

Idle == walk.i = Nobody /\ todo = {}
Op   == Idle /\ ops < MaxOps /\ ops' = ops + 1 /\ UNCHANGED <<walk, todo, now, ran, packets>>

Stopped == [i |-> Nobody, last |-> Nobody]

Init ==
  /\ b = Filters /\ chain = Nobody /\ pos = 0 /\ walk = Stopped /\ todo = {}
  /\ s = [i \in Sess |-> Free]
  /\ now = 0 /\ ran = TRUE /\ packets = 0 /\ ops = 0

\* What RADIUS answers at a login, or when the link authenticates again, -1 for a direction it does
\* not mention; and sessionsetup, which an answer also reaches when the session is already going down.
Setup(i, in, out) ==
  LET said(d, r) == IF r < 0 THEN s[i].throttle[d] ELSE r
      t == [s[i] EXCEPT !.state = IF @ = "free" THEN "up" ELSE @,
                        !.throttle = [d \in Dir |-> said(d, IF d = "in" THEN in ELSE out)]]
      m == [Tables EXCEPT !.s[i] = t]
  IN  Op /\ Become(IF Throttled(t) THEN ThrottleSession(m, i, t.throttle["in"], t.throttle["out"]) ELSE m)

\* From the CLI.
Throttle(i, in, out) == Op /\ s[i].state = "up" /\ Become(ThrottleSession(Tables, i, in, out))

\* A change of authorisation resets the session before it reads its attributes.
Reset(i) == Op /\ s[i].state # "free" /\ Become(ThrottleSession(Tables, i, 0, 0))

Unthrottled(m, i) == IF Throttled(m.s[i]) THEN ThrottleSession(m, i, 0, 0) ELSE m

Shutdown(i) ==
  /\ Op /\ s[i].state # "free"
  /\ Become([Unthrottled(Tables, i) EXCEPT !.s[i].state = "dying"])

Kill(i) ==
  /\ Op /\ s[i].state # "free"
  /\ Become([(IF s[i].state = "up" THEN Unthrottled(Tables, i) ELSE Tables) EXCEPT !.s[i] = Free])

\* The new master has buckets of its own, and the old one's ids in its copy of the sessions.  (Bound: no
\* packet has come yet; those in the old master's buckets would be lost with it.)
FailOver ==
  /\ Idle /\ packets = 0
  /\ b' = Filters /\ chain' = Nobody /\ pos' = 0 /\ todo' = Sess
  /\ UNCHANGED <<s, walk, now, ran, packets, ops>>

\* Mutant: the old master's ids stay.
Restore_Stale ==
  LET i == Min(todo)
  IN  /\ walk.i = Nobody /\ todo # {} /\ todo' = todo \ {i}
      /\ Become(ThrottleSession(Tables, i, s[i].throttle["in"], s[i].throttle["out"]))
      /\ UNCHANGED <<walk, now, ran, packets, ops>>

Restore ==
  LET i == Min(todo)
      m == [Tables EXCEPT !.s[i].tbf = Free.tbf]
  IN  /\ walk.i = Nobody /\ todo # {} /\ todo' = todo \ {i}
      /\ Become(ThrottleSession(m, i, s[i].throttle["in"], s[i].throttle["out"]))
      /\ UNCHANGED <<walk, now, ran, packets, ops>>

Packet(id, size) ==
  LET f == QueuePacket([b |-> b, chain |-> chain], id, size)
  IN  /\ Idle /\ packets < MaxPackets /\ packets' = packets + 1
      /\ b' = f.b /\ chain' = f.chain
      /\ UNCHANGED <<pos, s, walk, todo, now, ran, ops>>

\* The main loop reads the clock only after it has run the timer for the time it knows.
Tick(d) ==
  /\ Idle /\ ran /\ ran' = FALSE
  /\ now' = (now + d) % Word
  /\ b' = [i \in Ids |-> IF b[i].sid \in {0, Nobody} THEN b[i] ELSE Older(b[i], d)]
  /\ UNCHANGED <<chain, pos, s, walk, todo, packets, ops>>

\* Mutant: a bucket alone on the chain is taken for its end.
RunTimer_NotAlone ==
  /\ Idle /\ ~ran /\ ran' = TRUE
  /\ walk' = IF chain = Nobody \/ b[chain].prev = chain THEN Stopped ELSE [i |-> chain, last |-> b[chain].prev]
  /\ UNCHANGED <<b, chain, pos, s, todo, now, packets, ops>>

RunTimer ==
  /\ Idle /\ ~ran /\ ran' = TRUE
  /\ walk' = IF chain = Nobody THEN Stopped ELSE [i |-> chain, last |-> b[chain].prev]
  /\ UNCHANGED <<b, chain, pos, s, todo, now, packets, ops>>

\* Mutant: the next one is read when this one may have left the chain.
TimerStep_Late ==
  LET f == RunQueue([b |-> b, chain |-> chain], walk.i)
      i == f.b[walk.i].next
  IN  /\ walk.i # Nobody
      /\ b' = f.b /\ chain' = f.chain
      /\ walk' = IF f.chain > 0 /\ i # 0 /\ walk.i # walk.last THEN [walk EXCEPT !.i = i] ELSE Stopped
      /\ UNCHANGED <<pos, s, todo, now, ran, packets, ops>>

TimerStep ==
  LET f == RunQueue([b |-> b, chain |-> chain], walk.i)
      i == b[walk.i].next
  IN  /\ walk.i # Nobody
      /\ b' = f.b /\ chain' = f.chain
      /\ walk' = IF f.chain > 0 /\ i # 0 /\ walk.i # walk.last THEN [walk EXCEPT !.i = i] ELSE Stopped
      /\ UNCHANGED <<pos, s, todo, now, ran, packets, ops>>

\* The main loop: one of these steps is always possible.
Loop == (\E d \in Jumps : Tick(d)) \/ RunTimer \/ TimerStep \/ Restore

Next ==
  \/ \E i \in Sess : \E in, out \in Rates \cup {-1} : Setup(i, in, out) \/ Throttle(i, in, out)
  \/ \E i \in Sess : Reset(i) \/ Shutdown(i) \/ Kill(i)
  \/ FailOver
  \/ \E id \in Ids \ {0}, size \in Sizes : Packet(id, size)
  \/ Loop

\* The main loop goes round.
Spec == Init /\ [][Next]_vars /\ WF_vars(Loop)

-----------------------------------------------------------------------------
(* Properties. *)

\* A bucket holds at most TBF_MAX_QUEUE packets, and everything that names a bucket (the chain, its head, the
\* walk of tbf_run_timer, the sessions) names one of filter_list.
TypeOK ==
  /\ b \in [Ids -> [sid : Sess \cup {Nobody, 0}, send : Dir, credit : Nat, age : 0 .. Word - 1, queued : 0 .. Queue,
                    oldest : 0 .. Queue - 1, max : Nat, rate : Nat, next : Ids, prev : Ids,
                    sizes : [0 .. Queue - 1 -> Sizes \cup {0}], allow : Int]]
  /\ chain \in Ids \cup {Nobody} /\ pos \in Ids
  /\ s \in [Sess -> [state : {"free", "up", "dying"}, tbf : [Dir -> Ids], throttle : [Dir -> Rates]]]
  /\ walk \in [i : Ids \cup {Nobody}, last : Ids \cup {Nobody}] /\ todo \subseteq Sess
  /\ now \in 0 .. Word - 1 /\ ran \in BOOLEAN /\ packets \in 0 .. MaxPackets /\ ops \in 0 .. MaxOps

\* What leaves a bucket, queued packets run late by the timer and packets that find credit together,
\* stays within what its burst and its rate allow, however TIME jumps and wherever its width wraps.
Conforms == \A i \in Ids : b[i].allow >= 0

\* The timer chain is one ring, through its head, of exactly the buckets in which packets wait: none is
\* forgotten by the timer, and none that was given back or is empty is still on it.
Ring ==
  LET on == {i \in Ids : b[i].next # 0}
  IN  /\ \A i \in on : b[i].queued > 0 /\ b[i].sid # 0
      /\ \A i \in Ids : b[i].queued > 0 /\ b[i].sid # 0 => i \in on
      /\ \A i \in on : b[i].next \in on /\ b[b[i].next].prev = i
      /\ (chain = Nobody) = (on = {})
      /\ on # {} => chain \in on /\ \A S \in SUBSET on : chain \in S /\ (\A i \in S : b[i].next \in S) => S = on

\* A session's bucket was made for it and for that direction, and the buckets of two sessions differ,
\* however they were given back and taken again.
OwnBucket ==
  todo = {} => \A i \in Sess, d \in Dir : s[i].tbf[d] # 0 => b[s[i].tbf[d]].sid = i /\ b[s[i].tbf[d]].send = d

\* When the timer has run, it has run every bucket in which packets wait at this TIME, although buckets
\* leave the chain while it walks along it ("Missed tbf!" in the code's disabled check).
NoneMissed == ran /\ walk.i = Nobody => \A i \in Ids : b[i].sid # 0 /\ b[i].queued > 0 => b[i].age = 0

\* Packets do not wait for ever: in the end only one that is larger than its bucket ever holds, and what is
\* behind it, is left.
Drains == <>[](\A i \in Ids : b[i].queued > 0 => b[i].sizes[b[i].oldest] > b[i].max)

\* The buckets, the timer chain and the sessions that own them fit together.
Queues == Ring /\ OwnBucket /\ NoneMissed

=============================================================================
