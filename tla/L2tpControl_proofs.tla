------------------------- MODULE L2tpControl_proofs -------------------------
(***************************************************************************)
(* Proofs about L2tpControl, for every size of the number space, every     *)
(* window that fits half of it and every bound on tries and messages: the  *)
(* types, what is released and sent, and that the two ends implement       *)
(* ControlChannel.  The heart is the invariant Inv: a packet under way     *)
(* carries a message that its end has sent and an ack that its end has     *)
(* reached, so that comparing residues compares numbers.                   *)
(***************************************************************************)
EXTENDS L2tpControl, SequenceTheorems, TLAPS

\* A packet on the way to e was sent by the other end.
Sound(e, p) == /\ p.ack <= tun[Other(e)].nr
               /\ ~p.zlb => p.seq \in sent[Other(e)]

PacketsSound == \A e \in End : \A p \in net[e] : Sound(e, p)

\* The messages of t that have been sent when those in its window have.
Limit(e, t) == Una(t) + Min2(t.controlc, Window[e])

Sendable(e, t) == 0 .. Una(t) + Min2(t.controlc, Window[e]) - 1

QueueFits == \A e \in End : tun[e].controlc <= tun[e].ns

HandledWasSent == \A e \in End : tun[Other(e)].nr <= Limit(e, tun[e])

GotInOrder == \A e \in End : got[e] = [i \in 1 .. tun[e].nr |-> i - 1]

\* The timer of t runs if anything waits.
Timed(t) == t.controlc > 0 => t.retry # Off

Inv == /\ TypeOK /\ QueueFits /\ WindowFull /\ ReleasedIsHandled /\ TimerRuns
       /\ PacketsSound /\ HandledWasSent /\ GotInOrder

-----------------------------------------------------------------------------
(* Numbers and residues.                                                   *)

\* The number space is twice Half, and Half is at least 1.
LEMMA Numbers == Half \in Nat /\ Half >= 1 /\ SEQ = 2 * Half /\ SEQ \in Nat
<1>1. Window[1] \in 1 .. Half
  BY WindowFits DEF End
<1>2. Half \in Int
  BY SeqIsEven DEF Half
<1>3. SEQ = 2 * Half
  BY SeqIsEven DEF Half
<1> QED
  BY <1>1, <1>2, <1>3, SeqIsEven

\* A difference within half the number space is negative if its residue says so.
LEMMA NegativeMeans ==
  ASSUME NEW x \in Int, -Half <= x, x < Half
  PROVE  Negative(x) <=> x < 0
<1>1. CASE 0 <= x
  <2>1. x % SEQ = x
    BY <1>1, Numbers
  <2> QED
    BY <1>1, <2>1, Numbers DEF Negative
<1>2. CASE x < 0
  <2>1. x % SEQ = x + SEQ
    BY <1>2, Numbers
  <2> QED
    BY <1>2, <2>1, Numbers DEF Negative
<1> QED
  BY <1>1, <1>2

\* Numbers of one residue that are less than SEQ apart are equal.
LEMMA SameResidue ==
  ASSUME NEW x \in Nat, NEW y \in Nat, x % SEQ = y % SEQ, x - y < SEQ, y - x < SEQ
  PROVE  x = y
BY Numbers

\* The other end of the other end.
LEMMA OtherEnd == \A e \in End : /\ Other(e) \in End
                                 /\ Other(e) # e
                                 /\ \A d \in End : d = e \/ d = Other(e)
                                 /\ Other(Other(e)) = e
                                 /\ Window[e] \in Nat /\ 1 <= Window[e] /\ Window[e] <= Half
BY WindowFits DEF End, Other

-----------------------------------------------------------------------------
(* Acknowledgement.                                                        *)

\* How many messages an ack releases, when it is not too old and acknowledges only
\* what the window has held: those that precede it.
LEMMA ReleasedIs ==
  ASSUME NEW t \in Tunnel, NEW ack \in Nat, t.controlc <= t.ns,
         Una(t) - ack < Half, ack - Una(t) <= t.controlc, ack - Una(t) <= Half
  PROVE  Released(t, ack) = IF ack >= Una(t) THEN ack - Una(t) ELSE 0
<1> DEFINE m == IF ack >= Una(t) THEN ack - Una(t) ELSE 0
           Good(k) == /\ \A j \in 0 .. k - 1 : Negative(Una(t) + j - ack)
                      /\ k < t.controlc => ~Negative(Una(t) + k - ack)
<1>1. /\ Una(t) \in Nat /\ t.controlc \in Nat
      /\ m \in 0 .. t.controlc
  BY DEF Una, Tunnel
<1>2. Good(m)
  <2>1. ASSUME NEW j \in 0 .. m - 1 PROVE Negative(Una(t) + j - ack)
    <3>1. /\ Una(t) + j - ack \in Int
          /\ -Half <= Una(t) + j - ack
          /\ Una(t) + j - ack < 0
      BY <1>1, <2>1, Numbers
    <3> QED
      BY <3>1, NegativeMeans, Numbers
  <2>2. ~Negative(Una(t) + m - ack)
    <3>1. /\ Una(t) + m - ack \in Int
          /\ 0 <= Una(t) + m - ack
          /\ Una(t) + m - ack < Half
      BY <1>1, Numbers
    <3> QED
      BY <3>1, NegativeMeans, Numbers
  <2> QED
    BY <2>1, <2>2
<1>3. ASSUME NEW k \in 0 .. t.controlc, Good(k) PROVE k = m
  <2>1. CASE k > m
    <3>1. m \in 0 .. k - 1
      BY <2>1, <1>1
    <3>2. Negative(Una(t) + m - ack)
      BY <3>1, <1>3
    <3>3. /\ Una(t) + m - ack \in Int
          /\ 0 <= Una(t) + m - ack
          /\ Una(t) + m - ack < Half
      BY <1>1, Numbers
    <3> QED
      BY <3>2, <3>3, NegativeMeans, Numbers
  <2>2. CASE k < m
    <3>1. ~Negative(Una(t) + k - ack)
      BY <2>2, <1>1, <1>3
    <3>2. /\ Una(t) + k - ack \in Int
          /\ -Half <= Una(t) + k - ack
          /\ Una(t) + k - ack < 0
      BY <2>2, <1>1, Numbers
    <3> QED
      BY <3>1, <3>2, NegativeMeans, Numbers
  <2> QED
    BY <2>1, <2>2, <1>1
<1>4. Released(t, ack) = CHOOSE k \in 0 .. t.controlc : Good(k)
  BY DEF Released
<1> HIDE DEF m, Good
<1>5. Released(t, ack) = m
  BY <1>1, <1>2, <1>3, <1>4
<1> QED
  BY <1>5 DEF m

-----------------------------------------------------------------------------
(* What the parts of a step do to a tunnel, and what they send.            *)

\* A delay is a type-correct timer.
LEMMA BackoffType == ASSUME NEW try \in Nat PROVE Backoff(try) \in Off .. 32 /\ Backoff(try) # Off
<1>1. CASE Wild
  BY <1>1 DEF Backoff, Off
<1>2. CASE ~Wild
  <2>1. 1 + Min2(try, 5) \in 1 .. 6
    BY DEF Min2
  <2>2. <<1, 2, 4, 8, 16, 32>>[1 + Min2(try, 5)] \in 1 .. 32
    BY <2>1
  <2> QED
    BY <1>2, <2>2 DEF Backoff, Off
<1> QED
  BY <1>1, <1>2, WildType


Seqs(out) == {p.seq : p \in {q \in out : ~q.zlb}}

\* On the way from tunnel t to tunnel u, end e sends out: all that is in the window
\* of u has then been sent, and no more.
Leads(e, t, u, out) ==
  /\ u \in Tunnel /\ u.controlc <= u.ns
  /\ u.nr = t.nr
  /\ Timed(t) => Timed(u)
  /\ out \subseteq Packet
  /\ \A q \in out : q.ack = t.nr
  /\ Sendable(e, t) \cup Seqs(out) = Sendable(e, u)

\* An ack that releases k messages lets as many into the window, and sends these.
LEMMA AdvanceEffect ==
  ASSUME NEW e \in End, NEW t \in Tunnel, NEW ack \in Nat, t.controlc <= t.ns,
         Released(t, ack) \in 0 .. Min2(t.controlc, Window[e])
  PROVE  /\ Leads(e, t, Advanced(e, t, ack), AdvanceSends(e, t, ack))
         /\ Una(Advanced(e, t, ack)) = Una(t) + Released(t, ack)
         /\ Advanced(e, t, ack).ns = t.ns
<1> DEFINE k == Released(t, ack)
           a == Advanced(e, t, ack)
           r == Release(t, ack)
           out == AdvanceSends(e, t, ack)
<1>1. Window[e] \in Nat /\ 1 <= Window[e]
  BY OtherEnd
<1>2. /\ k \in Nat /\ k <= t.controlc /\ k <= Window[e]
      /\ t.ns \in Nat /\ t.nr \in Nat /\ t.controlc \in Nat
  BY <1>1 DEF Min2, Tunnel
<1>3. /\ r \in Tunnel
      /\ r.ns = t.ns /\ r.nr = t.nr /\ r.controlc = t.controlc - k
      /\ r.retry = t.retry
  <2>1. r = [t EXCEPT !.controlc = t.controlc - k, !.try = IF k > 0 THEN 0 ELSE t.try]
    BY DEF Release, Tunnel
  <2>2. (IF k > 0 THEN 0 ELSE t.try) \in 0 .. MaxTries /\ t.controlc - k \in Nat
    BY <1>2, BoundsAreNats DEF Tunnel
  <2> HIDE DEF k, r
  <2> QED
    BY <2>1, <2>2 DEF Tunnel
<1>4. /\ a \in Tunnel
      /\ a.ns = r.ns /\ a.nr = r.nr /\ a.controlc = r.controlc
      /\ a.controlc > 0 => a.retry = r.retry \/ a.retry # Off
  <2>1. Backoff(0) \in Off .. 32 /\ Backoff(0) # Off /\ 0 \in 0 .. MaxTries /\ Off \in Off .. 32
    BY BackoffType, BoundsAreNats DEF Off
  <2> DEFINE v == IF Unstuck(e, r, k) = {} THEN r
                  ELSE [r EXCEPT !.try = 0, !.retry = Backoff(0)]
  <2>2. a = CaughtUp(v)
    BY DEF Advanced
  <2> HIDE DEF r, k, a
  <2>3. /\ v \in Tunnel
        /\ v.ns = r.ns /\ v.nr = r.nr /\ v.controlc = r.controlc
        /\ v.retry = r.retry \/ v.retry # Off
    BY <1>3, <2>1 DEF Tunnel
  <2> HIDE DEF v
  <2> QED
    BY <2>1, <2>2, <2>3 DEF CaughtUp, Tunnel
<1>5. Una(a) = Una(t) + k /\ Una(r) = Una(t) + k /\ Una(t) \in Nat
  BY <1>2, <1>3, <1>4 DEF Una
<1>6. out = {Queued(r, i) : i \in Unstuck(e, r, k)}
  BY DEF AdvanceSends
<1>7. \A i \in Unstuck(e, r, k) : /\ Queued(r, i) \in Packet
                                 /\ ~Queued(r, i).zlb
                                 /\ Queued(r, i).ack = t.nr
                                 /\ Queued(r, i).seq = Una(r) + i
  <2> HIDE DEF r, k
  <2> QED
    BY <1>2, <1>3, <1>5 DEF Queued, Message, Packet, Unstuck
<1>8. out \subseteq Packet /\ \A q \in out : q.ack = t.nr /\ ~q.zlb
  BY <1>6, <1>7
<1>9. Seqs(out) = {Una(r) + i : i \in Unstuck(e, r, k)}
  <2> HIDE DEF r, k, out
  <2> QED
    BY <1>6, <1>7 DEF Seqs
<1>10. Unstuck(e, r, k) = {i \in 0 .. t.controlc - k - 1 : Window[e] - k <= i /\ i < Window[e]}
  <2> HIDE DEF r, k
  <2> QED
    BY <1>1, <1>2, <1>3 DEF Unstuck, Skip
<1>11. Sendable(e, t) \cup Seqs(out) = Sendable(e, a)
  <2>1. Sendable(e, a) = 0 .. Una(t) + k + Min2(t.controlc - k, Window[e]) - 1
    BY <1>3, <1>4, <1>5 DEF Sendable
  <2>2. Seqs(out) = {Una(t) + k + i : i \in
                       {j \in 0 .. t.controlc - k - 1 : Window[e] - k <= j /\ j < Window[e]}}
    BY <1>5, <1>9, <1>10
  <2>3. Sendable(e, t) = 0 .. Una(t) + Min2(t.controlc, Window[e]) - 1
    BY DEF Sendable
  <2>4. /\ Min2(t.controlc, Window[e]) = IF t.controlc <= Window[e] THEN t.controlc ELSE Window[e]
        /\ Min2(t.controlc - k, Window[e]) =
             IF t.controlc - k <= Window[e] THEN t.controlc - k ELSE Window[e]
    BY DEF Min2
  <2> HIDE DEF k, out, a, r
  <2>5. ASSUME NEW n \in Sendable(e, t) PROVE n \in Sendable(e, a)
    <3> DEFINE c == Min2(t.controlc, Window[e])
               d == Min2(t.controlc - k, Window[e])
    <3>1. c \in Int /\ d \in Int /\ c <= k + d
      BY <1>1, <1>2, <2>4
    <3>2. n \in Int /\ 0 <= n /\ n <= Una(t) + c - 1
      BY <2>3
    <3> HIDE DEF c, d
    <3>3. n <= Una(t) + k + d - 1
      BY <1>2, <1>5, <3>1, <3>2
    <3> QED
      BY <2>1, <3>2, <3>3 DEF d
  <2>6. ASSUME NEW n \in Seqs(out) PROVE n \in Sendable(e, a)
    <3>1. PICK i \in 0 .. t.controlc - k - 1 :
            Window[e] - k <= i /\ i < Window[e] /\ n = Una(t) + k + i
      BY <2>2, <2>6
    <3>2. n \in Int /\ 0 <= n
      BY <1>2, <1>5, <3>1
    <3>3. i <= Min2(t.controlc - k, Window[e]) - 1
      BY <1>1, <1>2, <2>4, <3>1
    <3>4. n <= Una(t) + k + Min2(t.controlc - k, Window[e]) - 1
      BY <1>1, <1>2, <1>5, <2>4, <3>1, <3>3
    <3> QED
      BY <1>1, <1>2, <1>5, <2>1, <2>4, <3>2, <3>4
  <2>7. ASSUME NEW n \in Sendable(e, a), n \notin Sendable(e, t) PROVE n \in Seqs(out)
    <3> DEFINE i == n - (Una(t) + k)
    <3>1. n \in Int /\ 0 <= n /\ n <= Una(t) + k + Min2(t.controlc - k, Window[e]) - 1
      BY <2>1, <2>7
    <3>2. ~(n <= Una(t) + Min2(t.controlc, Window[e]) - 1)
      BY <2>3, <2>7, <3>1
    <3>3. Min2(t.controlc, Window[e]) = Window[e]
      BY <1>1, <1>2, <1>5, <2>4, <3>1, <3>2
    <3>4. /\ i \in Int /\ n = Una(t) + k + i
          /\ i <= t.controlc - k - 1 /\ i < Window[e] /\ Window[e] - k <= i
      BY <1>1, <1>2, <1>5, <2>4, <3>1, <3>2, <3>3
    <3>5. i \in 0 .. t.controlc - k - 1
      BY <1>1, <1>2, <3>4
    <3> HIDE DEF i
    <3> QED
      BY <2>2, <3>4, <3>5
  <2> QED
    BY <2>5, <2>6, <2>7
<1>12. a.controlc <= a.ns /\ a.nr = t.nr
  BY <1>2, <1>3, <1>4
<1>13. Timed(t) => Timed(a)
  <2> HIDE DEF a, r, k
  <2> QED
    BY <1>2, <1>3, <1>4 DEF Timed
<1> QED
  BY <1>3, <1>4, <1>5, <1>8, <1>11, <1>12, <1>13 DEF Leads

\* Steps in a row send what they send together.
LEMMA LeadsOn ==
  ASSUME NEW e \in End, NEW t, NEW u, NEW v, NEW out1, NEW out2,
         Leads(e, t, u, out1), Leads(e, u, v, out2)
  PROVE  Leads(e, t, v, out1 \cup out2)
<1>1. Seqs(out1 \cup out2) = Seqs(out1) \cup Seqs(out2)
  BY DEF Seqs
<1>2. Sendable(e, t) \cup (Seqs(out1) \cup Seqs(out2)) = Sendable(e, v)
  BY DEF Leads
<1> QED
  BY <1>1, <1>2 DEF Leads

\* controladd sends the message if the window has room for it.
LEMMA AddEffect ==
  ASSUME NEW e \in End, NEW t \in Tunnel, t.controlc <= t.ns
  PROVE  /\ Leads(e, t, Add(e, t), AddSends(e, t))
         /\ Una(Add(e, t)) = Una(t)
         /\ Add(e, t).ns = t.ns + 1
<1> DEFINE u == Add(e, t)
<1>1. Window[e] \in Nat /\ 1 <= Window[e]
  BY OtherEnd
<1>2. /\ t.ns \in Nat /\ t.nr \in Nat /\ t.controlc \in Nat
      /\ Una(t) \in Nat /\ t.ns = Una(t) + t.controlc
  BY DEF Tunnel, Una
<1>3. /\ u \in Tunnel /\ u.ns = t.ns + 1 /\ u.nr = t.nr /\ u.controlc = t.controlc + 1
      /\ Timed(t) => Timed(u)
  <2>1. Backoff(0) \in Off .. 32 /\ Backoff(0) # Off /\ 0 \in 0 .. MaxTries
    BY BackoffType, BoundsAreNats
  <2> DEFINE try == IF InWindow(e, t) THEN 0 ELSE t.try
             retry == IF InWindow(e, t) THEN Backoff(0) ELSE t.retry
  <2>2. try \in 0 .. MaxTries /\ retry \in Off .. 32
    BY <2>1 DEF Tunnel
  <2>3. u = [t EXCEPT !.ns = t.ns + 1, !.controlc = t.controlc + 1,
                      !.try = try, !.retry = retry]
    BY DEF Add, Tunnel
  <2>4. t.ns + 1 \in Nat /\ t.controlc + 1 \in Nat
    BY <1>2
  <2>7. Timed(t) => retry # Off
    BY <1>1, <1>2, <2>1 DEF Timed, InWindow
  <2> HIDE DEF u, try, retry
  <2>5. u \in Tunnel
    BY <2>2, <2>3, <2>4 DEF Tunnel
  <2>6. /\ u.ns = t.ns + 1 /\ u.nr = t.nr /\ u.controlc = t.controlc + 1
        /\ u.retry = retry
    BY <2>3 DEF Tunnel
  <2> QED
    BY <2>5, <2>6, <2>7 DEF Timed
<1>4. Una(u) = Una(t)
  BY <1>2, <1>3 DEF Una
<1> DEFINE m == Message(t, t.ns)
<1>13. m \in Packet /\ m.seq = t.ns /\ m.ack = t.nr /\ ~m.zlb
  BY <1>2 DEF Message, Packet
<1>14. AddSends(e, t) = IF t.controlc < Window[e] THEN {m} ELSE {}
  BY DEF AddSends, InWindow
<1> HIDE DEF m
<1>5. AddSends(e, t) \subseteq Packet /\ \A q \in AddSends(e, t) : q.ack = t.nr
  BY <1>13, <1>14
<1>6. Sendable(e, t) \cup Seqs(AddSends(e, t)) = Sendable(e, u)
  <2>1. CASE t.controlc < Window[e]
    <3>1. Seqs(AddSends(e, t)) = {Una(t) + t.controlc}
      <4>1. AddSends(e, t) = {m}
        BY <1>14, <2>1
      <4>2. Seqs({m}) = {m.seq}
        BY <1>13 DEF Seqs
      <4> QED
        BY <1>2, <1>13, <4>1, <4>2
    <3>2. Sendable(e, t) = 0 .. Una(t) + t.controlc - 1
      BY <1>1, <1>2, <2>1 DEF Sendable, Min2
    <3>3. Sendable(e, u) = 0 .. Una(t) + t.controlc
      BY <1>1, <1>2, <1>3, <1>4, <2>1 DEF Sendable, Min2
    <3> QED
      BY <1>2, <3>1, <3>2, <3>3
  <2>2. CASE ~(t.controlc < Window[e])
    <3>1. Seqs(AddSends(e, t)) = {}
      BY <1>14, <2>2 DEF Seqs
    <3>2. Sendable(e, t) = Sendable(e, u)
      BY <1>1, <1>2, <1>3, <1>4, <2>2 DEF Sendable, Min2
    <3> QED
      BY <3>1, <3>2
  <2> QED
    BY <2>1, <2>2
<1>7. u.controlc <= u.ns
  BY <1>2, <1>3
<1> QED
  BY <1>3, <1>4, <1>5, <1>6, <1>7 DEF Leads

\* An empty message takes no number.
LEMMA NullEffect ==
  ASSUME NEW e \in End, NEW t \in Tunnel, t.controlc <= t.ns
  PROVE  /\ Leads(e, t, Null(t), NullSends(e, t))
         /\ Una(Null(t)) = Una(t)
         /\ Null(t).ns = t.ns
<1> DEFINE u == Null(t)
<1>1. /\ u \in Tunnel /\ u.ns = t.ns /\ u.nr = t.nr /\ u.controlc = t.controlc
      /\ t.controlc = 0 \/ u = t
  <2>1. t.try \in Nat
    BY BoundsAreNats DEF Tunnel
  <2>2. Backoff(t.try) \in Off .. 32
    BY <2>1, BackoffType
  <2> QED
    BY <2>2 DEF Null, Tunnel
<1>2. Sendable(e, t) = Sendable(e, u) /\ Una(u) = Una(t)
  BY <1>1 DEF Sendable, Una
<1>3. /\ NullSends(e, t) \subseteq Packet
      /\ \A q \in NullSends(e, t) : q.ack = t.nr /\ q.zlb
  <2> DEFINE m == [seq |-> t.ns, ack |-> t.nr, zlb |-> TRUE]
  <2>1. m \in Packet /\ m.ack = t.nr /\ m.zlb
    BY DEF Packet, Tunnel
  <2>2. NullSends(e, t) \subseteq {m}
    BY DEF NullSends
  <2> HIDE DEF m
  <2> QED
    BY <2>1, <2>2
<1>4. Seqs(NullSends(e, t)) = {}
  BY <1>3 DEF Seqs
<1>5. Timed(t) => Timed(u)
  <2> HIDE DEF u
  <2> QED
    BY <1>1 DEF Timed
<1> QED
  BY <1>1, <1>2, <1>3, <1>4, <1>5 DEF Leads

-----------------------------------------------------------------------------
(* Steps.                                                                  *)

\* End e goes from tunnel t to tunnel u and sends out; packets may vanish.
Effect(e, u, out) ==
  /\ tun' = [tun EXCEPT ![e] = u]
  /\ net' \in [End -> SUBSET Packet]
  /\ net'[e] \subseteq net[e] /\ net'[Other(e)] \subseteq net[Other(e)] \cup out
  /\ sent' = [sent EXCEPT ![e] = @ \cup Seqs(out)]
  /\ lost' \in 0 .. MaxLoss

\* Sendable ends at Limit.
LEMMA SendableIs ==
  ASSUME NEW d \in End, NEW v \in Tunnel
  PROVE  /\ Limit(d, v) \in Int
         /\ Sendable(d, v) = 0 .. Limit(d, v) - 1
         /\ v.controlc <= v.ns => 0 <= Limit(d, v)
<1>1. /\ v.ns \in Nat /\ v.controlc \in Nat /\ Una(v) = v.ns - v.controlc
      /\ Window[d] \in Nat
  BY OtherEnd DEF Tunnel, Una
<1>2. Una(v) \in Int /\ Min2(v.controlc, Window[d]) \in Nat
  BY <1>1 DEF Min2
<1>3. Una(v) + Min2(v.controlc, Window[d]) - 1 = Limit(d, v) - 1 /\ Limit(d, v) \in Int
  BY <1>2 DEF Limit
<1>4. v.controlc <= v.ns => 0 <= Limit(d, v)
  BY <1>1, <1>2 DEF Limit
<1> QED
  BY <1>3, <1>4 DEF Sendable

\* Counting on.
LEMMA Counting ==
  ASSUME NEW n \in Nat
  PROVE  /\ [i \in 1 .. n |-> i - 1] \in Seq(Nat)
         /\ Len([i \in 1 .. n |-> i - 1]) = n
         /\ Append([i \in 1 .. n |-> i - 1], n) = [i \in 1 .. n + 1 |-> i - 1]
<1> DEFINE s == [i \in 1 .. n |-> i - 1]
           r == [i \in 1 .. n + 1 |-> i - 1]
<1>1. s \in [1 .. n -> Nat] /\ r \in [1 .. n + 1 -> Nat]
  OBVIOUS
<1>2. s \in Seq(Nat) /\ r \in Seq(Nat) /\ Len(s) = n /\ Len(r) = n + 1
  BY <1>1
<1>3. \A i \in 1 .. n : s[i] = i - 1 /\ r[i] = s[i]
  OBVIOUS
<1>4. r[n + 1] = n
  OBVIOUS
<1> HIDE DEF s, r
<1>5. Append(s, n) = r
  BY <1>2, <1>3, <1>4, AppendProperties, SeqEqual
<1> QED
  BY <1>2, <1>5 DEF s, r

\* Such a step preserves the invariant if nothing is released that the other end has
\* not handled, and a message is handled, if at all, when its turn has come.
LEMMA EffectKeeps ==
  ASSUME Inv, NEW e \in End, NEW t, NEW u, NEW out, Effect(e, u, out),
         Leads(e, t, u, out),
         Sendable(e, t) = Sendable(e, tun[e]), Timed(tun[e]) => Timed(t),
         Una(u) <= tun[Other(e)].nr,
         \/ t.nr = tun[e].nr /\ got' = got
         \/ /\ t.nr = tun[e].nr + 1
            /\ got' = [got EXCEPT ![e] = Append(@, tun[e].nr)]
            /\ tun[e].nr \in sent[Other(e)]
  PROVE  Inv'
<1> DEFINE o == Other(e)
<1>1. o \in End /\ o # e /\ Other(o) = e /\ \A d \in End : d = e \/ d = o
  BY OtherEnd
<1>2. tun'[e] = u /\ tun'[o] = tun[o]
  BY <1>1 DEF Effect, Inv, TypeOK
<1>3. u \in Tunnel /\ tun[e] \in Tunnel /\ tun[o] \in Tunnel
  BY <1>1 DEF Leads, Inv, TypeOK
<1>4. /\ Window[e] \in Nat /\ Window[o] \in Nat
      /\ Una(u) \in Nat /\ Una(tun[e]) \in Int /\ Una(tun[o]) \in Int
      /\ u.nr \in Nat /\ tun[e].nr \in Nat /\ tun[o].nr \in Nat
      /\ u.controlc \in Nat /\ tun[e].controlc \in Nat /\ tun[o].controlc \in Nat
  <2>1. \A v \in Tunnel : v.nr \in Nat /\ v.controlc \in Nat /\ Una(v) \in Int
    BY DEF Una, Tunnel
  <2>2. \A v \in Tunnel : v.controlc <= v.ns => Una(v) \in Nat
    BY DEF Una, Tunnel
  <2> HIDE DEF o
  <2> QED
    BY <1>1, <1>3, <2>1, <2>2, OtherEnd DEF Leads
<1>5. sent'[e] = sent[e] \cup Seqs(out) /\ sent'[o] = sent[o]
  BY <1>1 DEF Effect, Inv, TypeOK
<1>6. sent'[e] = Sendable(e, u)
  <2>1. sent[e] = Sendable(e, tun[e])
    BY DEF Inv, WindowFull, Sendable
  <2> QED
    BY <1>5, <2>1 DEF Leads
<1>7. u.nr = t.nr /\ tun[e].nr <= u.nr
  BY <1>4 DEF Leads
<1>8. GotInOrder'
  <2>1. got'[o] = got[o]
    BY <1>1 DEF Inv, TypeOK
  <2>2. got'[e] = [i \in 1 .. u.nr |-> i - 1]
    <3>1. got[e] = [i \in 1 .. tun[e].nr |-> i - 1]
      BY DEF Inv, GotInOrder
    <3>2. CASE got' = got /\ t.nr = tun[e].nr
      BY <1>7, <3>1, <3>2
    <3>3. CASE t.nr = tun[e].nr + 1 /\ got' = [got EXCEPT ![e] = Append(@, tun[e].nr)]
      <4>1. got'[e] = Append(got[e], tun[e].nr)
        BY <3>3 DEF Inv, TypeOK
      <4>2. u.nr = tun[e].nr + 1
        BY <1>7, <3>3
      <4> QED
        BY <1>4, <3>1, <4>1, <4>2, Counting
    <3> QED
      BY <3>2, <3>3
  <2> QED
    BY <1>1, <1>2, <2>1, <2>2 DEF GotInOrder, Inv
<1>9. TypeOK'
  <2>1. tun' \in [End -> Tunnel]
    BY <1>3 DEF Effect, Inv, TypeOK
  <2>2. sent' \in [End -> SUBSET Nat]
    <3>1. Seqs(out) \subseteq Nat
      BY DEF Seqs, Leads, Packet
    <3> QED
      BY <3>1 DEF Effect, Inv, TypeOK
  <2>3. got' \in [End -> Seq(Nat)]
    <3>1. \A d \in End : tun'[d].nr \in Nat /\ got'[d] \in Seq(Nat)
      <4>1. \A d \in End : tun'[d].nr \in Nat
        BY <1>1, <1>2, <1>4
      <4>2. \A d \in End : got'[d] = [i \in 1 .. tun'[d].nr |-> i - 1]
        BY <1>8 DEF GotInOrder
      <4> QED
        BY <4>1, <4>2, Counting
    <3>2. got' = [d \in End |-> got'[d]]
      BY DEF Inv, TypeOK
    <3> QED
      BY <3>1, <3>2
  <2> QED
    BY <2>1, <2>2, <2>3 DEF TypeOK, Effect
<1>10. QueueFits'
  BY <1>1, <1>2 DEF Leads, QueueFits, Inv
<1>11. WindowFull'
  <2>1. sent'[o] = Sendable(o, tun'[o])
    BY <1>1, <1>2, <1>5 DEF Inv, WindowFull, Sendable
  <2> QED
    BY <1>1, <1>2, <1>6, <2>1 DEF WindowFull, Sendable
<1>12. ReleasedIsHandled'
  <2>1. Una(tun'[o]) <= tun'[e].nr
    BY <1>1, <1>2, <1>4, <1>7 DEF Inv, ReleasedIsHandled
  <2>2. Una(tun'[e]) <= tun'[o].nr
    BY <1>1, <1>2
  <2> QED
    BY <1>1, <2>1, <2>2 DEF ReleasedIsHandled
<1>13. PacketsSound'
  <2>1. ASSUME NEW q \in net'[e] PROVE Sound(e, q)'
    BY <1>1, <1>2, <1>5, <2>1 DEF Effect, Inv, PacketsSound, Sound
  <2>2. ASSUME NEW q \in net'[o] PROVE Sound(o, q)'
    <3>1. CASE q \in net[o]
      <4>1. q \in Packet /\ q.ack <= tun[e].nr /\ (~q.zlb => q.seq \in sent[e])
        BY <1>1, <3>1 DEF Inv, TypeOK, PacketsSound, Sound
      <4>2. q.ack \in Nat
        BY <4>1 DEF Packet
      <4>3. q.ack <= u.nr
        BY <1>4, <1>7, <4>1, <4>2, SMTT(20)
      <4> QED
        BY <1>1, <1>2, <1>5, <4>1, <4>3 DEF Sound
    <3>2. CASE q \in out
      <4>1. q.ack = u.nr /\ (~q.zlb => q.seq \in Seqs(out))
        BY <1>7, <3>2 DEF Leads, Seqs
      <4> QED
        BY <1>1, <1>2, <1>4, <1>5, <4>1 DEF Sound
    <3> QED
      BY <2>2, <3>1, <3>2 DEF Effect
  <2> QED
    BY <1>1, <2>1, <2>2 DEF PacketsSound
<1>14. HandledWasSent'
  <2>1. /\ Limit(e, tun[e]) \in Int /\ Limit(e, u) \in Int /\ Limit(o, tun[o]) \in Int
        /\ Sendable(e, tun[e]) = 0 .. Limit(e, tun[e]) - 1
        /\ Sendable(e, u) = 0 .. Limit(e, u) - 1
        /\ Sendable(o, tun[o]) = 0 .. Limit(o, tun[o]) - 1
        /\ 0 <= Limit(e, u)
    BY <1>1, <1>3, SendableIs DEF Leads
  <2>2. tun[o].nr <= Limit(e, tun[e]) /\ tun[e].nr <= Limit(o, tun[o])
    BY <1>1 DEF Inv, HandledWasSent
  <2>3. tun[o].nr <= Limit(e, u)
    <3>1. CASE tun[o].nr = 0
      BY <2>1, <3>1
    <3>2. CASE tun[o].nr > 0
      <4>1. tun[o].nr - 1 \in Sendable(e, tun[e])
        <5>1. \A n \in Nat, l \in Int : n > 0 /\ n <= l => n - 1 \in 0 .. l - 1
          OBVIOUS
        <5>2. /\ tun[o].nr \in Nat /\ Limit(e, tun[e]) \in Int
              /\ tun[o].nr > 0 /\ tun[o].nr <= Limit(e, tun[e])
          BY <1>4, <2>1, <2>2, <3>2
        <5>3. tun[o].nr - 1 \in 0 .. Limit(e, tun[e]) - 1
          BY <5>1, <5>2
        <5> QED
          BY <2>1, <5>3
      <4>2. tun[o].nr - 1 \in Sendable(e, u)
        BY <4>1 DEF Leads
      <4>3. tun[o].nr \in Nat /\ tun[o].nr - 1 \in 0 .. Limit(e, u) - 1
        BY <1>4, <2>1, <4>2
      <4> QED
        BY <2>1, <4>3
    <3> QED
      BY <1>4, <3>1, <3>2
  <2>4. u.nr <= Limit(o, tun[o])
    <3>1. CASE t.nr = tun[e].nr
      BY <1>7, <2>2, <3>1
    <3>2. CASE t.nr = tun[e].nr + 1 /\ tun[e].nr \in sent[o]
      <4>1. tun[e].nr \in Sendable(o, tun[o])
        BY <1>1, <3>2 DEF Inv, WindowFull, Sendable
      <4> QED
        BY <1>4, <1>7, <2>1, <3>2, <4>1
    <3> QED
      BY <3>1, <3>2
  <2>5. tun'[o].nr <= Limit(e, tun'[e]) /\ tun'[e].nr <= Limit(o, tun'[o])
    BY <1>2, <2>3, <2>4
  <2> QED
    BY <1>1, <2>5 DEF HandledWasSent
<1>15. TimerRuns'
  <2>1. Timed(tun[e]) /\ Timed(tun'[o])
    BY <1>1, <1>2 DEF Inv, TimerRuns, Timed
  <2>2. Timed(u)
    BY <2>1 DEF Leads
  <2> QED
    BY <1>1, <1>2, <2>1, <2>2 DEF TimerRuns, Timed
<1> QED
  BY <1>8, <1>9, <1>10, <1>11, <1>12, <1>13, <1>14, <1>15 DEF Inv

\* The same step is a step of the channel, if it adds at most one message.
LEMMA EffectImplements ==
  ASSUME Inv, NEW e \in End, NEW t, NEW u, NEW out, Effect(e, u, out),
         u.ns = tun[e].ns \/ u.ns = tun[e].ns + 1,
         \/ got' = got
         \/ /\ got' = [got EXCEPT ![e] = Append(@, tun[e].nr)]
            /\ tun[e].nr \in sent[Other(e)]
  PROVE  [Channel!Next]_<<[d \in End |-> tun[d].ns], got>>
<1> DEFINE o == Other(e)
           written == [d \in End |-> tun[d].ns]
<1>1. o \in End /\ o # e /\ \A d \in End : d = e \/ d = o
  BY OtherEnd
<1>2. tun' = [tun EXCEPT ![e] = u] /\ tun \in [End -> Tunnel]
  BY DEF Effect, Inv, TypeOK
<1>3. Channel!Write(e) \/ written' = written
  <2>1. CASE u.ns = tun[e].ns
    BY <1>2, <2>1
  <2>2. CASE u.ns = tun[e].ns + 1
    <3>1. written' = [written EXCEPT ![e] = @ + 1]
      BY <1>2, <2>2
    <3> QED
      BY <3>1 DEF Channel!Write
  <2> QED
    BY <2>1, <2>2
<1>4. Channel!Handle(e) \/ got' = got
  <2>1. CASE got' = [got EXCEPT ![e] = Append(@, tun[e].nr)] /\ tun[e].nr \in sent[o]
    <3>1. tun[e].nr \in Nat /\ tun[o] \in Tunnel /\ tun[o].ns \in Nat
      BY <1>1, <1>2 DEF Tunnel
    <3>2. Len(got[e]) = tun[e].nr
      BY <3>1, Counting DEF Inv, GotInOrder
    <3>3. tun[e].nr \in Sendable(o, tun[o])
      BY <1>1, <2>1 DEF Inv, WindowFull, Sendable
    <3>4. tun[e].nr < tun[o].ns
      <4>1. Limit(o, tun[o]) \in Int /\ Sendable(o, tun[o]) = 0 .. Limit(o, tun[o]) - 1
        BY <1>1, <3>1, SendableIs
      <4>2. Limit(o, tun[o]) <= tun[o].ns
        BY <1>1, <3>1, OtherEnd DEF Limit, Una, Min2, Tunnel
      <4> QED
        BY <3>1, <3>3, <4>1, <4>2
    <3>5. Len(got[e]) < written[o]
      BY <1>1, <3>2, <3>4
    <3>6. got' = [got EXCEPT ![e] = Append(@, Len(@))]
      BY <2>1, <3>2 DEF Inv, TypeOK
    <3> QED
      BY <3>5, <3>6 DEF Channel!Handle
  <2> QED
    BY <2>1
<1> QED
  BY <1>3, <1>4 DEF Channel!Next

-----------------------------------------------------------------------------
(* Packets that arrive.                                                    *)

\* The numbers of a tunnel.
LEMMA TunnelNumbers ==
  \A t \in Tunnel : /\ t.ns \in Nat /\ t.nr \in Nat /\ t.controlc \in Nat
                    /\ Una(t) \in Int /\ Una(t) = t.ns - t.controlc
                    /\ t.controlc <= t.ns => Una(t) \in Nat
BY DEF Tunnel, Una

\* What the ack of a packet releases, the other end has handled.
LEMMA AckLeads ==
  ASSUME Inv, NEW e \in End, NEW p \in net[e], Fresh(e, p),
         NEW t \in Tunnel, t.ns = tun[e].ns, t.controlc = tun[e].controlc
  PROVE  /\ Leads(e, t, Advanced(e, t, p.ack), AdvanceSends(e, t, p.ack))
         /\ Una(Advanced(e, t, p.ack)) <= tun[Other(e)].nr
         /\ Advanced(e, t, p.ack).ns = t.ns
<1>1. /\ tun[e] \in Tunnel /\ tun[Other(e)] \in Tunnel /\ p \in Packet
      /\ Window[e] \in Nat /\ Window[e] <= Half
  BY OtherEnd DEF Inv, TypeOK
<1>2. /\ p.ack \in Nat /\ tun[Other(e)].nr \in Nat
      /\ t.controlc \in Nat /\ t.controlc <= t.ns /\ Una(t) \in Nat
      /\ Una(t) = Una(tun[e])
  BY <1>1, TunnelNumbers DEF Packet, Una, Inv, QueueFits
<1>3. /\ p.ack <= tun[Other(e)].nr
      /\ tun[Other(e)].nr <= Una(t) + Min2(t.controlc, Window[e])
      /\ Una(t) <= tun[Other(e)].nr
      /\ Una(t) - p.ack < Half
  BY <1>2 DEF Inv, PacketsSound, Sound, HandledWasSent, Limit, ReleasedIsHandled, Fresh
<1>4. Min2(t.controlc, Window[e]) <= t.controlc /\ Min2(t.controlc, Window[e]) <= Window[e]
      /\ Min2(t.controlc, Window[e]) \in Nat
  BY <1>1, <1>2 DEF Min2
<1>5. p.ack - Una(t) <= t.controlc /\ p.ack - Una(t) <= Half
  BY <1>1, <1>2, <1>3, <1>4, Numbers
<1>6. Released(t, p.ack) = IF p.ack >= Una(t) THEN p.ack - Una(t) ELSE 0
  BY <1>2, <1>3, <1>5, ReleasedIs
<1>7. Released(t, p.ack) \in 0 .. Min2(t.controlc, Window[e])
  BY <1>2, <1>3, <1>4, <1>6
<1>8. Una(t) + Released(t, p.ack) <= tun[Other(e)].nr
  BY <1>2, <1>3, <1>6
<1> QED
  BY <1>2, <1>7, <1>8, AdvanceEffect

\* The message that an end expects has the number that it expects.
LEMMA InTurn ==
  ASSUME Inv, NEW e \in End, NEW p \in net[e], Fresh(e, p), Expects(tun[e], p), ~p.zlb
  PROVE  p.seq = tun[e].nr /\ tun[e].nr \in sent[Other(e)]
<1> DEFINE o == Other(e)
<1>1. o \in End /\ Other(o) = e /\ Window[o] \in Nat /\ Window[o] <= Half
  BY OtherEnd
<1>2. tun[e] \in Tunnel /\ tun[o] \in Tunnel /\ p \in Packet
  BY <1>1 DEF Inv, TypeOK
<1>3. tun[e].nr \in Nat /\ p.seq \in Nat /\ Una(tun[o]) \in Int /\ tun[o].controlc \in Nat
  BY <1>2, TunnelNumbers DEF Packet
<1>4. p.seq \in sent[o] /\ Una(tun[o]) <= tun[e].nr
  BY <1>1 DEF Inv, PacketsSound, Sound, ReleasedIsHandled
<1>5. p.seq \in Sendable(o, tun[o])
  BY <1>1, <1>4 DEF Inv, WindowFull, Sendable
<1>6. p.seq <= Limit(o, tun[o]) - 1 /\ Limit(o, tun[o]) \in Int
  BY <1>1, <1>2, <1>5, SendableIs
<1>7. Limit(o, tun[o]) <= Una(tun[o]) + Half
  BY <1>1, <1>3, Numbers DEF Limit, Min2
<1>8. p.seq - tun[e].nr < SEQ /\ tun[e].nr - p.seq < SEQ
  BY <1>3, <1>4, <1>6, <1>7, Numbers DEF Fresh
<1>9. p.seq = tun[e].nr
  BY <1>3, <1>8, SameResidue DEF Expects
<1> QED
  BY <1>4, <1>9

\* What every step does.
Keeps == Inv' /\ [Channel!Next]_<<[e \in End |-> tun[e].ns], got>>

\* Nothing is sent when nothing changes.
LEMMA LeadsNowhere ==
  ASSUME NEW e \in End, NEW t \in Tunnel, t.controlc <= t.ns
  PROVE  Leads(e, t, t, {})
<1>1. Seqs({}) = {}
  BY DEF Seqs
<1> QED
  BY <1>1 DEF Leads

\* The delivery of a packet is an effect.
LEMMA DeliverKeeps ==
  ASSUME Inv, NEW e \in End, NEW p \in net[e], NEW t, NEW u, NEW out,
         Deliver(e, p, u, out), Leads(e, t, u, out),
         Sendable(e, t) = Sendable(e, tun[e]), Timed(tun[e]) => Timed(t),
         Una(u) <= tun[Other(e)].nr,
         u.ns = tun[e].ns \/ u.ns = tun[e].ns + 1,
         \/ t.nr = tun[e].nr /\ got' = got
         \/ /\ t.nr = tun[e].nr + 1
            /\ got' = [got EXCEPT ![e] = Append(@, tun[e].nr)]
            /\ tun[e].nr \in sent[Other(e)]
  PROVE  Keeps
<1>1. Other(e) \in End /\ Other(e) # e
  BY OtherEnd
<1>2. net \in [End -> SUBSET Packet] /\ lost \in 0 .. MaxLoss /\ out \subseteq Packet
  BY DEF Inv, TypeOK, Leads
<1>3. net'[e] \subseteq net[e] /\ net'[Other(e)] = net[Other(e)] \cup out
  BY <1>1, <1>2 DEF Deliver
<1>4. net' \in [End -> SUBSET Packet]
  BY <1>1, <1>2 DEF Deliver
<1>5. Effect(e, u, out)
  BY <1>2, <1>3, <1>4 DEF Effect, Deliver, Noted, Seqs
<1>6. Inv'
  BY <1>5, EffectKeeps
<1>7. [Channel!Next]_<<[d \in End |-> tun[d].ns], got>>
  BY <1>5, EffectImplements
<1> QED
  BY <1>6, <1>7 DEF Keeps

\* The tunnel once nr is past the message.
LEMMA TakenIs ==
  ASSUME Inv, NEW e \in End
  PROVE  /\ Taken(e) \in Tunnel
         /\ Taken(e).ns = tun[e].ns /\ Taken(e).controlc = tun[e].controlc
         /\ Taken(e).nr = tun[e].nr + 1
         /\ Sendable(e, Taken(e)) = Sendable(e, tun[e])
         /\ Timed(tun[e]) => Timed(Taken(e))
<1>1. tun[e] \in Tunnel /\ tun[e].nr + 1 \in Nat
  BY DEF Inv, TypeOK, Tunnel
<1>2. Taken(e) = [tun[e] EXCEPT !.nr = tun[e].nr + 1]
  BY <1>1 DEF Taken, Tunnel
<1>3. /\ Taken(e) \in Tunnel
      /\ Taken(e).ns = tun[e].ns /\ Taken(e).controlc = tun[e].controlc
      /\ Taken(e).nr = tun[e].nr + 1
      /\ Taken(e).retry = tun[e].retry
  BY <1>1, <1>2 DEF Tunnel
<1> QED
  BY <1>3 DEF Sendable, Una, Timed

\* A packet out of sequence.
LEMMA UnexpectedKeeps ==
  ASSUME Inv, NEW e \in End, NEW p \in net[e], Fresh(e, p), Unexpected(e, p)
  PROVE  Keeps
<1> DEFINE other == e \in Foreign
           t == IF other THEN Advanced(e, tun[e], p.ack) ELSE tun[e]
           a == IF other THEN AdvanceSends(e, tun[e], p.ack) ELSE {}
<1>1. tun[e] \in Tunnel /\ tun[e].controlc <= tun[e].ns /\ Una(tun[e]) <= tun[Other(e)].nr
  BY DEF Inv, TypeOK, QueueFits, ReleasedIsHandled
<1>2. Leads(e, tun[e], t, a) /\ Una(t) <= tun[Other(e)].nr /\ t.ns = tun[e].ns
  BY <1>1, AckLeads, LeadsNowhere
<1>3. t \in Tunnel /\ t.controlc <= t.ns
  BY <1>2 DEF Leads
<1>4. CASE p.zlb
  <2>1. Deliver(e, p, t, a) /\ got' = got
    BY <1>4 DEF Unexpected
  <2> HIDE DEF t, a
  <2> QED
    BY <1>2, <2>1, DeliverKeeps
<1>5. CASE ~p.zlb
  <2>1. Deliver(e, p, Null(t), a \cup NullSends(e, t)) /\ got' = got
    BY <1>5 DEF Unexpected
  <2> HIDE DEF t, a
  <2>2. /\ Leads(e, tun[e], Null(t), a \cup NullSends(e, t))
        /\ Una(Null(t)) = Una(t) /\ Null(t).ns = t.ns
    BY <1>2, <1>3, NullEffect, LeadsOn
  <2> QED
    BY <1>2, <2>1, <2>2, DeliverKeeps
<1> QED
  BY <1>4, <1>5

\* An empty message.
LEMMA ZlbKeeps ==
  ASSUME Inv, NEW e \in End, NEW p \in net[e], Fresh(e, p), Zlb(e, p)
  PROVE  Keeps
<1>1. tun[e] \in Tunnel
  BY DEF Inv, TypeOK
<1> QED
  BY <1>1, AckLeads, DeliverKeeps DEF Zlb

\* The expected message: acknowledgement, and what is handled.
LEMMA HandlesLeads ==
  ASSUME Inv, NEW e \in End, NEW p \in net[e], Fresh(e, p), Handles(e, p)
  PROVE  LET t == Advanced(e, Taken(e), p.ack)
         IN  /\ Leads(e, Taken(e), t, AdvanceSends(e, Taken(e), p.ack))
             /\ t \in Tunnel /\ t.controlc <= t.ns
             /\ Una(t) <= tun[Other(e)].nr
             /\ t.ns = tun[e].ns
             /\ Taken(e).nr = tun[e].nr + 1
             /\ Sendable(e, Taken(e)) = Sendable(e, tun[e])
             /\ Timed(tun[e]) => Timed(Taken(e))
             /\ got' = [got EXCEPT ![e] = Append(@, tun[e].nr)]
             /\ tun[e].nr \in sent[Other(e)]
<1>1. /\ Taken(e) \in Tunnel
      /\ Taken(e).ns = tun[e].ns /\ Taken(e).controlc = tun[e].controlc
      /\ Taken(e).nr = tun[e].nr + 1
      /\ Sendable(e, Taken(e)) = Sendable(e, tun[e])
      /\ Timed(tun[e]) => Timed(Taken(e))
  BY TakenIs
<1>2. p.seq = tun[e].nr /\ tun[e].nr \in sent[Other(e)]
  BY InTurn DEF Handles
<1>3. got' = [got EXCEPT ![e] = Append(@, tun[e].nr)]
  BY <1>2 DEF Handles
<1>4. /\ Leads(e, Taken(e), Advanced(e, Taken(e), p.ack), AdvanceSends(e, Taken(e), p.ack))
      /\ Una(Advanced(e, Taken(e), p.ack)) <= tun[Other(e)].nr
      /\ Advanced(e, Taken(e), p.ack).ns = tun[e].ns
  BY <1>1, AckLeads
<1> QED
  BY <1>1, <1>2, <1>3, <1>4 DEF Leads

\* A message that its handler answers.
LEMMA AnswerKeeps ==
  ASSUME Inv, NEW e \in End, NEW p \in net[e], Fresh(e, p), Answer(e, p)
  PROVE  Keeps
<1> DEFINE t == Advanced(e, Taken(e), p.ack)
           a == AdvanceSends(e, Taken(e), p.ack)
<1>1. Deliver(e, p, Add(e, t), a \cup AddSends(e, t)) /\ Handles(e, p)
  BY DEF Answer
<1>2. /\ Leads(e, Taken(e), t, a)
      /\ t \in Tunnel /\ t.controlc <= t.ns
      /\ Una(t) <= tun[Other(e)].nr
      /\ t.ns = tun[e].ns
      /\ Taken(e).nr = tun[e].nr + 1
      /\ Sendable(e, Taken(e)) = Sendable(e, tun[e])
      /\ Timed(tun[e]) => Timed(Taken(e))
      /\ got' = [got EXCEPT ![e] = Append(@, tun[e].nr)]
      /\ tun[e].nr \in sent[Other(e)]
  BY <1>1, HandlesLeads
<1> HIDE DEF t, a
<1>3. /\ Leads(e, Taken(e), Add(e, t), a \cup AddSends(e, t))
      /\ Una(Add(e, t)) = Una(t) /\ Add(e, t).ns = t.ns + 1
  BY <1>2, AddEffect, LeadsOn
<1> QED
  BY <1>1, <1>2, <1>3, DeliverKeeps

\* A message that its handler acknowledges.
LEMMA AcknowledgeKeeps ==
  ASSUME Inv, NEW e \in End, NEW p \in net[e], Fresh(e, p), Acknowledge(e, p)
  PROVE  Keeps
<1> DEFINE t == Advanced(e, Taken(e), p.ack)
           a == AdvanceSends(e, Taken(e), p.ack)
<1>1. Deliver(e, p, Null(t), a \cup NullSends(e, t)) /\ Handles(e, p)
  BY DEF Acknowledge
<1>2. /\ Leads(e, Taken(e), t, a)
      /\ t \in Tunnel /\ t.controlc <= t.ns
      /\ Una(t) <= tun[Other(e)].nr
      /\ t.ns = tun[e].ns
      /\ Taken(e).nr = tun[e].nr + 1
      /\ Sendable(e, Taken(e)) = Sendable(e, tun[e])
      /\ Timed(tun[e]) => Timed(Taken(e))
      /\ got' = [got EXCEPT ![e] = Append(@, tun[e].nr)]
      /\ tun[e].nr \in sent[Other(e)]
  BY <1>1, HandlesLeads
<1> HIDE DEF t, a
<1>3. /\ Leads(e, Taken(e), Null(t), a \cup NullSends(e, t))
      /\ Una(Null(t)) = Una(t) /\ Null(t).ns = t.ns
  BY <1>2, NullEffect, LeadsOn
<1> QED
  BY <1>1, <1>2, <1>3, DeliverKeeps

\* A message that its handler says nothing about.
LEMMA IgnoreKeeps ==
  ASSUME Inv, NEW e \in End, NEW p \in net[e], Fresh(e, p), Ignore(e, p)
  PROVE  Keeps
<1> DEFINE t == Advanced(e, Taken(e), p.ack)
           a == AdvanceSends(e, Taken(e), p.ack)
<1>1. Deliver(e, p, t, a) /\ Handles(e, p)
  BY DEF Ignore
<1>2. /\ Leads(e, Taken(e), t, a)
      /\ Una(t) <= tun[Other(e)].nr
      /\ t.ns = tun[e].ns
      /\ Taken(e).nr = tun[e].nr + 1
      /\ Sendable(e, Taken(e)) = Sendable(e, tun[e])
      /\ Timed(tun[e]) => Timed(Taken(e))
      /\ got' = [got EXCEPT ![e] = Append(@, tun[e].nr)]
      /\ tun[e].nr \in sent[Other(e)]
  BY <1>1, HandlesLeads
<1> HIDE DEF t, a
<1> QED
  BY <1>1, <1>2, DeliverKeeps

\* A packet arrives.
LEMMA ReceiveKeeps == ASSUME Inv, NEW e \in End, Receive(e) PROVE Keeps
BY UnexpectedKeeps, ZlbKeeps, AnswerKeeps, AcknowledgeKeeps, IgnoreKeeps DEF Receive

-----------------------------------------------------------------------------
(* What ends, time and the network do.                                     *)

\* A message is added.
LEMMA TalkKeeps == ASSUME Inv, NEW e \in End, Talk(e) PROVE Keeps
<1> DEFINE u == Add(e, tun[e])
           out == AddSends(e, tun[e])
<1>1. /\ tun[e] \in Tunnel /\ tun[e].controlc <= tun[e].ns
      /\ Una(tun[e]) <= tun[Other(e)].nr
  BY DEF Inv, TypeOK, QueueFits, ReleasedIsHandled
<1>2. /\ Leads(e, tun[e], u, out)
      /\ Una(u) = Una(tun[e]) /\ u.ns = tun[e].ns + 1
  BY <1>1, AddEffect
<1>3. Other(e) \in End /\ Other(e) # e
  BY OtherEnd
<1>4. Effect(e, u, out)
  <2>1. /\ tun' = [tun EXCEPT ![e] = u] /\ got' = got /\ lost' = lost
        /\ net' = [net EXCEPT ![Other(e)] = @ \cup out]
        /\ sent' = [sent EXCEPT ![e] = @ \cup Seqs(out)]
    BY DEF Talk, Noted, Seqs, Inv, TypeOK
  <2>2. out \subseteq Packet
    BY <1>2 DEF Leads
  <2> HIDE DEF u, out
  <2> QED
    BY <1>3, <2>1, <2>2 DEF Effect, Inv, TypeOK
<1>5. got' = got
  BY DEF Talk
<1> HIDE DEF u, out
<1>6. Inv'
  BY <1>1, <1>2, <1>4, <1>5, EffectKeeps
<1>7. [Channel!Next]_<<[d \in End |-> tun[d].ns], got>>
  BY <1>2, <1>4, <1>5, EffectImplements
<1> QED
  BY <1>6, <1>7 DEF Keeps

\* The timer expires.
LEMMA RetransmitKeeps == ASSUME Inv, NEW e \in End, Retransmit(e) PROVE Keeps
<1> DEFINE try == tun[e].try + 1
           t == [tun[e] EXCEPT !.try = try, !.retry = Backoff(try)]
           out == {Queued(t, i) : i \in 0 .. Min2(t.controlc, Window[e]) - 1}
           closed == [tun[e] EXCEPT !.open = FALSE]
<1>1. /\ tun[e] \in Tunnel /\ tun[e].controlc <= tun[e].ns
      /\ Una(tun[e]) <= tun[Other(e)].nr
      /\ tun[e].try \in Nat /\ Window[e] \in Nat
  BY OtherEnd, BoundsAreNats, SMTT(20) DEF Inv, TypeOK, QueueFits, ReleasedIsHandled, Tunnel
<1>2. Other(e) \in End /\ Other(e) # e /\ sent[e] = Sendable(e, tun[e])
  BY OtherEnd DEF Inv, WindowFull, Sendable
<1>3. got' = got /\ sent' = sent /\ lost' = lost
  BY DEF Retransmit
<1>4. CASE GivesUp(try)
  <2>1. tun' = [tun EXCEPT ![e] = closed] /\ net' = net
    BY <1>4 DEF Retransmit, Inv, TypeOK
  <2>2. /\ closed \in Tunnel /\ closed.ns = tun[e].ns /\ closed.nr = tun[e].nr
        /\ closed.controlc = tun[e].controlc /\ closed.retry = tun[e].retry
    BY <1>1 DEF Tunnel
  <2>3. /\ Sendable(e, closed) = Sendable(e, tun[e]) /\ Una(closed) = Una(tun[e])
        /\ Timed(tun[e]) => Timed(closed)
    BY <2>2 DEF Sendable, Una, Timed
  <2>4. Seqs({}) = {}
    BY DEF Seqs
  <2> HIDE DEF closed
  <2>5. Leads(e, tun[e], closed, {})
    BY <1>1, <2>2, <2>3, <2>4 DEF Leads
  <2>6. Effect(e, closed, {})
    BY <1>3, <2>1, <2>4 DEF Effect, Inv, TypeOK
  <2>7. Inv'
    BY <1>1, <1>3, <2>3, <2>5, <2>6, EffectKeeps
  <2>8. [Channel!Next]_<<[d \in End |-> tun[d].ns], got>>
    BY <1>3, <2>2, <2>6, EffectImplements
  <2> QED
    BY <2>7, <2>8 DEF Keeps
<1>5. CASE ~GivesUp(try)
  <2>1. /\ tun' = [tun EXCEPT ![e] = t]
        /\ net' = [net EXCEPT ![Other(e)] = @ \cup out]
    BY <1>5 DEF Retransmit
  <2>2. /\ t \in Tunnel /\ t.ns = tun[e].ns /\ t.nr = tun[e].nr
        /\ t.controlc = tun[e].controlc /\ t.retry # Off
    <3>1. try \in 0 .. MaxTries
      BY <1>1, <1>5, BoundsAreNats DEF GivesUp
    <3>2. Backoff(try) \in Off .. 32 /\ Backoff(try) # Off
      BY <1>1, BackoffType
    <3> HIDE DEF try
    <3> QED
      BY <1>1, <3>1, <3>2 DEF Tunnel
  <2>3. Sendable(e, t) = Sendable(e, tun[e]) /\ Una(t) = Una(tun[e]) /\ Timed(t)
    BY <2>2 DEF Sendable, Una, Timed
  <2> HIDE DEF t
  <2>4. t.nr \in Nat /\ t.controlc \in Nat /\ Una(t) \in Nat
    BY <1>1, <2>2, TunnelNumbers
  <2>5. ASSUME NEW i \in 0 .. Min2(t.controlc, Window[e]) - 1
        PROVE  /\ Queued(t, i) \in Packet /\ Queued(t, i).ack = t.nr
               /\ Queued(t, i).seq \in Sendable(e, t)
    <3>1. /\ i \in Nat /\ Una(t) + i \in Nat
          /\ i <= Min2(t.controlc, Window[e]) - 1 /\ Min2(t.controlc, Window[e]) \in Nat
      BY <1>1, <2>4 DEF Min2
    <3>2. /\ Queued(t, i) \in Packet /\ Queued(t, i).ack = t.nr
          /\ Queued(t, i).seq = Una(t) + i
      BY <2>4, <3>1 DEF Queued, Message, Packet
    <3>3. Una(t) + i \in Sendable(e, t)
      BY <2>4, <3>1 DEF Sendable
    <3> QED
      BY <3>2, <3>3
  <2>6. out \subseteq Packet /\ \A q \in out : q.ack = t.nr /\ q.seq \in Sendable(e, t)
    BY <2>5
  <2> HIDE DEF out
  <2>7. Seqs(out) \subseteq Sendable(e, tun[e])
    BY <2>3, <2>6 DEF Seqs
  <2>8. Leads(e, tun[e], t, out)
    BY <1>1, <2>2, <2>3, <2>6, <2>7 DEF Leads
  <2>9. Effect(e, t, out)
    <3>1. sent' = [sent EXCEPT ![e] = @ \cup Seqs(out)]
      BY <1>2, <1>3, <2>7 DEF Inv, TypeOK
    <3> QED
      BY <1>2, <1>3, <2>1, <2>6, <3>1 DEF Effect, Inv, TypeOK
  <2>10. Inv'
    BY <1>1, <1>3, <2>3, <2>8, <2>9, EffectKeeps
  <2>11. [Channel!Next]_<<[d \in End |-> tun[d].ns], got>>
    BY <1>3, <2>2, <2>9, EffectImplements
  <2> QED
    BY <2>10, <2>11 DEF Keeps
<1> QED
  BY <1>4, <1>5

\* Timers may run and packets vanish.
LEMMA QuietKeeps ==
  ASSUME Inv, tun' \in [End -> Tunnel],
         \A e \in End : /\ tun'[e].ns = tun[e].ns /\ tun'[e].nr = tun[e].nr
                        /\ tun'[e].controlc = tun[e].controlc
                        /\ net'[e] \subseteq net[e]
                        /\ Timed(tun[e]) => Timed(tun'[e]),
         net' \in [End -> SUBSET Packet], sent' = sent, got' = got, lost' \in 0 .. MaxLoss
  PROVE  Keeps
<1>1. \A e \in End : Other(e) \in End /\ Una(tun'[e]) = Una(tun[e])
  BY OtherEnd DEF Una
<1>2. TypeOK' /\ QueueFits' /\ GotInOrder'
  BY DEF Inv, TypeOK, QueueFits, GotInOrder
<1>3. WindowFull' /\ ReleasedIsHandled'
  BY <1>1 DEF Inv, WindowFull, ReleasedIsHandled
<1>4. PacketsSound'
  BY <1>1 DEF Inv, PacketsSound, Sound
<1>5. HandledWasSent'
  <2>1. \A e \in End : Limit(e, tun'[e]) = Limit(e, tun[e])
    BY <1>1 DEF Limit
  <2> QED
    BY <1>1, <2>1 DEF Inv, HandledWasSent
<1>6. TimerRuns'
  BY DEF Inv, TimerRuns, Timed
<1>7. UNCHANGED <<[e \in End |-> tun[e].ns], got>>
  OBVIOUS
<1> QED
  BY <1>2, <1>3, <1>4, <1>5, <1>6, <1>7 DEF Keeps, Inv

\* A second passes.
LEMMA TickKeeps == ASSUME Inv, Tick PROVE Keeps
<1>1. \A e \in End : tun[e] \in Tunnel
  BY DEF Inv, TypeOK
<1>2. ASSUME NEW e \in End
      PROVE  /\ tun'[e] \in Tunnel
             /\ tun'[e].ns = tun[e].ns /\ tun'[e].nr = tun[e].nr
             /\ tun'[e].controlc = tun[e].controlc
             /\ Timed(tun[e]) => Timed(tun'[e])
  <2> DEFINE retry == IF tun[e].retry > 0 THEN tun[e].retry - 1 ELSE tun[e].retry
  <2>1. tun[e].retry \in Off .. 32
    BY <1>1 DEF Tunnel
  <2>2. retry \in Off .. 32 /\ (tun[e].retry # Off => retry # Off)
    BY <2>1 DEF Off
  <2>3. tun'[e] = [tun[e] EXCEPT !.retry = retry]
    BY <1>1 DEF Tick, Tunnel
  <2> HIDE DEF retry
  <2> QED
    BY <1>1, <2>2, <2>3 DEF Tunnel, Timed
<1>3. tun' \in [End -> Tunnel]
  BY <1>2 DEF Tick
<1> QED
  BY <1>2, <1>3, QuietKeeps DEF Tick, Inv, TypeOK

\* A packet is lost.
LEMMA LoseKeeps == ASSUME Inv, NEW e \in End, Lose(e) PROVE Keeps
<1>1. lost' \in 0 .. MaxLoss
  BY BoundsAreNats DEF Lose, Inv, TypeOK
<1>2. /\ net' \in [End -> SUBSET Packet]
      /\ \A d \in End : net'[d] \subseteq net[d]
  BY DEF Lose, Inv, TypeOK
<1> QED
  BY <1>1, <1>2, QuietKeeps DEF Lose, Inv, TypeOK

\* Every step keeps the invariant and is a step of the channel, or none.
LEMMA NextKeeps == ASSUME Inv, [Next]_vars PROVE Keeps
<1>1. CASE UNCHANGED vars
  BY <1>1, QuietKeeps DEF vars, Inv, TypeOK
<1>2. CASE Next
  BY <1>2, ReceiveKeeps, TalkKeeps, RetransmitKeeps, TickKeeps, LoseKeeps DEF Next
<1> QED
  BY <1>1, <1>2

\* The tunnel is new: nothing is queued, sent or under way.
LEMMA InitInv == Init => Inv
<1> SUFFICES ASSUME Init PROVE Inv
  OBVIOUS
<1>1. \A e \in End : /\ tun[e] = [ns |-> 0, nr |-> 0, controlc |-> 0, try |-> 0,
                                  retry |-> Off, open |-> TRUE]
                     /\ net[e] = {} /\ sent[e] = {} /\ got[e] = <<>>
  BY DEF Init
<1>2. \A e \in End : /\ tun[e].ns = 0 /\ tun[e].nr = 0 /\ tun[e].controlc = 0
                     /\ Una(tun[e]) = 0 /\ Window[e] \in Nat
                     /\ Min2(tun[e].controlc, Window[e]) = 0
                     /\ Other(e) \in End
  BY <1>1, OtherEnd DEF Una, Min2
<1>3. TypeOK
  <2>1. 0 \in 0 .. MaxTries /\ 0 \in 0 .. MaxLoss /\ Off \in Off .. 32
    BY BoundsAreNats DEF Off
  <2>2. [ns |-> 0, nr |-> 0, controlc |-> 0, try |-> 0, retry |-> Off, open |-> TRUE] \in Tunnel
    BY <2>1 DEF Tunnel
  <2> QED
    BY <2>1, <2>2 DEF TypeOK, Init
<1>4. WindowFull
  <2>1. 0 .. 0 + 0 - 1 = {}
    OBVIOUS
  <2>2. \A e \in End : Una(tun[e]) + Min2(tun[e].controlc, Window[e]) - 1 = 0 + 0 - 1
    BY <1>2
  <2> QED
    BY <1>1, <2>1, <2>2 DEF WindowFull
<1>5. GotInOrder
  BY <1>1, <1>2 DEF GotInOrder
<1>6. QueueFits /\ ReleasedIsHandled /\ TimerRuns /\ PacketsSound /\ HandledWasSent
  BY <1>1, <1>2 DEF QueueFits, TimerRuns, ReleasedIsHandled, PacketsSound, HandledWasSent, Limit
<1> QED
  BY <1>3, <1>4, <1>5, <1>6 DEF Inv

-----------------------------------------------------------------------------
(* Theorems.                                                               *)

\* The invariant holds in every reachable state.
LEMMA Invariance == Spec => []Inv
<1>1. Inv /\ [Next]_vars => Inv'
  BY NextKeeps DEF Keeps
<1> QED
  BY InitInv, <1>1, PTL DEF Spec

\* The variables keep their types: tries and timers stay in their bounds.
THEOREM TypeCorrect == Spec => []TypeOK
<1>1. Inv => TypeOK
  BY DEF Inv
<1> QED
  BY Invariance, <1>1, PTL

\* What controladd, the skip loop of processudp and the timer have sent at least once
\* is, in every reachable state, exactly what is or was in the window.
THEOREM SentIsWindow == Spec => []WindowFull
<1>1. Inv => WindowFull
  BY DEF Inv
<1> QED
  BY Invariance, <1>1, PTL

\* An end frees a message only when the other end has handled it: comparing 16-bit
\* numbers by the sign of their difference never releases one too many.
THEOREM ReleasesWhatIsHandled == Spec => []ReleasedIsHandled
<1>1. Inv => ReleasedIsHandled
  BY DEF Inv
<1> QED
  BY Invariance, <1>1, PTL

\* While a message waits, however many acknowledgements come in, the timer that
\* sends it again runs.
THEOREM TimerAlwaysRuns == Spec => []TimerRuns
<1>1. Inv => TimerRuns
  BY DEF Inv
<1> QED
  BY Invariance, <1>1, PTL

\* Over a network that loses, repeats, delays and reorders packets, each end handles
\* the messages of the other in order and once.
THEOREM ImplementsChannel == Spec => InOrderOnce
<1>1. Init => Channel!Init
  BY DEF Init, Channel!Init
<1>2. Inv /\ [Next]_vars => [Channel!Next]_<<[e \in End |-> tun[e].ns], got>>
  BY NextKeeps DEF Keeps
<1> QED
  BY <1>1, <1>2, Invariance, PTL DEF Spec, InOrderOnce, Channel!Spec
=============================================================================
