----------------------------- MODULE L2tpControl -----------------------------
(***************************************************************************)
(* The control connection of an L2TP tunnel (src/l2tpns.c): the queue of   *)
(* unacknowledged messages and its window (controladd), acknowledgement    *)
(* and duplicates (processudp), retransmission and giving up               *)
(* (regular_cleanups, tunnelkill).  Both ends are modelled; l2tpns runs at *)
(* one or, with its LAC function, at both.                                 *)
(*                                                                         *)
(* A message is known by its place among those of its end; what the header *)
(* carries, and what the code compares, is that place modulo SEQ.  What a  *)
(* message says is left out: its handler answers it with another message,  *)
(* acknowledges it with an empty one (ZLB), or says nothing.               *)
(*                                                                         *)
(* A wild network loses, repeats, delays and reorders packets, but holds   *)
(* none for as long as half the numbers take, and the timers may expire at *)
(* any time.  A timely one loses at most MaxLoss packets and delivers the  *)
(* others before time goes on; timers then run in ticks of a second.       *)
(***************************************************************************)
EXTENDS Integers, Sequences, FiniteSets

CONSTANTS
  SEQ,        \* 2^16: ns and nr are uint16_t
  Window,     \* tunnel[].window of each end
  MaxTries,   \* 5
  Talks,      \* ends that send a message of their own accord
  Foreign,    \* ends at which another implementation runs
  Wild,       \* the network is wild
  MaxLoss,    \* bound: packets a timely network loses
  MaxMsgs     \* bound: messages of an end

End == {1, 2}

Other(e) == 3 - e

Half == SEQ \div 2

ASSUME SeqIsEven     == SEQ \in Nat /\ SEQ % 2 = 0
ASSUME WindowFits    == Window \in [End -> 1 .. Half]
ASSUME EndsKnown     == Talks \subseteq End /\ Foreign \subseteq End
ASSUME BoundsAreNats == {MaxTries, MaxLoss, MaxMsgs} \subseteq Nat
ASSUME WildType      == Wild \in BOOLEAN

VARIABLES
  tun,    \* each end's tunnelt: ns, nr, controlc, try, retry (ticks left, or
          \* Off) and open (not killed)
  net,    \* packets on their way to each end
  sent,   \* ghost: the messages each end has sent at least once
  got,    \* ghost: the messages each end has handled
  lost    \* packets a timely network has lost

vars == <<tun, net, sent, got, lost>>

Min2(a, b) == IF a <= b THEN a ELSE b

Off == -1

\* backoff: powers of 2, not more than 2^5 seconds.
Backoff(try) == IF Wild THEN 0 ELSE <<1, 2, 4, 8, 16, 32>>[1 + Min2(try, 5)]

\* The oldest message in the queue controls.
Una(t) == t.ns - t.controlc

-----------------------------------------------------------------------------
(* What an end with tunnel t sends, and what becomes of t.                 *)

Message(t, n) == [seq |-> n, ack |-> t.nr, zlb |-> FALSE]

Queued(t, i) == Message(t, Una(t) + i)

\* controladd: a message is sent at once if it is in the window.
InWindow(e, t) == t.controlc < Window[e]

Add(e, t) == [t EXCEPT !.ns = @ + 1,
                       !.controlc = @ + 1,
                       !.try = IF InWindow(e, t) THEN 0 ELSE @,
                       !.retry = IF InWindow(e, t) THEN Backoff(0) ELSE @]

AddSends(e, t) == IF InWindow(e, t) THEN {Message(t, t.ns)} ELSE {}

\* controlnull: an empty message, unless messages are queued that carry the ack.
\* Another implementation acknowledges what it got in any case.
NullSends(e, t) ==
  IF t.controlc = 0 \/ e \in Foreign
  THEN {[seq |-> t.ns, ack |-> t.nr, zlb |-> TRUE]}
  ELSE {}

Null(t) == IF t.controlc = 0 THEN [t EXCEPT !.retry = Backoff(t.try)] ELSE t

-----------------------------------------------------------------------------
(* processudp, on a control message p.                                     *)

\* Mutant: the message that the other end asks for next is released too.
Negative_Zero(d) == d % SEQ >= Half \/ d % SEQ = 0

Negative(d) == d % SEQ >= Half                    \* & 0x8000

\* How many messages are released: from the oldest on, those before ack.
Released(t, ack) ==
  CHOOSE k \in 0 .. t.controlc :
    /\ \A j \in 0 .. k - 1 : Negative(Una(t) + j - ack)
    /\ k < t.controlc => ~Negative(Una(t) + k - ack)

Release(t, ack) ==
  LET k == Released(t, ack)
  IN  [t EXCEPT !.controlc = @ - k, !.try = IF k > 0 THEN 0 ELSE @]

\* Mutant: the messages that are still in flight are taken to be all of the window.
Skip_All(e, k) == Window[e]

\* After k messages were released, so many of the queue have been sent already.
Skip(e, k) == IF k <= Window[e] THEN Window[e] - k ELSE 0

\* The places in the queue that have come into the window.
Unstuck(e, t, k) == {i \in 0 .. t.controlc - 1 : Skip(e, k) <= i /\ i < Window[e]}

\* Mutant: the timer stops whenever something was acknowledged.
CaughtUp_Early(t) == [t EXCEPT !.retry = Off]

CaughtUp(t) == IF t.controlc = 0 THEN [t EXCEPT !.retry = Off] ELSE t

Advanced(e, t, ack) ==
  LET k == Released(t, ack)
      r == Release(t, ack)
  IN  CaughtUp(IF Unstuck(e, r, k) = {} THEN r ELSE [r EXCEPT !.try = 0, !.retry = Backoff(0)])

AdvanceSends(e, t, ack) ==
  {Queued(Release(t, ack), i) : i \in Unstuck(e, Release(t, ack), Released(t, ack))}

\* Mutant: a message after a gap is taken as well.
Expects_Later(t, p) == ~Negative(p.seq - t.nr)

Expects(t, p) == p.seq % SEQ = t.nr % SEQ

\* The ghost, after e has sent the packets out.
Noted(e, out) == [sent EXCEPT ![e] = @ \cup {p.seq : p \in {q \in out : ~q.zlb}}]

Deliver(e, p, t, out) ==
  /\ tun' = [tun EXCEPT ![e] = t]
  /\ net' = [net EXCEPT ![e] = IF Wild THEN @ ELSE @ \ {p}, ![Other(e)] = @ \cup out]
  /\ sent' = Noted(e, out)
  /\ UNCHANGED lost

\* Out of sequence.  l2tpns looks no further, another implementation at the ack.
Unexpected(e, p) ==
  LET other == e \in Foreign
      t == IF other THEN Advanced(e, tun[e], p.ack) ELSE tun[e]
      a == IF other THEN AdvanceSends(e, tun[e], p.ack) ELSE {}
  IN  /\ ~Expects(tun[e], p)
      /\ IF p.zlb THEN Deliver(e, p, t, a) ELSE Deliver(e, p, Null(t), a \cup NullSends(e, t))
      /\ UNCHANGED got

\* An empty message.
Zlb(e, p) ==
  /\ Expects(tun[e], p) /\ p.zlb
  /\ Deliver(e, p, Advanced(e, tun[e], p.ack), AdvanceSends(e, tun[e], p.ack))
  /\ UNCHANGED got

\* The expected message, and the tunnel with nr past it.
Handles(e, p) == /\ Expects(tun[e], p) /\ ~p.zlb
                 /\ got' = [got EXCEPT ![e] = Append(@, p.seq)]

Taken(e) == [tun[e] EXCEPT !.nr = @ + 1]

\* SCCRQ, SCCRP, ICRQ, ICRP: the handler answers.
Answer(e, p) ==
  LET t == Advanced(e, Taken(e), p.ack)
  IN  /\ Handles(e, p)
      /\ t.ns < MaxMsgs
      /\ Deliver(e, p, Add(e, t), AdvanceSends(e, Taken(e), p.ack) \cup AddSends(e, t))

\* SCCCN, StopCCN, HELLO, ICCN, CDN: the handler acknowledges.
Acknowledge(e, p) ==
  LET t == Advanced(e, Taken(e), p.ack)
  IN  /\ Handles(e, p)
      /\ Deliver(e, p, Null(t), AdvanceSends(e, Taken(e), p.ack) \cup NullSends(e, t))

\* An unknown message, OCRQ and the like, an ICRP for a session that is gone: the
\* handler says nothing.  Another implementation acknowledges these too.
Ignore(e, p) ==
  LET t == Advanced(e, Taken(e), p.ack)
  IN  /\ Handles(e, p)
      /\ e \notin Foreign
      /\ Deliver(e, p, t, AdvanceSends(e, Taken(e), p.ack))

\* A packet is not older than half the numbers.
Fresh(e, p) == tun[e].nr - p.seq < Half /\ Una(tun[e]) - p.ack < Half

Receive(e) ==
  /\ tun[e].open
  /\ \E p \in net[e] :
       /\ Fresh(e, p)
       /\ Unexpected(e, p) \/ Zlb(e, p) \/ Answer(e, p) \/ Acknowledge(e, p) \/ Ignore(e, p)

-----------------------------------------------------------------------------
(* What an end does of its own accord.                                     *)

\* A message is added: SCCRQ, ICRQ, HELLO, CDN, StopCCN.
Talk(e) ==
  /\ tun[e].open /\ e \in Talks
  /\ tun[e].ns < MaxMsgs
  /\ tun' = [tun EXCEPT ![e] = Add(e, @)]
  /\ net' = [net EXCEPT ![Other(e)] = @ \cup AddSends(e, tun[e])]
  /\ sent' = Noted(e, AddSends(e, tun[e]))
  /\ UNCHANGED <<got, lost>>

\* Mutant: one try too many.
GivesUp_Late(try) == try > MaxTries + 1

GivesUp(try) == try > MaxTries

Expired(e) == tun[e].open /\ tun[e].controlc > 0 /\ tun[e].retry = 0

\* regular_cleanups: the timer has expired.  What is in the window is sent again,
\* until the end gives up: tunnelkill frees the queue and the tunnel.
Retransmit(e) ==
  LET try == tun[e].try + 1
      t   == [tun[e] EXCEPT !.try = try, !.retry = Backoff(try)]
  IN  /\ Expired(e)
      /\ IF GivesUp(try)
         THEN tun' = [tun EXCEPT ![e].open = FALSE] /\ UNCHANGED net
         ELSE /\ tun' = [tun EXCEPT ![e] = t]
              /\ net' = [net EXCEPT ![Other(e)] =
                            @ \cup {Queued(t, i) : i \in 0 .. Min2(t.controlc, Window[e]) - 1}]
      /\ UNCHANGED <<sent, got, lost>>

\* A second passes: what was sent has arrived, and no timer is due.
Tick ==
  /\ ~Wild
  /\ \A e \in End : tun[e].open => net[e] = {} /\ ~Expired(e)
  /\ \E e \in End : tun[e].retry > 0
  /\ tun' = [e \in End |-> [tun[e] EXCEPT !.retry = IF @ > 0 THEN @ - 1 ELSE @]]
  /\ UNCHANGED <<net, sent, got, lost>>

Lose(e) ==
  /\ lost < MaxLoss
  /\ \E p \in net[e] : net' = [net EXCEPT ![e] = @ \ {p}]
  /\ lost' = lost + 1
  /\ UNCHANGED <<tun, sent, got>>

Init ==
  /\ tun = [e \in End |-> [ns |-> 0, nr |-> 0, controlc |-> 0, try |-> 0,
                           retry |-> Off, open |-> TRUE]]
  /\ net = [e \in End |-> {}]
  /\ sent = [e \in End |-> {}]
  /\ got = [e \in End |-> <<>>]
  /\ lost = 0

Next == (\E e \in End : Receive(e) \/ Talk(e) \/ Retransmit(e) \/ Lose(e)) \/ Tick

Spec == Init /\ [][Next]_vars

\* The main loop reads its sockets and runs the timers, and time goes on.
FairSpec == Spec /\ WF_vars(Tick) /\ \A e \in End : WF_vars(Receive(e)) /\ WF_vars(Retransmit(e))

-----------------------------------------------------------------------------
Packet == [seq : Nat, ack : Nat, zlb : BOOLEAN]

Tunnel == [ns : Nat, nr : Nat, controlc : Nat, try : 0 .. MaxTries,
           retry : Off .. 32, open : BOOLEAN]

\* Ends and packets are of their kind: tries and timers stay in their bounds.
TypeOK ==
  /\ tun \in [End -> Tunnel]
  /\ net \in [End -> SUBSET Packet]
  /\ sent \in [End -> SUBSET Nat]
  /\ got \in [End -> Seq(Nat)]
  /\ lost \in 0 .. MaxLoss

\* The messages sent are exactly those that were ever in the window: none waits
\* although there is room for it, and none is sent too early, however
\* acknowledgements come in.
WindowFull ==
  \A e \in End :
    sent[e] = 0 .. Una(tun[e]) + Min2(tun[e].controlc, Window[e]) - 1

\* A message is freed only when the other end has handled it.
ReleasedIsHandled == \A e \in End : Una(tun[e]) <= tun[Other(e)].nr

\* While a message waits for its acknowledgement the timer runs.
TimerRuns ==
  \A e \in End : tun[e].controlc > 0 => tun[e].retry # Off

\* Messages are handled in order and once: the ends implement the channel.
Channel == INSTANCE ControlChannel
             WITH written <- [e \in End |-> tun[e].ns], handled <- got

InOrderOnce == Channel!Spec

\* "Messages queued; They will carry the ack." (l2tpns.c:2017): no end gives up on
\* a peer that is there and a network that loses no more than a few packets.
NeverGivesUp == \A e \in End : tun[e].open

\* Every message is handled and acknowledged in the end.
AllHandled ==
  <>[](\A e \in End : tun[e].controlc = 0 /\ tun[Other(e)].nr = tun[e].ns)
=============================================================================
