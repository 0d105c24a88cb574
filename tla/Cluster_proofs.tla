---------------------------- MODULE Cluster_proofs ----------------------------
(***************************************************************************)
(* Proofs about Cluster.  First, machines and packets keep to their types. *)
(* Then, there is never a second master, whatever crashes and shuts down.  *)
(*                                                                         *)
(* The second proof looks at a snapshot of the state, which knows of the   *)
(* packets on their way only of which kinds they are.  Orderly is the      *)
(* invariant of snapshots; each kind of step is a relation on snapshots    *)
(* that keeps it (WokenOk, PingedOk, LeftOk, BeatenOk, EndedOk,            *)
(* QuittingOk, PassedOk, TickedOk).  The last part shows that every step   *)
(* of Cluster is one of them (WakeIs, ReceiveIs, ShutdownIs, ...).         *)
(***************************************************************************)
EXTENDS Cluster, Loops, SequenceTheorems, FiniteSetTheorems

Peer == [base : Nat, age : 0 .. HbTimeout + 1, utd : BOOLEAN, known : BOOLEAN]

\* A process; a master has a number for its next heartbeat.
PType == [up : BOOLEAN, base : Nat, master : BOOLEAN, addr : Node \cup {0}, seq : -1 .. HB_MAX_SEQ - 1,
          tv : Nat, has : SUBSET Changes, ring : [Slot -> Beats], hbAge : 0 .. HbTimeout + 1,
          upAge : 0 .. HbTimeout + 1, peer : [Node -> Peer], utd : BOOLEAN, adv : BOOLEAN, had : Nat, quit : BOOLEAN]
Proc == {p \in PType : p.master => p.seq # -1}

Nets == [Link -> Seq(Packet)]
Outs == [Node -> Seq(Packet)]

Typed == /\ proc \in [Node -> Proc]
         /\ net \in Nets
         /\ woke \subseteq Node
         /\ faults \in 0 .. MaxFaults
         /\ stray \in BOOLEAN /\ wild \in BOOLEAN

-----------------------------------------------------------------------------
(* Sizes and numbers. *)

LEMMA Sizes == /\ HB_MAX_SEQ \in Nat /\ HB_HISTORY_SIZE \in Nat /\ 0 < HB_HISTORY_SIZE /\ HB_HISTORY_SIZE < HB_MAX_SEQ
               /\ HbTimeout \in Nat /\ 0 < HbTimeout /\ MinAdv \in Nat /\ MaxFaults \in Nat
               /\ Node \subseteq Nat /\ 0 \notin Node /\ IsFiniteSet(Node)
  BY AddressesAreNumbers, RingDividesNumbers, TimersAreRounds, Bounds

LEMMA Zeros == 0 \in 0 .. HbTimeout + 1 /\ HbTimeout + 1 \in 0 .. HbTimeout + 1 /\ 0 \in Nat
  BY Sizes

LEMMA Remainder == ASSUME NEW a \in Nat, NEW b \in Nat, 0 < b PROVE a % b \in 0 .. b - 1
  OBVIOUS

LEMMA InRing == ASSUME NEW a \in Nat PROVE a % HB_HISTORY_SIZE \in Slot /\ a % HB_MAX_SEQ \in 0 .. HB_MAX_SEQ - 1
  BY Sizes, Remainder DEF Slot

LEMMA NoBeatIs == NoBeat \in Beats
  BY Sizes DEF NoBeat, Beats

LEMMA NoPeerIs == NoPeer \in Peer
  BY Sizes DEF NoPeer, Peer

LEMMA FreshOk == ASSUME NEW b \in Nat PROVE Fresh(b) \in Proc /\ Down(b) \in Proc
<1>1. [i \in Slot |-> NoBeat] \in [Slot -> Beats] /\ [m \in Node |-> NoPeer] \in [Node -> Peer]
  BY NoBeatIs, NoPeerIs
<1>2. Fresh(b) \in Proc
  BY <1>1, Sizes DEF Fresh, Proc, PType
<1> QED
  BY <1>2 DEF Down, Proc, PType

LEMMA ReadyIs == ASSUME NEW p PROVE Ready(p) \in Nat
<1> DEFINE S == {m \in Node : Live(p, m) /\ p.peer[m].utd}
<1>1. IsFiniteSet(S)
  BY Sizes, FS_Subset
<1>2. Cardinality(S) \in Nat
  BY <1>1, FS_CardinalityType
<1> QED
  BY <1>2 DEF Ready

-----------------------------------------------------------------------------
(* Packets. *)

LEMMA PacketsAre ==
  /\ \A b \in Nat, u \in BOOLEAN : Ping(b, u) \in Packet
  /\ \A hb \in Beats : Beat(hb) \in Packet
  /\ \A q \in -1 .. HB_MAX_SEQ - 1 : LastSeen(q) \in Packet /\ Kill(q) \in Packet
  /\ \A a \in Node \cup {0} : Redirect(a) \in Packet
  BY DEF Ping, Beat, LastSeen, Kill, Redirect, Packet

LEMMA PacketIs ==
  ASSUME NEW m \in Packet
  PROVE  /\ m.type = "ping" => m.base \in Nat /\ m.undef \in BOOLEAN
         /\ m.type = "beat" => m.hb \in Beats
         /\ m.type \in {"lastseen", "kill"} => m.seq \in -1 .. HB_MAX_SEQ - 1
         /\ m.type = "master" => m.addr \in Node \cup {0}
  BY DEF Packet

LEMMA OutsAre ==
  /\ Nothing \in Outs
  /\ \A s \in Seq(Packet) : ToAll(s) \in Outs /\ \A d \in Node \cup {0} : To(d, s) \in Outs
  /\ \A o, o2 \in Outs : And(o, o2) \in Outs
<1>1. Nothing \in Outs
  BY EmptySeq DEF Nothing, Outs
<1>2. ASSUME NEW o \in Outs, NEW o2 \in Outs PROVE And(o, o2) \in Outs
  <2>1. \A d \in Node : o[d] \o o2[d] \in Seq(Packet)
    BY ConcatProperties DEF Outs
  <2> QED
    BY <2>1 DEF And, Outs
<1> QED
  BY <1>1, <1>2 DEF To, ToAll, Outs

LEMMA SentOk == ASSUME NEW w \in Nets, NEW n \in Node, NEW out \in Outs PROVE Sent(w, n, out) \in Nets
<1>1. ASSUME NEW c \in Link PROVE (IF c[1] = n THEN w[c] \o out[c[2]] ELSE w[c]) \in Seq(Packet)
  <2>1. c[2] \in Node /\ w[c] \in Seq(Packet) /\ out[c[2]] \in Seq(Packet)
    BY DEF Link, Nets, Outs
  <2> QED
    BY <2>1, ConcatProperties
<1> QED
  BY <1>1 DEF Sent, Nets

LEMMA TakenOk == ASSUME NEW w \in Nets, NEW c \in Link, NEW i \in 1 .. Len(w[c])
                 PROVE  [w EXCEPT ![c] = RemoveAt(@, i)] \in Nets /\ w[c][i] \in Packet
<1> DEFINE s == w[c]
<1>1. s \in Seq(Packet) /\ Len(s) \in Nat
  BY DEF Nets
<1>2. SubSeq(s, 1, i - 1) \in Seq(Packet) /\ SubSeq(s, i + 1, Len(s)) \in Seq(Packet)
  BY <1>1, SubSeqProperties
<1>3. RemoveAt(s, i) \in Seq(Packet)
  BY <1>2, ConcatProperties DEF RemoveAt
<1>4. s[i] \in Packet
  BY <1>1
<1> QED
  BY <1>3, <1>4 DEF Nets

-----------------------------------------------------------------------------
(* What the handlers are made of. *)

LEMMA BecomeMasterOk == ASSUME NEW p \in Proc PROVE BecomeMaster(p) \in Proc
<1> DEFINE a == Ready(p) < MinAdv
           s == IF p.seq = -1 THEN 0 ELSE p.seq
<1>1. a \in BOOLEAN
  OBVIOUS
<1>2. s \in -1 .. HB_MAX_SEQ - 1 /\ s # -1
  BY Sizes DEF Proc, PType
<1>3. BecomeMaster(p) = [p EXCEPT !.master = TRUE, !.adv = a, !.seq = s, !.utd = TRUE]
  BY DEF BecomeMaster, Proc, PType
<1> HIDE DEF a, s
<1> QED
  BY <1>1, <1>2, <1>3 DEF Proc, PType

LEMMA CheckMasterOk == ASSUME NEW n, NEW p \in Proc PROVE CheckMaster(n, p) \in Proc
<1> DEFINE q == [p EXCEPT !.hbAge = 0, !.addr = 0]
<1>1. q \in Proc
  BY Zeros DEF Proc, PType
<1> QED
  BY <1>1, BecomeMasterOk DEF CheckMaster

LEMMA ProbeOk == ASSUME NEW p \in Proc PROVE Probe(p) \in Outs
<1>1. <<LastSeen(p.seq)>> \in Seq(Packet)
  BY PacketsAre DEF Proc, PType
<1> QED
  BY <1>1, OutsAre DEF Probe, Proc, PType

LEMMA CheckSlavesOk == ASSUME NEW p \in Proc PROVE CheckSlaves(p) \in Proc
<1> DEFINE have == Ready(p)
<1>1. have \in Nat
  BY ReadyIs
<1> HIDE DEF have
<1>2. CASE p.master
  <2> DEFINE a == CASE p.had < MinAdv /\ have >= MinAdv -> FALSE
                    [] p.had >= MinAdv /\ have < MinAdv -> TRUE
                    [] OTHER -> p.adv
             u == \A m \in Node : Live(p, m) => p.peer[m].utd
  <2>1. a \in BOOLEAN
    BY DEF Proc, PType
  <2>2. u \in BOOLEAN
    OBVIOUS
  <2>3. CheckSlaves(p) = [p EXCEPT !.utd = u, !.had = have, !.adv = a]
    BY <1>2 DEF CheckSlaves, have
  <2> HIDE DEF a, u
  <2> QED
    BY <1>1, <2>1, <2>2, <2>3 DEF Proc, PType
<1> QED
  BY <1>2 DEF CheckSlaves

LEMMA NextBeatOk == ASSUME NEW n \in Node, NEW p \in Proc, p.seq # -1, NEW c \in Nat PROVE NextBeat(n, p, c) \in Beats
<1> DEFINE new == {<<n, p.tv + k>> : k \in 1 .. c}
<1>1. new \in SUBSET Changes /\ p.has \in SUBSET Changes
  BY DEF Changes, Proc, PType
<1> HIDE DEF new
<1>2. NextBeat(n, p, c) = [seq |-> p.seq, tv |-> p.tv + c, base |-> p.base, by |-> n, new |-> new, all |-> p.has \cup new]
  BY DEF NextBeat, new
<1> QED
  BY <1>1, <1>2, Sizes DEF Beats, Proc, PType

LEMMA SavedOk == ASSUME NEW p \in Proc, NEW hb \in Beats PROVE Saved(p, hb) \in Proc /\ Saved(p, hb).seq # -1
<1>1. hb.seq \in Nat /\ hb.seq % HB_HISTORY_SIZE \in Slot /\ (hb.seq + 1) % HB_MAX_SEQ \in 0 .. HB_MAX_SEQ - 1
  BY InRing DEF Beats
<1> DEFINE r == [p.ring EXCEPT ![hb.seq % HB_HISTORY_SIZE] = hb]
           s == (hb.seq + 1) % HB_MAX_SEQ
<1>2. r \in [Slot -> Beats] /\ s \in -1 .. HB_MAX_SEQ - 1 /\ s # -1
  BY <1>1 DEF Proc, PType
<1>3. Saved(p, hb) = [p EXCEPT !.ring = r, !.seq = s]
  BY DEF Saved, Proc, PType
<1> HIDE DEF r, s
<1> QED
  BY <1>2, <1>3 DEF Proc, PType

LEMMA AfterBeatOk == ASSUME NEW n \in Node, NEW p \in Proc, p.seq # -1, NEW c \in Nat PROVE AfterBeat(n, p, c) \in Proc
<1> DEFINE h == NextBeat(n, p, c)
<1>1. h \in Beats
  BY NextBeatOk
<1> HIDE DEF h
<1>2. Saved(p, h) \in Proc
  BY <1>1, SavedOk
<1>3. AfterBeat(n, p, c) = [Saved(p, h) EXCEPT !.tv = h.tv, !.has = h.all]
  BY DEF AfterBeat, h
<1> QED
  BY <1>1, <1>2, <1>3 DEF Proc, PType, Beats

\* What answers a C_LASTSEEN: heartbeats of the ring that have been written, or a C_KILL.
Resent == {m \in Packet : m.type \in {"beat", "kill"}}

LEMMA CatchupIs ==
  ASSUME NEW p \in Proc, NEW q \in -1 .. HB_MAX_SEQ - 1
  PROVE  Catchup(p, q) \in Seq(Resent)
<1> DEFINE diff == Behind(p, q)
<1>1. p.seq \in Int /\ q \in Int /\ diff \in Nat /\ HB_MAX_SEQ \in Nat
  BY Sizes DEF Behind, Proc, PType
<1> HIDE DEF diff
<1>2. CASE diff >= HB_HISTORY_SIZE \/ q < 0
  <2>1. Kill(q) \in Resent
    BY PacketsAre DEF Resent, Kill
  <2>2. <<Kill(q)>> \in Seq(Resent)
    BY <2>1
  <2> QED
    BY <1>2, <2>2, EmptySeq DEF Catchup, diff
<1>3. CASE ~(diff >= HB_HISTORY_SIZE) /\ ~(q < 0)
  <2> DEFINE num(k) == (q + diff - k) % HB_MAX_SEQ
             slot(k) == p.ring[num(k) % HB_HISTORY_SIZE]
             step(k, r) == IF k = 0 \/ slot(k).seq # num(k) THEN <<>>
                           ELSE (IF slot(k).by = 0 THEN <<>> ELSE <<Beat(slot(k))>>) \o r
             T == Seq(Resent)
             F == [a \in (1 .. diff) \X T |-> step(a[1], a[2])]
             D == CHOOSE g : g = [k \in 0 .. diff |-> step(k, g[k - 1])]
  <2>1. ASSUME NEW k \in 0 .. diff, NEW r \in T PROVE step(k, r) \in T
    <3>1. num(k) \in Nat
      <4>1. q + diff - k \in Nat
        BY <1>1, <1>3
      <4>2. (q + diff - k) % HB_MAX_SEQ \in 0 .. HB_MAX_SEQ - 1
        BY <4>1, InRing
      <4> QED
        BY <1>1, <4>2
    <3>2. num(k) % HB_HISTORY_SIZE \in Slot
      BY <3>1, InRing
    <3>3. slot(k) \in Beats
      BY <3>2 DEF Proc, PType
    <3>4. Beat(slot(k)) \in Resent
      BY <3>3, PacketsAre DEF Resent, Beat
    <3> HIDE DEF slot, num
    <3>5. (IF slot(k).by = 0 THEN <<>> ELSE <<Beat(slot(k))>>) \in Seq(Resent)
      BY <3>4, EmptySeq
    <3> QED
      BY <3>5, EmptySeq, ConcatProperties
  <2>2. step(0, <<>>) = <<>> /\ \A r : step(0, r) = <<>>
    OBVIOUS
  <2>3. Catchup(p, q) = D[diff]
    BY <1>3 DEF Catchup, diff
  <2> HIDE DEF step
  <2>4. F \in [(1 .. diff) \X T -> T]
    BY <2>1
  <2>5. PICK g \in [0 .. diff -> T] : Rounds(diff, F, <<>>, g)
    <3>1. <<>> \in T
      BY EmptySeq
    <3> QED
      BY <1>1, <2>4, <3>1, LoopDefined
  <2>6. \A k \in 0 .. diff : g[k] = step(k, g[k - 1])
    <3> SUFFICES ASSUME NEW k \in 0 .. diff PROVE g[k] = step(k, g[k - 1])
      OBVIOUS
    <3>1. CASE k = 0
      BY <2>2, <2>5, <3>1 DEF Rounds
    <3>2. CASE k # 0
      <4>1. k \in 1 .. diff /\ k - 1 \in 0 .. diff
        BY <1>1, <3>2
      <4>2. <<k, g[k - 1]>> \in (1 .. diff) \X T
        BY <4>1
      <4>3. F[<<k, g[k - 1]>>] = step(k, g[k - 1])
        BY <4>2
      <4> QED
        BY <2>5, <4>1, <4>3 DEF Rounds
    <3> QED
      BY <3>1, <3>2
  <2>7. g = [k \in 0 .. diff |-> step(k, g[k - 1])]
    BY <2>6
  <2>8. D = [k \in 0 .. diff |-> step(k, D[k - 1])]
    BY <2>7
  <2> HIDE DEF D, F
  <2> DEFINE S == {k \in 0 .. diff : D[k] \in T}
  <2>9. 0 \in S
    <3>1. 0 \in 0 .. diff
      BY <1>1
    <3>2. D[0] = step(0, D[0 - 1])
      BY <2>8, <3>1
    <3> QED
      BY <2>2, <3>1, <3>2, EmptySeq
  <2>10. ASSUME NEW k \in 0 .. diff - 1, k \in S PROVE k + 1 \in S
    <3>1. k + 1 \in 0 .. diff /\ (k + 1) - 1 = k
      BY <1>1
    <3>2. D[k + 1] = step(k + 1, D[k])
      BY <2>8, <3>1
    <3> QED
      BY <2>1, <2>10, <3>1, <3>2
  <2> HIDE DEF S
  <2>11. diff \in S
    <3>1. \A k \in 0 .. diff : k \in S
      BY <1>1, <2>9, <2>10, Induct
    <3> QED
      BY <1>1, <3>1
  <2> QED
    BY <2>3, <2>11 DEF S
<1> QED
  BY <1>2, <1>3

LEMMA CatchupOk ==
  ASSUME NEW p \in Proc, NEW q \in -1 .. HB_MAX_SEQ - 1
  PROVE  Catchup(p, q) \in Seq(Packet)
<1> DEFINE u == Catchup(p, q)
<1>1. u \in Seq(Resent)
  BY CatchupIs
<1> HIDE DEF u
<1>2. Len(u) \in Nat /\ u = [i \in 1 .. Len(u) |-> u[i]] /\ \A i \in 1 .. Len(u) : u[i] \in Packet
  BY <1>1 DEF Resent
<1>3. u \in [1 .. Len(u) -> Packet]
  BY <1>2
<1>4. u \in Seq(Packet)
  BY <1>2, <1>3, SeqDef
<1> QED
  BY <1>4 DEF u

-----------------------------------------------------------------------------
(* The steps. *)

LEMMA Installed ==
  ASSUME Typed, NEW n \in Node, NEW p \in Proc, NEW out \in Outs, Install(n, p, out)
  PROVE  proc' \in [Node -> Proc] /\ net' \in Nets
<1>1. Sent(net, n, out) \in Nets
  BY SentOk DEF Typed
<1> QED
  BY <1>1 DEF Typed, Install

LEMMA Taken ==
  ASSUME Typed, NEW x \in Node, NEW n \in Node, <<x, n>> \in Link, NEW i \in 1 .. Len(net[<<x, n>>]),
         NEW p \in Proc, NEW out \in Outs, Take(x, n, i, p, out), stray' \in BOOLEAN
  PROVE  Typed'
<1> DEFINE w == [net EXCEPT ![<<x, n>>] = RemoveAt(@, i)]
<1>1. w \in Nets
  BY TakenOk DEF Typed
<1>2. Sent(w, n, out) \in Nets
  BY <1>1, SentOk
<1>3. net' = Sent(w, n, out)
  BY DEF Take
<1> QED
  BY <1>2, <1>3 DEF Typed, Take

LEMMA WakeTyped == ASSUME Typed, NEW n \in Node, Wake(n) PROVE Typed'
<1> DEFINE p == proc[n]
           ping == IF p.master THEN Nothing ELSE ToAll(<<Ping(p.base, ~p.utd)>>)
           e == CheckMaster(n, p)
<1>1. PICK c \in 0 .. 1 :
        LET b    == IF e.master THEN AfterBeat(n, e, c) ELSE e
            beat == IF e.master THEN ToAll(<<Beat(NextBeat(n, e, c))>>) ELSE Nothing
        IN  Install(n, CheckSlaves(b), And(And(ping, Probe(p)), beat))
  BY DEF Wake
<1> DEFINE b    == IF e.master THEN AfterBeat(n, e, c) ELSE e
           beat == IF e.master THEN ToAll(<<Beat(NextBeat(n, e, c))>>) ELSE Nothing
<1>2. p \in Proc /\ c \in Nat
  BY DEF Typed
<1>3. e \in Proc
  BY <1>2, CheckMasterOk
<1>4. ping \in Outs
  <2> DEFINE u == ~p.utd
  <2>1. p.base \in Nat /\ u \in BOOLEAN
    BY <1>2 DEF Proc, PType
  <2> HIDE DEF u
  <2>2. Ping(p.base, u) \in Packet
    BY <2>1, PacketsAre
  <2>3. <<Ping(p.base, ~p.utd)>> \in Seq(Packet)
    BY <2>2 DEF u
  <2> QED
    BY <2>3, OutsAre
<1> HIDE DEF p, e, ping
<1>5. b \in Proc /\ beat \in Outs
  <2>1. CASE e.master
    <3>1. e.seq # -1
      BY <1>3, <2>1 DEF Proc
    <3>2. AfterBeat(n, e, c) \in Proc
      BY <1>2, <1>3, <3>1, AfterBeatOk
    <3>3. NextBeat(n, e, c) \in Beats
      BY <1>2, <1>3, <3>1, NextBeatOk
    <3>4. <<Beat(NextBeat(n, e, c))>> \in Seq(Packet)
      BY <3>3, PacketsAre
    <3> QED
      BY <2>1, <3>2, <3>4, OutsAre
  <2>2. CASE ~e.master
    BY <1>3, <2>2, OutsAre
  <2> QED
    BY <2>1, <2>2
<1>6. Install(n, CheckSlaves(b), And(And(ping, Probe(p)), beat))
  BY <1>1
<1> HIDE DEF b, beat
<1>7. CheckSlaves(b) \in Proc
  BY <1>5, CheckSlavesOk
<1>8. And(And(ping, Probe(p)), beat) \in Outs
  <2>1. And(ping, Probe(p)) \in Outs
    BY <1>2, <1>4, ProbeOk, OutsAre
  <2> QED
    BY <1>5, <2>1, OutsAre
<1>9. proc' \in [Node -> Proc] /\ net' \in Nets
  BY <1>6, <1>7, <1>8, Installed
<1> QED
  BY <1>9 DEF Typed, Wake

LEMMA RecvPingTyped ==
  ASSUME Typed, NEW x \in Node, NEW n \in Node, <<x, n>> \in Link, NEW i \in 1 .. Len(net[<<x, n>>]),
         NEW m \in Packet, RecvPing(x, n, i, m)
  PROVE  Typed'
<1> DEFINE p     == proc[n]
           entry == [base |-> m.base, age |-> 0, utd |-> ~m.undef, known |-> TRUE]
           known == p.peer[x].known
           p1    == IF known THEN [p EXCEPT !.peer[x] = entry] ELSE p
           p3    == [p1 EXCEPT !.addr = 0, !.hbAge = p.upAge]
           p2    == IF x = p.addr THEN CheckMaster(n, p3) ELSE p1
<1>1. p \in Proc /\ stray' \in BOOLEAN
  BY DEF Typed, RecvPing
<1>2. entry \in Peer
  BY Zeros, PacketIs DEF Peer, RecvPing
<1>3. \E d \in Node : \/ Take(x, n, i, p2, Nothing)
                      \/ Take(x, n, i, [p2 EXCEPT !.peer[x] = entry], Nothing)
                      \/ Take(x, n, i, [p2 EXCEPT !.peer[d] = NoPeer, !.peer[x] = entry], Nothing)
  BY DEF RecvPing
<1> HIDE DEF p, entry
<1>4. p1 \in Proc
  BY <1>1, <1>2 DEF Proc, PType
<1> HIDE DEF p1
<1>5. p3 \in Proc
  BY <1>1, <1>4, Zeros DEF Proc, PType
<1> HIDE DEF p3
<1>6. p2 \in Proc
  BY <1>4, <1>5, CheckMasterOk
<1> HIDE DEF p2
<1>7. [p2 EXCEPT !.peer[x] = entry] \in Proc
  BY <1>2, <1>6 DEF Proc, PType
<1>8. \A d \in Node : [p2 EXCEPT !.peer[d] = NoPeer, !.peer[x] = entry] \in Proc
  BY <1>2, <1>6, NoPeerIs DEF Proc, PType
<1> QED
  BY <1>1, <1>3, <1>6, <1>7, <1>8, Taken, OutsAre

LEMMA MasterRecvBeatTyped ==
  ASSUME Typed, NEW x \in Node, NEW n \in Node, <<x, n>> \in Link, NEW i \in 1 .. Len(net[<<x, n>>]),
         NEW m \in Packet, MasterRecvBeat(x, n, i, m)
  PROVE  Typed'
<1> DEFINE p == proc[n]
           q == p.seq - 1
<1>1. p \in Proc /\ p.master /\ stray \in BOOLEAN
  BY DEF Typed, MasterRecvBeat
<1>2. Exit(n) \in Proc
  BY <1>1, FreshOk DEF Exit, Proc, PType
<1>3. q \in -1 .. HB_MAX_SEQ - 1
  <2>1. p.seq \in -1 .. HB_MAX_SEQ - 1 /\ p.seq # -1
    BY <1>1 DEF Proc, PType
  <2> QED
    BY <2>1, Sizes
<1> HIDE DEF q
<1>4. To(x, Catchup(p, q)) \in Outs
  BY <1>1, <1>3, CatchupOk, OutsAre
<1>5. \/ Take(x, n, i, Exit(n), Nothing) /\ UNCHANGED stray
      \/ Take(x, n, i, p, To(x, Catchup(p, q))) /\ stray' = (stray \/ OutsideRing(p, q))
      \/ Take(x, n, i, p, Nothing) /\ UNCHANGED stray
  BY DEF MasterRecvBeat, q
<1>6. stray' \in BOOLEAN
  BY <1>1, <1>5 DEF OutsideRing
<1> QED
  BY <1>1, <1>2, <1>4, <1>5, <1>6, Taken, OutsAre

LEMMA SlaveRecvBeatTyped ==
  ASSUME Typed, NEW x \in Node, NEW n \in Node, <<x, n>> \in Link, NEW i \in 1 .. Len(net[<<x, n>>]),
         NEW m \in Packet, SlaveRecvBeat(x, n, i, m)
  PROVE  Typed'
<1> DEFINE p == proc[n]
           h == m.hb
           q == Expected(p, h)
<1>1. p \in Proc /\ ~p.master /\ stray' \in BOOLEAN
  BY DEF Typed, SlaveRecvBeat
<1>2. h \in Beats
  BY PacketIs DEF SlaveRecvBeat
<1>3. q \in -1 .. HB_MAX_SEQ - 1
  BY <1>1, <1>2 DEF Expected, Proc, PType, Beats
<1>4. \/ Take(x, n, i, p, Nothing)
      \/ Take(x, n, i, [p EXCEPT !.hbAge = 0], To(x, <<LastSeen(q)>>))
      \/ \E done \in BOOLEAN : Take(x, n, i, Applied(p, x, h, done), Nothing)
  BY DEF SlaveRecvBeat
<1> HIDE DEF p, h, q
<1>5. [p EXCEPT !.hbAge = 0] \in Proc
  BY <1>1, Zeros DEF Proc, PType
<1>6. To(x, <<LastSeen(q)>>) \in Outs
  <2>1. <<LastSeen(q)>> \in Seq(Packet)
    BY <1>3, PacketsAre
  <2> QED
    BY <2>1, OutsAre
<1>7. ASSUME NEW done \in BOOLEAN PROVE Applied(p, x, h, done) \in Proc
  <2> DEFINE s == Saved(p, h)
             all == IF p.seq = -1 THEN h.all ELSE s.has \cup h.new
             adv == s.adv \/ (done /\ ~p.utd)
             utd == s.utd \/ done
  <2>1. s \in Proc
    BY <1>1, <1>2, SavedOk
  <2>2. all \in SUBSET Changes /\ adv \in BOOLEAN /\ utd \in BOOLEAN
    BY <1>2, <2>1 DEF Proc, PType, Beats
  <2>3. Applied(p, x, h, done) = [s EXCEPT !.addr = x, !.hbAge = 0, !.tv = h.tv, !.has = all, !.utd = utd, !.adv = adv]
    BY <2>1 DEF Applied, Proc, PType
  <2> HIDE DEF s, all, adv, utd
  <2>4. h.tv \in Nat
    BY <1>2 DEF Beats
  <2>5. [s EXCEPT !.addr = x, !.hbAge = 0, !.tv = h.tv, !.has = all, !.utd = utd, !.adv = adv] \in PType
    BY <2>1, <2>2, <2>4, Zeros DEF Proc, PType
  <2> QED
    BY <2>1, <2>3, <2>5 DEF Proc, PType
<1> QED
  BY <1>1, <1>4, <1>5, <1>6, <1>7, Taken, OutsAre

LEMMA OtherRecvTyped ==
  ASSUME Typed, NEW x \in Node, NEW n \in Node, <<x, n>> \in Link, NEW i \in 1 .. Len(net[<<x, n>>]),
         NEW m \in Packet, RecvLastSeen(x, n, i, m) \/ RecvRedirect(x, n, i, m) \/ RecvKill(x, n, i, m)
  PROVE  Typed'
<1> DEFINE p == proc[n]
<1>1. p \in Proc /\ stray \in BOOLEAN
  BY DEF Typed
<1>2. CASE RecvLastSeen(x, n, i, m)
  <2> DEFINE s == IF p.master THEN Catchup(p, m.seq) ELSE <<Redirect(p.addr)>>
  <2>0. p.addr \in Node \cup {0} /\ m.seq \in -1 .. HB_MAX_SEQ - 1
    BY <1>1, <1>2, PacketIs DEF RecvLastSeen, Proc, PType
  <2>1. s \in Seq(Packet)
    <3>1. <<Redirect(p.addr)>> \in Seq(Packet)
      BY <2>0, PacketsAre
    <3> QED
      BY <1>1, <2>0, <3>1, CatchupOk
  <2>2. To(x, s) \in Outs
    BY <2>1, OutsAre
  <2>3. Take(x, n, i, p, To(x, s)) /\ stray' \in BOOLEAN
    BY <1>1, <1>2 DEF RecvLastSeen, OutsideRing
  <2> QED
    BY <1>1, <2>2, <2>3, Taken
<1>3. CASE RecvRedirect(x, n, i, m)
  <2> DEFINE q == [p EXCEPT !.addr = m.addr, !.hbAge = IF m.addr # 0 THEN 0 ELSE @]
             out == IF m.addr # 0 THEN To(m.addr, <<LastSeen(p.seq)>>) ELSE Nothing
  <2>1. m.addr \in Node \cup {0}
    BY <1>3, PacketIs DEF RecvRedirect
  <2>2. q \in Proc
    BY <1>1, <2>1, Zeros DEF Proc, PType
  <2>3. CheckMaster(n, q) \in Proc
    BY <2>2, CheckMasterOk
  <2>4. <<LastSeen(p.seq)>> \in Seq(Packet)
    BY <1>1, PacketsAre DEF Proc, PType
  <2>5. out \in Outs
    BY <2>1, <2>4, OutsAre
  <2>6. (Take(x, n, i, p, Nothing) \/ Take(x, n, i, CheckMaster(n, q), out)) /\ stray' \in BOOLEAN
    BY <1>1, <1>3 DEF RecvRedirect
  <2> QED
    BY <1>1, <2>3, <2>5, <2>6, Taken, OutsAre
<1>4. CASE RecvKill(x, n, i, m)
  <2>1. Exit(n) \in Proc
    BY <1>1, FreshOk DEF Exit, Proc, PType
  <2>2. (Take(x, n, i, p, Nothing) \/ Take(x, n, i, Exit(n), Nothing)) /\ stray' \in BOOLEAN
    BY <1>1, <1>4 DEF RecvKill
  <2> QED
    BY <1>1, <2>1, <2>2, Taken, OutsAre
<1> QED
  BY <1>2, <1>3, <1>4

LEMMA TickTyped == ASSUME Typed, Tick PROVE Typed'
<1>1. ASSUME NEW n \in Node PROVE Aged(proc[n]) \in Proc
  <2> DEFINE p == proc[n]
             h == Older(p.hbAge, HbTimeout + 1)
             u == Older(p.upAge, HbTimeout + 1)
             r == [m \in Node |-> [p.peer[m] EXCEPT !.age = Older(@, HbTimeout + 1)]]
  <2>1. p \in Proc
    BY DEF Typed
  <2>2. \A a \in 0 .. HbTimeout + 1 : Older(a, HbTimeout + 1) \in 0 .. HbTimeout + 1
    BY Sizes DEF Older
  <2>3. h \in 0 .. HbTimeout + 1 /\ u \in 0 .. HbTimeout + 1
    BY <2>1, <2>2 DEF Proc, PType
  <2>4. r \in [Node -> Peer]
    BY <2>1, <2>2 DEF Proc, PType, Peer
  <2>5. Aged(p) = [p EXCEPT !.hbAge = h, !.upAge = u, !.peer = r]
    BY DEF Aged
  <2> HIDE DEF p, h, u, r
  <2>6. Aged(p) \in Proc
    BY <2>1, <2>3, <2>4, <2>5 DEF Proc, PType
  <2> QED
    BY <2>6 DEF p
<1>2. proc' \in [Node -> Proc]
  BY <1>1 DEF Tick, Typed
<1>3. net' \in Nets
  BY EmptySeq DEF Tick, Nets
<1> QED
  BY <1>2, <1>3 DEF Tick, Typed

LEMMA FaultTyped ==
  ASSUME Typed, NEW kind, NEW n \in Node, NEW p \in Proc, NEW out \in Outs, Fault(kind, n, p, out)
  PROVE  Typed'
<1>1. proc' \in [Node -> Proc] /\ net' \in Nets
  BY Installed DEF Fault
<1>2. faults' \in 0 .. MaxFaults
  BY Sizes DEF Typed, Fault
<1> QED
  BY <1>1, <1>2 DEF Typed, Fault

LEMMA FaultsTyped ==
  ASSUME Typed, NEW n \in Node, Crash(n) \/ Start(n) \/ RequestQuit(n) \/ Shutdown(n)
  PROVE  Typed'
<1> DEFINE p == proc[n]
<1>1. p \in Proc
  BY DEF Typed
<1>2. Exit(n) \in Proc
  BY <1>1, FreshOk DEF Exit, Proc, PType
<1>3. \A u \in BOOLEAN : ToAll(<<Ping(0, u)>>) \in Outs
  <2>1. \A u \in BOOLEAN : <<Ping(0, u)>> \in Seq(Packet)
    BY PacketsAre
  <2> QED
    BY <2>1, OutsAre
<1>4. CASE Crash(n)
  BY <1>2, <1>4, OutsAre, FaultTyped DEF Crash
<1>5. CASE Start(n)
  <2>1. PICK m \in Node : Fault("start", n, Fresh(proc[m].base + 1), Nothing)
    BY <1>5 DEF Start
  <2>2. Fresh(proc[m].base + 1) \in Proc
    <3>1. proc[m].base + 1 \in Nat
      BY DEF Typed, Proc, PType
    <3> QED
      BY <3>1, FreshOk
  <2> QED
    BY <2>1, <2>2, OutsAre, FaultTyped
<1>6. CASE RequestQuit(n)
  <2> DEFINE q == [p EXCEPT !.quit = TRUE]
             out == IF p.master THEN Nothing ELSE ToAll(<<Ping(0, ~p.utd)>>)
  <2>1. q \in Proc
    BY <1>1 DEF Proc, PType
  <2>2. out \in Outs
    BY <1>1, <1>3, OutsAre
  <2>3. Fault("quit", n, q, out)
    BY <1>6 DEF RequestQuit
  <2> QED
    BY <2>1, <2>2, <2>3, FaultTyped
<1>7. CASE Shutdown(n)
  <2> DEFINE c    == IF p.tv < MaxChanges THEN 1 ELSE 0
             beat == IF p.master THEN ToAll(<<Beat(NextBeat(n, p, c))>>) ELSE Nothing
             ping == ToAll(<<Ping(0, ~p.utd /\ ~p.master)>>)
  <2>1. beat \in Outs
    <3>1. CASE p.master
      <4>1. p.seq # -1 /\ c \in Nat
        BY <1>1, <3>1 DEF Proc
      <4>2. NextBeat(n, p, c) \in Beats
        BY <1>1, <4>1, NextBeatOk
      <4>3. <<Beat(NextBeat(n, p, c))>> \in Seq(Packet)
        BY <4>2, PacketsAre
      <4> QED
        BY <3>1, <4>3, OutsAre
    <3>2. CASE ~p.master
      BY <3>2, OutsAre
    <3> QED
      BY <3>1, <3>2
  <2>2. ping \in Outs
    BY <1>3
  <2>3. And(beat, ping) \in Outs
    BY <2>1, <2>2, OutsAre
  <2>4. Install(n, Exit(n), And(beat, ping))
    BY <1>7 DEF Shutdown
  <2>5. proc' \in [Node -> Proc] /\ net' \in Nets
    BY <1>2, <2>3, <2>4, Installed
  <2> QED
    BY <1>7, <2>5 DEF Typed, Shutdown
<1> QED
  BY <1>4, <1>5, <1>6, <1>7

LEMMA LoseTyped == ASSUME Typed, NEW x \in Node, NEW n \in Node, <<x, n>> \in Link, Lose(x, n) PROVE Typed'
<1>1. net[<<x, n>>] \in Seq(Packet) /\ net[<<x, n>>] # <<>>
  BY DEF Lose, Typed, Nets
<1>2. Tail(net[<<x, n>>]) \in Seq(Packet)
  BY <1>1
<1>3. net' \in Nets
  BY <1>2 DEF Lose, Typed, Nets
<1>4. faults' \in 0 .. MaxFaults
  BY Sizes DEF Lose, Typed
<1> QED
  BY <1>3, <1>4 DEF Typed, Lose

LEMMA ReceiveTyped ==
  ASSUME Typed, NEW c \in Link, NEW i \in DOMAIN net[c], Receive(c[1], c[2], i)
  PROVE  Typed'
<1> DEFINE x == c[1]
           n == c[2]
           m == net[<<x, n>>][i]
<1>1. x \in Node /\ n \in Node /\ c = <<x, n>>
  BY DEF Link
<1>2. net[c] \in Seq(Packet)
  BY DEF Typed, Nets
<1>3. i \in 1 .. Len(net[<<x, n>>]) /\ m \in Packet
  BY <1>1, <1>2
<1>4. \/ RecvPing(x, n, i, m) \/ MasterRecvBeat(x, n, i, m) \/ SlaveRecvBeat(x, n, i, m)
      \/ RecvLastSeen(x, n, i, m) \/ RecvRedirect(x, n, i, m) \/ RecvKill(x, n, i, m)
  BY DEF Receive
<1> HIDE DEF x, n, m
<1> QED
  BY <1>1, <1>3, <1>4, RecvPingTyped, MasterRecvBeatTyped, SlaveRecvBeatTyped, OtherRecvTyped

LEMMA InitTyped == Init => Typed
<1> SUFFICES ASSUME Init PROVE Typed
  OBVIOUS
<1>1. \A b \in BaseTime : Fresh(b) \in Proc
  BY FreshOk, StartsAreRanks
<1>2. proc \in [Node -> Proc]
  BY <1>1 DEF Init
<1>3. net \in Nets
  BY EmptySeq DEF Init, Nets
<1> QED
  <2>1. faults \in 0 .. MaxFaults
    BY Sizes DEF Init
  <2>2. woke \subseteq Node /\ stray \in BOOLEAN /\ wild \in BOOLEAN
    BY FaultKinds DEF Init
  <2> QED
    BY <1>2, <1>3, <2>1, <2>2 DEF Typed

LEMMA NextTyped == Typed /\ [Next]_vars => Typed'
<1> SUFFICES ASSUME Typed, [Next]_vars PROVE Typed'
  OBVIOUS
<1>1. ASSUME NEW n \in Node, Wake(n) PROVE Typed'
  BY <1>1, WakeTyped
<1>2. ASSUME NEW n \in Node, Crash(n) \/ Start(n) \/ RequestQuit(n) \/ Shutdown(n) PROVE Typed'
  BY <1>2, FaultsTyped
<1>3. ASSUME NEW c \in Link, NEW i \in DOMAIN net[c], Receive(c[1], c[2], i) PROVE Typed'
  BY <1>3, ReceiveTyped
<1>4. ASSUME NEW c \in Link, Lose(c[1], c[2]) PROVE Typed'
  <2>1. c[1] \in Node /\ c[2] \in Node /\ <<c[1], c[2]>> \in Link
    BY DEF Link
  <2> QED
    BY <1>4, <2>1, LoseTyped
<1>5. CASE UNCHANGED vars
  BY <1>5 DEF vars, Typed
<1> QED
  BY <1>1, <1>2, <1>3, <1>4, <1>5, TickTyped DEF Next, Step

LEMMA TypedIs == Typed => TypeOK
<1> SUFFICES ASSUME Typed PROVE TypeOK
  OBVIOUS
<1>1. ASSUME NEW n \in Node
      PROVE  LET p == proc[n]
             IN  /\ {p.up, p.master, p.utd, p.adv, p.quit} \subseteq BOOLEAN
                 /\ {p.base, p.tv, p.had} \subseteq Nat
                 /\ p.seq \in -1 .. HB_MAX_SEQ - 1
                 /\ p.has \subseteq Changes
                 /\ p.addr \in Node \cup {0}
                 /\ p.ring \in [Slot -> Beats]
                 /\ {p.hbAge, p.upAge} \subseteq 0 .. HbTimeout + 1
                 /\ p.peer \in [Node -> [base : Nat, age : 0 .. HbTimeout + 1,
                                         utd : BOOLEAN, known : BOOLEAN]]
  <2>1. proc[n] \in Proc
    BY DEF Typed
  <2> QED
    BY <2>1 DEF Proc, PType, Peer
<1> QED
  BY <1>1 DEF TypeOK, Typed, Nets

(***************************************************************************)
(* Whatever crashes, starts, shuts down, is lost or overtaken, machines    *)
(* and packets keep to their types: heartbeat numbers stay below           *)
(* HB_MAX_SEQ through failovers, resent heartbeats and elections, and a    *)
(* master always has a number for its next one (cluster_heartbeat,         *)
(* cluster_catchup_slave).                                                 *)
(***************************************************************************)
THEOREM TypeCorrect == Spec => []TypeOK
<1>1. Spec => []Typed
  BY InitTyped, NextTyped, PTL DEF Spec
<1> QED
  BY <1>1, TypedIs, PTL

(***************************************************************************)
(* One master.  s is what matters of a state: the processes s.v, who has   *)
(* run its periodic block s.w, and the channels that hold a heartbeat, a   *)
(* ping that says the sender goes, one that says it is there, and a        *)
(* C_LASTSEEN.                                                             *)
(***************************************************************************)
Snaps == [v : [Node -> Proc], w : SUBSET Node, beats : SUBSET Link, zeros : SUBSET Link,
          lives : SUBSET Link, asks : SUBSET Link]

Ups(s)     == {n \in Node : s.v[n].up}
Lead(s)    == {n \in Ups(s) : s.v[n].master}
From(n)    == {c \in Link : c[1] = n}

\* a is or was a master: processes that end are not started again.
Been(s, a) == a \in Ups(s) => s.v[a].master

Timely(s) ==
  /\ \A n \in Node : s.v[n].base # 0
  /\ \A n, m \in Ups(s) : s.v[n].upAge = s.v[m].upAge
  /\ \A n \in Ups(s) : /\ s.v[n].hbAge =< s.v[n].upAge
                       /\ s.v[n].master => s.v[n].addr = 0
                       /\ ~s.v[n].master => s.v[n].hbAge =< HbTimeout /\ (n \in s.w => s.v[n].hbAge < HbTimeout)

\* There is a heartbeat, or has been one that somebody followed.
Begun(s) == s.beats # {} \/ Lead(s) # {} \/ \E k \in Ups(s) : s.v[k].addr # 0

Followed(s) ==
  /\ \A c \in s.beats : Been(s, c[1])
  /\ \A c \in s.asks : Been(s, c[2])
  /\ \A k \in Ups(s) : s.v[k].addr # 0 => /\ Been(s, s.v[k].addr) /\ s.v[k].addr # k
                                         /\ <<s.v[k].addr, k>> \notin s.lives
  /\ Begun(s) => \A k \in Ups(s) : HbTimeout =< s.v[k].upAge

Leaving(s) == \A c \in s.zeros : c[1] \in Ups(s) => s.v[c[1]].quit /\ ~s.v[c[1]].master

\* k may become master.
Runner(s, k) == k \in Ups(s) /\ ~s.v[k].master /\ ~s.v[k].quit

Heard(s) ==
  \A j \in Ups(s) : \A k \in Node \ {j} :
    LET e == s.v[j].peer[k]
    IN  /\ e.base \in {0, s.v[k].base}
        /\ ~e.known => e.base = 0
        /\ e.known /\ e.base = 0 => ~Runner(s, k)
        /\ Runner(s, k) => /\ 1 =< s.v[k].upAge => e.base # 0 /\ e.age =< 1
                           /\ k \in s.w => <<k, j>> \in s.lives \/ (e.base # 0 /\ e.age = 0)

Better(s, m, k) == s.v[m].base < s.v[k].base \/ (s.v[m].base = s.v[k].base /\ m > k)

\* k will let m go first.
Defers(s, k, m) == s.v[k].peer[m].base # 0 /\ Better(s, m, k) /\ s.v[k].peer[m].age =< HbTimeout

\* A heartbeat of m still reaches k in this round.
Due(s, m, k) == m \in s.w => <<m, k>> \in s.beats

\* The round is not over before k hears m, if it needs to.
Soon(s, m, k) == s.v[k].hbAge =< 1 /\ (s.v[k].hbAge = 1 => Due(s, m, k))

\* k does not become master while m is one.
Under(s, m, k) ==
  /\ ~s.v[k].master
  /\ \/ s.v[k].quit
     \/ /\ \/ s.v[k].addr = m /\ Soon(s, m, k)
           \/ s.v[k].addr = 0 /\ (Soon(s, m, k) \/ (Defers(s, k, m) /\ (s.v[k].peer[m].age < HbTimeout \/ Due(s, m, k))))
           \/ /\ s.v[k].addr \notin {0, m} /\ Defers(s, k, m)
              /\ \/ s.v[k].peer[m].age =< s.v[k].hbAge
                 \/ <<m, k>> \in s.lives
                 \/ <<s.v[k].addr, k>> \in s.zeros
        /\ (\E x \in Node \ {m} : <<x, k>> \in s.beats) => Defers(s, k, m)

One(s) == \A m \in Lead(s) : /\ \A k \in Node : <<m, k>> \notin s.zeros
                             /\ \A k \in Ups(s) \ {m} : Under(s, m, k)

\* o died without a word, and k has heard it this round or will.
Corpse(s, o) ==
  /\ o \notin Ups(s)
  /\ \E k \in Ups(s) : /\ (s.v[k].addr = o /\ s.v[k].hbAge = 0) \/ <<o, k>> \in s.beats
                       /\ <<o, k>> \notin s.zeros

\* j does not become master in this round.
Waits(s, o, j) ==
  /\ <<o, j>> \notin s.zeros
  /\ \/ s.v[j].quit
     \/ /\ \/ Defers(s, j, o)
           \/ s.v[j].hbAge =< 1 /\ <<s.v[j].addr, j>> \notin s.zeros
        /\ (\E x \in Node \ {o} : <<x, j>> \in s.beats) => Defers(s, j, o)

Mourned(s) == \A o \in Node : Corpse(s, o) => Lead(s) = {} /\ \A j \in Ups(s) : Waits(s, o, j)

Orderly(s) == Timely(s) /\ Followed(s) /\ Leaving(s) /\ Heard(s) /\ One(s) /\ Mourned(s)

-----------------------------------------------------------------------------
(* What a machine does to a snapshot: from s to t by a step of n.          *)

\* Only n changes.
By(s, t, n) == t.v[n].base = s.v[n].base /\ \A k \in Node \ {n} : t.v[k] = s.v[k]

\* cluster_check_master, when the master is not heard any more.
Elected(s, t, n) ==
  /\ t.v[n].hbAge = 0 /\ t.v[n].addr = 0
  /\ t.v[n].master => ~s.v[n].quit /\ \A m \in Node \ {n} : ~Defers(s, n, m)

Same(s, t, n) == t.v[n].hbAge = s.v[n].hbAge /\ t.v[n].addr = s.v[n].addr /\ t.v[n].master = s.v[n].master

Lives(s, t, n) == t.v[n].up /\ s.v[n].up /\ t.v[n].upAge = s.v[n].upAge /\ t.v[n].quit = s.v[n].quit

Woken(s, t, n) ==
  /\ By(s, t, n) /\ Lives(s, t, n) /\ t.v[n].peer = s.v[n].peer
  /\ t.w = s.w \cup {n}
  /\ t.zeros = s.zeros
  /\ \A c \in t.asks : c \in s.asks \/ (s.v[n].addr # 0 /\ c[2] = s.v[n].addr)
  /\ t.lives = IF s.v[n].master THEN s.lives ELSE s.lives \cup From(n)
  /\ t.beats = IF t.v[n].master THEN s.beats \cup From(n) ELSE s.beats
  /\ IF s.v[n].master \/ s.v[n].hbAge < HbTimeout
     THEN Same(s, t, n)
     ELSE ~s.v[n].master /\ Elected(s, t, n)

\* n takes a packet from x off its way; K is where packets of its kind are.
Off(K, L, x, n) == L \subseteq K /\ K \ L \subseteq {<<x, n>>}

\* What n knows of its peers after a ping from x that says b.
Known(s, t, x, n, b) ==
  /\ t.v[n].peer[x].base = b /\ t.v[n].peer[x].age = 0 /\ t.v[n].peer[x].known
  /\ \A y \in Node \ {x} : \/ t.v[n].peer[y] = s.v[n].peer[y]
                           \/ /\ s.v[n].peer[y].known /\ s.v[n].peer[y].base = 0
                              /\ t.v[n].peer[y] = NoPeer

Pinged(s, t, x, n) ==
  /\ By(s, t, n) /\ Lives(s, t, n) /\ t.w = s.w
  /\ t.beats = s.beats /\ t.asks = s.asks
  /\ Known(s, t, x, n, s.v[x].base) /\ <<x, n>> \in s.lives
  /\ t.zeros = s.zeros /\ Off(s.lives, t.lives, x, n)
  /\ s.v[n].addr # x => Same(s, t, n)

Left(s, t, x, n) ==
  /\ By(s, t, n) /\ Lives(s, t, n) /\ t.w = s.w
  /\ t.beats = s.beats /\ t.asks = s.asks
  /\ Known(s, t, x, n, 0) /\ <<x, n>> \in s.zeros /\ <<x, n>> \notin s.beats
  /\ t.lives = s.lives /\ Off(s.zeros, t.zeros, x, n)
  /\ IF s.v[n].addr # x
     THEN Same(s, t, n)
     ELSE IF s.v[n].master \/ s.v[n].upAge < HbTimeout THEN TRUE
     ELSE /\ t.v[n].hbAge = 0 /\ t.v[n].addr = 0
          /\ t.v[n].master => ~s.v[n].quit /\ \A m \in Node \ {n, x} : ~Defers(s, n, m)

Beaten(s, t, x, n) ==
  /\ By(s, t, n) /\ Lives(s, t, n) /\ t.w = s.w /\ t.v[n].peer = s.v[n].peer
  /\ ~s.v[n].master /\ ~t.v[n].master
  /\ <<x, n>> \in s.beats /\ <<x, n>> \notin s.lives
  /\ Off(s.beats, t.beats, x, n) /\ t.zeros = s.zeros /\ t.lives = s.lives
  /\ t.asks \subseteq s.asks \cup {<<n, x>>}
  /\ \/ s.v[n].addr \notin {0, x} /\ Same(s, t, n)
     \/ s.v[n].addr \in {0, x} /\ t.v[n].hbAge = 0 /\ t.v[n].addr \in {s.v[n].addr, x}

\* n ends.  Where nobody is told, it has crashed.
Ended(s, t, n) ==
  /\ By(s, t, n) /\ s.v[n].up /\ ~t.v[n].up
  /\ t.w \subseteq s.w /\ s.w \ {n} \subseteq t.w
  /\ t.lives \subseteq s.lives /\ t.asks \subseteq s.asks
  /\ \A c \in Link : c[2] = n \/ /\ c \in s.lives => c \in t.lives
                                 /\ c \in s.zeros => c \in t.zeros
                                 /\ c \in s.beats => c \in t.beats
  /\ \/ t.beats \subseteq s.beats /\ t.zeros \subseteq s.zeros
     \/ /\ t.beats \subseteq s.beats \cup From(n) /\ t.zeros = s.zeros \cup From(n)
        /\ ~s.v[n].master => t.beats \subseteq s.beats

Quitting(s, t, n) ==
  /\ By(s, t, n) /\ s.v[n].up /\ t.v[n].up /\ t.v[n].upAge = s.v[n].upAge /\ t.v[n].quit /\ t.v[n].peer = s.v[n].peer
  /\ Same(s, t, n)
  /\ t.w \subseteq s.w /\ s.w \ {n} \subseteq t.w
  /\ t.beats = s.beats /\ t.lives = s.lives /\ t.asks = s.asks
  /\ t.zeros = IF s.v[n].master THEN s.zeros ELSE s.zeros \cup From(n)

\* No process changes; a master may send heartbeats again.
Passed(s, t, x, n) ==
  /\ t.v = s.v /\ t.w = s.w /\ t.zeros = s.zeros /\ t.lives = s.lives /\ t.asks \subseteq s.asks
  /\ s.v[n].up
  /\ \/ t.beats = s.beats
     \/ /\ s.v[n].master
        /\ t.beats \subseteq s.beats \cup {<<n, x>>} /\ s.beats \ {<<x, n>>} \subseteq t.beats

Ticked(s, t) ==
  /\ \A n \in Node \ Ups(s) : t.v[n] = s.v[n]
  /\ \A n \in Ups(s) : LET p == s.v[n]
                           q == t.v[n]
                       IN  /\ q.up /\ q.master = p.master /\ q.quit = p.quit /\ q.addr = p.addr /\ q.base = p.base
                           /\ q.hbAge = Older(p.hbAge, HbTimeout + 1) /\ q.upAge = Older(p.upAge, HbTimeout + 1)
                           /\ \A m \in Node : /\ q.peer[m].base = p.peer[m].base
                                              /\ q.peer[m].known = p.peer[m].known
                                              /\ q.peer[m].age = Older(p.peer[m].age, HbTimeout + 1)
  /\ Ups(s) \subseteq s.w
  /\ \A c \in s.beats \cup s.zeros \cup s.lives : c[2] \notin Ups(s)
  /\ t.w = {} /\ t.beats = {} /\ t.zeros = {} /\ t.lives = {} /\ t.asks = {}

LEMMA SnapIs ==
  ASSUME NEW s \in Snaps, NEW n \in Node
  PROVE  LET p == s.v[n]
         IN  /\ p \in Proc /\ p.up \in BOOLEAN /\ p.master \in BOOLEAN /\ p.quit \in BOOLEAN /\ p.base \in Nat
             /\ p.addr \in Node \cup {0} /\ p.hbAge \in Nat /\ p.upAge \in Nat /\ p.hbAge =< HbTimeout + 1 /\ p.upAge =< HbTimeout + 1
             /\ \A m \in Node : /\ p.peer[m].base \in Nat /\ p.peer[m].age \in Nat /\ p.peer[m].age =< HbTimeout + 1
                                /\ p.peer[m].known \in BOOLEAN
<1>1. s.v[n] \in Proc
  BY DEF Snaps
<1> DEFINE p == s.v[n]
<1>2. p.hbAge \in 0 .. HbTimeout + 1 /\ p.upAge \in 0 .. HbTimeout + 1 /\ p.peer \in [Node -> Peer]
  BY <1>1 DEF Proc, PType
<1>3. \A m \in Node : p.peer[m] \in Peer
  BY <1>2
<1>4. \A e \in Peer : e.base \in Nat /\ e.age \in 0 .. HbTimeout + 1 /\ e.known \in BOOLEAN
  BY DEF Peer
<1>5. p.up \in BOOLEAN /\ p.master \in BOOLEAN /\ p.quit \in BOOLEAN /\ p.base \in Nat /\ p.addr \in Node \cup {0}
  BY <1>1 DEF Proc, PType
<1> HIDE DEF p
<1>6. \A a \in 0 .. HbTimeout + 1 : a \in Nat /\ a =< HbTimeout + 1
  BY Sizes
<1>7. \A m \in Node : p.peer[m].base \in Nat /\ p.peer[m].age \in 0 .. HbTimeout + 1 /\ p.peer[m].known \in BOOLEAN
  BY <1>3, <1>4
<1> QED
  BY <1>1, <1>2, <1>5, <1>6, <1>7 DEF p

LEMMA NodeIs == ASSUME NEW n \in Node, NEW m \in Node PROVE n \in Nat /\ n # 0 /\ m \in Nat /\ n \in Int /\ m \in Int
  BY Sizes

\* Of two machines one is the better.
LEMMA Total == ASSUME NEW s \in Snaps, NEW n \in Node, NEW m \in Node, n # m
               PROVE  Better(s, n, m) \/ Better(s, m, n)
  BY SnapIs, NodeIs DEF Better

LEMMA NoSelf == ASSUME NEW c \in Link PROVE c[1] \in Node /\ c[2] \in Node /\ c[1] # c[2] /\ c = <<c[1], c[2]>>
  BY DEF Link

LEMMA IsLink == ASSUME NEW x, NEW n, <<x, n>> \in Link PROVE x \in Node /\ n \in Node /\ x # n
  BY DEF Link

LEMMA FromIs == ASSUME NEW n \in Node, NEW k \in Node, n # k PROVE <<n, k>> \in From(n) /\ \A x : <<x, k>> \in From(n) => x = n
  BY DEF From, Link

LEMMA LinksIn == ASSUME NEW s \in Snaps
                 PROVE  s.beats \subseteq Link /\ s.zeros \subseteq Link /\ s.lives \subseteq Link /\ s.asks \subseteq Link /\ s.w \subseteq Node
  BY DEF Snaps

\* A step of n that leaves it up.
LEMMA StaysUp ==
  ASSUME NEW s \in Snaps, NEW t \in Snaps, NEW n \in Node, By(s, t, n), Lives(s, t, n)
  PROVE  /\ Ups(t) = Ups(s) /\ n \in Ups(s)
         /\ \A k \in Node : t.v[k].base = s.v[k].base /\ (t.v[k].up <=> s.v[k].up)
         /\ \A k \in Ups(s) : t.v[k].upAge = s.v[k].upAge /\ t.v[k].quit = s.v[k].quit
         /\ \A k, m \in Node : Better(t, m, k) <=> Better(s, m, k)
<1>1. \A k \in Node : t.v[k].base = s.v[k].base /\ (t.v[k].up <=> s.v[k].up)
  BY DEF By, Lives
<1>2. Ups(t) = Ups(s) /\ n \in Ups(s)
  BY <1>1 DEF Ups, Lives
<1>3. \A k \in Ups(s) : t.v[k].upAge = s.v[k].upAge /\ t.v[k].quit = s.v[k].quit
  BY DEF By, Lives, Ups
<1> QED
  BY <1>1, <1>2, <1>3 DEF Better

\* What Orderly says of one machine that leads and one that does not.
LEMMA Two == ASSUME NEW s \in Snaps, One(s), NEW m \in Lead(s), NEW k \in Lead(s) PROVE m = k
  BY DEF One, Under, Lead, Ups

\* Nobody who follows another becomes master.
LEMMA NoRival ==
  ASSUME NEW s \in Snaps, Orderly(s), NEW n \in Ups(s), ~s.v[n].master, ~s.v[n].quit,
         s.v[n].hbAge >= 2 \/ <<s.v[n].addr, n>> \in s.zeros,
         \A m \in Node \ {n} : Defers(s, n, m) => <<m, n>> \in s.zeros
  PROVE  Lead(s) = {} /\ \A o \in Node : ~Corpse(s, o)
<1>0. n \in Node /\ s.v[n].hbAge \in Nat
  BY SnapIs DEF Ups
<1>1. ASSUME NEW m \in Lead(s) PROVE FALSE
  <2>1. m \in Node /\ m # n /\ Under(s, m, n) /\ <<m, n>> \notin s.zeros
    BY <1>0, <1>1 DEF Orderly, One, Lead, Ups
  <2>2. ~Defers(s, n, m)
    BY <2>1
  <2>3. s.v[n].addr # 0 \/ <<s.v[n].addr, n>> \notin s.zeros
    BY LinksIn, NodeIs, <1>0 DEF Link
  <2> QED
    BY <1>0, <2>1, <2>2, <2>3 DEF Under, Soon
<1>2. ASSUME NEW o \in Node, Corpse(s, o) PROVE FALSE
  <2>1. Waits(s, o, n) /\ o # n
    BY <1>2 DEF Orderly, Mourned, Corpse
  <2> QED
    BY <1>0, <2>1 DEF Waits
<1> QED
  BY <1>1, <1>2

-----------------------------------------------------------------------------
(* The periodic block. *)

LEMMA WokenTimely ==
  ASSUME NEW s \in Snaps, NEW t \in Snaps, Orderly(s), 2 =< HbTimeout, NEW n \in Node, Woken(s, t, n)
  PROVE  Timely(t)
<1>1. Ups(t) = Ups(s) /\ \A k \in Ups(s) : t.v[k].upAge = s.v[k].upAge
  BY StaysUp DEF Woken
<1>2. \A k \in Node : t.v[k].base # 0
  BY StaysUp DEF Woken, Orderly, Timely
<1>3. \A k, m \in Ups(t) : t.v[k].upAge = t.v[m].upAge
  BY <1>1 DEF Orderly, Timely
<1>4. ASSUME NEW k \in Ups(t)
      PROVE  /\ t.v[k].hbAge =< t.v[k].upAge
             /\ t.v[k].master => t.v[k].addr = 0
             /\ ~t.v[k].master => t.v[k].hbAge =< HbTimeout /\ (k \in t.w => t.v[k].hbAge < HbTimeout)
  <2>1. k \in Node /\ k \in Ups(s) /\ t.v[k].upAge = s.v[k].upAge /\ s.v[k].upAge \in Nat /\ s.v[k].hbAge \in Nat /\ HbTimeout \in Nat
    BY <1>1, SnapIs, Sizes DEF Ups
  <2>2. CASE k = n
    BY <2>1, <2>2 DEF Woken, Elected, Same, Orderly, Timely
  <2>3. CASE k # n
    BY <2>1, <2>3 DEF Woken, By, Orderly, Timely
  <2> QED
    BY <2>2, <2>3
<1> QED
  BY <1>2, <1>3, <1>4 DEF Timely

LEMMA WokenWins ==
  ASSUME NEW s \in Snaps, NEW t \in Snaps, Orderly(s), 2 =< HbTimeout, NEW n \in Node, Woken(s, t, n),
         ~s.v[n].master, t.v[n].master
  PROVE  /\ Lead(s) = {} /\ \A o \in Node : ~Corpse(s, o)
         /\ Runner(s, n) /\ HbTimeout =< s.v[n].upAge /\ t.v[n].addr = 0
         /\ \A m \in Node \ {n} : ~Defers(s, n, m)
<1>1. s.v[n].hbAge >= HbTimeout /\ Elected(s, t, n) /\ n \in Ups(s)
  <2>1. n \in Ups(s)
    BY StaysUp DEF Woken
  <2>2. ~(s.v[n].hbAge < HbTimeout) /\ Elected(s, t, n)
    BY DEF Woken, Same
  <2>3. s.v[n].hbAge \in Nat /\ HbTimeout \in Nat
    BY SnapIs, Sizes
  <2> QED
    BY <2>1, <2>2, <2>3
<1>2. ~s.v[n].quit /\ \A m \in Node \ {n} : ~Defers(s, n, m)
  BY <1>1 DEF Elected
<1>3. s.v[n].hbAge >= 2 /\ HbTimeout =< s.v[n].upAge
  BY <1>1, SnapIs, Sizes DEF Orderly, Timely
<1>4. Lead(s) = {} /\ \A o \in Node : ~Corpse(s, o)
  BY <1>1, <1>2, <1>3, NoRival
<1> QED
  BY <1>1, <1>2, <1>3, <1>4 DEF Runner, Elected

LEMMA WokenFollowed ==
  ASSUME NEW s \in Snaps, NEW t \in Snaps, Orderly(s), 2 =< HbTimeout, NEW n \in Node, Woken(s, t, n)
  PROVE  Followed(t)
<1>1. Ups(t) = Ups(s) /\ n \in Ups(s) /\ \A k \in Ups(s) : t.v[k].upAge = s.v[k].upAge
  BY StaysUp DEF Woken
<1>2. \A a \in Node : Been(s, a) => Been(t, a)
  BY <1>1 DEF Been, Woken, Same, Elected, By, Ups
<1>3. ASSUME NEW c \in t.beats PROVE Been(t, c[1])
  <2>1. c \in Link
    BY <1>3, LinksIn
  <2>2. c \in s.beats \/ (c[1] = n /\ t.v[n].master)
    BY <1>3 DEF Woken, From
  <2> QED
    BY <1>2, <2>1, <2>2, NoSelf DEF Orderly, Followed, Been
<1>4. ASSUME NEW c \in t.asks PROVE Been(t, c[2])
  <2>1. c \in Link
    BY <1>4, LinksIn
  <2>2. c \in s.asks \/ (s.v[n].addr # 0 /\ c[2] = s.v[n].addr)
    BY <1>4 DEF Woken
  <2> QED
    BY <1>1, <1>2, <2>1, <2>2, NoSelf DEF Orderly, Followed
<1>5. ASSUME NEW k \in Ups(t), t.v[k].addr # 0
      PROVE  Been(t, t.v[k].addr) /\ t.v[k].addr # k /\ <<t.v[k].addr, k>> \notin t.lives
  <2>1. k \in Node /\ k \in Ups(s)
    BY <1>1 DEF Ups
  <2>2. t.v[k].addr = s.v[k].addr
    BY <1>5, <2>1 DEF Woken, Same, Elected, By
  <2>3. s.v[k].addr \in Node /\ Been(s, s.v[k].addr) /\ s.v[k].addr # k /\ <<s.v[k].addr, k>> \notin s.lives
    BY <1>5, <2>1, <2>2, SnapIs DEF Orderly, Followed
  <2>4. <<s.v[k].addr, k>> \notin t.lives
    BY <1>1, <2>3 DEF Woken, From, Been
  <2> QED
    BY <1>2, <2>2, <2>3, <2>4
<1>6. Begun(t) => Begun(s) \/ (~s.v[n].master /\ t.v[n].master)
  <2>1. ASSUME NEW k \in Ups(t), t.v[k].addr # 0 \/ t.v[k].master PROVE Begun(s) \/ (~s.v[n].master /\ t.v[n].master)
    <3>1. k \in Node /\ k \in Ups(s)
      BY <1>1 DEF Ups
    <3>2. CASE k = n
      BY <2>1, <3>1, <3>2 DEF Woken, Same, Elected, Begun, Lead
    <3>3. CASE k # n
      BY <2>1, <3>1, <3>3 DEF Woken, By, Begun, Lead
    <3> QED
      BY <3>2, <3>3
  <2>2. ASSUME t.beats # {} PROVE Begun(s) \/ t.v[n].master
    BY <2>2 DEF Woken, Begun
  <2> QED
    BY <1>1, <2>1, <2>2 DEF Begun, Lead
<1>7. Begun(t) => \A k \in Ups(t) : HbTimeout =< t.v[k].upAge
  <2>1. CASE Begun(s)
    BY <1>1, <2>1 DEF Orderly, Followed
  <2>2. CASE ~s.v[n].master /\ t.v[n].master
    BY <1>1, <2>2, WokenWins DEF Orderly, Timely
  <2> QED
    BY <1>6, <2>1, <2>2
<1> QED
  BY <1>3, <1>4, <1>5, <1>7 DEF Followed

LEMMA WokenLeaving ==
  ASSUME NEW s \in Snaps, NEW t \in Snaps, Orderly(s), 2 =< HbTimeout, NEW n \in Node, Woken(s, t, n)
  PROVE  Leaving(t)
<1>1. Ups(t) = Ups(s) /\ \A k \in Ups(s) : t.v[k].quit = s.v[k].quit
  BY StaysUp DEF Woken
<1>2. \A k \in Ups(s) : t.v[k].master => s.v[k].master \/ ~s.v[k].quit
  BY DEF Woken, Same, Elected, By, Ups
<1> QED
  BY <1>1, <1>2 DEF Orderly, Leaving, Woken

LEMMA WokenHeard ==
  ASSUME NEW s \in Snaps, NEW t \in Snaps, Orderly(s), 2 =< HbTimeout, NEW n \in Node, Woken(s, t, n)
  PROVE  Heard(t)
<1>1. Ups(t) = Ups(s) /\ n \in Ups(s) /\ \A k \in Ups(s) : t.v[k].upAge = s.v[k].upAge /\ t.v[k].quit = s.v[k].quit
  BY StaysUp DEF Woken
<1>2. \A j \in Node : t.v[j].peer = s.v[j].peer /\ t.v[j].base = s.v[j].base
  BY DEF Woken, By
<1>3. \A k \in Node : Runner(t, k) => Runner(s, k)
  BY <1>1 DEF Runner, Woken, Same, Elected, By, Ups
<1> SUFFICES ASSUME NEW j \in Ups(t), NEW k \in Node \ {j}, Runner(t, k), k \in t.w
             PROVE  <<k, j>> \in t.lives \/ (t.v[j].peer[k].base # 0 /\ t.v[j].peer[k].age = 0)
  <2>1. ASSUME NEW j \in Ups(t), NEW k \in Node \ {j}
        PROVE  /\ t.v[j].peer[k].base \in {0, t.v[k].base}
               /\ ~t.v[j].peer[k].known => t.v[j].peer[k].base = 0
               /\ t.v[j].peer[k].known /\ t.v[j].peer[k].base = 0 => ~Runner(t, k)
               /\ Runner(t, k) => (1 =< t.v[k].upAge => t.v[j].peer[k].base # 0 /\ t.v[j].peer[k].age =< 1)
    <3>1. j \in Node /\ j \in Ups(s)
      BY <1>1 DEF Ups
    <3>2. t.v[k].upAge = s.v[k].upAge \/ ~Runner(t, k)
      BY <1>1 DEF Runner
    <3>3. LET e == s.v[j].peer[k]
          IN  /\ e.base \in {0, s.v[k].base}
              /\ ~e.known => e.base = 0
              /\ e.known /\ e.base = 0 => ~Runner(s, k)
              /\ Runner(s, k) => (1 =< s.v[k].upAge => e.base # 0 /\ e.age =< 1)
      BY <3>1 DEF Orderly, Heard
    <3> QED
      BY <1>2, <1>3, <3>1, <3>2, <3>3
  <2> QED
    BY <2>1 DEF Heard
<1>4. j \in Node /\ j \in Ups(s) /\ Runner(s, k) /\ k \in Node
  BY <1>1, <1>3 DEF Ups
<1>5. CASE k = n
  BY <1>4, <1>5, FromIs DEF Woken, Runner
<1>6. CASE k # n
  <2>1. k \in s.w
    BY <1>6 DEF Woken
  <2>2. s.lives \subseteq t.lives
    BY DEF Woken
  <2> QED
    BY <1>2, <1>4, <2>1, <2>2 DEF Orderly, Heard
<1> QED
  BY <1>5, <1>6

\* What a machine that has just become master is to another.
LEMMA Winner ==
  ASSUME NEW s \in Snaps, Orderly(s), 2 =< HbTimeout, NEW n \in Node, Runner(s, n), HbTimeout =< s.v[n].upAge,
         NEW k \in Ups(s) \ {n}, ~s.v[k].quit, ~s.v[k].master, ~Defers(s, n, k)
  PROVE  /\ Better(s, n, k) /\ Defers(s, k, n) /\ s.v[k].peer[n].age =< 1 /\ s.v[k].peer[n].age < HbTimeout
         /\ s.v[k].addr # n
<1>1. k \in Node /\ n \in Ups(s) /\ Runner(s, k) /\ s.v[k].upAge = s.v[n].upAge
  BY DEF Ups, Runner, Orderly, Timely
<1>2. s.v[n].upAge \in Nat /\ HbTimeout \in Nat /\ 1 =< s.v[n].upAge
  BY SnapIs, Sizes
<1>3. s.v[n].peer[k].base # 0 /\ s.v[n].peer[k].age =< 1
  BY <1>1, <1>2 DEF Orderly, Heard
<1>4. s.v[k].peer[n].base # 0 /\ s.v[k].peer[n].age =< 1
  BY <1>1, <1>2 DEF Orderly, Heard
<1>5. s.v[n].peer[k].age \in Nat /\ s.v[k].peer[n].age \in Nat
  BY <1>1, SnapIs
<1>6. ~Better(s, k, n)
  BY <1>2, <1>3, <1>5 DEF Defers
<1>7. Better(s, n, k)
  BY <1>1, <1>6, Total
<1>8. s.v[k].addr # n
  BY <1>1, NodeIs DEF Orderly, Followed, Been, Runner
<1> QED
  BY <1>2, <1>4, <1>5, <1>7, <1>8 DEF Defers

LEMMA DefersSame ==
  ASSUME NEW s, NEW t, NEW k, NEW m, t.v[k].peer[m] = s.v[k].peer[m], Better(t, m, k) <=> Better(s, m, k)
  PROVE  Defers(t, k, m) <=> Defers(s, k, m)
  BY DEF Defers

\* What is as before keeps another down as before, if it still hears as much.
LEMMA UnderSame ==
  ASSUME NEW s, NEW t, NEW m, NEW k, Under(s, m, k), t.v[k] = s.v[k], Better(t, m, k) <=> Better(s, m, k),
         Due(s, m, k) => Due(t, m, k),
         <<m, k>> \in s.lives => <<m, k>> \in t.lives,
         <<s.v[k].addr, k>> \in s.zeros => <<s.v[k].addr, k>> \in t.zeros,
         \A x \in Node \ {m} : <<x, k>> \in t.beats => <<x, k>> \in s.beats
  PROVE  Under(t, m, k)
<1>1. Defers(t, k, m) <=> Defers(s, k, m)
  BY DefersSame
<1>2. (\E x \in Node \ {m} : <<x, k>> \in t.beats) => (\E x \in Node \ {m} : <<x, k>> \in s.beats)
  OBVIOUS
<1>3. Soon(s, m, k) => Soon(t, m, k)
  BY DEF Soon
<1> QED
  BY <1>1, <1>2, <1>3 DEF Under

LEMMA WokenOne ==
  ASSUME NEW s \in Snaps, NEW t \in Snaps, Orderly(s), 2 =< HbTimeout, NEW n \in Node, Woken(s, t, n)
  PROVE  One(t)
<1>1. /\ Ups(t) = Ups(s) /\ n \in Ups(s) /\ \A k, m \in Node : Better(t, m, k) <=> Better(s, m, k)
      /\ \A k \in Ups(s) : t.v[k].quit = s.v[k].quit
  BY StaysUp DEF Woken
<1>2. t.zeros = s.zeros /\ s.lives \subseteq t.lives /\ s.beats \subseteq t.beats
  BY DEF Woken
<1> SUFFICES ASSUME NEW m \in Lead(t)
             PROVE  /\ \A k \in Node : <<m, k>> \notin t.zeros
                    /\ \A k \in Ups(t) \ {m} : Under(t, m, k)
  BY DEF One
<1>3. m \in Node /\ m \in Ups(s) /\ t.v[m].master
  BY <1>1 DEF Lead, Ups
<1>4. CASE m \in Lead(s) /\ m = n
  <2>1. \A k \in Node : <<m, k>> \notin t.zeros
    BY <1>2, <1>4 DEF Orderly, One
  <2>2. ASSUME NEW k \in Ups(t) \ {m} PROVE Under(t, m, k)
    <3>1. k \in Node /\ k \in Ups(s) /\ Under(s, m, k)
      BY <1>1, <1>4 DEF Ups, Orderly, One
    <3>2. t.v[k] = s.v[k]
      BY <1>4, <3>1 DEF Woken, By
    <3>3. Due(t, m, k)
      BY <1>3, <1>4, <3>1, FromIs DEF Due, Woken
    <3>4. \A x \in Node \ {m} : <<x, k>> \in t.beats => <<x, k>> \in s.beats
      BY <1>4 DEF Woken, From
    <3> QED
      BY <1>1, <1>2, <1>3, <3>1, <3>2, <3>3, <3>4, UnderSame
  <2> QED
    BY <2>1, <2>2
<1>5. CASE m \notin Lead(s)
  <2>1. m = n /\ ~s.v[n].master
    BY <1>3, <1>5 DEF Lead, Woken, By
  <2>2. /\ Lead(s) = {} /\ Runner(s, n) /\ HbTimeout =< s.v[n].upAge
        /\ \A k \in Node \ {n} : ~Defers(s, n, k)
    BY <1>3, <2>1, WokenWins
  <2>3. \A k \in Node : <<m, k>> \notin t.zeros
    BY <1>2, <1>3, <2>1, <2>2, LinksIn DEF Orderly, Leaving, Runner
  <2>4. ASSUME NEW k \in Ups(t) \ {m} PROVE Under(t, m, k)
    <3>1. k \in Node /\ k \in Ups(s) /\ k # n /\ ~s.v[k].master
      BY <1>1, <2>1, <2>2 DEF Ups, Lead
    <3>2. t.v[k] = s.v[k]
      BY <3>1 DEF Woken, By
    <3>3. CASE s.v[k].quit
      BY <3>1, <3>2, <3>3 DEF Under
    <3>4. CASE ~s.v[k].quit
      <4>1. Defers(s, k, n) /\ s.v[k].peer[n].age < HbTimeout /\ s.v[k].addr # n
        BY <2>2, <3>1, <3>4, Winner
      <4>2. Defers(t, k, n)
        BY <1>1, <3>1, <3>2, <4>1, DefersSame
      <4>3. <<n, k>> \in t.lives
        BY <2>1, <3>1, FromIs DEF Woken
      <4> QED
        BY <2>1, <3>1, <3>2, <4>1, <4>2, <4>3 DEF Under
    <3> QED
      BY <3>3, <3>4
  <2> QED
    BY <2>3, <2>4
<1>6. CASE m \in Lead(s) /\ m # n
  <2>1. ~s.v[n].master /\ ~t.v[n].master
    BY <1>1, <1>6, WokenWins, Two DEF Lead, Orderly
  <2>2. t.beats = s.beats
    BY <2>1 DEF Woken
  <2>3. \A k \in Node : <<m, k>> \notin t.zeros
    BY <1>2, <1>6 DEF Orderly, One
  <2>4. ASSUME NEW k \in Ups(t) \ {m} PROVE Under(t, m, k)
    <3>1. k \in Node /\ k \in Ups(s) /\ Under(s, m, k)
      BY <1>1, <1>6 DEF Ups, Orderly, One
    <3>2. Due(s, m, k) => Due(t, m, k)
      BY <1>6, <2>2 DEF Due, Woken
    <3>3. CASE k # n
      <4>1. t.v[k] = s.v[k]
        BY <3>1, <3>3 DEF Woken, By
      <4> QED
        BY <1>1, <1>2, <1>3, <2>2, <3>1, <3>2, <4>1, UnderSame
    <3>4. CASE k = n
      <4>1. t.v[n].peer = s.v[n].peer /\ t.v[n].quit = s.v[n].quit
        BY <1>1 DEF Woken
      <4>2. Defers(t, n, m) <=> Defers(s, n, m)
        BY <1>1, <1>3, <4>1, DefersSame
      <4>3. CASE Same(s, t, n)
        <5>1. Soon(s, m, n) => Soon(t, m, n)
          BY <3>2, <3>4, <4>3 DEF Soon, Same
        <5> QED
          BY <1>2, <2>1, <2>2, <3>1, <3>2, <3>4, <4>1, <4>2, <4>3, <5>1 DEF Under, Same
      <4>4. CASE Elected(s, t, n)
        <5>1. Soon(t, m, n) /\ t.v[n].addr = 0
          BY <4>4 DEF Soon, Elected
        <5> QED
          BY <2>1, <2>2, <3>1, <3>4, <4>1, <4>2, <5>1 DEF Under
      <4> QED
        BY <4>3, <4>4 DEF Woken
    <3> QED
      BY <3>3, <3>4
  <2> QED
    BY <2>3, <2>4
<1> QED
  BY <1>4, <1>5, <1>6

LEMMA WokenMourned ==
  ASSUME NEW s \in Snaps, NEW t \in Snaps, Orderly(s), 2 =< HbTimeout, NEW n \in Node, Woken(s, t, n)
  PROVE  Mourned(t)
<1>1. /\ Ups(t) = Ups(s) /\ n \in Ups(s) /\ \A k, m \in Node : Better(t, m, k) <=> Better(s, m, k)
      /\ \A k \in Ups(s) : t.v[k].quit = s.v[k].quit
  BY StaysUp DEF Woken
<1> SUFFICES ASSUME NEW o \in Node, Corpse(t, o)
             PROVE  Lead(t) = {} /\ \A j \in Ups(t) : Waits(t, o, j)
  BY DEF Mourned
<1>2. o \notin Ups(s) /\ o # n
  BY <1>1 DEF Corpse
<1>3. Corpse(s, o)
  <2>1. PICK k \in Ups(s) : ((t.v[k].addr = o /\ t.v[k].hbAge = 0) \/ <<o, k>> \in t.beats) /\ <<o, k>> \notin t.zeros
    BY <1>1 DEF Corpse
  <2>2. <<o, k>> \in t.beats => <<o, k>> \in s.beats
    BY <1>2 DEF Woken, From
  <2>3. t.v[k].addr = o /\ t.v[k].hbAge = 0 => s.v[k].addr = o /\ s.v[k].hbAge = 0
    BY <2>1, NodeIs DEF Woken, Same, Elected, By, Ups
  <2> QED
    BY <1>2, <2>1, <2>2, <2>3 DEF Corpse, Woken
<1>4. Lead(s) = {} /\ \A j \in Ups(s) : Waits(s, o, j)
  BY <1>3 DEF Orderly, Mourned
<1>5. ~s.v[n].master /\ ~t.v[n].master
  BY <1>1, <1>3, <1>4, WokenWins DEF Lead
<1>6. Lead(t) = {} /\ t.beats = s.beats
  BY <1>1, <1>4, <1>5 DEF Lead, Woken, By, Ups
<1>7. ASSUME NEW j \in Ups(t) PROVE Waits(t, o, j)
  <2>1. j \in Node /\ j \in Ups(s) /\ Waits(s, o, j) /\ t.v[j].quit = s.v[j].quit /\ t.v[j].peer = s.v[j].peer
    BY <1>1, <1>4 DEF Ups, Woken, By
  <2>2. Defers(t, j, o) <=> Defers(s, j, o)
    BY <1>1, <2>1, DefersSame
  <2>3. t.zeros = s.zeros
    BY DEF Woken
  <2>4. CASE j # n \/ Same(s, t, n)
    <3>1. t.v[j].hbAge = s.v[j].hbAge /\ t.v[j].addr = s.v[j].addr
      BY <2>1, <2>4 DEF Same, Woken, By
    <3> QED
      BY <1>6, <2>1, <2>2, <2>3, <3>1 DEF Waits
  <2>5. CASE j = n /\ Elected(s, t, n)
    <3>1. <<t.v[j].addr, j>> \notin t.zeros
      BY <2>1, <2>5, LinksIn, IsLink, NodeIs DEF Elected
    <3>2. t.v[j].hbAge =< 1
      BY <2>5 DEF Elected
    <3> QED
      BY <1>6, <2>1, <2>2, <2>3, <3>1, <3>2 DEF Waits
  <2> QED
    BY <2>4, <2>5 DEF Woken
<1> QED
  BY <1>6, <1>7

-----------------------------------------------------------------------------
(* Pings. *)

LEMMA NoPeerBase == NoPeer.base = 0 /\ ~NoPeer.known
  BY DEF NoPeer

LEMMA KnownKeeps ==
  ASSUME NEW s \in Snaps, NEW t \in Snaps, Orderly(s), NEW x \in Node, NEW n \in Node, x # n, NEW b, Known(s, t, x, n, b),
         By(s, t, n), Lives(s, t, n), NEW y \in Node \ {n}, y # x \/ b = s.v[x].base, Defers(s, n, y)
  PROVE  Defers(t, n, y) /\ (y = x => t.v[n].peer[y].age = 0) /\ (y # x => t.v[n].peer[y] = s.v[n].peer[y])
<1>1. Better(t, y, n)
  BY StaysUp DEF Defers
<1>2. CASE y = x
  <2>1. t.v[n].peer[x].base # 0 /\ t.v[n].peer[x].age = 0 /\ 0 =< HbTimeout
    BY <1>2, Sizes DEF Known, Orderly, Timely
  <2> QED
    BY <1>1, <1>2, <2>1 DEF Defers
<1>3. CASE y # x
  <2>1. t.v[n].peer[y] = s.v[n].peer[y]
    BY <1>3 DEF Known, Defers
  <2> QED
    BY <1>1, <1>3, <2>1 DEF Defers
<1> QED
  BY <1>2, <1>3

LEMMA KnownHeard ==
  ASSUME NEW s \in Snaps, NEW t \in Snaps, Orderly(s), NEW x \in Node, NEW n \in Node, x # n, NEW b, Known(s, t, x, n, b),
         By(s, t, n), Lives(s, t, n), t.w = s.w, b = s.v[x].base \/ (b = 0 /\ ~Runner(s, x)),
         Off(s.lives, t.lives, x, n), \A k \in Node : Runner(t, k) => Runner(s, k)
  PROVE  Heard(t)
<1>1. Ups(t) = Ups(s) /\ \A k \in Node : t.v[k].base = s.v[k].base
  BY StaysUp
<1>2. \A k \in Ups(s) : t.v[k].upAge = s.v[k].upAge
  BY StaysUp
<1> SUFFICES ASSUME NEW j \in Ups(t), NEW k \in Node \ {j}
             PROVE  LET e == t.v[j].peer[k]
                    IN  /\ e.base \in {0, t.v[k].base}
                        /\ ~e.known => e.base = 0
                        /\ e.known /\ e.base = 0 => ~Runner(t, k)
                        /\ Runner(t, k) => /\ 1 =< t.v[k].upAge => e.base # 0 /\ e.age =< 1
                                           /\ k \in t.w => <<k, j>> \in t.lives \/ (e.base # 0 /\ e.age = 0)
  BY DEF Heard
<1>3. j \in Node /\ j \in Ups(s) /\ k \in Node /\ t.v[k].base = s.v[k].base /\ (Runner(t, k) => Runner(s, k))
  BY <1>1 DEF Ups
<1>4. Runner(t, k) => t.v[k].upAge = s.v[k].upAge
  BY <1>1, <1>2 DEF Runner
<1>5. LET e == s.v[j].peer[k]
      IN  /\ e.base \in {0, s.v[k].base}
          /\ ~e.known => e.base = 0
          /\ e.known /\ e.base = 0 => ~Runner(s, k)
          /\ Runner(s, k) => /\ 1 =< s.v[k].upAge => e.base # 0 /\ e.age =< 1
                             /\ k \in s.w => <<k, j>> \in s.lives \/ (e.base # 0 /\ e.age = 0)
  BY <1>3 DEF Orderly, Heard
<1>6. j # n \/ k # x => (<<k, j>> \in s.lives => <<k, j>> \in t.lives)
  BY DEF Off
<1>7. CASE j # n
  <2>1. t.v[j] = s.v[j]
    BY <1>3, <1>7 DEF By
  <2> QED
    BY <1>3, <1>4, <1>5, <1>6, <1>7, <2>1
<1>8. CASE j = n /\ k = x
  <2>1. s.v[x].base # 0
    BY DEF Orderly, Timely
  <2>2. t.v[n].peer[x].base = b /\ t.v[n].peer[x].age = 0 /\ t.v[n].peer[x].known
    BY DEF Known
  <2> QED
    BY <1>3, <1>8, <2>1, <2>2
<1>9. CASE j = n /\ k # x
  <2>1. CASE t.v[n].peer[k] = s.v[n].peer[k]
    BY <1>3, <1>4, <1>5, <1>6, <1>9, <2>1
  <2>2. CASE s.v[n].peer[k].known /\ s.v[n].peer[k].base = 0 /\ t.v[n].peer[k] = NoPeer
    BY <1>3, <1>5, <1>9, <2>2, NoPeerBase
  <2> QED
    BY <1>3, <1>9, <2>1, <2>2 DEF Known
<1> QED
  BY <1>7, <1>8, <1>9

\* A ping that makes nobody think leaves Timely, Followed and Leaving as they were.
LEMMA QuietKeeps ==
  ASSUME NEW s \in Snaps, NEW t \in Snaps, Orderly(s), NEW n \in Node, By(s, t, n), Lives(s, t, n), Same(s, t, n),
         t.w = s.w, t.beats = s.beats, t.asks = s.asks, t.zeros \subseteq s.zeros, t.lives \subseteq s.lives
  PROVE  /\ Timely(t) /\ Followed(t) /\ Leaving(t) /\ Lead(t) = Lead(s)
         /\ \A k \in Node : Runner(t, k) => Runner(s, k)
<1>1. /\ Ups(t) = Ups(s) /\ n \in Ups(s) /\ \A k \in Node : t.v[k].base = s.v[k].base
      /\ \A k \in Ups(s) : t.v[k].upAge = s.v[k].upAge /\ t.v[k].quit = s.v[k].quit
  BY StaysUp
<1>2. \A k \in Node : t.v[k].master = s.v[k].master /\ t.v[k].addr = s.v[k].addr /\ t.v[k].hbAge = s.v[k].hbAge
  BY DEF By, Same
<1>3. Timely(t)
  BY <1>1, <1>2 DEF Orderly, Timely, Ups
<1>4. Lead(t) = Lead(s) /\ \A a \in Node : Been(s, a) <=> Been(t, a)
  BY <1>1, <1>2 DEF Lead, Been, Ups
<1>5. Followed(t)
  <2>1. \A c \in t.beats : Been(t, c[1])
    BY <1>4, LinksIn, NoSelf DEF Orderly, Followed
  <2>2. \A c \in t.asks : Been(t, c[2])
    BY <1>4, LinksIn, NoSelf DEF Orderly, Followed
  <2>3. ASSUME NEW k \in Ups(t), t.v[k].addr # 0
        PROVE  Been(t, t.v[k].addr) /\ t.v[k].addr # k /\ <<t.v[k].addr, k>> \notin t.lives
    <3>1. k \in Node /\ k \in Ups(s) /\ t.v[k].addr = s.v[k].addr
      BY <1>1, <1>2 DEF Ups
    <3>2. s.v[k].addr \in Node
      BY <2>3, <3>1, SnapIs
    <3> QED
      BY <1>4, <2>3, <3>1, <3>2 DEF Orderly, Followed
  <2>4. Begun(t) => Begun(s)
    BY <1>1, <1>2, <1>4 DEF Begun, Ups
  <2> QED
    BY <1>1, <2>1, <2>2, <2>3, <2>4 DEF Followed, Orderly
<1>6. Leaving(t)
  BY <1>1, <1>2, LinksIn, NoSelf DEF Orderly, Leaving
<1>7. \A k \in Node : Runner(t, k) => Runner(s, k)
  BY <1>1, <1>2 DEF Runner
<1> QED
  BY <1>3, <1>4, <1>5, <1>6, <1>7

LEMMA PingedOk ==
  ASSUME NEW s \in Snaps, NEW t \in Snaps, Orderly(s), NEW n \in Node, NEW x \in Node, x # n, Pinged(s, t, x, n)
  PROVE  Orderly(t)
<1> DEFINE b == s.v[x].base
<1>1. By(s, t, n) /\ Lives(s, t, n) /\ Known(s, t, x, n, b) /\ t.w = s.w
  BY DEF Pinged
<1> HIDE DEF b
<1>2. /\ Ups(t) = Ups(s) /\ n \in Ups(s) /\ \A k, m \in Node : Better(t, m, k) <=> Better(s, m, k)
      /\ \A k \in Ups(s) : t.v[k].quit = s.v[k].quit
  BY <1>1, StaysUp
<1>3. Same(s, t, n)
  BY <1>2, NodeIs DEF Pinged, Orderly, Followed
<1>4. t.beats = s.beats /\ t.asks = s.asks /\ t.zeros = s.zeros /\ Off(s.lives, t.lives, x, n)
  BY DEF Pinged
<1>5. /\ Timely(t) /\ Followed(t) /\ Leaving(t) /\ Lead(t) = Lead(s)
      /\ \A k \in Node : Runner(t, k) => Runner(s, k)
  BY <1>1, <1>3, <1>4, QuietKeeps DEF Off
<1>6. Heard(t)
  BY <1>1, <1>4, <1>5, KnownHeard DEF b
<1>7. \A y \in Node \ {n} : Defers(s, n, y) => /\ Defers(t, n, y) /\ (y = x => t.v[n].peer[y].age = 0)
                                               /\ (y # x => t.v[n].peer[y] = s.v[n].peer[y])
  BY <1>1, KnownKeeps DEF b
<1>8. ASSUME NEW m \in Lead(t), NEW k \in Ups(t) \ {m} PROVE Under(t, m, k)
  <2>1. k \in Node /\ m \in Node /\ Under(s, m, k)
    BY <1>2, <1>5 DEF Ups, Lead, Orderly, One
  <2>2. Due(s, m, k) => Due(t, m, k)
    BY <1>1, <1>4 DEF Due
  <2>3. CASE k # n
    <3>1. t.v[k] = s.v[k]
      BY <1>1, <2>1, <2>3 DEF By
    <3>2. <<m, k>> \in s.lives => <<m, k>> \in t.lives
      BY <1>4, <2>3 DEF Off
    <3> QED
      BY <1>2, <1>4, <2>1, <2>2, <3>1, <3>2, UnderSame
  <2>4. CASE k = n
    <3>1. Soon(s, m, n) => Soon(t, m, n)
      BY <1>3, <2>2, <2>4 DEF Soon, Same
    <3>2. Defers(s, n, m) => Defers(t, n, m) /\ (m = x => t.v[n].peer[m].age = 0) /\ (m # x => t.v[n].peer[m] = s.v[n].peer[m])
      BY <1>7, <2>1, <2>4
    <3>3. <<m, n>> \in s.lives => <<m, n>> \in t.lives \/ m = x
      BY <1>4 DEF Off
    <3>4. t.v[n].hbAge = s.v[n].hbAge /\ t.v[n].addr = s.v[n].addr /\ t.v[n].master = s.v[n].master /\ t.v[n].quit = s.v[n].quit
      BY <1>2, <1>3 DEF Same
    <3>5. s.v[n].hbAge \in Nat /\ 0 < HbTimeout
      BY SnapIs, Sizes
    <3>6. m = x => 0 =< s.v[n].hbAge
      BY <3>5
    <3> QED
      BY <1>4, <2>1, <2>2, <2>4, <3>1, <3>2, <3>3, <3>4, <3>5, <3>6 DEF Under
  <2> QED
    BY <2>3, <2>4
<1>9. One(t)
  BY <1>4, <1>5, <1>8 DEF Orderly, One
<1>10. Mourned(t)
  <2> SUFFICES ASSUME NEW o \in Node, Corpse(t, o) PROVE Lead(t) = {} /\ \A j \in Ups(t) : Waits(t, o, j)
    BY DEF Mourned
  <2>1. \A k \in Node : t.v[k].addr = s.v[k].addr /\ t.v[k].hbAge = s.v[k].hbAge
    BY <1>1, <1>3 DEF By, Same
  <2>2. Corpse(s, o) /\ o # n
    BY <1>2, <1>4, <2>1 DEF Corpse, Ups
  <2>3. Lead(t) = {} /\ \A j \in Ups(s) : Waits(s, o, j)
    BY <1>5, <2>2 DEF Orderly, Mourned
  <2>4. ASSUME NEW j \in Ups(t) PROVE Waits(t, o, j)
    <3>1. j \in Node /\ Waits(s, o, j) /\ t.v[j].quit = s.v[j].quit
      BY <1>2, <2>3 DEF Ups
    <3>2. Defers(s, j, o) => Defers(t, j, o)
      BY <1>1, <1>2, <1>7, <2>2, <3>1, DefersSame DEF By
    <3> QED
      BY <1>4, <2>1, <3>1, <3>2 DEF Waits
  <2> QED
    BY <2>3, <2>4
<1> QED
  BY <1>5, <1>6, <1>9, <1>10 DEF Orderly

LEMMA Electing ==
  ASSUME NEW s \in Snaps, NEW t \in Snaps, Orderly(s), NEW n \in Node, NEW x \in Node, x # n, Left(s, t, x, n), s.v[n].addr = x
  PROVE  /\ x \notin Ups(s) /\ ~s.v[n].master /\ HbTimeout =< s.v[n].upAge
         /\ t.v[n].hbAge = 0 /\ t.v[n].addr = 0
         /\ t.v[n].master => /\ Runner(s, n) /\ Lead(s) = {} /\ \A o \in Node : ~Corpse(s, o)
                             /\ \A m \in Node \ {n, x} : ~Defers(s, n, m)
<1>1. n \in Ups(s) /\ x # 0 /\ <<x, n>> \in s.zeros
  BY StaysUp, NodeIs DEF Left
<1>2. x \notin Ups(s)
  BY <1>1, NoSelf DEF Orderly, Followed, Been, Leaving
<1>3. ~s.v[n].master
  BY <1>1 DEF Orderly, Timely
<1>4. HbTimeout =< s.v[n].upAge /\ ~(s.v[n].upAge < HbTimeout)
  <2>1. HbTimeout =< s.v[n].upAge
    BY <1>1 DEF Orderly, Followed, Begun
  <2> QED
    BY <2>1, SnapIs, Sizes
<1>5. /\ t.v[n].hbAge = 0 /\ t.v[n].addr = 0
      /\ t.v[n].master => ~s.v[n].quit /\ \A m \in Node \ {n, x} : ~Defers(s, n, m)
  BY <1>3, <1>4 DEF Left
<1>6. ASSUME t.v[n].master
      PROVE  Runner(s, n) /\ Lead(s) = {} /\ \A o \in Node : ~Corpse(s, o)
  <2>1. \A m \in Node \ {n} : Defers(s, n, m) => <<m, n>> \in s.zeros
    BY <1>1, <1>5, <1>6
  <2>2. Lead(s) = {} /\ \A o \in Node : ~Corpse(s, o)
    BY <1>1, <1>3, <1>5, <1>6, <2>1, NoRival
  <2> QED
    BY <1>1, <1>3, <1>5, <1>6, <2>2 DEF Runner
<1> QED
  BY <1>2, <1>3, <1>4, <1>5, <1>6

LEMMA LeftBasics ==
  ASSUME NEW s \in Snaps, NEW t \in Snaps, Orderly(s), NEW n \in Node, NEW x \in Node, x # n, Left(s, t, x, n), s.v[n].addr = x
  PROVE  Timely(t) /\ Followed(t) /\ Leaving(t) /\ \A k \in Node : Runner(t, k) => Runner(s, k)
<1>1. /\ Ups(t) = Ups(s) /\ n \in Ups(s) /\ \A k \in Node : t.v[k].base = s.v[k].base
      /\ \A k \in Ups(s) : t.v[k].upAge = s.v[k].upAge /\ t.v[k].quit = s.v[k].quit
  BY StaysUp DEF Left
<1>2. /\ ~s.v[n].master /\ t.v[n].hbAge = 0 /\ t.v[n].addr = 0 /\ HbTimeout =< s.v[n].upAge
      /\ t.v[n].master => Runner(s, n)
  BY Electing
<1>3. \A k \in Node \ {n} : t.v[k] = s.v[k]
  BY DEF Left, By
<1>4. t.w = s.w /\ t.beats = s.beats /\ t.asks = s.asks /\ t.lives = s.lives /\ t.zeros \subseteq s.zeros
  BY DEF Left, Off
<1>5. Timely(t)
  <2>1. ASSUME NEW k \in Ups(t)
        PROVE  /\ t.v[k].hbAge =< t.v[k].upAge
               /\ t.v[k].master => t.v[k].addr = 0
               /\ ~t.v[k].master => t.v[k].hbAge =< HbTimeout /\ (k \in t.w => t.v[k].hbAge < HbTimeout)
    <3>1. k \in Node /\ k \in Ups(s) /\ t.v[k].upAge \in Nat /\ 0 < HbTimeout /\ HbTimeout \in Nat
      BY <1>1, SnapIs, Sizes DEF Ups
    <3>2. CASE k = n
      <4>1. 0 =< t.v[n].upAge /\ 0 =< HbTimeout
        BY <3>1, <3>2
      <4> QED
        BY <1>2, <3>1, <3>2, <4>1
    <3>3. CASE k # n
      <4>1. t.v[k] = s.v[k]
        BY <1>3, <3>1, <3>3
      <4> QED
        BY <1>4, <3>1, <4>1 DEF Orderly, Timely
    <3> QED
      BY <3>2, <3>3
  <2> QED
    BY <1>1, <2>1 DEF Orderly, Timely
<1>6. \A a \in Node : Been(s, a) => Been(t, a)
  BY <1>1, <1>2, <1>3 DEF Been
<1>7. Followed(t)
  <2>1. \A c \in t.beats : Been(t, c[1])
    BY <1>4, <1>6, LinksIn, NoSelf DEF Orderly, Followed
  <2>2. \A c \in t.asks : Been(t, c[2])
    BY <1>4, <1>6, LinksIn, NoSelf DEF Orderly, Followed
  <2>3. ASSUME NEW k \in Ups(t), t.v[k].addr # 0
        PROVE  Been(t, t.v[k].addr) /\ t.v[k].addr # k /\ <<t.v[k].addr, k>> \notin t.lives
    <3>1. k \in Node /\ k \in Ups(s) /\ k # n
      BY <1>1, <1>2, <2>3 DEF Ups
    <3>2. t.v[k] = s.v[k] /\ s.v[k].addr \in Node
      BY <1>3, <2>3, <3>1, SnapIs
    <3> QED
      BY <1>4, <1>6, <2>3, <3>1, <3>2 DEF Orderly, Followed
  <2>4. \A k \in Ups(t) : HbTimeout =< t.v[k].upAge
    BY <1>1, <1>2 DEF Orderly, Timely
  <2> QED
    BY <2>1, <2>2, <2>3, <2>4 DEF Followed
<1>8. Leaving(t)
  <2> SUFFICES ASSUME NEW c \in t.zeros, c[1] \in Ups(t) PROVE t.v[c[1]].quit /\ ~t.v[c[1]].master
    BY DEF Leaving
  <2>1. c \in s.zeros /\ c[1] \in Node
    BY <1>4, LinksIn, NoSelf
  <2>2. s.v[c[1]].quit /\ ~s.v[c[1]].master
    BY <1>1, <2>1 DEF Orderly, Leaving
  <2> QED
    BY <1>1, <1>2, <1>3, <2>1, <2>2 DEF Runner
<1>9. \A k \in Node : Runner(t, k) => Runner(s, k)
  BY <1>1, <1>2, <1>3 DEF Runner
<1> QED
  BY <1>5, <1>7, <1>8, <1>9

\* The last word of x makes no corpse: no heartbeat of it comes after.
LEMMA LeftCorpse ==
  ASSUME NEW s \in Snaps, NEW t \in Snaps, Orderly(s), NEW n \in Node, NEW x \in Node, x # n, Left(s, t, x, n),
         NEW o \in Node, Corpse(t, o)
  PROVE  Corpse(s, o)
<1>1. Ups(t) = Ups(s) /\ n \in Ups(s)
  BY StaysUp DEF Left
<1>2. PICK k \in Ups(s) : ((t.v[k].addr = o /\ t.v[k].hbAge = 0) \/ <<o, k>> \in t.beats) /\ <<o, k>> \notin t.zeros
  BY <1>1 DEF Corpse
<1>3. k \in Node /\ t.beats = s.beats /\ (s.v[n].addr = x => t.v[n].addr # o)
  BY Electing, NodeIs DEF Left, Ups
<1>4. CASE k # n
  <2>1. t.v[k] = s.v[k] /\ <<o, k>> \notin s.zeros
    BY <1>2, <1>3, <1>4 DEF Left, By, Off
  <2> QED
    BY <1>1, <1>2, <1>3, <2>1 DEF Corpse
<1>5. CASE k = n /\ o # x
  <2>1. <<o, n>> \notin s.zeros
    BY <1>2, <1>5 DEF Left, Off
  <2>2. t.v[n].addr = o /\ t.v[n].hbAge = 0 => (s.v[n].addr = o /\ s.v[n].hbAge = 0) \/ s.v[n].addr = x
    BY DEF Left, Same
  <2>3. CASE s.v[n].addr # x
    BY <1>1, <1>2, <1>3, <1>5, <2>1, <2>2, <2>3 DEF Corpse
  <2>4. CASE s.v[n].addr = x /\ <<o, n>> \in s.beats
    BY <1>1, <1>2, <1>5, <2>1, <2>4 DEF Corpse
  <2>5. CASE s.v[n].addr = x /\ <<o, n>> \notin s.beats
    BY <1>2, <1>3, <1>5, <2>5
  <2> QED
    BY <2>3, <2>4, <2>5
<1>6. CASE k = n /\ o = x
  BY <1>2, <1>3, <1>6 DEF Left, Same
<1> QED
  BY <1>4, <1>5, <1>6

LEMMA LeftOne ==
  ASSUME NEW s \in Snaps, NEW t \in Snaps, Orderly(s), 2 =< HbTimeout, NEW n \in Node, NEW x \in Node, x # n, Left(s, t, x, n),
         s.v[n].addr = x, NEW m \in Lead(t)
  PROVE  /\ \A k \in Node : <<m, k>> \notin t.zeros
         /\ \A k \in Ups(t) \ {m} : Under(t, m, k)
<1>1. /\ Ups(t) = Ups(s) /\ n \in Ups(s) /\ \A k, l \in Node : Better(t, l, k) <=> Better(s, l, k)
      /\ \A k \in Ups(s) : t.v[k].quit = s.v[k].quit
  BY StaysUp DEF Left
<1>2. /\ x \notin Ups(s) /\ ~s.v[n].master /\ t.v[n].hbAge = 0 /\ t.v[n].addr = 0 /\ HbTimeout =< s.v[n].upAge
      /\ t.v[n].master => /\ Runner(s, n) /\ Lead(s) = {} /\ \A o \in Node : ~Corpse(s, o)
                          /\ \A l \in Node \ {n, x} : ~Defers(s, n, l)
  BY Electing
<1>3. \A k \in Node \ {n} : t.v[k] = s.v[k]
  BY DEF Left, By
<1>4. t.w = s.w /\ t.beats = s.beats /\ t.lives = s.lives /\ t.zeros \subseteq s.zeros /\ s.zeros \ {<<x, n>>} \subseteq t.zeros
  BY DEF Left, Off
<1>5. m \in Node /\ m \in Ups(s) /\ m # x /\ t.v[m].master
  BY <1>1, <1>2 DEF Lead, Ups
<1>6. CASE m # n
  <2>1. m \in Lead(s)
    BY <1>3, <1>5, <1>6 DEF Lead
  <2>2. \A k \in Node : <<m, k>> \notin t.zeros
    BY <1>4, <2>1 DEF Orderly, One
  <2>3. ASSUME NEW k \in Ups(t) \ {m} PROVE Under(t, m, k)
    <3>1. k \in Node /\ k \in Ups(s) /\ Under(s, m, k) /\ (Due(s, m, k) => Due(t, m, k))
      BY <1>1, <1>4, <2>1 DEF Ups, Orderly, One, Due
    <3>2. CASE k # n
      <4>1. t.v[k] = s.v[k]
        BY <1>3, <3>1, <3>2
      <4>2. <<s.v[k].addr, k>> \in s.zeros => <<s.v[k].addr, k>> \in t.zeros
        BY <1>4, <3>2
      <4> QED
        BY <1>1, <1>4, <1>5, <3>1, <4>1, <4>2, UnderSame
    <3>3. CASE k = n
      <4>1. ~t.v[n].master
        BY <1>2, <2>1
      <4>2. Defers(s, n, m) => Defers(t, n, m)
        BY <1>5, <1>6, KnownKeeps DEF Left
      <4>3. Soon(t, m, n)
        BY <1>2 DEF Soon
      <4> QED
        BY <1>1, <1>2, <1>4, <3>1, <3>3, <4>1, <4>2, <4>3 DEF Under
    <3> QED
      BY <3>2, <3>3
  <2> QED
    BY <2>2, <2>3
<1>7. CASE m = n
  <2>1. /\ Runner(s, n) /\ Lead(s) = {} /\ \A o \in Node : ~Corpse(s, o)
        /\ \A l \in Node \ {n, x} : ~Defers(s, n, l)
    BY <1>2, <1>5, <1>7
  <2>2. \A k \in Node : <<m, k>> \notin t.zeros
    BY <1>1, <1>4, <1>7, <2>1 DEF Orderly, Leaving, Runner
  <2>3. ASSUME NEW k \in Ups(t) \ {m} PROVE Under(t, m, k)
    <3>1. k \in Node /\ k \in Ups(s) /\ k # n /\ k # x /\ ~s.v[k].master
      BY <1>1, <1>2, <1>7, <2>1 DEF Ups, Lead
    <3>2. t.v[k] = s.v[k]
      BY <1>3, <3>1
    <3>3. CASE s.v[k].quit
      BY <3>1, <3>2, <3>3 DEF Under
    <3>4. CASE ~s.v[k].quit
      <4>1. Defers(s, k, n) /\ s.v[k].peer[n].age < HbTimeout /\ s.v[k].peer[n].age =< 1 /\ s.v[k].addr # n
        BY <1>2, <2>1, <3>1, <3>4, Winner
      <4>2. Defers(t, k, n)
        BY <1>1, <3>1, <3>2, <4>1, DefersSame
      <4>3. s.v[k].peer[n].age \in Nat /\ s.v[k].hbAge \in Nat /\ s.v[k].addr \in Node \cup {0}
        BY <3>1, SnapIs
      <4>4. CASE s.v[k].addr = 0
        BY <1>7, <3>1, <3>2, <4>1, <4>2, <4>4 DEF Under
      <4>5. CASE s.v[k].addr # 0 /\ s.v[k].hbAge = 0
        <5> DEFINE o == s.v[k].addr
        <5>1. o \in Node /\ o \notin Ups(s)
          BY <2>1, <3>1, <4>3, <4>5 DEF Orderly, Followed, Been, Lead
        <5>2. <<o, k>> \in s.zeros
          BY <2>1, <3>1, <4>5, <5>1 DEF Corpse
        <5>3. <<o, k>> \in t.zeros
          BY <1>4, <3>1, <5>2
        <5> QED
          BY <1>7, <3>1, <3>2, <4>1, <4>2, <4>5, <5>3 DEF Under
      <4>6. CASE s.v[k].addr # 0 /\ s.v[k].hbAge # 0
        <5>1. s.v[k].peer[n].age =< s.v[k].hbAge
          BY <4>1, <4>3, <4>6
        <5> QED
          BY <1>7, <3>1, <3>2, <4>1, <4>2, <4>6, <5>1 DEF Under
      <4> QED
        BY <4>4, <4>5, <4>6
    <3> QED
      BY <3>3, <3>4
  <2> QED
    BY <2>2, <2>3
<1> QED
  BY <1>6, <1>7

LEMMA LeftOk ==
  ASSUME NEW s \in Snaps, NEW t \in Snaps, Orderly(s), 2 =< HbTimeout, NEW n \in Node, NEW x \in Node, x # n, Left(s, t, x, n)
  PROVE  Orderly(t)
<1>1. By(s, t, n) /\ Lives(s, t, n) /\ Known(s, t, x, n, 0) /\ t.w = s.w
  BY DEF Left
<1>2. /\ Ups(t) = Ups(s) /\ n \in Ups(s) /\ \A k, m \in Node : Better(t, m, k) <=> Better(s, m, k)
      /\ \A k \in Ups(s) : t.v[k].quit = s.v[k].quit
  BY <1>1, StaysUp
<1>3. /\ t.beats = s.beats /\ t.asks = s.asks /\ t.lives = s.lives
      /\ t.zeros \subseteq s.zeros /\ s.zeros \ {<<x, n>>} \subseteq t.zeros /\ <<x, n>> \in s.zeros
  BY DEF Left, Off
<1>4. x \notin Lead(s) /\ ~Runner(s, x)
  BY <1>3 DEF Orderly, Leaving, Lead, Runner
<1>5. s.v[n].addr # x => Same(s, t, n)
  BY DEF Left
<1>6. Timely(t) /\ Followed(t) /\ Leaving(t) /\ \A k \in Node : Runner(t, k) => Runner(s, k)
  BY <1>1, <1>3, <1>5, QuietKeeps, LeftBasics
<1>7. Heard(t)
  <2>1. Off(s.lives, t.lives, x, n)
    BY <1>3 DEF Off
  <2> QED
    BY <1>1, <1>4, <1>6, <2>1, KnownHeard
<1>8. \A y \in Node \ {n, x} : Defers(s, n, y) => Defers(t, n, y) /\ t.v[n].peer[y] = s.v[n].peer[y]
  BY <1>1, KnownKeeps
<1>9. One(t)
  <2>1. CASE s.v[n].addr = x
    BY <2>1, LeftOne DEF One
  <2>2. CASE s.v[n].addr # x
    <3>1. Lead(t) = Lead(s) /\ Same(s, t, n)
      BY <1>1, <1>3, <1>5, <2>2, QuietKeeps
    <3>2. ASSUME NEW m \in Lead(t), NEW k \in Ups(t) \ {m} PROVE Under(t, m, k)
      <4>1. k \in Node /\ m \in Node /\ m # x /\ Under(s, m, k) /\ (Due(s, m, k) => Due(t, m, k))
        BY <1>1, <1>2, <1>3, <1>4, <3>1 DEF Ups, Lead, Orderly, One, Due
      <4>2. <<s.v[k].addr, k>> \in s.zeros => <<s.v[k].addr, k>> \in t.zeros
        BY <1>3, <2>2
      <4>3. CASE k # n
        <5>1. t.v[k] = s.v[k]
          BY <1>1, <4>1, <4>3 DEF By
        <5> QED
          BY <1>2, <1>3, <4>1, <4>2, <5>1, UnderSame
      <4>4. CASE k = n
        <5>1. Soon(s, m, n) => Soon(t, m, n)
          BY <3>1, <4>1, <4>4 DEF Soon, Same
        <5>2. Defers(s, n, m) => Defers(t, n, m) /\ t.v[n].peer[m] = s.v[n].peer[m]
          BY <1>8, <4>1, <4>4
        <5>3. t.v[n].hbAge = s.v[n].hbAge /\ t.v[n].addr = s.v[n].addr /\ t.v[n].master = s.v[n].master /\ t.v[n].quit = s.v[n].quit
          BY <1>2, <3>1 DEF Same
        <5> QED
          BY <1>3, <4>1, <4>2, <4>4, <5>1, <5>2, <5>3 DEF Under
      <4> QED
        BY <4>3, <4>4
    <3> QED
      BY <1>3, <3>1, <3>2 DEF Orderly, One
  <2> QED
    BY <2>1, <2>2
<1>10. Mourned(t)
  <2> SUFFICES ASSUME NEW o \in Node, Corpse(t, o) PROVE Lead(t) = {} /\ \A j \in Ups(t) : Waits(t, o, j)
    BY DEF Mourned
  <2>1. Corpse(s, o) /\ o # n
    BY <1>2, LeftCorpse DEF Corpse
  <2>2. Lead(s) = {} /\ \A j \in Ups(s) : Waits(s, o, j)
    BY <2>1 DEF Orderly, Mourned
  <2>3. o # x
    BY <1>2, <1>3, <2>2 DEF Waits
  <2>4. ~t.v[n].master
    <3>1. CASE s.v[n].addr = x
      BY <2>1, <3>1, Electing
    <3>2. CASE s.v[n].addr # x
      BY <1>2, <1>5, <2>2, <3>2 DEF Same, Lead
    <3> QED
      BY <3>1, <3>2
  <2>5. Lead(t) = {}
    BY <1>1, <1>2, <2>2, <2>4 DEF Lead, By, Ups
  <2>6. ASSUME NEW j \in Ups(t) PROVE Waits(t, o, j)
    <3>1. j \in Node /\ j \in Ups(s) /\ Waits(s, o, j) /\ t.v[j].quit = s.v[j].quit
      BY <1>2, <2>2 DEF Ups
    <3>2. Defers(s, j, o) => Defers(t, j, o)
      BY <1>1, <1>2, <1>8, <2>1, <2>3, <3>1, DefersSame DEF By
    <3>3. CASE j # n \/ s.v[n].addr # x
      <4>1. t.v[j].hbAge = s.v[j].hbAge /\ t.v[j].addr = s.v[j].addr
        BY <1>1, <1>5, <3>1, <3>3 DEF By, Same
      <4> QED
        BY <1>3, <3>1, <3>2, <4>1 DEF Waits
    <3>4. CASE j = n /\ s.v[n].addr = x
      <4>1. t.v[j].hbAge = 0 /\ t.v[j].addr = 0
        BY <3>4, Electing
      <4>2. <<t.v[j].addr, j>> \notin t.zeros
        BY <3>1, <4>1, LinksIn, IsLink, NodeIs
      <4> QED
        BY <1>3, <3>1, <3>2, <4>1, <4>2 DEF Waits
    <3> QED
      BY <3>3, <3>4
  <2> QED
    BY <2>5, <2>6
<1> QED
  BY <1>6, <1>7, <1>9, <1>10 DEF Orderly

LEMMA WokenOk ==
  ASSUME NEW s \in Snaps, NEW t \in Snaps, Orderly(s), 2 =< HbTimeout, NEW n \in Node, Woken(s, t, n)
  PROVE  Orderly(t)
BY WokenTimely, WokenFollowed, WokenLeaving, WokenHeard, WokenOne, WokenMourned DEF Orderly

-----------------------------------------------------------------------------
(* A heartbeat heard. *)

LEMMA BeatenBasics ==
  ASSUME NEW s \in Snaps, NEW t \in Snaps, Orderly(s), NEW n \in Node, NEW x \in Node, Beaten(s, t, x, n)
  PROVE  /\ Timely(t) /\ Followed(t) /\ Leaving(t) /\ Heard(t) /\ Lead(t) = Lead(s) /\ x # n
         /\ \A o \in Node : Corpse(t, o) => Corpse(s, o)
<1>1. /\ Ups(t) = Ups(s) /\ n \in Ups(s) /\ \A k \in Node : t.v[k].base = s.v[k].base
      /\ \A k \in Ups(s) : t.v[k].upAge = s.v[k].upAge /\ t.v[k].quit = s.v[k].quit
  BY StaysUp DEF Beaten
<1>2. /\ \A k \in Node : t.v[k].master = s.v[k].master /\ t.v[k].peer = s.v[k].peer
      /\ \A k \in Node \ {n} : t.v[k] = s.v[k]
  <2>1. \A k \in Node \ {n} : t.v[k] = s.v[k]
    BY DEF Beaten, By
  <2>2. t.v[n].master = s.v[n].master /\ t.v[n].peer = s.v[n].peer
    <3>1. t.v[n].peer = s.v[n].peer /\ ~s.v[n].master /\ ~t.v[n].master
      BY DEF Beaten
    <3>2. s.v[n].master \in BOOLEAN /\ t.v[n].master \in BOOLEAN
      BY SnapIs
    <3> QED
      BY <3>1, <3>2
  <2> QED
    BY <2>1, <2>2
<1>3. /\ t.w = s.w /\ t.beats \subseteq s.beats /\ <<x, n>> \in s.beats /\ <<x, n>> \notin s.lives
      /\ s.beats \ {<<x, n>>} \subseteq t.beats
      /\ t.zeros = s.zeros /\ t.lives = s.lives /\ t.asks \subseteq s.asks \cup {<<n, x>>}
  BY DEF Beaten, Off
<1>4. x # n /\ Been(s, x)
  BY <1>3, LinksIn, IsLink DEF Orderly, Followed
<1>5. /\ t.v[n].addr # 0 => t.v[n].addr \in {s.v[n].addr, x}
      /\ t.v[n].hbAge \in {0, s.v[n].hbAge}
      /\ (t.v[n].addr = s.v[n].addr /\ t.v[n].hbAge = s.v[n].hbAge) \/ t.v[n].addr \in {0, x}
  BY DEF Beaten, Same
<1>6. Timely(t)
  <2>1. ASSUME NEW k \in Ups(t)
        PROVE  /\ t.v[k].hbAge =< t.v[k].upAge
               /\ t.v[k].master => t.v[k].addr = 0
               /\ ~t.v[k].master => t.v[k].hbAge =< HbTimeout /\ (k \in t.w => t.v[k].hbAge < HbTimeout)
    <3>1. k \in Node /\ k \in Ups(s) /\ t.v[k].upAge \in Nat /\ 0 < HbTimeout /\ HbTimeout \in Nat
      BY <1>1, SnapIs, Sizes DEF Ups
    <3>2. CASE k = n
      <4>1. 0 =< t.v[n].upAge /\ 0 =< HbTimeout /\ ~t.v[n].master /\ ~s.v[n].master
        BY <3>1, <3>2 DEF Beaten
      <4>2. s.v[n].hbAge =< t.v[n].upAge /\ s.v[n].hbAge =< HbTimeout /\ (n \in t.w => s.v[n].hbAge < HbTimeout)
        BY <1>1, <1>3, <3>1, <3>2, <4>1 DEF Orderly, Timely
      <4> QED
        BY <1>5, <3>1, <3>2, <4>1, <4>2
    <3>3. CASE k # n
      BY <1>2, <1>3, <3>1, <3>3 DEF Orderly, Timely
    <3> QED
      BY <3>2, <3>3
  <2> QED
    BY <1>1, <2>1 DEF Orderly, Timely
<1>7. \A a \in Node : Been(s, a) => Been(t, a)
  BY <1>1, <1>2 DEF Been
<1>8. Followed(t)
  <2>1. \A c \in t.beats : Been(t, c[1])
    BY <1>3, <1>7, LinksIn, NoSelf DEF Orderly, Followed
  <2>2. ASSUME NEW c \in t.asks PROVE Been(t, c[2])
    BY <1>3, <1>4, <1>7, <2>2, LinksIn, NoSelf DEF Orderly, Followed
  <2>3. ASSUME NEW k \in Ups(t), t.v[k].addr # 0
        PROVE  Been(t, t.v[k].addr) /\ t.v[k].addr # k /\ <<t.v[k].addr, k>> \notin t.lives
    <3>1. k \in Node /\ k \in Ups(s)
      BY <1>1 DEF Ups
    <3>2. CASE t.v[k].addr = s.v[k].addr
      <4>1. s.v[k].addr \in Node
        BY <2>3, <3>1, <3>2, SnapIs
      <4> QED
        BY <1>3, <1>7, <2>3, <3>1, <3>2, <4>1 DEF Orderly, Followed
    <3>3. CASE t.v[k].addr # s.v[k].addr
      <4>1. k = n /\ t.v[k].addr = x
        BY <1>2, <1>5, <2>3, <3>1, <3>3
      <4> QED
        BY <1>3, <1>4, <1>7, <4>1
    <3> QED
      BY <3>2, <3>3
  <2> QED
    BY <1>1, <1>3, <2>1, <2>2, <2>3 DEF Followed, Orderly, Begun
<1>9. Leaving(t)
  BY <1>1, <1>2, <1>3, LinksIn, NoSelf DEF Orderly, Leaving
<1>10. Heard(t)
  <2>1. \A k \in Node : Runner(t, k) <=> Runner(s, k)
    BY <1>1, <1>2 DEF Runner
  <2>2. \A k \in Node : Runner(s, k) => t.v[k].upAge = s.v[k].upAge
    BY <1>1 DEF Runner
  <2> SUFFICES ASSUME NEW j \in Ups(t), NEW k \in Node \ {j}
               PROVE  LET e == t.v[j].peer[k]
                      IN  /\ e.base \in {0, t.v[k].base}
                          /\ ~e.known => e.base = 0
                          /\ e.known /\ e.base = 0 => ~Runner(t, k)
                          /\ Runner(t, k) => /\ 1 =< t.v[k].upAge => e.base # 0 /\ e.age =< 1
                                             /\ k \in t.w => <<k, j>> \in t.lives \/ (e.base # 0 /\ e.age = 0)
    BY DEF Heard
  <2>3. j \in Node /\ j \in Ups(s) /\ t.v[j].peer = s.v[j].peer /\ t.v[k].base = s.v[k].base
    BY <1>1, <1>2 DEF Ups
  <2>4. LET e == s.v[j].peer[k]
        IN  /\ e.base \in {0, s.v[k].base}
            /\ ~e.known => e.base = 0
            /\ e.known /\ e.base = 0 => ~Runner(s, k)
            /\ Runner(s, k) => /\ 1 =< s.v[k].upAge => e.base # 0 /\ e.age =< 1
                               /\ k \in s.w => <<k, j>> \in s.lives \/ (e.base # 0 /\ e.age = 0)
    BY <2>3 DEF Orderly, Heard
  <2> QED
    BY <1>3, <2>1, <2>2, <2>3, <2>4
<1>11. Lead(t) = Lead(s)
  BY <1>1, <1>2 DEF Lead, Ups
<1>12. ASSUME NEW o \in Node, Corpse(t, o) PROVE Corpse(s, o)
  <2>1. PICK k \in Ups(s) : ((t.v[k].addr = o /\ t.v[k].hbAge = 0) \/ <<o, k>> \in t.beats) /\ <<o, k>> \notin t.zeros
    BY <1>1, <1>12 DEF Corpse
  <2>2. k \in Node /\ o # 0
    BY NodeIs DEF Ups
  <2>3. (s.v[k].addr = o /\ s.v[k].hbAge = 0) \/ <<o, k>> \in s.beats
    <3>1. CASE <<o, k>> \in t.beats
      BY <1>3, <3>1
    <3>2. CASE k # n
      BY <1>2, <1>3, <2>1, <2>2, <3>2
    <3>3. CASE k = n /\ t.v[n].addr = o /\ t.v[n].hbAge = 0
      BY <1>3, <1>5, <2>2, <3>3
    <3> QED
      BY <2>1, <3>1, <3>2, <3>3
  <2> QED
    BY <1>1, <1>3, <1>12, <2>1, <2>3 DEF Corpse
<1> QED
  BY <1>4, <1>6, <1>8, <1>9, <1>10, <1>11, <1>12

LEMMA BeatenOne ==
  ASSUME NEW s \in Snaps, NEW t \in Snaps, Orderly(s), NEW n \in Node, NEW x \in Node, Beaten(s, t, x, n),
         NEW m \in Lead(s), NEW k \in Ups(s) \ {m}
  PROVE  Under(t, m, k)
<1>1. /\ Ups(t) = Ups(s) /\ n \in Ups(s) /\ \A j, l \in Node : Better(t, l, j) <=> Better(s, l, j)
      /\ \A j \in Ups(s) : t.v[j].quit = s.v[j].quit
  BY StaysUp DEF Beaten
<1>2. /\ t.w = s.w /\ t.beats \subseteq s.beats /\ <<x, n>> \in s.beats
      /\ s.beats \ {<<x, n>>} \subseteq t.beats /\ t.zeros = s.zeros /\ t.lives = s.lives
  BY DEF Beaten, Off
<1>3. m \in Node /\ k \in Node /\ Under(s, m, k) /\ \A j \in Node : <<m, j>> \notin s.zeros
  BY DEF Orderly, One, Lead, Ups
<1>4. CASE k # n
  <2>1. t.v[k] = s.v[k]
    BY <1>3, <1>4 DEF Beaten, By
  <2>2. Due(s, m, k) => Due(t, m, k)
    BY <1>2, <1>4 DEF Due
  <2> QED
    BY <1>1, <1>2, <1>3, <2>1, <2>2, UnderSame
<1>5. CASE k = n
  <2>1. t.v[n].peer = s.v[n].peer /\ ~s.v[n].master /\ ~t.v[n].master /\ t.v[n].quit = s.v[n].quit
    BY <1>1 DEF Beaten
  <2>2. Defers(t, n, m) <=> Defers(s, n, m)
    BY <1>1, <1>3, <2>1, DefersSame
  <2>3. CASE s.v[n].quit
    BY <1>5, <2>1, <2>3 DEF Under
  <2>4. CASE ~s.v[n].quit /\ s.v[n].addr \notin {0, x} /\ Same(s, t, n)
    <3>1. t.v[n].addr = s.v[n].addr /\ t.v[n].hbAge = s.v[n].hbAge
      BY <2>4 DEF Same
    <3>2. s.v[n].addr = m => (Due(s, m, n) => Due(t, m, n))
      BY <1>2, <2>4 DEF Due
    <3> QED
      BY <1>2, <1>3, <1>5, <2>1, <2>2, <2>4, <3>1, <3>2 DEF Under, Soon
  <2>5. CASE ~s.v[n].quit /\ s.v[n].addr \in {0, x} /\ t.v[n].hbAge = 0 /\ t.v[n].addr \in {s.v[n].addr, x}
    <3>1. (\E y \in Node \ {m} : <<y, n>> \in t.beats) => Defers(t, n, m)
      BY <1>2, <1>3, <1>5, <2>2, <2>5 DEF Under
    <3>2. Soon(t, m, n)
      BY <2>5 DEF Soon
    <3>3. CASE t.v[n].addr \in {0, m}
      BY <1>5, <2>1, <3>1, <3>2, <3>3 DEF Under
    <3>4. CASE t.v[n].addr = x /\ x # m
      <4>1. Defers(t, n, m)
        BY <1>2, <1>3, <1>5, <2>2, <2>5, <3>4 DEF Under
      <4>2. x \notin Ups(s)
        BY <1>2, <3>4, NoSelf, LinksIn, Two DEF Orderly, Followed, Been, Lead
      <4>3. <<x, n>> \in s.zeros
        BY <1>1, <1>2, <4>2 DEF Orderly, Mourned, Corpse
      <4>4. x # 0
        BY NodeIs
      <4> QED
        BY <1>2, <1>5, <2>1, <3>1, <3>4, <4>1, <4>3, <4>4 DEF Under
    <3> QED
      BY <2>5, <3>3, <3>4
  <2> QED
    BY <2>3, <2>4, <2>5 DEF Beaten
<1> QED
  BY <1>4, <1>5

LEMMA BeatenOk ==
  ASSUME NEW s \in Snaps, NEW t \in Snaps, Orderly(s), NEW n \in Node, NEW x \in Node, Beaten(s, t, x, n)
  PROVE  Orderly(t)
<1>1. /\ Timely(t) /\ Followed(t) /\ Leaving(t) /\ Heard(t) /\ Lead(t) = Lead(s) /\ x # n
      /\ \A o \in Node : Corpse(t, o) => Corpse(s, o)
  BY BeatenBasics
<1>2. /\ Ups(t) = Ups(s) /\ n \in Ups(s) /\ \A j, l \in Node : Better(t, l, j) <=> Better(s, l, j)
      /\ \A j \in Ups(s) : t.v[j].quit = s.v[j].quit
  BY StaysUp DEF Beaten
<1>3. t.beats \subseteq s.beats /\ <<x, n>> \in s.beats /\ t.zeros = s.zeros
  BY DEF Beaten, Off
<1>4. One(t)
  BY <1>1, <1>2, <1>3, BeatenOne DEF One, Orderly
<1>5. Mourned(t)
  <2> SUFFICES ASSUME NEW o \in Node, Corpse(t, o), NEW j \in Ups(t) PROVE Lead(t) = {} /\ Waits(t, o, j)
    BY <1>1 DEF Mourned, Orderly
  <2>1. Lead(t) = {} /\ j \in Node /\ Waits(s, o, j) /\ t.v[j].quit = s.v[j].quit
    BY <1>1, <1>2 DEF Orderly, Mourned, Ups
  <2>2. t.v[j].peer = s.v[j].peer
    BY <2>1 DEF Beaten, By
  <2>3. Defers(t, j, o) <=> Defers(s, j, o)
    BY <1>2, <2>1, <2>2, DefersSame
  <2>4. CASE t.v[j].addr = s.v[j].addr /\ t.v[j].hbAge = s.v[j].hbAge
    BY <1>3, <2>1, <2>3, <2>4 DEF Waits
  <2>5. CASE ~(t.v[j].addr = s.v[j].addr /\ t.v[j].hbAge = s.v[j].hbAge)
    <3>1. j = n /\ s.v[n].addr \in {0, x} /\ t.v[n].hbAge = 0 /\ t.v[n].addr \in {s.v[n].addr, x}
      BY <2>1, <2>5 DEF Beaten, By, Same
    <3>2. <<t.v[n].addr, n>> \in t.zeros => t.v[n].addr = x
      BY <3>1, LinksIn, IsLink, NodeIs
    <3> QED
      BY <1>3, <2>1, <2>3, <3>1, <3>2 DEF Waits
  <2> QED
    BY <2>1, <2>4, <2>5
<1> QED
  BY <1>1, <1>4, <1>5 DEF Orderly

-----------------------------------------------------------------------------
(* A process ends. *)

LEMMA EndedIs ==
  ASSUME NEW s \in Snaps, NEW t \in Snaps, NEW n \in Node, Ended(s, t, n)
  PROVE  /\ Ups(t) = Ups(s) \ {n} /\ n \in Ups(s)
         /\ \A k \in Node \ {n} : t.v[k] = s.v[k]
         /\ \A k \in Node : t.v[k].base = s.v[k].base
         /\ \A j, l \in Node : Better(t, l, j) <=> Better(s, l, j)
         /\ t.w \subseteq s.w /\ t.lives \subseteq s.lives /\ t.asks \subseteq s.asks
         /\ \A k \in Node \ {n} : /\ k \in s.w => k \in t.w
                                  /\ \A x \in Node \ {k} : /\ <<x, k>> \in s.lives => <<x, k>> \in t.lives
                                                           /\ <<x, k>> \in s.zeros => <<x, k>> \in t.zeros
                                                           /\ <<x, k>> \in s.beats => <<x, k>> \in t.beats
         /\ \A c \in t.beats : c \in s.beats \/ (c[1] = n /\ s.v[n].master)
         /\ \A c \in t.zeros : c \in s.zeros \/ c[1] = n
<1>1. n \in Ups(s) /\ (\A k \in Node \ {n} : t.v[k] = s.v[k]) /\ (\A k \in Node : t.v[k].base = s.v[k].base)
  BY DEF Ended, By, Ups
<1>2. Ups(t) = Ups(s) \ {n}
  BY <1>1 DEF Ups, Ended
<1>3. \A j, l \in Node : Better(t, l, j) <=> Better(s, l, j)
  BY <1>1 DEF Better
<1>4. t.w \subseteq s.w /\ t.lives \subseteq s.lives /\ t.asks \subseteq s.asks
  BY DEF Ended
<1>5. ASSUME NEW k \in Node \ {n}, NEW x \in Node \ {k}
      PROVE  /\ <<x, k>> \in s.lives => <<x, k>> \in t.lives
             /\ <<x, k>> \in s.zeros => <<x, k>> \in t.zeros
             /\ <<x, k>> \in s.beats => <<x, k>> \in t.beats
  <2>1. <<x, k>> \in Link
    BY DEF Link
  <2> QED
    BY <2>1 DEF Ended
<1>6. \A k \in Node \ {n} : k \in s.w => k \in t.w
  BY DEF Ended
<1>7. \A c \in From(n) : c[1] = n
  BY DEF From
<1>8. ASSUME NEW c \in t.beats PROVE c \in s.beats \/ (c[1] = n /\ s.v[n].master)
  BY <1>7, <1>8 DEF Ended
<1>9. ASSUME NEW c \in t.zeros PROVE c \in s.zeros \/ c[1] = n
  BY <1>7, <1>9 DEF Ended
<1> QED
  BY <1>1, <1>2, <1>3, <1>4, <1>5, <1>6, <1>8, <1>9

LEMMA EndedBasics ==
  ASSUME NEW s \in Snaps, NEW t \in Snaps, Orderly(s), NEW n \in Node, Ended(s, t, n)
  PROVE  Timely(t) /\ Followed(t) /\ Leaving(t) /\ Heard(t) /\ Lead(t) = Lead(s) \ {n}
<1>1. Timely(t)
  <2>1. \A k \in Ups(t) : k \in Ups(s) /\ t.v[k] = s.v[k] /\ (k \in t.w => k \in s.w)
    BY EndedIs DEF Ups
  <2> QED
    BY <2>1, EndedIs DEF Orderly, Timely
<1>2. \A a \in Node : Been(s, a) => Been(t, a)
  BY EndedIs DEF Been
<1>3. Lead(t) = Lead(s) \ {n}
  BY EndedIs DEF Lead, Ups
<1>4. Followed(t)
  <2>1. ASSUME NEW c \in t.beats PROVE Been(t, c[1])
    <3>1. c \in s.beats \/ c[1] = n
      BY EndedIs, <2>1
    <3>2. c[1] \in Node
      BY <2>1, LinksIn, NoSelf
    <3>3. n \notin Ups(t)
      BY EndedIs
    <3> QED
      BY <1>2, <3>1, <3>2, <3>3 DEF Orderly, Followed, Been
  <2>2. ASSUME NEW c \in t.asks PROVE Been(t, c[2])
    BY <1>2, <2>2, EndedIs, LinksIn, NoSelf DEF Orderly, Followed
  <2>3. ASSUME NEW k \in Ups(t), t.v[k].addr # 0
        PROVE  Been(t, t.v[k].addr) /\ t.v[k].addr # k /\ <<t.v[k].addr, k>> \notin t.lives
    <3>1. k \in Node /\ k \in Ups(s) /\ t.v[k] = s.v[k]
      BY EndedIs DEF Ups
    <3>2. s.v[k].addr \in Node
      BY <2>3, <3>1, SnapIs
    <3> QED
      BY <1>2, <2>3, <3>1, <3>2, EndedIs DEF Orderly, Followed
  <2>4. Begun(t) => Begun(s)
    <3>1. t.beats # {} => s.beats # {} \/ Lead(s) # {}
      BY EndedIs DEF Lead
    <3>2. \A k \in Ups(t) : k \in Ups(s) /\ t.v[k] = s.v[k]
      BY EndedIs DEF Ups
    <3> QED
      BY <1>3, <3>1, <3>2 DEF Begun
  <2>5. Begun(t) => \A k \in Ups(t) : HbTimeout =< t.v[k].upAge
    <3>1. \A k \in Ups(t) : k \in Ups(s) /\ t.v[k] = s.v[k]
      BY EndedIs DEF Ups
    <3> QED
      BY <2>4, <3>1 DEF Orderly, Followed
  <2> QED
    BY <2>1, <2>2, <2>3, <2>5 DEF Followed
<1>5. Leaving(t)
  <2> SUFFICES ASSUME NEW c \in t.zeros, c[1] \in Ups(t) PROVE t.v[c[1]].quit /\ ~t.v[c[1]].master
    BY DEF Leaving
  <2>1. c[1] \in Node /\ c[1] # n /\ c[1] \in Ups(s) /\ c \in s.zeros
    BY EndedIs, LinksIn, NoSelf
  <2>2. t.v[c[1]] = s.v[c[1]]
    BY <2>1, EndedIs
  <2> QED
    BY <2>1, <2>2 DEF Orderly, Leaving
<1>6. Heard(t)
  <2>1. \A k \in Node : Runner(t, k) => k # n /\ Runner(s, k) /\ t.v[k] = s.v[k]
    BY EndedIs DEF Runner
  <2> SUFFICES ASSUME NEW j \in Ups(t), NEW k \in Node \ {j}
               PROVE  LET e == t.v[j].peer[k]
                      IN  /\ e.base \in {0, t.v[k].base}
                          /\ ~e.known => e.base = 0
                          /\ e.known /\ e.base = 0 => ~Runner(t, k)
                          /\ Runner(t, k) => /\ 1 =< t.v[k].upAge => e.base # 0 /\ e.age =< 1
                                             /\ k \in t.w => <<k, j>> \in t.lives \/ (e.base # 0 /\ e.age = 0)
    BY DEF Heard
  <2>3. j \in Node \ {n} /\ j \in Ups(s) /\ t.v[j] = s.v[j] /\ t.v[k].base = s.v[k].base /\ t.w \subseteq s.w
    BY EndedIs DEF Ups
  <2>4. <<k, j>> \in s.lives => <<k, j>> \in t.lives
    BY <2>3, EndedIs
  <2>5. LET e == s.v[j].peer[k]
        IN  /\ e.base \in {0, s.v[k].base}
            /\ ~e.known => e.base = 0
            /\ e.known /\ e.base = 0 => ~Runner(s, k)
            /\ Runner(s, k) => /\ 1 =< s.v[k].upAge => e.base # 0 /\ e.age =< 1
                               /\ k \in s.w => <<k, j>> \in s.lives \/ (e.base # 0 /\ e.age = 0)
    BY <2>3 DEF Orderly, Heard
  <2> QED
    BY <2>1, <2>3, <2>4, <2>5
<1> QED
  BY <1>1, <1>3, <1>4, <1>5, <1>6

LEMMA EndedOne ==
  ASSUME NEW s \in Snaps, NEW t \in Snaps, Orderly(s), NEW n \in Node, Ended(s, t, n)
  PROVE  One(t)
<1> SUFFICES ASSUME NEW m \in Lead(t) PROVE (\A k \in Node : <<m, k>> \notin t.zeros) /\ \A k \in Ups(t) \ {m} : Under(t, m, k)
  BY DEF One
<1>1. m \in Lead(s) /\ m # n /\ m \in Node
  BY EndedBasics DEF Lead, Ups
<1>2. ~s.v[n].master
  <2>1. n \in Ups(s)
    BY EndedIs
  <2> QED
    BY <1>1, <2>1, Two DEF Orderly, Lead
<1>3. ASSUME NEW k \in Node PROVE <<m, k>> \notin t.zeros
  <2>1. <<m, k>> \notin s.zeros
    BY <1>1 DEF Orderly, One
  <2> QED
    BY <1>1, <2>1, EndedIs
<1>4. ASSUME NEW k \in Ups(t) \ {m} PROVE Under(t, m, k)
  <2>1. k \in Node \ {n} /\ k \in Ups(s) /\ k # m /\ t.v[k] = s.v[k] /\ Under(s, m, k)
    BY <1>1, EndedIs DEF Orderly, One, Ups
  <2>2. m \in t.w => m \in s.w
    BY EndedIs
  <2>3. /\ <<m, k>> \in s.lives => <<m, k>> \in t.lives
        /\ <<m, k>> \in s.beats => <<m, k>> \in t.beats
    BY <1>1, <2>1, EndedIs
  <2>4. Due(s, m, k) => Due(t, m, k)
    BY <2>2, <2>3 DEF Due
  <2>5. <<s.v[k].addr, k>> \in s.zeros => <<s.v[k].addr, k>> \in t.zeros
    BY <2>1, LinksIn, IsLink, EndedIs
  <2>6. \A x \in Node \ {m} : <<x, k>> \in t.beats => <<x, k>> \in s.beats
    BY <1>2, EndedIs
  <2>7. Better(t, m, k) <=> Better(s, m, k)
    BY <1>1, <2>1, EndedIs
  <2> QED
    BY <2>1, <2>3, <2>4, <2>5, <2>6, <2>7, UnderSame
<1> QED
  BY <1>3, <1>4

\* A master that dies without a word leaves a corpse; no other corpse is new.
LEMMA EndedMourned ==
  ASSUME NEW s \in Snaps, NEW t \in Snaps, Orderly(s), NEW n \in Node, Ended(s, t, n)
  PROVE  Mourned(t)
<1> SUFFICES ASSUME NEW o \in Node, Corpse(t, o) PROVE Lead(t) = {} /\ \A j \in Ups(t) : Waits(t, o, j)
  BY DEF Mourned
<1>1. PICK k \in Ups(t) : ((t.v[k].addr = o /\ t.v[k].hbAge = 0) \/ <<o, k>> \in t.beats) /\ <<o, k>> \notin t.zeros
  BY DEF Corpse
<1>2. k \in Node \ {n} /\ k \in Ups(s) /\ t.v[k] = s.v[k] /\ n \in Ups(s)
  BY EndedIs DEF Ups
<1>3. o # k
  BY <1>2 DEF Corpse
<1>4. <<o, k>> \notin s.zeros
  BY <1>1, <1>2, <1>3, EndedIs
<1>5. o # n => Corpse(s, o)
  <2>1. o # n => o \notin Ups(s)
    BY EndedIs DEF Corpse
  <2>2. o # n => ((s.v[k].addr = o /\ s.v[k].hbAge = 0) \/ <<o, k>> \in s.beats)
    BY <1>1, <1>2, EndedIs
  <2> QED
    BY <1>2, <1>4, <2>1, <2>2 DEF Corpse
<1>6. ASSUME NEW j \in Ups(t)
      PROVE  /\ j \in Node \ {n} /\ j \in Ups(s) /\ t.v[j] = s.v[j] /\ (Defers(t, j, o) <=> Defers(s, j, o))
  <2>1. j \in Node \ {n} /\ j \in Ups(s) /\ t.v[j] = s.v[j] /\ (Better(t, o, j) <=> Better(s, o, j))
    BY EndedIs DEF Ups
  <2> QED
    BY <2>1, DefersSame
<1>7. CASE s.v[n].master
  <2>1. n \in Lead(s) /\ Lead(t) = {}
    BY <1>2, <1>7, EndedBasics, Two DEF Orderly, Lead
  <2>2. o = n
    BY <1>5, <2>1 DEF Orderly, Mourned
  <2>3. t.beats \subseteq s.beats /\ t.zeros \subseteq s.zeros
    BY <1>1, <1>2, <2>2, FromIs DEF Ended
  <2>4. ASSUME NEW j \in Ups(t) PROVE Waits(t, o, j)
    <3>1. j \in Node \ {n} /\ j \in Ups(s) /\ t.v[j] = s.v[j] /\ (Defers(t, j, n) <=> Defers(s, j, n))
      BY <1>6, <2>2
    <3>2. Under(s, n, j) /\ <<n, j>> \notin s.zeros
      BY <2>1, <3>1 DEF Orderly, One
    <3>3. <<0, j>> \notin t.zeros
      BY LinksIn, IsLink, NodeIs
    <3> QED
      BY <2>2, <2>3, <3>1, <3>2, <3>3 DEF Waits, Under, Soon
  <2> QED
    BY <2>1, <2>4
<1>8. CASE ~s.v[n].master
  <2>1. ~Been(s, n)
    BY <1>2, <1>8 DEF Been
  <2>2. o # n
    BY <1>1, <1>2, <1>8, <2>1, EndedIs, NodeIs DEF Orderly, Followed
  <2>3. Lead(t) = {} /\ \A j \in Ups(s) : Waits(s, o, j)
    BY <1>5, <2>2, EndedBasics DEF Orderly, Mourned
  <2>4. ASSUME NEW j \in Ups(t) PROVE Waits(t, o, j)
    <3>1. j \in Node \ {n} /\ j \in Ups(s) /\ t.v[j] = s.v[j] /\ (Defers(t, j, o) <=> Defers(s, j, o)) /\ Waits(s, o, j)
      BY <1>6, <2>3
    <3>2. s.v[j].addr # n
      BY <2>1, <3>1, NodeIs DEF Orderly, Followed
    <3>3. <<s.v[j].addr, j>> \in t.zeros => <<s.v[j].addr, j>> \in s.zeros
      BY <3>2, EndedIs
    <3>4. <<o, j>> \in t.zeros => <<o, j>> \in s.zeros
      BY <2>2, EndedIs
    <3>5. t.beats \subseteq s.beats
      BY <1>8, EndedIs
    <3> QED
      BY <3>1, <3>3, <3>4, <3>5 DEF Waits
  <2> QED
    BY <2>3, <2>4
<1> QED
  BY <1>7, <1>8

LEMMA EndedOk ==
  ASSUME NEW s \in Snaps, NEW t \in Snaps, Orderly(s), NEW n \in Node, Ended(s, t, n)
  PROVE  Orderly(t)
BY EndedBasics, EndedOne, EndedMourned DEF Orderly

-----------------------------------------------------------------------------
(* A request to end, a packet that changes no process, and the next round. *)

LEMMA QuittingOk ==
  ASSUME NEW s \in Snaps, NEW t \in Snaps, Orderly(s), NEW n \in Node, Quitting(s, t, n)
  PROVE  Orderly(t)
<1>1. /\ n \in Ups(s) /\ t.v[n].quit
      /\ \A k \in Node \ {n} : t.v[k] = s.v[k]
  BY DEF Quitting, By, Ups
<1>2. \A k \in Node : /\ t.v[k].base = s.v[k].base /\ t.v[k].peer = s.v[k].peer
                      /\ t.v[k].hbAge = s.v[k].hbAge /\ t.v[k].addr = s.v[k].addr /\ t.v[k].master = s.v[k].master
  <2>1. /\ t.v[n].base = s.v[n].base /\ t.v[n].peer = s.v[n].peer
        /\ t.v[n].hbAge = s.v[n].hbAge /\ t.v[n].addr = s.v[n].addr /\ t.v[n].master = s.v[n].master
    BY DEF Quitting, By, Same
  <2> QED
    BY <1>1, <2>1
<1>3. Ups(t) = Ups(s) /\ \A k \in Ups(s) : t.v[k].upAge = s.v[k].upAge
  <2>1. t.v[n].up /\ s.v[n].up /\ t.v[n].upAge = s.v[n].upAge
    BY DEF Quitting
  <2> QED
    BY <1>1, <2>1 DEF Ups
<1>4. t.beats = s.beats /\ t.lives = s.lives /\ t.asks = s.asks /\ t.w \subseteq s.w
  BY DEF Quitting
<1>5. /\ s.zeros \subseteq t.zeros
      /\ \A c \in t.zeros : c \in s.zeros \/ (c[1] = n /\ ~s.v[n].master)
  BY DEF Quitting, From
<1>6. Lead(t) = Lead(s) /\ \A j, l \in Node : Better(t, l, j) <=> Better(s, l, j)
  BY <1>2, <1>3 DEF Lead, Ups, Better
<1>7. \A k \in Node : Runner(t, k) => k # n /\ Runner(s, k) /\ t.v[k] = s.v[k]
  BY <1>1, <1>3 DEF Runner
<1>8. Timely(t)
  <2>1. \A k \in Ups(t) : k \in Node /\ k \in Ups(s)
    BY <1>3 DEF Ups
  <2> QED
    BY <1>2, <1>3, <1>4, <2>1 DEF Orderly, Timely
<1>9. Followed(t)
  <2>1. \A a \in Node : Been(s, a) => Been(t, a)
    BY <1>2, <1>3 DEF Been
  <2>2. \A k \in Ups(s) : k \in Node /\ (s.v[k].addr # 0 => s.v[k].addr \in Node)
    BY SnapIs DEF Ups
  <2>3. Begun(t) <=> Begun(s)
    BY <1>2, <1>3, <1>4, <1>6, <2>2 DEF Begun
  <2>4. \A c \in s.beats \cup s.asks : c[1] \in Node /\ c[2] \in Node
    BY LinksIn, NoSelf
  <2> QED
    BY <1>2, <1>3, <1>4, <2>1, <2>2, <2>3, <2>4 DEF Orderly, Followed
<1>10. Leaving(t)
  <2> SUFFICES ASSUME NEW c \in t.zeros, c[1] \in Ups(t) PROVE t.v[c[1]].quit /\ ~t.v[c[1]].master
    BY DEF Leaving
  <2>1. CASE c[1] = n
    <3>1. ~s.v[n].master
      BY <1>1, <1>5, <2>1 DEF Orderly, Leaving
    <3> QED
      BY <1>1, <1>2, <2>1, <3>1
  <2>2. CASE c[1] # n
    <3>1. c \in s.zeros /\ c[1] \in Ups(s) /\ c[1] \in Node
      BY <1>3, <1>5, <2>2 DEF Ups
    <3> QED
      BY <1>1, <2>2, <3>1 DEF Orderly, Leaving
  <2> QED
    BY <2>1, <2>2
<1>11. Heard(t)
  <2> SUFFICES ASSUME NEW j \in Ups(t), NEW k \in Node \ {j}
               PROVE  LET e == t.v[j].peer[k]
                      IN  /\ e.base \in {0, t.v[k].base}
                          /\ ~e.known => e.base = 0
                          /\ e.known /\ e.base = 0 => ~Runner(t, k)
                          /\ Runner(t, k) => /\ 1 =< t.v[k].upAge => e.base # 0 /\ e.age =< 1
                                             /\ k \in t.w => <<k, j>> \in t.lives \/ (e.base # 0 /\ e.age = 0)
    BY DEF Heard
  <2>1. j \in Node /\ j \in Ups(s) /\ t.v[j].peer = s.v[j].peer /\ t.v[k].base = s.v[k].base
    BY <1>2, <1>3 DEF Ups
  <2>2. LET e == s.v[j].peer[k]
        IN  /\ e.base \in {0, s.v[k].base}
            /\ ~e.known => e.base = 0
            /\ e.known /\ e.base = 0 => ~Runner(s, k)
            /\ Runner(s, k) => /\ 1 =< s.v[k].upAge => e.base # 0 /\ e.age =< 1
                               /\ k \in s.w => <<k, j>> \in s.lives \/ (e.base # 0 /\ e.age = 0)
    BY <2>1 DEF Orderly, Heard
  <2> QED
    BY <1>4, <1>7, <2>1, <2>2
<1>12. One(t)
  <2> SUFFICES ASSUME NEW m \in Lead(t)
               PROVE  (\A k \in Node : <<m, k>> \notin t.zeros) /\ \A k \in Ups(t) \ {m} : Under(t, m, k)
    BY DEF One
  <2>1. m \in Lead(s) /\ m \in Node /\ s.v[m].master
    BY <1>6 DEF Lead, Ups
  <2>2. ASSUME NEW k \in Node PROVE <<m, k>> \notin t.zeros
    BY <1>5, <2>1, <2>2 DEF Orderly, One
  <2>3. ASSUME NEW k \in Ups(t) \ {m} PROVE Under(t, m, k)
    <3>1. k \in Node /\ k \in Ups(s) /\ Under(s, m, k)
      BY <1>3, <2>1 DEF Orderly, One, Ups
    <3>2. CASE k = n
      BY <1>1, <1>2, <3>1, <3>2 DEF Under
    <3>3. CASE k # n
      <4>1. t.v[k] = s.v[k] /\ (Due(s, m, k) => Due(t, m, k)) /\ (Better(t, m, k) <=> Better(s, m, k))
        BY <1>1, <1>4, <1>6, <2>1, <3>1, <3>3 DEF Due
      <4> QED
        BY <1>4, <1>5, <3>1, <4>1, UnderSame
    <3> QED
      BY <3>2, <3>3
  <2> QED
    BY <2>2, <2>3
<1>13. Mourned(t)
  <2> SUFFICES ASSUME NEW o \in Node, Corpse(t, o) PROVE Lead(t) = {} /\ \A j \in Ups(t) : Waits(t, o, j)
    BY DEF Mourned
  <2>1. Corpse(s, o) /\ o # n
    BY <1>1, <1>2, <1>3, <1>4, <1>5 DEF Corpse, Ups
  <2>2. Lead(s) = {} /\ ~s.v[n].master
    BY <1>1, <2>1 DEF Orderly, Mourned, Lead
  <2>3. ASSUME NEW j \in Ups(t) PROVE Waits(t, o, j)
    <3>1. j \in Node /\ j \in Ups(s) /\ Waits(s, o, j)
      BY <1>3, <2>1 DEF Orderly, Mourned, Ups
    <3>2. Defers(t, j, o) <=> Defers(s, j, o)
      BY <1>2, <1>6, <3>1, DefersSame
    <3>3. s.v[j].addr # n
      BY <1>1, <2>2, <3>1, NodeIs DEF Orderly, Followed, Been
    <3>4. /\ <<o, j>> \in t.zeros => <<o, j>> \in s.zeros
          /\ <<s.v[j].addr, j>> \in t.zeros => <<s.v[j].addr, j>> \in s.zeros
      BY <1>5, <2>1, <3>3
    <3>5. s.v[j].quit => t.v[j].quit
      BY <1>1, <3>1
    <3> QED
      BY <1>2, <1>4, <3>1, <3>2, <3>4, <3>5 DEF Waits
  <2> QED
    BY <1>6, <2>2, <2>3
<1> QED
  BY <1>8, <1>9, <1>10, <1>11, <1>12, <1>13 DEF Orderly

LEMMA PassedOk ==
  ASSUME NEW s \in Snaps, NEW t \in Snaps, Orderly(s), NEW n \in Node, NEW x \in Node, Passed(s, t, x, n)
  PROVE  Orderly(t)
<1>1. /\ t.v = s.v /\ t.w = s.w /\ t.zeros = s.zeros /\ t.lives = s.lives /\ t.asks \subseteq s.asks
      /\ n \in Ups(s) /\ Ups(t) = Ups(s) /\ Lead(t) = Lead(s)
  BY DEF Passed, Ups, Lead
<1>2. \A c \in t.beats : c \in s.beats \/ (c[1] = n /\ n \in Lead(s))
  BY <1>1 DEF Passed, Lead
<1>3. \A k \in Node : /\ Runner(t, k) <=> Runner(s, k)
                      /\ \A m : Better(t, m, k) <=> Better(s, m, k)
                      /\ \A m : Defers(t, k, m) <=> Defers(s, k, m)
                      /\ Been(t, k) <=> Been(s, k)
  BY <1>1 DEF Runner, Better, Defers, Been
<1>4. Timely(t) /\ Leaving(t)
  BY <1>1 DEF Orderly, Timely, Leaving
<1>5. Followed(t)
  <2>1. \A c \in t.beats : Been(t, c[1])
    <3>1. \A c \in t.beats : c[1] \in Node
      BY LinksIn, NoSelf
    <3> QED
      BY <1>1, <1>2, <1>3, <3>1 DEF Orderly, Followed, Been, Lead
  <2>2. \A c \in t.asks : Been(t, c[2])
    BY <1>1, <1>3, LinksIn, NoSelf DEF Orderly, Followed
  <2>3. Begun(t) => Begun(s)
    BY <1>1, <1>2 DEF Begun
  <2>4. \A k \in Ups(s) : s.v[k].addr # 0 => Been(t, s.v[k].addr) /\ s.v[k].addr # k /\ <<s.v[k].addr, k>> \notin t.lives
    BY <1>1 DEF Orderly, Followed, Been
  <2> QED
    BY <1>1, <2>1, <2>2, <2>3, <2>4 DEF Orderly, Followed
<1>6. Heard(t)
  <2> SUFFICES ASSUME NEW j \in Ups(t), NEW k \in Node \ {j}
               PROVE  LET e == t.v[j].peer[k]
                      IN  /\ e.base \in {0, t.v[k].base}
                          /\ ~e.known => e.base = 0
                          /\ e.known /\ e.base = 0 => ~Runner(t, k)
                          /\ Runner(t, k) => /\ 1 =< t.v[k].upAge => e.base # 0 /\ e.age =< 1
                                             /\ k \in t.w => <<k, j>> \in t.lives \/ (e.base # 0 /\ e.age = 0)
    BY DEF Heard
  <2>1. j \in Ups(s) /\ (Runner(t, k) <=> Runner(s, k))
    BY <1>1, <1>3
  <2>2. LET e == s.v[j].peer[k]
        IN  /\ e.base \in {0, s.v[k].base}
            /\ ~e.known => e.base = 0
            /\ e.known /\ e.base = 0 => ~Runner(s, k)
            /\ Runner(s, k) => /\ 1 =< s.v[k].upAge => e.base # 0 /\ e.age =< 1
                               /\ k \in s.w => <<k, j>> \in s.lives \/ (e.base # 0 /\ e.age = 0)
    BY <2>1 DEF Orderly, Heard
  <2> QED
    BY <1>1, <2>1, <2>2
<1>7. One(t)
  <2> SUFFICES ASSUME NEW m \in Lead(s), NEW k \in Ups(s) \ {m} PROVE Under(t, m, k)
    BY <1>1 DEF Orderly, One
  <2>1. m \in Node /\ k \in Node /\ Under(s, m, k) /\ k # m /\ ~s.v[k].master
    BY DEF Orderly, One, Lead, Ups, Under
  <2>2. \A y \in Node \ {m} : <<y, k>> \in t.beats => <<y, k>> \in s.beats
    BY <1>2, Two DEF Orderly
  <2>3. Due(s, m, k) => Due(t, m, k)
    BY <1>1, <2>1 DEF Passed, Due
  <2> QED
    BY <1>1, <1>3, <2>1, <2>2, <2>3, UnderSame
<1>8. Mourned(t)
  <2> SUFFICES ASSUME NEW o \in Node, Corpse(t, o) PROVE Lead(t) = {} /\ \A j \in Ups(t) : Waits(t, o, j)
    BY DEF Mourned
  <2>1. Corpse(s, o)
    BY <1>1, <1>2 DEF Corpse
  <2>2. Lead(s) = {} /\ \A j \in Ups(s) : Waits(s, o, j)
    BY <2>1 DEF Orderly, Mourned
  <2>3. t.beats \subseteq s.beats
    BY <1>2, <2>2
  <2>4. \A j \in Ups(s) : Defers(t, j, o) <=> Defers(s, j, o)
    BY <1>3 DEF Ups
  <2> QED
    BY <1>1, <2>2, <2>3, <2>4 DEF Waits
<1> QED
  BY <1>4, <1>5, <1>6, <1>7, <1>8 DEF Orderly

LEMMA Grows ==
  ASSUME NEW a \in Nat, a =< HbTimeout + 1
  PROVE  /\ Older(a, HbTimeout + 1) >= 1 /\ Older(a, HbTimeout + 1) =< a + 1 /\ a =< Older(a, HbTimeout + 1)
         /\ a = 0 => Older(a, HbTimeout + 1) = 1
         /\ \A b \in Nat : a =< b => Older(a, HbTimeout + 1) =< Older(b, HbTimeout + 1)
  BY Sizes DEF Older

LEMMA TickedOk ==
  ASSUME NEW s \in Snaps, NEW t \in Snaps, Orderly(s), Ticked(s, t)
  PROVE  Orderly(t)
<1>1. \A k \in Node : /\ t.v[k].up <=> s.v[k].up
                      /\ t.v[k].base = s.v[k].base
  <2>1. \A k \in Ups(s) : t.v[k].up /\ s.v[k].up /\ t.v[k].base = s.v[k].base
    BY DEF Ticked, Ups
  <2>2. \A k \in Node \ Ups(s) : t.v[k] = s.v[k]
    BY DEF Ticked
  <2> QED
    BY <2>1, <2>2
<1>2. \A k \in Ups(s) : LET p == s.v[k]
                            q == t.v[k]
                        IN  /\ q.master = p.master /\ q.quit = p.quit /\ q.addr = p.addr
                            /\ q.hbAge = Older(p.hbAge, HbTimeout + 1) /\ q.upAge = Older(p.upAge, HbTimeout + 1)
                            /\ \A m \in Node : /\ q.peer[m].base = p.peer[m].base
                                               /\ q.peer[m].known = p.peer[m].known
                                               /\ q.peer[m].age = Older(p.peer[m].age, HbTimeout + 1)
  BY DEF Ticked
<1>3. /\ Ups(t) = Ups(s) /\ Lead(t) = Lead(s)
      /\ \A j, l \in Node : Better(t, l, j) <=> Better(s, l, j)
  BY <1>1, <1>2 DEF Ups, Lead, Better
<1>4. /\ t.w = {} /\ t.beats = {} /\ t.zeros = {} /\ t.lives = {} /\ t.asks = {}
      /\ Ups(s) \subseteq s.w
      /\ \A k \in Ups(s) : \A x : <<x, k>> \notin s.beats /\ <<x, k>> \notin s.zeros /\ <<x, k>> \notin s.lives
  BY DEF Ticked
<1>5. \A k \in Ups(s) : k \in Node
  BY DEF Ups
<1>6. \A k \in Ups(s) : /\ s.v[k].upAge \in Nat /\ s.v[k].upAge =< HbTimeout + 1
                        /\ s.v[k].hbAge \in Nat /\ s.v[k].hbAge =< HbTimeout + 1
                        /\ \A m \in Node : s.v[k].peer[m].age \in Nat /\ s.v[k].peer[m].age =< HbTimeout + 1
  BY <1>5, SnapIs
<1>7. Timely(t)
  <2>1. ASSUME NEW k \in Ups(s)
        PROVE  /\ t.v[k].hbAge =< t.v[k].upAge
               /\ t.v[k].master => t.v[k].addr = 0
               /\ ~t.v[k].master => t.v[k].hbAge =< HbTimeout
    <3>1. t.v[k].hbAge =< t.v[k].upAge
      BY <1>2, <1>6, Grows DEF Orderly, Timely
    <3>2. t.v[k].master => t.v[k].addr = 0
      BY <1>2 DEF Orderly, Timely
    <3>3. ASSUME ~t.v[k].master PROVE t.v[k].hbAge =< HbTimeout
      <4>1. s.v[k].hbAge < HbTimeout
        BY <1>2, <1>4, <3>3 DEF Orderly, Timely
      <4>2. t.v[k].hbAge =< s.v[k].hbAge + 1 /\ t.v[k].hbAge \in Nat
        BY <1>2, <1>3, <1>5, <1>6, Grows, SnapIs
      <4> QED
        BY <1>6, <4>1, <4>2, Sizes
    <3> QED
      BY <3>1, <3>2, <3>3
  <2>2. \A k, m \in Ups(s) : t.v[k].upAge = t.v[m].upAge
    BY <1>2 DEF Orderly, Timely
  <2>3. \A k \in Node : t.v[k].base # 0
    BY <1>1 DEF Orderly, Timely
  <2> QED
    BY <1>3, <1>4, <2>1, <2>2, <2>3 DEF Timely
<1>8. Followed(t)
  <2>1. \A a : Been(s, a) => Been(t, a)
    BY <1>2, <1>3 DEF Been
  <2>2. ASSUME NEW k \in Ups(t), t.v[k].addr # 0
        PROVE  Been(t, t.v[k].addr) /\ t.v[k].addr # k /\ <<t.v[k].addr, k>> \notin t.lives
    BY <1>2, <1>3, <1>4, <2>1, <2>2 DEF Orderly, Followed
  <2>3. ASSUME Begun(t), NEW k \in Ups(t) PROVE HbTimeout =< t.v[k].upAge
    <3>1. Begun(s)
      BY <1>2, <1>3, <1>4, <2>3 DEF Begun
    <3>2. HbTimeout =< s.v[k].upAge /\ k \in Ups(s)
      BY <1>3, <3>1 DEF Orderly, Followed
    <3>3. s.v[k].upAge =< t.v[k].upAge /\ t.v[k].upAge \in Nat
      BY <1>2, <1>5, <1>6, <3>2, Grows, SnapIs
    <3> QED
      BY <1>6, <3>2, <3>3, Sizes
  <2> QED
    BY <1>4, <2>2, <2>3 DEF Followed
<1>9. Leaving(t)
  BY <1>4 DEF Leaving
<1>10. Heard(t)
  <2> SUFFICES ASSUME NEW j \in Ups(t), NEW k \in Node \ {j}
               PROVE  LET e == t.v[j].peer[k]
                      IN  /\ e.base \in {0, t.v[k].base}
                          /\ ~e.known => e.base = 0
                          /\ e.known /\ e.base = 0 => ~Runner(t, k)
                          /\ Runner(t, k) => (1 =< t.v[k].upAge => e.base # 0 /\ e.age =< 1)
    BY <1>4 DEF Heard
  <2>1. j \in Node /\ j \in Ups(s) /\ k \in Node
    BY <1>3, <1>5
  <2>2. LET e == s.v[j].peer[k]
        IN  /\ e.base \in {0, s.v[k].base}
            /\ ~e.known => e.base = 0
            /\ e.known /\ e.base = 0 => ~Runner(s, k)
            /\ Runner(s, k) /\ k \in s.w => <<k, j>> \in s.lives \/ (e.base # 0 /\ e.age = 0)
    BY <2>1 DEF Orderly, Heard
  <2>3. Runner(t, k) <=> Runner(s, k)
    BY <1>2, <1>3 DEF Runner
  <2>4. Runner(s, k) => k \in s.w /\ <<k, j>> \notin s.lives
    BY <1>4, <2>1 DEF Runner
  <2>5. s.v[j].peer[k].age = 0 => t.v[j].peer[k].age = 1
    BY <1>2, <1>6, <2>1, Grows
  <2>6. t.v[j].peer[k].base = s.v[j].peer[k].base /\ t.v[j].peer[k].known = s.v[j].peer[k].known
    BY <1>2, <2>1
  <2> QED
    BY <1>1, <2>1, <2>2, <2>3, <2>4, <2>5, <2>6
<1>11. One(t)
  <2> SUFFICES ASSUME NEW m \in Lead(s), NEW k \in Ups(s) \ {m} PROVE Under(t, m, k)
    BY <1>3, <1>4 DEF One
  <2>1. m \in Node /\ k \in Node /\ Under(s, m, k) /\ m \in s.w /\ m \in Ups(s)
    BY <1>4 DEF Orderly, One, Lead, Ups
  <2>2. ~Due(s, m, k) /\ Due(t, m, k)
    BY <1>4, <2>1 DEF Due
  <2>3. ~t.v[k].master /\ t.v[k].quit = s.v[k].quit /\ t.v[k].addr = s.v[k].addr
    BY <1>2, <2>1 DEF Under
  <2>4. Soon(s, m, k) => Soon(t, m, k)
    <3>1. ASSUME Soon(s, m, k) PROVE Soon(t, m, k)
      <4>1. s.v[k].hbAge = 0
        BY <1>6, <2>2, <3>1 DEF Soon
      <4>2. t.v[k].hbAge = 1
        BY <1>2, <1>6, <4>1, Grows
      <4> QED
        BY <2>2, <4>2 DEF Soon
    <3> QED
      BY <3>1
  <2>5. ASSUME Defers(s, k, m), s.v[k].peer[m].age < HbTimeout PROVE Defers(t, k, m)
    <3>1. t.v[k].peer[m].age =< s.v[k].peer[m].age + 1 /\ t.v[k].peer[m].age \in Nat
      BY <1>2, <1>6, <2>1, Grows, SnapIs
    <3>2. t.v[k].peer[m].age =< HbTimeout
      BY <1>6, <2>1, <2>5, <3>1, Sizes
    <3> QED
      BY <1>2, <1>3, <2>1, <2>5, <3>2 DEF Defers
  <2>6. CASE s.v[k].quit
    BY <2>3, <2>6 DEF Under
  <2>7. CASE ~s.v[k].quit /\ s.v[k].addr = m
    BY <1>4, <2>1, <2>3, <2>4, <2>7, NodeIs DEF Under
  <2>8. CASE ~s.v[k].quit /\ s.v[k].addr = 0
    <3>1. Soon(t, m, k) \/ Defers(t, k, m)
      BY <2>1, <2>2, <2>4, <2>5, <2>8, NodeIs DEF Under
    <3> QED
      BY <1>4, <2>2, <2>3, <2>8, <3>1 DEF Under
  <2>9. CASE ~s.v[k].quit /\ s.v[k].addr \notin {0, m}
    <3>1. Defers(s, k, m) /\ s.v[k].peer[m].age =< s.v[k].hbAge
      BY <1>4, <2>1, <2>9 DEF Under
    <3>2. s.v[k].hbAge < HbTimeout /\ ~s.v[k].master
      BY <1>4, <2>1 DEF Orderly, Timely, Under
    <3>3. s.v[k].peer[m].age < HbTimeout
      BY <1>6, <2>1, <3>1, <3>2, Sizes
    <3>4. Defers(t, k, m)
      BY <2>5, <3>1, <3>3
    <3>5. t.v[k].peer[m].age =< t.v[k].hbAge
      BY <1>2, <1>6, <2>1, <3>1, Grows
    <3> QED
      BY <1>4, <2>3, <2>9, <3>4, <3>5 DEF Under
  <2> QED
    BY <2>6, <2>7, <2>8, <2>9
<1>12. Mourned(t)
  <2>1. \A k \in Ups(t) : t.v[k].hbAge # 0
    BY <1>2, <1>3, <1>6, Grows
  <2> QED
    BY <1>4, <2>1 DEF Mourned, Corpse
<1> QED
  BY <1>7, <1>8, <1>9, <1>10, <1>11, <1>12 DEF Orderly

-----------------------------------------------------------------------------
(* From states to snapshots. *)

\* What a packet from a process that started at b says.
Kind(b, q) ==
  CASE q.type = "ping" /\ q.base = 0 -> "zero"
    [] q.type = "ping" /\ q.base = b /\ b # 0 -> "live"
    [] q.type = "beat" -> "beat"
    [] q.type = "lastseen" -> "ask"
    [] q.type = "kill" -> "kill"
    [] OTHER -> "odd"

In(s, b, k)       == \E i \in DOMAIN s : Kind(b, s[i]) = k
After(s, b, k, l) == \E i, j \in DOMAIN s : i < j /\ Kind(b, s[i]) = k /\ Kind(b, s[j]) = l

\* A process never says that it is there after a heartbeat, nor sends one after it says that it goes.
Clean(s, b) == ~In(s, b, "odd") /\ ~After(s, b, "beat", "live") /\ ~After(s, b, "zero", "beat")

Has(w, v, k)   == {c \in Link : In(w[c], v[c[1]].base, k)}
Straight(w, v) == \A c \in Link : Clean(w[c], v[c[1]].base)

Snap(v, w, o) == [v |-> v, w |-> o, beats |-> Has(w, v, "beat"), zeros |-> Has(w, v, "zero"),
                  lives |-> Has(w, v, "live"), asks |-> Has(w, v, "ask")]
Now  == Snap(proc, net, woke)
Calm == Typed /\ ~wild /\ Straight(net, proc) /\ Orderly(Now)

LEMMA Kinds ==
  ASSUME NEW b, b # 0
  PROVE  /\ \A u : Kind(b, Ping(b, u)) = "live" /\ Kind(b, Ping(0, u)) = "zero"
         /\ \A h : Kind(b, Beat(h)) = "beat"
         /\ \A q : Kind(b, LastSeen(q)) = "ask" /\ Kind(b, Kill(q)) = "kill"
  BY DEF Kind, Ping, Beat, LastSeen, Kill

LEMMA KindIs ==
  ASSUME NEW b, NEW q, Kind(b, q) # "odd"
  PROVE  /\ q.type = "ping" => (q.base = 0 /\ Kind(b, q) = "zero") \/ (q.base = b /\ b # 0 /\ Kind(b, q) = "live")
         /\ q.type = "beat" => Kind(b, q) = "beat"
         /\ q.type = "lastseen" => Kind(b, q) = "ask"
         /\ q.type = "kill" => Kind(b, q) = "kill"
         /\ q.type # "master"
  BY DEF Kind

LEMMA Short ==
  ASSUME NEW b
  PROVE  /\ \A k : ~In(<<>>, b, k)
         /\ \A q, k : In(<<q>>, b, k) <=> Kind(b, q) = k
         /\ Clean(<<>>, b)
         /\ \A q : Kind(b, q) # "odd" => Clean(<<q>>, b)
<1>1. DOMAIN <<>> = {}
  OBVIOUS
<1>2. \A k : ~In(<<>>, b, k)
  BY <1>1 DEF In
<1>3. \A q : DOMAIN <<q>> = {1} /\ <<q>>[1] = q
  OBVIOUS
<1>4. \A q, k : In(<<q>>, b, k) <=> Kind(b, q) = k
  BY <1>3 DEF In
<1>5. \A k, l : ~After(<<>>, b, k, l)
  BY <1>1 DEF After
<1>6. \A q, k, l : ~After(<<q>>, b, k, l)
  BY <1>3 DEF After
<1> QED
  BY <1>2, <1>4, <1>5, <1>6 DEF Clean

LEMMA Joined ==
  ASSUME NEW s \in Seq(Packet), NEW u \in Seq(Packet), NEW r, r = s \o u, NEW b
  PROVE  /\ \A k : In(r, b, k) <=> In(s, b, k) \/ In(u, b, k)
         /\ /\ Clean(s, b) /\ Clean(u, b)
            /\ In(s, b, "beat") => ~In(u, b, "live")
            /\ In(s, b, "zero") => ~In(u, b, "beat")
            => Clean(r, b)
<1> DEFINE D == DOMAIN s
           E == DOMAIN u
<1>1. /\ Len(s) \in Nat /\ Len(u) \in Nat /\ D = 1 .. Len(s) /\ E = 1 .. Len(u)
      /\ r \in Seq(Packet) /\ DOMAIN r = 1 .. Len(s) + Len(u)
      /\ \A i \in 1 .. Len(s) + Len(u) : r[i] = IF i =< Len(s) THEN s[i] ELSE u[i - Len(s)]
  BY ConcatProperties
<1>2. \A i \in D : i \in DOMAIN r /\ r[i] = s[i]
  BY <1>1
<1>3. \A i \in E : i + Len(s) \in DOMAIN r /\ r[i + Len(s)] = u[i]
  BY <1>1
<1>4. \A i \in DOMAIN r : (i \in D /\ r[i] = s[i]) \/ (i \notin D /\ i - Len(s) \in E /\ r[i] = u[i - Len(s)])
  BY <1>1
<1>5. ASSUME NEW k PROVE In(r, b, k) <=> In(s, b, k) \/ In(u, b, k)
  BY <1>2, <1>3, <1>4 DEF In
<1>6. ASSUME NEW k, NEW l, After(r, b, k, l)
      PROVE  After(s, b, k, l) \/ After(u, b, k, l) \/ (In(s, b, k) /\ In(u, b, l))
  <2>1. PICK i \in DOMAIN r, j \in DOMAIN r : i < j /\ Kind(b, r[i]) = k /\ Kind(b, r[j]) = l
    BY <1>6 DEF After
  <2>2. CASE j \in D
    <3>1. i \in D
      BY <1>1, <2>1, <2>2
    <3> QED
      BY <1>2, <2>1, <2>2, <3>1 DEF After
  <2>3. CASE i \in D /\ j \notin D
    BY <1>2, <1>4, <2>1, <2>3 DEF In
  <2>4. CASE i \notin D /\ j \notin D
    <3>1. i - Len(s) \in E /\ j - Len(s) \in E /\ r[i] = u[i - Len(s)] /\ r[j] = u[j - Len(s)]
      BY <1>4, <2>1, <2>4
    <3>2. i - Len(s) < j - Len(s)
      BY <1>1, <2>1
    <3> QED
      BY <2>1, <3>1, <3>2 DEF After
  <2> QED
    BY <2>2, <2>3, <2>4
<1> QED
  BY <1>5, <1>6 DEF Clean

LEMMA Shifted ==
  ASSUME NEW s \in Seq(Packet), 1 \in DOMAIN s, NEW b, Clean(s, b),
         NEW r, r = RemoveAt(s, 1), NEW h, h = Kind(b, s[1])
  PROVE  /\ \A k : In(r, b, k) => In(s, b, k)
         /\ \A k : In(s, b, k) => In(r, b, k) \/ k = h
         /\ Clean(r, b) /\ In(s, b, h) /\ h # "odd"
         /\ h = "beat" => ~In(s, b, "live")
         /\ h = "zero" => ~In(s, b, "beat")
<1>1. Len(s) \in Nat /\ 1 =< Len(s) /\ DOMAIN s = 1 .. Len(s)
  OBVIOUS
<1>2. DOMAIN r = 1 .. Len(s) - 1 /\ \A i \in 1 .. Len(s) - 1 : r[i] = s[i + 1]
  <2> DEFINE a == SubSeq(s, 1, 1 - 1)
             e == SubSeq(s, 2, Len(s))
  <2>1. a = <<>>
    OBVIOUS
  <2>2. e \in Seq(Packet) /\ Len(e) = Len(s) - 1 /\ \A i \in 1 .. Len(s) - 1 : e[i] = s[i + 1]
    BY <1>1, SubSeqProperties
  <2>3. r = a \o e
    BY DEF RemoveAt
  <2>4. <<>> \o e = e
    BY <2>2
  <2>5. r = e
    BY <2>1, <2>3, <2>4
  <2> QED
    BY <2>2, <2>5
<1>3. \A i \in DOMAIN r : i + 1 \in DOMAIN s /\ i + 1 # 1 /\ r[i] = s[i + 1]
  BY <1>1, <1>2
<1>4. \A i \in DOMAIN s : i # 1 => i - 1 \in DOMAIN r /\ r[i - 1] = s[i]
  BY <1>1, <1>2
<1>5. ASSUME NEW k PROVE (In(r, b, k) => In(s, b, k)) /\ (In(s, b, k) => In(r, b, k) \/ k = h)
  BY <1>3, <1>4 DEF In
<1>6. ASSUME NEW k, NEW l, After(r, b, k, l) PROVE After(s, b, k, l)
  <2>1. PICK i \in DOMAIN r, j \in DOMAIN r : i < j /\ Kind(b, r[i]) = k /\ Kind(b, r[j]) = l
    BY <1>6 DEF After
  <2>2. i + 1 < j + 1
    BY <1>1, <1>2, <2>1
  <2> QED
    BY <1>3, <2>1, <2>2 DEF After
<1>7. ASSUME NEW l, h # l, In(s, b, l) PROVE After(s, b, h, l)
  <2>1. PICK j \in DOMAIN s : Kind(b, s[j]) = l
    BY <1>7 DEF In
  <2>2. j # 1 /\ 1 < j
    BY <1>1, <1>7, <2>1
  <2> QED
    BY <2>1, <2>2 DEF After
<1>8. In(s, b, h)
  BY DEF In
<1>9. "beat" # "live" /\ "zero" # "beat"
  OBVIOUS
<1> QED
  BY <1>5, <1>6, <1>7, <1>8, <1>9 DEF Clean

LEMMA SameBases ==
  ASSUME NEW w, NEW v, NEW v2, \A k \in Node : v2[k].base = v[k].base
  PROVE  (\A k : Has(w, v2, k) = Has(w, v, k)) /\ (Straight(w, v2) <=> Straight(w, v))
<1>1. \A c \in Link : v2[c[1]].base = v[c[1]].base
  BY NoSelf
<1> QED
  BY <1>1 DEF Has, Straight

\* What n puts on its way to d may follow what is there.
Follows(w, v, n, d, out) ==
  LET b == v[n].base
  IN  /\ Clean(out[d], b)
      /\ <<n, d>> \in Has(w, v, "beat") => ~In(out[d], b, "live")
      /\ <<n, d>> \in Has(w, v, "zero") => ~In(out[d], b, "beat")

LEMMA SentHas ==
  ASSUME NEW w \in Nets, NEW v, NEW n \in Node, NEW out \in Outs
  PROVE  /\ \A k : Has(Sent(w, n, out), v, k) = Has(w, v, k) \cup {c \in From(n) : In(out[c[2]], v[n].base, k)}
         /\ Straight(w, v) /\ (\A d \in Node \ {n} : Follows(w, v, n, d, out)) => Straight(Sent(w, n, out), v)
<1> DEFINE z == Sent(w, n, out)
<1>1. \A c \in Link : /\ w[c] \in Seq(Packet) /\ out[c[2]] \in Seq(Packet)
                      /\ z[c] = IF c[1] = n THEN w[c] \o out[c[2]] ELSE w[c]
  BY NoSelf DEF Sent, Nets, Outs
<1> HIDE DEF z
<1>2. ASSUME NEW k PROVE Has(z, v, k) = Has(w, v, k) \cup {c \in From(n) : In(out[c[2]], v[n].base, k)}
  <2>1. ASSUME NEW c \in Link
        PROVE  c \in Has(z, v, k) <=> c \in Has(w, v, k) \/ (c \in From(n) /\ In(out[c[2]], v[n].base, k))
    <3>1. CASE c[1] = n
      <4>1. z[c] = w[c] \o out[c[2]]
        BY <1>1, <3>1
      <4> DEFINE a == w[c]
                 u == out[c[2]]
                 r == z[c]
      <4>6. a \in Seq(Packet) /\ u \in Seq(Packet) /\ r = a \o u
        BY <1>1, <4>1
      <4> DEFINE b == v[n].base
      <4> HIDE DEF a, u, r, b
      <4>8. In(r, b, k) <=> In(a, b, k) \/ In(u, b, k)
        BY <4>6, Joined
      <4>7. In(r, v[n].base, k) <=> In(a, v[n].base, k) \/ In(u, v[n].base, k)
        BY <4>8 DEF b
      <4>2. In(z[c], v[n].base, k) <=> In(w[c], v[n].base, k) \/ In(out[c[2]], v[n].base, k)
        BY <4>7 DEF a, u, r
      <4>3. v[c[1]].base = v[n].base /\ c \in From(n)
        BY <3>1 DEF From
      <4>4. c \in Has(z, v, k) <=> In(z[c], v[n].base, k)
        BY <4>3 DEF Has
      <4>5. c \in Has(w, v, k) <=> In(w[c], v[n].base, k)
        BY <4>3 DEF Has
      <4> QED
        BY <4>2, <4>3, <4>4, <4>5
    <3>2. CASE c[1] # n
      BY <1>1, <3>2 DEF Has, From
    <3> QED
      BY <3>1, <3>2
  <2>2. Has(z, v, k) \subseteq Link /\ Has(w, v, k) \subseteq Link /\ From(n) \subseteq Link
    BY DEF Has, From
  <2> QED
    BY <2>1, <2>2
<1>3. ASSUME Straight(w, v), \A d \in Node \ {n} : Follows(w, v, n, d, out), NEW c \in Link
      PROVE  Clean(z[c], v[c[1]].base)
  <2>1. CASE c[1] = n
    <3>1. c = <<n, c[2]>> /\ c[2] \in Node \ {n}
      BY <2>1, NoSelf
    <3>2. Follows(w, v, n, c[2], out) /\ Clean(w[c], v[n].base)
      BY <1>3, <2>1, <3>1 DEF Straight
    <3>3. /\ In(w[c], v[n].base, "beat") => ~In(out[c[2]], v[n].base, "live")
          /\ In(w[c], v[n].base, "zero") => ~In(out[c[2]], v[n].base, "beat")
      BY <2>1, <3>1, <3>2 DEF Follows, Has
    <3> DEFINE a == w[c]
               u == out[c[2]]
               r == z[c]
    <3>4. /\ v[c[1]].base = v[n].base
          /\ Clean(a, v[n].base) /\ Clean(u, v[n].base)
          /\ In(a, v[n].base, "beat") => ~In(u, v[n].base, "live")
          /\ In(a, v[n].base, "zero") => ~In(u, v[n].base, "beat")
      BY <2>1, <3>2, <3>3 DEF Follows
    <3>5. a \in Seq(Packet) /\ u \in Seq(Packet) /\ r = a \o u
      BY <1>1, <2>1
    <3> HIDE DEF a, u, r
    <3>6. Clean(r, v[n].base)
      BY <3>4, <3>5, Joined
    <3> QED
      BY <3>4, <3>6 DEF r
  <2>2. CASE c[1] # n
    BY <1>1, <1>3, <2>2 DEF Straight
  <2> QED
    BY <2>1, <2>2
<1> QED
  BY <1>2, <1>3 DEF z, Straight

LEMMA Dropped ==
  ASSUME NEW w \in Nets, NEW v, NEW x \in Node, NEW n \in Node, x # n, 1 \in DOMAIN w[<<x, n>>], Straight(w, v),
         NEW r \in Nets, r[<<x, n>>] = RemoveAt(w[<<x, n>>], 1), \A c \in Link \ {<<x, n>>} : r[c] = w[c],
         NEW h, h = Kind(v[x].base, w[<<x, n>>][1])
  PROVE  /\ Straight(r, v)
         /\ \A k : Off(Has(w, v, k), Has(r, v, k), x, n) /\ (k # h => Has(r, v, k) = Has(w, v, k))
         /\ h # "odd" /\ <<x, n>> \in Has(w, v, h)
         /\ h = "beat" => <<x, n>> \notin Has(w, v, "live")
         /\ h = "zero" => <<x, n>> \notin Has(w, v, "beat")
<1> DEFINE l == <<x, n>>
           b == v[x].base
<1>1. l \in Link /\ l[1] = x /\ w[l] \in Seq(Packet) /\ Clean(w[l], b)
  BY DEF Link, Nets, Straight
<1>0. h = Kind(b, w[l][1]) /\ 1 \in DOMAIN w[l]
  OBVIOUS
<1>3. r[l] = RemoveAt(w[l], 1) /\ \A c \in Link \ {l} : r[c] = w[c]
  OBVIOUS
<1>4. /\ \A k : In(r[l], b, k) => In(w[l], b, k)
      /\ \A k : In(w[l], b, k) => In(r[l], b, k) \/ k = h
      /\ Clean(r[l], b) /\ In(w[l], b, h) /\ h # "odd"
      /\ h = "beat" => ~In(w[l], b, "live")
      /\ h = "zero" => ~In(w[l], b, "beat")
  <2> DEFINE a == w[l]
             z == r[l]
  <2>1. a \in Seq(Packet) /\ 1 \in DOMAIN a /\ Clean(a, b) /\ z = RemoveAt(a, 1) /\ h = Kind(b, a[1])
    BY <1>0, <1>1, <1>3
  <2> HIDE DEF a, z
  <2>2. /\ \A k : In(z, b, k) => In(a, b, k)
        /\ \A k : In(a, b, k) => In(z, b, k) \/ k = h
        /\ Clean(z, b) /\ In(a, b, h) /\ h # "odd"
        /\ h = "beat" => ~In(a, b, "live")
        /\ h = "zero" => ~In(a, b, "beat")
    BY <2>1, Shifted
  <2> QED
    BY <2>2 DEF a, z
<1>5. Straight(r, v)
  BY <1>1, <1>3, <1>4 DEF Straight
<1>6. \A k : l \in Has(w, v, k) <=> In(w[l], b, k)
  BY <1>1 DEF Has
<1>7. ASSUME NEW k
      PROVE  Off(Has(w, v, k), Has(r, v, k), x, n) /\ (k # h => Has(r, v, k) = Has(w, v, k))
  <2>1. \A c \in Link \ {l} : c \in Has(r, v, k) <=> c \in Has(w, v, k)
    BY <1>3 DEF Has
  <2>2. l \in Has(r, v, k) <=> In(r[l], b, k)
    BY <1>1 DEF Has
  <2>3. Has(r, v, k) \subseteq Link /\ Has(w, v, k) \subseteq Link
    BY DEF Has
  <2> HIDE DEF l, b
  <2>4. Has(r, v, k) \subseteq Has(w, v, k) /\ Has(w, v, k) \ Has(r, v, k) \subseteq {l}
    BY <1>4, <1>6, <2>1, <2>2, <2>3
  <2>7. k # h => (l \in Has(w, v, k) => l \in Has(r, v, k))
    BY <1>4, <1>6, <2>2
  <2>5. k # h => Has(r, v, k) = Has(w, v, k)
    BY <2>4, <2>7
  <2>6. Off(Has(w, v, k), Has(r, v, k), x, n)
    BY <2>4 DEF Off, l
  <2> QED
    BY <2>5, <2>6
<1>8. /\ h # "odd" /\ l \in Has(w, v, h)
      /\ h = "beat" => l \notin Has(w, v, "live")
      /\ h = "zero" => l \notin Has(w, v, "beat")
  BY <1>4, <1>6
<1> QED
  BY <1>5, <1>7, <1>8

-----------------------------------------------------------------------------
(* What is put on its way. *)

LEMMA Outgoing ==
  ASSUME NEW b, NEW d \in Node
  PROVE  /\ Clean(Nothing[d], b) /\ \A k : ~In(Nothing[d], b, k)
         /\ \A s : ToAll(s)[d] = s
         /\ \A a, s : To(a, s)[d] = IF d = a THEN s ELSE <<>>
  BY Short DEF Nothing, ToAll, To

LEMMA AndIs ==
  ASSUME NEW o \in Outs, NEW o2 \in Outs, NEW d \in Node, NEW b
  PROVE  /\ \A k : In(And(o, o2)[d], b, k) <=> In(o[d], b, k) \/ In(o2[d], b, k)
         /\ /\ Clean(o[d], b) /\ Clean(o2[d], b)
            /\ In(o[d], b, "beat") => ~In(o2[d], b, "live")
            /\ In(o[d], b, "zero") => ~In(o2[d], b, "beat")
            => Clean(And(o, o2)[d], b)
<1>1. And(o, o2)[d] = o[d] \o o2[d] /\ o[d] \in Seq(Packet) /\ o2[d] \in Seq(Packet)
  BY DEF And, Outs
<1> QED
  BY <1>1, Joined

\* What catching up sends is heartbeats or a C_KILL.
LEMMA ResentIs ==
  ASSUME NEW p \in Proc, NEW q \in -1 .. HB_MAX_SEQ - 1, NEW b
  PROVE  LET u == Catchup(p, q)
         IN  (\A k : In(u, b, k) => k \in {"beat", "kill"}) /\ Clean(u, b)
<1> DEFINE u == Catchup(p, q)
<1>1. u \in Seq(Resent)
  BY CatchupIs
<1> HIDE DEF u
<1>2. \A i \in DOMAIN u : Kind(b, u[i]) \in {"beat", "kill"}
  <2> SUFFICES ASSUME NEW i \in DOMAIN u PROVE Kind(b, u[i]) \in {"beat", "kill"}
    OBVIOUS
  <2>1. u[i].type \in {"beat", "kill"}
    BY <1>1 DEF Resent
  <2> QED
    BY <2>1 DEF Kind
<1>3. \A k : In(u, b, k) => k \in {"beat", "kill"}
  BY <1>2 DEF In
<1>4. Clean(u, b)
  BY <1>2 DEF Clean, In, After
<1> QED
  BY <1>3, <1>4 DEF u

-----------------------------------------------------------------------------
(* What a step does to its process. *)

Alike(p, q) == /\ q.up = p.up /\ q.base = p.base /\ q.upAge = p.upAge /\ q.quit = p.quit /\ q.peer = p.peer
               /\ q.addr = p.addr /\ q.hbAge = p.hbAge

LEMMA SavedAlike == ASSUME NEW p \in Proc, NEW h \in Beats
                    PROVE  Alike(p, Saved(p, h)) /\ Saved(p, h).master = p.master
  BY DEF Saved, Alike, Proc, PType

LEMMA SlavesAlike == ASSUME NEW p \in Proc PROVE Alike(p, CheckSlaves(p)) /\ CheckSlaves(p).master = p.master
  BY DEF CheckSlaves, Alike, Proc, PType

LEMMA BeatAlike ==
  ASSUME NEW n \in Node, NEW p \in Proc, p.seq # -1, NEW c \in Nat
  PROVE  Alike(p, AfterBeat(n, p, c)) /\ AfterBeat(n, p, c).master = p.master
<1> DEFINE h == NextBeat(n, p, c)
           q == Saved(p, h)
<1>1. h \in Beats
  BY NextBeatOk
<1>2. q \in Proc /\ Alike(p, q) /\ q.master = p.master
  BY <1>1, SavedOk, SavedAlike
<1>3. AfterBeat(n, p, c) = [q EXCEPT !.tv = h.tv, !.has = h.all]
  BY DEF AfterBeat
<1> HIDE DEF h, q
<1> QED
  BY <1>2, <1>3 DEF Alike, Proc, PType

LEMMA MasterAlike == ASSUME NEW p \in Proc PROVE Alike(p, BecomeMaster(p)) /\ BecomeMaster(p).master
  BY DEF BecomeMaster, Alike, Proc, PType

LEMMA CheckMasterIs ==
  ASSUME NEW n, NEW p \in Proc
  PROVE  LET q == CheckMaster(n, p)
         IN  /\ q.up = p.up /\ q.base = p.base /\ q.upAge = p.upAge /\ q.quit = p.quit /\ q.peer = p.peer
             /\ IF p.master \/ p.hbAge < HbTimeout
                THEN q = p
                ELSE q.hbAge = 0 /\ q.addr = 0 /\ (q.master => ~p.quit /\ ~Deferred(n, p))
<1> DEFINE r == [p EXCEPT !.hbAge = 0, !.addr = 0]
<1>1. r \in Proc
  BY Zeros DEF Proc, PType
<1>2. /\ r.up = p.up /\ r.base = p.base /\ r.upAge = p.upAge /\ r.quit = p.quit /\ r.peer = p.peer /\ r.master = p.master
      /\ r.hbAge = 0 /\ r.addr = 0
  BY DEF Proc, PType
<1>3. Deferred(n, r) <=> Deferred(n, p)
  BY <1>2 DEF Deferred, Live
<1>4. CheckMaster(n, p) = IF p.master \/ p.hbAge < HbTimeout THEN p
                          ELSE IF r.quit \/ Deferred(n, r) THEN r ELSE BecomeMaster(r)
  BY DEF CheckMaster
<1> HIDE DEF r
<1>5. Alike(r, BecomeMaster(r))
  BY <1>1, MasterAlike
<1>6. CASE p.master \/ p.hbAge < HbTimeout
  BY <1>4, <1>6
<1>7. CASE ~(p.master \/ p.hbAge < HbTimeout) /\ (r.quit \/ Deferred(n, r))
  BY <1>2, <1>4, <1>7
<1>8. CASE ~(p.master \/ p.hbAge < HbTimeout) /\ ~(r.quit \/ Deferred(n, r))
  BY <1>2, <1>3, <1>4, <1>5, <1>8 DEF Alike
<1> QED
  BY <1>6, <1>7, <1>8

\* Who defers in a snapshot, gives way in an election.
LEMMA GivesWay ==
  ASSUME NEW s \in Snaps, Heard(s), NEW n \in Ups(s), NEW m \in Node \ {n}, Defers(s, n, m),
         NEW p, p.base = s.v[n].base, p.peer[m] = s.v[n].peer[m]
  PROVE  Deferred(n, p)
<1>1. s.v[n].peer[m].base = s.v[m].base /\ p.peer[m].base # 0 /\ p.peer[m].age <= HbTimeout
  BY DEF Heard, Defers
<1> QED
  BY <1>1 DEF Defers, Deferred, Live, Better

-----------------------------------------------------------------------------
(* Steps of one machine, as changes of the snapshot. *)

LEMMA NowIs ==
  ASSUME Typed
  PROVE  /\ Now \in Snaps /\ Now.v = proc /\ Now.w = woke
         /\ Now.beats = Has(net, proc, "beat") /\ Now.zeros = Has(net, proc, "zero")
         /\ Now.lives = Has(net, proc, "live") /\ Now.asks = Has(net, proc, "ask")
  BY DEF Now, Snap, Snaps, Typed, Has

Outgoings(n, out, b, k) == {c \in From(n) : In(out[c[2]], b, k)}

LEMMA InstallIs ==
  ASSUME Calm, NEW n \in Node, NEW p \in Proc, p.base = proc[n].base, NEW out \in Outs, Install(n, p, out),
         \A d \in Node \ {n} : Follows(net, proc, n, d, out)
  PROVE  /\ \A k : Has(net', proc', k) = Has(net, proc, k) \cup Outgoings(n, out, p.base, k)
         /\ Straight(net', proc')
         /\ proc'[n] = p /\ \A j \in Node \ {n} : proc'[j] = proc[j]
<1>1. net' = Sent(net, n, out) /\ proc' = [proc EXCEPT ![n] = p]
  BY DEF Install
<1>2. net \in Nets /\ Straight(net, proc) /\ proc \in [Node -> Proc]
  BY DEF Calm, Typed
<1>3. proc'[n] = p /\ \A j \in Node \ {n} : proc'[j] = proc[j]
  BY <1>1, <1>2
<1>4. \A j \in Node : proc'[j].base = proc[j].base
  BY <1>3
<1>5. /\ \A k : Has(net', proc, k) = Has(net, proc, k) \cup {c \in From(n) : In(out[c[2]], proc[n].base, k)}
      /\ Straight(net', proc)
  BY <1>1, <1>2, SentHas
<1>6. (\A k : Has(net', proc', k) = Has(net', proc, k)) /\ (Straight(net', proc') <=> Straight(net', proc))
  BY <1>4, SameBases
<1> QED
  BY <1>3, <1>5, <1>6 DEF Outgoings

LEMMA TakeIs ==
  ASSUME Calm, NEW x \in Node, NEW n \in Node, x # n, 1 \in DOMAIN net[<<x, n>>],
         NEW p \in Proc, p.base = proc[n].base, NEW out \in Outs, Take(x, n, 1, p, out),
         \A d \in Node \ {n} : Follows(net, proc, n, d, out)
  PROVE  LET h == Kind(proc[x].base, net[<<x, n>>][1])
         IN  /\ \A k : \E M : /\ Off(Has(net, proc, k), M, x, n)
                              /\ k # h => M = Has(net, proc, k)
                              /\ Has(net', proc', k) = M \cup Outgoings(n, out, p.base, k)
             /\ Straight(net', proc')
             /\ proc'[n] = p /\ \A j \in Node \ {n} : proc'[j] = proc[j]
<1> DEFINE r == [net EXCEPT ![<<x, n>>] = RemoveAt(@, 1)]
           h == Kind(proc[x].base, net[<<x, n>>][1])
<1>1. net' = Sent(r, n, out) /\ proc' = [proc EXCEPT ![n] = p]
  BY DEF Take
<1>2. net \in Nets /\ Straight(net, proc) /\ proc \in [Node -> Proc]
  BY DEF Calm, Typed
<1>3. /\ r \in Nets /\ Straight(r, proc)
      /\ \A k : Off(Has(net, proc, k), Has(r, proc, k), x, n) /\ (k # h => Has(r, proc, k) = Has(net, proc, k))
  <2>1. <<x, n>> \in Link /\ net[<<x, n>>] \in Seq(Packet)
    BY <1>2 DEF Link, Nets
  <2>2. r \in Nets
    BY <1>2, <2>1, TakenOk
  <2>3. r[<<x, n>>] = RemoveAt(net[<<x, n>>], 1) /\ \A c \in Link \ {<<x, n>>} : r[c] = net[c]
    BY <1>2, <2>1 DEF Nets
  <2>4. h = Kind(proc[x].base, net[<<x, n>>][1])
    OBVIOUS
  <2> HIDE DEF r, h
  <2> QED
    BY <1>2, <2>2, <2>3, <2>4, Dropped
<1> HIDE DEF r, h
<1>4. proc'[n] = p /\ \A j \in Node \ {n} : proc'[j] = proc[j]
  BY <1>1, <1>2
<1>5. \A j \in Node : proc'[j].base = proc[j].base
  BY <1>4
<1>6. \A d \in Node \ {n} : Follows(r, proc, n, d, out)
  BY <1>3 DEF Follows, Off
<1>7. /\ \A k : Has(net', proc, k) = Has(r, proc, k) \cup {c \in From(n) : In(out[c[2]], proc[n].base, k)}
      /\ Straight(net', proc)
  BY <1>1, <1>3, <1>6, SentHas
<1>8. (\A k : Has(net', proc', k) = Has(net', proc, k)) /\ (Straight(net', proc') <=> Straight(net', proc))
  BY <1>5, SameBases
<1>9. \A k : Has(net', proc', k) = Has(r, proc, k) \cup Outgoings(n, out, p.base, k)
  BY <1>7, <1>8 DEF Outgoings
<1>10. ASSUME NEW k
       PROVE  \E M : /\ Off(Has(net, proc, k), M, x, n)
                     /\ k # h => M = Has(net, proc, k)
                     /\ Has(net', proc', k) = M \cup Outgoings(n, out, p.base, k)
  <2> DEFINE M == Has(r, proc, k)
  <2>1. /\ Off(Has(net, proc, k), M, x, n)
        /\ k # h => M = Has(net, proc, k)
        /\ Has(net', proc', k) = M \cup Outgoings(n, out, p.base, k)
    BY <1>3, <1>9
  <2> HIDE DEF M
  <2> QED
    BY <2>1
<1> QED
  BY <1>4, <1>7, <1>8, <1>10 DEF h

LEMMA NoOutgoings ==
  ASSUME NEW n \in Node, NEW b
  PROVE  /\ \A k : Outgoings(n, Nothing, b, k) = {}
         /\ \A d \in Node : Follows(net, proc, n, d, Nothing)
<1>1. \A c \in From(n) : c[2] \in Node
  BY NoSelf DEF From
<1> QED
  BY <1>1, Outgoing DEF Outgoings, Follows

LEMMA OneOutgoing ==
  ASSUME NEW n \in Node, NEW x \in Node, x # n, NEW s, NEW b
  PROVE  /\ \A k : Outgoings(n, To(x, s), b, k) = IF In(s, b, k) THEN {<<n, x>>} ELSE {}
         /\ Clean(s, proc[n].base) /\ ~In(s, proc[n].base, "live")
            /\ (<<n, x>> \in Has(net, proc, "zero") => ~In(s, proc[n].base, "beat"))
            => \A d \in Node : Follows(net, proc, n, d, To(x, s))
<1>1. \A c \in From(n) : c[2] \in Node /\ (c[2] = x <=> c = <<n, x>>)
  BY NoSelf DEF From
<1>2. <<n, x>> \in From(n) /\ <<n, x>>[2] = x
  BY FromIs
<1>3. \A d \in Node : To(x, s)[d] = IF d = x THEN s ELSE <<>>
  BY Outgoing
<1>4. ASSUME NEW k PROVE Outgoings(n, To(x, s), b, k) = IF In(s, b, k) THEN {<<n, x>>} ELSE {}
  <2>1. \A c \in From(n) : In(To(x, s)[c[2]], b, k) <=> c = <<n, x>> /\ In(s, b, k)
    <3>1. ASSUME NEW c \in From(n) PROVE In(To(x, s)[c[2]], b, k) <=> c = <<n, x>> /\ In(s, b, k)
      <4>1. CASE c[2] = x
        BY <1>1, <1>3, <4>1
      <4>2. CASE c[2] # x
        <5>1. To(x, s)[c[2]] = <<>>
          BY <1>1, <1>3, <4>2
        <5> QED
          BY <1>1, <4>2, <5>1, Short
      <4> QED
        BY <4>1, <4>2
    <3> QED
      BY <3>1
  <2> QED
    BY <1>2, <2>1 DEF Outgoings
<1>5. ASSUME Clean(s, proc[n].base), ~In(s, proc[n].base, "live"),
             <<n, x>> \in Has(net, proc, "zero") => ~In(s, proc[n].base, "beat"), NEW d \in Node
      PROVE  Follows(net, proc, n, d, To(x, s))
  <2>1. CASE d = x
    BY <1>3, <1>5, <2>1 DEF Follows
  <2>2. CASE d # x
    BY <1>3, <2>2, Short DEF Follows
  <2> QED
    BY <2>1, <2>2
<1> QED
  BY <1>4, <1>5

LEMMA NextIs ==
  /\ Now'.v = proc' /\ Now'.w = woke'
  /\ Now'.beats = Has(net', proc', "beat") /\ Now'.zeros = Has(net', proc', "zero")
  /\ Now'.lives = Has(net', proc', "live") /\ Now'.asks = Has(net', proc', "ask")
  /\ Typed' => Now' \in Snaps
<1>1. /\ Now'.v = proc' /\ Now'.w = woke'
      /\ Now'.beats = Has(net', proc', "beat") /\ Now'.zeros = Has(net', proc', "zero")
      /\ Now'.lives = Has(net', proc', "live") /\ Now'.asks = Has(net', proc', "ask")
  BY DEF Now, Snap
<1>2. Typed' => Now' \in Snaps
  BY DEF Now, Snap, Snaps, Typed, Has
<1> QED
  BY <1>1, <1>2

\* What holds of a machine that is up.
LEMMA UpIs ==
  ASSUME Calm, NEW n \in Up
  PROVE  /\ n \in Node /\ n \in Ups(Now) /\ proc[n] \in Proc /\ proc[n].up
         /\ proc[n].base \in Nat /\ proc[n].base # 0 /\ ~wild
         /\ Now \in Snaps /\ Now.v = proc /\ Orderly(Now)
         /\ \A d \in Node : /\ <<n, d>> \in Has(net, proc, "beat") => proc[n].master
                            /\ <<n, d>> \in Has(net, proc, "zero") => proc[n].quit /\ ~proc[n].master
<1>1. Typed /\ ~wild /\ Orderly(Now) /\ Now \in Snaps /\ Now.v = proc
  BY NowIs DEF Calm
<1>2. n \in Node /\ n \in Ups(Now) /\ proc[n] \in Proc /\ proc[n].up
  BY <1>1 DEF Up, Ups, Typed
<1>3. proc[n].base \in Nat /\ proc[n].base # 0
  BY <1>1, <1>2 DEF Orderly, Timely, Proc, PType
<1>4. \A c \in Now.beats : c[1] = n => proc[n].master
  BY <1>1, <1>2 DEF Orderly, Followed, Been
<1>5. \A c \in Now.zeros : c[1] = n => proc[n].quit /\ ~proc[n].master
  BY <1>1, <1>2 DEF Orderly, Leaving
<1>6. Now.beats = Has(net, proc, "beat") /\ Now.zeros = Has(net, proc, "zero")
  BY <1>1, NowIs
<1> QED
  BY <1>1, <1>2, <1>3, <1>4, <1>5, <1>6

LEMMA Single ==
  ASSUME NEW b, NEW q, NEW u, u = <<q>>, NEW l, Kind(b, q) = l, l # "odd"
  PROVE  Clean(u, b) /\ \A k : In(u, b, k) <=> k = l
<1>1. Clean(u, b)
  BY Short
<1>2. \A k : In(u, b, k) <=> Kind(b, q) = k
  BY Short
<1> QED
  BY <1>1, <1>2

LEMMA WakeOut ==
  ASSUME NEW p \in Proc, p.base # 0, NEW e \in BOOLEAN, NEW h, NEW d \in Node,
         NEW ping, ping = IF p.master THEN Nothing ELSE ToAll(<<Ping(p.base, ~p.utd)>>),
         NEW beat, beat = IF e THEN ToAll(<<Beat(h)>>) ELSE Nothing,
         ping \in Outs, beat \in Outs
  PROVE  LET out == And(And(ping, Probe(p)), beat)
         IN  /\ Clean(out[d], p.base)
             /\ ~In(out[d], p.base, "zero")
             /\ In(out[d], p.base, "live") <=> ~p.master
             /\ In(out[d], p.base, "beat") <=> e
             /\ In(out[d], p.base, "ask") => p.addr # 0 /\ d = p.addr
<1> DEFINE out == And(And(ping, Probe(p)), beat)
           b == p.base
<1>1. /\ Clean(ping[d], b)
      /\ \A k : In(ping[d], b, k) <=> ~p.master /\ k = "live"
  <2>1. CASE p.master
    BY <2>1, Outgoing
  <2>2. CASE ~p.master
    <3> DEFINE q == Ping(p.base, ~p.utd)
    <3>1. ping[d] = <<q>>
      BY <2>2, Outgoing
    <3>2. Kind(b, q) = "live" /\ "live" # "odd"
      BY Kinds
    <3> HIDE DEF q
    <3>3. Clean(ping[d], b) /\ \A k : In(ping[d], b, k) <=> k = "live"
      BY <3>1, <3>2, Single
    <3> QED
      BY <2>2, <3>3
  <2> QED
    BY <2>1, <2>2
<1>2. /\ Clean(beat[d], b)
      /\ \A k : In(beat[d], b, k) <=> e /\ k = "beat"
  <2>1. CASE ~e
    BY <2>1, Outgoing
  <2>2. CASE e
    <3> DEFINE q == Beat(h)
    <3>1. beat[d] = <<q>>
      BY <2>2, Outgoing
    <3>2. Kind(b, q) = "beat" /\ "beat" # "odd"
      BY Kinds
    <3> HIDE DEF q
    <3>3. Clean(beat[d], b) /\ \A k : In(beat[d], b, k) <=> k = "beat"
      BY <3>1, <3>2, Single
    <3> QED
      BY <2>2, <3>3
  <2> QED
    BY <2>1, <2>2
<1>3. /\ Clean(Probe(p)[d], b)
      /\ \A k : In(Probe(p)[d], b, k) => k = "ask" /\ p.addr # 0 /\ d = p.addr
  <2> DEFINE c == ~p.master /\ p.hbAge > ProbeAfter /\ p.addr # 0
  <2>1. CASE c /\ d = p.addr
    <3> DEFINE q == LastSeen(p.seq)
    <3>1. Probe(p)[d] = <<q>>
      BY <2>1, Outgoing DEF Probe
    <3>2. Kind(b, q) = "ask" /\ "ask" # "odd"
      BY Kinds
    <3> HIDE DEF q
    <3>3. Clean(Probe(p)[d], b) /\ \A k : In(Probe(p)[d], b, k) <=> k = "ask"
      BY <3>1, <3>2, Single
    <3> QED
      BY <2>1, <3>3
  <2>2. CASE ~(c /\ d = p.addr)
    <3>1. Probe(p)[d] = <<>>
      <4>1. CASE ~c
        <5>1. Probe(p) = Nothing
          BY <4>1 DEF Probe
        <5> QED
          BY <5>1 DEF Nothing
      <4>2. CASE c /\ d # p.addr
        <5> DEFINE u == <<LastSeen(p.seq)>>
        <5>1. Probe(p) = To(p.addr, u)
          BY <4>2 DEF Probe
        <5> HIDE DEF u
        <5> QED
          BY <4>2, <5>1, Outgoing
      <4> QED
        BY <2>2, <4>1, <4>2
    <3>2. Clean(<<>>, b) /\ \A k : ~In(<<>>, b, k)
      BY Short
    <3> QED
      BY <3>1, <3>2
  <2> QED
    BY <2>1, <2>2
<1>4. Probe(p) \in Outs
  BY ProbeOk
<1> DEFINE o == And(ping, Probe(p))
<1>5. o \in Outs
  BY <1>4, OutsAre
<1>6. \A k : In(o[d], b, k) <=> In(ping[d], b, k) \/ In(Probe(p)[d], b, k)
  BY <1>4, AndIs
<1>7. Clean(o[d], b)
  <2>1. ~In(Probe(p)[d], b, "live") /\ ~In(Probe(p)[d], b, "beat")
    BY <1>3
  <2> QED
    BY <1>1, <1>3, <1>4, <2>1, AndIs
<1> HIDE DEF o, b
<1>8. \A k : In(And(o, beat)[d], b, k) <=> In(o[d], b, k) \/ In(beat[d], b, k)
  BY <1>5, AndIs
<1>9. Clean(And(o, beat)[d], b)
  <2>1. ~In(beat[d], b, "live") /\ ~In(o[d], b, "zero")
    BY <1>1, <1>2, <1>3, <1>6
  <2> QED
    BY <1>2, <1>5, <1>7, <2>1, AndIs
<1>10. /\ ~In(And(o, beat)[d], b, "zero")
       /\ In(And(o, beat)[d], b, "live") <=> ~p.master
       /\ In(And(o, beat)[d], b, "beat") <=> e
       /\ In(And(o, beat)[d], b, "ask") => p.addr # 0 /\ d = p.addr
  BY <1>1, <1>2, <1>3, <1>6, <1>8
<1> QED
  BY <1>9, <1>10 DEF o, b

\* The fields of a process that Orderly looks at, in one step of n.
LEMMA ByIs ==
  ASSUME NEW n \in Node, NEW p, proc'[n] = p, \A j \in Node \ {n} : proc'[j] = proc[j], p.base = proc[n].base, Typed
  PROVE  By(Now, Now', n)
  BY NowIs, NextIs DEF By

LEMMA WakeIs ==
  ASSUME Calm, NEW n \in Node, Wake(n)
  PROVE  Woken(Now, Now', n) /\ Straight(net', proc')
<1> DEFINE p == proc[n]
           ping == IF p.master THEN Nothing ELSE ToAll(<<Ping(p.base, ~p.utd)>>)
           e == CheckMaster(n, p)
<1>1. PICK c \in 0 .. 1 :
        LET b    == IF e.master THEN AfterBeat(n, e, c) ELSE e
            beat == IF e.master THEN ToAll(<<Beat(NextBeat(n, e, c))>>) ELSE Nothing
        IN  Install(n, CheckSlaves(b), And(And(ping, Probe(p)), beat))
  BY DEF Wake
<1> DEFINE h    == NextBeat(n, e, c)
           b    == IF e.master THEN AfterBeat(n, e, c) ELSE e
           beat == IF e.master THEN ToAll(<<Beat(h)>>) ELSE Nothing
           q    == CheckSlaves(b)
           out  == And(And(ping, Probe(p)), beat)
<1>2. /\ p \in Proc /\ c \in Nat /\ p.up /\ p.base \in Nat /\ p.base # 0 /\ Typed /\ n \in Ups(Now)
      /\ Now \in Snaps /\ Now.v = proc /\ Orderly(Now)
      /\ \A d \in Node : /\ <<n, d>> \in Has(net, proc, "beat") => p.master
                         /\ <<n, d>> \in Has(net, proc, "zero") => p.quit /\ ~p.master
  <2>1. n \in Up
    BY DEF Wake
  <2> QED
    BY <2>1, UpIs DEF Calm
<1>3. /\ e \in Proc /\ e.up = p.up /\ e.base = p.base /\ e.upAge = p.upAge /\ e.quit = p.quit /\ e.peer = p.peer
      /\ IF p.master \/ p.hbAge < HbTimeout
         THEN e = p
         ELSE e.hbAge = 0 /\ e.addr = 0 /\ (e.master => ~p.quit /\ ~Deferred(n, p))
      /\ e.master \in BOOLEAN /\ p.master \in BOOLEAN
  <2>1. p \in Proc
    BY <1>2
  <2>2. e \in Proc
    BY <2>1, CheckMasterOk
  <2>3. e.master \in BOOLEAN /\ p.master \in BOOLEAN
    BY <2>1, <2>2 DEF Proc, PType
  <2> QED
    BY <2>1, <2>2, <2>3, CheckMasterIs
<1>4. Install(n, q, out)
  BY <1>1
<1>5. ping \in Outs
  <2> DEFINE u == ~p.utd
  <2>1. p.base \in Nat /\ u \in BOOLEAN
    BY <1>2 DEF Proc, PType
  <2> HIDE DEF u
  <2>2. Ping(p.base, u) \in Packet
    BY <2>1, PacketsAre
  <2>3. <<Ping(p.base, ~p.utd)>> \in Seq(Packet)
    BY <2>2 DEF u
  <2> QED
    BY <2>3, OutsAre
<1> HIDE DEF e
<1>6. b \in Proc /\ Alike(e, b) /\ b.master = e.master /\ beat \in Outs
  <2>1. CASE e.master
    <3>1. e.seq # -1
      BY <1>3, <2>1 DEF Proc
    <3>2. AfterBeat(n, e, c) \in Proc /\ Alike(e, AfterBeat(n, e, c)) /\ AfterBeat(n, e, c).master = e.master
      BY <1>2, <1>3, <3>1, AfterBeatOk, BeatAlike
    <3>3. h \in Beats
      BY <1>2, <1>3, <3>1, NextBeatOk
    <3> HIDE DEF h
    <3>4. <<Beat(h)>> \in Seq(Packet)
      BY <3>3, PacketsAre
    <3> QED
      BY <2>1, <3>2, <3>4, OutsAre
  <2>2. CASE ~e.master
    BY <1>3, <2>2, OutsAre DEF Alike
  <2> QED
    BY <2>1, <2>2
<1> HIDE DEF b, h
<1>7. q \in Proc /\ Alike(e, q) /\ q.master = e.master
  BY <1>6, CheckSlavesOk, SlavesAlike DEF Alike
<1>8. out \in Outs
  <2>1. And(ping, Probe(p)) \in Outs
    BY <1>2, <1>5, ProbeOk, OutsAre
  <2> QED
    BY <1>6, <2>1, OutsAre
<1>9. ASSUME NEW d \in Node
      PROVE  /\ Clean(out[d], p.base)
             /\ ~In(out[d], p.base, "zero")
             /\ In(out[d], p.base, "live") <=> ~p.master
             /\ In(out[d], p.base, "beat") <=> e.master
             /\ In(out[d], p.base, "ask") => p.addr # 0 /\ d = p.addr
  <2> DEFINE pg == ping
             bt == beat
             em == e.master
  <2>1. /\ pg = IF p.master THEN Nothing ELSE ToAll(<<Ping(p.base, ~p.utd)>>)
        /\ bt = IF em THEN ToAll(<<Beat(h)>>) ELSE Nothing
        /\ em \in BOOLEAN /\ pg \in Outs /\ bt \in Outs
    BY <1>3, <1>5, <1>6
  <2> HIDE DEF pg, bt, em
  <2>2. LET o == And(And(pg, Probe(p)), bt)
        IN  /\ Clean(o[d], p.base)
            /\ ~In(o[d], p.base, "zero")
            /\ In(o[d], p.base, "live") <=> ~p.master
            /\ In(o[d], p.base, "beat") <=> em
            /\ In(o[d], p.base, "ask") => p.addr # 0 /\ d = p.addr
    BY <1>2, <2>1, WakeOut
  <2> QED
    BY <2>2 DEF pg, bt, em
<1> HIDE DEF out, q, ping, beat
<1>10. \A d \in Node \ {n} : Follows(net, proc, n, d, out)
  <2> SUFFICES ASSUME NEW d \in Node \ {n} PROVE Follows(net, proc, n, d, out)
    OBVIOUS
  <2>1. <<n, d>> \in Has(net, proc, "beat") => ~In(out[d], p.base, "live")
    BY <1>2, <1>9
  <2>2. <<n, d>> \in Has(net, proc, "zero") => ~In(out[d], p.base, "beat")
    BY <1>2, <1>3, <1>9
  <2> QED
    BY <1>9, <2>1, <2>2 DEF Follows
<1>11. q.base = p.base
  BY <1>3, <1>7 DEF Alike
<1>12. /\ \A k : Has(net', proc', k) = Has(net, proc, k) \cup Outgoings(n, out, p.base, k)
       /\ Straight(net', proc')
       /\ proc'[n] = q /\ \A j \in Node \ {n} : proc'[j] = proc[j]
  BY <1>4, <1>7, <1>8, <1>10, <1>11, InstallIs
<1>13. \A x \in From(n) : x[2] \in Node
  BY NoSelf DEF From
<1>14. /\ Outgoings(n, out, p.base, "zero") = {}
       /\ Outgoings(n, out, p.base, "live") = IF p.master THEN {} ELSE From(n)
       /\ Outgoings(n, out, p.base, "beat") = IF e.master THEN From(n) ELSE {}
       /\ \A x \in Outgoings(n, out, p.base, "ask") : p.addr # 0 /\ x[2] = p.addr
  BY <1>9, <1>13 DEF Outgoings
<1> DEFINE s == Now
           t == Now'
<1>15. By(s, t, n)
  BY <1>2, <1>11, <1>12, ByIs
<1>16. /\ s.v[n] = p /\ t.v[n] = q /\ s.w = woke /\ t.w = woke'
       /\ s.beats = Has(net, proc, "beat") /\ s.zeros = Has(net, proc, "zero")
       /\ s.lives = Has(net, proc, "live") /\ s.asks = Has(net, proc, "ask")
       /\ t.beats = Has(net', proc', "beat") /\ t.zeros = Has(net', proc', "zero")
       /\ t.lives = Has(net', proc', "live") /\ t.asks = Has(net', proc', "ask")
  BY <1>2, <1>12, NowIs, NextIs
<1>17. woke' = woke \cup {n}
  BY DEF Wake
<1>18. e.master /\ ~(p.master \/ p.hbAge < HbTimeout) => \A m \in Node \ {n} : ~Defers(s, n, m)
  BY <1>2, <1>3, <1>16, GivesWay DEF Orderly
<1> HIDE DEF p, s, t
<1>19. Lives(s, t, n) /\ t.v[n].peer = s.v[n].peer
  BY <1>2, <1>3, <1>7, <1>16 DEF Lives, Alike
<1>20. /\ t.zeros = s.zeros
       /\ \A x \in t.asks : x \in s.asks \/ (s.v[n].addr # 0 /\ x[2] = s.v[n].addr)
       /\ t.lives = IF s.v[n].master THEN s.lives ELSE s.lives \cup From(n)
       /\ t.beats = IF t.v[n].master THEN s.beats \cup From(n) ELSE s.beats
  <2>1. t.zeros = s.zeros
    BY <1>12, <1>14, <1>16
  <2>2. ASSUME NEW x \in t.asks PROVE x \in s.asks \/ (s.v[n].addr # 0 /\ x[2] = s.v[n].addr)
    BY <1>12, <1>14, <1>16, <2>2
  <2>3. t.lives = IF s.v[n].master THEN s.lives ELSE s.lives \cup From(n)
    <3>1. t.lives = s.lives \cup Outgoings(n, out, p.base, "live") /\ s.v[n].master = p.master
      BY <1>12, <1>16
    <3> QED
      BY <1>14, <3>1
  <2>4. t.beats = IF t.v[n].master THEN s.beats \cup From(n) ELSE s.beats
    <3>1. t.beats = s.beats \cup Outgoings(n, out, p.base, "beat") /\ t.v[n].master = e.master
      BY <1>7, <1>12, <1>16
    <3> QED
      BY <1>14, <3>1
  <2> QED
    BY <2>1, <2>2, <2>3, <2>4
<1>21. IF s.v[n].master \/ s.v[n].hbAge < HbTimeout
       THEN Same(s, t, n)
       ELSE ~s.v[n].master /\ Elected(s, t, n)
  BY <1>3, <1>7, <1>16, <1>18 DEF Same, Elected, Alike
<1>22. t.w = s.w \cup {n}
  BY <1>16, <1>17
<1>23. Woken(s, t, n)
  BY <1>15, <1>19, <1>20, <1>21, <1>22 DEF Woken
<1> QED
  BY <1>12, <1>23 DEF s, t

-----------------------------------------------------------------------------
(* Receiving. *)

LEMMA HeadIs ==
  ASSUME Calm, NEW x \in Node, NEW n \in Node, x # n, 1 \in DOMAIN net[<<x, n>>],
         NEW h, h = Kind(proc[x].base, net[<<x, n>>][1])
  PROVE  /\ h # "odd" /\ <<x, n>> \in Has(net, proc, h)
         /\ h = "beat" => <<x, n>> \notin Has(net, proc, "live")
         /\ h = "zero" => <<x, n>> \notin Has(net, proc, "beat")
<1> DEFINE r == [net EXCEPT ![<<x, n>>] = RemoveAt(@, 1)]
<1>1. net \in Nets /\ Straight(net, proc)
  BY DEF Calm, Typed
<1>2. <<x, n>> \in Link /\ net[<<x, n>>] \in Seq(Packet)
  BY <1>1 DEF Link, Nets
<1>3. r \in Nets
  BY <1>1, <1>2, TakenOk
<1>4. r[<<x, n>>] = RemoveAt(net[<<x, n>>], 1) /\ \A c \in Link \ {<<x, n>>} : r[c] = net[c]
  BY <1>1, <1>2 DEF Nets
<1> HIDE DEF r
<1> QED
  BY <1>1, <1>3, <1>4, Dropped

\* L is K without the packet taken and with A.
Gets(K, L, A, x, n, same) == \E M : Off(K, M, x, n) /\ (same => M = K) /\ L = M \cup A

LEMMA NowGets ==
  ASSUME Calm, NEW x \in Node, NEW n \in Node, x # n, 1 \in DOMAIN net[<<x, n>>],
         NEW h, h = Kind(proc[x].base, net[<<x, n>>][1]),
         NEW p \in Proc, p.base = proc[n].base, NEW out \in Outs, Take(x, n, 1, p, out),
         \A d \in Node \ {n} : Follows(net, proc, n, d, out),
         NEW s, s = Now, NEW t, t = Now'
  PROVE  /\ Gets(s.beats, t.beats, Outgoings(n, out, p.base, "beat"), x, n, h # "beat")
         /\ Gets(s.zeros, t.zeros, Outgoings(n, out, p.base, "zero"), x, n, h # "zero")
         /\ Gets(s.lives, t.lives, Outgoings(n, out, p.base, "live"), x, n, h # "live")
         /\ Gets(s.asks, t.asks, Outgoings(n, out, p.base, "ask"), x, n, h # "ask")
         /\ By(s, t, n) /\ t.w = s.w /\ t.v[n] = p /\ Straight(net', proc')
<1>1. /\ \A k : \E M : /\ Off(Has(net, proc, k), M, x, n)
                       /\ k # h => M = Has(net, proc, k)
                       /\ Has(net', proc', k) = M \cup Outgoings(n, out, p.base, k)
      /\ Straight(net', proc')
      /\ proc'[n] = p /\ \A j \in Node \ {n} : proc'[j] = proc[j]
  BY TakeIs
<1>2. Typed
  BY DEF Calm
<1>3. By(s, t, n)
  BY <1>1, <1>2, ByIs
<1>4. t.w = s.w /\ t.v[n] = p
  BY <1>1, <1>2, NowIs, NextIs DEF Take
<1>5. \A k : Gets(Has(net, proc, k), Has(net', proc', k), Outgoings(n, out, p.base, k), x, n, h # k)
  BY <1>1 DEF Gets
<1>6. /\ s.beats = Has(net, proc, "beat") /\ s.zeros = Has(net, proc, "zero")
      /\ s.lives = Has(net, proc, "live") /\ s.asks = Has(net, proc, "ask")
      /\ t.beats = Has(net', proc', "beat") /\ t.zeros = Has(net', proc', "zero")
      /\ t.lives = Has(net', proc', "live") /\ t.asks = Has(net', proc', "ask")
  BY <1>2, NowIs, NextIs
<1> QED
  BY <1>1, <1>3, <1>4, <1>5, <1>6

\* A packet that is not answered.
LEMMA NowLoses ==
  ASSUME Calm, NEW x \in Node, NEW n \in Node, x # n, 1 \in DOMAIN net[<<x, n>>],
         NEW h, h = Kind(proc[x].base, net[<<x, n>>][1]),
         NEW p \in Proc, p.base = proc[n].base, Take(x, n, 1, p, Nothing),
         NEW s, s = Now, NEW t, t = Now'
  PROVE  /\ Off(s.beats, t.beats, x, n) /\ (h # "beat" => t.beats = s.beats)
         /\ Off(s.zeros, t.zeros, x, n) /\ (h # "zero" => t.zeros = s.zeros)
         /\ Off(s.lives, t.lives, x, n) /\ (h # "live" => t.lives = s.lives)
         /\ Off(s.asks, t.asks, x, n) /\ (h # "ask" => t.asks = s.asks)
         /\ By(s, t, n) /\ t.w = s.w /\ t.v[n] = p /\ Straight(net', proc')
<1>1. Nothing \in Outs /\ (\A d \in Node \ {n} : Follows(net, proc, n, d, Nothing))
      /\ \A k : Outgoings(n, Nothing, p.base, k) = {}
  BY OutsAre, NoOutgoings
<1>2. /\ Gets(s.beats, t.beats, Outgoings(n, Nothing, p.base, "beat"), x, n, h # "beat")
      /\ Gets(s.zeros, t.zeros, Outgoings(n, Nothing, p.base, "zero"), x, n, h # "zero")
      /\ Gets(s.lives, t.lives, Outgoings(n, Nothing, p.base, "live"), x, n, h # "live")
      /\ Gets(s.asks, t.asks, Outgoings(n, Nothing, p.base, "ask"), x, n, h # "ask")
      /\ By(s, t, n) /\ t.w = s.w /\ t.v[n] = p /\ Straight(net', proc')
  BY <1>1, NowGets
<1>3. ASSUME NEW K, NEW L, NEW k, NEW c, Gets(K, L, Outgoings(n, Nothing, p.base, k), x, n, c)
      PROVE  Off(K, L, x, n) /\ (c => L = K)
  BY <1>1, <1>3 DEF Gets
<1>4. Off(s.beats, t.beats, x, n) /\ (h # "beat" => t.beats = s.beats)
  BY <1>2, <1>3
<1>5. Off(s.zeros, t.zeros, x, n) /\ (h # "zero" => t.zeros = s.zeros)
  BY <1>2, <1>3
<1>6. Off(s.lives, t.lives, x, n) /\ (h # "live" => t.lives = s.lives)
  BY <1>2, <1>3
<1>7. Off(s.asks, t.asks, x, n) /\ (h # "ask" => t.asks = s.asks)
  BY <1>2, <1>3
<1> QED
  BY <1>2, <1>4, <1>5, <1>6, <1>7

\* The process after a ping.
LEMMA PingIs ==
  ASSUME Typed, NEW x \in Node, NEW n \in Node, <<x, n>> \in Link, NEW m \in Packet, RecvPing(x, n, 1, m)
  PROVE  \E q \in Proc :
           LET p == proc[n]
           IN  /\ Take(x, n, 1, q, Nothing)
               /\ q.up = p.up /\ q.base = p.base /\ q.upAge = p.upAge /\ q.quit = p.quit
               /\ q.peer[x].base = m.base /\ q.peer[x].age = 0 /\ q.peer[x].known
               /\ \A y \in Node \ {x} : \/ q.peer[y] = p.peer[y]
                                        \/ p.peer[y].known /\ p.peer[y].base = 0 /\ q.peer[y] = NoPeer
               /\ IF p.addr # x
                  THEN q.hbAge = p.hbAge /\ q.addr = p.addr /\ q.master = p.master
                  ELSE IF p.master \/ p.upAge < HbTimeout THEN TRUE
                  ELSE /\ q.hbAge = 0 /\ q.addr = 0
                       /\ q.master => /\ ~p.quit
                                      /\ \E r : /\ ~Deferred(n, r) /\ r.base = p.base
                                                /\ \A y \in Node \ {x} : r.peer[y] = p.peer[y]
<1> DEFINE p     == proc[n]
           entry == [base |-> m.base, age |-> 0, utd |-> ~m.undef, known |-> TRUE]
           known == p.peer[x].known
           p1    == IF known THEN [p EXCEPT !.peer[x] = entry] ELSE p
           p3    == [p1 EXCEPT !.addr = 0, !.hbAge = p.upAge]
           p2    == IF x = p.addr THEN CheckMaster(n, p3) ELSE p1
           gone  == {d \in Node : p2.peer[d].known /\ p2.peer[d].base = 0}
<1>1. p \in Proc
  BY DEF Typed
<1>2. entry \in Peer /\ entry.base = m.base /\ entry.age = 0 /\ entry.known
  BY Zeros, PacketIs DEF Peer, RecvPing
<1>3. \/ known /\ Take(x, n, 1, p2, Nothing)
      \/ ~known /\ Take(x, n, 1, [p2 EXCEPT !.peer[x] = entry], Nothing)
      \/ ~known /\ \E d \in gone : Take(x, n, 1, [p2 EXCEPT !.peer[d] = NoPeer, !.peer[x] = entry], Nothing)
  BY DEF RecvPing
<1> HIDE DEF p, entry
<1>4. /\ p1 \in Proc /\ p1.up = p.up /\ p1.base = p.base /\ p1.upAge = p.upAge /\ p1.quit = p.quit /\ p1.master = p.master
      /\ p1.addr = p.addr /\ p1.hbAge = p.hbAge
      /\ \A y \in Node \ {x} : p1.peer[y] = p.peer[y]
      /\ known => p1.peer[x] = entry
      /\ ~known => p1 = p
  BY <1>1, <1>2 DEF Proc, PType
<1> HIDE DEF p1
<1>5. /\ p3 \in Proc /\ p3.up = p.up /\ p3.base = p.base /\ p3.upAge = p.upAge /\ p3.quit = p.quit /\ p3.master = p.master
      /\ p3.hbAge = p.upAge /\ p3.peer = p1.peer
  BY <1>1, <1>4, Zeros DEF Proc, PType
<1> HIDE DEF p3
<1>6. /\ p2 \in Proc /\ p2.up = p.up /\ p2.base = p.base /\ p2.upAge = p.upAge /\ p2.quit = p.quit /\ p2.peer = p1.peer
      /\ IF p.addr # x
         THEN p2.hbAge = p.hbAge /\ p2.addr = p.addr /\ p2.master = p.master
         ELSE IF p.master \/ p.upAge < HbTimeout THEN TRUE
         ELSE /\ p2.hbAge = 0 /\ p2.addr = 0
              /\ p2.master => /\ ~p.quit
                              /\ \E r : /\ ~Deferred(n, r) /\ r.base = p.base
                                        /\ \A y \in Node \ {x} : r.peer[y] = p.peer[y]
  <2>1. CASE x = p.addr
    <3>1. p2 = CheckMaster(n, p3)
      BY <2>1
    <3> HIDE DEF p2
    <3>2. p2 \in Proc
      BY <1>5, <3>1, CheckMasterOk
    <3>3. /\ p2.up = p3.up /\ p2.base = p3.base /\ p2.upAge = p3.upAge /\ p2.quit = p3.quit /\ p2.peer = p3.peer
          /\ IF p3.master \/ p3.hbAge < HbTimeout
             THEN p2 = p3
             ELSE p2.hbAge = 0 /\ p2.addr = 0 /\ (p2.master => ~p3.quit /\ ~Deferred(n, p3))
      BY <1>5, <3>1, CheckMasterIs
    <3>4. p3.base = p.base /\ \A y \in Node \ {x} : p3.peer[y] = p.peer[y]
      BY <1>4, <1>5
    <3>5. ~Deferred(n, p3) => \E r : /\ ~Deferred(n, r) /\ r.base = p.base
                                    /\ \A y \in Node \ {x} : r.peer[y] = p.peer[y]
      BY <3>4
    <3> QED
      BY <1>5, <2>1, <3>2, <3>3, <3>5
  <2>2. CASE x # p.addr
    BY <1>4, <2>2
  <2> QED
    BY <2>1, <2>2
<1> HIDE DEF p2
<1>7. \A y \in Node \ {x} : p2.peer[y] = p.peer[y]
  BY <1>4, <1>6
<1>8. PICK q \in Proc :
        /\ Take(x, n, 1, q, Nothing)
        /\ q.up = p2.up /\ q.base = p2.base /\ q.upAge = p2.upAge /\ q.quit = p2.quit
        /\ q.hbAge = p2.hbAge /\ q.addr = p2.addr /\ q.master = p2.master
        /\ q.peer[x] = entry
        /\ \A y \in Node \ {x} : \/ q.peer[y] = p.peer[y]
                                 \/ p.peer[y].known /\ p.peer[y].base = 0 /\ q.peer[y] = NoPeer
  <2>1. CASE known /\ Take(x, n, 1, p2, Nothing)
    BY <1>4, <1>6, <1>7, <2>1
  <2>2. CASE ~known /\ Take(x, n, 1, [p2 EXCEPT !.peer[x] = entry], Nothing)
    <3> DEFINE q == [p2 EXCEPT !.peer[x] = entry]
    <3>1. /\ q \in Proc /\ q.up = p2.up /\ q.base = p2.base /\ q.upAge = p2.upAge /\ q.quit = p2.quit
          /\ q.hbAge = p2.hbAge /\ q.addr = p2.addr /\ q.master = p2.master
          /\ q.peer[x] = entry /\ \A y \in Node \ {x} : q.peer[y] = p2.peer[y]
      BY <1>2, <1>6 DEF Proc, PType
    <3>2. Take(x, n, 1, q, Nothing)
      BY <2>2
    <3> HIDE DEF q
    <3> QED
      BY <1>7, <3>1, <3>2
  <2>3. CASE ~known /\ \E d \in gone : Take(x, n, 1, [p2 EXCEPT !.peer[d] = NoPeer, !.peer[x] = entry], Nothing)
    <3>1. PICK d \in gone : Take(x, n, 1, [p2 EXCEPT !.peer[d] = NoPeer, !.peer[x] = entry], Nothing)
      BY <2>3
    <3> DEFINE q == [p2 EXCEPT !.peer[d] = NoPeer, !.peer[x] = entry]
    <3>2. d \in Node /\ d # x /\ p.peer[d].known /\ p.peer[d].base = 0
      BY <1>4, <1>6, <2>3
    <3>3. /\ q \in Proc /\ q.up = p2.up /\ q.base = p2.base /\ q.upAge = p2.upAge /\ q.quit = p2.quit
          /\ q.hbAge = p2.hbAge /\ q.addr = p2.addr /\ q.master = p2.master
          /\ q.peer[x] = entry /\ q.peer[d] = NoPeer
          /\ \A y \in Node \ {x} : y # d => q.peer[y] = p2.peer[y]
      BY <1>2, <1>6, <3>2, NoPeerIs DEF Proc, PType
    <3>4. Take(x, n, 1, q, Nothing)
      BY <3>1
    <3> HIDE DEF q
    <3> QED
      BY <1>7, <3>2, <3>3, <3>4
  <2> QED
    BY <1>3, <2>1, <2>2, <2>3
<1>9. q.peer[x].base = m.base /\ q.peer[x].age = 0 /\ q.peer[x].known
  BY <1>2, <1>8
<1> QED
  BY <1>6, <1>8, <1>9 DEF p

LEMMA RecvPingIs ==
  ASSUME Calm, NEW x \in Node, NEW n \in Up, x # n, 1 \in DOMAIN net[<<x, n>>],
         NEW m, m = net[<<x, n>>][1], RecvPing(x, n, 1, m)
  PROVE  (Pinged(Now, Now', x, n) \/ Left(Now, Now', x, n)) /\ Straight(net', proc')
<1>1. n \in Node /\ Typed /\ <<x, n>> \in Link /\ m \in Packet /\ m.type = "ping"
  <2>1. net[<<x, n>>] \in Seq(Packet) /\ <<x, n>> \in Link
    BY DEF Calm, Typed, Nets, Link, Up
  <2>2. m \in Packet
    BY <2>1
  <2>3. m.type = "ping"
    BY DEF RecvPing
  <2> QED
    BY <2>1, <2>2, <2>3, UpIs DEF Calm
<1>2. PICK q \in Proc :
        LET p == proc[n]
        IN  /\ Take(x, n, 1, q, Nothing)
            /\ q.up = p.up /\ q.base = p.base /\ q.upAge = p.upAge /\ q.quit = p.quit
            /\ q.peer[x].base = m.base /\ q.peer[x].age = 0 /\ q.peer[x].known
            /\ \A y \in Node \ {x} : \/ q.peer[y] = p.peer[y]
                                     \/ p.peer[y].known /\ p.peer[y].base = 0 /\ q.peer[y] = NoPeer
            /\ IF p.addr # x
               THEN q.hbAge = p.hbAge /\ q.addr = p.addr /\ q.master = p.master
               ELSE IF p.master \/ p.upAge < HbTimeout THEN TRUE
               ELSE /\ q.hbAge = 0 /\ q.addr = 0
                    /\ q.master => /\ ~p.quit
                                   /\ \E r : /\ ~Deferred(n, r) /\ r.base = p.base
                                             /\ \A y \in Node \ {x} : r.peer[y] = p.peer[y]
  <2> HIDE DEF Typed
  <2> QED
    BY <1>1, PingIs
<1> DEFINE p == proc[n]
           s == Now
           t == Now'
           h == Kind(proc[x].base, m)
<1>3. s \in Snaps /\ s.v = proc /\ Heard(s) /\ n \in Ups(s) /\ p.up /\ p.base \in Nat
  BY UpIs DEF Orderly
<1>4. /\ h # "odd" /\ <<x, n>> \in Has(net, proc, h)
      /\ h = "zero" => <<x, n>> \notin Has(net, proc, "beat")
  BY <1>1, HeadIs
<1>5. \/ m.base = 0 /\ h = "zero"
      \/ m.base = proc[x].base /\ h = "live"
  BY <1>1, <1>4, KindIs
<1>6. /\ Off(s.beats, t.beats, x, n) /\ (h # "beat" => t.beats = s.beats)
      /\ Off(s.zeros, t.zeros, x, n) /\ (h # "zero" => t.zeros = s.zeros)
      /\ Off(s.lives, t.lives, x, n) /\ (h # "live" => t.lives = s.lives)
      /\ Off(s.asks, t.asks, x, n) /\ (h # "ask" => t.asks = s.asks)
      /\ By(s, t, n) /\ t.w = s.w /\ t.v[n] = q /\ Straight(net', proc')
  BY <1>1, <1>2, NowLoses
<1>7. /\ s.v[n] = p /\ s.beats = Has(net, proc, "beat") /\ s.zeros = Has(net, proc, "zero")
      /\ s.lives = Has(net, proc, "live")
  BY <1>1, NowIs
<1>8. ASSUME NEW r, ~Deferred(n, r), r.base = p.base, \A y \in Node \ {x} : r.peer[y] = p.peer[y]
      PROVE  \A y \in Node \ {n, x} : ~Defers(s, n, y)
  BY <1>1, <1>3, <1>7, <1>8, GivesWay
<1> HIDE DEF p, s, t, h
<1>9. Lives(s, t, n) /\ Known(s, t, x, n, m.base)
  <2>1. t.v[n] = q /\ s.v[n] = p
    BY <1>6, <1>7
  <2>2. /\ q.up /\ p.up /\ q.upAge = p.upAge /\ q.quit = p.quit
        /\ q.peer[x].base = m.base /\ q.peer[x].age = 0 /\ q.peer[x].known
        /\ \A y \in Node \ {x} : \/ q.peer[y] = p.peer[y]
                                 \/ p.peer[y].known /\ p.peer[y].base = 0 /\ q.peer[y] = NoPeer
    BY <1>2, <1>3 DEF p
  <2>3. Lives(s, t, n)
    BY <2>1, <2>2 DEF Lives
  <2>4. Known(s, t, x, n, m.base)
    BY <2>1, <2>2 DEF Known
  <2> QED
    BY <2>3, <2>4
<1>10. p.addr # x => Same(s, t, n)
  BY <1>2, <1>6, <1>7 DEF Same, p
<1>11. CASE m.base = 0 /\ h = "zero"
  <2>1. IF s.v[n].addr # x
        THEN Same(s, t, n)
        ELSE IF s.v[n].master \/ s.v[n].upAge < HbTimeout THEN TRUE
        ELSE /\ t.v[n].hbAge = 0 /\ t.v[n].addr = 0
             /\ t.v[n].master => ~s.v[n].quit /\ \A y \in Node \ {n, x} : ~Defers(s, n, y)
    BY <1>2, <1>6, <1>7, <1>8, <1>10 DEF p
  <2>2. Left(s, t, x, n)
    BY <1>4, <1>6, <1>7, <1>9, <1>11, <2>1 DEF Left
  <2> QED
    BY <1>6, <2>2 DEF s, t
<1>12. CASE m.base = proc[x].base /\ h = "live"
  <2>1. s.v[x].base = proc[x].base
    BY <1>3
  <2>2. Pinged(s, t, x, n)
    BY <1>4, <1>6, <1>7, <1>9, <1>10, <1>12, <2>1 DEF Pinged
  <2> QED
    BY <1>6, <2>2 DEF s, t
<1> QED
  BY <1>5, <1>11, <1>12

\* Nobody changes; a master may send heartbeats again.
LEMMA PassedIs ==
  ASSUME Calm, NEW x \in Node, NEW n \in Up, x # n, 1 \in DOMAIN net[<<x, n>>],
         NEW h, h = Kind(proc[x].base, net[<<x, n>>][1]), h \in {"beat", "ask", "kill"},
         NEW u, To(x, u) \in Outs, Clean(u, proc[n].base),
         \A k : In(u, proc[n].base, k) => k \in {"beat", "kill"},
         In(u, proc[n].base, "beat") \/ h = "beat" => proc[n].master,
         Take(x, n, 1, proc[n], To(x, u))
  PROVE  Passed(Now, Now', x, n) /\ Straight(net', proc')
<1> DEFINE p   == proc[n]
           s   == Now
           t   == Now'
           out == To(x, u)
<1>1. /\ n \in Node /\ Typed /\ s \in Snaps /\ s.v = proc /\ n \in Ups(s) /\ p \in Proc
      /\ \A d \in Node : <<n, d>> \in Has(net, proc, "zero") => ~p.master
  BY UpIs DEF Calm
<1>2. \A d \in Node \ {n} : Follows(net, proc, n, d, out)
  <2>1. <<n, x>> \in Has(net, proc, "zero") => ~In(u, p.base, "beat")
    BY <1>1
  <2> QED
    BY <1>1, <2>1, OneOutgoing
<1>3. \A k : Outgoings(n, out, p.base, k) = IF In(u, p.base, k) THEN {<<n, x>>} ELSE {}
  BY <1>1, OneOutgoing
<1> HIDE DEF out
<1>4. /\ Gets(s.beats, t.beats, Outgoings(n, out, p.base, "beat"), x, n, h # "beat")
      /\ Gets(s.zeros, t.zeros, Outgoings(n, out, p.base, "zero"), x, n, h # "zero")
      /\ Gets(s.lives, t.lives, Outgoings(n, out, p.base, "live"), x, n, h # "live")
      /\ Gets(s.asks, t.asks, Outgoings(n, out, p.base, "ask"), x, n, h # "ask")
      /\ By(s, t, n) /\ t.w = s.w /\ t.v[n] = p /\ Straight(net', proc')
  BY <1>1, <1>2, NowGets DEF out
<1>5. /\ Outgoings(n, out, p.base, "zero") = {} /\ Outgoings(n, out, p.base, "live") = {}
      /\ Outgoings(n, out, p.base, "ask") = {}
      /\ Outgoings(n, out, p.base, "beat") = IF In(u, p.base, "beat") THEN {<<n, x>>} ELSE {}
  BY <1>3
<1> HIDE DEF s, t, p
<1>6. t.zeros = s.zeros /\ t.lives = s.lives /\ t.asks \subseteq s.asks
  BY <1>4, <1>5 DEF Gets, Off
<1>7. \/ t.beats = s.beats
      \/ /\ s.v[n].master
         /\ t.beats \subseteq s.beats \cup {<<n, x>>} /\ s.beats \ {<<x, n>>} \subseteq t.beats
  <2>1. CASE p.master
    BY <1>1, <1>4, <1>5, <2>1 DEF Gets, Off, p
  <2>2. CASE ~p.master
    BY <1>4, <1>5, <2>2 DEF Gets, p
  <2> QED
    BY <2>1, <2>2
<1>8. t.v = s.v
  <2>1. t.v = proc' /\ proc \in [Node -> Proc]
    BY <1>1, NextIs DEF t, Typed
  <2>2. proc' = [proc EXCEPT ![n] = proc[n]]
    BY DEF Take
  <2>3. proc' = proc
    BY <1>1, <2>1, <2>2
  <2> QED
    BY <1>1, <2>1, <2>3
<1>9. s.v[n].up
  BY <1>1 DEF Ups
<1> QED
  BY <1>4, <1>6, <1>7, <1>8, <1>9 DEF Passed, s, t

LEMMA NothingIs == ASSUME NEW x \in Node PROVE Nothing = To(x, <<>>)
  BY DEF Nothing, To

LEMMA ExitIs == ASSUME Typed, NEW n \in Node
                PROVE  Exit(n) \in Proc /\ Exit(n).base = proc[n].base /\ ~Exit(n).up
<1>1. proc[n].base \in Nat
  BY DEF Typed, Proc, PType
<1>2. Exit(n) \in Proc
  BY <1>1, FreshOk DEF Exit
<1> QED
  BY <1>2 DEF Exit, Down, Fresh

LEMMA ExitTakes ==
  ASSUME Calm, NEW x \in Node, NEW n \in Up, x # n, 1 \in DOMAIN net[<<x, n>>], Take(x, n, 1, Exit(n), Nothing)
  PROVE  Ended(Now, Now', n) /\ Straight(net', proc')
<1> DEFINE s == Now
           t == Now'
           q == Exit(n)
           h == Kind(proc[x].base, net[<<x, n>>][1])
<1>1. n \in Node /\ Typed /\ s \in Snaps /\ s.v = proc /\ n \in Ups(s) /\ proc[n].up
  BY UpIs DEF Calm
<1>2. q \in Proc /\ q.base = proc[n].base /\ ~q.up
  BY <1>1, ExitIs
<1> HIDE DEF q
<1>3. /\ Off(s.beats, t.beats, x, n) /\ (h # "beat" => t.beats = s.beats)
      /\ Off(s.zeros, t.zeros, x, n) /\ (h # "zero" => t.zeros = s.zeros)
      /\ Off(s.lives, t.lives, x, n) /\ (h # "live" => t.lives = s.lives)
      /\ Off(s.asks, t.asks, x, n) /\ (h # "ask" => t.asks = s.asks)
      /\ By(s, t, n) /\ t.w = s.w /\ t.v[n] = q /\ Straight(net', proc')
  BY <1>1, <1>2, NowLoses DEF q
<1> HIDE DEF s, t, h
<1>4. \A c \in Link : c[2] = n \/ /\ c \in s.lives => c \in t.lives
                                  /\ c \in s.zeros => c \in t.zeros
                                  /\ c \in s.beats => c \in t.beats
  BY <1>3 DEF Off
<1>5. t.beats \subseteq s.beats /\ t.zeros \subseteq s.zeros /\ t.lives \subseteq s.lives /\ t.asks \subseteq s.asks
  BY <1>3 DEF Off
<1>6. s.v[n].up /\ ~t.v[n].up
  BY <1>1, <1>2, <1>3
<1>7. Ended(s, t, n)
  BY <1>3, <1>4, <1>5, <1>6 DEF Ended
<1> QED
  BY <1>3, <1>7 DEF s, t

LEMMA BeatenIs ==
  ASSUME Calm, NEW x \in Node, NEW n \in Up, x # n, 1 \in DOMAIN net[<<x, n>>],
         Kind(proc[x].base, net[<<x, n>>][1]) = "beat", ~proc[n].master,
         NEW u, To(x, u) \in Outs, Clean(u, proc[n].base), \A k : In(u, proc[n].base, k) => k = "ask",
         NEW q \in Proc, q.up = proc[n].up, q.base = proc[n].base, q.upAge = proc[n].upAge, q.quit = proc[n].quit,
         q.peer = proc[n].peer, ~q.master, Take(x, n, 1, q, To(x, u)),
         \/ proc[n].addr \notin {0, x} /\ q = proc[n]
         \/ proc[n].addr \in {0, x} /\ q.hbAge = 0 /\ q.addr \in {proc[n].addr, x}
  PROVE  Beaten(Now, Now', x, n) /\ Straight(net', proc')
<1> DEFINE p   == proc[n]
           s   == Now
           t   == Now'
           out == To(x, u)
           h   == Kind(proc[x].base, net[<<x, n>>][1])
<1>1. /\ n \in Node /\ Typed /\ s \in Snaps /\ s.v = proc /\ n \in Ups(s) /\ p \in Proc /\ p.up
  BY UpIs DEF Calm
<1>2. q.up = p.up /\ q.base = p.base /\ q.upAge = p.upAge /\ q.quit = p.quit /\ q.peer = p.peer
  OBVIOUS
<1>3. \A d \in Node \ {n} : Follows(net, proc, n, d, out)
  <2>1. ~In(u, p.base, "beat") /\ ~In(u, p.base, "live")
    OBVIOUS
  <2> QED
    BY <1>1, <2>1, OneOutgoing
<1>4. \A k : Outgoings(n, out, p.base, k) = IF In(u, p.base, k) THEN {<<n, x>>} ELSE {}
  BY <1>1, OneOutgoing
<1> HIDE DEF out, p
<1>5. /\ Gets(s.beats, t.beats, Outgoings(n, out, q.base, "beat"), x, n, h # "beat")
      /\ Gets(s.zeros, t.zeros, Outgoings(n, out, q.base, "zero"), x, n, h # "zero")
      /\ Gets(s.lives, t.lives, Outgoings(n, out, q.base, "live"), x, n, h # "live")
      /\ Gets(s.asks, t.asks, Outgoings(n, out, q.base, "ask"), x, n, h # "ask")
      /\ By(s, t, n) /\ t.w = s.w /\ t.v[n] = q /\ Straight(net', proc')
  BY <1>1, <1>2, <1>3, NowGets DEF out, p
<1>6. /\ Outgoings(n, out, q.base, "zero") = {} /\ Outgoings(n, out, q.base, "live") = {}
      /\ Outgoings(n, out, q.base, "beat") = {} /\ Outgoings(n, out, q.base, "ask") \subseteq {<<n, x>>}
  BY <1>2, <1>4 DEF p
<1>7. <<x, n>> \in s.beats /\ <<x, n>> \notin s.lives
  <2>1. h = "beat" /\ n \in Node
    BY <1>1
  <2>2. <<x, n>> \in Has(net, proc, "beat") /\ <<x, n>> \notin Has(net, proc, "live")
    BY <2>1, HeadIs
  <2> QED
    BY <1>1, <2>2, NowIs
<1>8. h = "beat" /\ s.v[n] = p
  BY <1>1 DEF p
<1>9. ~p.master
  BY DEF p
<1>10. \/ p.addr \notin {0, x} /\ q = p
       \/ p.addr \in {0, x} /\ q.hbAge = 0 /\ q.addr \in {p.addr, x}
  BY DEF p
<1> HIDE DEF s, t, h
<1>11. Off(s.beats, t.beats, x, n) /\ t.zeros = s.zeros /\ t.lives = s.lives /\ t.asks \subseteq s.asks \cup {<<n, x>>}
  BY <1>5, <1>6, <1>8 DEF Gets, Off
<1>12. Lives(s, t, n) /\ t.v[n].peer = s.v[n].peer
  BY <1>1, <1>2, <1>5, <1>8 DEF Lives
<1>13. \/ s.v[n].addr \notin {0, x} /\ Same(s, t, n)
       \/ s.v[n].addr \in {0, x} /\ t.v[n].hbAge = 0 /\ t.v[n].addr \in {s.v[n].addr, x}
  BY <1>5, <1>8, <1>10 DEF Same
<1>14. Beaten(s, t, x, n)
  BY <1>5, <1>7, <1>8, <1>9, <1>11, <1>12, <1>13 DEF Beaten
<1> QED
  BY <1>5, <1>14 DEF s, t

\* The first packet on its way from x to n, and the process it reaches.
LEMMA FirstIs ==
  ASSUME Calm, NEW x \in Node, NEW n \in Up, x # n, 1 \in DOMAIN net[<<x, n>>],
         NEW m, m = net[<<x, n>>][1]
  PROVE  /\ n \in Node /\ Typed /\ <<x, n>> \in Link /\ m \in Packet /\ proc[n] \in Proc
         /\ Kind(proc[x].base, m) # "odd"
         /\ <<x, n>> \in Has(net, proc, Kind(proc[x].base, m))
         /\ proc[n].seq \in -1 .. HB_MAX_SEQ - 1
<1>1. n \in Node /\ Typed /\ proc[n] \in Proc
  BY UpIs DEF Calm
<1>2. net[<<x, n>>] \in Seq(Packet) /\ <<x, n>> \in Link
  BY <1>1 DEF Typed, Nets, Link
<1>3. m \in Packet
  BY <1>2
<1>4. Kind(proc[x].base, m) # "odd" /\ <<x, n>> \in Has(net, proc, Kind(proc[x].base, m))
  BY <1>1, HeadIs
<1>5. proc[n].seq \in -1 .. HB_MAX_SEQ - 1
  BY <1>1 DEF Proc, PType
<1> QED
  BY <1>1, <1>2, <1>3, <1>4, <1>5

LEMMA SlaveRecvBeatIs ==
  ASSUME Calm, NEW x \in Node, NEW n \in Up, x # n, 1 \in DOMAIN net[<<x, n>>],
         NEW m, m = net[<<x, n>>][1], SlaveRecvBeat(x, n, 1, m)
  PROVE  Beaten(Now, Now', x, n) /\ Straight(net', proc')
<1> DEFINE p == proc[n]
           e == Expected(p, m.hb)
<1>1. n \in Node /\ p \in Proc /\ m \in Packet /\ Kind(proc[x].base, m) # "odd"
  BY FirstIs
<1>2. m.type = "beat" /\ ~p.master
  BY DEF SlaveRecvBeat
<1>3. Kind(proc[x].base, m) = "beat" /\ m.hb \in Beats
  BY <1>1, <1>2, KindIs, PacketIs
<1>4. To(x, <<>>) \in Outs /\ Clean(<<>>, p.base) /\ \A k : ~In(<<>>, p.base, k)
  BY <1>1, NothingIs, OutsAre, Short
<1>5. \/ p.addr \notin {0, x} /\ Take(x, n, 1, p, Nothing)
      \/ p.addr \in {0, x} /\ Take(x, n, 1, [p EXCEPT !.hbAge = 0], To(x, <<LastSeen(e)>>))
      \/ p.addr \in {0, x} /\ \E done \in BOOLEAN : Take(x, n, 1, Applied(p, x, m.hb, done), Nothing)
  BY DEF SlaveRecvBeat
<1> HIDE DEF p
<1>6. CASE p.addr \notin {0, x} /\ Take(x, n, 1, p, Nothing)
  <2>1. Take(x, n, 1, p, To(x, <<>>))
    BY <1>6, NothingIs
  <2> QED
    BY <1>1, <1>2, <1>3, <1>4, <1>6, <2>1, BeatenIs DEF p
<1>7. CASE p.addr \in {0, x} /\ Take(x, n, 1, [p EXCEPT !.hbAge = 0], To(x, <<LastSeen(e)>>))
  <2> DEFINE q == [p EXCEPT !.hbAge = 0]
             u == <<LastSeen(e)>>
             l == LastSeen(e)
  <2>1. /\ q \in Proc /\ q.up = p.up /\ q.base = p.base /\ q.upAge = p.upAge /\ q.quit = p.quit
        /\ q.peer = p.peer /\ ~q.master /\ q.hbAge = 0 /\ q.addr = p.addr
    BY <1>1, <1>2, Zeros DEF Proc, PType
  <2>2. Take(x, n, 1, q, To(x, u))
    BY <1>7
  <2>3. e \in -1 .. HB_MAX_SEQ - 1
    BY <1>1, <1>3, Sizes DEF Expected, Proc, PType, Beats
  <2>4. l \in Packet
    BY <2>3, PacketsAre
  <2>5. Kind(p.base, l) = "ask"
    <3>1. p.base # 0
      BY UpIs DEF p
    <3> QED
      BY <3>1, Kinds
  <2>6. u = <<l>>
    OBVIOUS
  <2> HIDE DEF q, u, l, e
  <2>7. Clean(u, p.base) /\ \A k : In(u, p.base, k) => k = "ask"
    BY <2>5, <2>6, Single
  <2>8. To(x, u) \in Outs
    <3>1. u \in Seq(Packet)
      BY <2>4, <2>6
    <3> QED
      BY <3>1, OutsAre
  <2> QED
    BY <1>1, <1>2, <1>3, <1>7, <2>1, <2>2, <2>7, <2>8, BeatenIs DEF p
<1>8. CASE p.addr \in {0, x} /\ \E done \in BOOLEAN : Take(x, n, 1, Applied(p, x, m.hb, done), Nothing)
  <2>1. PICK done \in BOOLEAN : Take(x, n, 1, Applied(p, x, m.hb, done), Nothing)
    BY <1>8
  <2> DEFINE q == Applied(p, x, m.hb, done)
             r == Saved(p, m.hb)
  <2>2. r \in Proc /\ Alike(p, r) /\ r.master = p.master
    BY <1>1, <1>3, SavedOk, SavedAlike
  <2>3. /\ q \in Proc /\ q.up = r.up /\ q.base = r.base /\ q.upAge = r.upAge /\ q.quit = r.quit
        /\ q.peer = r.peer /\ q.master = r.master /\ q.hbAge = 0 /\ q.addr = x
    <3> HIDE DEF r
    <3>1. q = [r EXCEPT !.addr  = x,
                        !.hbAge = 0,
                        !.tv    = m.hb.tv,
                        !.has   = IF p.seq = -1 THEN m.hb.all ELSE @ \cup m.hb.new,
                        !.utd   = @ \/ done,
                        !.adv   = @ \/ (done /\ ~p.utd)]
      BY DEF Applied, r
    <3>2. m.hb.tv \in Nat /\ m.hb.all \subseteq Changes /\ m.hb.new \subseteq Changes
      BY <1>3 DEF Beats
    <3> DEFINE hs == IF p.seq = -1 THEN m.hb.all ELSE r.has \cup m.hb.new
               ut == r.utd \/ done
               ad == r.adv \/ (done /\ ~p.utd)
    <3>3. hs \subseteq Changes /\ ut \in BOOLEAN /\ ad \in BOOLEAN
      BY <2>2, <3>2 DEF Proc, PType
    <3> HIDE DEF q
    <3>4. q = [r EXCEPT !.addr = x, !.hbAge = 0, !.tv = m.hb.tv, !.has = hs, !.utd = ut, !.adv = ad]
      BY <3>1
    <3> HIDE DEF hs, ut, ad
    <3> QED
      BY <2>2, <3>2, <3>3, <3>4, Zeros DEF Proc, PType
  <2>4. Take(x, n, 1, q, To(x, <<>>))
    BY <2>1, NothingIs
  <2> HIDE DEF q, r
  <2>5. /\ q.up = p.up /\ q.base = p.base /\ q.upAge = p.upAge /\ q.quit = p.quit
        /\ q.peer = p.peer /\ ~q.master
    BY <1>2, <2>2, <2>3 DEF Alike
  <2> QED
    BY <1>1, <1>2, <1>3, <1>4, <1>8, <2>3, <2>4, <2>5, BeatenIs DEF p
<1> QED
  BY <1>5, <1>6, <1>7, <1>8

LEMMA MasterRecvBeatIs ==
  ASSUME Calm, NEW x \in Node, NEW n \in Up, x # n, 1 \in DOMAIN net[<<x, n>>],
         NEW m, m = net[<<x, n>>][1], MasterRecvBeat(x, n, 1, m)
  PROVE  (Ended(Now, Now', n) \/ Passed(Now, Now', x, n)) /\ Straight(net', proc')
<1> DEFINE p == proc[n]
           u == Catchup(p, p.seq - 1)
           h == Kind(proc[x].base, m)
<1>1. n \in Node /\ p \in Proc /\ m \in Packet /\ h # "odd"
  BY FirstIs
<1>2. m.type = "beat" /\ p.master
  BY DEF MasterRecvBeat
<1>3. h = "beat"
  BY <1>1, <1>2, KindIs
<1>4. To(x, <<>>) \in Outs /\ Clean(<<>>, p.base) /\ \A k : ~In(<<>>, p.base, k)
  BY <1>1, NothingIs, OutsAre, Short
<1>5. \/ Take(x, n, 1, Exit(n), Nothing)
      \/ Take(x, n, 1, p, To(x, u))
      \/ Take(x, n, 1, p, Nothing)
  BY DEF MasterRecvBeat
<1>6. p.seq - 1 \in -1 .. HB_MAX_SEQ - 1
  BY <1>1, <1>2, Sizes DEF Proc, PType
<1>7. u \in Seq(Packet) /\ (\A k : In(u, p.base, k) => k \in {"beat", "kill"}) /\ Clean(u, p.base)
  BY <1>1, <1>6, CatchupOk, ResentIs
<1>8. To(x, u) \in Outs
  BY <1>7, OutsAre
<1> HIDE DEF u, h, p
<1>9. CASE Take(x, n, 1, Exit(n), Nothing)
  BY <1>9, ExitTakes
<1>10. CASE Take(x, n, 1, p, To(x, u))
  BY <1>2, <1>3, <1>7, <1>8, <1>10, PassedIs DEF p, h
<1>11. CASE Take(x, n, 1, p, Nothing)
  <2>1. Take(x, n, 1, p, To(x, <<>>))
    BY <1>11, NothingIs
  <2> QED
    BY <1>2, <1>3, <1>4, <2>1, PassedIs DEF p, h
<1> QED
  BY <1>5, <1>9, <1>10, <1>11

\* Nobody asks one that is no master.
LEMMA RecvLastSeenIs ==
  ASSUME Calm, NEW x \in Node, NEW n \in Up, x # n, 1 \in DOMAIN net[<<x, n>>],
         NEW m, m = net[<<x, n>>][1], RecvLastSeen(x, n, 1, m)
  PROVE  Passed(Now, Now', x, n) /\ Straight(net', proc')
<1> DEFINE p == proc[n]
           u == Catchup(p, m.seq)
           h == Kind(proc[x].base, m)
<1>1. n \in Node /\ Typed /\ p \in Proc /\ m \in Packet /\ h # "odd" /\ <<x, n>> \in Has(net, proc, h)
  BY FirstIs
<1>2. m.type = "lastseen"
  BY DEF RecvLastSeen
<1>3. h = "ask" /\ m.seq \in -1 .. HB_MAX_SEQ - 1
  BY <1>1, <1>2, KindIs, PacketIs
<1>4. p.master
  <2>1. <<x, n>> \in Now.asks /\ Now.v = proc
    BY <1>1, <1>3, NowIs
  <2>2. Been(Now, n) /\ n \in Ups(Now)
    <3>1. Orderly(Now) /\ n \in Ups(Now)
      BY UpIs
    <3> QED
      BY <2>1, <3>1 DEF Orderly, Followed
  <2> QED
    BY <2>1, <2>2 DEF Been
<1>5. Take(x, n, 1, p, To(x, u))
  BY <1>4 DEF RecvLastSeen
<1>6. u \in Seq(Packet) /\ (\A k : In(u, p.base, k) => k \in {"beat", "kill"}) /\ Clean(u, p.base)
  BY <1>1, <1>3, CatchupOk, ResentIs
<1>7. To(x, u) \in Outs
  BY <1>6, OutsAre
<1> HIDE DEF u, h, p
<1> QED
  BY <1>3, <1>4, <1>5, <1>6, <1>7, PassedIs DEF p, h

LEMMA RecvKillIs ==
  ASSUME Calm, NEW x \in Node, NEW n \in Up, x # n, 1 \in DOMAIN net[<<x, n>>],
         NEW m, m = net[<<x, n>>][1], RecvKill(x, n, 1, m)
  PROVE  (Ended(Now, Now', n) \/ Passed(Now, Now', x, n)) /\ Straight(net', proc')
<1> DEFINE p == proc[n]
           h == Kind(proc[x].base, m)
<1>1. n \in Node /\ h # "odd"
  BY FirstIs
<1>2. h = "kill"
  BY <1>1, KindIs DEF RecvKill
<1>3. To(x, <<>>) \in Outs /\ Clean(<<>>, p.base) /\ \A k : ~In(<<>>, p.base, k)
  BY <1>1, NothingIs, OutsAre, Short
<1>4. Take(x, n, 1, Exit(n), Nothing) \/ Take(x, n, 1, p, Nothing)
  BY DEF RecvKill
<1> HIDE DEF h, p
<1>5. CASE Take(x, n, 1, Exit(n), Nothing)
  BY <1>5, ExitTakes
<1>6. CASE Take(x, n, 1, p, Nothing)
  <2>1. Take(x, n, 1, p, To(x, <<>>))
    BY <1>6, NothingIs
  <2> QED
    BY <1>2, <1>3, <2>1, PassedIs DEF p, h
<1> QED
  BY <1>4, <1>5, <1>6

LEMMA ReceiveIs ==
  ASSUME Calm, NEW c \in Link, NEW i \in DOMAIN net[c], Receive(c[1], c[2], i)
  PROVE  /\ Straight(net', proc')
         /\ c[2] \in Up
         /\ \/ Pinged(Now, Now', c[1], c[2]) \/ Left(Now, Now', c[1], c[2])
            \/ Beaten(Now, Now', c[1], c[2]) \/ Ended(Now, Now', c[2]) \/ Passed(Now, Now', c[1], c[2])
<1> DEFINE x == c[1]
           n == c[2]
           m == net[<<x, n>>][1]
<1>1. x \in Node /\ n \in Node /\ x # n /\ c = <<x, n>>
  BY NoSelf
<1>2. n \in Up /\ i = 1 /\ 1 \in DOMAIN net[<<x, n>>]
  BY <1>1 DEF Receive, Calm
<1>3. \/ RecvPing(x, n, 1, m) \/ MasterRecvBeat(x, n, 1, m) \/ SlaveRecvBeat(x, n, 1, m)
      \/ RecvLastSeen(x, n, 1, m) \/ RecvRedirect(x, n, 1, m) \/ RecvKill(x, n, 1, m)
  BY <1>2 DEF Receive
<1> HIDE DEF x, n, m
<1>4. m = net[<<x, n>>][1]
  BY DEF m
<1>5. CASE RecvPing(x, n, 1, m)
  <2>1. (Pinged(Now, Now', x, n) \/ Left(Now, Now', x, n)) /\ Straight(net', proc')
    BY <1>1, <1>2, <1>4, <1>5, RecvPingIs
  <2> QED
    BY <1>2, <2>1 DEF x, n
<1>6. CASE MasterRecvBeat(x, n, 1, m)
  <2>1. (Ended(Now, Now', n) \/ Passed(Now, Now', x, n)) /\ Straight(net', proc')
    BY <1>1, <1>2, <1>4, <1>6, MasterRecvBeatIs
  <2> QED
    BY <1>2, <2>1 DEF x, n
<1>7. CASE SlaveRecvBeat(x, n, 1, m)
  <2>1. Beaten(Now, Now', x, n) /\ Straight(net', proc')
    BY <1>1, <1>2, <1>4, <1>7, SlaveRecvBeatIs
  <2> QED
    BY <1>2, <2>1 DEF x, n
<1>8. CASE RecvLastSeen(x, n, 1, m)
  <2>1. Passed(Now, Now', x, n) /\ Straight(net', proc')
    BY <1>1, <1>2, <1>4, <1>8, RecvLastSeenIs
  <2> QED
    BY <1>2, <2>1 DEF x, n
<1>9. ~RecvRedirect(x, n, 1, m)
  <2>1. Kind(proc[x].base, m) # "odd"
    BY <1>1, <1>2, <1>4, FirstIs
  <2>2. m.type # "master"
    BY <2>1, KindIs
  <2> QED
    BY <2>2 DEF RecvRedirect
<1>10. CASE RecvKill(x, n, 1, m)
  <2>1. (Ended(Now, Now', n) \/ Passed(Now, Now', x, n)) /\ Straight(net', proc')
    BY <1>1, <1>2, <1>4, <1>10, RecvKillIs
  <2> QED
    BY <1>2, <2>1 DEF x, n
<1> QED
  BY <1>3, <1>5, <1>6, <1>7, <1>8, <1>9, <1>10

-----------------------------------------------------------------------------
(* Rounds and faults. *)

\* The channels after n has sent.
LEMMA NowSends ==
  ASSUME Calm, NEW n \in Node, NEW p \in Proc, p.base = proc[n].base, NEW out \in Outs, Install(n, p, out),
         \A d \in Node \ {n} : Follows(net, proc, n, d, out),
         NEW s, s = Now, NEW t, t = Now'
  PROVE  /\ t.beats = s.beats \cup Outgoings(n, out, p.base, "beat")
         /\ t.zeros = s.zeros \cup Outgoings(n, out, p.base, "zero")
         /\ t.lives = s.lives \cup Outgoings(n, out, p.base, "live")
         /\ t.asks = s.asks \cup Outgoings(n, out, p.base, "ask")
         /\ By(s, t, n) /\ t.w = woke' /\ s.w = woke /\ t.v[n] = p /\ s.v = proc /\ Straight(net', proc')
<1>1. /\ \A k : Has(net', proc', k) = Has(net, proc, k) \cup Outgoings(n, out, p.base, k)
      /\ Straight(net', proc')
      /\ proc'[n] = p /\ \A j \in Node \ {n} : proc'[j] = proc[j]
  BY InstallIs
<1>2. Typed
  BY DEF Calm
<1>3. By(s, t, n)
  BY <1>1, <1>2, ByIs
<1> QED
  BY <1>1, <1>2, <1>3, NowIs, NextIs

LEMMA CrashIs ==
  ASSUME Calm, NEW n \in Node, Crash(n)
  PROVE  Ended(Now, Now', n) /\ Straight(net', proc')
<1> DEFINE s == Now
           t == Now'
           q == Exit(n)
<1>1. n \in Up /\ Install(n, q, Nothing) /\ woke' = woke \ {n}
  BY DEF Crash, Fault
<1>2. Typed /\ proc[n].up
  BY <1>1, UpIs DEF Calm
<1>3. q \in Proc /\ q.base = proc[n].base /\ ~q.up
  BY <1>2, ExitIs
<1>4. Nothing \in Outs /\ (\A d \in Node \ {n} : Follows(net, proc, n, d, Nothing))
      /\ \A k : Outgoings(n, Nothing, q.base, k) = {}
  BY OutsAre, NoOutgoings
<1> HIDE DEF q
<1>5. /\ t.beats = s.beats \cup Outgoings(n, Nothing, q.base, "beat")
      /\ t.zeros = s.zeros \cup Outgoings(n, Nothing, q.base, "zero")
      /\ t.lives = s.lives \cup Outgoings(n, Nothing, q.base, "live")
      /\ t.asks = s.asks \cup Outgoings(n, Nothing, q.base, "ask")
      /\ By(s, t, n) /\ t.w = woke' /\ s.w = woke /\ t.v[n] = q /\ s.v = proc /\ Straight(net', proc')
  BY <1>1, <1>3, <1>4, NowSends
<1> HIDE DEF s, t
<1>6. t.beats = s.beats /\ t.zeros = s.zeros /\ t.lives = s.lives /\ t.asks = s.asks
  BY <1>4, <1>5
<1>7. Ended(s, t, n)
  BY <1>1, <1>2, <1>3, <1>5, <1>6 DEF Ended
<1> QED
  BY <1>5, <1>7 DEF s, t

LEMMA RequestQuitIs ==
  ASSUME Calm, NEW n \in Node, RequestQuit(n)
  PROVE  Quitting(Now, Now', n) /\ Straight(net', proc')
<1> DEFINE s == Now
           t == Now'
           p == proc[n]
           q == [p EXCEPT !.quit = TRUE]
           g == Ping(0, ~p.utd)
           out == IF p.master THEN Nothing ELSE ToAll(<<g>>)
<1>1. n \in Up /\ Install(n, q, out) /\ woke' = woke \ {n}
  BY DEF RequestQuit, Fault
<1>2. Typed /\ p.up /\ p \in Proc /\ p.base # 0 /\ p.utd \in BOOLEAN
      /\ \A d \in Node : /\ <<n, d>> \in Has(net, proc, "zero") => ~p.master
  BY <1>1, UpIs DEF Calm, Proc, PType
<1>3. /\ q \in Proc /\ q.base = p.base /\ q.up /\ q.quit /\ q.upAge = p.upAge /\ q.peer = p.peer
      /\ q.hbAge = p.hbAge /\ q.addr = p.addr /\ q.master = p.master
  BY <1>2 DEF Proc, PType
<1>4. g \in Packet /\ Kind(p.base, g) = "zero"
  <2> DEFINE b == ~p.utd
  <2>1. b \in BOOLEAN
    BY <1>2
  <2> HIDE DEF b
  <2>2. Ping(0, b) \in Packet /\ Kind(p.base, Ping(0, b)) = "zero"
    BY <1>2, <2>1, PacketsAre, Kinds
  <2> QED
    BY <2>2 DEF b
<1> HIDE DEF g
<1>5. out \in Outs
  <2>1. <<g>> \in Seq(Packet)
    BY <1>4
  <2> QED
    BY <2>1, OutsAre
<1>6. \A d \in Node : Clean(out[d], p.base) /\ \A k : In(out[d], p.base, k) <=> ~p.master /\ k = "zero"
  <2> SUFFICES ASSUME NEW d \in Node
               PROVE  Clean(out[d], p.base) /\ \A k : In(out[d], p.base, k) <=> ~p.master /\ k = "zero"
    OBVIOUS
  <2>1. CASE p.master
    BY <2>1, Outgoing
  <2>2. CASE ~p.master
    <3>1. out[d] = <<g>>
      BY <2>2, Outgoing
    <3> HIDE DEF out
    <3>2. Clean(out[d], p.base) /\ \A k : In(out[d], p.base, k) <=> k = "zero"
      BY <1>4, <3>1, Single
    <3> QED
      BY <2>2, <3>2
  <2> QED
    BY <2>1, <2>2
<1> HIDE DEF out, q
<1>7. \A d \in Node \ {n} : Follows(net, proc, n, d, out)
  BY <1>6 DEF Follows
<1>8. \A c \in From(n) : c[2] \in Node
  BY NoSelf DEF From
<1>9. /\ Outgoings(n, out, p.base, "zero") = IF p.master THEN {} ELSE From(n)
      /\ Outgoings(n, out, p.base, "live") = {} /\ Outgoings(n, out, p.base, "beat") = {}
      /\ Outgoings(n, out, p.base, "ask") = {}
  <2>1. \A d \in Node : /\ In(out[d], p.base, "zero") <=> ~p.master
                        /\ ~In(out[d], p.base, "live") /\ ~In(out[d], p.base, "beat") /\ ~In(out[d], p.base, "ask")
    <3> SUFFICES ASSUME NEW d \in Node
                 PROVE  /\ In(out[d], p.base, "zero") <=> ~p.master
                        /\ ~In(out[d], p.base, "live") /\ ~In(out[d], p.base, "beat") /\ ~In(out[d], p.base, "ask")
      OBVIOUS
    <3>1. In(out[d], p.base, "zero") <=> ~p.master
      BY <1>6
    <3>2. \A k : k # "zero" => ~In(out[d], p.base, k)
      BY <1>6
    <3>3. "live" # "zero" /\ "beat" # "zero" /\ "ask" # "zero"
      OBVIOUS
    <3>4. ~In(out[d], p.base, "live") /\ ~In(out[d], p.base, "beat") /\ ~In(out[d], p.base, "ask")
      BY <3>2, <3>3
    <3> QED
      BY <3>1, <3>4
  <2> DEFINE b == p.base
  <2>2. \A c \in From(n) : /\ In(out[c[2]], b, "zero") <=> ~p.master
                           /\ ~In(out[c[2]], b, "live") /\ ~In(out[c[2]], b, "beat") /\ ~In(out[c[2]], b, "ask")
    BY <1>8, <2>1
  <2>3. p.master \in BOOLEAN
    BY <1>2 DEF Proc, PType
  <2> HIDE DEF p, b
  <2>4. Outgoings(n, out, b, "zero") = IF p.master THEN {} ELSE From(n)
    BY <2>2, <2>3 DEF Outgoings
  <2>5. Outgoings(n, out, b, "live") = {} /\ Outgoings(n, out, b, "beat") = {} /\ Outgoings(n, out, b, "ask") = {}
    BY <2>2 DEF Outgoings
  <2> QED
    BY <2>4, <2>5 DEF b
<1>10. /\ t.beats = s.beats \cup Outgoings(n, out, q.base, "beat")
       /\ t.zeros = s.zeros \cup Outgoings(n, out, q.base, "zero")
       /\ t.lives = s.lives \cup Outgoings(n, out, q.base, "live")
       /\ t.asks = s.asks \cup Outgoings(n, out, q.base, "ask")
       /\ By(s, t, n) /\ t.w = woke' /\ s.w = woke /\ t.v[n] = q /\ s.v = proc /\ Straight(net', proc')
  BY <1>1, <1>3, <1>5, <1>7, NowSends
<1>11. s.v[n] = p
  BY <1>10
<1> HIDE DEF s, t, p
<1>12. /\ t.beats = s.beats /\ t.lives = s.lives /\ t.asks = s.asks
       /\ t.zeros = IF p.master THEN s.zeros ELSE s.zeros \cup From(n)
  BY <1>3, <1>9, <1>10
<1>13. Same(s, t, n)
  BY <1>3, <1>10, <1>11 DEF Same
<1>14. Quitting(s, t, n)
  BY <1>1, <1>2, <1>3, <1>10, <1>11, <1>12, <1>13 DEF Quitting
<1> QED
  BY <1>10, <1>14 DEF s, t

LEMMA ShutdownIs ==
  ASSUME Calm, NEW n \in Node, Shutdown(n)
  PROVE  Ended(Now, Now', n) /\ Straight(net', proc')
<1> DEFINE s == Now
           t == Now'
           p == proc[n]
           q == Exit(n)
           c == IF p.tv < MaxChanges THEN 1 ELSE 0
           h == NextBeat(n, p, c)
           a == Beat(h)
           u == ~p.utd /\ ~p.master
           g == Ping(0, u)
           beat == IF p.master THEN ToAll(<<a>>) ELSE Nothing
           ping == ToAll(<<g>>)
           out == And(beat, ping)
<1>1. n \in Up /\ Install(n, q, out) /\ woke' = woke \ {n}
  BY DEF Shutdown
<1>2. Typed /\ p.up /\ p \in Proc /\ p.base # 0 /\ u \in BOOLEAN
      /\ \A d \in Node : /\ <<n, d>> \in Has(net, proc, "zero") => ~p.master
  BY <1>1, UpIs DEF Calm, Proc, PType
<1>3. q \in Proc /\ q.base = p.base /\ ~q.up
  BY <1>2, ExitIs
<1> HIDE DEF u
<1>4. g \in Packet /\ Kind(p.base, g) = "zero"
  BY <1>2, PacketsAre, Kinds
<1> HIDE DEF g
<1>5. p.master => a \in Packet /\ Kind(p.base, a) = "beat"
  <2> SUFFICES ASSUME p.master PROVE a \in Packet /\ Kind(p.base, a) = "beat"
    OBVIOUS
  <2>1. p.seq # -1 /\ c \in Nat
    BY <1>2 DEF Proc
  <2> HIDE DEF c
  <2>2. h \in Beats
    BY <1>2, <2>1, NextBeatOk
  <2> HIDE DEF h
  <2> QED
    BY <1>2, <2>2, PacketsAre, Kinds
<1> HIDE DEF a
<1>6. ping \in Outs /\ beat \in Outs
  <2>1. <<g>> \in Seq(Packet)
    BY <1>4
  <2>2. p.master => <<a>> \in Seq(Packet)
    BY <1>5
  <2> QED
    BY <2>1, <2>2, OutsAre
<1>7. ASSUME NEW d \in Node
      PROVE  /\ Clean(out[d], p.base)
             /\ \A k : In(out[d], p.base, k) <=> k = "zero" \/ (p.master /\ k = "beat")
  <2>1. Clean(ping[d], p.base) /\ \A k : In(ping[d], p.base, k) <=> k = "zero"
    <3>1. ping[d] = <<g>>
      BY Outgoing
    <3> HIDE DEF ping
    <3> QED
      BY <1>4, <3>1, Single
  <2>2. Clean(beat[d], p.base) /\ \A k : In(beat[d], p.base, k) <=> p.master /\ k = "beat"
    <3>1. CASE p.master
      <4>1. beat[d] = <<a>>
        BY <3>1, Outgoing
      <4> HIDE DEF beat
      <4>2. Clean(beat[d], p.base) /\ \A k : In(beat[d], p.base, k) <=> k = "beat"
        BY <1>5, <3>1, <4>1, Single
      <4> QED
        BY <3>1, <4>2
    <3>2. CASE ~p.master
      BY <3>2, Outgoing
    <3> QED
      BY <3>1, <3>2
  <2> HIDE DEF ping, beat
  <2>3. \A k : In(And(beat, ping)[d], p.base, k) <=> In(beat[d], p.base, k) \/ In(ping[d], p.base, k)
    BY <1>6, AndIs
  <2>4. Clean(And(beat, ping)[d], p.base)
    <3>1. ~In(ping[d], p.base, "live") /\ ~In(beat[d], p.base, "zero")
      BY <2>1, <2>2
    <3> QED
      BY <1>6, <2>1, <2>2, <3>1, AndIs
  <2> QED
    BY <2>1, <2>2, <2>3, <2>4
<1>8. out \in Outs
  BY <1>6, OutsAre
<1> HIDE DEF out, q
<1>9. \A d \in Node \ {n} : Follows(net, proc, n, d, out)
  BY <1>2, <1>7 DEF Follows
<1>10. \A l \in From(n) : l[2] \in Node
  BY NoSelf DEF From
<1>11. /\ Outgoings(n, out, p.base, "zero") = From(n)
       /\ Outgoings(n, out, p.base, "live") = {} /\ Outgoings(n, out, p.base, "ask") = {}
       /\ Outgoings(n, out, p.base, "beat") = IF p.master THEN From(n) ELSE {}
  <2>1. \A d \in Node : /\ In(out[d], p.base, "beat") <=> p.master
                        /\ In(out[d], p.base, "zero") /\ ~In(out[d], p.base, "live") /\ ~In(out[d], p.base, "ask")
    <3> SUFFICES ASSUME NEW d \in Node
                 PROVE  /\ In(out[d], p.base, "beat") <=> p.master
                        /\ In(out[d], p.base, "zero") /\ ~In(out[d], p.base, "live") /\ ~In(out[d], p.base, "ask")
      OBVIOUS
    <3>1. In(out[d], p.base, "beat") <=> p.master
      BY <1>7
    <3>2. In(out[d], p.base, "zero") /\ ~In(out[d], p.base, "live") /\ ~In(out[d], p.base, "ask")
      BY <1>7
    <3> QED
      BY <3>1, <3>2
  <2> DEFINE b == p.base
  <2>2. \A l \in From(n) : /\ In(out[l[2]], b, "beat") <=> p.master
                           /\ In(out[l[2]], b, "zero") /\ ~In(out[l[2]], b, "live") /\ ~In(out[l[2]], b, "ask")
    BY <1>10, <2>1
  <2>3. p.master \in BOOLEAN
    BY <1>2 DEF Proc, PType
  <2> HIDE DEF p, b
  <2>4. Outgoings(n, out, b, "beat") = IF p.master THEN From(n) ELSE {}
    BY <2>2, <2>3 DEF Outgoings
  <2>5. Outgoings(n, out, b, "live") = {} /\ Outgoings(n, out, b, "zero") = From(n) /\ Outgoings(n, out, b, "ask") = {}
    BY <2>2 DEF Outgoings
  <2> QED
    BY <2>4, <2>5 DEF b
<1>12. /\ t.beats = s.beats \cup Outgoings(n, out, q.base, "beat")
       /\ t.zeros = s.zeros \cup Outgoings(n, out, q.base, "zero")
       /\ t.lives = s.lives \cup Outgoings(n, out, q.base, "live")
       /\ t.asks = s.asks \cup Outgoings(n, out, q.base, "ask")
       /\ By(s, t, n) /\ t.w = woke' /\ s.w = woke /\ t.v[n] = q /\ s.v = proc /\ Straight(net', proc')
  BY <1>1, <1>3, <1>8, <1>9, NowSends
<1>13. s.v[n] = p
  BY <1>12
<1> HIDE DEF s, t, p
<1>14. /\ t.lives = s.lives /\ t.asks = s.asks /\ t.zeros = s.zeros \cup From(n)
       /\ t.beats = s.beats \cup (IF p.master THEN From(n) ELSE {})
  BY <1>3, <1>11, <1>12
<1>15. /\ t.beats \subseteq s.beats \cup From(n) /\ s.beats \subseteq t.beats
       /\ ~s.v[n].master => t.beats \subseteq s.beats
  BY <1>13, <1>14
<1>16. Ended(s, t, n)
  BY <1>1, <1>2, <1>3, <1>12, <1>13, <1>14, <1>15 DEF Ended
<1> QED
  BY <1>12, <1>16 DEF s, t

LEMMA TickIs ==
  ASSUME Calm, Tick
  PROVE  Ticked(Now, Now') /\ Straight(net', proc')
<1> DEFINE s == Now
           t == Now'
<1>1. /\ Typed /\ s.v = proc /\ s.w = woke /\ t.v = proc' /\ t.w = woke'
      /\ s.beats = Has(net, proc, "beat") /\ s.zeros = Has(net, proc, "zero") /\ s.lives = Has(net, proc, "live")
      /\ t.beats = Has(net', proc', "beat") /\ t.zeros = Has(net', proc', "zero")
      /\ t.lives = Has(net', proc', "live") /\ t.asks = Has(net', proc', "ask")
  BY NowIs, NextIs DEF Calm
<1>2. Up \subseteq woke /\ woke' = {} /\ (\A c \in Link : c[2] \in Up => net[c] = <<>>) /\ \A c \in Link : net'[c] = <<>>
  BY DEF Tick, Calm
<1>3. Straight(net', proc') /\ \A k : Has(net', proc', k) = {}
  BY <1>2, Short DEF Straight, Has
<1>4. \A k : \A c \in Has(net, proc, k) : c[2] \notin Up
  BY <1>2, Short DEF Has
<1>5. Ups(s) = Up
  BY <1>1 DEF Ups, Up
<1>6. \A n \in Node \ Ups(s) : t.v[n] = s.v[n]
  BY <1>1, <1>5 DEF Tick
<1>7. ASSUME NEW n \in Ups(s)
      PROVE  LET p == s.v[n]
                 q == t.v[n]
             IN  /\ q.up /\ q.master = p.master /\ q.quit = p.quit /\ q.addr = p.addr /\ q.base = p.base
                 /\ q.hbAge = Older(p.hbAge, HbTimeout + 1) /\ q.upAge = Older(p.upAge, HbTimeout + 1)
                 /\ \A m \in Node : /\ q.peer[m].base = p.peer[m].base
                                    /\ q.peer[m].known = p.peer[m].known
                                    /\ q.peer[m].age = Older(p.peer[m].age, HbTimeout + 1)
  <2> DEFINE p == proc[n]
             q == proc'[n]
             r == [m \in Node |-> [p.peer[m] EXCEPT !.age = Older(@, HbTimeout + 1)]]
  <2>1. p \in Proc /\ p.up /\ n \in Node
    BY <1>1, <1>5 DEF Typed, Up
  <2>2. q = Aged(p)
    BY <1>5, <2>1 DEF Tick
  <2>3. q = [p EXCEPT !.hbAge = Older(@, HbTimeout + 1), !.upAge = Older(@, HbTimeout + 1), !.peer = r]
    BY <2>2 DEF Aged
  <2>4. \A m \in Node : p.peer[m] \in Peer
    BY <2>1 DEF Proc, PType
  <2>5. \A m \in Node : r[m].base = p.peer[m].base /\ r[m].known = p.peer[m].known /\ r[m].age = Older(p.peer[m].age, HbTimeout + 1)
    BY <2>4 DEF Peer
  <2> HIDE DEF p, q, r
  <2>6. /\ q.up = p.up /\ q.master = p.master /\ q.quit = p.quit /\ q.addr = p.addr /\ q.base = p.base
        /\ q.hbAge = Older(p.hbAge, HbTimeout + 1) /\ q.upAge = Older(p.upAge, HbTimeout + 1) /\ q.peer = r
    BY <2>1, <2>3 DEF Proc, PType
  <2>7. s.v[n] = p /\ t.v[n] = q
    BY <1>1 DEF p, q
  <2> QED
    BY <2>1, <2>5, <2>6, <2>7
<1>8. Ups(s) \subseteq s.w /\ t.w = {}
  BY <1>1, <1>2, <1>5
<1>9. \A c \in s.beats \cup s.zeros \cup s.lives : c[2] \notin Ups(s)
  BY <1>1, <1>4, <1>5
<1>10. t.beats = {} /\ t.zeros = {} /\ t.lives = {} /\ t.asks = {}
  BY <1>1, <1>3
<1> HIDE DEF s, t
<1>11. Ticked(s, t)
  BY <1>6, <1>7, <1>8, <1>9, <1>10 DEF Ticked
<1> QED
  BY <1>3, <1>11 DEF s, t

-----------------------------------------------------------------------------
(* There is never a second master. *)

LEMMA InitCalm == ASSUME Init, Wild = {FALSE} PROVE Calm
<1> DEFINE s == Now
<1>1. Typed
  BY InitTyped
<1>2. ~wild /\ woke = {} /\ \A c \in Link : net[c] = <<>>
  BY DEF Init
<1>3. Straight(net, proc) /\ \A k : Has(net, proc, k) = {}
  BY <1>2, Short DEF Straight, Has
<1>4. /\ s \in Snaps /\ s.v = proc /\ s.w = {} /\ s.beats = {} /\ s.zeros = {} /\ s.lives = {} /\ s.asks = {}
  BY <1>1, <1>2, <1>3, NowIs
<1>5. ASSUME NEW n \in Node
      PROVE  LET p == proc[n]
             IN  /\ p.up /\ p.base # 0 /\ ~p.master /\ p.addr = 0 /\ p.hbAge = 0 /\ p.upAge = 0
                 /\ \A m \in Node : p.peer[m].base = 0 /\ ~p.peer[m].known
  <2>1. PICK b \in BaseTime : proc[n] = Fresh(b)
    BY DEF Init
  <2>2. b # 0
    BY StartsAreRanks
  <2> QED
    BY <2>1, <2>2 DEF Fresh, NoPeer
<1> HIDE DEF s
<1>6. Ups(s) = Node /\ Lead(s) = {}
  BY <1>4, <1>5 DEF Ups, Lead
<1>7. Timely(s)
  <2>1. ASSUME NEW n \in Node
        PROVE  /\ s.v[n].base # 0 /\ ~s.v[n].master /\ n \notin s.w
               /\ s.v[n].hbAge = 0 /\ s.v[n].upAge = 0
    BY <1>4, <1>5
  <2>2. 0 =< 0 /\ 0 =< HbTimeout
    BY Sizes
  <2> QED
    BY <1>6, <2>1, <2>2 DEF Timely
<1>8. Followed(s)
  BY <1>4, <1>5, <1>6 DEF Followed, Begun
<1>9. Leaving(s)
  BY <1>4 DEF Leaving
<1>10. Heard(s)
  <2>1. ASSUME NEW j \in Node, NEW k \in Node
        PROVE  s.v[j].peer[k].base = 0 /\ ~s.v[j].peer[k].known /\ s.v[k].upAge = 0 /\ k \notin s.w
    BY <1>4, <1>5
  <2> QED
    BY <1>6, <2>1 DEF Heard
<1>11. One(s) /\ Mourned(s)
  BY <1>6 DEF One, Mourned, Corpse
<1>12. Orderly(s)
  BY <1>7, <1>8, <1>9, <1>10, <1>11 DEF Orderly
<1> QED
  BY <1>1, <1>2, <1>3, <1>12 DEF Calm, s

LEMMA NextCalm ==
  ASSUME Calm, [Next]_vars, 2 =< HbTimeout, Faults \subseteq {"crash", "quit"}
  PROVE  Calm'
<1> DEFINE s == Now
           t == Now'
<1>1. Typed /\ Typed' /\ s \in Snaps /\ t \in Snaps /\ Orderly(s)
  BY NextTyped, NowIs, NextIs DEF Calm
<1> HIDE DEF s, t
<1>2. ASSUME Orderly(t), Straight(net', proc'), wild' = wild PROVE Calm'
  BY <1>1, <1>2 DEF Calm, t
<1>3. ASSUME NEW n \in Node, Wake(n) PROVE Calm'
  <2>1. Woken(s, t, n) /\ Straight(net', proc')
    BY <1>3, WakeIs DEF s, t
  <2>2. Orderly(t)
    BY <1>1, <2>1, WokenOk
  <2>3. wild' = wild
    BY <1>3 DEF Wake
  <2> QED
    BY <1>2, <2>1, <2>2, <2>3
<1>4. ASSUME NEW n \in Node, Shutdown(n) PROVE Calm'
  <2>1. Ended(s, t, n) /\ Straight(net', proc')
    BY <1>4, ShutdownIs DEF s, t
  <2>2. Orderly(t)
    BY <1>1, <2>1, EndedOk
  <2>3. wild' = wild
    BY <1>4 DEF Shutdown
  <2> QED
    BY <1>2, <2>1, <2>2, <2>3
<1>5. ASSUME NEW c \in Link, NEW i \in DOMAIN net[c], Receive(c[1], c[2], i) PROVE Calm'
  <2> DEFINE x == c[1]
             n == c[2]
  <2>1. x \in Node /\ n \in Node /\ x # n
    BY NoSelf
  <2>2. /\ Straight(net', proc')
        /\ \/ Pinged(s, t, x, n) \/ Left(s, t, x, n)
           \/ Beaten(s, t, x, n) \/ Ended(s, t, n) \/ Passed(s, t, x, n)
    BY <1>5, ReceiveIs DEF s, t
  <2>3. wild' = wild
    BY <1>5 DEF Receive, RecvPing, MasterRecvBeat, SlaveRecvBeat, RecvLastSeen, RecvRedirect, RecvKill, Take
  <2> HIDE DEF x, n
  <2>4. CASE Pinged(s, t, x, n)
    BY <1>1, <1>2, <2>1, <2>2, <2>3, <2>4, PingedOk
  <2>5. CASE Left(s, t, x, n)
    BY <1>1, <1>2, <2>1, <2>2, <2>3, <2>5, LeftOk
  <2>6. CASE Beaten(s, t, x, n)
    BY <1>1, <1>2, <2>1, <2>2, <2>3, <2>6, BeatenOk
  <2>7. CASE Ended(s, t, n)
    BY <1>1, <1>2, <2>1, <2>2, <2>3, <2>7, EndedOk
  <2>8. CASE Passed(s, t, x, n)
    BY <1>1, <1>2, <2>1, <2>2, <2>3, <2>8, PassedOk
  <2> QED
    BY <2>2, <2>4, <2>5, <2>6, <2>7, <2>8
<1>6. ASSUME Tick PROVE Calm'
  <2>1. Ticked(s, t) /\ Straight(net', proc')
    BY <1>6, TickIs DEF s, t
  <2>2. Orderly(t)
    BY <1>1, <2>1, TickedOk
  <2>3. wild' = wild
    BY <1>6 DEF Tick
  <2> QED
    BY <1>2, <2>1, <2>2, <2>3
<1>7. ASSUME NEW n \in Node, Crash(n) PROVE Calm'
  <2>1. Ended(s, t, n) /\ Straight(net', proc')
    BY <1>7, CrashIs DEF s, t
  <2>2. Orderly(t)
    BY <1>1, <2>1, EndedOk
  <2>3. wild' = wild
    BY <1>7 DEF Crash, Fault
  <2> QED
    BY <1>2, <2>1, <2>2, <2>3
<1>8. ASSUME NEW n \in Node, RequestQuit(n) PROVE Calm'
  <2>1. Quitting(s, t, n) /\ Straight(net', proc')
    BY <1>8, RequestQuitIs DEF s, t
  <2>2. Orderly(t)
    BY <1>1, <2>1, QuittingOk
  <2>3. wild' = wild
    BY <1>8 DEF RequestQuit, Fault
  <2> QED
    BY <1>2, <2>1, <2>2, <2>3
<1>9. "start" \notin Faults /\ "loss" \notin Faults
  OBVIOUS
<1>10. \A n \in Node : ~Start(n)
  BY <1>9 DEF Start, Fault
<1>11. \A c \in Link : ~Lose(c[1], c[2])
  BY <1>9 DEF Lose
<1>12. CASE UNCHANGED vars
  <2>1. proc' = proc /\ net' = net /\ woke' = woke /\ wild' = wild
    BY <1>12 DEF vars
  <2>2. t = s
    BY <2>1 DEF s, t, Now
  <2>3. Straight(net', proc')
    BY <2>1 DEF Calm
  <2> QED
    BY <1>1, <1>2, <2>1, <2>2, <2>3
<1>13. CASE Next
  BY <1>3, <1>4, <1>5, <1>6, <1>7, <1>8, <1>10, <1>11, <1>13 DEF Next, Step
<1> QED
  BY <1>12, <1>13

LEMMA CalmIs == Calm => SingleMaster
<1> SUFFICES ASSUME Calm PROVE Cardinality(Masters) =< 1
  BY DEF SingleMaster
<1>1. Now \in Snaps /\ Now.v = proc /\ One(Now)
  BY NowIs DEF Calm, Orderly
<1>2. Lead(Now) = Masters /\ Ups(Now) = Up
  BY <1>1 DEF Lead, Ups, Masters, Up
<1>3. \A m, k \in Masters : k = m
  BY <1>1, <1>2 DEF One, Under, Masters
<1>4. CASE Masters = {}
  BY <1>4, FS_EmptySet
<1>5. CASE Masters # {}
  <2>1. PICK m \in Masters : TRUE
    BY <1>5
  <2>2. Masters = {m}
    BY <1>3, <2>1
  <2> QED
    BY <2>2, FS_Singleton
<1> QED
  BY <1>4, <1>5

(***************************************************************************)
(* In a network that delivers in time and in order there are never two     *)
(* masters at once, whatever machines crash and shut down and whenever     *)
(* they do, if cluster_hb_timeout is two intervals or more: the age of the *)
(* last heartbeat, the election at once when a master's shutdown ping      *)
(* arrives (cluster_add_peer), and the order of the candidates             *)
(* (cluster_check_master) are enough.                                      *)
(***************************************************************************)
THEOREM OneMaster ==
  ASSUME 2 =< HbTimeout, Wild = {FALSE}, Faults \subseteq {"crash", "quit"}
  PROVE  Spec => []SingleMaster
<1>1. Init => Calm
  BY InitCalm
<1>2. Calm /\ [Next]_vars => Calm'
  BY NextCalm
<1>3. Calm => SingleMaster
  BY CalmIs
<1> QED
  BY <1>1, <1>2, <1>3, PTL DEF Spec
=============================================================================
