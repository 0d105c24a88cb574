------------------------------- MODULE Cluster -------------------------------
(***************************************************************************)
(* Mastership of a cluster of l2tpns machines and the sequence of          *)
(* heartbeats (src/cluster.c): pings and elections, two masters meeting,   *)
(* heartbeat numbers, the ring of past heartbeats, catching up, C_MASTER   *)
(* redirections and C_KILL, routes, shutdown.  What a heartbeat carries is *)
(* the subject of ClusterTables.                                           *)
(*                                                                         *)
(* Time is a sequence of rounds, one cluster_hb_interval each.  In a round *)
(* every machine that is up runs the periodic block of its main loop once  *)
(* (Wake), in any order, between arrivals of packets.  Ages count rounds   *)
(* and saturate where the code stops telling them apart.  A packet arrives *)
(* in the round it was sent in, if at all.  The network keeps the order    *)
(* between two machines and loses only the packets that count as faults;   *)
(* a wild one loses and reorders any, while no machine fails.              *)
(*                                                                         *)
(* Addresses are numbers in the order in which the code compares them; 0   *)
(* is no address.  basetime is the rank of a process's start; 0 in a ping  *)
(* says that the sender shuts down.  Limits on how often C_LASTSEEN is     *)
(* sent are left out: they drop what the network may drop too.  So are the *)
(* faster heartbeats of a master with a slave that is not up to date, and  *)
(* the reuse of peer entries, of which there are CLUSTER_MAX_SIZE: here a  *)
(* machine has one for every other.                                        *)
(***************************************************************************)
EXTENDS Integers, FiniteSets, Sequences, SequencesExt

CONSTANTS
  Node,             \* addresses of the machines
  HB_MAX_SEQ,       \* heartbeat numbers are modulo this
  HB_HISTORY_SIZE,  \* length of past_hearts
  HbTimeout,        \* cluster_hb_timeout, in rounds
  ProbeAfter,       \* 2 * cluster_hb_interval + 11, in rounds
  MinAdv,           \* cluster_master_min_adv
  BaseTime,         \* basetime of the processes running at first: choices
  Wild,             \* whether the network loses and reorders any packet: choices
  Faults,           \* kinds of faults: "crash", "start", "quit" and "loss"
  MaxFaults,        \* bound: faults in a behaviour
  MaxChanges        \* bound: table changes in a behaviour

ASSUME AddressesAreNumbers == Node \subseteq Nat \ {0} /\ IsFiniteSet(Node)
ASSUME RingDividesNumbers  == /\ HB_HISTORY_SIZE \in Nat \ {0}
                              /\ HB_MAX_SEQ \in Nat /\ HB_MAX_SEQ > HB_HISTORY_SIZE
                              /\ HB_MAX_SEQ % HB_HISTORY_SIZE = 0
ASSUME TimersAreRounds     == {HbTimeout, ProbeAfter} \subseteq Nat \ {0}
ASSUME StartsAreRanks      == BaseTime \subseteq Nat \ {0}
ASSUME Bounds              == {MinAdv, MaxFaults, MaxChanges} \subseteq Nat
ASSUME FaultKinds          == Wild \subseteq BOOLEAN /\ Faults \subseteq {"crash", "start", "quit", "loss"}

VARIABLES
  proc,     \* the process of each machine, a record as in Fresh
  net,      \* packets sent this round and not yet received, by sender and receiver
  woke,     \* machines that ran their periodic block this round
  faults,   \* faults so far
  stray,    \* ghost: some machine read past_hearts outside the ring
  wild      \* the network loses and reorders any packet

vars == <<proc, net, woke, faults, stray, wild>>

NoPeer == [base |-> 0, age |-> HbTimeout + 1, utd |-> FALSE, known |-> FALSE]
\* Zeroed memory, size 0.
NoBeat == [seq |-> 0, tv |-> 0, base |-> 0, by |-> 0, new |-> {}, all |-> {}]
Slot   == 0 .. HB_HISTORY_SIZE - 1

\* A process just started, with basetime b.
Fresh(b) == [
  up     |-> TRUE,
  base   |-> b,
  master |-> FALSE,                       \* cluster_iam_master
  addr   |-> 0,                           \* cluster_master_address
  seq    |-> -1,                          \* cluster_seq_number
  tv     |-> 0,                           \* cluster_table_version
  has    |-> {},                          \* the changes its tables hold
  ring   |-> [i \in Slot |-> NoBeat],     \* past_hearts
  hbAge  |-> 0,                           \* TIME - cluster_last_hb
  upAge  |-> 0,                           \* TIME, counted from the start
  peer   |-> [m \in Node |-> NoPeer],     \* peers
  utd    |-> FALSE,                       \* cluster_iam_uptodate
  adv    |-> FALSE,                       \* routes are advertised
  had    |-> 0,                           \* have_peers in cluster_check_slaves
  quit   |-> FALSE ]                      \* main_quit

Down(b) == [Fresh(b) EXCEPT !.up = FALSE]

Up == {n \in Node : proc[n].up}

-----------------------------------------------------------------------------
(* Packets.                                                                *)

Ping(b, u)  == [type |-> "ping", base |-> b, undef |-> u]
Beat(hb)    == [type |-> "beat", hb |-> hb]
LastSeen(q) == [type |-> "lastseen", seq |-> q]
Redirect(a) == [type |-> "master", addr |-> a]
Kill(q)     == [type |-> "kill", seq |-> q]

Link == {c \in Node \X Node : c[1] # c[2]}

\* What a machine sends, by destination.  Nothing is sent to address 0, and what
\* comes from its own address a machine ignores.
Nothing    == [d \in Node |-> <<>>]
To(d, s)   == [Nothing EXCEPT ![d] = s]
ToAll(s)   == [d \in Node |-> s]
And(o, o2) == [d \in Node |-> o[d] \o o2[d]]

Sent(w, n, out) == [c \in Link |-> IF c[1] = n THEN w[c] \o out[c[2]] ELSE w[c]]

-----------------------------------------------------------------------------
(* cluster_check_master and cluster_check_slaves, on the process p of n.   *)

Live(p, m)  == p.peer[m].base # 0 /\ p.peer[m].age <= HbTimeout
Ready(p)    == Cardinality({m \in Node : Live(p, m) /\ p.peer[m].utd})

\* Mutants of Deferred: no rule for a tie; everybody gives way on a tie.
Deferred_NoTie(n, p)  == \E m \in Node : Live(p, m) /\ p.peer[m].base < p.base
Deferred_AnyTie(n, p) == \E m \in Node \ {n} : Live(p, m) /\ p.peer[m].base <= p.base

\* A live peer that is older, or as old and of a higher address, will win.
Deferred(n, p) ==
  \E m \in Node : /\ Live(p, m)
                  /\ \/ p.peer[m].base < p.base
                     \/ p.peer[m].base = p.base /\ m > n

BecomeMaster(p) ==
  [p EXCEPT !.master = TRUE,
            !.adv = Ready(p) < MinAdv,
            !.seq = IF @ = -1 THEN 0 ELSE @,
            !.utd = TRUE]

CheckMaster(n, p) ==
  IF p.master \/ p.hbAge < HbTimeout
  THEN p
  ELSE LET q == [p EXCEPT !.hbAge = 0, !.addr = 0]
       IN  IF p.quit \/ Deferred(n, q) THEN q ELSE BecomeMaster(q)

\* The probe of a master whose heartbeats are late.
Probe(p) ==
  IF ~p.master /\ p.hbAge > ProbeAfter /\ p.addr # 0
  THEN To(p.addr, <<LastSeen(p.seq)>>)
  ELSE Nothing

CheckSlaves(p) ==
  IF ~p.master THEN p
  ELSE LET have == Ready(p)
       IN  [p EXCEPT !.utd = \A m \in Node : Live(p, m) => p.peer[m].utd,
                     !.had = have,
                     !.adv = CASE p.had < MinAdv /\ have >= MinAdv -> FALSE
                               [] p.had >= MinAdv /\ have < MinAdv -> TRUE
                               [] OTHER -> @]

-----------------------------------------------------------------------------
(* Heartbeats.                                                             *)

\* cluster_heartbeat with c queued changes: the process after it, and what it sent.
\* A change is named by the master that made it and its table version.  all is what
\* the slow walk brings in time to a slave that joins.
NextBeat(n, p, c) ==
  LET new == {<<n, p.tv + k>> : k \in 1 .. c}
  IN  [seq |-> p.seq, tv |-> p.tv + c, base |-> p.base, by |-> n,
       new |-> new, all |-> p.has \cup new]

\* Mutant: the numbers do not wrap.
Saved_NoWrap(p, hb) == [p EXCEPT !.ring[hb.seq % HB_HISTORY_SIZE] = hb, !.seq = hb.seq + 1]

Saved(p, hb) == [p EXCEPT !.ring[hb.seq % HB_HISTORY_SIZE] = hb,
                          !.seq = (hb.seq + 1) % HB_MAX_SEQ]

AfterBeat(n, p, c) ==
  LET h == NextBeat(n, p, c)
  IN  [Saved(p, h) EXCEPT !.tv = h.tv, !.has = h.all]

\* cluster_catchup_slave: what a master sends to d, asked for the heartbeats from q
\* on.  It stops at the first one that the ring does not hold; a slot that was never
\* written has size 0, and nothing arrives for it.
Behind(p, q) == IF p.seq - q < 0 THEN p.seq - q + HB_MAX_SEQ ELSE p.seq - q

Catchup(p, q) ==
  LET diff == Behind(p, q)
      resent[k \in 0 .. diff] ==          \* k heartbeats before the next one
        LET s    == (q + diff - k) % HB_MAX_SEQ
            slot == p.ring[s % HB_HISTORY_SIZE]
        IN  IF k = 0 \/ slot.seq # s THEN <<>>
            ELSE (IF slot.by = 0 THEN <<>> ELSE <<Beat(slot)>>) \o resent[k - 1]
  IN  IF diff >= HB_HISTORY_SIZE THEN <<Kill(q)>>
      ELSE IF q < 0 THEN <<>>              \* past_hearts[-1]: taken to match nothing
      ELSE resent[diff]

OutsideRing(p, q) == q < 0 /\ Behind(p, q) < HB_HISTORY_SIZE /\ q # p.seq

-----------------------------------------------------------------------------
(* A round of one machine.                                                 *)

Install(n, p, out) == proc' = [proc EXCEPT ![n] = p] /\ net' = Sent(net, n, out)

Wake(n) ==
  /\ n \in Up \ woke
  /\ woke' = woke \cup {n}
  /\ LET p    == proc[n]
         ping == IF p.master THEN Nothing ELSE ToAll(<<Ping(p.base, ~p.utd)>>)
         e    == CheckMaster(n, p)
     IN  \E c \in 0 .. 1 :
           /\ c = 1 => e.master /\ e.tv < MaxChanges
           /\ LET b    == IF e.master THEN AfterBeat(n, e, c) ELSE e
                  beat == IF e.master THEN ToAll(<<Beat(NextBeat(n, e, c))>>) ELSE Nothing
              IN  Install(n, CheckSlaves(b), And(And(ping, Probe(p)), beat))
  /\ UNCHANGED <<faults, stray, wild>>

-----------------------------------------------------------------------------
(* Packets received: processcluster.  n receives m, the i-th packet on its *)
(* way from x.                                                             *)

Take(x, n, i, p, out) ==
  /\ proc' = [proc EXCEPT ![n] = p]
  /\ net' = Sent([net EXCEPT ![<<x, n>>] = RemoveAt(@, i)], n, out)
  /\ UNCHANGED <<woke, faults, wild>>

\* cluster_add_peer.  A ping from the master means that it restarts or shuts down:
\* an election is held at once.  A peer met for the first time is added only after
\* that, perhaps in the place of one that has shut down.
RecvPing(x, n, i, m) ==
  LET p     == proc[n]
      entry == [base |-> m.base, age |-> 0, utd |-> ~m.undef, known |-> TRUE]
      known == p.peer[x].known
      p1    == IF known THEN [p EXCEPT !.peer[x] = entry] ELSE p
      p2    == IF x = p.addr
               THEN CheckMaster(n, [p1 EXCEPT !.addr = 0, !.hbAge = p.upAge])
               ELSE p1
      gone  == {d \in Node : p2.peer[d].known /\ p2.peer[d].base = 0}
  IN  /\ m.type = "ping"
      /\ UNCHANGED stray
      /\ \/ known /\ Take(x, n, i, p2, Nothing)
         \/ ~known /\ gone = {} /\ Take(x, n, i, [p2 EXCEPT !.peer[x] = entry], Nothing)
         \/ /\ ~known
            /\ \E d \in gone :
                 Take(x, n, i, [p2 EXCEPT !.peer[d] = NoPeer, !.peer[x] = entry], Nothing)

\* Mutant: the machine with as many changes yields too.
Yields_Equal(n, p, x, h) == h.tv >= p.tv

\* A master that hears another's heartbeat: the one that has seen more changes,
\* then the older, then the one of the higher address stays.
Yields(n, p, x, h) ==
  \/ h.tv > p.tv
  \/ h.tv = p.tv /\ p.base > h.base
  \/ h.tv = p.tv /\ p.base = h.base /\ n < x

Insists(n, p, x, h) == h.tv = p.tv /\ p.base = h.base /\ n > x

Exit(n) == Down(proc[n].base)

MasterRecvBeat(x, n, i, m) ==
  LET p == proc[n]
  IN  /\ m.type = "beat" /\ p.master
      /\ \/ Yields(n, p, x, m.hb) /\ Take(x, n, i, Exit(n), Nothing) /\ UNCHANGED stray
         \/ /\ Insists(n, p, x, m.hb)
            /\ Take(x, n, i, p, To(x, Catchup(p, p.seq - 1)))
            /\ stray' = (stray \/ OutsideRing(p, p.seq - 1))
         \/ /\ ~Yields(n, p, x, m.hb) /\ ~Insists(n, p, x, m.hb)
            /\ Take(x, n, i, p, Nothing) /\ UNCHANGED stray

\* Mutant: every later heartbeat is expected.
Expected_Any(p, h) == h.seq

\* cluster_process_heartbeat at a slave: the number it expects, and its process after
\* the heartbeat h from x.  done: this heartbeat defined the last undefined entry.
Expected(p, h) == IF p.seq = -1 THEN h.seq ELSE p.seq

Applied(p, x, h, done) ==
  [Saved(p, h) EXCEPT !.addr  = x,
                      !.hbAge = 0,
                      !.tv    = h.tv,
                      !.has   = IF p.seq = -1 THEN h.all ELSE @ \cup h.new,
                      !.utd   = @ \/ done,
                      !.adv   = @ \/ (done /\ ~p.utd)]

SlaveRecvBeat(x, n, i, m) ==
  LET p == proc[n]
      q == Expected(p, m.hb)
  IN  /\ m.type = "beat" /\ ~p.master
      /\ UNCHANGED stray
      /\ \/ p.addr \notin {0, x} /\ Take(x, n, i, p, Nothing)          \* a stray master
         \/ /\ p.addr \in {0, x} /\ q # m.hb.seq                      \* out of sequence
            /\ Take(x, n, i, [p EXCEPT !.hbAge = 0], To(x, <<LastSeen(q)>>))
         \/ /\ p.addr \in {0, x} /\ q = m.hb.seq
            /\ \E done \in BOOLEAN : Take(x, n, i, Applied(p, x, m.hb, done), Nothing)

\* C_LASTSEEN: cluster_catchup_slave.
RecvLastSeen(x, n, i, m) ==
  LET p == proc[n]
  IN  /\ m.type = "lastseen"
      /\ Take(x, n, i, p, To(x, IF p.master THEN Catchup(p, m.seq) ELSE <<Redirect(p.addr)>>))
      /\ stray' = (stray \/ (p.master /\ OutsideRing(p, m.seq)))

\* C_MASTER: cluster_set_master.
RecvRedirect(x, n, i, m) ==
  LET p == proc[n]
      q == [p EXCEPT !.addr = m.addr, !.hbAge = IF m.addr # 0 THEN 0 ELSE @]
  IN  /\ m.type = "master"
      /\ IF p.master
         THEN Take(x, n, i, p, Nothing)
         ELSE Take(x, n, i, CheckMaster(n, q),
                   IF m.addr # 0 THEN To(m.addr, <<LastSeen(p.seq)>>) ELSE Nothing)
      /\ UNCHANGED stray

\* C_KILL.
RecvKill(x, n, i, m) ==
  LET p == proc[n]
  IN  /\ m.type = "kill"
      /\ Take(x, n, i, IF p.master \/ m.seq # p.seq THEN p ELSE Exit(n), Nothing)
      /\ UNCHANGED stray

Receive(x, n, i) ==
  LET m == net[<<x, n>>][i]
  IN  /\ n \in Up
      /\ wild \/ i = 1
      /\ \/ RecvPing(x, n, i, m)
         \/ MasterRecvBeat(x, n, i, m)
         \/ SlaveRecvBeat(x, n, i, m)
         \/ RecvLastSeen(x, n, i, m)
         \/ RecvRedirect(x, n, i, m)
         \/ RecvKill(x, n, i, m)

-----------------------------------------------------------------------------
(* Rounds and faults.                                                      *)

Older(a, cap) == IF a < cap THEN a + 1 ELSE a

Aged(p) == [p EXCEPT !.hbAge = Older(@, HbTimeout + 1),
                     !.upAge = Older(@, HbTimeout + 1),
                     !.peer  = [m \in Node |-> [p.peer[m] EXCEPT !.age = Older(@, HbTimeout + 1)]]]

Lose(x, n) ==
  /\ "loss" \in Faults /\ faults < MaxFaults /\ ~wild
  /\ net[<<x, n>>] # <<>>
  /\ net' = [net EXCEPT ![<<x, n>>] = Tail(@)]
  /\ faults' = faults + 1
  /\ UNCHANGED <<proc, woke, stray, wild>>

\* Bound: losses end when a slave lags more than the ring behind its master, before
\* the heartbeat numbers come round to it; the code's numbers take decades to.
Lapped ==
  \E n, m \in Up :
    /\ proc[n].master /\ ~proc[m].master /\ proc[m].seq # -1
    /\ Behind(proc[n], proc[m].seq) \in HB_HISTORY_SIZE + 1 .. HB_MAX_SEQ - HB_HISTORY_SIZE - 1

\* The next round; what has not arrived is lost.
Tick ==
  /\ Up \subseteq woke
  /\ ~wild \/ Lapped => \A c \in Link : c[2] \in Up => net[c] = <<>>
  /\ proc' = [n \in Node |-> IF n \in Up THEN Aged(proc[n]) ELSE proc[n]]
  /\ net' = [c \in Link |-> <<>>]
  /\ woke' = {}
  /\ UNCHANGED <<faults, stray, wild>>

Fault(kind, n, p, out) ==
  /\ kind \in Faults /\ faults < MaxFaults /\ ~wild
  /\ faults' = faults + 1
  /\ Install(n, p, out)
  /\ woke' = woke \ {n}
  /\ UNCHANGED <<stray, wild>>

Crash(n) == n \in Up /\ Fault("crash", n, Exit(n), Nothing)

\* A process is started where none runs; it is the youngest.
Start(n) ==
  /\ n \notin Up
  /\ \E m \in Node : /\ \A k \in Node : proc[k].base <= proc[m].base
                    /\ Fault("start", n, Fresh(proc[m].base + 1), Nothing)

\* SIGTERM and SIGQUIT set main_quit; the machine serves until it is no longer busy.
\* A slave that speaks BGP says first that it does not want to become master.
RequestQuit(n) ==
  LET p == proc[n]
  IN  /\ n \in Up /\ ~p.quit
      /\ Fault("quit", n, [p EXCEPT !.quit = TRUE],
               IF p.master THEN Nothing ELSE ToAll(<<Ping(0, ~p.utd)>>))

\* The end of the main loop: a master flushes its changes, and everybody is told.
Shutdown(n) ==
  LET p    == proc[n]
      c    == IF p.tv < MaxChanges THEN 1 ELSE 0
      beat == IF p.master THEN ToAll(<<Beat(NextBeat(n, p, c))>>) ELSE Nothing
      ping == ToAll(<<Ping(0, ~p.utd /\ ~p.master)>>)
  IN  /\ n \in Up /\ p.quit
      /\ Install(n, Exit(n), And(beat, ping))
      /\ woke' = woke \ {n}
      /\ UNCHANGED <<faults, stray, wild>>

-----------------------------------------------------------------------------
Init ==
  /\ proc \in [Node -> {Fresh(b) : b \in BaseTime}]
  /\ net = [c \in Link |-> <<>>]
  /\ woke = {}
  /\ faults = 0
  /\ stray = FALSE
  /\ wild \in Wild

Step == \/ \E n \in Node : Wake(n) \/ Shutdown(n)
        \/ \E c \in Link : \E i \in DOMAIN net[c] : Receive(c[1], c[2], i)
        \/ Tick

Next == \/ Step
        \/ \E n \in Node : Crash(n) \/ Start(n) \/ RequestQuit(n)
        \/ \E c \in Link : Lose(c[1], c[2])

Spec == Init /\ [][Next]_vars

\* Rounds go on, every process runs its main loop and ends when told to, and in a
\* timely network every packet sent to a process that runs arrives.
FairSpec == Spec /\ WF_vars(Step) /\ \A n \in Node : WF_vars(Shutdown(n))

-----------------------------------------------------------------------------
Masters == {n \in Up : proc[n].master}

Changes == Node \X Nat

Beats == [seq : 0 .. HB_MAX_SEQ - 1, tv : Nat, base : Nat, by : Node \cup {0},
          new : SUBSET Changes, all : SUBSET Changes]

Packet == [type : {"ping"}, base : Nat, undef : BOOLEAN]
            \cup [type : {"beat"}, hb : Beats]
            \cup [type : {"lastseen", "kill"}, seq : -1 .. HB_MAX_SEQ - 1]
            \cup [type : {"master"}, addr : Node \cup {0}]

\* Machines and packets are of their kind: the number of the next heartbeat and
\* those kept in the ring stay below HB_MAX_SEQ.
TypeOK ==
  /\ DOMAIN proc = Node
  /\ \A n \in Node :
       LET p == proc[n]
       IN  /\ {p.up, p.master, p.utd, p.adv, p.quit} \subseteq BOOLEAN
           /\ {p.base, p.tv, p.had} \subseteq Nat
           /\ p.seq \in -1 .. HB_MAX_SEQ - 1
           /\ p.has \subseteq Changes
           /\ p.addr \in Node \cup {0}
           /\ p.ring \in [Slot -> Beats]
           /\ {p.hbAge, p.upAge} \subseteq 0 .. HbTimeout + 1
           /\ p.peer \in [Node -> [base : Nat, age : 0 .. HbTimeout + 1,
                                   utd : BOOLEAN, known : BOOLEAN]]
  /\ net \in [Link -> Seq(Packet)]
  /\ woke \subseteq Node
  /\ faults \in 0 .. MaxFaults
  /\ {stray, wild} \subseteq BOOLEAN

\* When two masters meet, one stays: a master that ends because of another's
\* heartbeat leaves a master behind.
ConflictLeavesMaster ==
  [][\A n \in Masters :
       (n \notin Up' /\ faults' = faults /\ ~proc[n].quit) => Masters' # {}]_vars

\* "The master then unicasts the missing packets to the slave" (INTERNALS:117): a
\* slave that follows a master and expects the number that it sends next has got every
\* change that the master made or got, and no other.  (The slow walk repairs the
\* tables where this fails, one entry after another.)
InStepSameTables ==
  \A n \in Masters, m \in Up :
    proc[m].addr = n /\ proc[m].seq = proc[n].seq => proc[m].has = proc[n].has

\* cluster_master_min_adv is the "number of up to date slaves required before the
\* master will drop routes" (startup-config.5.pod:105): once its periodic block has
\* run, a master has routes up if and only if it counted fewer.
RoutesFollowSlaves ==
  [][\A n \in woke' \ woke : proc'[n].master => (proc'[n].adv <=> proc'[n].had < MinAdv)]_vars

\* "In the event of a tie, the machine with the lowest IP address will win"
\* (INTERNALS:157): a master is not of a higher address than a machine as old,
\* which it heard from in time and which heard from it.
LowestAddressWins ==
  \A n \in Masters, m \in Up :
    proc[n].base = proc[m].base /\ Live(proc[n], m) /\ Live(proc[m], n) => n <= m

\* "safe to do seq-number - 1 without checking for wrap around" (cluster.c:1862):
\* past_hearts is never read outside the ring.
ReadsStayInRing == ~stray

\* With packets in time and in order there is never a second master, whatever machines
\* crash and shut down: the age of the last heartbeat and the order of the candidates
\* are enough.  A start or a lost packet alone does not make one either.
SingleMaster == Cardinality(Masters) <= 1

\* When the faults are over, the machines that are up settle on one master that
\* all of them follow.
Settles ==
  <>[](Up = {}) \/ <>[](\E n \in Masters : \A m \in Up \ {n} : proc[m].addr = n)
=============================================================================
