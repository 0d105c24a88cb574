------------------------------ MODULE Multilink ------------------------------
(***************************************************************************)
(* Multilink PPP: which sessions make up a bundle (sessionsetup,           *)
(* join_bundle, sessionshutdown), how processipout cuts a packet over the  *)
(* links of a bundle, and how processmpin puts fragments together again.   *)
(*                                                                         *)
(* The two ends of a bundle are taken to run this code and to agree on its *)
(* links; packets are followed in one direction, sent by processipout of   *)
(* one end and received by processmpin of the other.  The receiving end is *)
(* a cluster, whose other machines hand fragments on to the master.        *)
(*                                                                         *)
(* Every user's links have the same endpoint discriminator and header      *)
(* format, and there are addresses enough: one that is free is not taken   *)
(* by another user here, nor is the pool rebuilt by a command, see         *)
(* Sessions.                                                               *)
(***************************************************************************)
EXTENDS Integers, Sequences, SequencesExt, FiniteSets

CONSTANTS
  MaxSession,  \* highest session id
  User,        \* users, each with one address
  NoUser,
  MaxBundle,   \* highest bundle id
  MAXFRAGNUM,  \* slots for fragments of a bundle
  MaxSeq,      \* sequence numbers on the wire, max_seq
  Word,        \* 2^32
  Cuts,        \* numbers of fragments a packet may be cut in besides the code's
  LowSeq,      \* bound: fragments of a bundle when a link joins or another
               \* machine becomes master: their last_seq is 0
  MaxLogins,   \* bound: logins
  MaxFragments,\* bound: fragments of a bundle
  MaxAhead,    \* bound: fragments from the oldest on its way to the newest
  MaxFaults    \* bound: fragments lost, repeated and overtaken, failovers

ASSUME BundleBounds ==
  /\ {MaxSession, MaxBundle, LowSeq, MaxLogins, MaxFragments, MaxAhead, MaxFaults} \subseteq Nat
  /\ MAXFRAGNUM > 1 /\ MaxSeq > MAXFRAGNUM /\ Word % MaxSeq = 0 /\ Word > MaxSeq
  /\ Cuts \subseteq 1 .. MAXFRAGNUM /\ NoUser \notin User

Link   == 1 .. MaxSession
Bundle == 1 .. MaxBundle

VARIABLES
  sess,    \* opened, die, user, bundle, whether it has the user's address,
           \* and ip_pool_index: -1 static, 0 not set, 1 in the pool
  bundle,  \* user, members, seq_num_t, current_ses
  ipmap,   \* for each user, the session his address is mapped to, or 0
  frag,    \* for each bundle, what processmpin keeps
  last,    \* for each link, last_seq
  net,     \* for each link, fragments on their way
  frames,  \* frames put together by the last step
  got,     \* for each bundle, how many of its fragments are behind us
  jumped,  \* for each bundle, whether M has run past its buffer
  calm,    \* for each bundle, how many were cut since the last fault
  logins, faults

vars == <<sess, bundle, ipmap, frag, last, net, frames, got, jumped, calm, logins, faults>>

Empty    == [seq |-> 0, b |-> FALSE, e |-> FALSE, n |-> -1]
NoLink   == [opened |-> FALSE, die |-> FALSE, user |-> NoUser, bundle |-> 0, ip |-> FALSE, pool |-> 0]
Unused   == [user |-> NoUser, members |-> <<>>, seq_num_t |-> 0, current |-> 65535]
NoFrag   == [slot |-> [i \in 0 .. MAXFRAGNUM - 1 |-> Empty], start_index |-> 0, start_seq |-> 0, M |-> 0]

SmallestOf(S) == CHOOSE x \in S : \A y \in S : x <= y

-----------------------------------------------------------------------------
(* Links come and go. *)

\* The last.
Leave_Last(ms, s) == Front(ms)

\* Its place left empty.
Leave_Hole(ms, s) == [i \in DOMAIN ms |-> IF ms[i] = s THEN 0 ELSE ms[i]]

\* The array keeps its order but for the last, which takes the place of the
\* one that leaves.
Leave(ms, s) ==
  LET at == IF \E i \in DOMAIN ms : ms[i] = s THEN CHOOSE i \in DOMAIN ms : ms[i] = s ELSE 1
  IN  Front(IF Last(ms) = s THEN ms ELSE [ms EXCEPT ![at] = Last(ms)])

\* t has the tables sess, bundle and ipmap.
SessionShutdown(t, s) ==
  IF ~t.sess[s].opened \/ t.sess[s].die THEN t
  ELSE LET e  == t.sess[s]
           b  == e.bundle
           ms == IF b = 0 THEN <<>> ELSE t.bundle[b].members
           unmapped == IF e.pool = -1 /\ Len(ms) > 1 THEN t.ipmap ELSE [t.ipmap EXCEPT ![e.user] = 0]
           left == Leave(ms, s)
       IN  IF ~e.ip \/ b = 0
           THEN [t EXCEPT !.sess[s].die = TRUE, !.sess[s].ip = FALSE,
                          !.ipmap = IF e.ip THEN unmapped ELSE @]
           ELSE [t EXCEPT !.sess[s].die = TRUE, !.sess[s].ip = FALSE,
                          !.bundle[b] = IF Len(ms) = 1 THEN Unused ELSE [@ EXCEPT !.members = left],
                          !.ipmap = IF Len(ms) > 1 /\ Head(left) # Head(ms)
                                    THEN [unmapped EXCEPT ![e.user] = Head(left)] ELSE unmapped]

Tables == [sess |-> sess, bundle |-> bundle, ipmap |-> ipmap]

\* What is on its way to a link that is shut down will not be taken, which
\* ends a calm.
Becomes(t) ==
  /\ net' = [s \in Link |-> IF t.sess[s].die THEN <<>> ELSE net[s]]
  /\ sess' = t.sess /\ bundle' = t.bundle /\ ipmap' = t.ipmap
  /\ calm' = [b \in Bundle |-> IF t.bundle[b].members = bundle[b].members THEN calm[b] ELSE 0]

FreeBundles == {b \in Bundle : bundle[b].user = NoUser}

\* A user whose MRRU was accepted has logged in: sessionsetup.  Which free
\* session it is makes no difference.
Login(s, u) ==
  /\ logins < MaxLogins /\ logins' = logins + 1
  /\ ~sess[s].opened /\ \A x \in 1 .. s - 1 : sess[x].opened
  /\ LET his == {b \in Bundle : bundle[b].user = u}
         up  == [NoLink EXCEPT !.opened = TRUE, !.user = u, !.ip = TRUE]
         b   == SmallestOf(IF his # {} THEN his ELSE FreeBundles)
     IN  IF his = {} /\ FreeBundles = {}
         THEN /\ sess' = [sess EXCEPT ![s] = [NoLink EXCEPT !.opened = TRUE, !.die = TRUE, !.user = u]]
              /\ UNCHANGED <<bundle, ipmap, frag, got, jumped, calm>>
         ELSE IF his # {}
         THEN /\ bundle[b].seq_num_t < LowSeq
              /\ sess' = [sess EXCEPT ![s] = [up EXCEPT !.bundle = b]]
              /\ bundle' = [bundle EXCEPT ![b].members = Append(@, s)]
              /\ UNCHANGED <<ipmap, frag, got, jumped, calm>>
         ELSE /\ sess' = [sess EXCEPT ![s] = [up EXCEPT !.bundle = b, !.pool = 1]]
              /\ bundle' = [bundle EXCEPT ![b] = [Unused EXCEPT !.user = u, !.members = <<s>>]]
              /\ frag' = [frag EXCEPT ![b] = NoFrag]
              /\ ipmap' = [ipmap EXCEPT ![u] = s]
              /\ got' = [got EXCEPT ![b] = 0] /\ jumped' = [jumped EXCEPT ![b] = FALSE]
              /\ calm' = [calm EXCEPT ![b] = MaxFragments]
  /\ frames' = <<>>
  /\ UNCHANGED <<last, net, faults>>

\* A link ends by itself.
End(s) ==
  /\ sess[s].opened /\ ~sess[s].die
  /\ Becomes(SessionShutdown(Tables, s))
  /\ frames' = <<>>
  /\ UNCHANGED <<frag, last, got, jumped, logins, faults>>

\* From the first on.
OnMembers_Up(t, b) ==
  FoldLeft(LAMBDA u, i : IF i <= Len(u.bundle[b].members) THEN SessionShutdown(u, u.bundle[b].members[i]) ELSE u,
           t, [i \in 1 .. Len(t.bundle[b].members) |-> i])

\* The session timeout of a bundle, which counts the time of all its links:
\* from the last member to the first.
OnMembers(t, b) ==
  FoldRight(LAMBDA i, u : SessionShutdown(u, u.bundle[b].members[i]),
            [i \in 1 .. Len(t.bundle[b].members) |-> i], t)

SessionTimeout(b) ==
  /\ bundle[b].user # NoUser
  /\ Becomes(OnMembers(Tables, b))
  /\ frames' = <<>>
  /\ UNCHANGED <<frag, last, got, jumped, logins, faults>>

\* The cleaner, after 15 s.
Cleanup(s) ==
  /\ sess[s].opened /\ sess[s].die
  /\ sess' = [sess EXCEPT ![s] = NoLink]
  /\ last' = [last EXCEPT ![s] = 0]
  /\ frames' = <<>>
  /\ UNCHANGED <<bundle, ipmap, frag, net, got, jumped, calm, logins, faults>>

-----------------------------------------------------------------------------
(* Sending. *)

\* Fragments of a long packet.
Divisor(n) == IF n > 2 THEN (n \div 2) + (n % 2) ELSE n

\* A packet for u, cut in k: short ones go as one frame.
Send(u) ==
  /\ ipmap[u] # 0 /\ sess[ipmap[u]].opened
  /\ LET b  == sess[ipmap[u]].bundle
         ms == bundle[b].members
         q  == bundle[b].seq_num_t
         to(j) == ms[((bundle[b].current + j) % Len(ms)) + 1]
     IN  /\ b # 0 /\ Len(ms) > 1
         /\ \E k \in {1, Divisor(Len(ms))} \cup Cuts :
              /\ q + k <= MaxFragments
              /\ \A s \in ToSet(ms) : \A x \in ToSet(net[s]) : q + k - x.n <= MaxAhead
              /\ net' = [s \in Link |->
                   net[s] \o [x \in 1 .. Cardinality({j \in 1 .. k : to(j) = s}) |->
                                LET j == CHOOSE j \in 1 .. k : /\ to(j) = s
                                                               /\ Cardinality({i \in 1 .. j : to(i) = s}) = x
                                IN  [seq |-> (q + j - 1) % MaxSeq, b |-> j = 1, e |-> j = k, n |-> q + j - 1]]]
              /\ bundle' = [bundle EXCEPT ![b].seq_num_t = q + k, ![b].current = (@ + k) % Len(ms)]
              /\ calm' = [calm EXCEPT ![b] = SmallestOf({@ + k, MaxFragments})]
  /\ frames' = <<>>
  /\ UNCHANGED <<sess, ipmap, frag, last, got, jumped, logins, faults>>

-----------------------------------------------------------------------------
(* Receiving.  F is an element of frag. *)

Signed(x) == ((x + (Word \div 2)) % Word) - (Word \div 2)

\* A sequence number in 32 bits, close to M.
Expand(raw, M) ==
  LET x == (M - (M % MaxSeq)) + raw
  IN  IF Signed(M - x) > (MaxSeq - 1) \div 2 THEN (x + MaxSeq) % Word
      ELSE IF Signed(x - M) > (MaxSeq - 1) \div 2 THEN (x - MaxSeq) % Word ELSE x

At(F, k) == (F.start_index + k) % MAXFRAGNUM

\* The buffer stays where it is.
Caught_Stay(F) == F

\* The buffer catches up with M.
Caught(F) ==
  LET off == Signed(F.M - F.start_seq)
  IN  IF off >= MAXFRAGNUM THEN [F EXCEPT !.start_index = At(F, off), !.start_seq = F.M] ELSE F

\* A fragment next to slot i that is not the next or the one before is lost.
Lost(F, i, seq) == F.slot[i] # Empty /\ F.slot[i].seq # seq

\* Its neighbours left alone.
Insert_Only(F, d, x) == <<[F EXCEPT !.slot[At(F, d)] = x], FALSE>>

\* The fragment in its slot, its neighbours cleared if they are lost; and
\* whether that ends the attempt.
Insert(F, d, x) ==
  LET i    == At(F, d)
      G    == [F EXCEPT !.slot[i] = x]
      next == (i + 1) % MAXFRAGNUM
      prev == (i - 1) % MAXFRAGNUM
      gone == next # F.start_index /\ Lost(G, next, (x.seq + 1) % Word)
      H    == IF gone THEN [G EXCEPT !.slot[next] = Empty] ELSE G
      old  == i # F.start_index /\ Lost(H, prev, (x.seq - 1) % Word)
  IN  IF gone /\ x.b /\ ~x.e THEN <<H, TRUE>>
      ELSE IF old THEN <<[H EXCEPT !.slot[prev] = Empty], x.e /\ ~x.b>>
      ELSE <<H, FALSE>>

\* From the start to M, a begin whose end is there too; the start moves to the
\* last begin looked at, and what is not of its place is cleared.
Find(F) ==
  LET Look(a, k) ==
        LET i == At(F, k)
            x == a.F.slot[i]
        IN  IF a.found THEN a
            ELSE IF x = Empty THEN [a EXCEPT !.in = FALSE]
            ELSE IF x.seq # F.start_seq + k THEN [a EXCEPT !.in = FALSE, !.F.slot[i] = Empty]
            ELSE IF ~a.in /\ ~x.b THEN a
            ELSE [F |-> IF a.in THEN a.F ELSE [a.F EXCEPT !.start_index = i, !.start_seq = x.seq],
                  in |-> TRUE, found |-> x.e]
  IN  FoldLeft(Look, [F |-> F, in |-> FALSE, found |-> FALSE], [k \in 1 .. F.M - F.start_seq |-> k - 1]).F

\* Where the frame at the start ends.
Ends(F) ==
  {k \in 0 .. MAXFRAGNUM - 1 : /\ \A j \in 0 .. k : F.slot[At(F, j)] # Empty
                               /\ {j \in 0 .. k : F.slot[At(F, j)].e} = {k}}

\* The start left where it was.
Consumed_Stay(F, k) ==
  [F EXCEPT !.slot = [i \in 0 .. MAXFRAGNUM - 1 |-> IF \E j \in 0 .. k : i = At(F, j) THEN Empty ELSE @[i]]]

\* The frame from the start to k is consumed.
Consumed(F, k) ==
  LET seq == F.slot[At(F, k)].seq + 1
      G   == [F EXCEPT !.slot = [i \in 0 .. MAXFRAGNUM - 1 |->
                                   IF \E j \in 0 .. k : i = At(F, j) THEN Empty ELSE @[i]],
                       !.start_index = At(F, k + 1), !.start_seq = seq]
  IN  IF Lost(G, G.start_index, seq) THEN [G EXCEPT !.slot[G.start_index] = Empty] ELSE G

RECURSIVE Assemble(_, _)
Assemble(F, out) ==
  LET first == F.slot[F.start_index]
      ends  == Ends(F)
      k     == SmallestOf(ends)
      G     == Consumed(F, k)
      out1  == Append(out, [j \in 1 .. k + 1 |-> F.slot[At(F, j - 1)]])
  IN  IF first = Empty THEN <<F, out>>
      ELSE IF ~first.b THEN <<[F EXCEPT !.start_index = At(F, 1), !.start_seq = @ + 1], out>>
      ELSE IF ends = {} THEN <<F, out>>
      ELSE IF G.start_seq <= G.M THEN Assemble(Find(G), out1)
      ELSE IF G.slot[G.start_index].b THEN Assemble(G, out1) ELSE <<G, out1>>

\* Fragment x, with its sequence number expanded, comes in.
Put(F, x) ==
  LET G == Caught(F)
      d == Signed(x.seq - G.start_seq)
      I == Insert(G, d, x)
  IN  IF d < 0 \/ d >= MAXFRAGNUM THEN <<G, <<>>>>
      ELSE IF I[2] THEN <<I[1], <<>>>> ELSE Assemble(Find(I[1]), <<>>)

\* M after a fragment with number seq: the least last_seq of the links.
Least(F, ms, lst, seq) == IF seq < F.M THEN seq ELSE SmallestOf({lst[ms[i]] : i \in DOMAIN ms})

\* processmpin of the master, to which other machines hand fragments on.
Receive(s) ==
  /\ net[s] # <<>>
  /\ net' = [net EXCEPT ![s] = Tail(@)]
  /\ LET b   == sess[s].bundle
         x   == Head(net[s])
         seq == Expand(x.seq, frag[b].M)
         lst == [last EXCEPT ![s] = seq]
     IN  IF ~sess[s].opened \/ sess[s].die \/ b = 0
         THEN frames' = <<>> /\ UNCHANGED <<frag, last, got, jumped>>
         ELSE /\ last' = lst
              /\ \E F \in {[frag[b] EXCEPT !.M = Least(frag[b], bundle[b].members, lst, seq)]} :
                 \E r \in {Put(F, [x EXCEPT !.seq = seq])} :
                   /\ frag' = [frag EXCEPT ![b] = r[1]]
                   /\ frames' = r[2]
                   /\ jumped' = [jumped EXCEPT ![b] = @ \/ Caught(F) # F]
                   /\ got' = IF r[2] = <<>> THEN got ELSE [got EXCEPT ![b] = Last(Last(r[2])).n + 1]
  /\ UNCHANGED <<sess, bundle, ipmap, calm, logins, faults>>

-----------------------------------------------------------------------------
(* Faults. *)

Fault == faults < MaxFaults /\ faults' = faults + 1 /\ frames' = <<>>

Lose(s) ==
  /\ net[s] # <<>> /\ Fault
  /\ net' = [net EXCEPT ![s] = Tail(@)]
  /\ calm' = [b \in Bundle |-> IF b = sess[s].bundle THEN 0 ELSE calm[b]]
  /\ UNCHANGED <<sess, bundle, ipmap, frag, last, got, jumped, logins>>

Repeat(s) ==
  /\ net[s] # <<>> /\ Fault
  /\ net' = [net EXCEPT ![s] = <<Head(@)>> \o @]
  /\ calm' = [b \in Bundle |-> IF b = sess[s].bundle THEN 0 ELSE calm[b]]
  /\ UNCHANGED <<sess, bundle, ipmap, frag, last, got, jumped, logins>>

\* One that another machine of the cluster hands on is overtaken.
Overtake(s) ==
  /\ Len(net[s]) > 1 /\ Fault
  /\ net' = [net EXCEPT ![s] = <<@[2], @[1]>> \o SubSeq(@, 3, Len(@))]
  /\ calm' = [b \in Bundle |-> IF b = sess[s].bundle THEN 0 ELSE calm[b]]
  /\ UNCHANGED <<sess, bundle, ipmap, frag, last, got, jumped, logins>>

\* Another machine becomes master: it has the sessions and the bundles, not
\* the fragments.  rebuild_address_pool maps every address of the pool to minus
\* its index, looks that up without its sign, and so finds no link's address:
\* all count as static, and none is mapped to a session.
FailOver ==
  /\ Fault /\ \A b \in Bundle : bundle[b].seq_num_t < LowSeq
  /\ frag' = [b \in Bundle |-> NoFrag]
  /\ last' = [s \in Link |-> 0]
  /\ sess' = [s \in Link |-> IF sess[s].opened /\ sess[s].ip THEN [sess[s] EXCEPT !.pool = -1] ELSE sess[s]]
  /\ ipmap' = [u \in User |-> 0]
  /\ calm' = [b \in Bundle |-> 0]
  /\ UNCHANGED <<bundle, net, got, jumped, logins>>

-----------------------------------------------------------------------------
Init ==
  /\ sess = [s \in Link |-> NoLink]
  /\ bundle = [b \in Bundle |-> Unused]
  /\ ipmap = [u \in User |-> 0]
  /\ frag = [b \in Bundle |-> NoFrag]
  /\ last = [s \in Link |-> 0]
  /\ net = [s \in Link |-> <<>>]
  /\ frames = <<>>
  /\ got = [b \in Bundle |-> 0] /\ jumped = [b \in Bundle |-> FALSE]
  /\ calm = [b \in Bundle |-> 0]
  /\ logins = 0 /\ faults = 0

Next ==
  \/ \E s \in Link : \/ \E u \in User : Login(s, u)
                     \/ End(s) \/ Cleanup(s) \/ Receive(s) \/ Lose(s) \/ Repeat(s) \/ Overtake(s)
  \/ \E b \in Bundle : SessionTimeout(b)
  \/ \E u \in User : Send(u)
  \/ FailOver

Spec == Init /\ [][Next]_vars

-----------------------------------------------------------------------------
(* Properties. *)

\* The tables are of their kind: what names a session, a bundle or a slot of
\* the buffer names one that exists.
TypeOK ==
  /\ \A s \in Link : /\ sess[s].bundle \in Bundle \cup {0} /\ sess[s].user \in User \cup {NoUser}
                     /\ sess[s].pool \in {-1, 0, 1} /\ last[s] \in 0 .. Word - 1
  /\ \A b \in Bundle : /\ ToSet(bundle[b].members) \subseteq Link
                       /\ frag[b].start_index \in 0 .. MAXFRAGNUM - 1
                       /\ frag[b].start_seq \in 0 .. Word - 1 /\ frag[b].M \in 0 .. Word - 1
  /\ \A u \in User : ipmap[u] \in Link \cup {0}

Live(s) == sess[s].opened /\ ~sess[s].die

\* The members of a bundle are its live links, each once (l2tpns.c:2237,
\* ppp.c:1151): processmpin takes the least last_seq of exactly these.
MembersAreLive ==
  \A b \in Bundle : LET ms == bundle[b].members IN
    /\ ToSet(ms) = {s \in Link : Live(s) /\ sess[s].bundle = b}
    /\ Cardinality(ToSet(ms)) = Len(ms)

Whole(f) == /\ f[1].b /\ f[Len(f)].e
            /\ \A j \in 1 .. Len(f) - 1 : f[j + 1].n = f[j].n + 1 /\ ~f[j].e

\* Every frame put together is one packet: its fragments, all of them, in
\* order (ppp.c:2034, ppp.c:2175).  That goes until M has run past the buffer.
FramesWhole ==
  (\A b \in Bundle : ~jumped[b]) => \A i \in DOMAIN frames : Whole(frames[i])

\* And afterwards, "the previous frag are lost" (ppp.c:1979).
FramesAlwaysWhole == \A i \in DOMAIN frames : Whole(frames[i])

\* Packets come in the order they were sent in, and none twice (ppp.c:1990,
\* ppp.c:2234).
InOrder ==
  [][\A s \in Link : Receive(s) /\ frames' # <<>> =>
       LET b == sess[s].bundle
       IN  /\ frames'[1][1].n >= got[b]
           /\ \A i \in 1 .. Len(frames') - 1 : frames'[i + 1][1].n > Last(frames'[i]).n]_vars

AtRest(b) == \A s \in ToSet(bundle[b].members) : net[s] = <<>>

\* While nothing is lost or overtaken, all that was sent comes through.  After
\* a fault packets come through again once each slot could have been used: the
\* gap is never two buffers wide.
Recovers ==
  \A b \in Bundle : Len(bundle[b].members) > 1 /\ AtRest(b) =>
    /\ calm[b] = MaxFragments => got[b] = bundle[b].seq_num_t
    /\ calm[b] >= 2 * MAXFRAGNUM => got[b] + 2 * MAXFRAGNUM > bundle[b].seq_num_t

\* When the time of a bundle is up, it ends with all its links
\* (l2tpns.c:3931).
TimeoutEndsAll ==
  [][\A b \in Bundle : SessionTimeout(b) =>
       /\ bundle'[b] = Unused
       /\ \A s \in Link : sess[s].bundle = b => sess'[s].die]_vars

\* Packets for a user with a live link find one ("the new first session must be
\* stored in the cache_ipmap else the function sessionbyip return 0 and the
\* sending not work any more", l2tpns.c:2262).
AddressReaches ==
  \A u \in User : (\E s \in Link : Live(s) /\ sess[s].user = u) => ipmap[u] # 0 /\ Live(ipmap[u])

\* The members of a bundle, and what is put together from their fragments.
Reassembly == TypeOK /\ MembersAreLive /\ FramesWhole

\* What a step may not do: deliver out of order, or leave a link behind when the
\* bundle's time is up.
InTurn == InOrder /\ TimeoutEndsAll

=============================================================================
