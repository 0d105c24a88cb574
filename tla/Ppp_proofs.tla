------------------------------ MODULE Ppp_proofs ------------------------------
(***************************************************************************)
(* That a session gets to the Network phase only by an Access-Accept, that *)
(* its network protocols live and die with LCP, and that no link stays     *)
(* half open, for every peer of Ppp, any number of tries, losses and early *)
(* timers.                                                                 *)
(***************************************************************************)
EXTENDS Ppp, SequenceTheorems, TLAPS

NcpLayer == {"ipcp", "ipv6cp", "ccp"}

LType == [phase : Phase, st : [Layer -> State], conf : [Layer -> Nat], authtype : Auth,
          ip : BOOLEAN, chap : 0 .. MaxChap, asked : BOOLEAN, die : BOOLEAN]
PType == [up : BOOLEAN, st : [Layer -> State \cup {"Closed"}], auth : Auth, can : SUBSET Auth, good : SUBSET Layer, closed : BOOLEAN]

\* What a handler of this end works on, and of the peer.
W == [l : LType, out : Seq(Packet)]

\* What the peer sends.
FromPeer == {q \in Packet : /\ q.layer = "auth" => q.code \in {"Pap", "Response"}
                            /\ q.layer # "auth" => q.code \in {"Req", "Ack", "Nak", "TermReq"}}
V == [p : PType, out : Seq(FromPeer)]

\* There is no address before an Access-Accept, and as long as there is none
\* the session has a way of authentication to ask for.
Granted(k) == (k.phase = "Network" => k.ip) /\ (k.ip \/ k.authtype # "none")

\* What NcpNeedsNetwork says.
Stacked(k) ==
  /\ \A x \in NcpLayer : (k.st[x] # "Initial") = (k.phase = "Network")
  /\ k.phase \in {"Authenticate", "Network"} => k.st["lcp"] = "Opened"

Sound(w) == w \in W /\ Granted(w.l) /\ Stacked(w.l)

\* Two states that differ at most in what is sent and in counts.
Alike(v, w) ==
  /\ v.l.phase = w.l.phase /\ v.l.authtype = w.l.authtype /\ v.l.ip = w.l.ip /\ v.l.chap = w.l.chap
  /\ v.l.asked = w.l.asked /\ v.l.die = w.l.die

-----------------------------------------------------------------------------
(* What the handlers are made of. *)

LEMMA PktOk ==
  ASSUME NEW x \in Layer \cup {"auth"},
         NEW c \in {"Req", "Ack", "Nak", "TermReq", "TermAck", "Pap", "Challenge", "Response", "Success"}
  PROVE  Pkt(x, c) \in Packet /\ Pkt(x, c).layer = x /\ Pkt(x, c).code = c
  BY DEF Pkt, Packet, Auth

LEMMA OutOk ==
  ASSUME NEW w \in W, NEW q \in Packet
  PROVE  Out(w, q) \in W /\ Out(w, q).l = w.l
<1>1. Append(w.out, q) \in Seq(Packet)
  BY AppendProperties DEF W
<1> QED
  BY <1>1 DEF Out, W

LEMMA ChangeStateOk ==
  ASSUME NEW w \in W, NEW x \in Layer, NEW new \in State
  PROVE  LET v == ChangeState(w, x, new)
         IN  v \in W /\ Alike(v, w) /\ v.l.st = [w.l.st EXCEPT ![x] = new]
  BY DEF ChangeState, W, LType, Alike

LEMMA SendReqOk ==
  ASSUME NEW w \in W, NEW x \in Layer
  PROVE  LET v == SendReq(w, x)
         IN  v \in W /\ Alike(v, w) /\ v.l.st = w.l.st
<1> DEFINE n == w.l.conf[x] + 1
           u == [w EXCEPT !.l.conf[x] = n]
           q == [Pkt(x, "Req") EXCEPT !.auth = IF x = "lcp" THEN w.l.authtype ELSE "none"]
<1>0. n \in Nat
  BY DEF W, LType
<1> HIDE DEF n
<1>1. u \in W /\ Alike(u, w) /\ u.l.st = w.l.st
  BY <1>0 DEF W, LType, Alike
<1>2. q \in Packet
  BY DEF Pkt, Packet, W, LType, Auth
<1>3. SendReq(w, x) = Out(u, q)
  BY DEF SendReq, n
<1> QED
  <2> HIDE DEF u, q
  <2>1. SendReq(w, x) \in W /\ SendReq(w, x).l = u.l
    BY <1>1, <1>2, <1>3, OutOk
  <2> QED
    BY <1>1, <2>1 DEF Alike

LEMMA RestartCountOk ==
  ASSUME NEW w \in W, NEW x \in Layer
  PROVE  LET v == InitialiseRestartCount(w, x)
         IN  v \in W /\ Alike(v, w) /\ v.l.st = w.l.st
  BY DEF InitialiseRestartCount, W, LType, Alike

LEMMA ShutdownOk ==
  ASSUME NEW w, Sound(w)
  PROVE  Sound(Shutdown(w))
  BY DEF Shutdown, Sound, W, LType, Granted, Stacked, State, Phase, Layer, NcpLayer

LEMMA OutKeeps ==
  ASSUME NEW w, Sound(w), NEW q \in Packet
  PROVE  Sound(Out(w, q))
  BY OutOk DEF Sound

LEMMA SendReqKeeps ==
  ASSUME NEW w, Sound(w), NEW x \in Layer
  PROVE  LET v == SendReq(w, x)
         IN  Sound(v) /\ Alike(v, w) /\ v.l.st = w.l.st
  BY SendReqOk DEF Sound, Granted, Stacked, Alike

LEMMA RestartCountKeeps ==
  ASSUME NEW w, Sound(w), NEW x \in Layer
  PROVE  LET v == InitialiseRestartCount(w, x)
         IN  Sound(v) /\ Alike(v, w) /\ v.l.st = w.l.st
  BY RestartCountOk DEF Sound, Granted, Stacked, Alike

\* A network protocol changes its state while the session is in the Network phase.
LEMMA NcpStateKeeps ==
  ASSUME NEW w, Sound(w), w.l.phase = "Network", NEW x \in NcpLayer, NEW new \in State \ {"Initial"}
  PROVE  LET v == ChangeState(w, x, new)
         IN  Sound(v) /\ Alike(v, w) /\ v.l.st = [w.l.st EXCEPT ![x] = new]
<1> DEFINE v == ChangeState(w, x, new)
<1>1. x \in Layer /\ x # "lcp"
  BY DEF NcpLayer, Layer
<1>2. v \in W /\ Alike(v, w) /\ v.l.st = [w.l.st EXCEPT ![x] = new]
  BY <1>1, ChangeStateOk DEF Sound
<1>3. w.l.st \in [Layer -> State] /\ NcpLayer \subseteq Layer /\ "lcp" \in Layer
  BY DEF Sound, W, LType, NcpLayer, Layer
<1>4. v.l.st["lcp"] = w.l.st["lcp"]
  BY <1>1, <1>2, <1>3
<1>5. \A y \in NcpLayer : v.l.st[y] # "Initial"
  BY <1>2, <1>3 DEF Sound, Stacked
<1> QED
  BY <1>2, <1>4, <1>5 DEF Sound, Granted, Stacked, Alike

\* LCP does so below it, or to open.
LEMMA LcpStateKeeps ==
  ASSUME NEW w, Sound(w), NEW new \in State, w.l.phase \notin {"Authenticate", "Network"} \/ new = "Opened"
  PROVE  LET v == ChangeState(w, "lcp", new)
         IN  Sound(v) /\ Alike(v, w) /\ v.l.st = [w.l.st EXCEPT !["lcp"] = new]
<1> DEFINE v == ChangeState(w, "lcp", new)
<1>1. "lcp" \in Layer /\ "lcp" \notin NcpLayer /\ NcpLayer \subseteq Layer
  BY DEF NcpLayer, Layer
<1>2. v \in W /\ Alike(v, w) /\ v.l.st = [w.l.st EXCEPT !["lcp"] = new]
  BY <1>1, ChangeStateOk DEF Sound
<1>3. w.l.st \in [Layer -> State]
  BY DEF Sound, W, LType
<1>4. v.l.st["lcp"] = new /\ \A y \in NcpLayer : v.l.st[y] = w.l.st[y]
  BY <1>1, <1>2, <1>3
<1> QED
  BY <1>2, <1>4 DEF Sound, Granted, Stacked, Alike

LEMMA AnswerKeeps ==
  ASSUME NEW w, Sound(w), NEW q \in Packet
  PROVE  Sound(Answer(w, q)) /\ Answer(w, q).l = w.l
<1>1. [q EXCEPT !.code = IF q.ok THEN "Ack" ELSE "Nak"] \in Packet
  BY DEF Packet
<1> QED
  BY <1>1, OutOk DEF Answer, Sound

LEMMA LcpRestartKeeps ==
  ASSUME NEW w, Sound(w)
  PROVE  LET v == LcpRestart(w)
         IN  Sound(v) /\ v.l.phase = "Establish" /\ v.l.st["lcp"] = w.l.st["lcp"]
<1> DEFINE d == [w EXCEPT !.l.phase = "Establish"]
           a == ChangeState(d, "ipcp", "Initial")
           b == ChangeState(a, "ipv6cp", "Initial")
           c == ChangeState(b, "ccp", "Initial")
<1>1. Layer = {"lcp"} \cup NcpLayer /\ {"ipcp", "ipv6cp", "ccp"} \subseteq Layer /\ "Initial" \in State
  BY DEF Layer, NcpLayer, State
<1>2. /\ d \in W /\ d.l.phase = "Establish" /\ d.l.st = w.l.st
      /\ d.l.ip = w.l.ip /\ d.l.authtype = w.l.authtype
  BY DEF Sound, W, LType, Phase
<1> HIDE DEF d
<1>3. a \in W /\ Alike(a, d) /\ a.l.st = [d.l.st EXCEPT !["ipcp"] = "Initial"]
  BY <1>1, <1>2, ChangeStateOk
<1> HIDE DEF a
<1>4. b \in W /\ Alike(b, a) /\ b.l.st = [a.l.st EXCEPT !["ipv6cp"] = "Initial"]
  BY <1>1, <1>3, ChangeStateOk
<1> HIDE DEF b
<1>5. c \in W /\ Alike(c, b) /\ c.l.st = [b.l.st EXCEPT !["ccp"] = "Initial"]
  BY <1>1, <1>4, ChangeStateOk
<1> HIDE DEF c
<1>6. c.l.phase = "Establish" /\ c.l.ip = w.l.ip /\ c.l.authtype = w.l.authtype
  BY <1>2, <1>3, <1>4, <1>5 DEF Alike
<1>7. (\A x \in NcpLayer : c.l.st[x] = "Initial") /\ c.l.st["lcp"] = w.l.st["lcp"]
  <2>1. w.l.st \in [Layer -> State]
    BY DEF Sound, W, LType
  <2>2. c.l.st = [[[w.l.st EXCEPT !["ipcp"] = "Initial"] EXCEPT !["ipv6cp"] = "Initial"] EXCEPT !["ccp"] = "Initial"]
    BY <1>2, <1>3, <1>4, <1>5
  <2> QED
    BY <1>1, <2>1, <2>2 DEF NcpLayer
<1>8. LcpRestart(w) = c
  BY DEF LcpRestart, a, b, c, d
<1> QED
  BY <1>5, <1>6, <1>7, <1>8 DEF Sound, Granted, Stacked

-----------------------------------------------------------------------------
(* LCP and authentication. *)

LEMMA SendChapKeeps ==
  ASSUME NEW w, Sound(w)
  PROVE  Sound(SendChap(w))
<1> DEFINE tries == IF w.l.asked THEN 1 ELSE w.l.chap + 1
           u == [w EXCEPT !.l.chap = tries, !.l.asked = FALSE]
<1>1. CASE tries > MaxChap
  BY <1>1, ShutdownOk DEF SendChap
<1>2. CASE ~(tries > MaxChap)
  <2>1. tries \in 0 .. MaxChap
    BY <1>2, BoundsAreNat DEF Sound, W, LType
  <2> HIDE DEF tries
  <2>2. /\ u \in W /\ u.l.phase = w.l.phase /\ u.l.ip = w.l.ip
        /\ u.l.authtype = w.l.authtype /\ u.l.st = w.l.st
    BY <2>1 DEF Sound, W, LType
  <2>3. Sound(u)
    BY <2>2 DEF Sound, Granted, Stacked
  <2>4. SendChap(w) = Out(u, Pkt("auth", "Challenge"))
    BY <1>2 DEF SendChap, tries
  <2> QED
    BY <2>3, <2>4, PktOk, OutKeeps
<1> QED
  BY <1>1, <1>2

\* LCP opens: to authentication while there is no address.
LEMMA LcpOpenKeeps ==
  ASSUME NEW w, Sound(w), w.l.phase # "Network" \/ w.l.authtype = "none"
  PROVE  Sound(LcpOpen(w))
<1> DEFINE up == ChangeState(w, "lcp", "Opened")
           a  == [up EXCEPT !.l.phase = "Authenticate"]
           k  == [up EXCEPT !.l.phase = "Network"]
           r  == SendReq(k, "ipcp")
           n  == ChangeState(r, "ipcp", "RequestSent")
           o  == ChangeState(n, "ipv6cp", "Stopped")
           z  == ChangeState(o, "ccp", "Stopped")
<1>1. /\ Layer = {"lcp"} \cup NcpLayer /\ {"ipcp", "ipv6cp", "ccp"} \subseteq Layer
      /\ {"Opened", "RequestSent", "Stopped", "Initial"} \subseteq State /\ {"Authenticate", "Network"} \subseteq Phase
  BY DEF Layer, NcpLayer, State, Phase
<1>2. Sound(up) /\ Alike(up, w) /\ up.l.st = [w.l.st EXCEPT !["lcp"] = "Opened"]
  BY <1>1, LcpStateKeeps
<1>3. up.l.st["lcp"] = "Opened" /\ \A x \in NcpLayer : up.l.st[x] = w.l.st[x]
  BY <1>1, <1>2 DEF Sound, W, LType, NcpLayer
<1> HIDE DEF up
<1>4. CASE w.l.authtype # "none"
  <2>1. a \in W /\ a.l.phase = "Authenticate" /\ a.l.st = up.l.st /\ a.l.ip = up.l.ip /\ a.l.authtype = up.l.authtype
    BY <1>1, <1>2 DEF Sound, W, LType
  <2> HIDE DEF a
  <2>2. Sound(a)
    BY <1>2, <1>3, <1>4, <2>1 DEF Sound, Granted, Stacked, Alike
  <2>3. w.l.authtype \in {"PAP", "CHAP"}
    BY <1>4 DEF Sound, W, LType, Auth
  <2>4. LcpOpen(w) \in {SendChap(a), a}
    BY <2>3 DEF LcpOpen, up, a
  <2> QED
    BY <2>2, <2>4, SendChapKeeps
<1>5. CASE w.l.authtype = "none"
  <2>1. k \in W /\ k.l.phase = "Network" /\ k.l.st = up.l.st /\ k.l.ip = up.l.ip /\ k.l.authtype = up.l.authtype
    BY <1>1, <1>2 DEF Sound, W, LType
  <2>2. k.l.ip
    BY <1>2, <1>5, <2>1 DEF Sound, Granted, Alike
  <2> HIDE DEF k
  <2>3. r \in W /\ Alike(r, k) /\ r.l.st = k.l.st
    BY <1>1, <2>1, SendReqOk
  <2> HIDE DEF r
  <2>4. n \in W /\ Alike(n, r) /\ n.l.st = [r.l.st EXCEPT !["ipcp"] = "RequestSent"]
    BY <1>1, <2>3, ChangeStateOk
  <2> HIDE DEF n
  <2>5. o \in W /\ Alike(o, n) /\ o.l.st = [n.l.st EXCEPT !["ipv6cp"] = "Stopped"]
    BY <1>1, <2>4, ChangeStateOk
  <2> HIDE DEF o
  <2>6. z \in W /\ Alike(z, o) /\ z.l.st = [o.l.st EXCEPT !["ccp"] = "Stopped"]
    BY <1>1, <2>5, ChangeStateOk, SMTT(20)
  <2> HIDE DEF z
  <2>7. z.l.phase = "Network" /\ z.l.ip
    BY <2>1, <2>2, <2>3, <2>4, <2>5, <2>6 DEF Alike
  <2>8. (\A x \in NcpLayer : z.l.st[x] # "Initial") /\ z.l.st["lcp"] = "Opened"
    <3>1. up.l.st \in [Layer -> State]
      BY <1>2 DEF Sound, W, LType
    <3>2. z.l.st = [[[up.l.st EXCEPT !["ipcp"] = "RequestSent"] EXCEPT !["ipv6cp"] = "Stopped"] EXCEPT !["ccp"] = "Stopped"]
      BY <2>1, <2>3, <2>4, <2>5, <2>6
    <3> QED
      BY <1>1, <1>3, <3>1, <3>2 DEF NcpLayer
  <2>9. LcpOpen(w) = z
    BY <1>5 DEF LcpOpen, z, o, n, r, k, up
  <2> QED
    BY <2>6, <2>7, <2>8, <2>9 DEF Sound, Granted, Stacked
<1> QED
  BY <1>4, <1>5

LEMMA NotOpened ==
  ASSUME NEW w, Sound(w), w.l.st["lcp"] # "Opened"
  PROVE  w.l.phase \notin {"Authenticate", "Network"}
  BY DEF Sound, Stacked

LEMMA Names ==
  /\ Layer = {"lcp"} \cup NcpLayer /\ "lcp" \notin NcpLayer /\ {"lcp", "ipcp", "ipv6cp", "ccp"} \subseteq Layer
  /\ {"Initial", "Stopped", "RequestSent", "AckReceived", "AckSent", "Opened", "Closing"} \subseteq State
  /\ {"Dead", "Establish", "Authenticate", "Network"} \subseteq Phase /\ AuthTypes \subseteq Auth \ {"none"}
  BY AuthKnown DEF Layer, NcpLayer, State, Phase, Auth

\* The authentication asked for becomes another one.
LEMMA AuthtypeKeeps ==
  ASSUME NEW w, Sound(w), NEW a \in Auth, w.l.ip \/ a # "none"
  PROVE  LET t == [w EXCEPT !.l.authtype = a]
         IN  Sound(t) /\ t.l.phase = w.l.phase /\ t.l.st = w.l.st
  BY DEF Sound, W, LType, Granted, Stacked

LEMMA LcpAckKeeps ==
  ASSUME NEW w, Sound(w), NEW q \in Packet
  PROVE  Sound(LcpAck(w, q))
<1> DEFINE t == IF ~w.l.ip /\ q.auth # "none" THEN [w EXCEPT !.l.authtype = q.auth] ELSE w
<1>1. Sound(t) /\ t.l.phase = w.l.phase /\ t.l.st = w.l.st
  <2>1. q.auth \in Auth
    BY DEF Packet
  <2> QED
    BY <2>1, AuthtypeKeeps
<1> HIDE DEF t
<1>2. CASE w.l.st["lcp"] = "RequestSent"
  <2> DEFINE r == InitialiseRestartCount(t, "lcp")
  <2>0. w.l.phase \notin {"Authenticate", "Network"}
    BY <1>2, NotOpened
  <2>1. Sound(r) /\ r.l.phase = t.l.phase
    BY <1>1, Names, RestartCountKeeps DEF Alike
  <2> HIDE DEF r
  <2>2. Sound(ChangeState(r, "lcp", "AckReceived"))
    BY <1>1, <2>0, <2>1, Names, LcpStateKeeps
  <2> QED
    BY <1>2, <2>2 DEF LcpAck, r, t
<1>3. CASE w.l.st["lcp"] = "AckReceived"
  <2> DEFINE r == SendReq(t, "lcp")
  <2>0. w.l.phase \notin {"Authenticate", "Network"}
    BY <1>3, NotOpened
  <2>1. Sound(r) /\ r.l.phase = t.l.phase
    BY <1>1, Names, SendReqKeeps DEF Alike
  <2> HIDE DEF r
  <2>2. Sound(ChangeState(r, "lcp", "RequestSent"))
    BY <1>1, <2>0, <2>1, Names, LcpStateKeeps
  <2> QED
    BY <1>3, <2>2 DEF LcpAck, r, t
<1>4. CASE w.l.st["lcp"] = "Opened"
  <2> DEFINE d == LcpRestart(t)
             r == SendReq(d, "lcp")
  <2>1. Sound(d) /\ d.l.phase = "Establish"
    BY <1>1, LcpRestartKeeps
  <2> HIDE DEF d
  <2>2. Sound(r) /\ r.l.phase = "Establish"
    BY <2>1, Names, SendReqKeeps DEF Alike
  <2> HIDE DEF r
  <2>3. Sound(ChangeState(r, "lcp", "RequestSent"))
    BY <2>2, Names, LcpStateKeeps
  <2> QED
    BY <1>4, <2>3 DEF LcpAck, r, d, t
<1>5. CASE w.l.st["lcp"] = "AckSent"
  <2>1. t.l.phase # "Network"
    BY <1>1, <1>5, NotOpened
  <2>2. Sound(LcpOpen(t))
    BY <1>1, <2>1, LcpOpenKeeps
  <2> QED
    BY <1>5, <2>2 DEF LcpAck, t
<1>6. CASE w.l.st["lcp"] \notin {"RequestSent", "AckReceived", "Opened", "AckSent"}
  BY <1>1, <1>6 DEF LcpAck, t
<1> QED
  BY <1>2, <1>3, <1>4, <1>5, <1>6

LEMMA AckSentIfOk == ASSUME NEW q PROVE AckSentIf(q) \in State \ {"Initial"}
  BY DEF AckSentIf, State

LEMMA LcpReqKeeps ==
  ASSUME NEW w, Sound(w), NEW q \in Packet
  PROVE  Sound(LcpReq(w, q))
<1>1. CASE w.l.st["lcp"] \in {"RequestSent", "AckSent"}
  <2>1. Sound(ChangeState(w, "lcp", AckSentIf(q)))
    BY <1>1, NotOpened, AckSentIfOk, LcpStateKeeps
  <2>2. LcpReq(w, q) = Answer(ChangeState(w, "lcp", AckSentIf(q)), q)
    BY <1>1 DEF LcpReq
  <2> QED
    BY <2>1, <2>2, AnswerKeeps
<1>2. CASE w.l.st["lcp"] = "AckReceived"
  <2>1. Sound(LcpOpen(w))
    BY <1>2, NotOpened, LcpOpenKeeps
  <2>2. LcpReq(w, q) = Answer(IF q.ok THEN LcpOpen(w) ELSE w, q)
    BY <1>2 DEF LcpReq
  <2> QED
    BY <2>1, <2>2, AnswerKeeps
<1>3. CASE w.l.st["lcp"] = "Opened"
  <2> DEFINE d == LcpRestart(w)
             r == SendReq(d, "lcp")
             c == ChangeState(r, "lcp", AckSentIf(q))
  <2>1. Sound(d) /\ d.l.phase = "Establish"
    BY LcpRestartKeeps
  <2> HIDE DEF d
  <2>2. Sound(r) /\ r.l.phase = "Establish"
    BY <2>1, Names, SendReqKeeps DEF Alike
  <2> HIDE DEF r
  <2>3. Sound(c)
    BY <2>2, AckSentIfOk, LcpStateKeeps
  <2>4. LcpReq(w, q) = Answer(c, q)
    BY <1>3 DEF LcpReq, r, d
  <2> HIDE DEF c
  <2> QED
    BY <2>3, <2>4, AnswerKeeps
<1>4. CASE w.l.st["lcp"] = "Closing"
  BY <1>4, ShutdownOk DEF LcpReq
<1>5. CASE w.l.st["lcp"] \notin {"RequestSent", "AckReceived", "Opened", "AckSent", "Closing"}
  BY <1>5 DEF LcpReq
<1> QED
  BY <1>1, <1>2, <1>3, <1>4, <1>5

\* What the peer proposes is only taken if the configuration has it.
LEMMA LcpNakKeeps ==
  ASSUME NEW w, Sound(w), NEW q \in Packet
  PROVE  Sound(LcpNak(w, q))
<1> DEFINE t == [w EXCEPT !.l.authtype = q.auth]
<1>1. CASE q.auth \notin AuthTypes
  BY <1>1, ShutdownOk DEF LcpNak
<1>2. CASE q.auth \in AuthTypes
  <2>1. Sound(t)
    BY <1>2, Names, AuthtypeKeeps
  <2> HIDE DEF t
  <2>2. Sound(InitialiseRestartCount(t, "lcp")) /\ Sound(LcpRestart(t))
    BY <2>1, Names, RestartCountKeeps, LcpRestartKeeps
  <2>3. Sound(SendReq(InitialiseRestartCount(t, "lcp"), "lcp")) /\ Sound(SendReq(t, "lcp")) /\ Sound(SendReq(LcpRestart(t), "lcp"))
    BY <2>1, <2>2, Names, SendReqKeeps
  <2>4. LcpNak(w, q) \in {SendReq(InitialiseRestartCount(t, "lcp"), "lcp"), SendReq(t, "lcp"), SendReq(LcpRestart(t), "lcp"), t}
    BY <1>2 DEF LcpNak, t
  <2> QED
    BY <2>1, <2>3, <2>4
<1> QED
  BY <1>1, <1>2

LEMMA TerminatedKeeps ==
  ASSUME NEW w, Sound(w), NEW x \in Layer, x = "lcp" => w.l.phase = "Establish" \/ w.l.st["lcp"] # "Opened"
  PROVE  Sound(Terminated(w, x))
<1> DEFINE m == [w EXCEPT !.l.conf[x] = MaxConfigure]
<1>1. CASE w.l.st[x] # "Opened"
  BY <1>1 DEF Terminated
<1>2. CASE w.l.st[x] = "Opened"
  <2>1. m \in W /\ Alike(m, w) /\ m.l.st = w.l.st
    BY BoundsAreNat DEF Sound, W, LType, Alike
  <2>2. Sound(m)
    BY <2>1 DEF Sound, Granted, Stacked, Alike
  <2>3. Terminated(w, x) = ChangeState(m, x, "Closing")
    BY <1>2 DEF Terminated
  <2> HIDE DEF m
  <2>4. CASE x = "lcp"
    <3>1. m.l.phase \notin {"Authenticate", "Network"}
      BY <1>2, <2>1, <2>4 DEF Alike
    <3>2. Sound(ChangeState(m, "lcp", "Closing"))
      BY <2>2, <3>1, Names, LcpStateKeeps
    <3> QED
      BY <2>3, <2>4, <3>2
  <2>5. CASE x # "lcp"
    <3>1. x \in NcpLayer /\ "Closing" \in State \ {"Initial"}
      BY <2>5, Names
    <3>2. m.l.phase = "Network"
      BY <1>2, <2>1, <3>1 DEF Sound, Stacked, Alike
    <3>3. Sound(ChangeState(m, x, "Closing"))
      BY <2>2, <3>1, <3>2, NcpStateKeeps
    <3> QED
      BY <2>3, <3>3
  <2> QED
    BY <2>4, <2>5
<1> QED
  BY <1>1, <1>2

LEMMA ProcessLcpKeeps ==
  ASSUME NEW w, Sound(w), NEW q \in FromPeer, q.layer = "lcp"
  PROVE  Sound(ProcessLcp(w, q))
<1>1. q \in Packet /\ q.code \in {"Req", "Ack", "Nak", "TermReq"}
  BY DEF FromPeer
<1>2. CASE w.l.die
  BY <1>2 DEF ProcessLcp
<1>3. CASE ~w.l.die /\ q.code = "Ack"
  BY <1>1, <1>3, LcpAckKeeps DEF ProcessLcp
<1>4. CASE ~w.l.die /\ q.code = "Req"
  BY <1>1, <1>4, LcpReqKeeps DEF ProcessLcp
<1>5. CASE ~w.l.die /\ q.code = "Nak"
  BY <1>1, <1>5, LcpNakKeeps DEF ProcessLcp
<1>6. CASE ~w.l.die /\ q.code = "TermReq"
  <2> DEFINE d == IF w.l.st["lcp"] = "Opened" THEN LcpRestart(w) ELSE w
  <2>1. Sound(d) /\ (d.l.phase = "Establish" \/ d.l.st["lcp"] # "Opened")
    BY LcpRestartKeeps
  <2>2. ProcessLcp(w, q) = Out(Terminated(d, "lcp"), Pkt("lcp", "TermAck"))
    BY <1>6 DEF ProcessLcp
  <2> HIDE DEF d
  <2>3. Sound(Terminated(d, "lcp"))
    BY <2>1, Names, TerminatedKeeps
  <2>4. Pkt("lcp", "TermAck") \in Packet
    BY Names, PktOk
  <2> QED
    BY <2>2, <2>3, <2>4, OutKeeps
<1> QED
  BY <1>1, <1>2, <1>3, <1>4, <1>5, <1>6

-----------------------------------------------------------------------------
(* The network protocols. *)

\* What they share.
LEMMA NcpSteps ==
  ASSUME NEW w, Sound(w), w.l.phase = "Network", NEW x \in NcpLayer, NEW q \in Packet
  PROVE  LET again == SendReq(InitialiseRestartCount(w, x), x)
         IN  /\ Sound(ChangeState(InitialiseRestartCount(w, x), x, "AckReceived"))
             /\ Sound(ChangeState(SendReq(w, x), x, "RequestSent"))
             /\ Sound(Answer(ChangeState(again, x, AckSentIf(q)), q))
             /\ Sound(Answer(ChangeState(w, x, AckSentIf(q)), q))
             /\ Sound(Out(Terminated(w, x), Pkt(x, "TermAck")))
             /\ Sound(ChangeState(w, x, "Opened"))
             /\ Sound(ChangeState(Out(w, Pkt(x, "TermAck")), x, "Stopped"))
<1> DEFINE i == InitialiseRestartCount(w, x)
           again == SendReq(i, x)
           s == SendReq(w, x)
           o == Out(w, Pkt(x, "TermAck"))
<1>1. x \in Layer /\ x # "lcp" /\ {"AckReceived", "RequestSent", "Opened", "Stopped"} \subseteq State \ {"Initial"}
  BY Names
<1>2. Pkt(x, "TermAck") \in Packet
  BY <1>1, PktOk
<1>3. Sound(i) /\ i.l.phase = "Network"
  BY <1>1, RestartCountKeeps DEF Alike
<1>4. Sound(s) /\ s.l.phase = "Network"
  BY <1>1, SendReqKeeps DEF Alike
<1>5. Sound(o) /\ o.l.phase = "Network"
  BY <1>2, OutOk DEF Sound
<1>6. Sound(Out(Terminated(w, x), Pkt(x, "TermAck")))
  BY <1>1, <1>2, TerminatedKeeps, OutKeeps
<1> HIDE DEF i, s, o
<1>7. Sound(again) /\ again.l.phase = "Network"
  BY <1>1, <1>3, SendReqKeeps DEF Alike
<1> HIDE DEF again
<1>8. /\ Sound(ChangeState(i, x, "AckReceived")) /\ Sound(ChangeState(s, x, "RequestSent"))
      /\ Sound(ChangeState(w, x, "Opened")) /\ Sound(ChangeState(o, x, "Stopped"))
  BY <1>1, <1>3, <1>4, <1>5, NcpStateKeeps
<1>9. Sound(ChangeState(again, x, AckSentIf(q))) /\ Sound(ChangeState(w, x, AckSentIf(q)))
  BY <1>7, AckSentIfOk, NcpStateKeeps
<1>10. Sound(Answer(ChangeState(again, x, AckSentIf(q)), q)) /\ Sound(Answer(ChangeState(w, x, AckSentIf(q)), q))
  BY <1>9, AnswerKeeps
<1> QED
  BY <1>6, <1>8, <1>10 DEF i, again, s, o

LEMMA IpcpOpenKeeps ==
  ASSUME NEW w, Sound(w), w.l.phase = "Network"
  PROVE  Sound(IpcpOpen(w))
<1> DEFINE o == ChangeState(w, "ipcp", "Opened")
           r == SendReq(o, "ipv6cp")
<1>1. {"ipcp", "ipv6cp"} \subseteq NcpLayer /\ {"Opened", "RequestSent"} \subseteq State \ {"Initial"}
  BY Names DEF NcpLayer
<1>2. Sound(o) /\ o.l.phase = "Network"
  BY <1>1, NcpStateKeeps DEF Alike
<1> HIDE DEF o
<1>3. Sound(r) /\ r.l.phase = "Network"
  BY <1>2, Names, SendReqKeeps DEF Alike
<1> HIDE DEF r
<1>4. Sound(ChangeState(r, "ipv6cp", "RequestSent"))
  BY <1>1, <1>3, NcpStateKeeps
<1> QED
  BY <1>2, <1>4 DEF IpcpOpen, o, r

LEMMA ProcessIpcpKeeps ==
  ASSUME NEW w, Sound(w), NEW q \in Packet
  PROVE  Sound(ProcessIpcp(w, q))
<1>1. CASE w.l.phase # "Network"
  BY <1>1 DEF ProcessIpcp
<1>2. CASE w.l.phase = "Network"
  <2>1. "ipcp" \in NcpLayer
    BY DEF NcpLayer
  <2>2. Sound(IpcpOpen(w)) /\ Sound(Answer(IF q.ok THEN IpcpOpen(w) ELSE w, q))
    BY <1>2, IpcpOpenKeeps, AnswerKeeps
  <2>3. Sound(Ncp(w, q, "ipcp", IpcpOpen))
    BY <1>2, <2>1, <2>2, NcpSteps DEF Ncp
  <2> QED
    BY <1>2, <2>3 DEF ProcessIpcp
<1> QED
  BY <1>1, <1>2

LEMMA ProcessIpv6cpKeeps ==
  ASSUME NEW w, Sound(w), NEW q \in Packet
  PROVE  Sound(ProcessIpv6cp(w, q))
<1> DEFINE Open(t) == ChangeState(t, "ipv6cp", "Opened")
<1>1. CASE w.l.phase # "Network" \/ ~w.l.ip
  BY <1>1 DEF ProcessIpv6cp
<1>2. CASE w.l.phase = "Network" /\ w.l.ip
  <2>1. "ipv6cp" \in NcpLayer
    BY DEF NcpLayer
  <2>2. Sound(Open(w)) /\ Sound(Answer(IF q.ok THEN Open(w) ELSE w, q))
    BY <1>2, <2>1, NcpSteps, AnswerKeeps
  <2>3. Sound(Ncp(w, q, "ipv6cp", LAMBDA t : ChangeState(t, "ipv6cp", "Opened")))
    BY <1>2, <2>1, <2>2, NcpSteps DEF Ncp
  <2> QED
    BY <1>2, <2>3 DEF ProcessIpv6cp
<1> QED
  BY <1>1, <1>2

LEMMA ProcessCcpKeeps ==
  ASSUME NEW w, Sound(w), NEW q \in Packet
  PROVE  Sound(ProcessCcp(w, q))
<1> DEFINE Open(t) == ChangeState(t, "ccp", "Opened")
<1>1. CASE w.l.phase # "Network"
  BY <1>1 DEF ProcessCcp
<1>2. CASE w.l.phase = "Network"
  <2>1. "ccp" \in NcpLayer
    BY DEF NcpLayer
  <2>2. Sound(Open(w)) /\ Sound(Answer(IF q.ok THEN Open(w) ELSE w, q))
    BY <1>2, <2>1, NcpSteps, AnswerKeeps
  <2>3. Sound(Ncp(w, q, "ccp", LAMBDA t : ChangeState(t, "ccp", "Opened")))
    BY <1>2, <2>1, <2>2, NcpSteps DEF Ncp
  <2>4. Sound(ChangeState(Out(w, Pkt("ccp", "TermAck")), "ccp", "Stopped"))
    BY <1>2, <2>1, NcpSteps
  <2> QED
    BY <1>2, <2>3, <2>4 DEF ProcessCcp
<1> QED
  BY <1>1, <1>2

-----------------------------------------------------------------------------
(* Everything this end does. *)

LEMMA AskedKeeps ==
  ASSUME NEW w, Sound(w)
  PROVE  Sound([w EXCEPT !.l.asked = TRUE])
  BY DEF Sound, W, LType, Granted, Stacked

LEMMA ProcessAuthKeeps ==
  ASSUME NEW w, Sound(w), NEW q \in Packet
  PROVE  Sound(ProcessPap(w, q)) /\ Sound(ProcessChap(w, q))
<1>1. ProcessPap(w, q) \in {w, [w EXCEPT !.l.asked = TRUE]}
  BY DEF ProcessPap
<1>2. ProcessChap(w, q) \in {w, [w EXCEPT !.l.asked = TRUE], Shutdown(w)}
  BY DEF ProcessChap
<1> QED
  BY <1>1, <1>2, AskedKeeps, ShutdownOk

\* An Access-Accept gives the address.
LEMMA AcceptedKeeps ==
  ASSUME NEW w, Sound(w)
  PROVE  Sound(Accepted(w))
<1> DEFINE k == Pkt("auth", IF w.l.chap > 0 THEN "Success" ELSE "Ack")
           told == Out(w, k)
           u == [told EXCEPT !.l.ip = TRUE, !.l.asked = FALSE, !.l.authtype = "none"]
<1>1. k \in Packet
  BY PktOk
<1> HIDE DEF k
<1>2. Sound(told) /\ told \in W
  BY <1>1, OutKeeps DEF Sound
<1> HIDE DEF told
<1>3. u \in W /\ u.l.phase = told.l.phase /\ u.l.st = told.l.st /\ u.l.ip /\ u.l.authtype = "none"
  BY <1>2 DEF W, LType, Auth
<1> HIDE DEF u
<1>4. Sound(u)
  BY <1>2, <1>3 DEF Sound, Granted, Stacked
<1>5. Sound(LcpOpen(u))
  BY <1>3, <1>4, LcpOpenKeeps
<1> QED
  BY <1>5 DEF Accepted, u, told, k

LEMMA ProcessKeeps ==
  ASSUME NEW w, Sound(w), NEW q \in FromPeer
  PROVE  Sound(Process(w, q))
<1>1. q \in Packet /\ q.layer \in {"lcp", "ipcp", "ipv6cp", "ccp", "auth"} /\ (q.layer = "auth" => q.code \in {"Pap", "Response"})
  BY DEF FromPeer, Packet, Layer
<1>2. CASE q.layer = "lcp"
  BY <1>2, ProcessLcpKeeps DEF Process
<1>3. CASE q.layer = "ipcp"
  BY <1>1, <1>3, ProcessIpcpKeeps DEF Process
<1>4. CASE q.layer = "ipv6cp"
  BY <1>1, <1>4, ProcessIpv6cpKeeps DEF Process
<1>5. CASE q.layer = "ccp"
  BY <1>1, <1>5, ProcessCcpKeeps DEF Process
<1>6. CASE q.layer = "auth"
  <2>1. Process(w, q) \in {ProcessPap(w, q), ProcessChap(w, q)}
    BY <1>1, <1>6 DEF Process
  <2> QED
    BY <1>1, <2>1, ProcessAuthKeeps
<1> QED
  BY <1>1, <1>2, <1>3, <1>4, <1>5, <1>6

LEMMA RetryKeeps ==
  ASSUME NEW w, Sound(w), NEW x \in Layer, w.l.st[x] \in Running
  PROVE  Sound(Retry(w, x))
<1> DEFINE new == IF w.l.st[x] = "AckSent" THEN "AckSent" ELSE "RequestSent"
           r == SendReq(w, x)
<1>1. w.l.st[x] \notin {"Initial", "Opened"} /\ {new, "Stopped"} \subseteq State \ {"Initial"}
  BY Names DEF Running
<1>2. Sound(r) /\ r.l.phase = w.l.phase
  BY SendReqKeeps DEF Alike
<1> HIDE DEF r
<1>3. CASE x = "lcp"
  <2>1. w.l.phase \notin {"Authenticate", "Network"}
    BY <1>1, <1>3, NotOpened
  <2>2. Sound(ChangeState(r, "lcp", new))
    BY <1>1, <1>2, <2>1, LcpStateKeeps
  <2>3. Retry(w, x) \in {ChangeState(r, "lcp", new), Shutdown(w)}
    BY <1>3, BoundsAreNat DEF Retry, r, Sound, W, LType
  <2> QED
    BY <2>2, <2>3, ShutdownOk
<1>4. CASE x # "lcp"
  <2>1. x \in NcpLayer
    BY <1>4, Names
  <2>2. w.l.phase = "Network"
    BY <1>1, <2>1 DEF Sound, Stacked
  <2> HIDE DEF new
  <2>3. Sound(ChangeState(r, x, new)) /\ Sound(ChangeState(w, x, "Stopped"))
    BY <1>1, <1>2, <2>1, <2>2, NcpStateKeeps
  <2>4. Retry(w, x) \in {ChangeState(r, x, new), Shutdown(w), ChangeState(w, x, "Stopped")}
    BY <1>4, BoundsAreNat DEF Retry, r, new, Sound, W, LType
  <2> QED
    BY <2>3, <2>4, ShutdownOk
<1> QED
  BY <1>3, <1>4

-----------------------------------------------------------------------------
(* The peer: what it does is of its kind. *)

\* It is of its kind, and has closed no layer that u has not.
Follows(v, u) == v \in V /\ v.p.closed = u.p.closed

LEMMA PeerOutOk ==
  ASSUME NEW v \in V, NEW q \in FromPeer
  PROVE  Out(v, q) \in V /\ Out(v, q).p = v.p /\ Follows(Out(v, q), v)
<1>1. Append(v.out, q) \in Seq(FromPeer)
  BY AppendProperties DEF V
<1> QED
  BY <1>1 DEF Out, V, Follows

LEMMA PeerSendOk ==
  ASSUME NEW v \in V, NEW x \in Layer
  PROVE  PeerSend(v, x) \in V /\ PeerSend(v, x).p = v.p /\ Follows(PeerSend(v, x), v)
<1> DEFINE b == x \in v.p.good
           q == [Pkt(x, "Req") EXCEPT !.ok = b]
<1>0. b \in BOOLEAN /\ x # "auth"
  BY DEF Layer
<1> HIDE DEF b
<1>1. q \in FromPeer
  BY <1>0 DEF Pkt, Packet, FromPeer, Auth
<1> HIDE DEF q
<1>2. Out(v, q) \in V /\ Out(v, q).p = v.p /\ Follows(Out(v, q), v)
  BY <1>1, PeerOutOk
<1> QED
  BY <1>2 DEF PeerSend, q, b

LEMMA PeerStateOk ==
  ASSUME NEW v \in V, NEW x \in Layer, NEW new \in State \cup {"Closed"}
  PROVE  PeerState(v, x, new) \in V /\ PeerState(v, x, new).p.auth = v.p.auth /\ Follows(PeerState(v, x, new), v)
  BY DEF PeerState, V, PType, Follows

LEMMA PeerUpOk ==
  ASSUME NEW v \in V
  PROVE  Follows(PeerUp(v), v)
<1> DEFINE s == [x \in Layer |-> IF x \in Ncps THEN "RequestSent" ELSE v.p.st[x]]
           up == [v EXCEPT !.p.up = TRUE, !.p.st = s]
           i == IF "ipcp" \in Ncps THEN PeerSend(up, "ipcp") ELSE up
           j == IF "ipv6cp" \in Ncps THEN PeerSend(i, "ipv6cp") ELSE i
<1>1. s \in [Layer -> State \cup {"Closed"}]
  BY Names DEF V, PType
<1>2. PeerUp(v) = IF "ccp" \in Ncps THEN PeerSend(j, "ccp") ELSE j
  BY DEF PeerUp
<1> HIDE DEF s
<1>3. Follows(up, v)
  BY <1>1 DEF V, PType, Follows
<1> HIDE DEF up
<1>4. Follows(i, v)
  BY <1>3, Names, PeerSendOk DEF Follows
<1> HIDE DEF i
<1>5. Follows(j, v)
  BY <1>4, Names, PeerSendOk DEF Follows
<1> HIDE DEF j
<1> QED
  BY <1>2, <1>5, Names, PeerSendOk DEF Follows

LEMMA PeerOpenOk ==
  ASSUME NEW v \in V, NEW x \in Layer
  PROVE  Follows(PeerOpen(v, x), v)
<1> DEFINE o == PeerState(v, x, "Opened")
<1>1. Follows(o, v)
  BY Names, PeerStateOk
<1>2. Pkt("auth", "Pap") \in FromPeer
  BY PktOk DEF FromPeer
<1>3. PeerOpen(v, x) \in {o, PeerUp(o), Out(o, Pkt("auth", "Pap"))}
  BY DEF PeerOpen, V, PType, Auth
<1> HIDE DEF o
<1> QED
  BY <1>1, <1>2, <1>3, PeerUpOk, PeerOutOk DEF Follows

LEMMA PeerRestartOk ==
  ASSUME NEW v \in V, NEW x \in Layer, NEW new \in State \cup {"Closed"}
  PROVE  Follows(PeerRestart(v, x, new), v)
<1> DEFINE d == IF x # "lcp" THEN v ELSE [v EXCEPT !.p.up = FALSE, !.p.st = [y \in Layer |-> "Closed"]]
<1>1. Follows(d, v)
  BY DEF V, PType, Follows
<1>2. PeerRestart(v, x, new) = PeerState(PeerSend(d, x), x, new)
  BY DEF PeerRestart
<1> HIDE DEF d
<1> QED
  BY <1>1, <1>2, PeerSendOk, PeerStateOk DEF Follows

LEMMA PeerReqOk ==
  ASSUME NEW v \in V, NEW q \in Packet, q.layer \in Layer
  PROVE  Follows(PeerReq(v, q), v)
<1> DEFINE x  == q.layer
           ok == q.auth \in v.p.can \cup {"none"}
           agreed(t) == IF x = "lcp" /\ ok THEN [t EXCEPT !.p.auth = q.auth] ELSE t
           b  == IF v.p.can = {} THEN "none" ELSE CHOOSE a \in v.p.can : TRUE
           k  == [q EXCEPT !.code = IF ok THEN "Ack" ELSE "Nak", !.auth = IF ok THEN q.auth ELSE b]
           to == IF ok THEN "AckSent" ELSE "RequestSent"
<1>1. b \in Auth /\ q.auth \in Auth
  BY DEF V, PType, Auth, Packet
<1> HIDE DEF b
<1>2. k \in FromPeer
  BY <1>1 DEF FromPeer, Packet, Layer
<1>3. \A t \in V : Follows(agreed(t), t)
  BY <1>1 DEF V, PType, Follows
<1>4. to \in State \cup {"Closed"} /\ x \in Layer
  BY Names
<1>5. PeerReq(v, q) \in {PeerState(Out(agreed(v), k), x, to), PeerOpen(Out(agreed(v), k), x), Out(v, k),
                         Out(agreed(PeerRestart(v, x, to)), k), v}
  BY DEF PeerReq, b
<1> HIDE DEF x, ok, agreed, k, to
<1>6. Follows(Out(agreed(v), k), v) /\ Follows(Out(v, k), v)
  BY <1>2, <1>3, PeerOutOk DEF Follows
<1>7. Follows(PeerState(Out(agreed(v), k), x, to), v) /\ Follows(PeerOpen(Out(agreed(v), k), x), v)
  BY <1>4, <1>6, PeerStateOk, PeerOpenOk DEF Follows
<1>8. Follows(PeerRestart(v, x, to), v)
  BY <1>4, PeerRestartOk
<1>9. Follows(agreed(PeerRestart(v, x, to)), v)
  BY <1>3, <1>8 DEF Follows
<1>10. Follows(Out(agreed(PeerRestart(v, x, to)), k), v)
  BY <1>2, <1>9, PeerOutOk DEF Follows
<1> QED
  BY <1>5, <1>6, <1>7, <1>10 DEF Follows

LEMMA PeerAckOk ==
  ASSUME NEW v \in V, NEW x \in Layer
  PROVE  Follows(PeerAck(v, x), v)
<1>1. Follows(PeerSend(v, x), v) /\ {"AckReceived", "RequestSent"} \subseteq State
  BY Names, PeerSendOk
<1>2. /\ Follows(PeerState(v, x, "AckReceived"), v) /\ Follows(PeerState(PeerSend(v, x), x, "RequestSent"), v)
      /\ Follows(PeerOpen(v, x), v) /\ Follows(PeerRestart(v, x, "RequestSent"), v)
  BY <1>1, PeerStateOk, PeerOpenOk, PeerRestartOk DEF Follows
<1> QED
  BY <1>2 DEF PeerAck, Follows

LEMMA PeerNakOk ==
  ASSUME NEW v \in V, NEW x \in Layer
  PROVE  Follows(PeerNak(v, x), v)
<1> DEFINE t == [v EXCEPT !.p.good = @ \cup {x}]
<1>1. Follows(t, v)
  BY DEF V, PType, Follows
<1>2. PeerNak(v, x) \in {PeerSend(t, x), PeerState(PeerSend(t, x), x, "RequestSent"), PeerRestart(t, x, "RequestSent"), t}
  BY DEF PeerNak
<1> HIDE DEF t
<1>3. Follows(PeerSend(t, x), v) /\ "RequestSent" \in State
  BY <1>1, Names, PeerSendOk DEF Follows
<1>4. Follows(PeerState(PeerSend(t, x), x, "RequestSent"), v) /\ Follows(PeerRestart(t, x, "RequestSent"), v)
  BY <1>1, <1>3, PeerStateOk, PeerRestartOk DEF Follows
<1> QED
  BY <1>1, <1>2, <1>3, <1>4

LEMMA PeerProcessOk ==
  ASSUME NEW v \in V, NEW q \in Packet
  PROVE  Follows(PeerProcess(v, q), v)
<1> DEFINE k == [q EXCEPT !.code = "Response"]
<1>1. CASE q.layer = "auth"
  <2>1. k \in FromPeer
    BY <1>1 DEF FromPeer, Packet
  <2>2. PeerProcess(v, q) \in {Out(v, k), PeerUp(v), v}
    <3>1. PeerProcess(v, q) = PeerAuthentic(v, q)
      BY <1>1, LayersKnown DEF PeerProcess, Layer
    <3> QED
      BY <3>1 DEF PeerAuthentic
  <2> HIDE DEF k
  <2> QED
    BY <2>1, <2>2, PeerOutOk, PeerUpOk DEF Follows
<1>2. CASE q.layer \in Layer
  <2>1. PeerProcess(v, q) \in {v, PeerReq(v, q), PeerAck(v, q.layer), PeerNak(v, q.layer)}
    BY <1>2, LayersKnown DEF PeerProcess, Layer
  <2>2. Follows(v, v)
    BY DEF Follows
  <2> QED
    BY <1>2, <2>1, <2>2, PeerReqOk, PeerAckOk, PeerNakOk
<1> QED
  BY <1>1, <1>2 DEF Packet

-----------------------------------------------------------------------------
(* The steps. *)

IInv ==
  /\ Sound(Here) /\ p \in PType
  /\ toL \in Seq(FromPeer) /\ toP \in Seq(Packet)
  /\ lost \in 0 .. MaxLoss /\ early \in 0 .. MaxEarly

\* Packets that no longer belong to the last request are packets.
LEMMA OutdateOk ==
  ASSUME NEW S \in {Packet, FromPeer}, NEW ch \in Seq(S), NEW r,
         r = [i \in DOMAIN ch |-> r[i]],
         \A i \in DOMAIN ch : r[i] \in {ch[i], [ch[i] EXCEPT !.last = FALSE]}
  PROVE  r \in Seq(S)
<1>1. \A k \in S : [k EXCEPT !.last = FALSE] \in S
  <2>1. \A k \in Packet : [k EXCEPT !.last = FALSE] \in Packet
    BY DEF Packet
  <2>2. ASSUME NEW k \in FromPeer
        PROVE  [k EXCEPT !.last = FALSE] \in FromPeer
    <3> DEFINE spent == [k EXCEPT !.last = FALSE]
    <3>1. k \in Packet
      BY DEF FromPeer
    <3>2. spent \in Packet /\ spent.layer = k.layer /\ spent.code = k.code
      BY <2>1, <3>1 DEF Packet
    <3> HIDE DEF spent
    <3>3. spent \in FromPeer
      BY <3>2 DEF FromPeer
    <3> QED
      BY <3>3 DEF spent
  <2> QED
    BY <2>1, <2>2
<1>2. DOMAIN ch = 1 .. Len(ch) /\ Len(ch) \in Nat /\ \A i \in DOMAIN ch : ch[i] \in S
  BY LenProperties, ElementOfSeq
<1>3. \A i \in 1 .. Len(ch) : r[i] \in S
  BY <1>1, <1>2
<1>4. r = [i \in 1 .. Len(ch) |-> r[i]]
  BY <1>2
<1> QED
  BY <1>2, <1>3, <1>4, IsASeq

LEMMA StepOk ==
  ASSUME NEW w, Sound(w), NEW in, in \in Seq(FromPeer), toP \in Seq(Packet), Step(w, in)
  PROVE  Sound(Here)' /\ toL' \in Seq(FromPeer) /\ toP' \in Seq(Packet)
<1> DEFINE old(q) == Sends(w.out, "auth", "Challenge") /\ q.code \in {"Challenge", "Response"}
           a == [i \in DOMAIN in |-> IF old(in[i]) THEN [in[i] EXCEPT !.last = FALSE] ELSE in[i]]
           b == [i \in DOMAIN toP |-> IF old(toP[i]) THEN [toP[i] EXCEPT !.last = FALSE] ELSE toP[i]]
<1>1. l' = w.l /\ toL' = a /\ toP' = b \o w.out
  BY DEF Step, Outdate
<1>2. a = [i \in DOMAIN in |-> a[i]] /\ \A i \in DOMAIN in : a[i] \in {in[i], [in[i] EXCEPT !.last = FALSE]}
  OBVIOUS
<1>3. b = [i \in DOMAIN toP |-> b[i]] /\ \A i \in DOMAIN toP : b[i] \in {toP[i], [toP[i] EXCEPT !.last = FALSE]}
  OBVIOUS
<1> HIDE DEF a, b
<1>4. a \in Seq(FromPeer)
  BY <1>2, OutdateOk
<1>5. b \in Seq(Packet)
  BY <1>3, OutdateOk
<1>6. w.out \in Seq(Packet)
  BY DEF Sound, W
<1>7. b \o w.out \in Seq(Packet)
  BY <1>5, <1>6, ConcatProperties
<1>8. [l |-> w.l, out |-> <<>>] \in W
  BY EmptySeq DEF Sound, W
<1> QED
  BY <1>1, <1>4, <1>7, <1>8 DEF Sound, Here

LEMMA PeerStepOk ==
  ASSUME NEW v, v \in V, NEW in, in \in Seq(Packet), toL \in Seq(FromPeer), PeerStep(v, in)
  PROVE  p' \in PType /\ toL' \in Seq(FromPeer) /\ toP' \in Seq(Packet)
<1> DEFINE old(q) == q.layer \in Layer /\ Sends(v.out, q.layer, "Req")
           oldReq(q) == old(q) /\ q.code = "Req"
           oldAnswer(q) == old(q) /\ q.code \in {"Ack", "Nak"}
           a == [i \in DOMAIN in |-> IF oldAnswer(in[i]) THEN [in[i] EXCEPT !.last = FALSE] ELSE in[i]]
           b == [i \in DOMAIN toL |-> IF oldReq(toL[i]) THEN [toL[i] EXCEPT !.last = FALSE] ELSE toL[i]]
<1>1. p' = v.p /\ toP' = a /\ toL' = b \o v.out
  BY DEF PeerStep, Outdate
<1>2. a = [i \in DOMAIN in |-> a[i]] /\ \A i \in DOMAIN in : a[i] \in {in[i], [in[i] EXCEPT !.last = FALSE]}
  OBVIOUS
<1>3. b = [i \in DOMAIN toL |-> b[i]] /\ \A i \in DOMAIN toL : b[i] \in {toL[i], [toL[i] EXCEPT !.last = FALSE]}
  OBVIOUS
<1> HIDE DEF a, b
<1>4. a \in Seq(Packet)
  BY <1>2, OutdateOk
<1>5. b \in Seq(FromPeer)
  BY <1>3, OutdateOk
<1>6. b \o v.out \in Seq(FromPeer)
  BY <1>5, ConcatProperties DEF V
<1> QED
  BY <1>1, <1>4, <1>6 DEF V

LEMMA ClockOk ==
  ASSUME early \in 0 .. MaxEarly, Clock
  PROVE  early' \in 0 .. MaxEarly
  BY BoundsAreNat DEF Clock

LEMMA ThereOk == ASSUME p \in PType PROVE There \in V /\ There.p = p
  BY EmptySeq DEF There, V

LEMMA InitOk == Init => IInv
<1> SUFFICES ASSUME Init PROVE IInv
  OBVIOUS
<1> DEFINE s == [phase |-> "Establish", st |-> [x \in Layer |-> IF x = "lcp" THEN "RequestSent" ELSE "Initial"],
                 conf |-> [x \in Layer |-> 0], authtype |-> Prefers, ip |-> FALSE, chap |-> 0,
                 asked |-> FALSE, die |-> FALSE]
           b == [l |-> s, out |-> <<>>]
           w == SendReq(b, "lcp")
<1>1. l = w.l /\ toP = w.out /\ lost = 0 /\ early = 0
  BY DEF Init
<1>2. Sound(b)
  <2>1. s \in LType
    BY Names, AuthKnown, BoundsAreNat DEF LType
  <2>2. Granted(s)
    BY Names, AuthKnown DEF Granted
  <2>3. Stacked(s)
    BY Names DEF Stacked
  <2> HIDE DEF s
  <2> QED
    BY <2>1, <2>2, <2>3, EmptySeq DEF Sound, W
<1> HIDE DEF b
<1>3. Sound(w)
  BY <1>2, Names, SendReqKeeps
<1> HIDE DEF w
<1>4. Sound(Here) /\ toP \in Seq(Packet)
  BY <1>1, <1>3, EmptySeq DEF Here, Sound, W
<1>5. p \in PType /\ toL \in Seq(FromPeer)
  <2>1. PICK can \in SUBSET {"PAP", "CHAP"} :
          LET k == [up |-> FALSE, st |-> [x \in Layer |-> IF x = "lcp" THEN "RequestSent" ELSE "Closed"],
                    auth |-> "none", can |-> can, good |-> Layer \ Picky, closed |-> FALSE]
              v == PeerSend([p |-> k, out |-> <<>>], "lcp")
          IN  p = v.p /\ toL = v.out
    BY DEF Init
  <2> DEFINE k == [up |-> FALSE, st |-> [x \in Layer |-> IF x = "lcp" THEN "RequestSent" ELSE "Closed"],
                   auth |-> "none", can |-> can, good |-> Layer \ Picky, closed |-> FALSE]
             c == [p |-> k, out |-> <<>>]
  <2>2. k \in PType
    BY Names, AuthKnown DEF PType, Auth
  <2> HIDE DEF k
  <2>3. c \in V
    BY <2>2, EmptySeq DEF V
  <2>4. PeerSend(c, "lcp") \in V
    BY <2>3, Names, PeerSendOk
  <2>5. p = PeerSend(c, "lcp").p /\ toL = PeerSend(c, "lcp").out
    BY <2>1 DEF k
  <2> QED
    BY <2>4, <2>5 DEF V
<1> QED
  BY <1>1, <1>4, <1>5, BoundsAreNat DEF IInv

\* Every action keeps the invariant.
LEMMA NextOk == IInv /\ [Next]_vars => IInv'
<1> SUFFICES ASSUME IInv, [Next]_vars PROVE IInv'
  OBVIOUS
<1>1. /\ Sound(Here) /\ p \in PType /\ There \in V /\ There.p = p
      /\ toL \in Seq(FromPeer) /\ toP \in Seq(Packet)
      /\ lost \in 0 .. MaxLoss /\ early \in 0 .. MaxEarly
  BY ThereOk DEF IInv
<1>2. ASSUME NEW w, Sound(w), NEW in \in Seq(FromPeer), Step(w, in), UNCHANGED <<p, lost>>, early' \in 0 .. MaxEarly
      PROVE  IInv'
  BY <1>1, <1>2, StepOk DEF IInv
<1>3. ASSUME NEW v \in V, NEW in \in Seq(Packet), PeerStep(v, in), UNCHANGED <<l, lost>>, early' \in 0 .. MaxEarly
      PROVE  IInv'
  <2>1. Sound(Here)'
    BY <1>1, <1>3 DEF Here
  <2> QED
    BY <1>1, <1>3, <2>1, PeerStepOk DEF IInv
<1>4. CASE Receive
  <2>1. Head(toL) \in FromPeer /\ Tail(toL) \in Seq(FromPeer)
    BY <1>1, <1>4, HeadTailProperties DEF Receive
  <2>2. Sound(Process(Here, Head(toL)))
    BY <1>1, <2>1, ProcessKeeps
  <2> QED
    BY <1>1, <1>2, <1>4, <2>1, <2>2 DEF Receive
<1>5. CASE PeerReceive
  <2>1. Head(toP) \in Packet /\ Tail(toP) \in Seq(Packet)
    BY <1>1, <1>5, HeadTailProperties DEF PeerReceive
  <2>2. PeerProcess(There, Head(toP)) \in V
    BY <1>1, <2>1, PeerProcessOk DEF Follows
  <2> QED
    BY <1>1, <1>3, <1>5, <2>1, <2>2 DEF PeerReceive
<1>6. CASE Lose
  <2>1. toL' \in Seq(FromPeer) /\ toP' \in Seq(Packet)
    BY <1>1, <1>6, HeadTailProperties DEF Lose
  <2>2. lost' \in 0 .. MaxLoss
    BY <1>1, <1>6, BoundsAreNat DEF Lose
  <2>3. Sound(Here)' /\ UNCHANGED <<p, early>>
    BY <1>1, <1>6 DEF Lose, Here
  <2> QED
    BY <1>1, <2>1, <2>2, <2>3 DEF IInv
<1>7. ASSUME NEW x \in Layer, Timeout(x)
      PROVE  IInv'
  <2>1. Sound(Retry(Here, x)) /\ early' \in 0 .. MaxEarly
    BY <1>1, <1>7, RetryKeeps, ClockOk DEF Timeout, Here
  <2> QED
    BY <1>1, <1>2, <1>7, <2>1 DEF Timeout
<1>8. ASSUME NEW x \in Layer, PeerTimeout(x)
      PROVE  IInv'
  <2> DEFINE v == PeerState(PeerSend(There, x), x, IF p.st[x] = "AckSent" THEN "AckSent" ELSE "RequestSent")
  <2>1. v \in V /\ early' \in 0 .. MaxEarly
    BY <1>1, <1>8, Names, PeerSendOk, PeerStateOk, ClockOk DEF PeerTimeout
  <2>2. PeerStep(v, toP) /\ UNCHANGED <<l, lost>>
    BY <1>8 DEF PeerTimeout
  <2> HIDE DEF v
  <2> QED
    BY <1>1, <1>3, <2>1, <2>2
<1>9. ASSUME NEW x \in Layer, PeerClose(x)
      PROVE  IInv'
  <2> DEFINE d == [There EXCEPT !.p.closed = TRUE, !.p.st = [y \in Layer |-> IF y = x \/ x = "lcp" THEN "Closed" ELSE @[y]],
                                !.p.up = @ /\ x # "lcp"]
             v == Out(d, Pkt(x, "TermReq"))
  <2>1. d \in V
    BY <1>1 DEF V, PType
  <2>2. Pkt(x, "TermReq") \in FromPeer
    BY PktOk DEF FromPeer, Layer
  <2>3. PeerStep(v, toP) /\ UNCHANGED <<l, lost, early>>
    BY <1>9 DEF PeerClose
  <2> HIDE DEF d
  <2>4. v \in V
    BY <2>1, <2>2, PeerOutOk
  <2> HIDE DEF v
  <2> QED
    BY <1>1, <1>3, <2>3, <2>4
<1>10. CASE ChapTimeout
  <2>1. Sound(SendChap(Here)) /\ early' \in 0 .. MaxEarly
    BY <1>1, <1>10, SendChapKeeps, ClockOk DEF ChapTimeout
  <2> QED
    BY <1>1, <1>2, <1>10, <2>1 DEF ChapTimeout
<1>11. CASE RadiusAnswers
  <2>1. Sound(Accepted(Here)) /\ Sound(Shutdown(Here))
    BY <1>1, AcceptedKeeps, ShutdownOk
  <2> QED
    BY <1>1, <1>2, <1>11, <2>1 DEF RadiusAnswers
<1>12. CASE PapTimeout
  <2>1. Pkt("auth", "Pap") \in FromPeer /\ early' \in 0 .. MaxEarly
    BY <1>1, <1>12, PktOk, ClockOk DEF PapTimeout, FromPeer
  <2>2. Out(There, Pkt("auth", "Pap")) \in V
    BY <1>1, <2>1, PeerOutOk
  <2> QED
    BY <1>1, <1>3, <1>12, <2>1, <2>2 DEF PapTimeout
<1>13. CASE PeerReopen
  <2>1. PeerState(PeerSend(There, "lcp"), "lcp", "RequestSent") \in V
    BY <1>1, Names, PeerSendOk, PeerStateOk
  <2> QED
    BY <1>1, <1>3, <1>13, <2>1 DEF PeerReopen
<1>14. CASE UNCHANGED vars
  <2>1. Sound(Here)'
    BY <1>1, <1>14 DEF vars, Here
  <2> QED
    BY <1>1, <1>14, <2>1 DEF vars, IInv
<1> QED
  BY <1>4, <1>5, <1>6, <1>7, <1>8, <1>9, <1>10, <1>11, <1>12, <1>13, <1>14 DEF Next

\* The session, the peer and the packets are of their kind, whatever is
\* negotiated, lost or late, and no more challenges are sent than MaxChap.
THEOREM TypeCorrect == Spec => []TypeOK
<1>1. IInv => TypeOK
  <2> SUFFICES ASSUME IInv PROVE TypeOK
    OBVIOUS
  <2>1. l \in LType
    BY DEF IInv, Sound, W, Here
  <2>2. toL \in Seq(Packet)
    BY SeqMonotonic DEF IInv, FromPeer
  <2> QED
    BY <2>1, <2>2 DEF IInv, TypeOK, LType, PType
<1> QED
  BY <1>1, InitOk, NextOk, PTL DEF Spec

\* No service without a login (lcp_open, processrad): whatever the peer
\* acknowledges, naks, repeats or closes, a session in the Network phase has
\* been accepted by RADIUS.
THEOREM LoginFirst == Spec => []ServiceNeedsLogin
<1>1. IInv => ServiceNeedsLogin
  BY DEF IInv, Sound, Granted, Here, ServiceNeedsLogin
<1> QED
  BY <1>1, InitOk, NextOk, PTL DEF Spec

\* The network protocols live and die with LCP (lcp_restart, lcp_open,
\* sessionshutdown): none is past Initial outside the Network phase, and LCP is
\* open under authentication and service.
THEOREM NcpsFollowLcp == Spec => []NcpNeedsNetwork
<1>1. IInv => NcpNeedsNetwork
  BY DEF IInv, Sound, Stacked, NcpLayer, Here, NcpNeedsNetwork
<1> QED
  BY <1>1, InitOk, NextOk, PTL DEF Spec

\* Both: the phases of a link come in their order, whatever starts again.
THEOREM PhasesKept == Spec => []PhasesInOrder
<1>1. PhasesInOrder <=> ServiceNeedsLogin /\ NcpNeedsNetwork
  BY DEF PhasesInOrder
<1> QED
  BY <1>1, LoginFirst, NcpsFollowLcp, PTL

(***************************************************************************)
(* The two ends agree.  What is under way is described by what a channel   *)
(* does not hold, and what does not come after what in it.                 *)
(***************************************************************************)
Is(x, C) == {q \in Packet : q.layer = x /\ q.code \in C}
Absent(s, A) == \A i \in DOMAIN s : s[i] \notin A
NoneAfter(s, A, B) == \A i, j \in DOMAIN s : i < j /\ s[i] \in A => s[j] \notin B

Reqs  == Is("lcp", {"Req"})
Acks  == Is("lcp", {"Ack"})
Naks  == Is("lcp", {"Nak"})
Ipcp  == {q \in Packet : q.layer = "ipcp"}
Grants == Is("auth", {"Ack", "Success"})
Terms  == {q \in Packet : q.code = "TermReq"}
LastReqs    == {q \in Reqs : q.last}
LastAnswers == {q \in Acks \cup Naks : q.last}
Without(S)  == {q \in S : q.auth = "none"}

\* The ways a peer that can authenticate itself by can accepts.
Granting(can) == can \cup {"none"}
Within(S, can) == {q \in S : q.auth \in Granting(can)}
Beyond(S, can) == {q \in S : q.auth \notin Granting(can)}

-----------------------------------------------------------------------------
(* Channels. *)

Spent(k) == [k EXCEPT !.last = FALSE]

\* A packet that no longer belongs to the last request stays out of A.
Steady(A) == \A k \in Packet : Spent(k) \in A => k \in A

\* r is in with some of its packets spent.
Aged(in, r) == /\ r = [i \in DOMAIN in |-> r[i]]
               /\ \A i \in DOMAIN in : r[i] \in {in[i], Spent(in[i])}

LEMMA SpentIs == ASSUME NEW k \in Packet
                 PROVE  /\ Spent(k) \in Packet /\ Spent(k).layer = k.layer /\ Spent(k).code = k.code
                        /\ Spent(k).auth = k.auth /\ ~Spent(k).last
  BY DEF Spent, Packet

LEMMA SteadySets ==
  ASSUME NEW can
  PROVE  /\ Steady(Reqs) /\ Steady(Acks) /\ Steady(Naks) /\ Steady(Ipcp) /\ Steady(Grants) /\ Steady(Terms)
         /\ Steady(LastReqs) /\ Steady(LastAnswers) /\ Steady(Without(Reqs)) /\ Steady(Without(Acks))
         /\ Steady(Within(Reqs, can)) /\ Steady(Beyond(Reqs, can)) /\ Steady(Beyond(Acks \cup Naks, can))
<1> SUFFICES ASSUME NEW k \in Packet
             PROVE  /\ Spent(k) \notin LastReqs /\ Spent(k) \notin LastAnswers
                    /\ \A S \in {Reqs, Acks, Naks, Ipcp, Grants, Terms, Without(Reqs), Without(Acks),
                                 Within(Reqs, can), Beyond(Reqs, can), Beyond(Acks \cup Naks, can)} :
                         Spent(k) \in S => k \in S
  BY DEF Steady
<1> DEFINE z == Spent(k)
<1>1. z \in Packet /\ z.layer = k.layer /\ z.code = k.code /\ z.auth = k.auth /\ ~z.last
  BY SpentIs
<1> HIDE DEF z
<1>2. z \notin LastReqs /\ z \notin LastAnswers
  BY <1>1 DEF LastReqs, LastAnswers
<1>3. /\ (z \in Reqs => k \in Reqs) /\ (z \in Acks => k \in Acks) /\ (z \in Naks => k \in Naks)
      /\ (z \in Ipcp => k \in Ipcp) /\ (z \in Grants => k \in Grants) /\ (z \in Terms => k \in Terms)
  BY <1>1 DEF Reqs, Acks, Naks, Ipcp, Grants, Terms, Is
<1>4. /\ (z \in Without(Reqs) => k \in Without(Reqs)) /\ (z \in Without(Acks) => k \in Without(Acks))
      /\ (z \in Within(Reqs, can) => k \in Within(Reqs, can)) /\ (z \in Beyond(Reqs, can) => k \in Beyond(Reqs, can))
      /\ (z \in Beyond(Acks \cup Naks, can) => k \in Beyond(Acks \cup Naks, can))
  BY <1>1, <1>3 DEF Without, Within, Beyond
<1> QED
  BY <1>2, <1>3, <1>4 DEF z

LEMMA TailKeeps ==
  ASSUME NEW S, NEW s \in Seq(S), s # <<>>, NEW A, NEW B
  PROVE  /\ Tail(s) \in Seq(S) /\ Head(s) \in S
         /\ Absent(s, A) => Absent(Tail(s), A) /\ Head(s) \notin A
         /\ NoneAfter(s, A, B) => NoneAfter(Tail(s), A, B) /\ (Head(s) \in A => Absent(Tail(s), B))
<1>1. /\ Tail(s) \in Seq(S) /\ Head(s) = s[1] /\ Head(s) \in S /\ Len(s) \in Nat /\ Len(s) >= 1
      /\ DOMAIN s = 1 .. Len(s) /\ DOMAIN Tail(s) = 1 .. Len(s) - 1
      /\ \A i \in 1 .. Len(s) - 1 : Tail(s)[i] = s[i + 1]
  <2>1. Len(s) \in Nat /\ DOMAIN s = 1 .. Len(s) /\ Head(s) = s[1]
    BY LenProperties
  <2>2. Head(s) \in S /\ Tail(s) \in Seq(S) /\ Len(Tail(s)) = Len(s) - 1 /\ \A i \in 1 .. Len(Tail(s)) : Tail(s)[i] = s[i + 1]
    BY HeadTailProperties
  <2>3. Len(s) # 0
    BY EmptySeq
  <2>4. DOMAIN Tail(s) = 1 .. Len(Tail(s))
    BY <2>2, LenProperties
  <2> QED
    BY <2>1, <2>2, <2>3, <2>4
<1>2. ASSUME Absent(s, A) PROVE Absent(Tail(s), A) /\ Head(s) \notin A
  BY <1>1, <1>2 DEF Absent
<1>3. ASSUME NoneAfter(s, A, B) PROVE NoneAfter(Tail(s), A, B) /\ (Head(s) \in A => Absent(Tail(s), B))
  <2>1. ASSUME NEW i \in DOMAIN Tail(s), NEW j \in DOMAIN Tail(s), i < j, Tail(s)[i] \in A
        PROVE  Tail(s)[j] \notin B
    <3>1. i + 1 \in DOMAIN s /\ j + 1 \in DOMAIN s /\ i + 1 < j + 1 /\ Tail(s)[i] = s[i + 1] /\ Tail(s)[j] = s[j + 1]
      BY <1>1, <2>1
    <3> QED
      BY <1>3, <2>1, <3>1 DEF NoneAfter
  <2>2. ASSUME Head(s) \in A, NEW j \in DOMAIN Tail(s)
        PROVE  Tail(s)[j] \notin B
    <3>1. 1 \in DOMAIN s /\ j + 1 \in DOMAIN s /\ 1 < j + 1 /\ Tail(s)[j] = s[j + 1]
      BY <1>1
    <3> QED
      BY <1>1, <1>3, <2>2, <3>1 DEF NoneAfter
  <2> QED
    BY <2>1, <2>2 DEF NoneAfter, Absent
<1> QED
  BY <1>1, <1>2, <1>3

LEMMA AddKeeps ==
  ASSUME NEW S, NEW s \in Seq(S), NEW t \in Seq(S), NEW A, NEW B
  PROVE  /\ Absent(s, A) /\ Absent(t, A) => Absent(s \o t, A)
         /\ NoneAfter(s, A, B) /\ NoneAfter(t, A, B) /\ (Absent(s, A) \/ Absent(t, B)) => NoneAfter(s \o t, A, B)
<1> DEFINE r == s \o t
<1>1. /\ Len(s) \in Nat /\ Len(t) \in Nat /\ DOMAIN s = 1 .. Len(s) /\ DOMAIN t = 1 .. Len(t)
      /\ DOMAIN r = 1 .. Len(s) + Len(t)
      /\ \A i \in 1 .. Len(s) + Len(t) : r[i] = IF i <= Len(s) THEN s[i] ELSE t[i - Len(s)]
  BY ConcatProperties, LenProperties
<1> HIDE DEF r
<1>2. \A i \in DOMAIN r : \/ i \in DOMAIN s /\ r[i] = s[i]
                          \/ i > Len(s) /\ i - Len(s) \in DOMAIN t /\ r[i] = t[i - Len(s)]
  BY <1>1
<1>3. ASSUME Absent(s, A), Absent(t, A) PROVE Absent(r, A)
  BY <1>2, <1>3 DEF Absent
<1>4. ASSUME NoneAfter(s, A, B), NoneAfter(t, A, B), Absent(s, A) \/ Absent(t, B) PROVE NoneAfter(r, A, B)
  <2> SUFFICES ASSUME NEW i \in DOMAIN r, NEW j \in DOMAIN r, i < j, r[i] \in A PROVE r[j] \notin B
    BY DEF NoneAfter
  <2>1. CASE j \in DOMAIN s
    <3>1. i \in DOMAIN s /\ r[i] = s[i] /\ r[j] = s[j]
      BY <1>1, <2>1
    <3> QED
      BY <1>4, <2>1, <3>1 DEF NoneAfter
  <2>2. CASE j \notin DOMAIN s
    <3>1. j - Len(s) \in DOMAIN t /\ r[j] = t[j - Len(s)]
      BY <1>2, <2>2
    <3>2. CASE i \in DOMAIN s
      BY <1>1, <1>4, <3>1, <3>2 DEF Absent
    <3>3. CASE i \notin DOMAIN s
      <4>1. i - Len(s) \in DOMAIN t /\ r[i] = t[i - Len(s)] /\ i - Len(s) < j - Len(s)
        BY <1>1, <1>2, <3>3
      <4> QED
        BY <1>4, <3>1, <4>1 DEF NoneAfter
    <3> QED
      BY <3>2, <3>3
  <2> QED
    BY <2>1, <2>2
<1> QED
  BY <1>3, <1>4 DEF r

LEMMA AgedKeeps ==
  ASSUME NEW s \in Seq(Packet), NEW r, Aged(s, r), NEW A, NEW B, Steady(A), Steady(B)
  PROVE  /\ r \in Seq(Packet) /\ DOMAIN r = DOMAIN s
         /\ Absent(s, A) => Absent(r, A)
         /\ NoneAfter(s, A, B) => NoneAfter(r, A, B)
<1>1. \A i \in DOMAIN s : s[i] \in Packet
  BY ElementOfSeq, LenProperties
<1>2. r \in Seq(Packet)
  BY OutdateOk DEF Aged, Spent
<1>3. DOMAIN r = DOMAIN s
  BY DEF Aged
<1>4. \A i \in DOMAIN s : (r[i] \in A => s[i] \in A) /\ (r[i] \in B => s[i] \in B)
  BY <1>1 DEF Aged, Steady
<1> QED
  BY <1>2, <1>3, <1>4 DEF Absent, NoneAfter

\* What is received leaves a channel, some of the rest is spent, and more is sent.
LEMMA FlowKeeps ==
  ASSUME NEW in \in Seq(Packet), NEW b, Aged(in, b), NEW t \in Seq(Packet), NEW A, NEW B, Steady(A), Steady(B)
  PROVE  /\ Absent(in, A) /\ Absent(t, A) => Absent(b \o t, A)
         /\ NoneAfter(in, A, B) /\ NoneAfter(t, A, B) /\ (Absent(in, A) \/ Absent(t, B)) => NoneAfter(b \o t, A, B)
<1>1. b \in Seq(Packet) /\ (Absent(in, A) => Absent(b, A)) /\ (NoneAfter(in, A, B) => NoneAfter(b, A, B))
  BY AgedKeeps
<1>2. /\ Absent(b, A) /\ Absent(t, A) => Absent(b \o t, A)
      /\ NoneAfter(b, A, B) /\ NoneAfter(t, A, B) /\ (Absent(b, A) \/ Absent(t, B)) => NoneAfter(b \o t, A, B)
  BY <1>1, AddKeeps
<1> QED
  BY <1>1, <1>2

LEMMA AbsentIn ==
  ASSUME NEW S, NEW s \in Seq(S), NEW A, S \cap A = {}
  PROVE  Absent(s, A)
<1>1. \A i \in DOMAIN s : s[i] \in S
  BY ElementOfSeq, LenProperties
<1> QED
  BY <1>1 DEF Absent

LEMMA NoneAfterIn ==
  ASSUME NEW s, NEW A, NEW B, Absent(s, A) \/ Absent(s, B)
  PROVE  NoneAfter(s, A, B)
  BY DEF Absent, NoneAfter

-----------------------------------------------------------------------------
(* What this end does to LCP and IPCP. *)

At(w, x) == w.l.st[x]

\* What is sent while a is asked for: a request asks for it, only a session
\* with an address is told so, and the last request is answered if z.
Fit(a, ip, z) == {k \in Packet : /\ k \in Reqs => k.auth = a
                                 /\ k \in Grants => ip
                                 /\ k \in LastAnswers => z}
Fits(w, z) == w.out \in Seq(Fit(w.l.authtype, w.l.ip, z))

Trying == {"RequestSent", "AckReceived", "AckSent", "Opened"}
Early  == {"Initial", "RequestSent"}

\* LCP is being negotiated or is open, and what the phase then is.
Linked(w) ==
  /\ At(w, "lcp") \in Trying
  /\ At(w, "lcp") = "Opened" => w.l.phase \in {"Authenticate", "Network"}
  /\ At(w, "ipcp") \notin {"Stopped", "Closing"}
  /\ w.l.ip => w.l.authtype = "none"
  /\ w.l.phase = "Authenticate" => w.l.authtype # "none"

\* The peer has acknowledged a request of LCP.
Was(w) == At(w, "lcp") \in {"AckReceived", "Opened"} \/ w.l.asked \/ w.l.ip

\* From w to v when q comes in: the way of authentication is one the peer has
\* named or none is needed, and IPCP is where it was unless q is about it.
Moved(w, v, q) ==
  v.l.die \/ /\ Linked(v) /\ Fits(v, q \in LastReqs)
             /\ w.l.ip => v.l.ip
             /\ \/ v.l.authtype = w.l.authtype
                \/ (q \in Acks \cup Naks /\ v.l.authtype = q.auth)
                \/ v.l.authtype = "none" /\ v.l.ip
             /\ Was(v) => Was(w) \/ q \in Acks
             /\ q \in Reqs => At(v, "ipcp") \in Early
             /\ At(w, "ipcp") \in Early /\ q \notin Ipcp => At(v, "ipcp") \in Early

LEMMA PacketSets == ASSUME NEW q \in Packet
  PROVE /\ q \in Reqs <=> q.layer = "lcp" /\ q.code = "Req"
        /\ q \in Acks <=> q.layer = "lcp" /\ q.code = "Ack"
        /\ q \in Naks <=> q.layer = "lcp" /\ q.code = "Nak"
        /\ q \in Ipcp <=> q.layer = "ipcp"
        /\ q \in Grants <=> q.layer = "auth" /\ q.code \in {"Ack", "Success"}
        /\ q \in Terms <=> q.code = "TermReq"
        /\ q \in LastReqs <=> q.layer = "lcp" /\ q.code = "Req" /\ q.last
        /\ q \in LastAnswers <=> q.layer = "lcp" /\ q.code \in {"Ack", "Nak"} /\ q.last
        /\ q \in Fit("none", TRUE, TRUE) <=> (q \in Reqs => q.auth = "none")
  BY DEF Reqs, Acks, Naks, Ipcp, Grants, Terms, LastReqs, LastAnswers, Is, Fit

LEMMA FitIs == ASSUME NEW k \in Packet, NEW a, NEW ip, NEW z,
                      k \in Reqs => k.auth = a, k \in Grants => ip, k \in LastAnswers => z
               PROVE  k \in Fit(a, ip, z)
  BY DEF Fit

LEMMA FitsWhenLike ==
  ASSUME NEW v, NEW w, NEW z, Fits(w, z), v.out = w.out, v.l.authtype = w.l.authtype, v.l.ip = w.l.ip
  PROVE  Fits(v, z)
  BY DEF Fits

LEMMA OutFits ==
  ASSUME NEW w \in W, NEW z, Fits(w, z), NEW k \in Fit(w.l.authtype, w.l.ip, z)
  PROVE  LET v == Out(w, k)
         IN  v \in W /\ v.l = w.l /\ Alike(v, w) /\ Fits(v, z) /\ \A y \in Layer : At(v, y) = At(w, y)
<1> DEFINE S == Fit(w.l.authtype, w.l.ip, z)
<1>1. Append(w.out, k) \in Seq(S)
  BY AppendProperties DEF Fits
<1>2. k \in Packet
  BY DEF Fit
<1>3. Out(w, k) \in W /\ Out(w, k).l = w.l /\ Out(w, k).out = Append(w.out, k)
  BY <1>2, OutOk DEF Out, W
<1> HIDE DEF S
<1> QED
  BY <1>1, <1>3 DEF Fits, S, At, Alike

LEMMA ChangeStateMoves ==
  ASSUME NEW w \in W, NEW z, Fits(w, z), NEW x \in Layer, NEW new \in State
  PROVE  LET v == ChangeState(w, x, new)
         IN  /\ v \in W /\ Alike(v, w) /\ Fits(v, z)
             /\ At(v, x) = new /\ \A y \in Layer : y # x => At(v, y) = At(w, y)
<1> DEFINE v == ChangeState(w, x, new)
<1>1. v \in W /\ Alike(v, w) /\ v.l.st = [w.l.st EXCEPT ![x] = new]
  BY ChangeStateOk
<1>2. v.out = w.out
  BY DEF ChangeState, W
<1>3. w.l.st \in [Layer -> State]
  BY DEF W, LType
<1> HIDE DEF v
<1>4. Fits(v, z)
  BY <1>1, <1>2, FitsWhenLike DEF Alike
<1>5. At(v, x) = new /\ \A y \in Layer : y # x => At(v, y) = At(w, y)
  BY <1>1, <1>3 DEF At
<1> QED
  BY <1>1, <1>4, <1>5 DEF v

LEMMA RestartCountMoves ==
  ASSUME NEW w \in W, NEW z, Fits(w, z), NEW x \in Layer
  PROVE  LET v == InitialiseRestartCount(w, x)
         IN  v \in W /\ Alike(v, w) /\ Fits(v, z) /\ \A y \in Layer : At(v, y) = At(w, y)
<1> DEFINE v == InitialiseRestartCount(w, x)
<1>1. v \in W /\ Alike(v, w) /\ v.l.st = w.l.st
  BY RestartCountOk
<1>2. v.out = w.out
  BY DEF InitialiseRestartCount, W
<1> HIDE DEF v
<1>3. Fits(v, z)
  BY <1>1, <1>2, FitsWhenLike DEF Alike
<1> QED
  BY <1>1, <1>3 DEF v, At

LEMMA SendReqMoves ==
  ASSUME NEW w \in W, NEW z, Fits(w, z), NEW x \in Layer
  PROVE  LET v == SendReq(w, x)
         IN  v \in W /\ Alike(v, w) /\ Fits(v, z) /\ \A y \in Layer : At(v, y) = At(w, y)
<1> DEFINE n == w.l.conf[x] + 1
           u == [w EXCEPT !.l.conf[x] = n]
           a == IF x = "lcp" THEN w.l.authtype ELSE "none"
           q == [Pkt(x, "Req") EXCEPT !.auth = a]
<1>0. n \in Nat /\ a \in Auth
  BY DEF W, LType, Auth
<1> HIDE DEF n, a
<1>1. u \in W /\ Alike(u, w) /\ u.l.st = w.l.st /\ u.out = w.out
  BY <1>0 DEF W, LType, Alike
<1>2. q \in Packet /\ q.layer = x /\ q.code = "Req" /\ q.auth = a
  BY <1>0 DEF Pkt, Packet
<1>3. SendReq(w, x) = Out(u, q)
  BY DEF SendReq, n, a
<1> HIDE DEF u, q
<1>4. q \in Fit(u.l.authtype, u.l.ip, z)
  <2>1. q \in Reqs => q.auth = u.l.authtype
    BY <1>1, <1>2, PacketSets DEF a, Alike
  <2>2. q \notin Grants /\ q \notin LastAnswers
    BY <1>2, PacketSets
  <2> QED
    BY <1>2, <2>1, <2>2, FitIs
<1>5. Fits(u, z)
  BY <1>1, FitsWhenLike DEF Alike
<1>6. Out(u, q) \in W /\ Alike(Out(u, q), u) /\ Fits(Out(u, q), z) /\ \A y \in Layer : At(Out(u, q), y) = At(u, y)
  BY <1>1, <1>4, <1>5, OutFits
<1> QED
  BY <1>1, <1>3, <1>6 DEF Alike, At

\* The answer to a request of the peer.
LEMMA AnswerMoves ==
  ASSUME NEW w \in W, NEW z, Fits(w, z), NEW q \in Packet, q.layer \in Layer, q.code = "Req", q \in LastReqs => z
  PROVE  LET v == Answer(w, q)
         IN  v \in W /\ Alike(v, w) /\ Fits(v, z) /\ \A y \in Layer : At(v, y) = At(w, y)
<1> DEFINE c == IF q.ok THEN "Ack" ELSE "Nak"
           k == [q EXCEPT !.code = c]
<1>0. c \in {"Ack", "Nak"}
  OBVIOUS
<1> HIDE DEF c
<1>1. k \in Packet /\ k.layer = q.layer /\ k.code = c /\ k.last = q.last
  BY <1>0 DEF Packet
<1>2. Answer(w, q) = Out(w, k)
  BY DEF Answer, c
<1> HIDE DEF k
<1>3. k \notin Reqs /\ k \notin Grants /\ (k \in LastAnswers => z)
  <2>1. q.layer # "auth"
    BY DEF Layer
  <2> QED
    BY <1>0, <1>1, <2>1, PacketSets
<1>4. k \in Fit(w.l.authtype, w.l.ip, z)
  BY <1>1, <1>3, FitIs
<1> QED
  BY <1>2, <1>4, OutFits

LEMMA LcpRestartMoves ==
  ASSUME NEW w \in W, NEW z, Fits(w, z)
  PROVE  LET v == LcpRestart(w)
         IN  /\ v \in W /\ Fits(v, z) /\ v.l.phase = "Establish" /\ v.l.authtype = w.l.authtype /\ v.l.ip = w.l.ip
             /\ v.l.asked = w.l.asked /\ v.l.die = w.l.die
             /\ At(v, "lcp") = At(w, "lcp") /\ At(v, "ipcp") = "Initial"
<1> DEFINE d == [w EXCEPT !.l.phase = "Establish"]
           a == ChangeState(d, "ipcp", "Initial")
           b == ChangeState(a, "ipv6cp", "Initial")
           c == ChangeState(b, "ccp", "Initial")
<1>1. {"ipcp", "ipv6cp", "ccp", "lcp"} \subseteq Layer /\ "Initial" \in State
  BY Names
<1>2. /\ d \in W /\ d.l.phase = "Establish" /\ d.l.st = w.l.st /\ d.out = w.out
      /\ d.l.ip = w.l.ip /\ d.l.authtype = w.l.authtype /\ d.l.asked = w.l.asked /\ d.l.die = w.l.die
  BY DEF W, LType, Phase
<1> HIDE DEF d
<1>3. Fits(d, z)
  BY <1>2, FitsWhenLike
<1>4. /\ a \in W /\ Alike(a, d) /\ Fits(a, z) /\ At(a, "ipcp") = "Initial"
      /\ At(a, "lcp") = At(d, "lcp")
  BY <1>1, <1>2, <1>3, ChangeStateMoves
<1> HIDE DEF a
<1>5. /\ b \in W /\ Alike(b, a) /\ Fits(b, z) /\ At(b, "ipcp") = At(a, "ipcp")
      /\ At(b, "lcp") = At(a, "lcp")
  BY <1>1, <1>4, ChangeStateMoves
<1> HIDE DEF b
<1>6. /\ c \in W /\ Alike(c, b) /\ Fits(c, z) /\ At(c, "ipcp") = At(b, "ipcp")
      /\ At(c, "lcp") = At(b, "lcp")
  BY <1>1, <1>5, ChangeStateMoves
<1>7. LcpRestart(w) = c
  BY DEF LcpRestart, a, b, c, d
<1> HIDE DEF c
<1> QED
  BY <1>2, <1>4, <1>5, <1>6, <1>7 DEF Alike, At

LEMMA SendChapMoves ==
  ASSUME NEW w \in W, NEW z, Fits(w, z)
  PROVE  LET v == SendChap(w)
         IN  v.l.die \/ /\ v \in W /\ Fits(v, z) /\ v.l.phase = w.l.phase /\ v.l.authtype = w.l.authtype
                        /\ v.l.ip = w.l.ip /\ ~v.l.asked
                        /\ \A y \in Layer : At(v, y) = At(w, y)
<1> DEFINE tries == IF w.l.asked THEN 1 ELSE w.l.chap + 1
           u == [w EXCEPT !.l.chap = tries, !.l.asked = FALSE]
           k == Pkt("auth", "Challenge")
<1>1. CASE tries > MaxChap
  <2>1. Shutdown(w).l.die
    BY DEF Shutdown, W, LType
  <2> QED
    BY <1>1, <2>1 DEF SendChap
<1>2. CASE ~(tries > MaxChap)
  <2>1. tries \in 0 .. MaxChap
    BY <1>2, BoundsAreNat DEF W, LType
  <2> HIDE DEF tries
  <2>2. /\ u \in W /\ u.l.phase = w.l.phase /\ u.l.ip = w.l.ip /\ ~u.l.asked
        /\ u.l.authtype = w.l.authtype /\ u.l.st = w.l.st /\ u.out = w.out
    BY <2>1 DEF W, LType
  <2>3. SendChap(w) = Out(u, k)
    BY <1>2 DEF SendChap, tries
  <2> HIDE DEF u
  <2>4. k \in Packet /\ k.layer = "auth" /\ k.code = "Challenge"
    BY PktOk
  <2> HIDE DEF k
  <2>5. k \in Fit(u.l.authtype, u.l.ip, z)
    BY <2>4, PacketSets, FitIs
  <2>6. Fits(u, z)
    BY <2>2, FitsWhenLike
  <2> QED
    BY <2>2, <2>3, <2>5, <2>6, OutFits DEF Alike, At
<1> QED
  BY <1>1, <1>2

\* LCP opens.
LEMMA LcpOpenMoves ==
  ASSUME NEW w, Sound(w), NEW z, Fits(w, z), w.l.phase # "Network" \/ w.l.authtype = "none",
         w.l.ip => w.l.authtype = "none"
  PROVE  LET v == LcpOpen(w)
         IN  v.l.die \/ /\ v \in W /\ Linked(v) /\ Fits(v, z) /\ At(v, "lcp") = "Opened" /\ At(v, "ipcp") \in Early
                        /\ v.l.authtype = w.l.authtype /\ v.l.ip = w.l.ip
<1> DEFINE up == ChangeState(w, "lcp", "Opened")
           a  == [up EXCEPT !.l.phase = "Authenticate"]
           k  == [up EXCEPT !.l.phase = "Network"]
           r  == SendReq(k, "ipcp")
           n  == ChangeState(r, "ipcp", "RequestSent")
           o  == ChangeState(n, "ipv6cp", "Stopped")
           y  == ChangeState(o, "ccp", "Stopped")
           v  == LcpOpen(w)
<1>1. Sound(v)
  BY LcpOpenKeeps
<1>2. /\ up \in W /\ Alike(up, w) /\ Fits(up, z) /\ At(up, "lcp") = "Opened"
  BY Names, ChangeStateMoves DEF Sound
<1>3. CASE w.l.authtype # "none"
  <2>1. a \in W /\ a.l.phase = "Authenticate" /\ a.l.st = up.l.st /\ a.l.ip = up.l.ip /\ a.l.authtype = up.l.authtype /\ a.out = up.out
    BY <1>2, Names DEF W, LType
  <2>2. w.l.authtype \in {"PAP", "CHAP"}
    BY <1>3 DEF Sound, W, LType, Auth
  <2>3. v \in {SendChap(a), a}
    BY <2>2 DEF LcpOpen
  <2> HIDE DEF up, a, v
  <2>4. Fits(a, z) /\ At(a, "lcp") = "Opened"
    BY <1>2, <2>1, FitsWhenLike DEF At
  <2>5. v.l.die \/ /\ v \in W /\ Fits(v, z) /\ v.l.phase = "Authenticate" /\ v.l.authtype = w.l.authtype
                   /\ v.l.ip = w.l.ip /\ At(v, "lcp") = "Opened"
    BY <1>2, <2>1, <2>3, <2>4, SendChapMoves, Names DEF Alike
  <2>6. v.l.phase = "Authenticate" => At(v, "ipcp") = "Initial"
    BY <1>1 DEF Sound, Stacked, NcpLayer, At
  <2>7. v.l.die \/ (/\ v \in W /\ Linked(v) /\ Fits(v, z) /\ At(v, "lcp") = "Opened" /\ At(v, "ipcp") \in Early
                    /\ v.l.authtype = w.l.authtype /\ v.l.ip = w.l.ip)
    BY <1>3, <2>5, <2>6 DEF Linked, Trying, Early
  <2> QED
    BY <2>7 DEF v
<1>4. CASE w.l.authtype = "none"
  <2>1. k \in W /\ k.l.phase = "Network" /\ k.l.st = up.l.st /\ k.l.ip = up.l.ip /\ k.l.authtype = up.l.authtype /\ k.out = up.out
    BY <1>2, Names DEF W, LType
  <2>2. v = y
    BY <1>4 DEF LcpOpen
  <2> HIDE DEF up, v, k
  <2>3. Fits(k, z) /\ At(k, "lcp") = "Opened"
    BY <1>2, <2>1, FitsWhenLike DEF At
  <2>4. r \in W /\ Alike(r, k) /\ Fits(r, z) /\ At(r, "lcp") = At(k, "lcp")
    BY <2>1, <2>3, Names, SendReqMoves
  <2> HIDE DEF r
  <2>5. n \in W /\ Alike(n, r) /\ Fits(n, z) /\ At(n, "lcp") = At(r, "lcp") /\ At(n, "ipcp") = "RequestSent"
    BY <2>4, Names, ChangeStateMoves
  <2> HIDE DEF n
  <2>6. o \in W /\ Alike(o, n) /\ Fits(o, z) /\ At(o, "lcp") = At(n, "lcp") /\ At(o, "ipcp") = At(n, "ipcp")
    BY <2>5, Names, ChangeStateMoves
  <2> HIDE DEF o
  <2>7. y \in W /\ Alike(y, o) /\ Fits(y, z) /\ At(y, "lcp") = At(o, "lcp") /\ At(y, "ipcp") = At(o, "ipcp")
    BY <2>6, Names, ChangeStateMoves
  <2> HIDE DEF y
  <2>8. y.l.phase = "Network" /\ y.l.authtype = w.l.authtype /\ y.l.ip = w.l.ip
    BY <1>2, <2>1, <2>4, <2>5, <2>6, <2>7 DEF Alike
  <2>9. Linked(y) /\ At(y, "lcp") = "Opened" /\ At(y, "ipcp") \in Early
    BY <1>4, <2>3, <2>4, <2>5, <2>6, <2>7, <2>8 DEF Linked, Trying, Early
  <2> QED
    BY <2>2, <2>7, <2>8, <2>9 DEF v
<1> QED
  BY <1>3, <1>4

\* Below the Network phase and authentication IPCP has not begun, and they are
\* reached with LCP open only.
LEMMA PhaseIs ==
  ASSUME NEW w, Sound(w)
  PROVE  /\ w \in W
         /\ At(w, "lcp") # "Opened" => w.l.phase \notin {"Authenticate", "Network"}
         /\ w.l.phase # "Network" => At(w, "ipcp") = "Initial"
         /\ At(w, "lcp") \in State /\ At(w, "ipcp") \in State
  BY Names DEF Sound, Stacked, NcpLayer, At, W, LType

\* What handles packets of LCP moves on from.
Fresh(w) == Sound(w) /\ Linked(w) /\ w.out = <<>> /\ ~w.l.die

LEMMA FreshFits == ASSUME NEW w, w.out = <<>>, NEW z PROVE Fits(w, z)
  BY EmptySeq DEF Fits

\* A move of LCP to a state below Opened.
LEMMA LcpMoved ==
  ASSUME NEW w, Fresh(w), NEW v, Sound(v), NEW q \in Packet, Fits(v, q \in LastReqs),
         At(v, "lcp") \in Trying \ {"Opened"}, v.l.ip = w.l.ip, v.l.asked = w.l.asked, v.l.ip => v.l.authtype = "none",
         v.l.authtype = w.l.authtype \/ (q \in Acks \cup Naks /\ v.l.authtype = q.auth),
         At(v, "lcp") = "AckReceived" => At(w, "lcp") = "AckReceived" \/ q \in Acks
  PROVE  Moved(w, v, q)
<1>1. v.l.phase \notin {"Authenticate", "Network"} /\ At(v, "ipcp") = "Initial"
  BY PhaseIs DEF Trying
<1>2. Linked(v)
  BY <1>1 DEF Linked, Trying
<1>3. Was(v) => Was(w) \/ q \in Acks
  BY DEF Was, Trying
<1> QED
  BY <1>1, <1>2, <1>3 DEF Moved, Early

\* A move that opens it.
LEMMA OpenMoved ==
  ASSUME NEW w, Fresh(w), NEW v, NEW q \in Packet,
         v.l.die \/ (/\ v \in W /\ Linked(v) /\ Fits(v, q \in LastReqs) /\ At(v, "ipcp") \in Early
                     /\ w.l.ip => v.l.ip
                     /\ \/ v.l.authtype = w.l.authtype
                        \/ (q \in Acks \cup Naks /\ v.l.authtype = q.auth)
                        \/ v.l.authtype = "none" /\ v.l.ip),
         Was(w) \/ q \in Acks
  PROVE  Moved(w, v, q)
  BY DEF Moved

LEMMA LcpAckMoved ==
  ASSUME NEW w, Fresh(w), NEW q \in Packet, q \in Acks
  PROVE  Moved(w, LcpAck(w, q), q)
<1> DEFINE t == IF ~w.l.ip /\ q.auth # "none" THEN [w EXCEPT !.l.authtype = q.auth] ELSE w
           v == LcpAck(w, q)
           z == q \in LastReqs
<1>1. Sound(t) /\ t.l.phase = w.l.phase /\ t.l.st = w.l.st
  <2>1. q.auth \in Auth
    BY DEF Packet
  <2> QED
    BY <2>1, AuthtypeKeeps DEF Fresh
<1>2. /\ t.l.ip = w.l.ip /\ t.l.asked = w.l.asked /\ t.out = <<>> /\ ~t.l.die
      /\ t.l.authtype = w.l.authtype \/ t.l.authtype = q.auth
      /\ t.l.ip => t.l.authtype = "none"
  BY DEF Fresh, Linked, Sound, W, LType
<1>3. Fits(t, z) /\ t \in W
  BY <1>1, <1>2, FreshFits DEF Sound
<1>4. At(w, "lcp") \in Trying /\ At(t, "lcp") = At(w, "lcp")
  BY <1>1 DEF Fresh, Linked, At
<1>5. Sound(v)
  BY LcpAckKeeps DEF Fresh
<1> HIDE DEF t, z
<1>6. CASE At(w, "lcp") = "RequestSent"
  <2> DEFINE r == InitialiseRestartCount(t, "lcp")
             c == ChangeState(r, "lcp", "AckReceived")
  <2>1. v = c
    BY <1>6 DEF LcpAck, t, At
  <2> HIDE DEF v
  <2>2. r \in W /\ Alike(r, t) /\ Fits(r, z)
    BY <1>3, Names, RestartCountMoves
  <2> HIDE DEF r
  <2>3. c \in W /\ Alike(c, r) /\ Fits(c, z) /\ At(c, "lcp") = "AckReceived"
    BY <2>2, Names, ChangeStateMoves
  <2> HIDE DEF c
  <2> QED
    BY <1>2, <1>5, <2>1, <2>2, <2>3, LcpMoved DEF Alike, Trying, z, v
<1>7. CASE At(w, "lcp") = "AckReceived"
  <2> DEFINE r == SendReq(t, "lcp")
             c == ChangeState(r, "lcp", "RequestSent")
  <2>1. v = c
    BY <1>7 DEF LcpAck, t, At
  <2> HIDE DEF v
  <2>2. r \in W /\ Alike(r, t) /\ Fits(r, z)
    BY <1>3, Names, SendReqMoves
  <2> HIDE DEF r
  <2>3. c \in W /\ Alike(c, r) /\ Fits(c, z) /\ At(c, "lcp") = "RequestSent"
    BY <2>2, Names, ChangeStateMoves
  <2> HIDE DEF c
  <2> QED
    BY <1>2, <1>5, <2>1, <2>2, <2>3, LcpMoved DEF Alike, Trying, z, v
<1>8. CASE At(w, "lcp") = "Opened"
  <2> DEFINE d == LcpRestart(t)
             r == SendReq(d, "lcp")
             c == ChangeState(r, "lcp", "RequestSent")
  <2>1. v = c
    BY <1>8 DEF LcpAck, t, At
  <2> HIDE DEF v
  <2>2. d \in W /\ Fits(d, z) /\ d.l.authtype = t.l.authtype /\ d.l.ip = t.l.ip /\ d.l.asked = t.l.asked
    BY <1>3, LcpRestartMoves
  <2> HIDE DEF d
  <2>3. r \in W /\ Alike(r, d) /\ Fits(r, z)
    BY <2>2, Names, SendReqMoves
  <2> HIDE DEF r
  <2>4. c \in W /\ Alike(c, r) /\ Fits(c, z) /\ At(c, "lcp") = "RequestSent"
    BY <2>3, Names, ChangeStateMoves
  <2> HIDE DEF c
  <2> QED
    BY <1>2, <1>5, <2>1, <2>2, <2>3, <2>4, LcpMoved DEF Alike, Trying, z, v
<1>9. CASE At(w, "lcp") = "AckSent"
  <2>1. v = LcpOpen(t)
    BY <1>9 DEF LcpAck, t, At
  <2>2. t.l.phase # "Network"
    BY <1>1, <1>4, <1>9, PhaseIs
  <2> HIDE DEF v
  <2>3. v.l.die \/ (/\ v \in W /\ Linked(v) /\ Fits(v, z) /\ At(v, "ipcp") \in Early
                    /\ v.l.authtype = t.l.authtype /\ v.l.ip = t.l.ip)
    BY <1>1, <1>2, <1>3, <2>1, <2>2, LcpOpenMoves
  <2> QED
    BY <1>2, <2>3, OpenMoved DEF z, v
<1> QED
  BY <1>4, <1>6, <1>7, <1>8, <1>9 DEF Trying

LEMMA AnswerKeepsDie ==
  ASSUME NEW w \in W, NEW q
  PROVE  Answer(w, q).l = w.l
  BY DEF Answer, Out, W

LEMMA LcpReqMoved ==
  ASSUME NEW w, Fresh(w), NEW q \in Packet, q \in Reqs
  PROVE  Moved(w, LcpReq(w, q), q)
<1> DEFINE v == LcpReq(w, q)
           z == q \in LastReqs
<1>1. w \in W /\ Sound(w) /\ Fits(w, z) /\ ~w.l.die /\ (w.l.ip => w.l.authtype = "none") /\ At(w, "lcp") \in Trying
  BY FreshFits DEF Fresh, Sound, Linked
<1>2. Sound(v)
  BY LcpReqKeeps DEF Fresh
<1>3. q.layer \in Layer /\ q.code = "Req" /\ (q \in LastReqs => z)
  BY PacketSets, Names
<1>4. AckSentIf(q) \in State /\ AckSentIf(q) \in Trying \ {"Opened", "AckReceived"}
  BY Names DEF AckSentIf, Trying
<1> HIDE DEF z
<1>5. CASE At(w, "lcp") \in {"RequestSent", "AckSent"}
  <2> DEFINE c == ChangeState(w, "lcp", AckSentIf(q))
             a == Answer(c, q)
  <2>1. v = a
    BY <1>5 DEF LcpReq, At
  <2> HIDE DEF v
  <2>2. c \in W /\ Alike(c, w) /\ Fits(c, z) /\ At(c, "lcp") = AckSentIf(q)
    BY <1>1, <1>4, Names, ChangeStateMoves
  <2> HIDE DEF c
  <2>3. a \in W /\ Alike(a, c) /\ Fits(a, z) /\ At(a, "lcp") = At(c, "lcp")
    BY <1>3, <2>2, Names, AnswerMoves
  <2> HIDE DEF a
  <2> QED
    BY <1>1, <1>2, <1>4, <2>1, <2>2, <2>3, LcpMoved DEF Alike, Trying, z, v
<1>6. CASE At(w, "lcp") = "Opened"
  <2> DEFINE d == LcpRestart(w)
             r == SendReq(d, "lcp")
             c == ChangeState(r, "lcp", AckSentIf(q))
             a == Answer(c, q)
  <2>1. v = a
    BY <1>6 DEF LcpReq, At
  <2> HIDE DEF v
  <2>2. d \in W /\ Fits(d, z) /\ d.l.authtype = w.l.authtype /\ d.l.ip = w.l.ip /\ d.l.asked = w.l.asked
    BY <1>1, LcpRestartMoves
  <2> HIDE DEF d
  <2>3. r \in W /\ Alike(r, d) /\ Fits(r, z)
    BY <2>2, Names, SendReqMoves
  <2> HIDE DEF r
  <2>4. c \in W /\ Alike(c, r) /\ Fits(c, z) /\ At(c, "lcp") = AckSentIf(q)
    BY <1>4, <2>3, Names, ChangeStateMoves
  <2> HIDE DEF c
  <2>5. a \in W /\ Alike(a, c) /\ Fits(a, z) /\ At(a, "lcp") = At(c, "lcp")
    BY <1>3, <2>4, Names, AnswerMoves
  <2> HIDE DEF a
  <2> QED
    BY <1>1, <1>2, <1>4, <2>1, <2>2, <2>3, <2>4, <2>5, LcpMoved DEF Alike, Trying, z, v
<1>7. CASE At(w, "lcp") = "AckReceived"
  <2> DEFINE o == IF q.ok THEN LcpOpen(w) ELSE w
             a == Answer(o, q)
  <2>1. v = a
    BY <1>7 DEF LcpReq, At
  <2>2. w.l.phase # "Network" /\ At(w, "ipcp") \in Early /\ Linked(w)
    BY <1>1, <1>7, PhaseIs DEF Early, Fresh
  <2> HIDE DEF v
  <2>3. LcpOpen(w).l.die \/ (/\ LcpOpen(w) \in W /\ Linked(LcpOpen(w)) /\ Fits(LcpOpen(w), z) /\ At(LcpOpen(w), "ipcp") \in Early
                             /\ LcpOpen(w).l.authtype = w.l.authtype /\ LcpOpen(w).l.ip = w.l.ip)
    BY <1>1, <2>2, LcpOpenMoves
  <2>4. o.l.die \/ (o \in W /\ Linked(o) /\ Fits(o, z) /\ At(o, "ipcp") \in Early /\ o.l.authtype = w.l.authtype /\ o.l.ip = w.l.ip)
    BY <1>1, <2>2, <2>3
  <2>5. o \in W
    BY <1>1, <2>2, LcpOpenKeeps DEF Sound
  <2> HIDE DEF o
  <2>6. CASE o.l.die
    <3>1. a.l.die
      BY <2>5, <2>6, AnswerKeepsDie
    <3> QED
      BY <2>1, <3>1 DEF Moved, v
  <2>7. CASE ~o.l.die
    <3>1. a \in W /\ Alike(a, o) /\ Fits(a, z) /\ \A y \in Layer : At(a, y) = At(o, y)
      BY <1>3, <2>4, <2>7, AnswerMoves
    <3>2. Linked(a) /\ At(a, "ipcp") \in Early /\ a.l.authtype = w.l.authtype /\ a.l.ip = w.l.ip
      BY <2>4, <2>7, <3>1, Names DEF Linked, Alike
    <3> HIDE DEF a
    <3>3. Was(w)
      BY <1>7 DEF Was
    <3> QED
      BY <2>1, <3>1, <3>2, <3>3, OpenMoved DEF z, v
  <2> QED
    BY <2>6, <2>7
<1> QED
  BY <1>1, <1>5, <1>6, <1>7 DEF Trying

LEMMA LcpNakMoved ==
  ASSUME NEW w, Fresh(w), NEW q \in Packet, q \in Naks, ~Was(w)
  PROVE  Moved(w, LcpNak(w, q), q)
<1> DEFINE t == [w EXCEPT !.l.authtype = q.auth]
           v == LcpNak(w, q)
           z == q \in LastReqs
<1>1. CASE q.auth \notin AuthTypes
  <2>1. Shutdown(w).l.die
    BY DEF Shutdown, Fresh, Sound, W, LType
  <2> QED
    BY <1>1, <2>1 DEF LcpNak, Moved
<1>2. CASE q.auth \in AuthTypes
  <2> DEFINE r == InitialiseRestartCount(t, "lcp")
             c == SendReq(r, "lcp")
  <2>1. Sound(t) /\ t.l.st = w.l.st
    BY <1>2, Names, AuthtypeKeeps DEF Fresh
  <2>2. t.l.ip = w.l.ip /\ t.l.asked = w.l.asked /\ t.out = <<>> /\ t.l.authtype = q.auth /\ ~t.l.ip
    BY DEF Fresh, Sound, W, LType, Was
  <2>3. At(w, "lcp") \in {"RequestSent", "AckSent"} /\ At(t, "lcp") = At(w, "lcp")
    BY <2>1 DEF Fresh, Linked, Trying, Was, At
  <2>4. Sound(v)
    BY LcpNakKeeps DEF Fresh
  <2>5. v = c
    BY <1>2, <2>3 DEF LcpNak, At
  <2> HIDE DEF t, v, z
  <2>6. Fits(t, z) /\ t \in W
    BY <2>1, <2>2, FreshFits DEF Sound
  <2>7. r \in W /\ Alike(r, t) /\ Fits(r, z) /\ At(r, "lcp") = At(t, "lcp")
    BY <2>6, Names, RestartCountMoves
  <2> HIDE DEF r
  <2>8. c \in W /\ Alike(c, r) /\ Fits(c, z) /\ At(c, "lcp") = At(r, "lcp")
    BY <2>7, Names, SendReqMoves
  <2> HIDE DEF c
  <2> QED
    BY <2>2, <2>3, <2>4, <2>5, <2>7, <2>8, LcpMoved DEF Alike, Trying, z, v
<1> QED
  BY <1>1, <1>2

\* A network protocol x has moved, IPCP not to where it is given up.
Kept(w, v, x, z) ==
  /\ v \in W /\ Alike(v, w) /\ Fits(v, z) /\ At(v, "lcp") = At(w, "lcp")
  /\ IF x = "ipcp" THEN At(v, "ipcp") \in Trying \cup {At(w, "ipcp")} ELSE At(v, "ipcp") = At(w, "ipcp")

LEMMA KeptMoved ==
  ASSUME NEW w, Fresh(w), NEW x, NEW q \in Packet, q \notin Reqs, NEW v, Kept(w, v, x, q \in LastReqs),
         At(w, "ipcp") \in Early /\ q \notin Ipcp => At(v, "ipcp") \in Early
  PROVE  Moved(w, v, q)
<1>1. /\ At(v, "lcp") = At(w, "lcp") /\ Alike(v, w) /\ Fits(v, q \in LastReqs)
      /\ At(v, "ipcp") \in Trying \cup {At(w, "ipcp")}
  BY DEF Kept
<1>2. Linked(v) /\ (Was(v) => Was(w))
  BY <1>1 DEF Fresh, Linked, Was, Alike, Trying
<1> QED
  BY <1>1, <1>2 DEF Moved, Alike

LEMMA NcpStateKept ==
  ASSUME NEW w, NEW u, NEW x \in NcpLayer, NEW z, Kept(w, u, x, z), NEW new \in Trying
  PROVE  Kept(w, ChangeState(u, x, new), x, z)
<1>1. x \in Layer /\ new \in State /\ "lcp" # x
  BY Names DEF Trying
<1>2. ChangeState(u, x, new) \in W /\ Alike(ChangeState(u, x, new), u) /\ Fits(ChangeState(u, x, new), z)
      /\ At(ChangeState(u, x, new), x) = new /\ \A y \in Layer : y # x => At(ChangeState(u, x, new), y) = At(u, y)
  BY <1>1, ChangeStateMoves DEF Kept
<1> QED
  BY <1>1, <1>2, Names DEF Kept, Alike

LEMMA NcpSendKept ==
  ASSUME NEW w, NEW u, NEW x \in NcpLayer, NEW z, Kept(w, u, x, z)
  PROVE  Kept(w, SendReq(u, x), x, z) /\ Kept(w, InitialiseRestartCount(u, x), x, z)
<1>1. x \in Layer
  BY Names
<1>2. SendReq(u, x) \in W /\ Alike(SendReq(u, x), u) /\ Fits(SendReq(u, x), z) /\ \A y \in Layer : At(SendReq(u, x), y) = At(u, y)
  BY <1>1, SendReqMoves DEF Kept
<1>3. LET r == InitialiseRestartCount(u, x)
      IN  r \in W /\ Alike(r, u) /\ Fits(r, z) /\ \A y \in Layer : At(r, y) = At(u, y)
  BY <1>1, RestartCountMoves DEF Kept
<1> QED
  BY <1>2, <1>3, Names DEF Kept, Alike

LEMMA NcpAnswerKept ==
  ASSUME NEW w, NEW u, NEW x \in NcpLayer, NEW z, Kept(w, u, x, z), NEW q \in Packet, q.layer = x, q.code = "Req"
  PROVE  Kept(w, Answer(u, q), x, z)
<1>1. q.layer \in Layer /\ q \notin LastReqs
  BY Names, PacketSets
<1>2. LET r == Answer(u, q)
      IN  r \in W /\ Alike(r, u) /\ Fits(r, z) /\ \A y \in Layer : At(r, y) = At(u, y)
  BY <1>1, AnswerMoves DEF Kept
<1> QED
  BY <1>2, Names DEF Kept, Alike

LEMMA SelfKept == ASSUME NEW w \in W, NEW x, NEW z, Fits(w, z) PROVE Kept(w, w, x, z)
  BY DEF Kept, Alike

LEMMA NcpKept ==
  ASSUME NEW w \in W, NEW x \in NcpLayer, NEW z, Fits(w, z), NEW q \in Packet, q.layer = x,
         NEW o, Kept(w, o, x, z)
  PROVE  LET again == SendReq(InitialiseRestartCount(w, x), x)
         IN  /\ Kept(w, ChangeState(InitialiseRestartCount(w, x), x, "AckReceived"), x, z)
             /\ Kept(w, ChangeState(SendReq(w, x), x, "RequestSent"), x, z)
             /\ q.code = "Req" => /\ Kept(w, Answer(ChangeState(again, x, AckSentIf(q)), q), x, z)
                                  /\ Kept(w, Answer(ChangeState(w, x, AckSentIf(q)), q), x, z)
                                  /\ Kept(w, Answer(o, q), x, z) /\ Kept(w, Answer(w, q), x, z)
             /\ Kept(w, w, x, z)
<1> DEFINE i == InitialiseRestartCount(w, x)
           s == SendReq(w, x)
           again == SendReq(i, x)
<1>1. AckSentIf(q) \in Trying /\ {"AckReceived", "RequestSent"} \subseteq Trying
  BY DEF AckSentIf, Trying
<1>2. Kept(w, w, x, z)
  BY SelfKept
<1>3. Kept(w, i, x, z) /\ Kept(w, s, x, z)
  BY <1>2, NcpSendKept
<1> HIDE DEF i, s
<1>4. Kept(w, again, x, z)
  BY <1>3, NcpSendKept
<1> HIDE DEF again
<1>5. /\ Kept(w, ChangeState(i, x, "AckReceived"), x, z) /\ Kept(w, ChangeState(s, x, "RequestSent"), x, z)
      /\ Kept(w, ChangeState(again, x, AckSentIf(q)), x, z) /\ Kept(w, ChangeState(w, x, AckSentIf(q)), x, z)
  BY <1>1, <1>2, <1>3, <1>4, NcpStateKept
<1>6. q.code = "Req" => /\ Kept(w, Answer(ChangeState(again, x, AckSentIf(q)), q), x, z)
                        /\ Kept(w, Answer(ChangeState(w, x, AckSentIf(q)), q), x, z)
                        /\ Kept(w, Answer(o, q), x, z) /\ Kept(w, Answer(w, q), x, z)
  BY <1>2, <1>5, NcpAnswerKept
<1> QED
  BY <1>2, <1>5, <1>6 DEF again, i, s

LEMMA IpcpOpenKept ==
  ASSUME NEW w \in W, NEW z, Fits(w, z)
  PROVE  Kept(w, IpcpOpen(w), "ipcp", z)
<1> DEFINE o == ChangeState(w, "ipcp", "Opened")
           r == SendReq(o, "ipv6cp")
           c == ChangeState(r, "ipv6cp", "RequestSent")
<1>1. o \in W /\ Alike(o, w) /\ Fits(o, z) /\ At(o, "lcp") = At(w, "lcp") /\ At(o, "ipcp") \in Trying
  BY Names, ChangeStateMoves DEF Trying
<1> HIDE DEF o
<1>2. r \in W /\ Alike(r, o) /\ Fits(r, z) /\ At(r, "lcp") = At(o, "lcp") /\ At(r, "ipcp") = At(o, "ipcp")
  BY <1>1, Names, SendReqMoves
<1> HIDE DEF r
<1>3. c \in W /\ Alike(c, r) /\ Fits(c, z) /\ At(c, "lcp") = At(r, "lcp") /\ At(c, "ipcp") = At(r, "ipcp")
  BY <1>2, Names, ChangeStateMoves
<1>4. IpcpOpen(w) \in {o, c}
  BY DEF IpcpOpen, o, r
<1> HIDE DEF c
<1> QED
  BY <1>1, <1>2, <1>3, <1>4 DEF Kept, Alike

LEMMA NcpProcessKept ==
  ASSUME NEW w \in W, w.out = <<>>, NEW q \in Packet, q.layer \in NcpLayer, q \notin Terms
  PROVE  Kept(w, Process(w, q), q.layer, q \in LastReqs)
<1> DEFINE z == q \in LastReqs
           v == Process(w, q)
           again(x) == SendReq(InitialiseRestartCount(w, x), x)
           Among(x, o) == v \in {w, ChangeState(InitialiseRestartCount(w, x), x, "AckReceived"),
                                 ChangeState(SendReq(w, x), x, "RequestSent"), o}
                          \/ /\ q.code = "Req"
                             /\ v \in {Answer(ChangeState(again(x), x, AckSentIf(q)), q),
                                       Answer(ChangeState(w, x, AckSentIf(q)), q), Answer(o, q), Answer(w, q)}
<1>1. w \in W /\ Fits(w, z) /\ q.code # "TermReq"
  BY FreshFits, PacketSets
<1>3. CASE q.layer = "ipcp"
  <2>1. Among("ipcp", IpcpOpen(w))
    BY <1>1, <1>3 DEF Process, ProcessIpcp, Ncp
  <2>2. Kept(w, v, "ipcp", z)
    BY <1>1, <1>3, <2>1, IpcpOpenKept, NcpKept
  <2> QED
    BY <1>3, <2>2
<1>4. CASE q.layer = "ipv6cp"
  <2>1. Among("ipv6cp", ChangeState(w, "ipv6cp", "Opened"))
    BY <1>1, <1>4 DEF Process, ProcessIpv6cp, Ncp
  <2>2. Kept(w, ChangeState(w, "ipv6cp", "Opened"), "ipv6cp", z)
    BY <1>1, <1>4, SelfKept, NcpStateKept DEF Trying
  <2>3. Kept(w, v, "ipv6cp", z)
    BY <1>1, <1>4, <2>1, <2>2, NcpKept
  <2> QED
    BY <1>4, <2>3
<1>5. CASE q.layer = "ccp"
  <2>1. Among("ccp", ChangeState(w, "ccp", "Opened"))
    BY <1>1, <1>5 DEF Process, ProcessCcp, Ncp
  <2>2. Kept(w, ChangeState(w, "ccp", "Opened"), "ccp", z)
    BY <1>1, <1>5, SelfKept, NcpStateKept DEF Trying
  <2>3. Kept(w, v, "ccp", z)
    BY <1>1, <1>5, <2>1, <2>2, NcpKept
  <2> QED
    BY <1>5, <2>3
<1> QED
  BY <1>3, <1>4, <1>5 DEF NcpLayer
LEMMA NcpMoved ==
  ASSUME NEW w, Fresh(w), NEW q \in Packet, q.layer \in NcpLayer, q \notin Terms
  PROVE  Moved(w, Process(w, q), q)
<1>1. Kept(w, Process(w, q), q.layer, q \in LastReqs)
  BY NcpProcessKept DEF Fresh, Sound
<1>2. q \notin Reqs /\ (q \in Ipcp <=> q.layer = "ipcp")
  BY PacketSets, Names
<1> QED
  BY <1>1, <1>2, KeptMoved DEF Kept

\* What this end does of itself moves on as if an idle packet had come in.
Idle == Pkt("auth", "Challenge")

LEMMA IdleIs == Idle \in Packet /\ Idle \notin Reqs \cup Acks \cup Naks \cup Ipcp \cup Grants \cup Terms \cup LastReqs
<1>1. Idle \in Packet /\ Idle.layer = "auth" /\ Idle.code = "Challenge"
  BY PktOk DEF Idle
<1> QED
  BY <1>1, PacketSets

LEMMA StaysMoved ==
  ASSUME NEW w, Fresh(w), NEW v, v \in W, NEW q \in Packet, q \notin Reqs, Fits(v, q \in LastReqs),
         v.l.phase = w.l.phase, v.l.authtype = w.l.authtype, v.l.ip = w.l.ip,
         v.l.asked => Was(w), At(v, "lcp") = At(w, "lcp"), At(v, "ipcp") = At(w, "ipcp")
  PROVE  Moved(w, v, q)
<1>1. Linked(v) /\ (Was(v) => Was(w))
  BY DEF Fresh, Linked, Was
<1> QED
  BY <1>1 DEF Moved

LEMMA AuthMoved ==
  ASSUME NEW w, Fresh(w), NEW q \in Packet, q \notin Reqs
  PROVE  Moved(w, ProcessPap(w, q), q) /\ Moved(w, ProcessChap(w, q), q)
<1> DEFINE a == [w EXCEPT !.l.asked = TRUE]
           z == q \in LastReqs
<1>1. w \in W /\ a \in W /\ a.l.phase = w.l.phase /\ a.l.authtype = w.l.authtype /\ a.l.ip = w.l.ip /\ a.l.st = w.l.st /\ a.out = <<>>
  BY DEF Fresh, Sound, W, LType
<1>2. Fits(w, z) /\ Fits(a, z)
  BY <1>1, FreshFits DEF Fresh
<1>3. Moved(w, w, q)
  BY <1>1, <1>2, StaysMoved DEF Was
<1>4. CASE w.l.phase = "Authenticate"
  <2>1. Was(w)
    BY <1>4, PhaseIs DEF Fresh, Was
  <2>2. At(a, "lcp") = At(w, "lcp") /\ At(a, "ipcp") = At(w, "ipcp")
    BY <1>1 DEF At
  <2> HIDE DEF a
  <2>3. Moved(w, a, q)
    BY <1>1, <1>2, <2>1, <2>2, StaysMoved
  <2>4. Moved(w, Shutdown(w), q)
    BY <1>1 DEF Shutdown, Moved, W, LType
  <2>5. ProcessPap(w, q) = a /\ ProcessChap(w, q) \in {w, a, Shutdown(w)}
    BY <1>4 DEF ProcessPap, ProcessChap, a
  <2> QED
    BY <1>3, <2>3, <2>4, <2>5
<1>5. CASE w.l.phase # "Authenticate"
  BY <1>3, <1>5 DEF ProcessPap, ProcessChap
<1> QED
  BY <1>4, <1>5

LEMMA ProcessMoved ==
  ASSUME NEW w, Fresh(w), NEW q \in FromPeer, q \notin Terms, Was(w) => q \notin Naks
  PROVE  Moved(w, Process(w, q), q)
<1>1. /\ q \in Packet /\ q.code # "TermReq" /\ q.layer \in {"lcp", "auth"} \cup NcpLayer /\ ~w.l.die
      /\ (q.layer = "auth" => q.code \in {"Pap", "Response"}) /\ (q.layer = "lcp" => q.code \in {"Req", "Ack", "Nak"})
  <2>1. q \in Packet
    BY DEF FromPeer
  <2>2. q.code # "TermReq"
    BY <2>1, PacketSets
  <2> QED
    BY <2>1, <2>2 DEF Fresh, FromPeer, Packet, Layer, NcpLayer
<1>2. CASE q.layer = "lcp"
  <2>1. CASE q.code = "Ack"
    BY <1>1, <1>2, <2>1, LcpAckMoved, PacketSets DEF Process, ProcessLcp
  <2>2. CASE q.code = "Req"
    BY <1>1, <1>2, <2>2, LcpReqMoved, PacketSets DEF Process, ProcessLcp
  <2>3. CASE q.code = "Nak"
    BY <1>1, <1>2, <2>3, LcpNakMoved, PacketSets DEF Process, ProcessLcp
  <2> QED
    BY <1>1, <1>2, <2>1, <2>2, <2>3
<1>3. CASE q.layer \in NcpLayer
  BY <1>1, <1>3, NcpMoved
<1>4. CASE q.layer = "auth"
  <2>1. q \notin Reqs
    BY <1>1, <1>4, PacketSets
  <2>2. Process(w, q) \in {ProcessPap(w, q), ProcessChap(w, q)}
    BY <1>1, <1>4 DEF Process
  <2> QED
    BY <1>1, <2>1, <2>2, AuthMoved
<1> QED
  BY <1>1, <1>2, <1>3, <1>4

LEMMA AcceptedMoved ==
  ASSUME NEW w, Fresh(w), w.l.asked
  PROVE  Moved(w, Accepted(w), Idle)
<1> DEFINE k == Pkt("auth", IF w.l.chap > 0 THEN "Success" ELSE "Ack")
           told == Out(w, k)
           u == [told EXCEPT !.l.ip = TRUE, !.l.asked = FALSE, !.l.authtype = "none"]
           z == Idle \in LastReqs
<1>1. k \in Packet /\ k.layer = "auth"
  BY PktOk
<1>2. k \in Fit("none", TRUE, z)
  BY <1>1, PacketSets, FitIs
<1> HIDE DEF k, z
<1>3. Sound(told) /\ told.out = <<k>> /\ told.l = w.l
  <2>1. w \in W /\ Sound(w) /\ w.out = <<>>
    BY DEF Fresh, Sound
  <2>2. told = [w EXCEPT !.out = Append(w.out, k)]
    BY DEF Out
  <2>3. Append(w.out, k) = <<k>>
    BY <2>1
  <2>4. told.out = <<k>> /\ told.l = w.l
    BY <2>1, <2>2, <2>3 DEF W
  <2> QED
    BY <1>1, <2>1, <2>4, OutKeeps
<1> HIDE DEF told
<1>4. Sound(u) /\ u.l.ip /\ u.l.authtype = "none" /\ u.out = <<k>>
  <2>1. u \in W /\ u.l.phase = told.l.phase /\ u.l.st = told.l.st /\ u.l.ip /\ u.l.authtype = "none" /\ u.out = told.out
    BY <1>3 DEF Sound, W, LType, Auth
  <2> HIDE DEF u
  <2> QED
    BY <1>3, <2>1 DEF Sound, Granted, Stacked
<1> HIDE DEF u
<1>5. Fits(u, z)
  <2>1. u.l.ip = TRUE
    BY <1>4 DEF Sound, W, LType
  <2>2. k \in Fit(u.l.authtype, u.l.ip, z)
    BY <1>2, <1>4, <2>1
  <2> DEFINE S == Fit(u.l.authtype, u.l.ip, z)
  <2> HIDE DEF k, S
  <2>3. k \in S
    BY <2>2 DEF S
  <2>4. <<k>> \in Seq(S)
    BY <2>3
  <2> QED
    BY <1>4, <2>4 DEF Fits, S
<1>6. LcpOpen(u).l.die \/ (/\ LcpOpen(u) \in W /\ Linked(LcpOpen(u)) /\ Fits(LcpOpen(u), z) /\ At(LcpOpen(u), "ipcp") \in Early
                           /\ LcpOpen(u).l.authtype = u.l.authtype /\ LcpOpen(u).l.ip = u.l.ip)
  BY <1>4, <1>5, LcpOpenMoves
<1>7. Accepted(w) = LcpOpen(u)
  BY DEF Accepted, u, told, k
<1>8. Was(w)
  BY DEF Was
<1> QED
  BY <1>4, <1>6, <1>7, <1>8, IdleIs, OpenMoved DEF z

LEMMA ChapMoved ==
  ASSUME NEW w, Fresh(w)
  PROVE  Moved(w, SendChap(w), Idle)
<1> DEFINE v == SendChap(w)
           z == Idle \in LastReqs
<1>1. w \in W /\ Fits(w, z)
  BY FreshFits DEF Fresh, Sound
<1> HIDE DEF v
<1>2. v.l.die \/ (/\ v \in W /\ Fits(v, z) /\ v.l.phase = w.l.phase /\ v.l.authtype = w.l.authtype
                  /\ v.l.ip = w.l.ip /\ ~v.l.asked
                  /\ At(v, "lcp") = At(w, "lcp") /\ At(v, "ipcp") = At(w, "ipcp"))
  BY <1>1, SendChapMoves, Names DEF v
<1>3. CASE v.l.die
  BY <1>3 DEF Moved, v
<1>4. CASE ~v.l.die
  BY <1>2, <1>4, IdleIs, StaysMoved DEF v, z
<1> QED
  BY <1>3, <1>4

LEMMA RetryMoved ==
  ASSUME NEW w, Fresh(w), NEW x \in Layer, At(w, x) \in Running
  PROVE  Moved(w, Retry(w, x), Idle)
<1> DEFINE new == IF At(w, x) = "AckSent" THEN "AckSent" ELSE "RequestSent"
           r == SendReq(w, x)
           c == ChangeState(r, x, new)
           s == ChangeState(w, x, "Stopped")
           z == Idle \in LastReqs
<1>1. w \in W /\ Fits(w, z) /\ Sound(w) /\ (w.l.ip => w.l.authtype = "none")
  BY FreshFits DEF Fresh, Sound, Linked
<1>2. r \in W /\ Alike(r, w) /\ Fits(r, z) /\ \A y \in Layer : At(r, y) = At(w, y)
  BY <1>1, SendReqMoves
<1> HIDE DEF r
<1>3. new \in {"AckSent", "RequestSent"} /\ (At(w, x) \in Early => new = "RequestSent")
  BY DEF Early, Running
<1>4. c \in W /\ Alike(c, r) /\ Fits(c, z) /\ At(c, x) = new /\ \A y \in Layer : y # x => At(c, y) = At(r, y)
  <2>1. new \in State
    BY <1>3, Names
  <2> HIDE DEF new, z
  <2> QED
    BY <1>2, <2>1, ChangeStateMoves
<1>5. s \in W /\ Alike(s, w) /\ Fits(s, z) /\ \A y \in Layer : y # x => At(s, y) = At(w, y)
  <2>1. "Stopped" \in State
    BY Names
  <2> HIDE DEF z
  <2> QED
    BY <1>1, <2>1, ChangeStateMoves
<1>6. Moved(w, Shutdown(w), Idle)
  BY <1>1 DEF Shutdown, Moved, W, LType
<1>7. /\ Retry(w, x) \in {c, Shutdown(w), s}
      /\ x \in {"lcp", "ipcp"} => Retry(w, x) \in {c, Shutdown(w)}
  BY BoundsAreNat, <1>1 DEF Retry, r, At, W, LType
<1>8. Sound(Retry(w, x))
  BY <1>1, RetryKeeps DEF At
<1> HIDE DEF c, s, new
<1>9. CASE x = "lcp"
  <2>1. ASSUME Retry(w, x) = c
        PROVE  Moved(w, c, Idle)
    BY <1>1, <1>2, <1>3, <1>4, <1>8, <1>9, <2>1, IdleIs, LcpMoved DEF Alike, Trying, z
  <2> QED
    BY <1>6, <1>7, <1>9, <2>1
<1>10. CASE x = "ipcp"
  <2>1. Kept(w, c, "ipcp", z) /\ (At(w, "ipcp") \in Early => At(c, "ipcp") \in Early)
    BY <1>2, <1>3, <1>4, <1>10, Names DEF Kept, Alike, Trying, Early
  <2>2. Moved(w, c, Idle)
    BY <2>1, IdleIs, KeptMoved DEF z
  <2> QED
    BY <1>6, <1>7, <1>10, <2>2
<1>11. CASE x \notin {"lcp", "ipcp"}
  <2>1. Kept(w, c, x, z) /\ Kept(w, s, x, z)
    BY <1>2, <1>4, <1>5, <1>11, Names DEF Kept, Alike
  <2>2. Moved(w, c, Idle) /\ Moved(w, s, Idle)
    BY <1>11, <2>1, IdleIs, KeptMoved DEF Kept, z
  <2> QED
    BY <1>6, <1>7, <2>2
<1> QED
  BY <1>9, <1>10, <1>11

-----------------------------------------------------------------------------
(* What the peer does to LCP and IPCP. *)

Pt(v, x) == v.p.st[x]

\* What may be sent when q has come in, to a peer that is up if u.
Reply(can, q, u) ==
  {k \in Packet : /\ k \notin Terms
                  /\ k \in Acks => q \in Within(Reqs, can) /\ k.auth = q.auth
                  /\ k \in Naks => q \in Beyond(Reqs, can) /\ k.auth \in Granting(can)
                  /\ k \in Ipcp => u /\ "ipcp" \in Ncps}
Said(v, q) == v.out \in Seq(Reply(v.p.can, q, v.p.up))

Begun == {"RequestSent", "AckSent"}

\* The peer is up over an open LCP only, and IPCP runs while it is up.
Peered(v) ==
  /\ Pt(v, "lcp") \in Trying
  /\ v.p.up => Pt(v, "lcp") = "Opened"
  /\ Pt(v, "ipcp") \in IF v.p.up /\ "ipcp" \in Ncps THEN Trying ELSE {"Closed"}

\* It has not been told it is authenticated, and no one has let it off.
Unsigned(v) == ~v.p.up /\ (Pt(v, "lcp") \in {"AckSent", "Opened"} => v.p.auth # "none")

\* It asks anew.
Again(v) == Pt(v, "lcp") \in Begun /\ ~Absent(v.out, Reqs)

\* From u to v when q comes in.
PeerMoved(u, v, q) ==
  /\ v.p.can = u.p.can /\ v.p.closed = u.p.closed
  /\ Peered(v) /\ Said(v, q)
  /\ Unsigned(u) /\ q \notin Without(Reqs) \cup Grants => Unsigned(v)
  /\ Again(v) \/ v.p.up \/ (~u.p.up /\ (Pt(u, "lcp") \in Begun /\ q \notin LastAnswers => Pt(v, "lcp") \in Begun))

\* Two states of the peer that differ at most in what is sent and in layers.
PeerAlike(v, w) == v.p.up = w.p.up /\ v.p.auth = w.p.auth /\ v.p.can = w.p.can /\ v.p.closed = w.p.closed

LEMMA ReplyIs == ASSUME NEW k \in Packet, NEW can, NEW q, NEW u, k.code \notin {"TermReq", "Ack", "Nak"},
                        k.layer = "ipcp" => u /\ "ipcp" \in Ncps
                 PROVE  k \in Reply(can, q, u)
  BY PacketSets DEF Reply

LEMMA SaidWhenLike ==
  ASSUME NEW v, NEW w, NEW q, Said(w, q), v.out = w.out, v.p.can = w.p.can, v.p.up = w.p.up
  PROVE  Said(v, q)
  BY DEF Said

LEMMA SaidWhenUp ==
  ASSUME NEW v, NEW w, NEW q, Said(w, q), v.out = w.out, v.p.can = w.p.can, v.p.up, v.p.up \in BOOLEAN
  PROVE  Said(v, q)
<1> DEFINE S == Reply(w.p.can, q, w.p.up)
           T == Reply(v.p.can, q, v.p.up)
<1>1. S \subseteq T
  BY DEF Reply
<1>2. w.out \in Seq(S)
  BY DEF Said
<1> HIDE DEF S, T
<1>3. w.out \in Seq(T)
  BY <1>1, <1>2, SeqMonotonic
<1> QED
  BY <1>3 DEF Said, T

LEMMA PeerOutSaid ==
  ASSUME NEW v \in V, NEW q, Said(v, q), NEW k \in FromPeer, k \in Reply(v.p.can, q, v.p.up)
  PROVE  LET r == Out(v, k)
         IN  /\ r \in V /\ r.p = v.p /\ PeerAlike(r, v) /\ Said(r, q) /\ \A y \in Layer : Pt(r, y) = Pt(v, y)
             /\ ~Absent(v.out, Reqs) \/ k \in Reqs => ~Absent(r.out, Reqs)
<1> DEFINE S == Reply(v.p.can, q, v.p.up)
           r == Out(v, k)
<1>1. Append(v.out, k) \in Seq(S)
  BY AppendProperties DEF Said
<1>2. r \in V /\ r.p = v.p /\ r.out = Append(v.out, k)
  BY PeerOutOk DEF Out, V
<1>3. ~Absent(v.out, Reqs) \/ k \in Reqs => ~Absent(r.out, Reqs)
  <2>1. v.out \in Seq(FromPeer)
    BY DEF V
  <2>2. /\ DOMAIN r.out = 1 .. Len(v.out) + 1 /\ DOMAIN v.out = 1 .. Len(v.out) /\ Len(v.out) \in Nat
        /\ r.out[Len(v.out) + 1] = k /\ \A i \in 1 .. Len(v.out) : r.out[i] = v.out[i]
    BY <1>2, <2>1, AppendProperties, LenProperties
  <2> QED
    BY <2>2 DEF Absent
<1> HIDE DEF S, r
<1>4. Said(r, q)
  BY <1>1, <1>2 DEF Said, S
<1> QED
  BY <1>2, <1>3, <1>4 DEF r, Pt, PeerAlike

LEMMA PeerSendSaid ==
  ASSUME NEW v \in V, NEW q, Said(v, q), NEW x \in Layer, x = "ipcp" => v.p.up /\ "ipcp" \in Ncps
  PROVE  LET r == PeerSend(v, x)
         IN  /\ r \in V /\ r.p = v.p /\ PeerAlike(r, v) /\ Said(r, q) /\ \A y \in Layer : Pt(r, y) = Pt(v, y)
             /\ ~Absent(v.out, Reqs) \/ x = "lcp" => ~Absent(r.out, Reqs)
<1> DEFINE b == x \in v.p.good
           k == [Pkt(x, "Req") EXCEPT !.ok = b]
<1>0. b \in BOOLEAN /\ x # "auth"
  BY DEF Layer
<1> HIDE DEF b
<1>1. k \in FromPeer /\ k \in Packet /\ k.layer = x /\ k.code = "Req"
  BY <1>0 DEF Pkt, Packet, FromPeer, Auth
<1>2. PeerSend(v, x) = Out(v, k)
  BY DEF PeerSend, b
<1> HIDE DEF k
<1>3. k \in Reply(v.p.can, q, v.p.up) /\ (x = "lcp" => k \in Reqs)
  BY <1>1, ReplyIs, PacketSets
<1> QED
  BY <1>1, <1>2, <1>3, PeerOutSaid

LEMMA PeerStateSaid ==
  ASSUME NEW v \in V, NEW q, Said(v, q), NEW x \in Layer, NEW new \in State \cup {"Closed"}
  PROVE  LET r == PeerState(v, x, new)
         IN  /\ r \in V /\ PeerAlike(r, v) /\ Said(r, q) /\ r.out = v.out
             /\ Pt(r, x) = new /\ \A y \in Layer : y # x => Pt(r, y) = Pt(v, y)
<1> DEFINE r == PeerState(v, x, new)
<1>1. /\ r \in V /\ r.p.up = v.p.up /\ r.p.auth = v.p.auth /\ r.p.can = v.p.can /\ r.p.closed = v.p.closed
      /\ r.out = v.out /\ r.p.st = [v.p.st EXCEPT ![x] = new]
  BY PeerStateOk DEF PeerState, V, PType
<1>2. v.p.st \in [Layer -> State \cup {"Closed"}]
  BY DEF V, PType
<1> HIDE DEF r
<1>3. Said(r, q)
  BY <1>1, SaidWhenLike
<1> QED
  BY <1>1, <1>2, <1>3 DEF PeerAlike, Pt, r

LEMMA PeerUpSaid ==
  ASSUME NEW v \in V, NEW q, Said(v, q)
  PROVE  LET r == PeerUp(v)
         IN  /\ r \in V /\ Said(r, q) /\ r.p.up /\ r.p.can = v.p.can /\ r.p.closed = v.p.closed
             /\ Pt(r, "lcp") = Pt(v, "lcp") /\ Pt(r, "ipcp") = IF "ipcp" \in Ncps THEN "RequestSent" ELSE Pt(v, "ipcp")
<1> DEFINE s == [x \in Layer |-> IF x \in Ncps THEN "RequestSent" ELSE v.p.st[x]]
           up == [v EXCEPT !.p.up = TRUE, !.p.st = s]
           i == IF "ipcp" \in Ncps THEN PeerSend(up, "ipcp") ELSE up
           j == IF "ipv6cp" \in Ncps THEN PeerSend(i, "ipv6cp") ELSE i
           r == IF "ccp" \in Ncps THEN PeerSend(j, "ccp") ELSE j
<1>1. s \in [Layer -> State \cup {"Closed"}]
  BY Names DEF V, PType
<1>2. s["lcp"] = v.p.st["lcp"] /\ s["ipcp"] = IF "ipcp" \in Ncps THEN "RequestSent" ELSE v.p.st["ipcp"]
  BY LayersKnown, Names
<1>3. PeerUp(v) = r
  BY DEF PeerUp
<1> HIDE DEF s
<1>4. /\ up \in V /\ up.out = v.out /\ up.p.up = TRUE /\ up.p.can = v.p.can /\ up.p.closed = v.p.closed /\ up.p.st = s
  BY <1>1 DEF V, PType
<1> HIDE DEF up
<1>5. Said(up, q)
  BY <1>4, SaidWhenUp
<1>6. i \in V /\ i.p = up.p /\ Said(i, q)
  BY <1>4, <1>5, Names, PeerSendSaid
<1> HIDE DEF i
<1>7. j \in V /\ j.p = up.p /\ Said(j, q)
  BY <1>6, Names, PeerSendSaid
<1> HIDE DEF j
<1>8. r \in V /\ r.p = up.p /\ Said(r, q)
  BY <1>7, Names, PeerSendSaid
<1> HIDE DEF r
<1> QED
  BY <1>2, <1>3, <1>4, <1>8 DEF Pt

\* LCP opens at the peer: it is up at once if it need not authenticate itself.
LEMMA PeerOpenSaid ==
  ASSUME NEW v \in V, NEW q, Said(v, q), ~v.p.up, Pt(v, "ipcp") = "Closed"
  PROVE  LET r == PeerOpen(v, "lcp")
         IN  /\ r \in V /\ Said(r, q) /\ Peered(r) /\ r.p.can = v.p.can /\ r.p.closed = v.p.closed /\ Pt(r, "lcp") = "Opened"
             /\ v.p.auth # "none" => ~r.p.up /\ r.p.auth = v.p.auth
<1> DEFINE o == PeerState(v, "lcp", "Opened")
           k == Pkt("auth", "Pap")
           r == PeerOpen(v, "lcp")
<1>1. /\ o \in V /\ PeerAlike(o, v) /\ Said(o, q) /\ Pt(o, "lcp") = "Opened" /\ Pt(o, "ipcp") = "Closed"
  BY Names, PeerStateSaid
<1>2. k \in FromPeer /\ k \in Packet /\ k.layer = "auth" /\ k.code = "Pap"
  BY PktOk DEF FromPeer
<1>3. /\ r \in {o, PeerUp(o), Out(o, k)}
      /\ v.p.auth # "none" => r \in {o, Out(o, k)}
      /\ v.p.auth = "none" => r = PeerUp(o)
  BY DEF PeerOpen, V, PType, Auth
<1> HIDE DEF o, k, r
<1>4. CASE v.p.auth = "none"
  <2>1. r = PeerUp(o)
    BY <1>3, <1>4
  <2>2. /\ r \in V /\ Said(r, q) /\ r.p.up /\ r.p.can = o.p.can /\ r.p.closed = o.p.closed
        /\ Pt(r, "lcp") = "Opened" /\ Pt(r, "ipcp") = IF "ipcp" \in Ncps THEN "RequestSent" ELSE "Closed"
    BY <1>1, <2>1, PeerUpSaid
  <2>3. Peered(r)
    BY <2>2 DEF Peered, Trying
  <2> QED
    BY <1>1, <1>4, <2>2, <2>3 DEF PeerAlike, r
<1>5. CASE v.p.auth # "none"
  <2>1. k \in Reply(o.p.can, q, o.p.up)
    BY <1>2, ReplyIs
  <2>2. LET n == Out(o, k) IN n \in V /\ PeerAlike(n, o) /\ Said(n, q) /\ \A y \in Layer : Pt(n, y) = Pt(o, y)
    BY <1>1, <1>2, <2>1, PeerOutSaid
  <2>3. r \in V /\ PeerAlike(r, o) /\ Said(r, q) /\ Pt(r, "lcp") = "Opened" /\ Pt(r, "ipcp") = "Closed"
    BY <1>1, <1>3, <1>5, <2>2, Names DEF PeerAlike
  <2> QED
    BY <1>1, <2>3 DEF PeerAlike, Peered, Trying, r
<1> QED
  BY <1>4, <1>5

\* LCP starts again at the peer: everything goes down.
LEMMA PeerRestartSaid ==
  ASSUME NEW v \in V, NEW q, v.out = <<>>, NEW new \in Begun
  PROVE  LET r == PeerRestart(v, "lcp", new)
         IN  /\ r \in V /\ Said(r, q) /\ ~r.p.up /\ r.p.auth = v.p.auth /\ r.p.can = v.p.can /\ r.p.closed = v.p.closed
             /\ Pt(r, "lcp") = new /\ Pt(r, "ipcp") = "Closed" /\ ~Absent(r.out, Reqs)
<1> DEFINE d == [v EXCEPT !.p.up = FALSE, !.p.st = [y \in Layer |-> "Closed"]]
           n == PeerSend(d, "lcp")
           r == PeerState(n, "lcp", new)
<1>1. /\ d \in V /\ d.out = <<>> /\ ~d.p.up /\ d.p.auth = v.p.auth /\ d.p.can = v.p.can /\ d.p.closed = v.p.closed
      /\ d.p.st = [y \in Layer |-> "Closed"]
  BY DEF V, PType
<1>2. PeerRestart(v, "lcp", new) = r
  BY DEF PeerRestart
<1> HIDE DEF d
<1>3. Said(d, q)
  BY <1>1, EmptySeq DEF Said
<1>4. n \in V /\ n.p = d.p /\ Said(n, q) /\ ~Absent(n.out, Reqs)
  BY <1>1, <1>3, Names, PeerSendSaid
<1> HIDE DEF n
<1>5. new \in State \cup {"Closed"}
  BY Names DEF Begun
<1>6. /\ r \in V /\ PeerAlike(r, n) /\ Said(r, q) /\ r.out = n.out /\ Pt(r, "lcp") = new
      /\ Pt(r, "ipcp") = Pt(n, "ipcp")
  <2>1. "lcp" \in Layer /\ "ipcp" \in Layer
    BY Names
  <2> QED
    BY <1>4, <1>5, <2>1, PeerStateSaid
<1> HIDE DEF r
<1>7. Pt(n, "ipcp") = "Closed"
  BY <1>1, <1>4, Names DEF Pt
<1> QED
  BY <1>1, <1>2, <1>4, <1>6, <1>7 DEF PeerAlike

LEMMA SaidFresh == ASSUME NEW u, u.out = <<>>, NEW q PROVE Said(u, q)
  BY EmptySeq DEF Said

LEMMA AgreedSaid ==
  ASSUME NEW v \in V, NEW q, Said(v, q), NEW a \in Auth
  PROVE  LET t == [v EXCEPT !.p.auth = a]
         IN  /\ t \in V /\ Said(t, q) /\ t.p.auth = a /\ t.p.up = v.p.up /\ t.p.can = v.p.can /\ t.p.closed = v.p.closed
             /\ t.out = v.out /\ \A x \in Layer : Pt(t, x) = Pt(v, x)
<1> DEFINE t == [v EXCEPT !.p.auth = a]
<1>1. /\ t \in V /\ t.p.auth = a /\ t.p.up = v.p.up /\ t.p.can = v.p.can /\ t.p.closed = v.p.closed
      /\ t.out = v.out /\ t.p.st = v.p.st
  BY DEF V, PType
<1> HIDE DEF t
<1> QED
  BY <1>1, SaidWhenLike DEF Pt, t

\* The answer to a request of LCP.
LEMMA PeerReplyIs ==
  ASSUME NEW can \in SUBSET Auth, NEW q \in Packet, q \in Reqs, NEW u
  PROVE  LET ok == q.auth \in can \cup {"none"}
             k == [q EXCEPT !.code = IF ok THEN "Ack" ELSE "Nak",
                            !.auth = IF ok THEN @ ELSE IF can = {} THEN "none" ELSE CHOOSE a \in can : TRUE]
         IN  k \in FromPeer /\ k \in Reply(can, q, u)
<1> DEFINE ok == q.auth \in can \cup {"none"}
           b  == IF can = {} THEN "none" ELSE CHOOSE a \in can : TRUE
           c  == IF ok THEN "Ack" ELSE "Nak"
           d  == IF ok THEN q.auth ELSE b
           k  == [q EXCEPT !.code = c, !.auth = d]
<1>1. b \in Auth /\ b \in Granting(can) /\ q.auth \in Auth
  BY DEF Auth, Granting, Packet
<1>2. /\ c \in {"Ack", "Nak"} /\ d \in Auth
      /\ c = "Ack" => q \in Within(Reqs, can) /\ d = q.auth
      /\ c = "Nak" => q \in Beyond(Reqs, can) /\ d \in Granting(can)
  BY <1>1 DEF Within, Beyond, Granting
<1>3. q.layer = "lcp"
  BY PacketSets
<1> HIDE DEF c, d
<1>4. k \in Packet /\ k.layer = "lcp" /\ k.code = c /\ k.auth = d
  BY <1>2, <1>3 DEF Packet
<1>5. [q EXCEPT !.code = IF ok THEN "Ack" ELSE "Nak", !.auth = IF ok THEN @ ELSE b] = k
  BY DEF c, d
<1> HIDE DEF k, ok, b
<1>6. k \in FromPeer
  BY <1>2, <1>4 DEF FromPeer
<1>7. k \in Reply(can, q, u)
  BY <1>2, <1>4, PacketSets DEF Reply
<1> QED
  BY <1>5, <1>6, <1>7 DEF ok, b

LEMMA PeerReqMoved ==
  ASSUME NEW u \in V, u.out = <<>>, Peered(u), NEW q \in Packet, q \in Reqs
  PROVE  PeerMoved(u, PeerReq(u, q), q)
<1> DEFINE ok == q.auth \in u.p.can \cup {"none"}
           k  == [q EXCEPT !.code = IF ok THEN "Ack" ELSE "Nak",
                           !.auth = IF ok THEN @ ELSE IF u.p.can = {} THEN "none" ELSE CHOOSE a \in u.p.can : TRUE]
           agreed(t) == IF ok THEN [t EXCEPT !.p.auth = q.auth] ELSE t
           to == IF ok THEN "AckSent" ELSE "RequestSent"
           g  == agreed(u)
           h  == Out(g, k)
           v  == PeerReq(u, q)
<1>1. k \in FromPeer /\ \A up : k \in Reply(u.p.can, q, up)
  BY PeerReplyIs DEF V, PType
<1>2. /\ q.layer = "lcp" /\ q.auth \in Auth /\ (q \notin Without(Reqs) => q.auth # "none")
      /\ to \in Begun /\ to \in State \cup {"Closed"} /\ (to = "AckSent" => ok) /\ {"lcp", "ipcp"} \subseteq Layer
      /\ Said(u, q)
  BY PacketSets, Names, SaidFresh DEF Packet, Begun, Without
<1>3. /\ Pt(u, "lcp") \in Begun => v = PeerState(h, "lcp", to)
      /\ Pt(u, "lcp") = "AckReceived" => v = IF ok THEN PeerOpen(h, "lcp") ELSE Out(u, k)
      /\ Pt(u, "lcp") = "Opened" => v = Out(agreed(PeerRestart(u, "lcp", to)), k)
  BY <1>2 DEF PeerReq, Pt, Begun
<1> HIDE DEF k, v, ok
<1>4. \A t \in V : Said(t, q) => /\ agreed(t) \in V /\ Said(agreed(t), q) /\ agreed(t).p.up = t.p.up /\ agreed(t).p.can = t.p.can
                                 /\ agreed(t).p.closed = t.p.closed /\ agreed(t).out = t.out
                                 /\ agreed(t).p.auth = IF ok THEN q.auth ELSE t.p.auth
                                 /\ \A x \in Layer : Pt(agreed(t), x) = Pt(t, x)
  <2> TAKE t \in V
  <2> HAVE Said(t, q)
  <2> DEFINE n == [t EXCEPT !.p.auth = q.auth]
  <2>1. /\ n \in V /\ Said(n, q) /\ n.p.auth = q.auth /\ n.p.up = t.p.up /\ n.p.can = t.p.can /\ n.p.closed = t.p.closed
        /\ n.out = t.out /\ \A x \in Layer : Pt(n, x) = Pt(t, x)
    BY <1>2, AgreedSaid
  <2>2. agreed(t) = IF ok THEN n ELSE t
    OBVIOUS
  <2> HIDE DEF n, agreed
  <2> QED
    BY <2>1, <2>2
<1> HIDE DEF agreed, to
<1>5. /\ g \in V /\ Said(g, q) /\ g.p.up = u.p.up /\ g.p.can = u.p.can /\ g.p.closed = u.p.closed
      /\ g.p.auth = IF ok THEN q.auth ELSE u.p.auth
      /\ \A x \in Layer : Pt(g, x) = Pt(u, x)
  BY <1>2, <1>4
<1> HIDE DEF g
<1>6. h \in V /\ PeerAlike(h, g) /\ Said(h, q) /\ \A x \in Layer : Pt(h, x) = Pt(g, x)
  BY <1>1, <1>5, PeerOutSaid
<1> HIDE DEF h
<1>7. CASE Pt(u, "lcp") \in Begun
  <2>1. ~u.p.up /\ Pt(u, "ipcp") = "Closed"
    BY <1>7 DEF Peered, Begun
  <2>2. /\ v \in V /\ PeerAlike(v, h) /\ Said(v, q) /\ Pt(v, "lcp") = to /\ Pt(v, "ipcp") = Pt(h, "ipcp")
    BY <1>2, <1>3, <1>6, <1>7, PeerStateSaid
  <2>3. v.p.can = u.p.can /\ v.p.closed = u.p.closed /\ ~v.p.up /\ v.p.auth = (IF ok THEN q.auth ELSE u.p.auth)
    BY <1>5, <1>6, <2>1, <2>2 DEF PeerAlike
  <2>4. Peered(v)
    BY <1>2, <1>5, <1>6, <2>1, <2>2, <2>3 DEF Peered, Trying, Begun
  <2>5. q \notin Without(Reqs) => Unsigned(v)
    BY <1>2, <2>2, <2>3 DEF Unsigned, Begun
  <2> QED
    BY <1>2, <2>1, <2>2, <2>3, <2>4, <2>5 DEF PeerMoved, v
<1>8. CASE Pt(u, "lcp") = "AckReceived"
  <2>1. ~u.p.up /\ Pt(u, "ipcp") = "Closed"
    BY <1>8 DEF Peered
  <2>2. CASE ok
    <3>1. /\ v \in V /\ Said(v, q) /\ Peered(v) /\ v.p.can = h.p.can /\ v.p.closed = h.p.closed /\ Pt(v, "lcp") = "Opened"
          /\ h.p.auth # "none" => ~v.p.up /\ v.p.auth = h.p.auth
      BY <1>2, <1>3, <1>5, <1>6, <1>8, <2>1, <2>2, PeerOpenSaid DEF PeerAlike
    <3>2. v.p.can = u.p.can /\ v.p.closed = u.p.closed /\ (q.auth # "none" => Unsigned(v))
      BY <1>5, <1>6, <2>2, <3>1 DEF PeerAlike, Unsigned
    <3>3. Pt(u, "lcp") \notin Begun
      BY <1>8 DEF Begun
    <3> QED
      BY <1>2, <2>1, <3>1, <3>2, <3>3 DEF PeerMoved, v
  <2>3. CASE ~ok
    <3>1. v \in V /\ v.p = u.p /\ Said(v, q)
      BY <1>1, <1>2, <1>3, <1>8, <2>3, PeerOutSaid
    <3>2. Pt(u, "lcp") \notin Begun /\ Peered(v) /\ (Unsigned(u) => Unsigned(v))
      BY <1>8, <3>1 DEF Begun, Peered, Pt, Unsigned
    <3> QED
      BY <2>1, <3>1, <3>2 DEF PeerMoved, v
  <2> QED
    BY <2>2, <2>3
<1>9. CASE Pt(u, "lcp") = "Opened"
  <2> DEFINE r == PeerRestart(u, "lcp", to)
             m == agreed(r)
  <2>1. /\ r \in V /\ Said(r, q) /\ ~r.p.up /\ r.p.can = u.p.can /\ r.p.closed = u.p.closed
        /\ Pt(r, "lcp") = to /\ Pt(r, "ipcp") = "Closed" /\ ~Absent(r.out, Reqs)
    BY <1>2, PeerRestartSaid
  <2> HIDE DEF r
  <2>2. /\ m \in V /\ Said(m, q) /\ ~m.p.up /\ m.p.can = u.p.can /\ m.p.closed = u.p.closed
        /\ Pt(m, "lcp") = to /\ Pt(m, "ipcp") = "Closed" /\ ~Absent(m.out, Reqs) /\ (ok => m.p.auth = q.auth)
    BY <1>2, <1>4, <2>1
  <2>3. v = Out(m, k)
    BY <1>3, <1>9 DEF r
  <2> HIDE DEF m
  <2>4. /\ v \in V /\ Said(v, q) /\ v.p = m.p /\ ~Absent(v.out, Reqs)
    BY <1>1, <2>2, <2>3, PeerOutSaid
  <2>5. Peered(v) /\ Again(v) /\ (q.auth # "none" => Unsigned(v))
    BY <1>2, <2>2, <2>4 DEF Peered, Again, Unsigned, Pt, Begun, Trying
  <2> QED
    BY <1>2, <2>2, <2>4, <2>5 DEF PeerMoved, v
<1> QED
  BY <1>7, <1>8, <1>9 DEF Peered, Trying, Begun

LEMMA PeerAckMoved ==
  ASSUME NEW u \in V, u.out = <<>>, Peered(u), NEW q \in Packet, q \in LastAnswers
  PROVE  PeerMoved(u, PeerAck(u, "lcp"), q)
<1> DEFINE v == PeerAck(u, "lcp")
           s == PeerSend(u, "lcp")
<1>1. Said(u, q) /\ {"lcp", "ipcp"} \subseteq Layer /\ {"AckReceived", "RequestSent"} \subseteq State
  BY SaidFresh, Names
<1>2. /\ Pt(u, "lcp") = "RequestSent" => v = PeerState(u, "lcp", "AckReceived")
      /\ Pt(u, "lcp") = "AckReceived" => v = PeerState(s, "lcp", "RequestSent")
      /\ Pt(u, "lcp") = "AckSent" => v = PeerOpen(u, "lcp")
      /\ Pt(u, "lcp") = "Opened" => v = PeerRestart(u, "lcp", "RequestSent")
  BY DEF PeerAck, Pt
<1>3. Pt(u, "lcp") # "Opened" => ~u.p.up /\ Pt(u, "ipcp") = "Closed"
  BY DEF Peered
<1> HIDE DEF v, s
<1>4. CASE Pt(u, "lcp") = "RequestSent"
  <2>1. v \in V /\ PeerAlike(v, u) /\ Said(v, q) /\ Pt(v, "lcp") = "AckReceived" /\ Pt(v, "ipcp") = Pt(u, "ipcp")
    BY <1>1, <1>2, <1>4, PeerStateSaid
  <2>2. Peered(v) /\ Unsigned(v)
    BY <1>3, <1>4, <2>1 DEF Peered, Unsigned, Trying, PeerAlike
  <2> QED
    BY <1>3, <1>4, <2>1, <2>2 DEF PeerMoved, PeerAlike, v
<1>5. CASE Pt(u, "lcp") = "AckReceived"
  <2>1. s \in V /\ PeerAlike(s, u) /\ Said(s, q) /\ Pt(s, "ipcp") = Pt(u, "ipcp") /\ ~Absent(s.out, Reqs)
    BY <1>1, PeerSendSaid DEF s
  <2>2. v \in V /\ PeerAlike(v, s) /\ Said(v, q) /\ v.out = s.out /\ Pt(v, "lcp") = "RequestSent" /\ Pt(v, "ipcp") = Pt(s, "ipcp")
    BY <1>1, <1>2, <1>5, <2>1, PeerStateSaid
  <2>3. Peered(v) /\ Unsigned(v) /\ Again(v)
    BY <1>3, <1>5, <2>1, <2>2 DEF Peered, Unsigned, Trying, PeerAlike, Again, Begun
  <2> QED
    BY <1>3, <1>5, <2>1, <2>2, <2>3 DEF PeerMoved, PeerAlike, v
<1>6. CASE Pt(u, "lcp") = "AckSent"
  <2>1. /\ v \in V /\ Said(v, q) /\ Peered(v) /\ v.p.can = u.p.can /\ v.p.closed = u.p.closed /\ Pt(v, "lcp") = "Opened"
        /\ u.p.auth # "none" => ~v.p.up /\ v.p.auth = u.p.auth
    BY <1>1, <1>2, <1>3, <1>6, PeerOpenSaid
  <2>2. Unsigned(u) => Unsigned(v)
    BY <1>6, <2>1 DEF Unsigned
  <2> QED
    BY <1>3, <1>6, <2>1, <2>2 DEF PeerMoved, v
<1>7. CASE Pt(u, "lcp") = "Opened"
  <2>1. /\ v \in V /\ Said(v, q) /\ ~v.p.up /\ v.p.can = u.p.can /\ v.p.closed = u.p.closed
        /\ Pt(v, "lcp") = "RequestSent" /\ Pt(v, "ipcp") = "Closed" /\ ~Absent(v.out, Reqs)
    BY <1>2, <1>7, PeerRestartSaid DEF Begun
  <2>2. Peered(v) /\ Unsigned(v) /\ Again(v)
    BY <2>1 DEF Peered, Unsigned, Trying, Again, Begun
  <2> QED
    BY <2>1, <2>2 DEF PeerMoved, v
<1> QED
  BY <1>4, <1>5, <1>6, <1>7 DEF Peered, Trying

LEMMA PeerNakMoved ==
  ASSUME NEW u \in V, u.out = <<>>, Peered(u), NEW q \in Packet
  PROVE  PeerMoved(u, PeerNak(u, "lcp"), q)
<1> DEFINE v == PeerNak(u, "lcp")
           t == [u EXCEPT !.p.good = @ \cup {"lcp"}]
           s == PeerSend(t, "lcp")
           a == IF Pt(u, "lcp") = "AckSent" THEN "AckSent" ELSE "RequestSent"
<1>1. {"lcp", "ipcp"} \subseteq Layer /\ "RequestSent" \in State
  BY Names
<1>2. t \in V /\ t.p.st = u.p.st /\ PeerAlike(t, u) /\ t.out = <<>>
  BY <1>1 DEF V, PType, PeerAlike
<1>3. /\ Pt(u, "lcp") = "AckSent" => v = s
      /\ Pt(u, "lcp") \in {"RequestSent", "AckReceived"} => v = PeerState(s, "lcp", "RequestSent")
      /\ Pt(u, "lcp") = "Opened" => v = PeerRestart(t, "lcp", "RequestSent")
  BY DEF PeerNak, Pt
<1>4. Pt(u, "lcp") # "Opened" => ~u.p.up /\ Pt(u, "ipcp") = "Closed"
  BY DEF Peered
<1> HIDE DEF v, t
<1>5. Said(t, q) /\ \A x \in Layer : Pt(t, x) = Pt(u, x)
  BY <1>2, SaidFresh DEF Pt
<1>6. s \in V /\ PeerAlike(s, t) /\ Said(s, q) /\ Pt(s, "lcp") = Pt(u, "lcp") /\ Pt(s, "ipcp") = Pt(u, "ipcp") /\ ~Absent(s.out, Reqs)
  BY <1>1, <1>2, <1>5, PeerSendSaid
<1> HIDE DEF s
<1>7. CASE Pt(u, "lcp") # "Opened"
  <2>1. PeerState(s, "lcp", "RequestSent") \in V /\ PeerAlike(PeerState(s, "lcp", "RequestSent"), s) /\ Said(PeerState(s, "lcp", "RequestSent"), q)
        /\ PeerState(s, "lcp", "RequestSent").out = s.out /\ Pt(PeerState(s, "lcp", "RequestSent"), "lcp") = "RequestSent"
        /\ Pt(PeerState(s, "lcp", "RequestSent"), "ipcp") = Pt(s, "ipcp")
    BY <1>1, <1>6, PeerStateSaid
  <2>2. v \in V /\ PeerAlike(v, s) /\ Said(v, q) /\ v.out = s.out /\ Pt(v, "lcp") = a /\ Pt(v, "ipcp") = Pt(s, "ipcp")
    BY <1>3, <1>6, <1>7, <2>1 DEF Peered, Trying, PeerAlike
  <2>3. Peered(v) /\ (Unsigned(u) => Unsigned(v)) /\ Again(v)
    BY <1>2, <1>4, <1>6, <1>7, <2>2 DEF Peered, Unsigned, Trying, PeerAlike, Again, Begun
  <2> QED
    BY <1>2, <1>6, <2>2, <2>3 DEF PeerMoved, PeerAlike, v
<1>8. CASE Pt(u, "lcp") = "Opened"
  <2>1. /\ v \in V /\ Said(v, q) /\ ~v.p.up /\ v.p.can = t.p.can /\ v.p.closed = t.p.closed
        /\ Pt(v, "lcp") = "RequestSent" /\ Pt(v, "ipcp") = "Closed" /\ ~Absent(v.out, Reqs)
    BY <1>2, <1>3, <1>8, PeerRestartSaid DEF Begun
  <2>2. Peered(v) /\ Unsigned(v) /\ Again(v)
    BY <2>1 DEF Peered, Unsigned, Trying, Again, Begun
  <2> QED
    BY <1>2, <2>1, <2>2 DEF PeerMoved, PeerAlike, v
<1> QED
  BY <1>7, <1>8

\* A network protocol x of the peer has moved.
PeerKept(u, v, x, q) ==
  /\ v \in V /\ PeerAlike(v, u) /\ Said(v, q) /\ Pt(v, "lcp") = Pt(u, "lcp")
  /\ Pt(v, "ipcp") \in IF x = "ipcp" THEN Trying \cup {Pt(u, "ipcp")} ELSE {Pt(u, "ipcp")}

\* It runs: IPCP only while the peer is up.
Runs(u, x) == x = "ipcp" => u.p.up /\ "ipcp" \in Ncps

LEMMA KeptPeerMoved ==
  ASSUME NEW u, Peered(u), NEW x, Runs(u, x), NEW q, NEW v, PeerKept(u, v, x, q)
  PROVE  PeerMoved(u, v, q)
<1>1. /\ v.p.up = u.p.up /\ v.p.auth = u.p.auth /\ v.p.can = u.p.can /\ v.p.closed = u.p.closed /\ Said(v, q)
      /\ Pt(v, "lcp") = Pt(u, "lcp")
  BY DEF PeerKept, PeerAlike
<1>2. Pt(v, "ipcp") = Pt(u, "ipcp") \/ (u.p.up /\ "ipcp" \in Ncps /\ Pt(v, "ipcp") \in Trying)
  BY DEF PeerKept, Runs
<1>3. Peered(v)
  BY <1>1, <1>2 DEF Peered
<1>4. Unsigned(u) => Unsigned(v)
  BY <1>1 DEF Unsigned
<1> QED
  BY <1>1, <1>3, <1>4 DEF PeerMoved

LEMMA PeerStays ==
  ASSUME NEW u \in V, Peered(u), NEW q, NEW v \in V, v.out = <<>>, PeerAlike(v, u), v.p.st = u.p.st
  PROVE  PeerMoved(u, v, q)
<1>1. PeerKept(u, v, "lcp", q)
  BY SaidFresh DEF PeerKept, Pt
<1> QED
  BY <1>1, KeptPeerMoved DEF Runs

LEMMA PeerStateKept ==
  ASSUME NEW u, NEW w, NEW x \in NcpLayer, NEW q, PeerKept(u, w, x, q), NEW new \in Trying
  PROVE  PeerKept(u, PeerState(w, x, new), x, q)
<1> DEFINE r == PeerState(w, x, new)
<1>1. x \in Layer /\ new \in State \cup {"Closed"} /\ "lcp" # x /\ {"lcp", "ipcp"} \subseteq Layer
  BY Names DEF Trying
<1>2. /\ r \in V /\ PeerAlike(r, w) /\ Said(r, q) /\ Pt(r, x) = new /\ \A y \in Layer : y # x => Pt(r, y) = Pt(w, y)
  BY <1>1, PeerStateSaid DEF PeerKept
<1> HIDE DEF r
<1> QED
  BY <1>1, <1>2 DEF PeerKept, PeerAlike, r

LEMMA PeerSendKept ==
  ASSUME NEW u, NEW w, NEW x \in NcpLayer, NEW q, PeerKept(u, w, x, q), Runs(u, x)
  PROVE  PeerKept(u, PeerSend(w, x), x, q)
<1> DEFINE r == PeerSend(w, x)
<1>1. x \in Layer /\ {"lcp", "ipcp"} \subseteq Layer /\ (x = "ipcp" => w.p.up /\ "ipcp" \in Ncps)
  BY Names DEF PeerKept, PeerAlike, Runs
<1>2. /\ r \in V /\ PeerAlike(r, w) /\ Said(r, q) /\ \A y \in Layer : Pt(r, y) = Pt(w, y)
  BY <1>1, PeerSendSaid DEF PeerKept
<1> HIDE DEF r
<1> QED
  BY <1>1, <1>2 DEF PeerKept, PeerAlike, r

LEMMA PeerOutKept ==
  ASSUME NEW u, NEW w, NEW x \in NcpLayer, NEW q, PeerKept(u, w, x, q), Runs(u, x),
         NEW k \in FromPeer, k.layer = x, k.code \in {"Ack", "Nak"}
  PROVE  PeerKept(u, Out(w, k), x, q)
<1> DEFINE r == Out(w, k)
<1>1. k \in Packet /\ x # "lcp" /\ {"lcp", "ipcp"} \subseteq Layer
  BY Names DEF FromPeer
<1>2. k \in Reply(w.p.can, q, w.p.up)
  BY <1>1, PacketSets DEF Reply, PeerKept, PeerAlike, Runs
<1>3. /\ r \in V /\ PeerAlike(r, w) /\ Said(r, q) /\ \A y \in Layer : Pt(r, y) = Pt(w, y)
  BY <1>2, PeerOutSaid DEF PeerKept
<1> HIDE DEF r
<1> QED
  BY <1>1, <1>3 DEF PeerKept, PeerAlike, r

LEMMA PeerNcpMoved ==
  ASSUME NEW u \in V, u.out = <<>>, Peered(u), NEW q \in Packet, q.layer \in NcpLayer
  PROVE  /\ q.code = "Req" => PeerMoved(u, PeerReq(u, q), q)
         /\ PeerMoved(u, PeerAck(u, q.layer), q) /\ PeerMoved(u, PeerNak(u, q.layer), q)
<1> DEFINE x  == q.layer
           ok == q.auth \in u.p.can \cup {"none"}
           b  == IF u.p.can = {} THEN "none" ELSE CHOOSE a \in u.p.can : TRUE
           k  == [q EXCEPT !.code = IF ok THEN "Ack" ELSE "Nak", !.auth = IF ok THEN q.auth ELSE b]
           to == IF ok THEN "AckSent" ELSE "RequestSent"
           again == PeerState(PeerSend(u, x), x, to)
           t  == [u EXCEPT !.p.good = @ \cup {x}]
           n  == PeerSend(t, x)
<1>1. x \in Layer /\ x # "lcp" /\ {to, "Opened", "AckReceived", "RequestSent"} \subseteq Trying
  BY Names DEF Trying
<1>2. k \in FromPeer /\ k.layer = x /\ k.code \in {"Ack", "Nak"}
  <2>1. b \in Auth /\ q.auth \in Auth
    BY DEF V, PType, Auth, Packet
  <2> HIDE DEF b
  <2> QED
    BY <1>1, <2>1 DEF FromPeer, Packet, Layer
<1>3. /\ PeerReq(u, q) \in {PeerState(Out(u, k), x, to), PeerState(Out(u, k), x, "Opened"), Out(u, k), Out(again, k), u}
      /\ PeerAck(u, x) \in {PeerState(u, x, "AckReceived"), PeerState(PeerSend(u, x), x, "RequestSent"), PeerState(u, x, "Opened"), u}
      /\ PeerNak(u, x) \in {n, PeerState(n, x, "RequestSent"), t}
  <2>1. PeerReq(u, q) \in {PeerState(Out(u, k), x, to), PeerOpen(Out(u, k), x), Out(u, k), Out(PeerRestart(u, x, to), k), u}
    BY <1>1 DEF PeerReq
  <2>2. PeerOpen(Out(u, k), x) = PeerState(Out(u, k), x, "Opened") /\ PeerOpen(u, x) = PeerState(u, x, "Opened")
    BY <1>1 DEF PeerOpen
  <2>3. PeerRestart(u, x, to) = again /\ PeerRestart(u, x, "RequestSent") = PeerState(PeerSend(u, x), x, "RequestSent")
        /\ PeerRestart(t, x, "RequestSent") = PeerState(n, x, "RequestSent")
    BY <1>1 DEF PeerRestart
  <2>4. PeerAck(u, x) \in {PeerState(u, x, "AckReceived"), PeerState(PeerSend(u, x), x, "RequestSent"), PeerOpen(u, x),
                           PeerRestart(u, x, "RequestSent"), u}
    BY DEF PeerAck
  <2>5. PeerNak(u, x) \in {n, PeerState(n, x, "RequestSent"), PeerRestart(t, x, "RequestSent"), t}
    BY DEF PeerNak
  <2> HIDE DEF x, k, to, again, t, n
  <2> QED
    BY <2>1, <2>2, <2>3, <2>4, <2>5
<1>4. ~Runs(u, x) => PeerReq(u, q) = u /\ PeerAck(u, x) = u /\ PeerNak(u, x) = t
  <2>1. ~Runs(u, x) => Pt(u, x) = "Closed"
    BY DEF Runs, Peered
  <2> QED
    BY <2>1 DEF PeerReq, PeerAck, PeerNak, Pt
<1>5. t \in V /\ t.out = <<>> /\ t.p.st = u.p.st /\ PeerAlike(t, u) /\ PeerAlike(u, u)
  BY <1>1 DEF V, PType, PeerAlike
<1> HIDE DEF x, ok, b, k, to, t
<1>6. PeerMoved(u, t, q) /\ PeerMoved(u, u, q)
  BY <1>5, PeerStays
<1>7. CASE Runs(u, x)
  <2>1. PeerKept(u, u, x, q) /\ PeerKept(u, t, x, q) /\ x \in NcpLayer
    BY <1>5, SaidFresh DEF PeerKept, Pt, x
  <2>2. PeerKept(u, PeerSend(u, x), x, q) /\ PeerKept(u, n, x, q) /\ PeerKept(u, Out(u, k), x, q)
    BY <1>2, <1>7, <2>1, PeerSendKept, PeerOutKept
  <2> HIDE DEF n
  <2>3. /\ PeerKept(u, again, x, q) /\ PeerKept(u, PeerState(Out(u, k), x, to), x, q)
        /\ PeerKept(u, PeerState(Out(u, k), x, "Opened"), x, q)
        /\ PeerKept(u, PeerState(u, x, "AckReceived"), x, q) /\ PeerKept(u, PeerState(u, x, "Opened"), x, q)
        /\ PeerKept(u, PeerState(PeerSend(u, x), x, "RequestSent"), x, q) /\ PeerKept(u, PeerState(n, x, "RequestSent"), x, q)
    BY <1>1, <2>1, <2>2, PeerStateKept
  <2> HIDE DEF again
  <2>4. PeerKept(u, Out(again, k), x, q)
    BY <1>2, <1>7, <2>1, <2>3, PeerOutKept
  <2>5. PeerKept(u, PeerReq(u, q), x, q) /\ PeerKept(u, PeerAck(u, x), x, q) /\ PeerKept(u, PeerNak(u, x), x, q)
    BY <1>3, <2>1, <2>2, <2>3, <2>4
  <2> QED
    BY <1>7, <2>5, KeptPeerMoved DEF x
<1>8. CASE ~Runs(u, x)
  BY <1>4, <1>6, <1>8 DEF x
<1> QED
  BY <1>7, <1>8

LEMMA PeerAuthMoved ==
  ASSUME NEW u \in V, u.out = <<>>, Peered(u), NEW q \in Packet, q.layer = "auth"
  PROVE  PeerMoved(u, PeerAuthentic(u, q), q)
<1> DEFINE k == [q EXCEPT !.code = "Response"]
           v == PeerAuthentic(u, q)
<1>1. k \in FromPeer /\ k \in Packet /\ k.layer = "auth" /\ k.code = "Response"
  BY DEF FromPeer, Packet
<1>2. Said(u, q) /\ {"lcp", "ipcp"} \subseteq Layer
  BY SaidFresh, Names
<1>3. v \in {u, Out(u, k)} \/ (v = PeerUp(u) /\ ~u.p.up /\ Pt(u, "lcp") = "Opened" /\ q \in Grants)
  BY PacketSets DEF PeerAuthentic, Pt
<1> HIDE DEF k, v
<1>4. CASE v = u
  BY <1>4, PeerStays DEF PeerAlike, v
<1>5. CASE v = Out(u, k)
  <2>1. k \in Reply(u.p.can, q, u.p.up)
    BY <1>1, ReplyIs
  <2>2. v \in V /\ PeerAlike(v, u) /\ Said(v, q) /\ \A y \in Layer : Pt(v, y) = Pt(u, y)
    BY <1>1, <1>2, <1>5, <2>1, PeerOutSaid
  <2>3. PeerKept(u, v, "lcp", q)
    BY <1>2, <2>2 DEF PeerKept
  <2> QED
    BY <2>3, KeptPeerMoved DEF Runs, v
<1>6. CASE v = PeerUp(u) /\ ~u.p.up /\ Pt(u, "lcp") = "Opened" /\ q \in Grants
  <2>1. /\ v \in V /\ Said(v, q) /\ v.p.up /\ v.p.can = u.p.can /\ v.p.closed = u.p.closed
        /\ Pt(v, "lcp") = "Opened" /\ Pt(v, "ipcp") = IF "ipcp" \in Ncps THEN "RequestSent" ELSE Pt(u, "ipcp")
    BY <1>2, <1>6, PeerUpSaid
  <2>2. Pt(u, "ipcp") = "Closed"
    BY <1>6 DEF Peered
  <2>3. Peered(v)
    BY <2>1, <2>2 DEF Peered, Trying
  <2> QED
    BY <1>6, <2>1, <2>3 DEF PeerMoved, v
<1> QED
  BY <1>3, <1>4, <1>5, <1>6

LEMMA PeerProcessMoved ==
  ASSUME NEW u \in V, u.out = <<>>, Peered(u), NEW q \in Packet
  PROVE  PeerMoved(u, PeerProcess(u, q), q)
<1>1. PeerMoved(u, u, q)
  BY PeerStays DEF PeerAlike
<1>2. CASE q.layer = "auth"
  BY <1>2, PeerAuthMoved, LayersKnown DEF PeerProcess, Layer
<1>3. CASE q.layer = "lcp"
  <2>1. /\ q.code = "Req" => PeerProcess(u, q) = PeerReq(u, q)
        /\ q.code = "Ack" /\ q.last => PeerProcess(u, q) = PeerAck(u, "lcp")
        /\ q.code = "Nak" /\ q.last => PeerProcess(u, q) = PeerNak(u, "lcp")
        /\ q.code # "Req" /\ ~(q.code \in {"Ack", "Nak"} /\ q.last) => PeerProcess(u, q) = u
    BY <1>3, LayersKnown DEF PeerProcess, Layer
  <2>2. /\ q.code = "Req" => q \in Reqs
        /\ q.code = "Ack" /\ q.last => q \in LastAnswers
    BY <1>3, PacketSets
  <2> QED
    BY <1>1, <2>1, <2>2, PeerReqMoved, PeerAckMoved, PeerNakMoved
<1>4. CASE q.layer \in NcpLayer
  <2>1. q.layer # "auth" /\ q.layer \in Layer
    BY <1>4, Names DEF NcpLayer
  <2>2. \/ PeerProcess(u, q) \in {u, PeerAck(u, q.layer), PeerNak(u, q.layer)}
        \/ PeerProcess(u, q) = PeerReq(u, q) /\ q.code = "Req"
    <3>1. CASE q.layer \in Ncps \cup {"lcp"}
      BY <2>1, <3>1 DEF PeerProcess
    <3>2. CASE q.layer \notin Ncps \cup {"lcp"}
      BY <2>1, <3>2 DEF PeerProcess
    <3> QED
      BY <3>1, <3>2
  <2> QED
    BY <1>1, <1>4, <2>2, PeerNcpMoved
<1> QED
  BY <1>2, <1>3, <1>4, Names DEF Packet

\* The peer's own timers.
LEMMA PeerTimeoutMoved ==
  ASSUME NEW u \in V, u.out = <<>>, Peered(u), NEW x \in Layer, Pt(u, x) \in Running
  PROVE  PeerMoved(u, PeerState(PeerSend(u, x), x, IF Pt(u, x) = "AckSent" THEN "AckSent" ELSE "RequestSent"), Idle)
<1> DEFINE new == IF Pt(u, x) = "AckSent" THEN "AckSent" ELSE "RequestSent"
           s == PeerSend(u, x)
           v == PeerState(s, x, new)
<1>1. Said(u, Idle) /\ {"lcp", "ipcp"} \subseteq Layer /\ new \in State \cup {"Closed"} /\ new \in Begun
  BY SaidFresh, Names DEF Begun
<1>2. Runs(u, x) /\ (x = "lcp" => ~u.p.up /\ Pt(u, "ipcp") = "Closed")
  BY DEF Runs, Peered, Running
<1>3. s \in V /\ PeerAlike(s, u) /\ Said(s, Idle) /\ (\A y \in Layer : Pt(s, y) = Pt(u, y)) /\ (x = "lcp" => ~Absent(s.out, Reqs))
  BY <1>1, <1>2, PeerSendSaid DEF Runs
<1>4. Pt(u, "lcp") = "AckSent" \/ new = "RequestSent" \/ x # "lcp"
  OBVIOUS
<1> HIDE DEF s, new
<1>5. v \in V /\ PeerAlike(v, s) /\ Said(v, Idle) /\ v.out = s.out /\ Pt(v, x) = new /\ \A y \in Layer : y # x => Pt(v, y) = Pt(s, y)
  BY <1>1, <1>3, PeerStateSaid
<1> HIDE DEF v
<1>6. CASE x = "lcp"
  <2>1. Pt(v, "lcp") = new /\ Pt(v, "ipcp") = "Closed" /\ ~v.p.up /\ v.p.auth = u.p.auth /\ v.p.can = u.p.can /\ v.p.closed = u.p.closed
        /\ ~Absent(v.out, Reqs)
    BY <1>1, <1>2, <1>3, <1>5, <1>6 DEF PeerAlike
  <2>2. Peered(v) /\ Again(v) /\ (Unsigned(u) => Unsigned(v))
    BY <1>1, <1>4, <1>6, <2>1 DEF Peered, Again, Unsigned, Begun, Trying
  <2>3. PeerMoved(u, v, Idle)
    BY <1>5, <2>1, <2>2 DEF PeerMoved
  <2> QED
    BY <2>3 DEF v, s, new
<1>7. CASE x # "lcp"
  <2>1. PeerKept(u, v, x, Idle)
    BY <1>1, <1>3, <1>5, <1>7 DEF PeerKept, PeerAlike, Trying, Begun
  <2>2. PeerMoved(u, v, Idle)
    BY <1>2, <2>1, KeptPeerMoved
  <2> QED
    BY <2>2 DEF v, s, new
<1> QED
  BY <1>6, <1>7

LEMMA PapMoved ==
  ASSUME NEW u \in V, u.out = <<>>, Peered(u)
  PROVE  PeerMoved(u, Out(u, Pkt("auth", "Pap")), Idle)
<1> DEFINE k == Pkt("auth", "Pap")
           v == Out(u, k)
<1>1. k \in FromPeer /\ k \in Packet /\ k.layer = "auth" /\ k.code = "Pap"
  BY PktOk DEF FromPeer
<1> HIDE DEF k
<1>2. Said(u, Idle) /\ k \in Reply(u.p.can, Idle, u.p.up) /\ {"lcp", "ipcp"} \subseteq Layer
  BY <1>1, SaidFresh, ReplyIs, Names
<1>3. v \in V /\ PeerAlike(v, u) /\ Said(v, Idle) /\ \A y \in Layer : Pt(v, y) = Pt(u, y)
  BY <1>1, <1>2, PeerOutSaid
<1> HIDE DEF v
<1>4. PeerKept(u, v, "lcp", Idle)
  BY <1>2, <1>3 DEF PeerKept
<1>5. PeerMoved(u, v, Idle)
  BY <1>4, KeptPeerMoved DEF Runs
<1> QED
  BY <1>5 DEF v, k

-----------------------------------------------------------------------------
(* The two ends joined: w here, u there, a on its way here and b there. *)

Ungranted(u, a, b) ==
  Unsigned(u) /\ Absent(b, Without(Reqs)) /\ Absent(b, Grants) /\ Absent(a, Without(Acks))

\* The peer can authenticate itself the way it is asked to.
Settled(w, u, b) == w.l.authtype \in Granting(u.p.can) /\ Absent(b, Beyond(Reqs, u.p.can))

Agreement(w, u, a, b) ==
  /\ NoneAfter(b, Within(Reqs, u.p.can), Beyond(Reqs, u.p.can))
  /\ Absent(b, Within(Reqs, u.p.can)) \/ w.l.authtype \in Granting(u.p.can)
  /\ NoneAfter(a, Acks, Naks)
  /\ Absent(a, Acks) \/ Settled(w, u, b)
  /\ Was(w) => Settled(w, u, b) /\ Absent(a, Naks)
  /\ Absent(a, Beyond(Acks \cup Naks, u.p.can))

\* The last request of the peer has not been answered.
NoAnswer(u, a, b) == Pt(u, "lcp") \in Begun /\ Absent(b, LastAnswers) /\ NoneAfter(a, LastReqs, Ipcp)

\* IPCP has nothing under way to act on.
Done(w, a) == Absent(a, Ipcp) /\ At(w, "ipcp") \in Early

Joined(w, u, a, b) ==
  /\ Linked(w) /\ Peered(u)
  /\ w.l.ip \/ Ungranted(u, a, b)
  /\ Agreement(w, u, a, b)
  /\ "ipcp" \notin Ncps => Done(w, a)
  /\ ~u.p.up => NoAnswer(u, a, b) \/ Done(w, a)

\* q is taken from s, or nothing is and q is idle.
Leaves(s, q, in) == (s # <<>> /\ q = Head(s) /\ in = Tail(s)) \/ (q = Idle /\ in = s)

LEMMA LeavesKeep ==
  ASSUME NEW s \in Seq(Packet), NEW q, NEW in, Leaves(s, q, in), NEW A, NEW B, Idle \notin A
  PROVE  /\ in \in Seq(Packet) /\ q \in Packet
         /\ Absent(s, A) => Absent(in, A) /\ q \notin A
         /\ NoneAfter(s, A, B) => NoneAfter(in, A, B) /\ (q \in A => Absent(in, B))
<1>1. CASE s # <<>> /\ q = Head(s) /\ in = Tail(s)
  BY <1>1, TailKeeps
<1>2. CASE q = Idle /\ in = s
  BY <1>2, IdleIs
<1> QED
  BY <1>1, <1>2 DEF Leaves

\* This end takes q, which leaves a to be received in part, and sends v.out.
LEMMA LinkStep ==
  ASSUME NEW w, NEW u, NEW a \in Seq(Packet), NEW b \in Seq(Packet), Joined(w, u, a, b),
         NEW q, NEW in, Leaves(a, q, in), NEW v, Sound(v), Moved(w, v, q), ~v.l.die,
         NEW a1, Aged(in, a1), NEW b1, Aged(b, b1)
  PROVE  Joined(v, u, a1, b1 \o v.out)
<1> DEFINE can == u.p.can
           out == v.out
           y == b1 \o out
           S == Fit(v.l.authtype, v.l.ip, q \in LastReqs)
<1>1. in \in Seq(Packet) /\ q \in Packet /\ out \in Seq(S) /\ out \in Seq(Packet)
  <2>1. in \in Seq(Packet) /\ q \in Packet
    BY LeavesKeep, IdleIs
  <2>2. out \in Seq(Packet)
    BY DEF Sound, W
  <2>3. out \in Seq(S)
    BY DEF Moved, Fits
  <2> QED
    BY <2>1, <2>2, <2>3
<1>2. /\ Linked(v) /\ (w.l.ip => v.l.ip)
      /\ v.l.authtype = w.l.authtype \/ (q \in Acks \cup Naks /\ v.l.authtype = q.auth) \/ (v.l.authtype = "none" /\ v.l.ip)
      /\ Was(v) => Was(w) \/ q \in Acks
      /\ q \in Reqs => At(v, "ipcp") \in Early
      /\ At(w, "ipcp") \in Early /\ q \notin Ipcp => At(v, "ipcp") \in Early
  BY DEF Moved
<1>3. /\ Linked(w) /\ Peered(u) /\ (w.l.ip \/ Ungranted(u, a, b)) /\ Agreement(w, u, a, b)
      /\ "ipcp" \notin Ncps => Done(w, a)
      /\ ~u.p.up => NoAnswer(u, a, b) \/ Done(w, a)
  BY DEF Joined
<1> HIDE DEF out, y, can
<1>4. \A A, B : Steady(A) /\ Steady(B) /\ Idle \notin A =>
          /\ Absent(a, A) => Absent(a1, A) /\ q \notin A
          /\ NoneAfter(a, A, B) => NoneAfter(a1, A, B) /\ (q \in A => Absent(a1, B))
  <2> TAKE A, B
  <2> HAVE Steady(A) /\ Steady(B) /\ Idle \notin A
  <2>1. /\ Absent(a, A) => Absent(in, A) /\ q \notin A
        /\ NoneAfter(a, A, B) => NoneAfter(in, A, B) /\ (q \in A => Absent(in, B))
    BY LeavesKeep
  <2>2. /\ Absent(in, A) => Absent(a1, A)
        /\ Absent(in, B) => Absent(a1, B)
        /\ NoneAfter(in, A, B) => NoneAfter(a1, A, B)
    BY <1>1, AgedKeeps
  <2> QED
    BY <2>1, <2>2
<1>5. \A A, B : Steady(A) /\ Steady(B) =>
          /\ Absent(b, A) /\ S \cap A = {} => Absent(y, A)
          /\ NoneAfter(b, A, B) /\ (S \cap A = {} \/ S \cap B = {}) /\ (Absent(b, A) \/ S \cap B = {}) => NoneAfter(y, A, B)
  <2> TAKE A, B
  <2> HAVE Steady(A) /\ Steady(B)
  <2>1. (S \cap A = {} => Absent(out, A)) /\ (S \cap B = {} => Absent(out, B))
    BY <1>1, AbsentIn
  <2>2. (S \cap A = {} \/ S \cap B = {}) => NoneAfter(out, A, B)
    BY <2>1, NoneAfterIn
  <2>3. /\ Absent(b, A) /\ Absent(out, A) => Absent(b1 \o out, A)
        /\ NoneAfter(b, A, B) /\ NoneAfter(out, A, B) /\ (Absent(b, A) \/ Absent(out, B)) => NoneAfter(b1 \o out, A, B)
    BY <1>1, FlowKeeps
  <2> QED
    BY <2>1, <2>2, <2>3 DEF y
<1>6. /\ Steady(Reqs) /\ Steady(Acks) /\ Steady(Naks) /\ Steady(Ipcp) /\ Steady(Grants)
      /\ Steady(LastReqs) /\ Steady(LastAnswers) /\ Steady(Without(Reqs)) /\ Steady(Without(Acks))
      /\ Steady(Within(Reqs, can)) /\ Steady(Beyond(Reqs, can)) /\ Steady(Beyond(Acks \cup Naks, can))
  BY SteadySets
<1>7. /\ Idle \notin Acks /\ Idle \notin Naks /\ Idle \notin Ipcp /\ Idle \notin LastReqs /\ Idle \notin Without(Acks)
      /\ Idle \notin Beyond(Acks \cup Naks, can)
  BY IdleIs DEF Without, Beyond
<1> DEFINE G == Granting(can)
<1>8. /\ \A k \in S \cap Reqs : k.auth = v.l.authtype
      /\ v.l.authtype \in G => S \cap Beyond(Reqs, can) = {}
      /\ v.l.authtype \notin G => S \cap Within(Reqs, can) = {}
      /\ v.l.authtype # "none" => S \cap Without(Reqs) = {}
      /\ ~v.l.ip => S \cap Grants = {}
      /\ q \notin LastReqs => S \cap LastAnswers = {}
  BY DEF Fit, Beyond, Within, Without
<1>9. "none" \in G
  BY DEF Granting
<1> HIDE DEF S, G
<1>10. /\ NoneAfter(b, Within(Reqs, can), Beyond(Reqs, can))
       /\ Absent(b, Within(Reqs, can)) \/ w.l.authtype \in G
       /\ NoneAfter(a, Acks, Naks)
       /\ Absent(a, Acks) \/ Settled(w, u, b)
       /\ Was(w) => Settled(w, u, b) /\ Absent(a, Naks)
       /\ Absent(a, Beyond(Acks \cup Naks, can))
  BY <1>3 DEF Agreement, can, G
\* What is asked for is what was, or what the peer has named.
<1>11. v.l.authtype = w.l.authtype \/ v.l.authtype \in G
  <2>1. q \notin Beyond(Acks \cup Naks, can)
    BY <1>4, <1>6, <1>7, <1>10
  <2>2. q \in Acks \cup Naks => q.auth \in G
    BY <2>1 DEF Beyond, G
  <2> QED
    BY <1>2, <1>9, <2>2
<1>12. Settled(w, u, b) => Settled(v, u, y)
  <2> SUFFICES ASSUME Settled(w, u, b) PROVE Settled(v, u, y)
    OBVIOUS
  <2>1. w.l.authtype \in G /\ Absent(b, Beyond(Reqs, can))
    BY DEF Settled, G, can
  <2>2. v.l.authtype \in G
    BY <1>11, <2>1
  <2>3. Absent(y, Beyond(Reqs, can))
    BY <1>5, <1>6, <1>8, <2>1, <2>2
  <2> QED
    BY <2>2, <2>3 DEF Settled, G, can
<1>13. Agreement(v, u, a1, y)
  <2>1. /\ NoneAfter(y, Within(Reqs, can), Beyond(Reqs, can))
        /\ Absent(y, Within(Reqs, can)) \/ v.l.authtype \in G
    <3>1. CASE v.l.authtype \in G
      BY <1>5, <1>6, <1>8, <1>10, <3>1
    <3>2. CASE v.l.authtype \notin G
      <4>1. Absent(b, Within(Reqs, can)) /\ S \cap Within(Reqs, can) = {}
        BY <1>8, <1>10, <1>11, <3>2
      <4> QED
        BY <1>5, <1>6, <1>10, <4>1
    <3> QED
      BY <3>1, <3>2
  <2>2. NoneAfter(a1, Acks, Naks) /\ Absent(a1, Beyond(Acks \cup Naks, can))
    BY <1>4, <1>6, <1>7, <1>10
  <2>3. Absent(a1, Acks) \/ Settled(v, u, y)
    BY <1>4, <1>6, <1>7, <1>10, <1>12
  <2>4. Was(v) => Settled(v, u, y) /\ Absent(a1, Naks)
    <3>1. CASE Was(w)
      BY <1>4, <1>6, <1>7, <1>10, <1>12, <3>1
    <3>2. CASE q \in Acks
      <4>1. ~Absent(a, Acks) /\ Absent(a1, Naks)
        BY <1>4, <1>6, <1>7, <1>10, <3>2
      <4> QED
        BY <1>10, <1>12, <4>1
    <3> QED
      BY <1>2, <3>1, <3>2
  <2> QED
    BY <2>1, <2>2, <2>3, <2>4 DEF Agreement, can, G
<1>14. v.l.ip \/ Ungranted(u, a1, y)
  <2> SUFFICES ASSUME ~v.l.ip PROVE Ungranted(u, a1, y)
    OBVIOUS
  <2>1. Unsigned(u) /\ Absent(b, Without(Reqs)) /\ Absent(b, Grants) /\ Absent(a, Without(Acks))
    BY <1>2, <1>3 DEF Ungranted
  <2>2. v.l.authtype # "none"
    BY DEF Sound, Granted
  <2>3. Absent(y, Without(Reqs)) /\ Absent(y, Grants) /\ Absent(a1, Without(Acks))
    BY <1>4, <1>5, <1>6, <1>7, <1>8, <2>1, <2>2
  <2> QED
    BY <2>1, <2>3 DEF Ungranted
<1>15. Done(w, a) => Done(v, a1)
  <2> SUFFICES ASSUME Done(w, a) PROVE Done(v, a1)
    OBVIOUS
  <2>1. Absent(a, Ipcp) /\ At(w, "ipcp") \in Early
    BY DEF Done
  <2>2. Absent(a1, Ipcp) /\ q \notin Ipcp
    BY <1>4, <1>6, <1>7, <2>1
  <2> QED
    BY <1>2, <2>1, <2>2 DEF Done
<1>16. NoAnswer(u, a, b) => NoAnswer(u, a1, y) \/ Done(v, a1)
  <2> SUFFICES ASSUME NoAnswer(u, a, b) PROVE NoAnswer(u, a1, y) \/ Done(v, a1)
    OBVIOUS
  <2>1. Pt(u, "lcp") \in Begun /\ Absent(b, LastAnswers) /\ NoneAfter(a, LastReqs, Ipcp)
    BY DEF NoAnswer
  <2>2. NoneAfter(a1, LastReqs, Ipcp) /\ (q \in LastReqs => Absent(a1, Ipcp))
    BY <1>4, <1>6, <1>7, <2>1
  <2>3. CASE q \in LastReqs
    BY <1>2, <2>2, <2>3 DEF Done, LastReqs
  <2>4. CASE q \notin LastReqs
    <3>1. Absent(y, LastAnswers)
      BY <1>5, <1>6, <1>8, <2>1, <2>4
    <3> QED
      BY <2>1, <2>2, <3>1 DEF NoAnswer
  <2> QED
    BY <2>3, <2>4
<1>17. Joined(v, u, a1, y)
  BY <1>2, <1>3, <1>13, <1>14, <1>15, <1>16 DEF Joined
<1> QED
  BY <1>17 DEF y, out

\* The peer takes q, which leaves b to be received in part, and sends v.out.
LEMMA PeerSideStep ==
  ASSUME NEW w, NEW u, NEW a \in Seq(Packet), NEW b \in Seq(Packet), Joined(w, u, a, b),
         NEW q, NEW in, Leaves(b, q, in), NEW v \in V, PeerMoved(u, v, q),
         NEW a1, Aged(a, a1), NEW b1, Aged(in, b1),
         ~Absent(v.out, Reqs) => Absent(b1, LastAnswers) /\ Absent(a1, LastReqs)
  PROVE  Joined(w, v, a1 \o v.out, b1)
<1> DEFINE can == u.p.can
           out == v.out
           y == a1 \o out
           S == Reply(can, q, v.p.up)
           G == Granting(can)
<1>1. in \in Seq(Packet) /\ q \in Packet /\ out \in Seq(S) /\ out \in Seq(Packet)
  <2>1. in \in Seq(Packet) /\ q \in Packet
    BY LeavesKeep, IdleIs
  <2>2. out \in Seq(S)
    BY DEF PeerMoved, Said
  <2>3. S \subseteq Packet
    BY DEF Reply
  <2> HIDE DEF S, out
  <2>4. out \in Seq(Packet)
    BY <2>2, <2>3, SeqMonotonic
  <2> QED
    BY <2>1, <2>2, <2>4
<1>2. /\ v.p.can = can /\ Peered(v)
      /\ Unsigned(u) /\ q \notin Without(Reqs) \cup Grants => Unsigned(v)
      /\ Again(v) \/ v.p.up \/ (~u.p.up /\ (Pt(u, "lcp") \in Begun /\ q \notin LastAnswers => Pt(v, "lcp") \in Begun))
  BY DEF PeerMoved
<1>3. /\ Linked(w) /\ (w.l.ip \/ Ungranted(u, a, b)) /\ Agreement(w, u, a, b)
      /\ "ipcp" \notin Ncps => Done(w, a)
      /\ ~u.p.up => NoAnswer(u, a, b) \/ Done(w, a)
  BY DEF Joined
<1>4. Again(v) => Pt(v, "lcp") \in Begun /\ Absent(b1, LastAnswers) /\ Absent(a1, LastReqs)
  BY DEF Again
<1>5. /\ q \notin Within(Reqs, can) => S \cap Acks = {}
      /\ q \notin Beyond(Reqs, can) => S \cap Naks = {}
      /\ S \cap Beyond(Acks \cup Naks, can) = {}
      /\ q \notin Without(Reqs) => S \cap Without(Acks) = {}
      /\ ~v.p.up \/ "ipcp" \notin Ncps => S \cap Ipcp = {}
      /\ q \notin Within(Reqs, can) \/ q \notin Beyond(Reqs, can)
  BY DEF Reply, Within, Beyond, Without
<1> HIDE DEF out, y, can, S, G
<1>6. \A A, B : Steady(A) /\ Steady(B) /\ Idle \notin A =>
          /\ Absent(b, A) => Absent(b1, A) /\ q \notin A
          /\ NoneAfter(b, A, B) => NoneAfter(b1, A, B) /\ (q \in A => Absent(b1, B))
  <2> TAKE A, B
  <2> HAVE Steady(A) /\ Steady(B) /\ Idle \notin A
  <2>1. /\ Absent(b, A) => Absent(in, A) /\ q \notin A
        /\ NoneAfter(b, A, B) => NoneAfter(in, A, B) /\ (q \in A => Absent(in, B))
    BY LeavesKeep
  <2>2. /\ Absent(in, A) => Absent(b1, A)
        /\ Absent(in, B) => Absent(b1, B)
        /\ NoneAfter(in, A, B) => NoneAfter(b1, A, B)
    BY <1>1, AgedKeeps
  <2> QED
    BY <2>1, <2>2
<1>7. \A A, B : Steady(A) /\ Steady(B) =>
          /\ Absent(a, A) /\ S \cap A = {} => Absent(y, A)
          /\ NoneAfter(a, A, B) /\ (S \cap A = {} \/ S \cap B = {}) /\ (Absent(a, A) \/ S \cap B = {}) => NoneAfter(y, A, B)
  <2> TAKE A, B
  <2> HAVE Steady(A) /\ Steady(B)
  <2>1. (S \cap A = {} => Absent(out, A)) /\ (S \cap B = {} => Absent(out, B))
    BY <1>1, AbsentIn
  <2>2. (S \cap A = {} \/ S \cap B = {}) => NoneAfter(out, A, B)
    BY <2>1, NoneAfterIn
  <2>3. /\ Absent(a, A) /\ Absent(out, A) => Absent(a1 \o out, A)
        /\ NoneAfter(a, A, B) /\ NoneAfter(out, A, B) /\ (Absent(a, A) \/ Absent(out, B)) => NoneAfter(a1 \o out, A, B)
    BY <1>1, FlowKeeps
  <2> QED
    BY <2>1, <2>2, <2>3 DEF y
<1>8. /\ Steady(Reqs) /\ Steady(Acks) /\ Steady(Naks) /\ Steady(Ipcp) /\ Steady(Grants)
      /\ Steady(LastReqs) /\ Steady(LastAnswers) /\ Steady(Without(Reqs)) /\ Steady(Without(Acks))
      /\ Steady(Within(Reqs, can)) /\ Steady(Beyond(Reqs, can)) /\ Steady(Beyond(Acks \cup Naks, can))
  BY SteadySets
<1>9. /\ Idle \notin Grants /\ Idle \notin LastAnswers /\ Idle \notin Without(Reqs)
      /\ Idle \notin Within(Reqs, can) /\ Idle \notin Beyond(Reqs, can)
  BY IdleIs DEF Without, Beyond, Within, LastAnswers
<1>10. /\ NoneAfter(b, Within(Reqs, can), Beyond(Reqs, can))
       /\ Absent(b, Within(Reqs, can)) \/ w.l.authtype \in G
       /\ NoneAfter(a, Acks, Naks)
       /\ Absent(a, Acks) \/ Settled(w, u, b)
       /\ Was(w) => Settled(w, u, b) /\ Absent(a, Naks)
       /\ Absent(a, Beyond(Acks \cup Naks, can))
  BY <1>3 DEF Agreement, can, G
<1>11. Settled(w, u, b) => Settled(w, v, b1) /\ S \cap Naks = {}
  <2> SUFFICES ASSUME Settled(w, u, b) PROVE Settled(w, v, b1) /\ S \cap Naks = {}
    OBVIOUS
  <2>1. w.l.authtype \in G /\ Absent(b, Beyond(Reqs, can))
    BY DEF Settled, G, can
  <2>2. Absent(b1, Beyond(Reqs, can)) /\ q \notin Beyond(Reqs, can)
    BY <1>6, <1>8, <1>9, <2>1
  <2> QED
    BY <1>2, <1>5, <2>1, <2>2 DEF Settled, G
<1>12. Agreement(w, v, y, b1)
  <2>1. /\ NoneAfter(b1, Within(Reqs, can), Beyond(Reqs, can))
        /\ Absent(b1, Within(Reqs, can)) \/ w.l.authtype \in G
    BY <1>6, <1>8, <1>9, <1>10
  <2>2. NoneAfter(y, Acks, Naks)
    <3>1. Absent(a, Acks) \/ S \cap Naks = {}
      BY <1>10, <1>11
    <3>2. S \cap Acks = {} \/ S \cap Naks = {}
      BY <1>5
    <3> QED
      BY <1>7, <1>8, <1>10, <3>1, <3>2
  <2>3. Absent(y, Acks) \/ Settled(w, v, b1)
    <3>1. CASE q \in Within(Reqs, can)
      <4>1. w.l.authtype \in G /\ Absent(b1, Beyond(Reqs, can))
        BY <1>6, <1>8, <1>9, <1>10, <3>1
      <4> QED
        BY <1>2, <4>1 DEF Settled, G
    <3>2. CASE q \notin Within(Reqs, can)
      BY <1>5, <1>7, <1>8, <1>10, <1>11, <3>2
    <3> QED
      BY <3>1, <3>2
  <2>4. Was(w) => Settled(w, v, b1) /\ Absent(y, Naks)
    BY <1>7, <1>8, <1>10, <1>11
  <2>5. Absent(y, Beyond(Acks \cup Naks, can))
    BY <1>5, <1>7, <1>8, <1>10
  <2> QED
    BY <1>2, <2>1, <2>2, <2>3, <2>4, <2>5 DEF Agreement, G
<1>13. w.l.ip \/ Ungranted(v, y, b1)
  <2> SUFFICES ASSUME ~w.l.ip PROVE Ungranted(v, y, b1)
    OBVIOUS
  <2>1. Unsigned(u) /\ Absent(b, Without(Reqs)) /\ Absent(b, Grants) /\ Absent(a, Without(Acks))
    BY <1>3 DEF Ungranted
  <2>2. /\ Absent(b1, Without(Reqs)) /\ Absent(b1, Grants) /\ q \notin Without(Reqs) /\ q \notin Grants
    BY <1>6, <1>8, <1>9, <2>1
  <2>3. Unsigned(v) /\ Absent(y, Without(Acks))
    BY <1>2, <1>5, <1>7, <1>8, <2>1, <2>2
  <2> QED
    BY <2>2, <2>3 DEF Ungranted
<1>14. Done(w, a) /\ S \cap Ipcp = {} => Done(w, y)
  BY <1>7, <1>8 DEF Done
<1>15. ASSUME ~v.p.up
       PROVE  NoAnswer(v, y, b1) \/ Done(w, y)
  <2>0. S \cap Ipcp = {}
    BY <1>5, <1>15
  <2>1. CASE Again(v)
    <3>1. Absent(out, Ipcp)
      BY <1>1, <2>0, AbsentIn
    <3>2. NoneAfter(out, LastReqs, Ipcp) /\ NoneAfter(a1, LastReqs, Ipcp)
      BY <1>4, <2>1, <3>1, NoneAfterIn
    <3>3. a1 \in Seq(Packet)
      BY <1>8, AgedKeeps
    <3>4. NoneAfter(a1 \o out, LastReqs, Ipcp)
      BY <1>1, <1>4, <2>1, <3>1, <3>2, <3>3, AddKeeps
    <3> QED
      BY <1>4, <2>1, <3>4 DEF NoAnswer, y
  <2>2. CASE ~u.p.up /\ (Pt(u, "lcp") \in Begun /\ q \notin LastAnswers => Pt(v, "lcp") \in Begun)
    <3>1. CASE Done(w, a)
      BY <1>14, <2>0, <3>1
    <3>2. CASE NoAnswer(u, a, b)
      <4>1. Pt(u, "lcp") \in Begun /\ Absent(b, LastAnswers) /\ NoneAfter(a, LastReqs, Ipcp)
        BY <3>2 DEF NoAnswer
      <4>2. Absent(b1, LastAnswers) /\ q \notin LastAnswers
        BY <1>6, <1>8, <1>9, <4>1
      <4>3. NoneAfter(y, LastReqs, Ipcp)
        BY <1>7, <1>8, <2>0, <4>1
      <4> QED
        BY <2>2, <4>1, <4>2, <4>3 DEF NoAnswer
    <3> QED
      BY <1>3, <2>2, <3>1, <3>2
  <2> QED
    BY <1>2, <1>15, <2>1, <2>2
<1>16. "ipcp" \notin Ncps => Done(w, y)
  BY <1>3, <1>5, <1>14
<1>17. Joined(w, v, y, b1)
  BY <1>2, <1>3, <1>12, <1>13, <1>15, <1>16 DEF Joined
<1> QED
  BY <1>17 DEF y, out

\* A packet is lost.
LEMMA LoseStep ==
  ASSUME NEW w, NEW u, NEW a \in Seq(Packet), NEW b \in Seq(Packet), Joined(w, u, a, b),
         NEW a1, NEW b1, \/ a # <<>> /\ a1 = Tail(a) /\ b1 = b
                         \/ b # <<>> /\ b1 = Tail(b) /\ a1 = a
  PROVE  Joined(w, u, a1, b1)
<1>1. \A A, B : /\ Absent(a, A) => Absent(a1, A)
                /\ Absent(b, A) => Absent(b1, A)
                /\ NoneAfter(a, A, B) => NoneAfter(a1, A, B)
                /\ NoneAfter(b, A, B) => NoneAfter(b1, A, B)
  <2> TAKE A, B
  <2>1. CASE a # <<>> /\ a1 = Tail(a) /\ b1 = b
    BY <2>1, TailKeeps
  <2>2. CASE b # <<>> /\ b1 = Tail(b) /\ a1 = a
    BY <2>2, TailKeeps
  <2> QED
    BY <2>1, <2>2
<1>2. Settled(w, u, b) => Settled(w, u, b1)
  BY <1>1 DEF Settled
<1>3. Agreement(w, u, a1, b1)
  BY <1>1, <1>2 DEF Joined, Agreement
<1>4. w.l.ip \/ Ungranted(u, a1, b1)
  BY <1>1 DEF Joined, Ungranted
<1>5. (Done(w, a) => Done(w, a1)) /\ (NoAnswer(u, a, b) => NoAnswer(u, a1, b1))
  BY <1>1 DEF Done, NoAnswer
<1> QED
  BY <1>3, <1>4, <1>5 DEF Joined

-----------------------------------------------------------------------------
(* The steps again. *)

Agreed == l.die \/ p.closed \/ (Absent(toL, Terms) /\ Joined(Here, There, toL, toP))

LEMMA JoinedSame ==
  ASSUME NEW w, NEW v, w.l = v.l, NEW u, NEW t, u.p = t.p, NEW a, NEW b, Joined(w, u, a, b)
  PROVE  Joined(v, t, a, b)
<1>1. Linked(v) /\ (Was(v) => Was(w))
  BY DEF Joined, Linked, Was, At
<1>2. Peered(t) /\ (Unsigned(u) => Unsigned(t))
  BY DEF Joined, Peered, Unsigned, Pt
<1>3. Agreement(v, t, a, b)
  BY <1>1 DEF Joined, Agreement, Settled
<1>4. v.l.ip \/ Ungranted(t, a, b)
  BY <1>2 DEF Joined, Ungranted
<1>5. (Done(w, a) => Done(v, a)) /\ (NoAnswer(u, a, b) => NoAnswer(t, a, b))
  BY DEF Done, NoAnswer, At, Pt
<1> QED
  BY <1>1, <1>2, <1>3, <1>4, <1>5 DEF Joined

LEMMA StepFlow ==
  ASSUME NEW v, NEW in, Step(v, in)
  PROVE  l' = v.l /\ Aged(in, toL') /\ \E b : Aged(toP, b) /\ toP' = b \o v.out
<1> DEFINE old(q) == Sends(v.out, "auth", "Challenge") /\ q.code \in {"Challenge", "Response"}
           a == [i \in DOMAIN in |-> IF old(in[i]) THEN [in[i] EXCEPT !.last = FALSE] ELSE in[i]]
           b == [i \in DOMAIN toP |-> IF old(toP[i]) THEN [toP[i] EXCEPT !.last = FALSE] ELSE toP[i]]
<1>1. l' = v.l /\ toL' = a /\ toP' = b \o v.out
  BY DEF Step, Outdate
<1>2. Aged(in, a) /\ Aged(toP, b)
  <2>1. a = [i \in DOMAIN in |-> a[i]] /\ \A i \in DOMAIN in : a[i] \in {in[i], [in[i] EXCEPT !.last = FALSE]}
    OBVIOUS
  <2>2. b = [i \in DOMAIN toP |-> b[i]] /\ \A i \in DOMAIN toP : b[i] \in {toP[i], [toP[i] EXCEPT !.last = FALSE]}
    OBVIOUS
  <2> HIDE DEF a, b
  <2> QED
    BY <2>1, <2>2 DEF Aged, Spent
<1> HIDE DEF a, b
<1> QED
  BY <1>1, <1>2

LEMMA PeerStepFlow ==
  ASSUME NEW v, NEW in \in Seq(Packet), toL \in Seq(Packet), PeerStep(v, in)
  PROVE  /\ p' = v.p /\ Aged(in, toP')
         /\ \E b : /\ Aged(toL, b) /\ toL' = b \o v.out
                   /\ ~Absent(v.out, Reqs) => Absent(toP', LastAnswers) /\ Absent(b, LastReqs)
<1> DEFINE old(q) == q.layer \in Layer /\ Sends(v.out, q.layer, "Req")
           oldReq(q) == old(q) /\ q.code = "Req"
           oldAnswer(q) == old(q) /\ q.code \in {"Ack", "Nak"}
           a == [i \in DOMAIN in |-> IF oldAnswer(in[i]) THEN [in[i] EXCEPT !.last = FALSE] ELSE in[i]]
           b == [i \in DOMAIN toL |-> IF oldReq(toL[i]) THEN [toL[i] EXCEPT !.last = FALSE] ELSE toL[i]]
<1>1. p' = v.p /\ toP' = a /\ toL' = b \o v.out
  BY DEF PeerStep, Outdate
<1>2. Aged(in, a) /\ Aged(toL, b)
  <2>1. a = [i \in DOMAIN in |-> a[i]] /\ \A i \in DOMAIN in : a[i] \in {in[i], [in[i] EXCEPT !.last = FALSE]}
    OBVIOUS
  <2>2. b = [i \in DOMAIN toL |-> b[i]] /\ \A i \in DOMAIN toL : b[i] \in {toL[i], [toL[i] EXCEPT !.last = FALSE]}
    OBVIOUS
  <2> HIDE DEF a, b
  <2> QED
    BY <2>1, <2>2 DEF Aged, Spent
<1>3. ASSUME ~Absent(v.out, Reqs)
      PROVE  Absent(a, LastAnswers) /\ Absent(b, LastReqs)
  <2>1. Sends(v.out, "lcp", "Req") /\ "lcp" \in Layer
    BY <1>3, Names DEF Absent, Sends, Reqs, Is
  <2>2. (\A i \in DOMAIN in : in[i] \in Packet) /\ (\A i \in DOMAIN toL : toL[i] \in Packet)
    BY ElementOfSeq, LenProperties
  <2>3. ASSUME NEW i \in DOMAIN in PROVE a[i] \notin LastAnswers
    <3>1. CASE in[i].layer = "lcp" /\ in[i].code \in {"Ack", "Nak"}
      <4>1. oldAnswer(in[i])
        BY <2>1, <3>1
      <4>2. a[i] = Spent(in[i])
        BY <4>1 DEF Spent
      <4>3. ~a[i].last /\ a[i] \in Packet
        BY <2>2, <4>2, SpentIs
      <4> QED
        BY <4>3 DEF LastAnswers
    <3>2. CASE ~(in[i].layer = "lcp" /\ in[i].code \in {"Ack", "Nak"})
      <4>1. a[i] \in {in[i], Spent(in[i])}
        BY <1>2 DEF Aged
      <4> HIDE DEF a
      <4>2. a[i] \in Packet /\ a[i].layer = in[i].layer /\ a[i].code = in[i].code
        BY <2>2, <4>1, SpentIs
      <4> QED
        BY <3>2, <4>2, PacketSets
    <3> QED
      BY <3>1, <3>2
  <2>4. ASSUME NEW i \in DOMAIN toL PROVE b[i] \notin LastReqs
    <3>1. CASE toL[i].layer = "lcp" /\ toL[i].code = "Req"
      <4>1. oldReq(toL[i])
        BY <2>1, <3>1
      <4>2. b[i] = Spent(toL[i])
        BY <4>1 DEF Spent
      <4>3. ~b[i].last /\ b[i] \in Packet
        BY <2>2, <4>2, SpentIs
      <4> QED
        BY <4>3 DEF LastReqs
    <3>2. CASE ~(toL[i].layer = "lcp" /\ toL[i].code = "Req")
      <4>1. b[i] \in {toL[i], Spent(toL[i])}
        BY <1>2 DEF Aged
      <4> HIDE DEF b
      <4>2. b[i] \in Packet /\ b[i].layer = toL[i].layer /\ b[i].code = toL[i].code
        BY <2>2, <4>1, SpentIs
      <4> QED
        BY <3>2, <4>2, PacketSets
    <3> QED
      BY <3>1, <3>2
  <2>5. DOMAIN a = DOMAIN in /\ DOMAIN b = DOMAIN toL
    OBVIOUS
  <2> HIDE DEF a, b
  <2> QED
    BY <2>3, <2>4, <2>5 DEF Absent
<1> HIDE DEF a, b
<1> QED
  BY <1>1, <1>2, <1>3

\* An ended session stays ended.
LEMMA DieStays ==
  ASSUME NEW w, Sound(w), w.out = <<>>, w.l.die, NEW q \in FromPeer
  PROVE  Process(w, q).l.die
<1>1. /\ q \in Packet /\ q.layer \in {"lcp", "auth"} \cup NcpLayer /\ (q.layer = "auth" => q.code \in {"Pap", "Response"})
  <2>1. q \in Packet
    BY DEF FromPeer
  <2> QED
    BY <2>1 DEF FromPeer, Packet, Layer, NcpLayer
<1>2. CASE q.layer = "lcp"
  BY <1>2 DEF Process, ProcessLcp
<1>3. CASE q.layer \in NcpLayer
  <2>1. CASE q \notin Terms
    <3>1. Kept(w, Process(w, q), q.layer, q \in LastReqs)
      BY <1>1, <1>3, <2>1, NcpProcessKept DEF Sound
    <3> QED
      BY <3>1 DEF Kept, Alike
  <2>2. CASE q.code = "TermReq"
    <3>1. \/ Process(w, q) \in {w, Out(Terminated(w, q.layer), Pkt(q.layer, "TermAck"))}
          \/ Process(w, q) = ChangeState(Out(w, Pkt("ccp", "TermAck")), "ccp", "Stopped")
      <4>1. CASE q.layer = "ipcp"
        BY <2>2, <4>1 DEF Process, ProcessIpcp, Ncp
      <4>2. CASE q.layer = "ipv6cp"
        BY <2>2, <4>2 DEF Process, ProcessIpv6cp, Ncp
      <4>3. CASE q.layer = "ccp"
        BY <2>2, <4>3 DEF Process, ProcessCcp
      <4> QED
        BY <1>3, <4>1, <4>2, <4>3 DEF NcpLayer
    <3>2. w \in W
      BY DEF Sound
    <3>3. \A y \in NcpLayer : Terminated(w, y) \in W /\ Terminated(w, y).l.die
      <4> TAKE y \in NcpLayer
      <4> DEFINE c == [w EXCEPT !.l.conf[y] = MaxConfigure]
      <4>1. y \in Layer /\ "Closing" \in State
        BY Names DEF NcpLayer, Layer
      <4>2. c \in W /\ c.l.die = w.l.die
        BY <3>2, BoundsAreNat DEF W, LType
      <4>3. Terminated(w, y) \in {w, ChangeState(c, y, "Closing")}
        BY DEF Terminated
      <4> HIDE DEF c
      <4>4. ChangeState(c, y, "Closing") \in W /\ ChangeState(c, y, "Closing").l.die = c.l.die
        BY <4>1, <4>2, ChangeStateOk DEF Alike
      <4> QED
        BY <3>2, <4>2, <4>3, <4>4
    <3>4. \A u \in W, k \in Packet : Out(u, k) \in W /\ Out(u, k).l = u.l
      BY OutOk
    <3>5. \A u \in W : ChangeState(u, "ccp", "Stopped").l.die = u.l.die
      BY DEF ChangeState, W, LType
    <3>6. Pkt("ccp", "TermAck") \in Packet /\ Pkt(q.layer, "TermAck") \in Packet
      BY <1>1, <1>3, PktOk DEF NcpLayer, Layer
    <3> QED
      BY <1>3, <3>1, <3>2, <3>3, <3>4, <3>5, <3>6
  <2> QED
    BY <1>1, <2>1, <2>2, PacketSets
<1>4. CASE q.layer = "auth"
  <2>1. Process(w, q) \in {w, [w EXCEPT !.l.asked = TRUE], Shutdown(w)}
    BY <1>1, <1>4 DEF Process, ProcessPap, ProcessChap
  <2>2. Shutdown(w).l.die /\ [w EXCEPT !.l.asked = TRUE].l.die
    BY DEF Shutdown, Sound, W, LType
  <2> QED
    BY <2>1, <2>2
<1> QED
  BY <1>1, <1>2, <1>3, <1>4

LEMMA LinkAgrees ==
  ASSUME IInv, Agreed, NEW q, NEW in, Leaves(toL, q, in), NEW v, Sound(v), Step(v, in), UNCHANGED p,
         l.die => v.l.die,
         ~l.die /\ ~p.closed => Moved(Here, v, q)
  PROVE  Agreed'
<1>1. Sound(Here) /\ toL \in Seq(Packet) /\ toP \in Seq(Packet)
  BY SeqMonotonic DEF IInv, FromPeer
<1>2. l' = v.l /\ Aged(in, toL') /\ p' = p
  BY StepFlow
<1>3. PICK b : Aged(toP, b) /\ toP' = b \o v.out
  BY StepFlow
<1>4. CASE p.closed \/ v.l.die
  BY <1>2, <1>4 DEF Agreed
<1>5. CASE ~p.closed /\ ~v.l.die
  <2>1. ~l.die /\ Absent(toL, Terms) /\ Joined(Here, There, toL, toP) /\ Moved(Here, v, q)
    BY <1>5 DEF Agreed
  <2>2. Absent(toL', Terms)
    <3>1. Steady(Terms) /\ Idle \notin Terms
      BY SteadySets, IdleIs
    <3>2. in \in Seq(Packet) /\ Absent(in, Terms)
      BY <1>1, <2>1, <3>1, LeavesKeep
    <3> QED
      BY <1>2, <3>1, <3>2, AgedKeeps
  <2>3. Joined(v, There, toL', b \o v.out)
    BY <1>1, <1>2, <1>3, <1>5, <2>1, LinkStep
  <2>4. v.l = Here'.l /\ There.p = There'.p
    BY <1>2 DEF Here, There
  <2>5. Joined(Here', There', toL', toP')
    BY <1>3, <2>3, <2>4, JoinedSame
  <2> QED
    BY <2>2, <2>5 DEF Agreed
<1> QED
  BY <1>4, <1>5

LEMMA PeerAgrees ==
  ASSUME IInv, Agreed, NEW q, NEW in, Leaves(toP, q, in), NEW v \in V, PeerStep(v, in), UNCHANGED l,
         p.closed => v.p.closed,
         ~l.die /\ ~v.p.closed => PeerMoved(There, v, q)
  PROVE  Agreed'
<1>1. Sound(Here) /\ toL \in Seq(Packet) /\ toP \in Seq(Packet) /\ in \in Seq(Packet)
  BY SeqMonotonic, LeavesKeep, IdleIs DEF IInv, FromPeer
<1>2. p' = v.p /\ Aged(in, toP') /\ l' = l
  BY <1>1, PeerStepFlow
<1>3. PICK b : /\ Aged(toL, b) /\ toL' = b \o v.out
               /\ ~Absent(v.out, Reqs) => Absent(toP', LastAnswers) /\ Absent(b, LastReqs)
  BY <1>1, PeerStepFlow
<1>4. CASE l.die \/ v.p.closed
  BY <1>2, <1>4 DEF Agreed
<1>5. CASE ~l.die /\ ~v.p.closed
  <2>1. Absent(toL, Terms) /\ Joined(Here, There, toL, toP) /\ PeerMoved(There, v, q)
    BY <1>5 DEF Agreed
  <2>2. Absent(toL', Terms)
    <3>1. v.out \in Seq(FromPeer) /\ v.out \in Seq(Packet)
      BY SeqMonotonic DEF V, FromPeer
    <3>2. Absent(v.out, Terms)
      <4>1. v.out \in Seq(Reply(v.p.can, q, v.p.up))
        BY <2>1 DEF PeerMoved, Said
      <4>2. Reply(v.p.can, q, v.p.up) \cap Terms = {}
        BY DEF Reply
      <4> HIDE DEF Reply
      <4> QED
        BY <4>1, <4>2, AbsentIn
    <3> QED
      BY <1>1, <1>3, <2>1, <3>1, <3>2, SteadySets, FlowKeeps
  <2>3. Joined(Here, v, b \o v.out, toP')
    BY <1>1, <1>2, <1>3, <2>1, PeerSideStep
  <2>4. Here.l = Here'.l /\ v.p = There'.p
    BY <1>2 DEF Here, There
  <2>5. Joined(Here', There', toL', toP')
    BY <1>3, <2>3, <2>4, JoinedSame
  <2> QED
    BY <2>2, <2>5 DEF Agreed
<1> QED
  BY <1>4, <1>5

LEMMA SingleIs ==
  ASSUME NEW k
  PROVE  LET s == Append(<<>>, k)
         IN  (\A A : k \notin A => Absent(s, A)) /\ \A A, B : NoneAfter(s, A, B)
<1> DEFINE s == Append(<<>>, k)
<1>1. DOMAIN s = {1} /\ s[1] = k
  OBVIOUS
<1> HIDE DEF s
<1>2. (\A A : k \notin A => Absent(s, A)) /\ \A A, B : NoneAfter(s, A, B)
  BY <1>1 DEF Absent, NoneAfter
<1> QED
  BY <1>2 DEF s

LEMMA InitAgreed == Init => Agreed
<1> SUFFICES ASSUME Init PROVE Agreed
  OBVIOUS
<1> DEFINE k == [Pkt("lcp", "Req") EXCEPT !.auth = Prefers]
           req(b) == [Pkt("lcp", "Req") EXCEPT !.ok = b]
<1>1. /\ l.phase = "Establish" /\ l.st = [x \in Layer |-> IF x = "lcp" THEN "RequestSent" ELSE "Initial"]
      /\ l.authtype = Prefers /\ ~l.ip /\ ~l.asked /\ toP = Append(<<>>, k)
  BY Names DEF Init, SendReq, Out
<1>2. PICK b \in BOOLEAN : /\ ~p.up /\ p.st = [x \in Layer |-> IF x = "lcp" THEN "RequestSent" ELSE "Closed"]
                           /\ toL = Append(<<>>, req(b))
  <2>1. PICK can \in SUBSET {"PAP", "CHAP"} :
          LET c == [up |-> FALSE, st |-> [x \in Layer |-> IF x = "lcp" THEN "RequestSent" ELSE "Closed"],
                    auth |-> "none", can |-> can, good |-> Layer \ Picky, closed |-> FALSE]
              v == PeerSend([p |-> c, out |-> <<>>], "lcp")
          IN  p = v.p /\ toL = v.out
    BY DEF Init
  <2> DEFINE s == [x \in Layer |-> IF x = "lcp" THEN "RequestSent" ELSE "Closed"]
             c == [up |-> FALSE, st |-> s, auth |-> "none", can |-> can, good |-> Layer \ Picky, closed |-> FALSE]
             u == [p |-> c, out |-> <<>>]
             b == "lcp" \in u.p.good
  <2>2. b \in BOOLEAN /\ ~c.up /\ c.st = s /\ u.p = c /\ u.out = <<>> /\ u = [p |-> c, out |-> <<>>]
    OBVIOUS
  <2>3. p = PeerSend(u, "lcp").p /\ toL = PeerSend(u, "lcp").out
    BY <2>1
  <2> HIDE DEF c
  <2>4. PeerSend(u, "lcp") = Out(u, req(b))
    BY DEF PeerSend
  <2> HIDE DEF b, req
  <2>5. Out(u, req(b)).p = c /\ Out(u, req(b)).out = Append(<<>>, req(b))
    BY DEF Out
  <2> QED
    BY <2>2, <2>3, <2>4, <2>5
<1>3. Prefers \in {"PAP", "CHAP"}
  BY AuthKnown
<1>4. k \in Packet /\ k.layer = "lcp" /\ k.code = "Req" /\ k.auth = Prefers
  BY <1>3 DEF Pkt, Packet, Layer, Auth
<1>5. req(b) \in Packet /\ req(b).layer = "lcp" /\ req(b).code = "Req"
  BY DEF Pkt, Packet, Layer, Auth
<1> HIDE DEF k, req
<1>6. /\ At(Here, "lcp") = "RequestSent" /\ At(Here, "ipcp") = "Initial" /\ Here.l = l
      /\ Pt(There, "lcp") = "RequestSent" /\ Pt(There, "ipcp") = "Closed" /\ There.p = p
  BY <1>1, <1>2, Names DEF At, Pt, Here, There
<1>7. /\ k \notin Grants /\ k \notin Without(Reqs)
      /\ \A can : Prefers \notin Granting(can) => k \notin Within(Reqs, can)
  BY <1>3, <1>4, PacketSets DEF Without, Within
<1>8. req(b) \notin Terms /\ req(b) \notin Acks /\ req(b) \notin Naks /\ req(b) \notin Ipcp
  BY <1>5, PacketSets
<1>9. /\ Absent(toL, Terms) /\ Absent(toL, Acks) /\ Absent(toL, Naks) /\ Absent(toL, Ipcp) /\ Absent(toL, Without(Acks))
      /\ \A can : Absent(toL, Beyond(Acks \cup Naks, can))
      /\ Absent(toP, Grants) /\ Absent(toP, Without(Reqs))
      /\ \A can : Prefers \notin Granting(can) => Absent(toP, Within(Reqs, can))
      /\ \A A, B : NoneAfter(toL, A, B) /\ NoneAfter(toP, A, B)
  BY <1>1, <1>2, <1>7, <1>8, SingleIs DEF Without, Beyond
<1>10. Linked(Here) /\ Peered(There) /\ Unsigned(There) /\ Done(Here, toL) /\ ~Was(Here)
  BY <1>1, <1>2, <1>6, <1>9 DEF Linked, Peered, Unsigned, Done, Was, Trying, Early
<1>11. Agreement(Here, There, toL, toP)
  BY <1>1, <1>6, <1>9, <1>10 DEF Agreement
<1> QED
  BY <1>9, <1>10, <1>11 DEF Agreed, Joined, Ungranted

\* The first of a channel is taken, or nothing is.
LEMMA LeavesHead ==
  ASSUME NEW s
  PROVE  Leaves(s, Idle, s) /\ (s # <<>> => Leaves(s, Head(s), Tail(s)))
  BY DEF Leaves

LEMMA PeerAsksOk ==
  ASSUME NEW u \in V, NEW x \in Layer, NEW new \in Begun
  PROVE  Follows(PeerState(PeerSend(u, x), x, new), u)
<1>1. Follows(PeerSend(u, x), u)
  BY PeerSendOk
<1>2. new \in State \cup {"Closed"}
  BY Names DEF Begun
<1>3. Follows(PeerState(PeerSend(u, x), x, new), PeerSend(u, x))
  BY <1>1, <1>2, PeerStateOk DEF Follows
<1> QED
  BY <1>1, <1>3 DEF Follows

LEMMA NextAgreed == IInv /\ Agreed /\ [Next]_vars => Agreed'
<1> SUFFICES ASSUME IInv, Agreed, [Next]_vars PROVE Agreed'
  OBVIOUS
<1>1. /\ Sound(Here) /\ Here.l = l /\ Here.out = <<>> /\ p \in PType /\ There \in V /\ There.p = p /\ There.out = <<>>
      /\ toL \in Seq(FromPeer) /\ toL \in Seq(Packet) /\ toP \in Seq(Packet)
  BY ThereOk, SeqMonotonic DEF IInv, Here, There, FromPeer
<1>2. ASSUME ~l.die, ~p.closed
      PROVE  Absent(toL, Terms) /\ Joined(Here, There, toL, toP) /\ Fresh(Here) /\ Peered(There)
  BY <1>1, <1>2 DEF Agreed, Joined, Fresh
<1>3. Leaves(toL, Idle, toL) /\ Leaves(toP, Idle, toP)
  BY LeavesHead
<1>4. CASE Receive
  <2> DEFINE q == Head(toL)
  <2>1. q \in FromPeer /\ toL # <<>>
    BY <1>1, <1>4, HeadTailProperties DEF Receive
  <2>2. Leaves(toL, q, Tail(toL))
    BY <2>1, LeavesHead
  <2> HIDE DEF q
  <2> DEFINE v == Process(Here, q)
  <2>3. Sound(v) /\ Step(v, Tail(toL)) /\ UNCHANGED p
    BY <1>1, <1>4, <2>1, ProcessKeeps DEF Receive, q
  <2>4. l.die => v.l.die
    BY <1>1, <2>1, DieStays
  <2>5. ASSUME ~l.die, ~p.closed PROVE Moved(Here, v, q)
    <3>1. Absent(toL, Terms) /\ Joined(Here, There, toL, toP) /\ Fresh(Here)
      BY <1>2, <2>5
    <3>2. q \notin Terms
      BY <1>1, <2>2, <3>1, IdleIs, LeavesKeep
    <3>3. Was(Here) => q \notin Naks
      <4>1. Was(Here) => Absent(toL, Naks)
        BY <3>1 DEF Joined, Agreement
      <4>2. Idle \notin Naks
        BY IdleIs
      <4> QED
        BY <1>1, <2>2, <4>1, <4>2, LeavesKeep
    <3> QED
      BY <2>1, <3>1, <3>2, <3>3, ProcessMoved
  <2> HIDE DEF v
  <2> QED
    BY <2>2, <2>3, <2>4, <2>5, LinkAgrees
<1>5. CASE PeerReceive
  <2> DEFINE q == Head(toP)
  <2>1. q \in Packet /\ toP # <<>>
    BY <1>1, <1>5, HeadTailProperties DEF PeerReceive
  <2>2. Leaves(toP, q, Tail(toP))
    BY <2>1, LeavesHead
  <2> HIDE DEF q
  <2> DEFINE v == PeerProcess(There, q)
  <2>3. PeerStep(v, Tail(toP)) /\ UNCHANGED l
    BY <1>5 DEF PeerReceive, q
  <2>4. v \in V /\ v.p.closed = p.closed
    BY <1>1, <2>1, PeerProcessOk DEF Follows
  <2>5. ~l.die /\ ~v.p.closed => PeerMoved(There, v, q)
    BY <1>1, <1>2, <2>1, <2>4, PeerProcessMoved
  <2> HIDE DEF v
  <2> QED
    BY <2>2, <2>3, <2>4, <2>5, PeerAgrees
<1>6. CASE Lose
  <2>1. UNCHANGED <<l, p>> /\ (\/ toL # <<>> /\ toL' = Tail(toL) /\ toP' = toP
                               \/ toP # <<>> /\ toP' = Tail(toP) /\ toL' = toL)
    BY <1>6 DEF Lose
  <2>2. CASE l.die \/ p.closed
    BY <2>1, <2>2 DEF Agreed
  <2>3. CASE ~l.die /\ ~p.closed
    <3>1. Absent(toL, Terms) /\ Joined(Here, There, toL, toP)
      BY <1>2, <2>3
    <3>2. Joined(Here, There, toL', toP')
      BY <1>1, <2>1, <3>1, LoseStep
    <3>3. Absent(toL', Terms)
      BY <1>1, <2>1, <3>1, TailKeeps
    <3>4. Here' = Here /\ There' = There
      BY <2>1 DEF Here, There
    <3> QED
      BY <3>2, <3>3, <3>4 DEF Agreed
  <2> QED
    BY <2>2, <2>3
<1>7. ASSUME NEW x \in Layer, Timeout(x)
      PROVE  Agreed'
  <2> DEFINE v == Retry(Here, x)
  <2>1. ~l.die /\ At(Here, x) \in Running /\ Step(v, toL) /\ UNCHANGED p
    BY <1>1, <1>7 DEF Timeout, At
  <2>2. Sound(v)
    BY <1>1, <2>1, RetryKeeps DEF At
  <2>3. ~p.closed => Moved(Here, v, Idle)
    BY <1>2, <2>1, RetryMoved
  <2> HIDE DEF v
  <2> QED
    BY <1>3, <2>1, <2>2, <2>3, LinkAgrees
<1>8. ASSUME NEW x \in Layer, PeerTimeout(x)
      PROVE  Agreed'
  <2> DEFINE s == IF p.st[x] = "AckSent" THEN "AckSent" ELSE "RequestSent"
             v == PeerState(PeerSend(There, x), x, s)
  <2>1. ~l.die /\ Pt(There, x) \in Running /\ PeerStep(v, toP) /\ UNCHANGED l
    BY <1>1, <1>8 DEF PeerTimeout, Pt
  <2>2. v \in V /\ v.p.closed = p.closed
    <3>1. s \in Begun
      BY DEF Begun
    <3> HIDE DEF s
    <3> QED
      BY <1>1, <3>1, PeerAsksOk DEF Follows
  <2>3. ~p.closed => PeerMoved(There, v, Idle)
    BY <1>1, <1>2, <2>1, PeerTimeoutMoved DEF Pt
  <2> HIDE DEF v
  <2> QED
    BY <1>3, <2>1, <2>2, <2>3, PeerAgrees
<1>9. ASSUME NEW x \in Layer, PeerClose(x)
      PROVE  Agreed'
  <2>1. p'.closed
    BY <1>1, <1>9 DEF PeerClose, PeerStep, Out, V, PType
  <2> QED
    BY <2>1 DEF Agreed
<1>10. CASE ChapTimeout
  <2>1. ~l.die /\ Step(SendChap(Here), toL) /\ UNCHANGED p
    BY <1>10 DEF ChapTimeout
  <2>2. Sound(SendChap(Here))
    BY <1>1, <1>10, SendChapKeeps DEF ChapTimeout
  <2>3. ~p.closed => Moved(Here, SendChap(Here), Idle)
    BY <1>2, <2>1, ChapMoved
  <2> QED
    BY <1>3, <2>1, <2>2, <2>3, LinkAgrees
<1>11. CASE RadiusAnswers
  <2>1. l.asked /\ ~l.die /\ (Step(Accepted(Here), toL) \/ Step(Shutdown(Here), toL)) /\ UNCHANGED p
    BY <1>11 DEF RadiusAnswers
  <2>2. Sound(Accepted(Here)) /\ Sound(Shutdown(Here))
    BY <1>1, <2>1, AcceptedKeeps, ShutdownOk
  <2>3. ~p.closed => Moved(Here, Accepted(Here), Idle)
    BY <1>1, <1>2, <2>1, AcceptedMoved
  <2>4. Moved(Here, Shutdown(Here), Idle)
    BY <1>1 DEF Shutdown, Moved, Sound, W, LType
  <2> QED
    BY <1>3, <2>1, <2>2, <2>3, <2>4, LinkAgrees
<1>12. CASE PapTimeout
  <2> DEFINE v == Out(There, Pkt("auth", "Pap"))
  <2>1. ~l.die /\ PeerStep(v, toP) /\ UNCHANGED l
    BY <1>12 DEF PapTimeout
  <2>2. Pkt("auth", "Pap") \in FromPeer
    BY PktOk DEF FromPeer
  <2>3. v \in V /\ v.p.closed = p.closed
    BY <1>1, <2>2, PeerOutOk
  <2>4. ~p.closed => PeerMoved(There, v, Idle)
    BY <1>1, <1>2, <2>1, PapMoved
  <2> HIDE DEF v
  <2> QED
    BY <1>3, <2>1, <2>3, <2>4, PeerAgrees
<1>13. CASE PeerReopen
  <2> DEFINE v == PeerState(PeerSend(There, "lcp"), "lcp", "RequestSent")
  <2>1. p.closed /\ p' = v.p
    BY <1>13 DEF PeerReopen, PeerStep
  <2>2. v.p.closed = p.closed
    BY <1>1, Names, PeerAsksOk DEF Follows, Begun
  <2> QED
    BY <2>1, <2>2 DEF Agreed
<1>14. CASE UNCHANGED vars
  BY <1>14 DEF vars, Agreed, Here, There
<1> QED
  BY <1>4, <1>5, <1>6, <1>7, <1>8, <1>9, <1>10, <1>11, <1>12, <1>13, <1>14 DEF Next

\* With nothing under way the shapes of both ends leave one way for each.
LEMMA RestAgreed == IInv /\ Agreed => NoHalfOpen
<1> SUFFICES ASSUME IInv, Agreed, AtRest, ~l.die, ~p.closed
             PROVE  \A x \in {"lcp", "ipcp"} : (l.st[x] = "Opened") = (p.st[x] = "Opened")
  BY DEF NoHalfOpen
<1>1. /\ Sound(Here) /\ Here.l = l /\ There.p = p /\ Joined(Here, There, toL, toP)
      /\ l.st["lcp"] \notin Running /\ l.st["ipcp"] \notin Running /\ p.st["lcp"] \notin Running /\ p.st["ipcp"] \notin Running
  BY Names DEF IInv, Agreed, AtRest, Here, There
<1>2. Linked(Here) /\ Peered(There)
  BY <1>1 DEF Joined
<1>3. l.st["lcp"] = "Opened" /\ p.st["lcp"] = "Opened"
  BY <1>1, <1>2 DEF Linked, Peered, At, Pt, Trying, Running
<1>4. CASE p.up /\ "ipcp" \in Ncps
  <2>1. p.st["ipcp"] = "Opened"
    BY <1>1, <1>2, <1>4 DEF Peered, Pt, Trying, Running
  <2>2. l.ip
    BY <1>1, <1>4 DEF Joined, Ungranted, Unsigned
  <2>3. l.phase = "Network"
    BY <1>1, <1>2, <1>3, <2>2 DEF Linked, At
  <2>4. l.st["ipcp"] # "Initial" /\ l.st["ipcp"] \in State
    BY <1>1, <2>3, Names DEF Sound, Stacked, NcpLayer, W, LType
  <2>5. l.st["ipcp"] = "Opened"
    BY <1>1, <1>2, <2>4 DEF Linked, At, State, Running
  <2> QED
    BY <1>3, <2>1, <2>5
<1>5. CASE ~(p.up /\ "ipcp" \in Ncps)
  <2>1. p.st["ipcp"] = "Closed"
    BY <1>1, <1>2, <1>5 DEF Peered, Pt
  <2>2. Done(Here, toL)
    BY <1>1, <1>3, <1>5 DEF Joined, NoAnswer, Pt, Begun
  <2>3. l.st["ipcp"] # "Opened"
    BY <1>1, <2>2 DEF Done, At, Early
  <2> QED
    BY <1>3, <2>1, <2>3
<1> QED
  BY <1>4, <1>5

\* Both ends agree (lcp_open, lcp_restart, ipcp_open, processlcp, processipcp,
\* regular_cleanups): whatever is lost, late, refused or answered twice, once
\* nothing is under way LCP and IPCP are open at both ends or at neither.
THEOREM EndsAgree == Spec => []LayersAgree
<1>1. Spec => []NoHalfOpen
  <2>1. Init => IInv /\ Agreed
    BY InitOk, InitAgreed
  <2>2. (IInv /\ Agreed) /\ [Next]_vars => (IInv /\ Agreed)'
    BY NextOk, NextAgreed
  <2> QED
    BY <2>1, <2>2, RestAgreed, PTL DEF Spec
<1>2. LayersAgree <=> TypeOK /\ NoHalfOpen
  BY DEF LayersAgree
<1> QED
  BY <1>1, <1>2, TypeCorrect, PTL

=============================================================================
