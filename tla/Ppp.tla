--------------------------------- MODULE Ppp ---------------------------------
(***************************************************************************)
(* PPP of one session (src/ppp.c): LCP, authentication, and the network    *)
(* protocols IPCP, IPV6CP and CCP, with the restart timers of              *)
(* regular_cleanups (src/l2tpns.c).  The other end is a peer that follows  *)
(* RFC 1661 and never gives up; between them two channels that keep order  *)
(* and lose at most MaxLoss packets.  A timer runs out when everything     *)
(* under way has been dealt with, and MaxEarly times before.               *)
(*                                                                         *)
(* Of the options only what decides the answer is kept: the authentication *)
(* l2tpns asks for, and whether a request of the peer can be accepted (its *)
(* first one cannot, if it is Picky: a small MRU, the address 0.0.0.0,     *)
(* compression).  The identifier of a packet tells whether it belongs to   *)
(* the last request of its layer: the peer compares it, l2tpns only in the *)
(* answer to a CHAP challenge.  Fewer than ppp_max_failure Naks are sent.  *)
(*                                                                         *)
(* Not here: a peer that asks l2tpns to prove who it is (option 3, which   *)
(* sets lcp_authtype), protocol rejects, the answer still sent for a       *)
(* request that comes while LCP is Closing, a PAP request repeated once    *)
(* the session has an address, and a CHAP answer without a RADIUS slot.    *)
(***************************************************************************)
EXTENDS Integers, Sequences, FiniteSets

CONSTANTS
  Ncps,          \* network protocols the peer negotiates
  Prefers,       \* config->radius_authprefer: "PAP" or "CHAP"
  AuthTypes,     \* config->radius_authtypes
  Picky,         \* layers whose first request cannot be accepted
  MaxConfigure,  \* config->ppp_max_configure
  MaxChap,       \* 5, tries of a CHAP challenge
  MaxLoss,       \* bound: packets lost
  MaxEarly       \* bound: timers that run out while packets are under way

Layer == {"lcp", "ipcp", "ipv6cp", "ccp"}
Auth  == {"none", "PAP", "CHAP"}
Phase == {"Dead", "Establish", "Authenticate", "Network"}

ASSUME LayersKnown  == Ncps \subseteq Layer \ {"lcp"} /\ Picky \subseteq Layer
ASSUME AuthKnown    == Prefers \in AuthTypes /\ AuthTypes \subseteq {"PAP", "CHAP"}
ASSUME BoundsAreNat == {MaxConfigure, MaxChap, MaxLoss, MaxEarly} \subseteq Nat

VARIABLES
  l,      \* this end: the phase, the state st and requests sent conf of each
          \* layer, authtype (lcp_authtype), ip (an address from RADIUS), chap
          \* (challenges sent), asked (RADIUS), die
  p,      \* the peer: up (authenticated), st, auth, can (the ways it can
          \* authenticate itself), good (the layers it makes acceptable requests
          \* for) and closed (it has closed a layer)
  toL,    \* packets on their way here
  toP,    \* and to the peer
  lost, early

vars == <<l, p, toL, toP, lost, early>>

\* A packet of a layer: its code, whether it (or what it answers) can be
\* accepted, whether it belongs to the last request, and the authentication.
Packet == [layer : Layer \cup {"auth"}, code : {"Req", "Ack", "Nak", "TermReq", "TermAck", "Pap", "Challenge", "Response", "Success"},
           ok : BOOLEAN, last : BOOLEAN, auth : Auth]

Pkt(x, c) == [layer |-> x, code |-> c, ok |-> TRUE, last |-> TRUE, auth |-> "none"]

\* The packets for which Old holds no longer belong to the last request.
Outdate(ch, Old(_)) == [i \in DOMAIN ch |-> IF Old(ch[i]) THEN [ch[i] EXCEPT !.last = FALSE] ELSE ch[i]]

-----------------------------------------------------------------------------
(* This end.  A handler turns w = [l, out] into another: the session, and   *)
(* the packets sent on the way.                                             *)

Out(w, q) == [w EXCEPT !.out = Append(@, q)]

Quiet == {"Initial", "Starting", "Closed", "Stopped", "Opened"}

\* change_state: entering a state without a timer starts the counts anew.
ChangeState(w, x, new) ==
  [w EXCEPT !.l.st[x] = new,
            !.l.conf[x] = IF new \in Quiet /\ new # w.l.st[x] THEN 0 ELSE @]

InitialiseRestartCount(w, x) == [w EXCEPT !.l.conf[x] = 0]

\* sendlcp, sendipcp, sendipv6cp, sendccp, with restart_timer.
SendReq(w, x) ==
  Out([w EXCEPT !.l.conf[x] = @ + 1],
      [Pkt(x, "Req") EXCEPT !.auth = IF x = "lcp" THEN w.l.authtype ELSE "none"])

\* Ends the session.
Shutdown(w) ==
  [w EXCEPT !.l.phase = "Dead", !.l.st = [x \in Layer |-> "Initial"], !.l.die = TRUE]

\* Mutant: one challenge too many.
SendChap_TooMany(w) ==
  LET tries == IF w.l.asked THEN 1 ELSE w.l.chap + 1
  IN  IF w.l.chap > MaxChap THEN Shutdown(w)
      ELSE Out([w EXCEPT !.l.chap = tries, !.l.asked = FALSE], Pkt("auth", "Challenge"))

\* The challenge starts a new count unless one is already out.
SendChap(w) ==
  LET tries == IF w.l.asked THEN 1 ELSE w.l.chap + 1
  IN  IF tries > MaxChap THEN Shutdown(w)
      ELSE Out([w EXCEPT !.l.chap = tries, !.l.asked = FALSE], Pkt("auth", "Challenge"))

LcpOpen(w) ==
  LET up == ChangeState(w, "lcp", "Opened")
      a  == [up EXCEPT !.l.phase = "Authenticate"]
      n  == ChangeState(SendReq([up EXCEPT !.l.phase = "Network"], "ipcp"), "ipcp", "RequestSent")
  IN  CASE w.l.authtype = "CHAP" -> SendChap(a)
        [] w.l.authtype = "PAP"  -> a
        [] OTHER                 -> ChangeState(ChangeState(n, "ipv6cp", "Stopped"), "ccp", "Stopped")

\* Mutant: the network protocols stay as they are.
LcpRestart_LinkOnly(w) == [w EXCEPT !.l.phase = "Establish"]

LcpRestart(w) ==
  LET down == [w EXCEPT !.l.phase = "Establish"]
  IN  ChangeState(ChangeState(ChangeState(down, "ipcp", "Initial"), "ipv6cp", "Initial"), "ccp", "Initial")

\* ConfigAck.  Its identifier is not looked at.
LcpAck(w, q) ==
  LET t == IF ~w.l.ip /\ q.auth # "none" THEN [w EXCEPT !.l.authtype = q.auth] ELSE w
  IN  CASE w.l.st["lcp"] = "RequestSent" -> ChangeState(InitialiseRestartCount(t, "lcp"), "lcp", "AckReceived")
        [] w.l.st["lcp"] = "AckReceived" -> ChangeState(SendReq(t, "lcp"), "lcp", "RequestSent")
        [] w.l.st["lcp"] = "Opened"      -> ChangeState(SendReq(LcpRestart(t), "lcp"), "lcp", "RequestSent")
        [] w.l.st["lcp"] = "AckSent"     -> LcpOpen(t)
        [] OTHER                         -> t

\* The answer to a request of the peer, sent last whatever else is sent.
Answer(w, q) == Out(w, [q EXCEPT !.code = IF q.ok THEN "Ack" ELSE "Nak"])

AckSentIf(q) == IF q.ok THEN "AckSent" ELSE "RequestSent"

\* Mutant: a request is only looked at while LCP is being negotiated.
LcpReq_NotOpened(w, q) ==
  CASE w.l.st["lcp"] \in {"RequestSent", "AckSent"} -> Answer(ChangeState(w, "lcp", AckSentIf(q)), q)
    [] w.l.st["lcp"] = "AckReceived" -> Answer(IF q.ok THEN LcpOpen(w) ELSE w, q)
    [] w.l.st["lcp"] = "Closing"     -> Shutdown(w)
    [] OTHER                         -> w

\* ConfigReq.
LcpReq(w, q) ==
  CASE w.l.st["lcp"] = "RequestSent" -> Answer(ChangeState(w, "lcp", AckSentIf(q)), q)
    [] w.l.st["lcp"] = "AckReceived" -> Answer(IF q.ok THEN LcpOpen(w) ELSE w, q)
    [] w.l.st["lcp"] = "Opened"      -> Answer(ChangeState(SendReq(LcpRestart(w), "lcp"), "lcp", AckSentIf(q)), q)
    [] w.l.st["lcp"] = "AckSent"     -> Answer(ChangeState(w, "lcp", AckSentIf(q)), q)
    [] w.l.st["lcp"] = "Closing"     -> Shutdown(w)
    [] OTHER                         -> w

\* Mutant: whatever the peer proposes is taken.
LcpNak_Unchecked(w, q) ==
  LET t == [w EXCEPT !.l.authtype = q.auth]
  IN  CASE w.l.st["lcp"] \in {"RequestSent", "AckSent"} -> SendReq(InitialiseRestartCount(t, "lcp"), "lcp")
        [] w.l.st["lcp"] = "AckReceived" -> SendReq(t, "lcp")
        [] w.l.st["lcp"] = "Opened"      -> SendReq(LcpRestart(t), "lcp")
        [] OTHER -> t

\* ConfigNak or ConfigRej of the authentication asked for.
LcpNak(w, q) ==
  LET t == [w EXCEPT !.l.authtype = q.auth]
  IN  CASE q.auth \notin AuthTypes -> Shutdown(w)
        [] q.auth \in AuthTypes /\ w.l.st["lcp"] \in {"RequestSent", "AckSent"} -> SendReq(InitialiseRestartCount(t, "lcp"), "lcp")
        [] q.auth \in AuthTypes /\ w.l.st["lcp"] = "AckReceived" -> SendReq(t, "lcp")
        [] q.auth \in AuthTypes /\ w.l.st["lcp"] = "Opened" -> SendReq(LcpRestart(t), "lcp")
        [] OTHER -> t

\* TerminateReq to a layer that is open: no more tries, Closing.
Terminated(w, x) ==
  IF w.l.st[x] = "Opened" THEN ChangeState([w EXCEPT !.l.conf[x] = MaxConfigure], x, "Closing") ELSE w

ProcessLcp(w, q) ==
  CASE w.l.die           -> w
    [] ~w.l.die /\ q.code = "Ack"     -> LcpAck(w, q)
    [] ~w.l.die /\ q.code = "Req"     -> LcpReq(w, q)
    [] ~w.l.die /\ q.code = "Nak"     -> LcpNak(w, q)
    [] ~w.l.die /\ q.code = "TermReq" ->
         Out(Terminated(IF w.l.st["lcp"] = "Opened" THEN LcpRestart(w) ELSE w, "lcp"), Pkt("lcp", "TermAck"))

\* The part the three network protocols share.
Ncp(w, q, x, Open(_)) ==
  LET again == SendReq(InitialiseRestartCount(w, x), x)
  IN  CASE q.code = "Ack" /\ w.l.st[x] = "RequestSent" -> ChangeState(InitialiseRestartCount(w, x), x, "AckReceived")
        [] q.code = "Ack" /\ w.l.st[x] \in {"AckReceived", "Opened"} -> ChangeState(SendReq(w, x), x, "RequestSent")
        [] q.code = "Ack" /\ w.l.st[x] = "AckSent" -> Open(w)
        [] q.code = "Req" /\ w.l.st[x] \in {"Stopped", "Opened"} -> Answer(ChangeState(again, x, AckSentIf(q)), q)
        [] q.code = "Req" /\ w.l.st[x] \in {"RequestSent", "AckSent"} -> Answer(ChangeState(w, x, AckSentIf(q)), q)
        [] q.code = "Req" /\ w.l.st[x] = "AckReceived" -> Answer(IF q.ok THEN Open(w) ELSE w, q)
        [] q.code = "TermReq" /\ w.l.st[x] # "Initial" -> Out(Terminated(w, x), Pkt(x, "TermAck"))
        [] OTHER -> w

IpcpOpen(w) ==
  LET o == ChangeState(w, "ipcp", "Opened")
  IN  IF w.l.st["ipv6cp"] = "Stopped" THEN ChangeState(SendReq(o, "ipv6cp"), "ipv6cp", "RequestSent") ELSE o

ProcessIpcp(w, q) == IF w.l.phase # "Network" THEN w ELSE Ncp(w, q, "ipcp", IpcpOpen)

ProcessIpv6cp(w, q) ==
  IF w.l.phase # "Network" \/ ~w.l.ip THEN w ELSE Ncp(w, q, "ipv6cp", LAMBDA t : ChangeState(t, "ipv6cp", "Opened"))

ProcessCcp(w, q) ==
  CASE w.l.phase # "Network" -> w
    [] w.l.phase = "Network" /\ q.code = "TermReq" -> ChangeState(Out(w, Pkt("ccp", "TermAck")), "ccp", "Stopped")
    [] OTHER -> Ncp(w, q, "ccp", LAMBDA t : ChangeState(t, "ccp", "Opened"))

\* PAP: the request goes to RADIUS.
ProcessPap(w, q) == IF w.l.phase # "Authenticate" THEN w ELSE [w EXCEPT !.l.asked = TRUE]

\* The answer to a challenge, which must be to the last one.
ProcessChap(w, q) ==
  CASE w.l.phase # "Authenticate" \/ w.l.chap = 0 -> w
    [] w.l.phase = "Authenticate" /\ w.l.chap > 0 /\ q.last -> [w EXCEPT !.l.asked = TRUE]
    [] OTHER -> Shutdown(w)

\* processrad and sessionsetup: the peer is told, and LCP counts as open.
Accepted(w) ==
  LET told == Out(w, Pkt("auth", IF w.l.chap > 0 THEN "Success" ELSE "Ack"))
  IN  LcpOpen([told EXCEPT !.l.ip = TRUE, !.l.asked = FALSE, !.l.authtype = "none"])

Process(w, q) ==
  CASE q.layer = "lcp"    -> ProcessLcp(w, q)
    [] q.layer = "ipcp"   -> ProcessIpcp(w, q)
    [] q.layer = "ipv6cp" -> ProcessIpv6cp(w, q)
    [] q.layer = "ccp"    -> ProcessCcp(w, q)
    [] q.layer = "auth" /\ q.code = "Pap"      -> ProcessPap(w, q)
    [] q.layer = "auth" /\ q.code = "Response" -> ProcessChap(w, q)

\* Mutant: IPCP is given up the way IPV6CP and CCP are.
Retry_StopsIpcp(w, x) ==
  CASE w.l.conf[x] < MaxConfigure ->
         ChangeState(SendReq(w, x), x, IF w.l.st[x] = "AckSent" THEN "AckSent" ELSE "RequestSent")
    [] w.l.conf[x] >= MaxConfigure /\ x = "lcp" -> Shutdown(w)
    [] OTHER -> ChangeState(w, x, "Stopped")

\* regular_cleanups, when the restart timer of a layer has run out.
Retry(w, x) ==
  CASE w.l.conf[x] < MaxConfigure ->
         ChangeState(SendReq(w, x), x, IF w.l.st[x] = "AckSent" THEN "AckSent" ELSE "RequestSent")
    [] w.l.conf[x] >= MaxConfigure /\ x \in {"lcp", "ipcp"} -> Shutdown(w)
    [] OTHER -> ChangeState(w, x, "Stopped")

-----------------------------------------------------------------------------
(* The peer: RFC 1661's automaton.  v = [p, out].                           *)

PeerSend(v, x) == Out(v, [Pkt(x, "Req") EXCEPT !.ok = x \in v.p.good])

PeerState(v, x, new) == [v EXCEPT !.p.st[x] = new]

\* Authenticated, or not asked to: the network protocols start.
PeerUp(v) ==
  LET up == [v EXCEPT !.p.up = TRUE, !.p.st = [x \in Layer |-> IF x \in Ncps THEN "RequestSent" ELSE @[x]]]
      i == IF "ipcp" \in Ncps THEN PeerSend(up, "ipcp") ELSE up
      j == IF "ipv6cp" \in Ncps THEN PeerSend(i, "ipv6cp") ELSE i
  IN  IF "ccp" \in Ncps THEN PeerSend(j, "ccp") ELSE j

PeerOpen(v, x) ==
  LET o == PeerState(v, x, "Opened")
  IN  CASE x # "lcp" -> o
        [] x = "lcp" /\ v.p.auth = "none" -> PeerUp(o)
        [] x = "lcp" /\ v.p.auth = "PAP"  -> Out(o, Pkt("auth", "Pap"))
        [] x = "lcp" /\ v.p.auth = "CHAP" -> o

\* An open layer is opened again; under LCP everything goes down.
PeerRestart(v, x, new) ==
  PeerState(PeerSend(IF x # "lcp" THEN v
                     ELSE [v EXCEPT !.p.up = FALSE, !.p.st = [y \in Layer |-> "Closed"]], x), x, new)

PeerReq(v, q) ==
  LET x  == q.layer
      ok == q.auth \in v.p.can \cup {"none"}
      agreed(t) == IF x = "lcp" /\ ok THEN [t EXCEPT !.p.auth = q.auth] ELSE t
      reply(t)  == Out(t, [q EXCEPT !.code = IF ok THEN "Ack" ELSE "Nak",
                                    !.auth = IF ok THEN @ ELSE IF v.p.can = {} THEN "none" ELSE CHOOSE a \in v.p.can : TRUE])
      to == IF ok THEN "AckSent" ELSE "RequestSent"
  IN  CASE v.p.st[x] \in {"RequestSent", "AckSent"} -> PeerState(reply(agreed(v)), x, to)
        [] v.p.st[x] = "AckReceived" -> IF ok THEN PeerOpen(reply(agreed(v)), x) ELSE reply(v)
        [] v.p.st[x] = "Opened"      -> reply(agreed(PeerRestart(v, x, to)))
        [] OTHER                     -> v

PeerAck(v, x) ==
  CASE v.p.st[x] = "RequestSent" -> PeerState(v, x, "AckReceived")
    [] v.p.st[x] = "AckReceived" -> PeerState(PeerSend(v, x), x, "RequestSent")
    [] v.p.st[x] = "AckSent"     -> PeerOpen(v, x)
    [] v.p.st[x] = "Opened"      -> PeerRestart(v, x, "RequestSent")
    [] OTHER                     -> v

PeerNak(v, x) ==
  LET t == [v EXCEPT !.p.good = @ \cup {x}]
  IN  CASE v.p.st[x] = "AckSent" -> PeerSend(t, x)
        [] v.p.st[x] \in {"RequestSent", "AckReceived"} -> PeerState(PeerSend(t, x), x, "RequestSent")
        [] v.p.st[x] = "Opened"  -> PeerRestart(t, x, "RequestSent")
        [] OTHER                 -> t

PeerAuthentic(v, q) ==
  CASE v.p.st["lcp"] = "Opened" /\ q.code = "Challenge" /\ v.p.auth = "CHAP" -> Out(v, [q EXCEPT !.code = "Response"])
    [] v.p.st["lcp"] = "Opened" /\ q.code \in {"Ack", "Success"} /\ ~v.p.up -> PeerUp(v)
    [] OTHER -> v

PeerProcess(v, q) ==
  CASE q.layer = "auth" -> PeerAuthentic(v, q)
    [] q.layer \in Layer \ (Ncps \cup {"lcp"}) -> v
    [] q.layer \in Ncps \cup {"lcp"} /\ q.code = "Req" -> PeerReq(v, q)
    [] q.layer \in Ncps \cup {"lcp"} /\ q.code = "Ack" /\ q.last -> PeerAck(v, q.layer)
    [] q.layer \in Ncps \cup {"lcp"} /\ q.code = "Nak" /\ q.last -> PeerNak(v, q.layer)
    [] OTHER -> v

-----------------------------------------------------------------------------
(* Steps. *)

Sends(out, x, c) == \E i \in DOMAIN out : out[i].layer = x /\ out[i].code = c

\* This end goes from l to w.l and sends w.out; in is what is left to receive.
Step(w, in) ==
  LET old(q) == Sends(w.out, "auth", "Challenge") /\ q.code \in {"Challenge", "Response"}
  IN  /\ l' = w.l
      /\ toL' = Outdate(in, old)
      /\ toP' = Outdate(toP, old) \o w.out

PeerStep(v, in) ==
  LET old(q) == q.layer \in Layer /\ Sends(v.out, q.layer, "Req")
      oldReq(q) == old(q) /\ q.code = "Req"
      oldAnswer(q) == old(q) /\ q.code \in {"Ack", "Nak"}
  IN  /\ p' = v.p
      /\ toP' = Outdate(in, oldAnswer)
      /\ toL' = Outdate(toL, oldReq) \o v.out

Here  == [l |-> l, out |-> <<>>]
There == [p |-> p, out |-> <<>>]

Receive ==
  /\ toL # <<>>
  /\ Step(Process(Here, Head(toL)), Tail(toL))
  /\ UNCHANGED <<p, lost, early>>

PeerReceive ==
  /\ toP # <<>>
  /\ PeerStep(PeerProcess(There, Head(toP)), Tail(toP))
  /\ UNCHANGED <<l, lost, early>>

Lose ==
  /\ lost < MaxLoss /\ lost' = lost + 1
  /\ \/ toL # <<>> /\ toL' = Tail(toL) /\ UNCHANGED toP
     \/ toP # <<>> /\ toP' = Tail(toP) /\ UNCHANGED toL
  /\ UNCHANGED <<l, p, early>>

Clock ==
  IF toL = <<>> /\ toP = <<>> /\ ~l.asked THEN UNCHANGED early
  ELSE early < MaxEarly /\ early' = early + 1

Running == {"RequestSent", "AckReceived", "AckSent"}

Timeout(x) ==
  /\ ~l.die /\ l.st[x] \in Running
  /\ Clock
  /\ Step(Retry(Here, x), toL)
  /\ UNCHANGED <<p, lost>>

\* radiusretry: the challenge once more.
ChapTimeout ==
  /\ ~l.die /\ l.chap > 0 /\ ~l.asked /\ ~l.ip
  /\ Clock
  /\ Step(SendChap(Here), toL)
  /\ UNCHANGED <<p, lost>>

RadiusAnswers ==
  /\ l.asked /\ ~l.die
  /\ Step(Accepted(Here), toL) \/ Step(Shutdown(Here), toL)
  /\ UNCHANGED <<p, lost, early>>

PeerTimeout(x) ==
  /\ p.st[x] \in Running /\ ~l.die
  /\ Clock
  /\ PeerStep(PeerState(PeerSend(There, x), x, IF p.st[x] = "AckSent" THEN "AckSent" ELSE "RequestSent"), toP)
  /\ UNCHANGED <<l, lost>>

PapTimeout ==
  /\ p.st["lcp"] = "Opened" /\ ~p.up /\ p.auth = "PAP" /\ ~l.die
  /\ Clock
  /\ PeerStep(Out(There, Pkt("auth", "Pap")), toP)
  /\ UNCHANGED <<l, lost>>

\* The peer closes a layer, for good if it is not LCP.
PeerClose(x) ==
  /\ p.st[x] = "Opened" /\ ~p.closed
  /\ LET v == Out([There EXCEPT !.p.closed = TRUE, !.p.st = [y \in Layer |-> IF y = x \/ x = "lcp" THEN "Closed" ELSE @[y]],
                               !.p.up = @ /\ x # "lcp"], Pkt(x, "TermReq"))
     IN  PeerStep(v, toP)
  /\ UNCHANGED <<l, lost, early>>

PeerReopen ==
  /\ p.closed /\ p.st["lcp"] = "Closed" /\ ~l.die
  /\ PeerStep(PeerState(PeerSend(There, "lcp"), "lcp", "RequestSent"), toP)
  /\ UNCHANGED <<l, lost, early>>

\* ICCN: the first request is sent at once.
Init ==
  LET w == SendReq([l |-> [phase |-> "Establish", st |-> [x \in Layer |-> IF x = "lcp" THEN "RequestSent" ELSE "Initial"],
                           conf |-> [x \in Layer |-> 0], authtype |-> Prefers, ip |-> FALSE, chap |-> 0,
                           asked |-> FALSE, die |-> FALSE], out |-> <<>>], "lcp")
      v(can) == PeerSend([p |-> [up |-> FALSE, st |-> [x \in Layer |-> IF x = "lcp" THEN "RequestSent" ELSE "Closed"],
                                 auth |-> "none", can |-> can, good |-> Layer \ Picky, closed |-> FALSE], out |-> <<>>], "lcp")
  IN  /\ l = w.l /\ toP = w.out
      /\ \E can \in SUBSET {"PAP", "CHAP"} : p = v(can).p /\ toL = v(can).out
      /\ lost = 0 /\ early = 0

Next ==
  \/ Receive \/ PeerReceive \/ Lose
  \/ \E x \in Layer : Timeout(x) \/ PeerTimeout(x) \/ PeerClose(x)
  \/ ChapTimeout \/ RadiusAnswers \/ PapTimeout \/ PeerReopen

\* Packets are handled and RADIUS answers.  The main loop calls
\* regular_cleanups again and again, and so does the peer's clock run: timers
\* of an end that can run out again and again do.
Fairness ==
  /\ WF_vars(Receive) /\ WF_vars(PeerReceive) /\ WF_vars(RadiusAnswers)
  /\ SF_vars(\E x \in Layer : Timeout(x))
  /\ SF_vars(\E x \in Ncps \cup {"lcp"} : PeerTimeout(x))
  /\ SF_vars(ChapTimeout \/ PapTimeout)

Spec == Init /\ [][Next]_vars /\ Fairness

-----------------------------------------------------------------------------
(* Properties. *)

State == {"Initial", "Stopped", "RequestSent", "AckReceived", "AckSent", "Opened", "Closing"}

\* The state of a session and the packets are of their kind, and no more
\* challenges are sent than MaxChap.
TypeOK ==
  /\ l \in [phase : Phase, st : [Layer -> State], conf : [Layer -> Nat], authtype : Auth,
            ip : BOOLEAN, chap : 0 .. MaxChap, asked : BOOLEAN, die : BOOLEAN]
  /\ p \in [up : BOOLEAN, st : [Layer -> State \cup {"Closed"}], auth : Auth, can : SUBSET Auth, good : SUBSET Layer, closed : BOOLEAN]
  /\ toL \in Seq(Packet) /\ toP \in Seq(Packet)
  /\ lost \in 0 .. MaxLoss /\ early \in 0 .. MaxEarly

\* No way to the Network phase but an Access-Accept, whatever the peer
\* acknowledges, naks or closes and however often LCP starts again.
ServiceNeedsLogin == l.phase = "Network" => l.ip

\* The network protocols live and die with LCP: whatever the order in which
\* restarts, answers from RADIUS and packets of all layers come in.
NcpNeedsNetwork ==
  /\ \A x \in {"ipcp", "ipv6cp", "ccp"} : (l.st[x] # "Initial") = (l.phase = "Network")
  /\ l.phase \in {"Authenticate", "Network"} => l.st["lcp"] = "Opened"

AtRest == toL = <<>> /\ toP = <<>> /\ \A x \in Layer : l.st[x] \notin Running /\ p.st[x] \notin Running

\* No link stays half open: with nothing under way and no restart timer
\* running, LCP and IPCP are open at both ends or at neither.
NoHalfOpen == AtRest /\ ~l.die /\ ~p.closed => \A x \in {"lcp", "ipcp"} : (l.st[x] = "Opened") = (p.st[x] = "Opened")

Up == /\ l.phase = "Network" /\ p.up
      /\ \A x \in {"lcp", "ipcp"} : l.st[x] = "Opened" /\ p.st[x] = "Opened"
      /\ \A x \in Layer : l.st[x] \notin Running

\* Whatever is lost or late, both ends come up together, the other protocols
\* up or given up, or the session ends, unless the peer closes a layer itself.
\* (IPV6CP and CCP may be given up here and open there: in Stopped an answer
\* that comes too late is ignored.)
Converges == <>[](Up \/ l.die \/ p.closed)

\* The phases come in their order: login before service, LCP under the rest.
PhasesInOrder == ServiceNeedsLogin /\ NcpNeedsNetwork

\* The layers of both ends are in states they know and, at rest, in the same.
LayersAgree == TypeOK /\ NoHalfOpen

=============================================================================
