-------------------------------- MODULE Access --------------------------------
(***************************************************************************)
(* l2tpns as an access concentrator: PPPoE clients (src/pppoe.c) whose     *)
(* calls are handed on to a remote LNS over a tunnel l2tpns opens itself   *)
(* (src/l2tplac.c).  A call handed on is two entries of the session table, *)
(* one facing the client, one the LNS, that name each other.               *)
(*                                                                         *)
(* The users of the clients in Masked match setforward in the              *)
(* configuration, the others are handed on when RADIUS says so.  The       *)
(* remote LNS of the configuration is entry 1 of pconfigrlns, those RADIUS *)
(* names are entered as they come.  PAP is used; PPP, accounting and the   *)
(* pool are in Ppp and Sessions.  The control connection keeps its         *)
(* promise, see ControlChannel: messages arrive once and in order, or the  *)
(* tunnel is given up.                                                     *)
(*                                                                         *)
(* An entry is freed 15 s after it is shut down.  The LNS and the client    *)
(* are taken to be through with it by then, as the program does.            *)
(***************************************************************************)
EXTENDS Integers, FiniteSets, Sequences, SequencesExt

CONSTANTS
  Clients,      \* hardware addresses of PPPoE clients
  Masked,       \* those the configuration hands on
  NoClient,     \* no address
  MaxSession,   \* highest session id
  Swap,         \* a session id with its two bytes exchanged
  MaxTunnel,    \* highest tunnel id; 1 stands for PPPoE
  MaxRadius,    \* highest RADIUS slot
  MaxConf,      \* highest entry of pconfigrlns
  ConfAddress,  \* the address of the configured remote LNS
  Named,        \* remote LNSs RADIUS may name: address and assignment id
  ServiceName,  \* pppoe_service_name
  OnlyEqual,    \* pppoe_only_equal_svc_name
  MaxRoute,     \* MAXROUTE
  Routed,       \* RADIUS also names a route for users it hands on
  MaxCalls,     \* bound: PADRs received
  MaxBreaks     \* bound: calls and tunnels broken off from outside

ASSUME MaskedAreClients == Masked \subseteq Clients /\ NoClient \notin Clients
ASSUME AccessBounds == {MaxSession, MaxRadius, MaxConf, MaxRoute, MaxCalls, MaxBreaks} \subseteq Nat /\ MaxTunnel > 1

Sid     == 0 .. MaxSession       \* 0 is no session, but it has an entry
Slot    == 1 .. MaxRadius
Call    == 1 .. MaxCalls
TunnelIdPppoe == 1
Tunnel  == 2 .. MaxTunnel
Conf    == 1 .. MaxConf

ASSUME SwapIsOnIds == Swap \in [Sid -> Sid]

VARIABLES
  m,        \* the tables, see TypeOK
  down,     \* for each tunnel, messages on their way from the LNS
  lns,      \* for each tunnel, what the LNS has of it: state and calls
  client,   \* for each client, the session id it was given, and the call
  calls,    \* for each PADR that opened a session, whose it was
  breaks

vars == <<m, down, lns, client, calls, breaks>>

\* A free entry.  call is not the code's: the PADR the entry is there for.
Closed == [opened |-> FALSE, die |-> FALSE, tunnel |-> 0, next |-> 0, fwd |-> 0, far |-> 0,
           mac |-> NoClient, lcp |-> FALSE, phase |-> "Dead", ip |-> FALSE, call |-> 0]

NoTunnel == [state |-> "FREE", isremotelns |-> 0, ip |-> 0, far |-> FALSE]
NoConf   == [state |-> "FREE", ip |-> 0, id |-> 0, auth |-> 0]
NoSlot   == [state |-> "NULL", session |-> 0]
NoPeer   == [state |-> "none", calls |-> {}]
Stopped  == [state |-> "stopped", calls |-> {}]
NoSid    == [sid |-> 0, call |-> 0]

SmallestOf(S) == CHOOSE x \in S : \A y \in S : x <= y

-----------------------------------------------------------------------------
(* Entries.  A handler takes tables and returns them; t.out collects the    *)
(* control messages it sends, each with its tunnel.                         *)

Say(t, tid, msg) == [t EXCEPT !.out = Append(@, <<tid, msg>>)]

RadiusClear(t, r, s) ==
  [t EXCEPT !.rad = IF r \in Slot THEN [@ EXCEPT ![r] = NoSlot] ELSE @,
            !.local[s] = IF s = 0 THEN @ ELSE 0]

\* Without the CDN.
SessionShutdown_Silently(t, s, cdn) ==
  IF ~t.sess[s].opened THEN t
  ELSE [t EXCEPT !.sess[s].die = TRUE, !.sess[s].phase = "Dead", !.sess[s].ip = FALSE]

\* A client is sent a PADT, and has noticed when the entry is freed, see After.
SessionShutdown(t, s, cdn) ==
  IF ~t.sess[s].opened THEN t
  ELSE LET dying == [t EXCEPT !.sess[s].die = TRUE, !.sess[s].phase = "Dead", !.sess[s].ip = FALSE]
       IN  IF cdn /\ t.sess[s].tunnel # TunnelIdPppoe
           THEN Say(dying, t.sess[s].tunnel, [type |-> "CDN", ours |-> s, far |-> t.sess[s].far])
           ELSE dying

SessionClear(t, s) ==
  [t EXCEPT !.sess[s] = [Closed EXCEPT !.next = t.free], !.local[s] = 0, !.free = s]

\* Without the linked one.
SessionKill_Alone(t, s, cdn) ==
  IF ~t.sess[s].opened \/ t.sess[s].next # 0 THEN t
  ELSE LET down1 == IF t.sess[s].die THEN t ELSE SessionShutdown(t, s, cdn)
       IN  SessionClear(IF down1.local[s] = 0 THEN down1 ELSE RadiusClear(down1, down1.local[s], s), s)

\* Without radiusclear.
SessionKill_KeepsSlot(t, s, cdn) ==
  IF ~t.sess[s].opened \/ t.sess[s].next # 0 THEN t
  ELSE LET down1  == IF t.sess[s].die THEN t ELSE SessionShutdown(t, s, cdn)
           linked == down1.sess[s].fwd
       IN  SessionClear(IF linked # 0 /\ down1.sess[linked].fwd = s
                        THEN SessionShutdown(down1, linked, TRUE) ELSE down1, s)

SessionKill(t, s, cdn) ==
  IF ~t.sess[s].opened \/ t.sess[s].next # 0 THEN t
  ELSE LET down1  == IF t.sess[s].die THEN t ELSE SessionShutdown(t, s, cdn)
           slot   == IF down1.local[s] = 0 THEN down1 ELSE RadiusClear(down1, down1.local[s], s)
           linked == slot.sess[s].fwd
           both   == IF linked # 0 /\ slot.sess[linked].fwd = s THEN SessionShutdown(slot, linked, TRUE) ELSE slot
       IN  SessionClear(both, s)

\* The head of the free list, looked at or not.
Pop(t) == [t EXCEPT !.free = t.sess[t.free].next, !.sess[t.free] = Closed]

\* f(u, s) for each session on tunnel tid, in ascending order.
OnTunnel(f(_, _), t, tid) ==
  FoldLeft(LAMBDA u, s : IF u.sess[s].tunnel = tid THEN f(u, s) ELSE u, t, [i \in 1 .. MaxSession |-> i])

\* With its sessions left where they are.
TunnelKill_KeepsSessions(t, tid, cdn) == [t EXCEPT !.tun[tid] = NoTunnel]

TunnelKill(t, tid, cdn) ==
  [OnTunnel(LAMBDA u, s : SessionKill(u, s, cdn), t, tid) EXCEPT !.tun[tid] = NoTunnel]

TunnelShutdown(t, tid, result) ==
  IF ~t.tun[tid].far THEN TunnelKill(t, tid, TRUE)
  ELSE LET quiet == [OnTunnel(LAMBDA u, s : SessionShutdown(u, s, FALSE), t, tid) EXCEPT !.tun[tid].state = "DIE"]
       IN  IF result THEN Say(quiet, tid, [type |-> "StopCCN"]) ELSE quiet

-----------------------------------------------------------------------------
(* Handing a session on. *)

SCCRQ(tid)      == [type |-> "SCCRQ", challenge |-> tid]
ICRQ(n, call)   == [type |-> "ICRQ", ours |-> n, call |-> call]

FreeTunnels(t) == {x \in Tunnel : t.tun[x].state = "FREE"}

\* A tunnel for remote LNS i.  The challenge kept for i is the last one made:
\* the tunnel it was made for stands for it.
NewTunnel(t, i) ==
  LET tid == SmallestOf(FreeTunnels(t))
  IN  Say([t EXCEPT !.tun[tid] = [state |-> "OPENING", isremotelns |-> i, ip |-> t.conf[i].ip, far |-> FALSE],
                    !.conf[i].auth = tid],
          tid, SCCRQ(tid))

\* Of a session that has only one end.
NewCall_OneWay(t, tid, s) ==
  LET n == t.free
      u == [Pop(t) EXCEPT !.sess[n] = [Closed EXCEPT !.opened = TRUE, !.tunnel = tid, !.phase = "Establish",
                                                     !.call = t.sess[s].call]]
  IN  Say([u EXCEPT !.sess[s].phase = "Establish", !.sess[s].fwd = n],
          tid, ICRQ(n, t.sess[s].call))

NewCall(t, tid, s) ==
  LET n == t.free
      u == [Pop(t) EXCEPT !.sess[n] = [Closed EXCEPT !.opened = TRUE, !.tunnel = tid, !.phase = "Establish",
                                                     !.call = t.sess[s].call]]
      v == [u EXCEPT !.sess[s].phase = "Establish"]
  IN  Say([v EXCEPT !.sess[s].fwd = n, !.sess[n].fwd = s],
          tid, ICRQ(n, t.sess[s].call))

\* lac_create_tunnelsession; tid 0 is no tunnel.  The result says whether the
\* session is being handed on.
LacCreate(t, tid, s, i) ==
  IF tid = 0
  THEN IF FreeTunnels(t) # {} THEN <<TRUE, NewTunnel(t, i)>> ELSE <<FALSE, t>>
  ELSE <<TRUE, IF t.tun[tid].state = "OPEN" THEN NewCall(t, tid, s) ELSE t>>

\* The first tunnel to that address, whoever it was opened for.
ConfForward(t, s) ==
  LET to == {x \in Tunnel : t.tun[x].isremotelns # 0 /\ t.tun[x].ip = t.conf[1].ip /\ t.tun[x].state # "DIE"}
  IN  IF to = {} THEN LacCreate(t, 0, s, 1)
      ELSE LacCreate([t EXCEPT !.tun[SmallestOf(to)].isremotelns = 1], SmallestOf(to), s, 1)

\* The entry for a remote LNS that RADIUS names: the first that is free, or is
\* for the same one.  There may be none left.
SaveRadTag(t, e) ==
  LET same(c) == c.state = "RADIUS" /\ c.ip = e.ip /\ c.id = e.id
      fits    == {i \in Conf : t.conf[i].state = "FREE" \/ same(t.conf[i])}
  IN  IF fits = {} THEN t
      ELSE [t EXCEPT !.conf[SmallestOf(fits)] = [state |-> "RADIUS", ip |-> e.ip, id |-> e.id, auth |-> @.auth]]

\* Taking no notice of a tunnel that is being opened.
RadForward_OpenOnly(t, s, id) ==
  LET of == {i \in Conf : t.conf[i].state = "RADIUS" /\ t.conf[i].id = id}
      to == {x \in Tunnel : of # {} /\ t.tun[x].isremotelns = SmallestOf(of) /\ t.tun[x].state = "OPEN"}
  IN  IF of = {} THEN <<FALSE, t>>
      ELSE LacCreate(t, IF to = {} THEN 0 ELSE SmallestOf(to), s, SmallestOf(of))

\* The first entry with the assignment id, whatever its address.
RadForward(t, s, id) ==
  LET of == {i \in Conf : t.conf[i].state = "RADIUS" /\ t.conf[i].id = id}
      to == {x \in Tunnel : /\ of # {} /\ t.tun[x].isremotelns = SmallestOf(of)
                            /\ t.tun[x].ip = t.conf[SmallestOf(of)].ip /\ t.tun[x].state \in {"OPEN", "OPENING"}}
  IN  IF of = {} THEN <<FALSE, t>>
      ELSE LacCreate(t, IF to = {} THEN 0 ELSE SmallestOf(to), s, SmallestOf(of))

-----------------------------------------------------------------------------
(* Frames. *)

\* What becomes of a frame of a PPPoE session s.
PppoeFrame(t, s) ==
  IF t.sess[s].tunnel # TunnelIdPppoe THEN "dropped"
  ELSE IF t.sess[s].fwd # 0 THEN "forwarded" ELSE "handled"

Remote(t, s) == t.sess[s].tunnel \in Tunnel /\ t.tun[t.sess[s].tunnel].isremotelns # 0

\* To whichever entry s names.
PppoeTarget_OneWay(t, s) == t.sess[s].fwd

\* The entry a frame of the client of s leaves by, or 0.
PppoeTarget(t, s) ==
  LET n == t.sess[s].fwd IN IF t.sess[n].fwd = s /\ Remote(t, n) THEN n ELSE 0

\* The entry a frame that came for s over a tunnel leaves by, or 0.
LacTarget(t, s) ==
  LET n == t.sess[s].fwd IN IF t.sess[n].fwd = s /\ (Remote(t, n) \/ Remote(t, s)) THEN n ELSE 0

-----------------------------------------------------------------------------
(* The LNS, which takes a message as soon as it is sent; its own take time.  *)

\* The LNS takes a message: what it has of the tunnel after it, and what it
\* answers.  A call is known by the id we gave it; its own id for it is the
\* call's number.
Answer(p, msg) ==
  IF p.state = "stopped" THEN <<p, <<>>>> ELSE
  CASE msg.type = "SCCRQ"     -> <<p, <<[type |-> "SCCRP", response |-> msg.challenge]>>>>
    [] msg.type = "SCCCN"   -> <<[p EXCEPT !.state = "open"], <<>>>>
    [] msg.type = "ICRQ"    -> <<[p EXCEPT !.calls = @ \cup {<<msg.ours, msg.call>>}],
                                 <<[type |-> "ICRP", ours |-> msg.ours, far |-> msg.call]>>>>
    [] msg.type = "ICCN"    -> <<p, <<>>>>
    [] msg.type = "CDN"     -> <<[p EXCEPT !.calls = {k \in @ : k[1] # msg.ours}], <<>>>>
    [] msg.type = "StopCCN" -> <<Stopped, <<>>>>

Takes(p, tid, out) ==
  FoldLeft(LAMBDA a, x : IF x[1] # tid THEN a ELSE <<Answer(a[1], x[2])[1], a[2] \o Answer(a[1], x[2])[2]>>,
           <<p, <<>>>>, out)

-----------------------------------------------------------------------------
(* Steps of l2tpns. *)

\* t are the tables after a handler, which has the messages in t.out to send,
\* and d what is still to come from the LNS.  Messages of a tunnel that is
\* gone are gone, and an LNS that was given up has given up too.
Sends(t, d) ==
  LET a == [tid \in Tunnel |-> IF t.tun[tid].state = "FREE" THEN <<NoPeer, <<>>>> ELSE Takes(lns[tid], tid, t.out)]
  IN  /\ m' = [t EXCEPT !.out = <<>>]
      /\ lns' = [tid \in Tunnel |-> a[tid][1]]
      /\ down' = [tid \in Tunnel |-> IF t.tun[tid].state = "FREE" THEN <<>> ELSE d[tid] \o a[tid][2]]

\* A client whose entry is freed has noticed.
After(t, d) ==
  /\ Sends(t, d)
  /\ client' = [c \in Clients |-> IF client[c].sid # 0 /\ m.sess[client[c].sid].opened
                                      /\ ~t.sess[client[c].sid].opened THEN NoSid ELSE client[c]]

Then(t) == \E u \in {t} : After(u, down)

\* Discovery frames: to whom, for which session, the service asked for ("" is
\* any), and whether the cookie is the one of our and the client's address.
Disc == [dest : {"us", "all", "other"}, sid : {0, 1}, name : {"", ServiceName, "another"}, cookie : BOOLEAN]

ProcessDisc(f) == f.dest \in {"us", "all"}

\* A PADI is answered with a PADO and the cookie.
AnswersPADI(f) ==
  /\ ProcessDisc(f) /\ f.sid = 0
  /\ IF f.name = "" THEN ~(OnlyEqual /\ ServiceName # "") ELSE ServiceName \in {"", f.name}

AcceptsPADR(f) ==
  /\ ProcessDisc(f) /\ f.dest # "all" /\ f.sid = 0
  /\ f.name = "" \/ ServiceName \in {"", f.name}
  /\ f.cookie

\* The first PADR or a repeated one, of a client that was sent a PADO.  The
\* PADS may be lost, and a client that has a session ignores it.
PADR(c) ==
  /\ Len(calls) < MaxCalls
  /\ \E f \in Disc, g \in Disc : AnswersPADI(f) /\ AcceptsPADR(g) /\ g.name = f.name
  /\ LET sid == m.free
         k   == Len(calls) + 1
     IN  /\ m' = [Pop(m) EXCEPT !.sess[sid] = [Closed EXCEPT !.opened = TRUE, !.tunnel = TunnelIdPppoe,
                                                             !.phase = "Establish", !.mac = c, !.call = k]]
         /\ \/ client[c].sid = 0 /\ sid # 0 /\ client' = [client EXCEPT ![c] = [sid |-> sid, call |-> k]]
            \/ UNCHANGED client
  /\ calls' = Append(calls, c)
  /\ UNCHANGED <<down, lns, breaks>>

\* The id of a PADT is taken as it is on the wire.
PADT(c) ==
  /\ client[c].sid # 0
  /\ LET x == Swap[client[c].sid]
     IN  Sends(IF m.sess[x].tunnel = TunnelIdPppoe THEN SessionShutdown(m, x, TRUE) ELSE m, down)
  /\ client' = [client EXCEPT ![c] = NoSid]
  /\ UNCHANGED <<calls, breaks>>

\* LCP is done, see Ppp; a client does it once.
LcpOpened(s) ==
  /\ m.sess[s].opened /\ ~m.sess[s].die /\ m.sess[s].tunnel = TunnelIdPppoe
  /\ m.sess[s].fwd = 0 /\ m.sess[s].phase = "Establish" /\ ~m.sess[s].lcp
  /\ m' = [m EXCEPT !.sess[s].phase = "Authenticate", !.sess[s].lcp = TRUE]
  /\ UNCHANGED <<down, lns, client, calls, breaks>>

AskRadius(t, s) ==
  LET free == {r \in Slot : t.rad[r].state = "NULL"}
      r    == IF t.local[s] # 0 THEN t.local[s] ELSE IF free = {} THEN 0 ELSE SmallestOf(free)
  IN  IF r = 0 THEN SessionShutdown(t, s, TRUE)
      ELSE [t EXCEPT !.local[s] = r, !.rad[r] = [state |-> "AUTH", session |-> s]]

\* The client's login, which it repeats until it is answered.
PAP(c) ==
  LET s == client[c].sid
      r == IF m.sess[s].mac \in Masked THEN ConfForward(m, s) ELSE <<FALSE, m>>
  IN  /\ s # 0 /\ PppoeFrame(m, s) = "handled"
      /\ m.sess[s].phase = "Authenticate"
      /\ Then(IF r[1] THEN r[2] ELSE AskRadius(m, s))
      /\ UNCHANGED <<calls, breaks>>

\* After the routes of a session handed on are cleared, the loop having
\* counted r instead of ro, the slot that is freed.
FreedSlot(r) == IF Routed /\ r < MaxRoute THEN r + 1 ELSE r

Setup(t, s) == [t EXCEPT !.sess[s].ip = TRUE, !.sess[s].phase = "Network"]

\* RADIUS accepts.  It names a remote LNS or none, and none for users of the
\* configuration.  A client whose tunnel has just been asked for is not
\* answered: it repeats its login.
Accept(r) ==
  LET s == m.rad[r].session
  IN  /\ m.rad[r].state = "AUTH"
      /\ \/ Then(RadiusClear(Setup(m, s), r, s))
         \/ /\ m.sess[s].mac \notin Masked
            /\ \E e \in Named : LET f == RadForward(SaveRadTag(m, e), s, e.id)
                              IN  Then(IF f[1] THEN RadiusClear([f[2] EXCEPT !.sess[s].ip = FALSE], FreedSlot(r), s)
                                               ELSE RadiusClear(Setup(f[2], s), r, s))
      /\ UNCHANGED <<calls, breaks>>

Reject(r) ==
  /\ m.rad[r].state = "AUTH"
  /\ Then(RadiusClear(SessionKill(m, m.rad[r].session, TRUE), r, m.rad[r].session))
  /\ UNCHANGED <<calls, breaks>>

\* The LNS knows the secret: its response is to the challenge we kept.
Proves(t, tid, msg) == msg.response = t.conf[t.tun[tid].isremotelns].auth

\* A message from the LNS.  The session is the one of its header, whatever
\* tunnel it came by.
Handle(t, tid, msg) ==
  CASE msg.type = "SCCRP" ->
         LET open == [t EXCEPT !.tun[tid].state = "OPEN", !.tun[tid].far = TRUE]
         IN  IF Proves(t, tid, msg) THEN Say(open, tid, [type |-> "SCCCN"])
             ELSE TunnelShutdown(open, tid, TRUE)
    [] msg.type = "ICRP" ->
         LET far == [t EXCEPT !.sess[msg.ours].far = msg.far]
         IN  IF t.sess[msg.ours].fwd = 0 THEN far
             ELSE Say([far EXCEPT !.sess[msg.ours].opened = TRUE, !.sess[msg.ours].tunnel = tid],
                      tid, [type |-> "ICCN", far |-> msg.far])
    [] msg.type = "CDN" -> SessionShutdown(t, msg.ours, FALSE)
    [] msg.type = "StopCCN" -> TunnelShutdown(t, tid, FALSE)

Receive(tid) ==
  /\ down[tid] # <<>>
  /\ \E t \in {Handle(m, tid, Head(down[tid]))} : After(t, [down EXCEPT ![tid] = Tail(@)])
  /\ UNCHANGED <<calls, breaks>>

\* No message on its way is about s.
Through(s) ==
  \A tid \in Tunnel : \A msg \in ToSet(down[tid]) : msg.type \in {"ICRP", "CDN"} => msg.ours # s

\* The cleaner, 15 s after an entry was shut down.
Cleanup(s) ==
  /\ s # 0 /\ m.sess[s].opened /\ m.sess[s].die /\ Through(s)
  /\ Then(SessionKill(m, s, TRUE))
  /\ UNCHANGED <<calls, breaks>>

\* A session ends: no answer to LCP, idle, time out, administrator.
Expire(s) ==
  /\ s # 0 /\ m.sess[s].opened /\ ~m.sess[s].die /\ breaks < MaxBreaks
  /\ Then(SessionShutdown(m, s, TRUE)) /\ breaks' = breaks + 1
  /\ UNCHANGED <<calls>>

CleanTunnel(tid) ==
  /\ m.tun[tid].state = "DIE" /\ down[tid] = <<>>
  /\ Then(TunnelKill(m, tid, TRUE))
  /\ UNCHANGED <<calls, breaks>>

\* The LNS has not acknowledged a message for too long.
GiveUp(tid) ==
  /\ m.tun[tid].state # "FREE" /\ breaks < MaxBreaks
  /\ Then(TunnelKill(m, tid, FALSE)) /\ breaks' = breaks + 1
  /\ UNCHANGED <<calls>>

DropTunnel(tid) ==
  /\ m.tun[tid].state \in {"OPENING", "OPEN"} /\ breaks < MaxBreaks
  /\ Then(TunnelShutdown(m, tid, TRUE)) /\ breaks' = breaks + 1
  /\ UNCHANGED <<calls>>

-----------------------------------------------------------------------------
(* The clients and the LNS. *)

LnsEndsCall(tid) ==
  /\ breaks < MaxBreaks
  /\ \E k \in lns[tid].calls :
       /\ lns' = [lns EXCEPT ![tid].calls = @ \ {k}]
       /\ down' = [down EXCEPT ![tid] = Append(@, [type |-> "CDN", ours |-> k[1]])]
  /\ breaks' = breaks + 1
  /\ UNCHANGED <<m, client, calls>>

LnsStops(tid) ==
  /\ breaks < MaxBreaks /\ lns[tid].state = "open"
  /\ lns' = [lns EXCEPT ![tid] = Stopped]
  /\ down' = [down EXCEPT ![tid] = Append(@, [type |-> "StopCCN"])]
  /\ breaks' = breaks + 1
  /\ UNCHANGED <<m, client, calls>>

-----------------------------------------------------------------------------
Init ==
  /\ m = [sess  |-> [s \in Sid |-> [Closed EXCEPT !.next = IF s \in {0, MaxSession} THEN 0 ELSE s + 1]],
          free  |-> IF MaxSession = 0 THEN 0 ELSE 1,
          tun   |-> [tid \in Tunnel |-> NoTunnel],
          conf  |-> [i \in Conf |-> IF i = 1 THEN [state |-> "SET", ip |-> ConfAddress, id |-> 0, auth |-> 0] ELSE NoConf],
          rad   |-> [r \in Slot |-> NoSlot],
          local |-> [s \in Sid |-> 0],
          out   |-> <<>>]
  /\ down = [tid \in Tunnel |-> <<>>]
  /\ lns = [tid \in Tunnel |-> NoPeer]
  /\ client = [c \in Clients |-> NoSid]
  /\ calls = <<>> /\ breaks = 0

Next ==
  \/ \E c \in Clients : PADR(c) \/ PADT(c) \/ PAP(c)
  \/ \E s \in Sid : LcpOpened(s) \/ Cleanup(s) \/ Expire(s)
  \/ \E r \in Slot : Accept(r) \/ Reject(r)
  \/ \E tid \in Tunnel : \/ Receive(tid) \/ CleanTunnel(tid) \/ GiveUp(tid) \/ DropTunnel(tid)
                         \/ LnsEndsCall(tid) \/ LnsStops(tid)

\* The timers run, the network and the servers answer, and a client repeats
\* its login until it is answered.
Fairness ==
  /\ WF_vars(\E s \in Sid : Cleanup(s))
  /\ \A tid \in Tunnel : WF_vars(Receive(tid)) /\ WF_vars(CleanTunnel(tid))
  /\ WF_vars(\E r \in Slot : Accept(r) \/ Reject(r))
  /\ \A c \in Clients : WF_vars(PAP(c))

Spec == Init /\ [][Next]_vars /\ Fairness

-----------------------------------------------------------------------------
(* Properties. *)

\* The tables hold what the program's do: a session is on no tunnel, PPPoE or
\* a tunnel that is in use; slots and links are ids.
TypeOK ==
  /\ m.free \in Sid
  /\ \A s \in Sid : LET e == m.sess[s] IN
       /\ e.opened \in BOOLEAN /\ e.die \in BOOLEAN /\ e.ip \in BOOLEAN
       /\ e.next \in Sid /\ e.fwd \in Sid /\ e.far \in Call \cup {0} /\ e.call \in Call \cup {0}
       /\ e.phase \in {"Dead", "Establish", "Authenticate", "Network"}
       /\ e.mac \in Clients \cup {NoClient}
       /\ ~e.opened => e.tunnel = 0
       /\ e.opened /\ s # 0 /\ e.tunnel # TunnelIdPppoe => m.tun[e.tunnel].state # "FREE"
  /\ m.local \in [Sid -> Slot \cup {0}]
  /\ \A r \in Slot : m.rad[r].session \in Sid
  /\ \A tid \in Tunnel : lns[tid].calls \subseteq Sid \X Call

Live(s) == m.sess[s].opened /\ ~m.sess[s].die

\* A session in use that is handed on names one that is open, is of the same
\* call and names it in turn; one of them faces a client and one an LNS
\* (l2tplac.c:330, l2tpns.c:2441).
LinksPaired ==
  \A s \in Sid \ {0} : Live(s) /\ m.sess[s].fwd # 0 =>
    LET n == m.sess[s].fwd
    IN  /\ m.sess[n].fwd = s /\ m.sess[n].opened /\ m.sess[n].call = m.sess[s].call
        /\ Cardinality({x \in {s, n} : m.sess[x].tunnel = TunnelIdPppoe}) = 1
        /\ \A x \in {s, n} : m.sess[x].tunnel \in Tunnel => m.tun[m.sess[x].tunnel].isremotelns # 0

\* A frame of a client goes to no call but its own at the LNS, and a frame of
\* a call of the LNS to no other client (l2tplac.c:461, pppoe.c:926).  The
\* call that got entry 0 when the table was full is another matter.
FramesStayInCall ==
  /\ \A c \in Clients :
       LET s == client[c].sid
           n == PppoeTarget(m, s)
       IN  s # 0 /\ PppoeFrame(m, s) = "forwarded" /\ n # 0 /\ m.sess[n].far # 0
             => calls[m.sess[n].far] = c
  /\ \A tid \in Tunnel : \A k \in lns[tid].calls :
       LET s == LacTarget(m, k[1])
       IN  k[1] # 0 /\ m.sess[k[1]].fwd # 0 /\ s # 0 /\ m.sess[s].tunnel = TunnelIdPppoe => m.sess[s].mac = calls[k[2]]

\* A RADIUS slot that waits for an answer is the one its session knows of
\* (radius.c:1016, radius.c:1083).
SlotsAgree ==
  \A r \in Slot : m.rad[r].state = "AUTH" /\ m.rad[r].session # 0 => m.local[m.rad[r].session] = r

\* Once RADIUS has answered, its slot is free ("finished with RADIUS",
\* radius.c:1082).
AnswerFreesItsSlot == [][\A r \in Slot : Accept(r) => m'.rad[r].state = "NULL"]_vars

\* The entries that are there for call k.
EntriesOf(k) == {s \in Sid \ {0} : m.sess[s].opened /\ m.sess[s].call = k}

\* When one end of a call is shut down, the other is too, and both entries are
\* freed (l2tpns.c:2441).
EndsTogether == \A k \in Call : (\E s \in EntriesOf(k) : m.sess[s].die) ~> (EntriesOf(k) = {})

\* An LNS does not keep a call l2tpns has ended (l2tpns.c:2311).
LnsLetsGo ==
  \A k \in Call : (Len(calls) >= k /\ EntriesOf(k) = {} /\ m.sess[0].call # k)
                  ~> (\A tid \in Tunnel : \A x \in lns[tid].calls : x[2] # k)

\* A client that goes on logging in is answered, handed on or shut down
\* (l2tplac.c:282, radius.c:1014).
LoginEnds ==
  \A c \in Clients : LET s == client[c].sid
                     IN  (s # 0 /\ m.sess[s].phase = "Authenticate")
                           ~> (client[c].sid = 0 \/ m.sess[client[c].sid].phase # "Authenticate")

\* The two entries of a call, its tunnels and its RADIUS slot know each other.
Linked == TypeOK /\ LinksPaired /\ SlotsAgree

\* A call ends at all its ends, and a login does not hang.
CallsEnd == EndsTogether /\ LnsLetsGo /\ LoginEnds

=============================================================================
