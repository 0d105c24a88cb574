--------------------------------- MODULE Bgp ---------------------------------
(***************************************************************************)
(* The BGP speaker (src/bgp.c): one peer structure, its connection, and    *)
(* the router at the other end, an RFC 4271 speaker that the configuration *)
(* names.  bgp_process and bgp_process_peers_timers are one step each, as  *)
(* the main loop (src/l2tpns.c) calls them; other steps of the loop change *)
(* the tables of routes, the CLI sets its flag, and time passes.           *)
(*                                                                         *)
(* A TCP connection delivers messages in order, those of the router whole; *)
(* when one end closes it, what is under way to it is lost and the other   *)
(* end reads what it got and then end of file.  connect() never succeeds   *)
(* at once, an UPDATE has room for every withdrawn route, and memory is    *)
(* always there.                                                           *)
(*                                                                         *)
(* A timer is the seconds left until the time in the code's variable, -1   *)
(* once it has passed.                                                     *)
(***************************************************************************)
EXTENDS Integers, Sequences, FiniteSets, SequencesExt

CONSTANTS
  Route4, Route6,      \* IPv4 and IPv6 routes, numbers in the order of the lists
  InitKeep, InitHold,  \* init_keepalive and init_hold, after bgp_start
  PeerKeep, PeerHold,  \* of the router
  PeerKinds,           \* routers: with IPv6 ("mp"), without ("plain"), that refuse the capability ("nocap")
                       \* or any optional parameter ("old"), with another AS, version or hold time ("foreign")
  StateTime,           \* BGP_STATE_TIME
  Backoff,             \* BGP_RETRY_BACKOFF
  MaxRetry,            \* BGP_MAX_RETRY
  MaxFaults,           \* bound: connections refused, cut, ended by the router or restarted from the CLI
  MaxOps,              \* bound: changes of routes and commands
  MaxSlow              \* bound: full socket buffers and seconds in which something waits

ASSUME RoutesAreNats == Route4 \cup Route6 \subseteq Nat
ASSUME TimesAreNats  == {InitKeep, InitHold, PeerKeep, PeerHold, StateTime, Backoff, MaxRetry} \subseteq Nat
ASSUME HoldsAllowed  == InitHold >= 3 /\ PeerHold >= 3 /\ 3 * InitKeep <= InitHold /\ 3 * PeerKeep <= PeerHold

Family == {"v4", "v6"}
AllRoutes == [v4 |-> Route4, v6 |-> Route6]
States == {"Disabled", "Idle", "Connect", "Active", "OpenSent", "OpenConfirm", "Established"}

VARIABLES
  l,       \* struct bgp_peer
  conn,    \* the connection: "none", "syn", "refused", "up", "shut" by the router
  table,   \* bgp_routes and bgp_routes6
  p,       \* the router: state, rib, keepalive and hold timers, kind
  toL,     \* messages on their way here
  toP,     \* and to the router
  ran,     \* the main loop has come round this second
  faults, ops, slow

vars == <<l, conn, table, p, toL, toP, ran, faults, ops, slow>>

None == [type |-> "none", code |-> "none", fam |-> "v4", add |-> {}, del |-> {}]
Msg(t) == [None EXCEPT !.type = t]
Notice(c) == [None EXCEPT !.type = "NOTIFICATION", !.code = c]

NoRoutes == [f \in Family |-> {}]

-----------------------------------------------------------------------------
(* A call works on w: the peer structure and the connection with its ends;  *)
(* room (the socket takes all of a message now, some of it or none), err    *)
(* (a write fails), reach (connect() does not fail at once); and what       *)
(* it did: gone (bgp_clear was called), deaf (the other input was dropped). *)

\* The router without a connection.
Down(q) == [kind |-> q.kind, st |-> "down", rib |-> NoRoutes, keepT |-> 0, expT |-> 0]

\* bgp_clear: to next_state.
Clear(w) ==
  [w EXCEPT !.conn = "none", !.toL = <<>>, !.toP = <<>>, !.p = Down(@), !.gone = TRUE, !.deaf = TRUE,
            !.l = [@ EXCEPT !.keep = InitKeep, !.hold = InitHold, !.keepT = 0, !.expT = 0,
                            !.routes = NoRoutes, !.out = None, !.half = "no", !.in = <<>>, !.cli = "none",
                            !.stT = IF w.l.state = w.l.next THEN @ ELSE StateTime,
                            !.state = w.l.next]]

Halt(w) == Clear([w EXCEPT !.l.next = "Disabled"])

\* Mutant: the peer is never given up.
SetRetry_Always(w) ==
  LET n == w.l.count + 1
  IN  Clear([w EXCEPT !.l.count = n, !.l.retT = Backoff * n, !.l.next = "Idle"])

SetRetry(w) ==
  LET n == w.l.count + 1
  IN  IF w.l.count < MaxRetry
      THEN Clear([w EXCEPT !.l.count = n, !.l.retT = Backoff * n, !.l.next = "Idle"])
      ELSE Halt([w EXCEPT !.l.count = n])

Enter(w, s) == [w EXCEPT !.l.state = s, !.l.stT = StateTime]

\* bgp_write: the buffered message, and what waits for it to be out.  The rest
\* of one the socket took some of is looked for in the wrong place, which
\* fails or sends something else, and is never enough: the message stays.
Write(w) ==
  LET sent == [w EXCEPT !.l.out = None,
                        !.toP = IF w.conn = "up" THEN Append(@, w.l.out) ELSE @,
                        !.l.keepT = IF w.l.state = "Established" THEN w.l.keep ELSE @]
      rest == [w EXCEPT !.l.half = "stuck",
                        !.toP = IF w.conn = "up" /\ w.l.half = "part" THEN Append(@, Msg("garbled")) ELSE @]
      takes == w.conn = "shut" \/ (w.conn = "up" /\ w.room # "none")
  IN  CASE w.conn \in {"none", "refused"} \/ w.err -> SetRetry(w)
        [] ~w.err /\ (w.conn = "syn" \/ (w.conn = "up" /\ ~takes)) -> w
        [] ~w.err /\ takes /\ w.l.half # "no" -> rest
        [] ~w.err /\ takes /\ w.l.half = "no" ->
             CASE w.room = "some"                 -> [w EXCEPT !.l.half = "part"]
               [] w.room # "some" /\ w.l.state = w.l.next -> sent
               [] w.room # "some" /\ w.l.state # w.l.next ->
                    IF w.l.next \in {"Disabled", "Idle"} THEN Clear(sent) ELSE Enter(sent, w.l.next)

SendOpen(w) ==
  Write([w EXCEPT !.l.out = [Msg("OPEN") EXCEPT !.code = IF w.l.mp = "no" THEN "plain" ELSE "mp"],
                  !.l.next = "OpenSent"])

SendKeepalive(w) ==
  Write([w EXCEPT !.l.out = Msg("KEEPALIVE"),
                  !.l.next = IF w.l.state = "OpenSent" THEN "OpenConfirm" ELSE w.l.state])

SendNotification(w, c) ==
  Write([w EXCEPT !.l.out = Notice(c), !.l.half = "no", !.l.in = <<>>, !.deaf = TRUE,
                  !.l.next = IF c = "cease" THEN "Disabled" ELSE "Idle"])

\* Mutant: an UPDATE that announces a route withdraws none.
SendUpdate_OneSide(w, f) ==
  LET want == IF w.l.routing THEN table[f] ELSE {}
      del  == w.l.routes[f] \ want
      new  == want \ w.l.routes[f]
      add  == {r \in new : \A o \in new : r <= o}
      left == [w EXCEPT !.l.upd[f] = new # add]
  IN  IF del \cup add = {} THEN left
      ELSE Write([left EXCEPT !.l.routes[f] = (@ \ del) \cup add,
                              !.l.out = [Msg("UPDATE") EXCEPT !.fam = f, !.add = add, !.del = IF add = {} THEN del ELSE {}]])

\* Mutant: after one addition the update counts as complete.
SendUpdate_Complete(w, f) ==
  LET want == IF w.l.routing THEN table[f] ELSE {}
      del  == w.l.routes[f] \ want
      new  == want \ w.l.routes[f]
      add  == {r \in new : \A o \in new : r <= o}
      left == [w EXCEPT !.l.upd[f] = FALSE]
  IN  IF del \cup add = {} THEN left
      ELSE Write([left EXCEPT !.l.routes[f] = (@ \ del) \cup add,
                              !.l.out = [Msg("UPDATE") EXCEPT !.fam = f, !.add = add, !.del = del]])

\* bgp_send_update, bgp_send_update6: every withdrawal, one addition.
SendUpdate(w, f) ==
  LET want == IF w.l.routing THEN table[f] ELSE {}
      del  == w.l.routes[f] \ want
      new  == want \ w.l.routes[f]
      add  == {r \in new : \A o \in new : r <= o}
      left == [w EXCEPT !.l.upd[f] = new # add]
  IN  IF del \cup add = {} THEN left
      ELSE Write([left EXCEPT !.l.routes[f] = (@ \ del) \cup add,
                              !.l.out = [Msg("UPDATE") EXCEPT !.fam = f, !.add = add, !.del = del]])

Connect(w) ==
  IF w.reach THEN Enter([w EXCEPT !.conn = "syn"], "Connect") ELSE SetRetry(w)

Restart(w) ==
  LET idle == Clear([w EXCEPT !.l.next = "Idle"])
  IN  Connect([idle EXCEPT !.l.retT = 0, !.l.count = 0])

HandleConnect(w) ==
  IF w.conn = "refused" THEN SetRetry(w) ELSE SendOpen(Enter(w, "Active"))

\* Mutant: the interval between keepalives is not adapted.
Negotiated_OwnInterval(w, q) ==
  [w EXCEPT !.l.hold = IF PeerHold < @ THEN PeerHold ELSE @,
            !.l.mp = IF q.code = "mp" \/ @ = "yes" THEN "yes" ELSE "no"]

\* What an OPEN of the router settles.
Negotiated(w, q) ==
  LET hold == IF PeerHold < w.l.hold THEN PeerHold ELSE w.l.hold
  IN  [w EXCEPT !.l.hold = hold,
                !.l.keep = IF 3 * w.l.keep > hold THEN hold \div 3 ELSE w.l.keep,
                !.l.mp = IF q.code = "mp" \/ w.l.mp = "yes" THEN "yes" ELSE "no"]

Established(w) ==
  [Enter(w, "Established") EXCEPT !.l.next = "Established", !.l.keepT = w.l.keep, !.l.count = 0,
                                  !.l.retT = 0, !.l.upd["v4"] = TRUE]

\* bgp_handle_input, one message.
Handle(w, q) ==
  LET heard(t) == IF t.gone THEN t ELSE [t EXCEPT !.l.expT = t.l.hold]
  IN  CASE q.type = "OPEN" /\ w.l.state # "OpenSent" -> SendNotification(w, "fsm")
        [] q.type = "OPEN" /\ w.l.state = "OpenSent" /\ q.code = "foreign" -> SendNotification(w, "open")
        [] q.type = "OPEN" /\ w.l.state = "OpenSent" /\ q.code # "foreign" -> heard(SendKeepalive(Negotiated(w, q)))
        [] q.type = "KEEPALIVE" /\ w.l.state = "OpenConfirm" -> heard(Established(w))
        [] q.type = "NOTIFICATION" /\ q.code = "cease" -> SetRetry(w)
        [] q.type = "NOTIFICATION" /\ q.code = "param" -> SetRetry([w EXCEPT !.l.mp = "no"])
        [] q.type = "NOTIFICATION" /\ q.code = "cap" -> heard([w EXCEPT !.l.mp = "no"])
        [] OTHER -> heard(w)

\* All of the input, as long as there is room for an answer.
Input(w) ==
  LET next(t, q) == CASE t.deaf -> t
                      [] ~t.deaf /\ t.l.out # None -> [t EXCEPT !.l.in = Append(@, q)]
                      [] ~t.deaf /\ t.l.out = None -> Handle(t, q)
  IN  FoldLeft(next, [w EXCEPT !.l.in = <<>>, !.deaf = FALSE], w.l.in)

Timers(w) ==
  CASE w.l.state = "Established" /\ w.l.expT < 0 -> SendNotification(w, "hold")
    [] w.l.state = "Established" /\ w.l.expT >= 0 /\ w.l.keepT < 0 /\ w.l.out = None -> SendKeepalive(w)
    [] w.l.state = "Idle" /\ w.l.retT < 0 -> Connect(w)
    [] w.l.state \notin {"Established", "Idle"} /\ w.l.stT < 0 -> Restart(w)
    [] OTHER -> w


-----------------------------------------------------------------------------
(* The main loop. *)

Then(w, F(_)) == IF w.gone THEN w ELSE F(w)

\* What the CLI's flag asks for, but a restart.
Command(w) ==
  CASE w.l.cli = "suspend" /\ w.l.routing  -> [w EXCEPT !.l.routing = FALSE, !.l.cli = "none", !.l.upd["v4"] = @ \/ w.l.state = "Established"]
    [] w.l.cli = "enable"  /\ ~w.l.routing -> [w EXCEPT !.l.routing = TRUE, !.l.cli = "none", !.l.upd["v4"] = @ \/ w.l.state = "Established"]
    [] OTHER -> [w EXCEPT !.l.cli = "none"]

\* Events: bgp_set_poll asks for them, epoll_wait reports them.
Writable(room) ==
  /\ l.state = "Connect" \/ l.upd["v4"] \/ l.out # None
  /\ conn \in {"refused", "shut"} \/ (conn = "up" /\ room # "none")

Readable == toL # <<>> \/ conn \in {"refused", "shut"}

Output(w) ==
  CASE ~Writable(w.room) -> w
    [] Writable(w.room) /\ w.l.state = "Connect" -> HandleConnect(w)
    [] OTHER -> IF w.l.out # None THEN Write(w) ELSE w

\* bgp_read: what is there, or the end of it.
Read(w) ==
  CASE ~Readable -> w
    [] Readable /\ w.toL # <<>> -> [w EXCEPT !.l.in = @ \o w.toL, !.toL = <<>>]
    [] OTHER -> SetRetry(w)

Update(w, f) == IF w.l.upd[f] /\ w.l.out = None THEN SendUpdate(w, f) ELSE w

\* bgp_process.
Process(w) ==
  LET a == Then(Then(Command(w), Output), Read)
      b == Then(a, LAMBDA t : [Input(t) EXCEPT !.gone = FALSE])
      c == Then(Then(b, LAMBDA t : Update(t, "v4")), LAMBDA t : Update(t, "v6"))
  IN  CASE w.l.cli = "restart" -> Restart(w)
        [] w.l.cli # "restart" /\ w.l.state = "Disabled" -> w
        [] OTHER -> Then(c, Timers)

Here(room, err, reach) ==
  [l |-> l, conn |-> conn, p |-> p, toL |-> toL, toP |-> toP, room |-> room, err |-> err, reach |-> reach,
   gone |-> FALSE, deaf |-> FALSE]

Becomes(w) ==
  /\ l' = w.l /\ conn' = w.conn /\ p' = w.p /\ toL' = w.toL /\ toP' = w.toP

\* What a socket may do now: be full, and fail.
Room == {"all", "some", "none"}

MaySocket(room, err) ==
  /\ room # "all" => conn = "up" /\ slow < MaxSlow
  /\ err => conn = "shut" \/ l.half = "part"
  /\ slow' = IF room = "all" THEN slow ELSE slow + 1

\* One round of the main loop: with any event bgp_process, without one the
\* timers.
Loop ==
  \E room \in Room, err, reach \in BOOLEAN :
    /\ MaySocket(room, err)
    /\ ~reach => faults < MaxFaults
    /\ \/ Becomes(Process(Here(room, err, reach)))
       \/ /\ ~Writable(room) /\ ~Readable /\ l.state # "Disabled"
          /\ Becomes(Timers(Here(room, err, reach)))
    /\ faults' = IF reach THEN faults ELSE faults + 1
  /\ ran' = TRUE
  /\ UNCHANGED <<table, ops>>

\* Steps other parts of the program take between two rounds: routes come and
\* go, the cluster enables routing, the CLI asks for something, the program
\* shuts down.
Op    == ops < MaxOps /\ ops' = ops + 1
Fault == faults < MaxFaults /\ faults' = faults + 1

\* Mutant: peers are not flagged for an update.
Flagged_No(f, mp) == l

Flagged(f, mp) == [l EXCEPT !.upd[f] = @ \/ (l.state = "Established" /\ (mp => l.mp = "yes"))]

\* bgp_add_route, bgp_add_route6, bgp_del_route, bgp_del_route6
SetRoute(f, r) ==
  /\ Op
  /\ table' = [table EXCEPT ![f] = IF r \in @ THEN @ \ {r} ELSE @ \cup {r}]
  /\ l' = Flagged(f, f = "v6")
  /\ UNCHANGED <<conn, p, toL, toP, ran, faults, slow>>

EnableRouting(on) ==
  /\ Op
  /\ l' = [Flagged("v4", FALSE) EXCEPT !.routing = on]
  /\ UNCHANGED <<conn, table, p, toL, toP, ran, faults, slow>>

Cli(c) ==
  /\ \/ c = "restart" /\ Fault /\ UNCHANGED ops
     \/ c # "restart" /\ l.state = "Established" /\ l.routing = (c = "suspend") /\ Op /\ UNCHANGED faults
  /\ l' = [l EXCEPT !.cli = c]
  /\ UNCHANGED <<conn, table, p, toL, toP, ran, slow>>

\* still_busy stops the peers that are up.
Stop ==
  /\ Op /\ l.state = "Established"
  /\ \E room \in Room, err \in BOOLEAN :
       /\ MaySocket(room, err)
       /\ Becomes(SendNotification(Here(room, err, TRUE), "cease"))
  /\ UNCHANGED <<table, ran, faults>>

-----------------------------------------------------------------------------
(* The router and the network. *)

Accept ==
  /\ conn = "syn" /\ conn' = "up"
  /\ p' = [p EXCEPT !.st = "open", !.expT = PeerHold]
  /\ toL' = <<[Msg("OPEN") EXCEPT !.code = IF p.kind \in {"mp", "foreign"} THEN p.kind ELSE "plain"]>>
  /\ UNCHANGED <<l, table, toP, ran, faults, ops, slow>>

Refuse == conn = "syn" /\ Fault /\ conn' = "refused" /\ UNCHANGED <<l, table, p, toL, toP, ran, ops, slow>>

\* The router ends the connection with a message; what it has not read is lost.
Shut(said) ==
  /\ conn' = "shut" /\ p' = Down(p) /\ toP' = <<>> /\ toL' = said

Cut ==
  /\ conn = "up" /\ Fault
  /\ Shut(<<>>) \/ Shut(Append(toL, Notice("cease")))
  /\ UNCHANGED <<l, table, ran, ops, slow>>

Learnt(rib, q) == IF q.type = "UPDATE" THEN [rib EXCEPT ![q.fam] = (@ \ q.del) \cup q.add] ELSE rib

PeerSay(q, st) ==
  /\ p' = [p EXCEPT !.st = st, !.keepT = PeerKeep, !.expT = PeerHold]
  /\ toL' = Append(toL, q) /\ toP' = Tail(toP) /\ UNCHANGED conn

PeerReceive ==
  /\ toP # <<>>
  /\ LET q == Head(toP)
     IN  \/ q.type = "OPEN" /\ ~(p.kind \in {"old", "nocap"} /\ q.code = "mp") /\ PeerSay(Msg("KEEPALIVE"), "confirm")
         \/ q.type = "OPEN" /\ p.kind = "old" /\ q.code = "mp" /\ Shut(Append(toL, Notice("param")))
         \/ q.type = "OPEN" /\ p.kind = "nocap" /\ q.code = "mp" /\ Shut(Append(toL, Notice("cap")))
         \/ q.type = "garbled" /\ Shut(Append(toL, Notice("header")))
         \/ q.type = "UPDATE" /\ p.st # "up" /\ Shut(Append(toL, Notice("fsm")))
         \/ /\ q.type = "KEEPALIVE" \/ (q.type = "UPDATE" /\ p.st = "up")
            /\ p' = [p EXCEPT !.st = "up", !.expT = PeerHold, !.rib = Learnt(@, q)]
            /\ toP' = Tail(toP) /\ UNCHANGED <<conn, toL>>
  /\ UNCHANGED <<l, table, ran, faults, ops, slow>>

PeerTimers ==
  /\ \/ p.st \in {"confirm", "up"} /\ p.keepT < 0 /\ p.expT >= 0
        /\ toL' = Append(toL, Msg("KEEPALIVE")) /\ p' = [p EXCEPT !.keepT = PeerKeep] /\ UNCHANGED <<conn, toP>>
     \/ p.st # "down" /\ p.expT < 0 /\ Shut(Append(toL, Notice("hold")))
  /\ UNCHANGED <<l, table, ran, faults, ops, slow>>

Less(x) == IF x < 0 THEN x ELSE x - 1

\* Within a second everything under way arrives and the main loop comes
\* round, but for MaxSlow seconds.
Tick ==
  /\ ~(p.st # "down" /\ (p.expT < 0 \/ (p.st # "open" /\ p.keepT < 0)))
  /\ \/ ran /\ toL = <<>> /\ toP = <<>> /\ conn # "syn" /\ UNCHANGED slow
     \/ slow < MaxSlow /\ slow' = slow + 1
  /\ l' = [l EXCEPT !.keepT = Less(@), !.expT = Less(@), !.retT = Less(@), !.stT = Less(@)]
  /\ p' = IF p.st = "down" THEN p ELSE [p EXCEPT !.keepT = Less(@), !.expT = Less(@)]
  /\ ran' = FALSE
  /\ UNCHANGED <<conn, table, toL, toP, faults, ops>>

\* After bgp_setup and bgp_start, routing disabled.
Init ==
  /\ table = AllRoutes
  /\ l = [state |-> "Connect", next |-> "Idle", out |-> None, half |-> "no", in |-> <<>>, routing |-> FALSE,
          upd |-> [f \in Family |-> FALSE], routes |-> NoRoutes, keep |-> InitKeep, hold |-> InitHold,
          keepT |-> 0, expT |-> 0, retT |-> 0, stT |-> StateTime, count |-> 0, cli |-> "none", mp |-> "unknown"]
  /\ conn = "syn"
  /\ \E k \in PeerKinds : p = Down([kind |-> k])
  /\ toL = <<>> /\ toP = <<>> /\ ran = FALSE
  /\ faults = 0 /\ ops = 0 /\ slow = 0

Next ==
  \/ Loop \/ Tick \/ Stop \/ Accept \/ Refuse \/ Cut \/ PeerReceive \/ PeerTimers
  \/ \E f \in Family : \E r \in AllRoutes[f] : SetRoute(f, r)
  \/ \E on \in BOOLEAN : EnableRouting(on)
  \/ \E c \in {"suspend", "enable", "restart"} : Cli(c)

\* Time passes.  A second only ends when the main loop has come round, what
\* was sent has arrived and the router has kept its timers, so they do.
TimePasses == []<><<Tick>>_vars

Spec == Init /\ [][Next]_vars /\ TimePasses

-----------------------------------------------------------------------------
(* Properties. *)

Kinds == {"none", "OPEN", "KEEPALIVE", "UPDATE", "NOTIFICATION"}

\* The peer structure and the router keep to their types.  The count of
\* retries passes its limit by the one that gives up and, if an update was
\* flagged, by the attempt to send it although there is no connection.
TypeOK ==
  /\ l.state \in States /\ l.next \in States
  /\ l.out.type \in Kinds /\ (l.out = None => l.half = "no") /\ \A i \in DOMAIN l.in : l.in[i].type \in Kinds \ {"none"}
  /\ \A f \in Family : l.routes[f] \subseteq AllRoutes[f] /\ table[f] \subseteq AllRoutes[f] /\ p.rib[f] \subseteq AllRoutes[f]
  /\ l.keep \in 1 .. InitKeep /\ l.hold \in 3 .. InitHold /\ l.count \in 0 .. MaxRetry + 2
  /\ l.retT \in -1 .. Backoff * MaxRetry /\ l.stT \in -1 .. StateTime
  /\ conn \in {"none", "syn", "refused", "up", "shut"}
  /\ (l.state \in {"Disabled", "Idle"}) = (conn = "none")

Wanted(f) == IF l.routing THEN table[f] ELSE {}

\* What the router will hold once it has read all that was written.
Told == FoldLeft(Learnt, p.rib, IF l.out = None THEN toP ELSE Append(toP, l.out))

\* No route is left behind at the router: what it will have read is at most
\* what is written down as told, so that nothing is withdrawn that was never
\* compared; whatever was buffered, overwritten or cut off before.
NothingLeftBehind == conn = "up" => \A f \in Family : Told[f] \subseteq l.routes[f]

\* Neither end lets the hold timer run out on a network that is in time: the
\* keepalive interval is adapted to the hold time the router asked for, and
\* nothing else that is sent keeps a keepalive back for too long.
HoldKept == slow = 0 => /\ l.state = "Established" => l.expT >= 0
                        /\ p.st # "down" => p.expT >= 0

\* When faults and slow seconds end, a connection comes up and stays, or the
\* peer is given up or shut down: no order of events keeps it going up and
\* down.  Of a router whose OPEN is refused nothing is said: it is asked again
\* without a count or a pause (bgp_send_notification).
Settles == <>[](l.state \in {"Established", "Disabled"} \/ p.kind = "foreign")

\* A route that is gone, or not to be announced, is withdrawn in the end.
Withdrawn == ~(Told["v4"] \subseteq Wanted("v4")) ~> (Told["v4"] \subseteq Wanted("v4"))

\* Without a fault or a slow second the router in the end holds every IPv4 route.
AllTold == <>[](faults = 0 /\ slow = 0 /\ l.state # "Disabled" /\ p.kind # "foreign" => l.state = "Established" /\ p.rib["v4"] = Wanted("v4"))

\* As the comment in bgp.h has it, routes holds the routes known by this
\* peer: what it is compared with has been sent on this connection.
KnownRoutes == conn = "up" /\ l.state = "Established" => l.routes = Told

\* At every moment: what the router was told is written down, and no hold timer
\* runs out.
PeerKept == TypeOK /\ NothingLeftBehind /\ HoldKept

\* In the end the router holds the routes it should, and no others.
RoutesReach == Withdrawn /\ AllTold

=============================================================================
