------------------------------- MODULE Sessions -------------------------------
(***************************************************************************)
(* The session table of an LNS (src/l2tpns.c) with what hangs on it: the   *)
(* list of free ids, the pool of addresses, the RADIUS slots               *)
(* (src/radius.c), and the copy a slave takes over when the master dies    *)
(* (src/cluster.c).  Calls arrive, negotiate, are authenticated, brought   *)
(* up and ended while requests are answered late, twice or never and       *)
(* timers expire.                                                          *)
(*                                                                         *)
(* A handler is an operator from tables to tables, so that one that calls  *)
(* another is written as the code is.  Times are left out: a timer that    *)
(* runs may expire at any step.  User names are known only by whether two  *)
(* sessions have the same.  The configuration is the default one: RADIUS   *)
(* accounting on, duplicate addresses and users not allowed, no suicide;   *)
(* one tunnel, no bundles, no walled garden.  LCP asks for a login unless  *)
(* the session was taken over before it was up; a peer that negotiates     *)
(* again afterwards logs in as before.                                     *)
(***************************************************************************)
EXTENDS Integers, FiniteSets

CONSTANTS
  MaxSession,   \* highest session id
  MaxRadius,    \* highest RADIUS slot
  Pool,         \* addresses of ip_address_pool, named by their index there, below 2^16
  Framed,       \* addresses the RADIUS server may name, in the pool or not
  MaxCalls      \* bound: calls that arrive

ASSUME SizesArePositive == {MaxSession, MaxRadius, MaxCalls} \subseteq Nat \ {0}
ASSUME AddressesAreNats == Pool \cup Framed \subseteq Nat \ {0}

Sid  == 1 .. MaxSession
Slot == 1 .. MaxRadius
Call == 1 .. MaxCalls

VARIABLES
  m,        \* the master's tables, see TypeOK
  asked,    \* access requests the RADIUS server has seen: slot and call
  calls,    \* calls that have arrived
  failed    \* the first master is gone and the slave has taken over

vars == <<m, asked, calls, failed>>

Phase     == {"Dead", "Establish", "Authenticate", "Network"}
SlotState == {"NULL", "WAIT", "CHAP", "AUTH", "START", "STOP", "INTERIM"}

\* A free entry.  The last two fields are not the code's: the call an entry
\* is for, and the call the access request was for that was accepted.
Closed == [opened |-> FALSE, die |-> FALSE, next |-> 0, phase |-> "Dead", ip |-> 0,
           static |-> FALSE, started |-> FALSE, call |-> 0, granted |-> 0]

FreshSess == [s \in Sid |-> [Closed EXCEPT !.next = IF s = MaxSession THEN 0 ELSE s + 1]]

NoSlot == [state |-> "NULL", session |-> 0, auth |-> 0]

Least(S) == CHOOSE x \in S : \A y \in S : x <= y

\* f(i, t) for each session id in ascending order.
ForSessions(f(_, _), t) ==
  LET done[i \in 0 .. MaxSession] == IF i = 0 THEN t ELSE f(i, done[i - 1])
  IN  done[MaxSession]

-----------------------------------------------------------------------------
(* RADIUS slots. *)

\* The slot is cleared and the session still points to it.
RadiusClear_SlotOnly(t, r, s) == [t EXCEPT !.rad[r] = NoSlot]

RadiusClear(t, r, s) == [t EXCEPT !.rad[r] = NoSlot, !.local[s] = 0]

\* When all slots are taken, the one after the last.
SlotFor_Past(t, s) ==
  LET free == {r \in Slot : t.rad[r].state = "NULL"}
  IN  IF t.local[s] # 0 THEN t.local[s] ELSE IF free = {} THEN MaxRadius + 1 ELSE Least(free)

\* The slot radiusnew would give s, or 0: the one it has, or a free one.  The
\* lowest stands for the next one round: an id is used again as soon as can be.
SlotFor(t, s) ==
  LET free == {r \in Slot : t.rad[r].state = "NULL"}
  IN  IF t.local[s] # 0 THEN t.local[s] ELSE IF free = {} THEN 0 ELSE Least(free)

\* radiusnew.  The authenticator is random: calls are told apart by it.
RadiusNew(t, s) ==
  IF t.local[s] # 0 THEN t
  ELSE [t EXCEPT !.local[s] = SlotFor(t, s),
                 !.rad[SlotFor(t, s)] = [state |-> "WAIT", session |-> s, auth |-> t.sess[s].call]]

\* radiusnew and radiussend, with a slot to be had.
RadiusSend(t, s, state) ==
  [RadiusNew(t, s) EXCEPT !.rad[SlotFor(t, s)].state = state,
                          !.sent = @ \cup ({<<state, t.sess[s].call>>} \cap ({"START", "STOP"} \X Call))]

-----------------------------------------------------------------------------
(* Ending a session. *)

\* cluster_send_session: a slave has the entry as it is now after the next
\* heartbeat.  After a failover no slave is left.
Send(t, s) == IF failed THEN t ELSE [t EXCEPT !.copy[s] = t.sess[s]]

\* die is set before the Stop record's test looks at it.
Stop(t, s) ==
  IF t.sess[s].ip # 0 /\ ~t.sess[s].die /\ SlotFor(t, s) # 0 THEN RadiusSend(t, s, "STOP") ELSE t

\* Without free_ip_address.
FreeAddress_Keeps(t, s) == [t EXCEPT !.sess[s].ip = 0]

FreeAddress(t, s) ==
  LET a == t.sess[s].ip
  IN  [t EXCEPT !.sess[s].ip = 0,
                !.pool = IF a = 0 \/ t.sess[s].static THEN @ ELSE [@ EXCEPT ![a] = 0],
                !.late = IF t.sess[s].static THEN @ ELSE @ \ {a}]

SessionShutdown(t, s) ==
  IF ~t.sess[s].opened THEN t
  ELSE LET dying == [t EXCEPT !.sess[s].die = TRUE]
       IN  Send([FreeAddress(Stop(dying, s), s) EXCEPT !.sess[s].phase = "Dead"], s)

SessionClear(t, s) ==
  [t EXCEPT !.sess[s] = [Closed EXCEPT !.next = t.free], !.local[s] = 0, !.free = s]

\* Of an entry that is free already.
SessionKill_Twice(t, s) ==
  IF t.sess[s].opened /\ t.sess[s].next # 0 THEN t
  ELSE LET down    == IF t.sess[s].die THEN t ELSE SessionShutdown(t, s)
           cleared == IF down.local[s] = 0 THEN down ELSE RadiusClear(down, down.local[s], s)
       IN  Send(SessionClear(cleared, s), s)

\* Without radiusclear.
SessionKill_KeepsSlot(t, s) ==
  IF ~t.sess[s].opened \/ t.sess[s].next # 0 THEN t
  ELSE Send(SessionClear(IF t.sess[s].die THEN t ELSE SessionShutdown(t, s), s), s)

SessionKill(t, s) ==
  IF ~t.sess[s].opened \/ t.sess[s].next # 0 THEN t
  ELSE LET down    == IF t.sess[s].die THEN t ELSE SessionShutdown(t, s)
           cleared == IF down.local[s] = 0 THEN down ELSE RadiusClear(down, down.local[s], s)
       IN  Send(SessionClear(cleared, s), s)

-----------------------------------------------------------------------------
(* Bringing one up. *)

\* Addresses assign_ip_address may take for s: which of the unassigned ones
\* depends on who had them when.  0: the pool is exhausted.
Choices(t, s) ==
  LET free == {a \in Pool : t.pool[a] = 0}
  IN  IF t.sess[s].ip # 0 \/ free = {} THEN {0} ELSE free

Assign(t, s, a) ==
  [t EXCEPT !.sess[s].ip = a, !.sess[s].static = FALSE, !.pool[a] = s,
            !.late = IF t.sess[s].die THEN @ \cup {a} ELSE @]

\* By user name only.
ZapOld_Users(t, s, twins) ==
  ForSessions(LAMBDA i, u : IF i # s /\ i \in twins THEN SessionShutdown(u, i) ELSE u, t)

\* "zap old sessions with same IP and/or username"
ZapOld(t, s, twins) ==
  LET Zap(i, u) == IF i = s \/ ~u.sess[s].opened THEN u
                   ELSE IF u.sess[i].ip = u.sess[s].ip THEN SessionKill(u, i)
                   ELSE IF i \in twins THEN SessionShutdown(u, i) ELSE u
  IN  ForSessions(Zap, t)

SessionSetup(t, s, a, twins) ==
  LET has == IF a = 0 THEN t ELSE Assign(t, s, a)
  IN  IF has.sess[s].ip = 0 THEN SessionShutdown(t, s)
      ELSE Send([ZapOld(has, s, twins) EXCEPT !.sess[s].phase = "Network"], s)

-----------------------------------------------------------------------------
(* Actions. *)

\* The entry is not cleared first.
Opened_KeepsNext(t, s) ==
  [t EXCEPT !.free = t.sess[s].next,
            !.sess[s] = [Closed EXCEPT !.opened = TRUE, !.phase = "Establish", !.call = calls + 1, !.next = t.sess[s].next],
            !.noauth = @ \ {s}]

\* The head of the free list leaves it; the rest of the entry is cleared.  The
\* ICCN that follows says how the session is to authenticate itself.
Opened(t, s) ==
  [t EXCEPT !.free = t.sess[s].next,
            !.sess[s] = [Closed EXCEPT !.opened = TRUE, !.phase = "Establish", !.call = calls + 1],
            !.noauth = @ \ {s}]

\* ICRQ.  The peer's id may be one it has given to a session before.
Icrq ==
  \E dup \in {s \in Sid : m.sess[s].opened} \cup {0} :
    /\ m.free # 0
    /\ calls < MaxCalls
    /\ m' = IF dup # 0 THEN Opened(SessionKill(m, dup), dup) ELSE Opened(m, m.free)
    /\ calls' = calls + 1
    /\ UNCHANGED <<asked, failed>>

\* LCP comes up: authenticate, unless the session has an address or
\* lcp_authtype is 0; with CHAP the challenge is sent and takes a slot if there
\* is one.  A session that was taken over authenticates itself only if the peer
\* still answers a request of the old master that asked for it (ppp.c:595).
LcpUp(s) ==
  /\ m.sess[s].opened /\ m.sess[s].phase = "Establish"
  /\ \/ /\ m.sess[s].ip # 0 \/ s \in m.noauth
        /\ m' = Send([m EXCEPT !.sess[s].phase = "Network"], s)
     \/ /\ m.sess[s].ip = 0
        /\ LET t == Send([m EXCEPT !.sess[s].phase = "Authenticate"], s)
           IN  \/ m' = t
               \/ m' = IF SlotFor(t, s) = 0 THEN t ELSE RadiusSend(t, s, "CHAP")
  /\ UNCHANGED <<asked, calls, failed>>

\* The peer negotiates again.
LcpRestart(s) ==
  /\ m.sess[s].opened /\ ~m.sess[s].die /\ m.sess[s].phase \in {"Authenticate", "Network"}
  /\ m' = Send([m EXCEPT !.sess[s].phase = "Establish"], s)
  /\ UNCHANGED <<asked, calls, failed>>

\* PAP, or the answer to the challenge: ask the RADIUS server, unless a plugin
\* says not to go on.
Login(s) ==
  /\ m.sess[s].opened /\ m.sess[s].phase = "Authenticate"
  /\ IF SlotFor(m, s) = 0 THEN m' = SessionShutdown(m, s) /\ UNCHANGED asked
     ELSE \/ m' = RadiusNew(m, s) /\ UNCHANGED asked
          \/ /\ m' = RadiusSend(m, s, "AUTH")
             /\ asked' = asked \cup {[slot |-> SlotFor(m, s), call |-> m.sess[s].call]}
  /\ UNCHANGED <<calls, failed>>

\* Without comparing the authenticator.
Answered_Any(q, state) == m.rad[q.slot].state = state

\* The answer to an access request, now, late or once more.
Answered(q, state) ==
  /\ m.rad[q.slot].state = state
  /\ m.rad[q.slot].auth = q.call

Accept(q) ==
  LET s == m.rad[q.slot].session
  IN  /\ Answered(q, "AUTH")
      /\ \E ip \in Framed \cup {0}, twins \in SUBSET {i \in Sid : m.sess[i].opened /\ m.sess[i].phase # "Establish"} :
           LET e == [m.sess[s] EXCEPT !.ip = IF ip # 0 THEN ip ELSE @, !.static = (ip # 0) \/ @, !.granted = q.call]
               t == [m EXCEPT !.sess[s] = e]
           IN  \E a \in Choices(t, s) : m' = RadiusClear(SessionSetup(t, s, a, twins), q.slot, s)
      /\ UNCHANGED <<asked, calls, failed>>

Reject(q) ==
  LET s == m.rad[q.slot].session
  IN  /\ Answered(q, "AUTH")
      /\ m' = RadiusClear(SessionKill(m, s), q.slot, s)
      /\ UNCHANGED <<asked, calls, failed>>

\* The answer to an accounting request.
Acknowledged(r) ==
  /\ m.rad[r].state \in {"START", "STOP", "INTERIM"}
  /\ m' = RadiusClear(m, r, m.rad[r].session)
  /\ UNCHANGED <<asked, calls, failed>>

\* radiusretry, when no more tries are left; access requests keep the slot.
GiveUp(r) ==
  /\ m.rad[r].state # "NULL"
  /\ m' = IF m.rad[r].state \in {"CHAP", "AUTH"} THEN SessionShutdown(m, m.rad[r].session)
          ELSE RadiusClear(m, r, m.rad[r].session)
  /\ UNCHANGED <<asked, calls, failed>>

IpcpOpen(s) ==
  /\ m.sess[s].opened /\ m.sess[s].phase = "Network" /\ ~m.sess[s].started
  /\ SlotFor(m, s) # 0
  /\ m' = Send([RadiusSend(m, s, "START") EXCEPT !.sess[s].started = TRUE], s)
  /\ UNCHANGED <<asked, calls, failed>>

Interim(s) ==
  /\ m.sess[s].opened /\ ~m.sess[s].die /\ m.sess[s].ip # 0 /\ m.sess[s].started
  /\ m.local[s] = 0 /\ SlotFor(m, s) # 0
  /\ m' = RadiusSend(m, s, "INTERIM")
  /\ UNCHANGED <<asked, calls, failed>>

\* CDN, idle or session timeout, the administrator, PPP that does not come up,
\* a RADIUS Disconnect-Request: each ends in sessionshutdown.
Close(s) ==
  /\ m.sess[s].opened
  /\ m' = SessionShutdown(m, s)
  /\ UNCHANGED <<asked, calls, failed>>

Expire(s) ==
  /\ m.sess[s].opened /\ m.sess[s].die
  /\ m' = SessionKill(m, s)
  /\ UNCHANGED <<asked, calls, failed>>

TunnelShutdown ==
  /\ m' = ForSessions(LAMBDA s, t : SessionShutdown(t, s), m)
  /\ UNCHANGED <<asked, calls, failed>>

TunnelKill ==
  /\ m' = ForSessions(LAMBDA s, t : SessionKill(t, s), m)
  /\ UNCHANGED <<asked, calls, failed>>

-----------------------------------------------------------------------------
(* The pool is rebuilt. *)

\* cache_ipmap keeps a number in a sessionidt, which has no sign.
Stored(n) == n % 65536

\* As the author may have meant it.
Stored_Signed(n) == n

\* What rebuild_address_pool takes for the pool index of s's address: minus
\* what the address is mapped to, which for those of the pool has been set to
\* minus the index; other addresses are mapped to their session.
IpId(t, s) == -Stored(IF t.sess[s].ip \in Pool THEN -t.sess[s].ip ELSE s)

\* Every session that says its address is from the pool, or whose address is
\* found there, gets the index that was found; if none was, its address counts
\* as static from now on and the pool's entry stays unassigned.
RebuildAddressPool(t) ==
  LET pooled(s) == t.sess[s].opened /\ t.sess[s].ip # 0 /\ (t.sess[s].static => IpId(t, s) >= 1)
      has(a)    == {s \in Sid : pooled(s) /\ IpId(t, s) = a}
      owner     == [a \in Pool |-> IF has(a) = {} THEN 0 ELSE CHOOSE s \in has(a) : \A i \in has(a) : i <= s]
  IN  [t EXCEPT !.sess = [s \in Sid |-> IF pooled(s) THEN [t.sess[s] EXCEPT !.static = IpId(t, s) # t.sess[s].ip] ELSE t.sess[s]],
                !.pool = owner,
                !.late = {a \in Pool : owner[a] # 0 /\ t.sess[owner[a]].die}]

\* The command "ip-pool": a child process of the command line rebuilds the
\* pool, which it shares with the main process.  No slave is told.
AddIpPool ==
  /\ m' = RebuildAddressPool(m)
  /\ UNCHANGED <<asked, calls, failed>>

-----------------------------------------------------------------------------
(* The slave. *)

\* "Re-string the free list": the entries, not its head.
Restrung(tab) ==
  [s \in Sid |-> IF tab[s].opened THEN tab[s]
                 ELSE LET later == {i \in Sid : i > s /\ ~tab[i].opened}
                      IN  [Closed EXCEPT !.next = IF later = {} THEN 0 ELSE Least(later)]]

\* The master dies after a heartbeat.  The slave has every entry as it was
\* when it was last sent or, when the walk over the table has passed it
\* since, as it is.  sess_local is its own: no slots, and lcp_authtype is 0.
FailOver ==
  \E walked \in SUBSET Sid :
    LET tab == Restrung([s \in Sid |-> IF s \in walked THEN m.sess[s] ELSE m.copy[s]])
    IN  /\ ~failed /\ failed' = TRUE
        /\ m' = RebuildAddressPool([m EXCEPT !.sess = tab,
                                             !.local = [s \in Sid |-> 0],
                                             !.rad = [r \in Slot |-> NoSlot],
                                             !.noauth = Sid,
                                             !.copy = FreshSess, !.sent = {}])
        /\ asked' = {}     \* no slot has an old request's authenticator
        /\ UNCHANGED calls

-----------------------------------------------------------------------------
Init ==
  /\ m = [sess  |-> FreshSess, free |-> 1,
          local |-> [s \in Sid |-> 0],
          rad   |-> [r \in Slot |-> NoSlot],
          pool  |-> [a \in Pool |-> 0],
          noauth |-> {},
          copy |-> FreshSess, sent |-> {}, late |-> {}]
  /\ asked = {} /\ calls = 0 /\ failed = FALSE

Next ==
  \/ Icrq
  \/ \E s \in Sid : \/ LcpUp(s) \/ LcpRestart(s) \/ Login(s) \/ IpcpOpen(s)
                    \/ Interim(s) \/ Close(s) \/ Expire(s)
  \/ \E q \in asked : Accept(q) \/ Reject(q)
  \/ \E r \in Slot : Acknowledged(r) \/ GiveUp(r)
  \/ TunnelShutdown \/ TunnelKill
  \/ AddIpPool
  \/ FailOver

\* regular_cleanups comes round to every session and every slot.
Fairness ==
  /\ \A s \in Sid : WF_vars(Expire(s))
  /\ \A r \in Slot : WF_vars(GiveUp(r))

Spec == Init /\ [][Next]_vars /\ Fairness

-----------------------------------------------------------------------------
(* Properties. *)

Opens == {s \in Sid : m.sess[s].opened}

SessType ==
  [opened : BOOLEAN, die : BOOLEAN, next : 0 .. MaxSession, phase : Phase, ip : {0} \cup Pool \cup Framed,
   static : BOOLEAN, started : BOOLEAN, call : 0 .. MaxCalls, granted : 0 .. MaxCalls]

\* Every table holds values of its own kind.  late is not the code's: the pool
\* addresses given to a session that had already been shut down; neither is
\* sent: the accounting records of each call.
TypeOK ==
  /\ m \in [sess : [Sid -> SessType], free : 0 .. MaxSession,
            local : [Sid -> 0 .. MaxRadius],
            rad : [Slot -> [state : SlotState, session : 0 .. MaxSession, auth : 0 .. MaxCalls]],
            pool : [Pool -> 0 .. MaxSession], noauth : SUBSET Sid,
            copy : [Sid -> SessType], sent : SUBSET ({"START", "STOP"} \X Call), late : SUBSET Pool]
  /\ asked \subseteq [slot : Slot, call : Call]
  /\ calls \in 0 .. MaxCalls /\ failed \in BOOLEAN

\* The ids reached from the head of the free list in n steps, n = 1, 2, ...
\* (0 once the list has ended).
Chain ==
  LET at[n \in Sid] == IF n = 1 THEN m.free ELSE IF at[n - 1] = 0 THEN 0 ELSE m.sess[at[n - 1]].next
  IN  at

OnChain == {Chain[n] : n \in Sid} \ {0}

\* What ICRQ takes is a free id, and until a slave takes over the list holds
\* every free id and ends: however calls are opened, killed and opened again
\* under a number the peer uses twice, no id is on it twice or lost.  After a
\* failover ids may be lost (the head is the old master's) but none in use is
\* handed out.
FreeList ==
  /\ OnChain \cap Opens = {}
  /\ ~failed => /\ OnChain = Sid \ Opens
                /\ \A i, j \in Sid : i < j /\ Chain[i] # 0 => Chain[i] # Chain[j]

\* No two sessions have the same address: one taken from the pool, named by
\* RADIUS inside the pool or out of it, or carried over by a failover.  The
\* pool may give an address a second time, for it forgets those RADIUS named,
\* and all of them when it is rebuilt: whoever has it then must be gone before
\* the newcomer is up, however far his own end has got.
NoSharedAddress == \A s, i \in Opens : s # i /\ m.sess[s].ip # 0 => m.sess[s].ip # m.sess[i].ip

\* What the pool holds is true: a session whose address counts as one from the
\* pool is the one it is assigned to, and an address that is assigned belongs
\* to an open session.  It says nothing of addresses the pool does not know to
\* be in use, nor of those in m.late, which are lost: sessionsetup does not
\* look at die, and sessionkill does not take back what it gave.
PoolAgrees ==
  /\ \A s \in Opens : m.sess[s].ip \in Pool /\ ~m.sess[s].static => m.pool[m.sess[s].ip] = s
  /\ \A a \in Pool \ m.late : m.pool[a] # 0 => m.pool[a] \in Opens /\ m.sess[m.pool[a]].ip = a

\* That every assigned address belongs to an open session, those of m.late too.
\* Does not hold: an Access-Accept for a session that was shut down.
AddressesReturned == \A a \in Pool : m.pool[a] # 0 => m.pool[a] \in Opens /\ m.sess[m.pool[a]].ip = a

\* INTERNALS:195, of a slave that becomes master: "The mapping from the ippool
\* into the session table (and vice versa) is re-built."  Does not hold:
\* Stored has no sign.
PoolRebuilt ==
  [][failed' # failed =>
       \A s \in Sid : m'.sess[s].opened /\ m'.sess[s].ip \in Pool => m'.pool[m'.sess[s].ip] = s]_vars

\* A RADIUS slot and its session know each other: no slot outlives its session
\* or serves two, and an open session's slot is not lost.
SlotsPaired ==
  /\ \A r \in Slot : m.rad[r].state # "NULL" => m.rad[r].session \in Opens /\ m.local[m.rad[r].session] = r
  /\ \A s \in Sid : m.local[s] # 0 => m.rad[m.local[s]].state # "NULL" /\ m.rad[m.local[s]].session = s

\* A session is brought up by an answer to its own request: never by a late
\* one that was meant for an earlier call under the same session id or the
\* same RADIUS id.
AcceptIsForThatCall == \A s \in Opens : m.sess[s].granted \in {0, m.sess[s].call}

\* A session that has been shut down ends: its id is freed or used anew.
DyingEnds ==
  \A s \in Sid, c \in Call :
    (m.sess[s].die /\ m.sess[s].call = c) ~> ~(m.sess[s].opened /\ m.sess[s].call = c)

\* Every RADIUS slot comes back, whether the server answers or not and
\* whatever becomes of the session.
SlotsComeBack == \A r \in Slot : m.rad[r].state # "NULL" ~> m.rad[r].state = "NULL"

\* Docs/startup-config.5.pod:225: "a Stop record will be sent when the session
\* is closed."
StopFollowsStart ==
  ~failed => \A c \in Call : <<"START", c>> \in m.sent /\ (\A s \in Opens : m.sess[s].call # c)
                               => <<"STOP", c>> \in m.sent

\* The session table, its free list and the addresses fit together.
SessionTables == TypeOK /\ FreeList /\ NoSharedAddress /\ PoolAgrees

\* RADIUS slots serve the call that took them.
RadiusSlots == SlotsPaired /\ AcceptIsForThatCall

\* What was shut down or asked comes to its end.
SessionsEnd == DyingEnds /\ SlotsComeBack

=============================================================================
