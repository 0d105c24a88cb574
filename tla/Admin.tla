------------------------------- MODULE Admin -------------------------------
(***************************************************************************)
(* The administrator's hand on live sessions.  A command line is a child   *)
(* process (cli.c, forked by cli_do) that reads the session table in       *)
(* shared memory and leaves what it wants done in the entry's requested    *)
(* actions; the main process performs them when the cleaner passes         *)
(* (regular_cleanups).  A RADIUS server reaches the same sessions with     *)
(* Disconnect and Change-of-Authorization requests (radius.c processdae).  *)
(* Both, and the Filter-Id of a login, attach named access lists, which    *)
(* count the sessions that use them.                                       *)
(*                                                                         *)
(* The children and the main process run in parallel and nothing locks: a  *)
(* child's writes of the shared words are steps of their own, `action |=   *)
(* ...` is two, and between reading action and clearing it the main        *)
(* process may be overtaken.  A child's search for its session is one      *)
(* step, as is all the main process does once it has read the action.  The *)
(* address and the port to snoop to are written and read as one (cli.c     *)
(* cmd_snoop), and the rates of a throttle, which a second command may     *)
(* reset before the cleaner reads them, are left out.  Every session has a *)
(* user name.                                                              *)
(*                                                                         *)
(* One tunnel carries all sessions and is entry 0 of the requested         *)
(* actions.  A filter stands for one direction (the other is the same code *)
(* once more), a throttle for its rate, an address for the session it is   *)
(* routed to.  PLUGIN_RADIUS_RESPONSE is autosnoop's and autothrottle's.   *)
(***************************************************************************)
EXTENDS Integers, FiniteSetsExt

CONSTANTS
  MaxSession,   \* MAXSESSION - 1
  User,         \* user names
  NoUser,       \* no user name given
  MaxFilter,    \* MAXFILTER, places for access lists
  Name,         \* access lists' names
  NoName,       \* the name of a free place
  Cli,          \* command line children
  MaxLogins,    \* bound on the sessions and tunnels brought up
  MaxCommands   \* bound on commands, DAE requests, and repeated Accepts and CDNs

ASSUME AdminBounds == {MaxSession, MaxFilter, MaxLogins, MaxCommands} \subseteq Nat
ASSUME NoNameIsNone == NoName \notin Name

Session == 1 .. MaxSession
Entry   == 0 .. MaxSession
Filter  == 1 .. MaxFilter
Kind    == {"kill", "snoop", "nosnoop", "throttle", "nothrottle", "filter", "nofilter"}
Id      == 0 .. MaxLogins + 1

VARIABLES
  t,        \* the tables in shared memory
  main,     \* what the cleaner has read: [on, e, bits]
  cli,      \* the command each child is at
  lost,     \* ghost: the calls whose action word was overwritten
  late,     \* ghost: <<entry, call>>: an action stored after the call was over
  left      \* [logins, commands] still allowed

vars == <<t, main, cli, lost, late, left>>

\* id (a ghost) tells the calls that use an entry apart; list does so for the
\* access lists in one place.
Free     == [opened |-> FALSE, die |-> FALSE, user |-> NoUser, walled |-> FALSE, id |-> 0,
             filter |-> 0, list |-> 0, snoop |-> 0, throttle |-> FALSE]
Unlisted == [name |-> NoName, used |-> 0, id |-> 0]

\* struct cli_session_actions: the action bits, the destination to snoop to
\* (known by the call it was given for) and the filter, -1 for none.  For whom
\* the bits were set and which list was meant are ghosts.
NoAction == [bits |-> {}, snoop |-> 0, filter |-> 0, whom |-> {}, list |-> 0]

Idle    == [op |-> "none", at |-> "idle", e |-> 0, id |-> 0, f |-> 0, name |-> NoName, word |-> NoAction]
Nothing == [on |-> FALSE, e |-> 0, bits |-> {}]

\* The configuration may define an access list.
Init ==
  /\ \E n \in Name \cup {NoName} :
       t = [sess |-> [s \in Session |-> Free], act |-> [e \in Entry |-> NoAction],
            list |-> [f \in Filter |-> [Unlisted EXCEPT !.name = IF f = 1 THEN n ELSE NoName]],
            tunnel |-> "free", tid |-> 0, spoilt |-> FALSE]
  /\ main = Nothing
  /\ cli = [p \in Cli |-> Idle]
  /\ lost = {} /\ late = {}
  /\ left = [logins |-> MaxLogins, commands |-> MaxCommands]

-----------------------------------------------------------------------------
(* Access lists. *)

\* find_filter: the place of the list of that name, else the first free one,
\* else 0 (the code's index is one less).
FindFilter(u, n) ==
  LET named == {f \in Filter : u.list[f].name = n}
      free  == {f \in Filter : u.list[f].name = NoName}
  IN  IF named # {} THEN Min(named) ELSE IF free # {} THEN Min(free) ELSE 0

\* What was found is not a free place.
Defined(u, n) == FindFilter(u, n) # 0 /\ u.list[FindFilter(u, n)].name # NoName

Count(u, f, n) == IF f = 0 THEN u ELSE [u EXCEPT !.list[f].used = @ + n]

\* Without the decrement.
FilterSession_Adds(u, s, f) ==
  IF ~u.sess[s].opened \/ f < 0 THEN u
  ELSE [Count(u, f, 1) EXCEPT
          !.sess[s].filter = f, !.sess[s].list = IF f = 0 THEN 0 ELSE u.list[f].id,
          !.spoilt = @ \/ u.sess[s].die]

\* filter_session.  That the session is being shut down, when its filter no
\* longer counts, is not looked at.
FilterSession(u, s, f) ==
  IF ~u.sess[s].opened \/ f < 0 THEN u
  ELSE [Count(Count(u, u.sess[s].filter, -1), f, 1) EXCEPT
          !.sess[s].filter = f, !.sess[s].list = IF f = 0 THEN 0 ELSE u.list[f].id,
          !.spoilt = @ \/ u.sess[s].die]

\* Filter-Id in an Access-Accept: a list that is defined is attached and
\* counted, whatever was attached before.
FilterId(u, s, n) ==
  IF ~Defined(u, n) THEN u
  ELSE LET f == FindFilter(u, n)
       IN  [Count(u, f, 1) EXCEPT
              !.sess[s].filter = f, !.sess[s].list = u.list[f].id,
              !.spoilt = @ \/ u.sess[s].die \/ u.sess[s].filter # 0]

-----------------------------------------------------------------------------
(* The ends of sessions and tunnels, as far as the actions and lists go. *)

\* The count is left as it is.
SessionShutdown_Uncounted(u, s) ==
  IF ~u.sess[s].opened THEN u ELSE [u EXCEPT !.sess[s].die = TRUE]

\* sessionshutdown.  The filter stays in the entry and is counted off again if
\* the session is shut down again.
SessionShutdown(u, s) ==
  IF ~u.sess[s].opened THEN u
  ELSE [Count(u, u.sess[s].filter, -1) EXCEPT
          !.sess[s].die = TRUE, !.spoilt = @ \/ (u.sess[s].die /\ u.sess[s].filter # 0)]

\* The requested actions stay.
SessionClear_KeepsActions(u, s) == [u EXCEPT !.sess[s] = Free]

SessionClear(u, s) == [u EXCEPT !.sess[s] = Free, !.act[s] = NoAction]

SessionKill(u, s) ==
  IF ~u.sess[s].opened THEN u
  ELSE SessionClear(IF u.sess[s].die THEN u ELSE SessionShutdown(u, s), s)

\* f(s, u) for each session in ascending order.
ForSessions(f(_, _), u) ==
  LET done[s \in 0 .. MaxSession] == IF s = 0 THEN u ELSE f(s, done[s - 1])
  IN  done[MaxSession]

TunnelKill(u) ==
  [ForSessions(LAMBDA s, v : SessionKill(v, s), u) EXCEPT
     !.tunnel = "free", !.tid = 0, !.act[0].bits = {}, !.act[0].whom = {}]

TunnelShutdown(u) ==
  IF u.tunnel = "free" THEN TunnelKill(u)
  ELSE [ForSessions(LAMBDA s, v : SessionShutdown(v, s), u) EXCEPT !.tunnel = "die"]

-----------------------------------------------------------------------------
(* Finding the session that is meant. *)

\* sessionbyuser: the first with that name, one that is being shut down too.
\* A walled garden user has not proved the name.
SessionByUser(u, n) ==
  LET those == {s \in Session : u.sess[s].opened /\ ~u.sess[s].walled /\ u.sess[s].user = n}
  IN  IF those = {} THEN 0 ELSE Min(those)

Live(u, s) == u.sess[s].opened /\ ~u.sess[s].die

IdOf(u, e) == IF e = 0 THEN u.tid ELSE u.sess[e].id

-----------------------------------------------------------------------------
(* The main process: calls. *)

Reckon(what) == left[what] > 0 /\ left' = [left EXCEPT ![what] = @ - 1]

TunnelUp ==
  /\ ~main.on /\ t.tunnel = "free" /\ Reckon("logins")
  /\ t' = [t EXCEPT !.tunnel = "open", !.tid = left.logins]
  /\ UNCHANGED <<main, cli, lost, late>>

\* A call and its login.  RADIUS may name a filter.
Login(s, n, walled, filter) ==
  /\ ~main.on /\ t.tunnel = "open" /\ ~t.sess[s].opened /\ Reckon("logins")
  /\ t' = FilterId([t EXCEPT !.sess[s] = [Free EXCEPT !.opened = TRUE, !.user = n,
                                            !.walled = walled, !.id = left.logins]], s, filter)
  /\ UNCHANGED <<main, cli, lost, late>>

\* The user authenticates once more, or an answer comes late.
LoginAgain(s, filter) ==
  /\ ~main.on /\ t.sess[s].opened /\ Reckon("commands")
  /\ t' = FilterId(t, s, filter)
  /\ UNCHANGED <<main, cli, lost, late>>

\* The peer, a timeout or the server ends the session; a CDN for one that is
\* being shut down shuts it down again.
End(s) ==
  /\ ~main.on /\ t.sess[s].opened
  /\ IF t.sess[s].die THEN Reckon("commands") ELSE UNCHANGED left
  /\ t' = SessionShutdown(t, s)
  /\ UNCHANGED <<main, cli, lost, late>>

\* After 15 s, or at once.
Kill(s) ==
  /\ ~main.on /\ t.sess[s].opened
  /\ t' = SessionKill(t, s)
  /\ UNCHANGED <<main, cli, lost, late, left>>

TunnelDown ==
  /\ ~main.on /\ t.tunnel = "open"
  /\ t' = TunnelShutdown(t)
  /\ UNCHANGED <<main, cli, lost, late, left>>

\* It has been shut down long enough, or a message got no answer in five tries.
TunnelExpire ==
  /\ ~main.on /\ t.tunnel # "free"
  /\ t' = TunnelKill(t)
  /\ UNCHANGED <<main, cli, lost, late, left>>

-----------------------------------------------------------------------------
(* The main process: requested actions. *)

\* regular_cleanups reads the action word: of every tunnel, and of the
\* sessions in use that are not being shut down.  One that its bundle's time
\* limit has shut down in this very pass is not passed over.
ReadActions(e) ==
  /\ ~main.on /\ t.act[e].bits # {} /\ (e # 0 => Live(t, e))
  /\ main' = [on |-> TRUE, e |-> e, bits |-> t.act[e].bits]
  /\ t' = t \/ (e # 0 /\ t' = SessionShutdown(t, e))
  /\ UNCHANGED <<cli, lost, late, left>>

Snoop(u, s, bits) ==
  [u EXCEPT !.sess[s].snoop = IF "nosnoop" \in bits THEN 0
                              ELSE IF "snoop" \in bits THEN u.act[s].snoop ELSE @]

Throttle(u, s, bits) ==
  [u EXCEPT !.sess[s].throttle = ("throttle" \in bits \/ @) /\ "nothrottle" \notin bits]

\* The index the child found may have got another list by now.
Filtered(u, s, bits) ==
  IF "nofilter" \in bits THEN FilterSession(u, s, 0)
  ELSE IF "filter" \notin bits THEN u
  ELSE LET f == u.act[s].filter
       IN  [FilterSession(u, s, f) EXCEPT !.spoilt = @ \/ (f > 0 /\ u.list[f].id # u.act[s].list)]

\* The drop waits for the other changes.
Perform_LastDrop(u, s, bits) ==
  IF "kill" \in bits /\ bits = {"kill"} THEN SessionShutdown(u, s)
  ELSE Filtered(Throttle(Snoop(u, s, bits), s, bits), s, bits)

\* A drop makes the other changes unnecessary; of two opposite ones the "no"
\* is obeyed.
Perform(u, s, bits) ==
  IF "kill" \in bits THEN SessionShutdown(u, s)
  ELSE Filtered(Throttle(Snoop(u, s, bits), s, bits), s, bits)

\* The word is cleared, with what was stored in it since it was read.
DoActions(e) ==
  LET cleared == [t EXCEPT !.act[e].bits = {}, !.act[e].whom = {}]
  IN  /\ main.on /\ main.e = e
      /\ t' = IF e = 0 THEN TunnelShutdown(cleared) ELSE Perform(cleared, e, main.bits)
      /\ lost' = IF t.act[e].bits = main.bits THEN lost ELSE lost \cup {IdOf(t, e)}
      /\ main' = Nothing
      /\ UNCHANGED <<cli, late, left>>

-----------------------------------------------------------------------------
(* The main process: RADIUS dynamic authorization. *)

\* A request: its code and the attributes the handler looks at.
Request ==
  [code : {"disconnect", "coa"}, port : Entry, ip : Entry, user : User \cup {NoUser},
   filter : Name \cup {NoName}, avp : {{}, {"intercept"}, {"throttle"}}]

\* The session the attributes name, or 0: each that is given must agree.  An
\* address leads only to a session that has not been shut down.
NamedBy(r) ==
  LET byPort == IF r.port # 0 /\ t.sess[r.port].opened THEN r.port ELSE 0
      byIp   == IF r.ip # 0 /\ Live(t, r.ip) THEN r.ip ELSE 0
      first  == IF r.port # 0 THEN byPort ELSE byIp
  IN  IF r.port = 0 /\ r.ip = 0 THEN SessionByUser(t, r.user)
      ELSE IF first = 0 \/ (r.ip # 0 /\ byIp # first) \/ (r.user # NoUser /\ t.sess[first].user # r.user)
      THEN 0 ELSE first

\* What the handler does not refuse: a Filter-Id is a list's, and the request
\* names a session.  (Nor does it do anything for a request with another
\* machine's NAS-IP-Address or one to authenticate only.)
Acceptable(r) ==
  /\ r.filter # NoName => Defined(t, r.filter)
  /\ r.port # 0 \/ r.ip # 0 \/ r.user # NoUser
  /\ NamedBy(r) # 0

\* The plugins reset the session, then the filter is the one given or none,
\* then the plugins see each attribute pair.
Change(u, s, r) ==
  LET filter == IF r.filter = NoName THEN 0 ELSE FindFilter(u, r.filter)
      reset  == [u EXCEPT !.sess[s].snoop = 0, !.sess[s].throttle = FALSE]
  IN  [FilterSession(reset, s, filter) EXCEPT
         !.sess[s].snoop = IF "intercept" \in r.avp THEN u.sess[s].id ELSE 0,
         !.sess[s].throttle = "throttle" \in r.avp]

ProcessDae(r) ==
  /\ ~main.on /\ Reckon("commands") /\ Acceptable(r)
  /\ t' = IF r.code = "disconnect" THEN SessionShutdown(t, NamedBy(r)) ELSE Change(t, NamedBy(r), r)
  /\ UNCHANGED <<main, cli, lost, late>>

-----------------------------------------------------------------------------
(* The children. *)

\* A command has found its entry; it goes on at step at.
Begin(p, op, at, e) ==
  /\ cli[p].at = "idle" /\ Reckon("commands")
  /\ cli' = [cli EXCEPT ![p] = [Idle EXCEPT !.op = op, !.at = at, !.e = e, !.id = IdOf(t, e)]]
  /\ UNCHANGED <<main, lost, late>>

\* cmd_drop_user passes the first session of that name to cmd_drop_session's
\* test.
DropUser(p, n) ==
  LET s == SessionByUser(t, n)
  IN  s # 0 /\ Live(t, s) /\ Begin(p, "kill", "load", s) /\ UNCHANGED t

DropSession(p, s) == Live(t, s) /\ Begin(p, "kill", "load", s) /\ UNCHANGED t

DropTunnel(p) == t.tunnel = "open" /\ Begin(p, "kill", "load", 0) /\ UNCHANGED t

SnoopUser(p, n) ==
  LET s == SessionByUser(t, n)
  IN  s # 0 /\ Begin(p, "snoop", "value", s) /\ UNCHANGED t

NoSnoopUser(p, n) ==
  LET s == SessionByUser(t, n)
  IN  s # 0 /\ Begin(p, "nosnoop", "load", s) /\ UNCHANGED t

ThrottleUser(p, n) ==
  LET s == SessionByUser(t, n)
  IN  s # 0 /\ ~t.sess[s].throttle /\ Begin(p, "throttle", "load", s) /\ UNCHANGED t

NoThrottleUser(p, n) ==
  LET s == SessionByUser(t, n)
  IN  s # 0 /\ t.sess[s].throttle /\ Begin(p, "nothrottle", "load", s) /\ UNCHANGED t

\* The entry's filter is set to "none" before anything is looked at.
FilterUser(p, n) ==
  LET s == SessionByUser(t, n)
  IN  /\ s # 0 /\ Begin(p, "filter", IF t.sess[s].filter = 0 THEN "value" ELSE "idle", s)
      /\ t' = [t EXCEPT !.act[s].filter = -1]

NoFilterUser(p, n) ==
  LET s == SessionByUser(t, n)
  IN  s # 0 /\ t.sess[s].filter # 0 /\ Begin(p, "nofilter", "load", s) /\ UNCHANGED t

Goto(p, at) == cli' = [cli EXCEPT ![p] = IF at = "idle" THEN Idle ELSE [@ EXCEPT !.at = at]]

\* The call the command was meant for is over.
Overtaken(p) == IdOf(t, cli[p].e) # cli[p].id

MarkLate(p) == late' = IF Overtaken(p) THEN late \cup {<<cli[p].e, cli[p].id>>} ELSE late

\* cmd_snoop writes the destination before the action.
SetSnoop(p) ==
  /\ cli[p].op = "snoop" /\ cli[p].at = "value"
  /\ t' = [t EXCEPT !.act[cli[p].e].snoop = cli[p].id]
  /\ Goto(p, "load") /\ MarkLate(p)
  /\ UNCHANGED <<main, lost, left>>

\* cmd_filter looks the list up and writes where it is.
SetFilter(p, n) ==
  LET f == FindFilter(t, n)
  IN  /\ cli[p].op = "filter" /\ cli[p].at = "value"
      /\ IF Defined(t, n)
         THEN /\ t' = [t EXCEPT !.act[cli[p].e].filter = f, !.act[cli[p].e].list = t.list[f].id]
              /\ Goto(p, "load") /\ MarkLate(p)
         ELSE Goto(p, "idle") /\ UNCHANGED <<t, late>>
      /\ UNCHANGED <<main, lost, left>>

\* action |= the bit: the word is loaded ...
Load(p) ==
  /\ cli[p].at = "load"
  /\ cli' = [cli EXCEPT ![p].word = t.act[cli[p].e], ![p].at = "store"]
  /\ UNCHANGED <<t, main, lost, late, left>>

\* ... and stored; the other fields of the entry are not touched.
Store(p) ==
  LET c == cli[p]
  IN  /\ c.at = "store"
      /\ t' = [t EXCEPT !.act[c.e].bits = c.word.bits \cup {c.op}, !.act[c.e].whom = c.word.whom \cup {c.id}]
      /\ lost' = IF t.act[c.e].bits \subseteq c.word.bits THEN lost ELSE lost \cup t.act[c.e].whom
      /\ late' = late \cup {<<c.e, i>> : i \in (c.word.whom \cup {c.id}) \ {IdOf(t, c.e)}}
      /\ Goto(p, "idle")
      /\ UNCHANGED <<main, left>>

\* access_list: a list's place is looked up and looked at.
AccessList(p, op, n) ==
  LET f == FindFilter(t, n)
  IN  /\ cli[p].at = "idle" /\ f # 0 /\ Reckon("commands")
      /\ IF op = "create" THEN ~Defined(t, n) ELSE Defined(t, n) /\ t.list[f].used = 0
      /\ cli' = [cli EXCEPT ![p] = [Idle EXCEPT !.op = op, !.at = "write", !.f = f, !.name = n]]
      /\ UNCHANGED <<t, main, lost, late>>

\* "racy": it is overwritten as it was found, whatever it is now.
WriteList(p) ==
  LET c == cli[p]
      n == IF c.op = "create" THEN c.name ELSE NoName
  IN  /\ c.at = "write"
      /\ t' = [t EXCEPT !.list[c.f] = [name |-> n, used |-> 0,
                                       id |-> IF n = NoName THEN 0 ELSE left.commands + 1],
                        !.spoilt = @ \/ t.list[c.f].used # 0]
      /\ Goto(p, "idle")
      /\ UNCHANGED <<main, lost, late, left>>

-----------------------------------------------------------------------------

Next ==
  \/ TunnelUp \/ TunnelDown \/ TunnelExpire
  \/ \E s \in Session :
       \/ \E n \in User, w \in BOOLEAN, f \in Name \cup {NoName} : Login(s, n, w, f)
       \/ \E f \in Name : LoginAgain(s, f)
       \/ End(s) \/ Kill(s)
  \/ \E e \in Entry : ReadActions(e) \/ DoActions(e)
  \/ \E r \in Request : ProcessDae(r)
  \/ \E p \in Cli :
       \/ \E n \in User :
            \/ DropUser(p, n) \/ SnoopUser(p, n) \/ NoSnoopUser(p, n) \/ ThrottleUser(p, n)
            \/ NoThrottleUser(p, n) \/ FilterUser(p, n) \/ NoFilterUser(p, n)
       \/ \E s \in Session : DropSession(p, s)
       \/ DropTunnel(p) \/ SetSnoop(p) \/ Load(p) \/ Store(p) \/ WriteList(p)
       \/ \E n \in Name : SetFilter(p, n) \/ AccessList(p, "create", n) \/ AccessList(p, "delete", n)

Spec == Init /\ [][Next]_vars

-----------------------------------------------------------------------------
(* Properties. *)

\* Every table holds values of its own kind.
TypeOK ==
  /\ t \in [sess : [Session -> [opened : BOOLEAN, die : BOOLEAN, user : User \cup {NoUser}, walled : BOOLEAN,
                                id : Id, filter : 0 .. MaxFilter, list : Nat, snoop : Id, throttle : BOOLEAN]],
            act : [Entry -> [bits : SUBSET Kind, snoop : Id, filter : -1 .. MaxFilter, whom : SUBSET Id,
                             list : Nat]],
            list : [Filter -> [name : Name \cup {NoName}, used : Int, id : Nat]],
            tunnel : {"free", "open", "die"}, tid : Id, spoilt : BOOLEAN]
  /\ main \in [on : BOOLEAN, e : Entry, bits : SUBSET Kind]
  /\ lost \subseteq Id /\ late \subseteq Entry \X Id

\* What waits to be done to an entry was asked for the call or tunnel that is
\* there now, and a user is intercepted only to where a command or RADIUS
\* named that very call: entries are used again, and nothing asked for an
\* earlier call is carried over.  The exception is an action stored after the
\* call it was for was over.
OnlyNamed ==
  /\ \A e \in Entry : (e # 0 => t.sess[e].opened) =>
       \A i \in t.act[e].whom : i = IdOf(t, e) \/ <<e, i>> \in late
  /\ \A s \in Session : t.sess[s].snoop \in {0, t.sess[s].id} \/ <<s, t.sess[s].snoop>> \in late

\* An access list counts the live sessions it filters, so one in use is never
\* taken away, and what filters a live session is the list it was given.  Not
\* so after one of these (spoilt): a filtered session that was being shut down
\* was shut down again, or given another filter; a second Access-Accept named
\* a filter; a list was overwritten, or its place used anew, between a child's
\* look at it and what came of it.
FiltersCounted ==
  ~t.spoilt => \A f \in Filter :
    LET users == {s \in Session : Live(t, s) /\ t.sess[s].filter = f}
    IN  t.list[f].used = Cardinality(users) /\ \A s \in users : t.sess[s].list = t.list[f].id

\* The tables are of their kind and the access lists count who uses them.
Counts == TypeOK /\ FiltersCounted

\* A drop leaves the action word only when the session or tunnel it is for
\* ends, or as part of a word that was overwritten.
DropsObeyed ==
  [][\A e \in Entry :
       "kill" \in t.act[e].bits /\ IdOf(t, e) \in t.act[e].whom /\ "kill" \notin t'.act[e].bits =>
       \/ IdOf(t, e) \in lost'
       \/ IdOf(t', e) # IdOf(t, e)
       \/ IF e = 0 THEN t'.tunnel # "open" ELSE ~Live(t', e)]_vars

=============================================================================
