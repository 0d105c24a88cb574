---------------------------- MODULE Admin_proofs ----------------------------
(***************************************************************************)
(* That what children ask for reaches the call it names, that access lists *)
(* are counted and that drops are obeyed, for any number of sessions,      *)
(* children and access lists, whichever way their steps interleave.        *)
(***************************************************************************)
EXTENDS Admin, Loops, FiniteSetTheorems

SessType ==
  [opened : BOOLEAN, die : BOOLEAN, user : User \cup {NoUser}, walled : BOOLEAN,
   id : Id, filter : 0 .. MaxFilter, list : Nat, snoop : Id, throttle : BOOLEAN]

ActType == [bits : SUBSET Kind, snoop : Id, filter : -1 .. MaxFilter, whom : SUBSET Id, list : Nat]

ListType == [name : Name \cup {NoName}, used : Int, id : Nat]

Tables ==
  [sess : [Session -> SessType], act : [Entry -> ActType], list : [Filter -> ListType],
   tunnel : {"free", "open", "die"}, tid : Id, spoilt : BOOLEAN]

\* An entry has the id of a call, and the tunnel one, exactly while it is in use.
Identified(u) ==
  /\ \A s \in Session : u.sess[s].opened <=> u.sess[s].id # 0
  /\ u.tunnel = "free" <=> u.tid = 0

\* Something asked for i of entry e is for what uses the entry, or came late.
For(u, e, i, L) == i = IdOf(u, e) \/ <<e, i>> \in L

Named(u, L) ==
  /\ \A e \in Entry : \A i \in u.act[e].whom : i # 0 /\ For(u, e, i, L)
  /\ \A s \in Session : /\ u.act[s].snoop = 0 \/ For(u, s, u.act[s].snoop, L)
                        /\ u.sess[s].snoop = 0 \/ For(u, s, u.sess[s].snoop, L)

Users(u, f) == {s \in Session : Live(u, s) /\ u.sess[s].filter = f}

Counted(u) ==
  ~u.spoilt => \A f \in Filter :
    u.list[f].used = Cardinality(Users(u, f)) /\ \A s \in Users(u, f) : u.sess[s].list = u.list[f].id

Good(u, L) == u \in Tables /\ Identified(u) /\ Named(u, L) /\ Counted(u)

\* A child's command: what it wants done is an action for some call, and what
\* it loaded of the word was too.
Command ==
  [op : Kind \cup {"none", "create", "delete"}, at : {"idle", "value", "load", "store", "write"},
   e : Entry, id : Id, f : 0 .. MaxFilter, name : Name \cup {NoName}, word : ActType]

CommandOk(c) ==
  /\ c \in Command
  /\ c.at \in {"value", "load", "store"} => c.op \in Kind /\ c.id # 0
  /\ c.at = "store" => 0 \notin c.word.whom
  /\ c.at = "write" => c.f \in Filter

\* The rest of the state.
Others ==
  /\ main \in [on : BOOLEAN, e : Entry, bits : SUBSET Kind]
  /\ cli \in [Cli -> Command] /\ \A p \in Cli : CommandOk(cli[p])
  /\ lost \subseteq Id /\ late \subseteq Entry \X Id
  /\ left \in [logins : 0 .. MaxLogins, commands : 0 .. MaxCommands]

IInv == Good(t, late) /\ Others

-----------------------------------------------------------------------------
(* Sets and tables. *)

LEMMA Sizes ==
  /\ MaxSession \in Nat /\ MaxFilter \in Nat /\ MaxLogins \in Nat /\ MaxCommands \in Nat
  /\ Session \subseteq Entry /\ Session \subseteq Nat /\ 0 \in Entry /\ 0 \notin Session
  /\ Filter \subseteq Nat /\ 0 \notin Filter /\ Filter = (0 .. MaxFilter) \ {0} /\ 0 \in Id
  /\ IsFiniteSet(Session)
<1>1. IsFiniteSet(Session)
  BY AdminBounds, FS_Interval DEF Session
<1> QED
  BY <1>1, AdminBounds DEF Session, Entry, Filter, Id

LEMMA Smallest ==
  ASSUME NEW S \in SUBSET Nat, S # {}
  PROVE  Min(S) \in S
<1>1. \E x \in S : \A y \in S : x =< y
  BY Lowest
<1> QED
  BY <1>1 DEF Min

LEMMA FindFilterOk ==
  ASSUME NEW u, NEW n
  PROVE  FindFilter(u, n) \in 0 .. MaxFilter /\ (FindFilter(u, n) # 0 => FindFilter(u, n) \in Filter)
<1> DEFINE named == {f \in Filter : u.list[f].name = n}
           free  == {f \in Filter : u.list[f].name = NoName}
<1>1. named \subseteq Filter /\ free \subseteq Filter /\ named \in SUBSET Nat /\ free \in SUBSET Nat
  BY Sizes
<1>2. FindFilter(u, n) = IF named # {} THEN Min(named) ELSE IF free # {} THEN Min(free) ELSE 0
  BY DEF FindFilter
<1> HIDE DEF named, free
<1>3. (named # {} => Min(named) \in Filter) /\ (free # {} => Min(free) \in Filter)
  BY <1>1, Smallest
<1>4. FindFilter(u, n) \in Filter \cup {0}
  BY <1>2, <1>3
<1> QED
  BY <1>4, Sizes

LEMMA DefinedOk ==
  ASSUME NEW u, NEW n, Defined(u, n)
  PROVE  FindFilter(u, n) \in Filter
BY FindFilterOk DEF Defined

LEMMA SessionByUserOk ==
  ASSUME NEW u, NEW n, SessionByUser(u, n) # 0
  PROVE  SessionByUser(u, n) \in Session /\ u.sess[SessionByUser(u, n)].opened
<1> DEFINE those == {s \in Session : u.sess[s].opened /\ ~u.sess[s].walled /\ u.sess[s].user = n}
<1>1. SessionByUser(u, n) = IF those = {} THEN 0 ELSE Min(those)
  BY DEF SessionByUser
<1>2. those \in SUBSET Nat /\ those \subseteq Session
  BY Sizes
<1>3. \A s \in those : u.sess[s].opened
  OBVIOUS
<1> HIDE DEF those
<1>4. those # {} /\ Min(those) \in those
  BY <1>1, <1>2, Smallest
<1> QED
  BY <1>1, <1>2, <1>3, <1>4

\* What the tables hold.
LEMMA Holds ==
  ASSUME NEW u \in Tables
  PROVE  /\ \A s \in Session : u.sess[s] \in SessType
         /\ \A e \in Entry : u.act[e] \in ActType
         /\ \A f \in Filter : u.list[f] \in ListType
         /\ \A e \in Entry : IdOf(u, e) \in Id
<1>1. ASSUME NEW e \in Entry PROVE IdOf(u, e) \in Id
  <2>1. CASE e = 0
    BY <2>1 DEF IdOf, Tables
  <2>2. CASE e # 0
    <3>1. e \in Session
      BY <2>2, Sizes DEF Entry, Session
    <3>2. u.sess[e] \in SessType
      BY <3>1 DEF Tables
    <3> QED
      BY <2>2, <3>2 DEF IdOf, SessType
  <2> QED
    BY <2>1, <2>2
<1> QED
  BY <1>1 DEF Tables

\* Session entry s is replaced by x, and so the tables are spoilt or not.
Put(u, s, x, b) == [u EXCEPT !.sess = [u.sess EXCEPT ![s] = x], !.spoilt = b]

LEMMA PutOk ==
  ASSUME NEW u \in Tables, NEW s \in Session, NEW x \in SessType, NEW b \in BOOLEAN
  PROVE  /\ Put(u, s, x, b) \in Tables
         /\ Put(u, s, x, b).sess[s] = x /\ Put(u, s, x, b).spoilt = b
         /\ \A i \in Session \ {s} : Put(u, s, x, b).sess[i] = u.sess[i]
         /\ Put(u, s, x, b).act = u.act /\ Put(u, s, x, b).list = u.list
         /\ Put(u, s, x, b).tunnel = u.tunnel /\ Put(u, s, x, b).tid = u.tid
<1> DEFINE g == [u.sess EXCEPT ![s] = x]
<1>1. g \in [Session -> SessType] /\ g[s] = x /\ \A i \in Session \ {s} : g[i] = u.sess[i]
  BY DEF Tables
<1>2. Put(u, s, x, b) = [u EXCEPT !.sess = g, !.spoilt = b]
  BY DEF Put
<1> HIDE DEF g
<1> QED
  BY <1>1, <1>2 DEF Tables

LEMMA CountOk ==
  ASSUME NEW u \in Tables, NEW f \in 0 .. MaxFilter, NEW n \in Int
  PROVE  /\ Count(u, f, n) \in Tables
         /\ Count(u, f, n).sess = u.sess /\ Count(u, f, n).act = u.act
         /\ Count(u, f, n).tunnel = u.tunnel /\ Count(u, f, n).tid = u.tid /\ Count(u, f, n).spoilt = u.spoilt
         /\ \A k \in Filter : /\ Count(u, f, n).list[k].id = u.list[k].id
                              /\ Count(u, f, n).list[k].used = u.list[k].used + IF k = f THEN n ELSE 0
<1>0. \A k \in Filter : u.list[k] \in ListType /\ u.list[k].used \in Int
  BY Holds DEF ListType
<1>1. CASE f = 0
  BY <1>0, <1>1, Sizes DEF Count
<1>2. CASE f # 0
  <2> DEFINE x == [u.list[f] EXCEPT !.used = @ + n]
             g == [u.list EXCEPT ![f] = x]
  <2>1. f \in Filter
    BY <1>2, Sizes
  <2>2. x \in ListType /\ x.id = u.list[f].id /\ x.used = u.list[f].used + n
    BY <1>0, <2>1 DEF ListType
  <2>3. Count(u, f, n) = [u EXCEPT !.list = g]
    BY <1>2 DEF Count
  <2> HIDE DEF x
  <2>4. g \in [Filter -> ListType] /\ g[f] = x /\ \A k \in Filter \ {f} : g[k] = u.list[k]
    BY <2>1, <2>2 DEF Tables
  <2> HIDE DEF g
  <2>5. Count(u, f, n) \in Tables /\ Count(u, f, n).list = g
    BY <2>3, <2>4 DEF Tables
  <2>6. \A k \in Filter : g[k].id = u.list[k].id /\ g[k].used = u.list[k].used + IF k = f THEN n ELSE 0
    BY <1>0, <2>1, <2>2, <2>4
  <2>7. /\ Count(u, f, n).sess = u.sess /\ Count(u, f, n).act = u.act
        /\ Count(u, f, n).tunnel = u.tunnel /\ Count(u, f, n).tid = u.tid /\ Count(u, f, n).spoilt = u.spoilt
    BY <2>3 DEF Tables
  <2> QED
    BY <2>5, <2>6, <2>7
<1> QED
  BY <1>1, <1>2

-----------------------------------------------------------------------------
(* Counting.  One session's entry changes, and with it the counts. *)

In(u, s, f) == IF Live(u, s) /\ u.sess[s].filter = f THEN 1 ELSE 0

LEMMA UsersCount ==
  ASSUME NEW u, NEW s \in Session, NEW f
  PROVE  /\ IsFiniteSet(Users(u, f)) /\ Cardinality(Users(u, f) \ {s}) \in Nat
         /\ Cardinality(Users(u, f)) = Cardinality(Users(u, f) \ {s}) + In(u, s, f)
<1>1. Users(u, f) \subseteq Session
  BY DEF Users
<1>2. IsFiniteSet(Users(u, f))
  BY <1>1, Sizes, FS_Subset
<1>3. /\ IsFiniteSet(Users(u, f) \ {s})
      /\ Cardinality(Users(u, f) \ {s})
           = IF s \in Users(u, f) THEN Cardinality(Users(u, f)) - 1 ELSE Cardinality(Users(u, f))
  BY <1>2, FS_RemoveElement
<1>4. Cardinality(Users(u, f)) \in Nat /\ Cardinality(Users(u, f) \ {s}) \in Nat
  BY <1>2, <1>3, FS_CardinalityType
<1>5. In(u, s, f) = IF s \in Users(u, f) THEN 1 ELSE 0
  BY DEF In, Users
<1> QED
  BY <1>2, <1>3, <1>4, <1>5

LEMMA CountedOne ==
  ASSUME NEW u \in Tables, NEW v \in Tables, Counted(u), NEW s \in Session,
         ~v.spoilt => ~u.spoilt,
         \A i \in Session \ {s} : v.sess[i] = u.sess[i],
         ~v.spoilt => \A f \in Filter :
           /\ v.list[f].id = u.list[f].id
           /\ v.list[f].used = u.list[f].used + In(v, s, f) - In(u, s, f)
           /\ In(v, s, f) = 1 => v.sess[s].list = v.list[f].id
  PROVE  Counted(v)
<1> SUFFICES ASSUME ~v.spoilt, NEW f \in Filter
             PROVE  /\ v.list[f].used = Cardinality(Users(v, f))
                    /\ \A i \in Users(v, f) : v.sess[i].list = v.list[f].id
  BY DEF Counted
<1>1. /\ u.list[f].used = Cardinality(Users(u, f))
      /\ \A i \in Users(u, f) : u.sess[i].list = u.list[f].id
  BY DEF Counted
<1>2. Users(v, f) \ {s} = Users(u, f) \ {s}
  BY DEF Users, Live
<1>3. In(u, s, f) \in {0, 1} /\ In(v, s, f) \in {0, 1}
  BY DEF In
<1>4. v.list[f].used = Cardinality(Users(v, f))
  <2> DEFINE rest == Cardinality(Users(u, f) \ {s})
  <2>1. rest \in Nat /\ Cardinality(Users(u, f)) = rest + In(u, s, f)
    BY UsersCount
  <2>2. Cardinality(Users(v, f)) = rest + In(v, s, f)
    BY <1>2, UsersCount
  <2>3. v.list[f].used = u.list[f].used + In(v, s, f) - In(u, s, f)
    OBVIOUS
  <2> HIDE DEF rest
  <2> QED
    BY <1>1, <1>3, <2>1, <2>2, <2>3
<1>5. ASSUME NEW i \in Users(v, f) PROVE v.sess[i].list = v.list[f].id
  <2>1. CASE i = s
    BY <1>5, <2>1 DEF In, Users
  <2>2. CASE i # s
    <3>1. i \in Users(u, f) /\ i \in Session \ {s}
      BY <1>2, <1>5, <2>2 DEF Users
    <3> QED
      BY <1>1, <3>1
  <2> QED
    BY <2>1, <2>2
<1> QED
  BY <1>4, <1>5

-----------------------------------------------------------------------------
(* The ends of sessions. *)

\* What a step that ends sessions leaves of the rest: the tunnel, and the words
\* of sessions that do not end; no session comes alive.
Ends(u, v) ==
  /\ v.tid = u.tid /\ v.tunnel = u.tunnel /\ v.act[0] = u.act[0]
  /\ \A s \in Session : Live(v, s) => Live(u, s) /\ v.act[s].bits = u.act[s].bits

\* What a step that changes attributes of sessions leaves of the rest.
Like(u, v) ==
  /\ v.act = u.act /\ v.tid = u.tid /\ v.tunnel = u.tunnel
  /\ \A s \in Session : /\ v.sess[s].opened = u.sess[s].opened /\ v.sess[s].id = u.sess[s].id
                        /\ v.sess[s].die = u.sess[s].die

LEMMA EndsTwice ==
  ASSUME NEW u, NEW v, NEW w, Ends(u, v), Ends(v, w)
  PROVE  Ends(u, w)
BY DEF Ends

LEMMA LikeEnds ==
  ASSUME NEW u, NEW v, Like(u, v)
  PROVE  Ends(u, v)
BY Sizes DEF Ends, Like, Live

\* The identities and what is asked for, when entries keep their ids.
LEMMA SameNamed ==
  ASSUME NEW u, NEW v, NEW L, Identified(u), Named(u, L), v.act = u.act, v.tid = u.tid, v.tunnel = u.tunnel,
         \A s \in Session :
           /\ v.sess[s].opened = u.sess[s].opened /\ v.sess[s].id = u.sess[s].id
           /\ v.sess[s].snoop \in {0, u.sess[s].id, u.act[s].snoop, u.sess[s].snoop}
  PROVE  Identified(v) /\ Named(v, L)
<1>1. \A e \in Entry : IdOf(v, e) = IdOf(u, e)
  BY DEF IdOf, Entry, Session
<1>2. \A e \in Entry : \A i : For(u, e, i, L) => For(v, e, i, L)
  BY <1>1 DEF For
<1>3. Identified(v)
  BY DEF Identified
<1>4. ASSUME NEW s \in Session PROVE v.sess[s].snoop = 0 \/ For(v, s, v.sess[s].snoop, L)
  <2>1. s # 0 /\ s \in Entry
    BY Sizes
  <2>2. For(u, s, u.sess[s].id, L)
    BY <2>1 DEF For, IdOf
  <2> QED
    BY <1>2, <2>1, <2>2 DEF Named
<1>5. Named(v, L)
  BY <1>2, <1>4, Sizes DEF Named
<1> QED
  BY <1>3, <1>5

\* A session that is shut down.
Dying(u, s) ==
  Put(Count(u, u.sess[s].filter, -1), s, [u.sess[s] EXCEPT !.die = TRUE],
      u.spoilt \/ (u.sess[s].die /\ u.sess[s].filter # 0))

LEMMA ShutdownIs ==
  ASSUME NEW u \in Tables, NEW s \in Session
  PROVE  SessionShutdown(u, s) = IF ~u.sess[s].opened THEN u ELSE Dying(u, s)
<1> DEFINE w == Count(u, u.sess[s].filter, -1)
<1>1. u.sess[s].filter \in 0 .. MaxFilter /\ -1 \in Int
  BY Holds DEF SessType
<1>2. w.sess = u.sess /\ w.spoilt = u.spoilt
  BY <1>1, CountOk
<1>3. SessionShutdown(u, s)
        = IF ~u.sess[s].opened THEN u
          ELSE [w EXCEPT !.sess[s].die = TRUE, !.spoilt = @ \/ (u.sess[s].die /\ u.sess[s].filter # 0)]
  BY DEF SessionShutdown
<1> HIDE DEF w
<1>4. [w EXCEPT !.sess[s].die = TRUE, !.spoilt = @ \/ (u.sess[s].die /\ u.sess[s].filter # 0)]
        = Put(w, s, [u.sess[s] EXCEPT !.die = TRUE], u.spoilt \/ (u.sess[s].die /\ u.sess[s].filter # 0))
  BY <1>2 DEF Put
<1> QED
  BY <1>3, <1>4 DEF Dying, w

LEMMA ShutdownOk ==
  ASSUME NEW u, NEW s \in Session, NEW L, Good(u, L)
  PROVE  /\ Good(SessionShutdown(u, s), L) /\ Ends(u, SessionShutdown(u, s))
         /\ ~Live(SessionShutdown(u, s), s)
         /\ SessionShutdown(u, s).act = u.act
<1>0. u \in Tables /\ Identified(u) /\ Named(u, L) /\ Counted(u)
  BY DEF Good
<1>1. CASE ~u.sess[s].opened
  BY <1>0, <1>1, ShutdownIs DEF Ends, Live
<1>2. CASE u.sess[s].opened
  <2> DEFINE w == Count(u, u.sess[s].filter, -1)
             x == [u.sess[s] EXCEPT !.die = TRUE]
             b == u.spoilt \/ (u.sess[s].die /\ u.sess[s].filter # 0)
             v == Put(w, s, x, b)
  <2>1. u.sess[s] \in SessType /\ u.sess[s].filter \in 0 .. MaxFilter /\ -1 \in Int
    BY <1>0, Holds DEF SessType
  <2>2. /\ w \in Tables /\ w.sess = u.sess /\ w.act = u.act /\ w.tunnel = u.tunnel /\ w.tid = u.tid
        /\ \A k \in Filter : /\ w.list[k].id = u.list[k].id
                             /\ w.list[k].used = u.list[k].used + IF k = u.sess[s].filter THEN -1 ELSE 0
    <3>1. ASSUME NEW f \in 0 .. MaxFilter, NEW n \in Int
          PROVE  /\ Count(u, f, n) \in Tables
                 /\ Count(u, f, n).sess = u.sess /\ Count(u, f, n).act = u.act
                 /\ Count(u, f, n).tunnel = u.tunnel /\ Count(u, f, n).tid = u.tid
                 /\ \A k \in Filter : /\ Count(u, f, n).list[k].id = u.list[k].id
                                      /\ Count(u, f, n).list[k].used = u.list[k].used + IF k = f THEN n ELSE 0
      BY <1>0, CountOk
    <3> QED
      BY <2>1, <3>1
  <2>3. /\ x \in SessType /\ x.opened = u.sess[s].opened /\ x.id = u.sess[s].id /\ x.snoop = u.sess[s].snoop
        /\ x.filter = u.sess[s].filter /\ x.die
    BY <2>1 DEF SessType
  <2>4. b \in BOOLEAN
    BY <1>0, <2>1 DEF Tables, SessType
  <2>5. SessionShutdown(u, s) = v
    BY <1>0, <1>2, ShutdownIs DEF Dying
  <2>6. (~b => ~u.spoilt) /\ (~b /\ u.sess[s].die => u.sess[s].filter = 0)
    OBVIOUS
  <2> HIDE DEF w, x, b
  <2>7. /\ v \in Tables /\ v.sess[s] = x /\ v.spoilt = b
        /\ \A i \in Session \ {s} : v.sess[i] = u.sess[i]
        /\ v.act = u.act /\ v.list = w.list /\ v.tunnel = u.tunnel /\ v.tid = u.tid
    BY <2>2, <2>3, <2>4, PutOk
  <2> HIDE DEF v
  <2>8. \A i \in Session : /\ v.sess[i].opened = u.sess[i].opened /\ v.sess[i].id = u.sess[i].id
                           /\ v.sess[i].snoop = u.sess[i].snoop
    BY <2>3, <2>7
  <2>9. Identified(v) /\ Named(v, L)
    BY <1>0, <2>7, <2>8, SameNamed
  <2>10. ~Live(v, s)
    BY <2>3, <2>7 DEF Live
  <2>11. Counted(v)
    <3>1. ASSUME ~v.spoilt, NEW f \in Filter
          PROVE  /\ v.list[f].id = u.list[f].id /\ In(v, s, f) = 0
                 /\ v.list[f].used = u.list[f].used + In(v, s, f) - In(u, s, f)
      <4>1. In(v, s, f) = 0
        BY <2>10 DEF In
      <4>2. In(u, s, f) = IF f = u.sess[s].filter THEN 1 ELSE 0
        BY <1>2, <2>6, <2>7, <3>1, Sizes DEF In, Live
      <4>3. u.list[f].used \in Int
        BY <1>0, Holds DEF ListType
      <4> QED
        BY <2>2, <2>7, <4>1, <4>2, <4>3
    <3> QED
      BY <1>0, <2>6, <2>7, <3>1, CountedOne
  <2>12. Ends(u, v)
    BY <2>7, <2>8, <2>10 DEF Ends, Live
  <2> QED
    BY <2>5, <2>7, <2>9, <2>10, <2>11, <2>12 DEF Good
<1> QED
  BY <1>1, <1>2
LEMMA Blank ==
  /\ Free \in SessType /\ ~Free.opened /\ Free.id = 0 /\ Free.snoop = 0 /\ Free.filter = 0
  /\ NoAction \in ActType /\ NoAction.whom = {} /\ NoAction.snoop = 0 /\ NoAction.bits = {}
BY Sizes DEF Free, NoAction, SessType, ActType

LEMMA ClearOk ==
  ASSUME NEW u, NEW s \in Session, NEW L, Good(u, L), ~Live(u, s)
  PROVE  Good(SessionClear(u, s), L) /\ Ends(u, SessionClear(u, s)) /\ ~Live(SessionClear(u, s), s)
<1> DEFINE x == Free
           a == NoAction
           g == [u.sess EXCEPT ![s] = x]
           h == [u.act EXCEPT ![s] = a]
           v == SessionClear(u, s)
<1>0. u \in Tables /\ Identified(u) /\ Named(u, L) /\ Counted(u) /\ s \in Entry /\ s # 0
  BY Sizes DEF Good
<1>1. v = [u EXCEPT !.sess = g, !.act = h]
  BY DEF SessionClear
<1>2. /\ x \in SessType /\ ~x.opened /\ x.id = 0 /\ x.snoop = 0 /\ x.filter = 0
      /\ a \in ActType /\ a.whom = {} /\ a.snoop = 0
  BY Blank
<1> HIDE DEF x, a, v
<1>3. /\ g \in [Session -> SessType] /\ g[s] = x /\ \A i \in Session \ {s} : g[i] = u.sess[i]
      /\ h \in [Entry -> ActType] /\ h[s] = a /\ \A e \in Entry \ {s} : h[e] = u.act[e]
  BY <1>0, <1>2 DEF Tables
<1> HIDE DEF g, h
<1>4. /\ v \in Tables /\ v.sess = g /\ v.act = h /\ v.list = u.list
      /\ v.tunnel = u.tunnel /\ v.tid = u.tid /\ v.spoilt = u.spoilt
  BY <1>0, <1>1, <1>3 DEF Tables
<1>5. \A e \in Entry \ {s} : IdOf(v, e) = IdOf(u, e) /\ \A i : For(u, e, i, L) => For(v, e, i, L)
  <2>1. ASSUME NEW e \in Entry \ {s} PROVE IdOf(v, e) = IdOf(u, e)
    <3>1. e # 0 => e \in Session \ {s}
      BY DEF Entry, Session
    <3> QED
      BY <1>3, <1>4, <3>1 DEF IdOf
  <2> QED
    BY <2>1 DEF For
<1>6. Identified(v)
  BY <1>0, <1>2, <1>3, <1>4 DEF Identified
<1>7. Named(v, L)
  <2>1. \A e \in Entry : \A i \in v.act[e].whom : i # 0 /\ For(v, e, i, L)
    BY <1>0, <1>2, <1>3, <1>4, <1>5 DEF Named
  <2>2. ASSUME NEW i \in Session
        PROVE  /\ v.act[i].snoop = 0 \/ For(v, i, v.act[i].snoop, L)
               /\ v.sess[i].snoop = 0 \/ For(v, i, v.sess[i].snoop, L)
    BY <1>0, <1>2, <1>3, <1>4, <1>5, Sizes DEF Named
  <2> QED
    BY <2>1, <2>2 DEF Named
<1>8. ~Live(v, s)
  BY <1>2, <1>3, <1>4 DEF Live
<1>9. Counted(v)
  <2>1. ASSUME NEW f \in Filter
        PROVE  /\ In(v, s, f) = 0 /\ In(u, s, f) = 0 /\ u.list[f].used \in Int
    BY <1>0, <1>8, Holds DEF In, ListType
  <2> QED
    BY <1>0, <1>3, <1>4, <2>1, CountedOne
<1>10. Ends(u, v)
  BY <1>0, <1>3, <1>4, <1>8, Sizes DEF Ends, Live
<1> QED
  BY <1>4, <1>6, <1>7, <1>8, <1>9, <1>10 DEF Good, v

LEMMA KillOk ==
  ASSUME NEW u, NEW s \in Session, NEW L, Good(u, L)
  PROVE  Good(SessionKill(u, s), L) /\ Ends(u, SessionKill(u, s)) /\ ~Live(SessionKill(u, s), s)
<1> DEFINE w == IF u.sess[s].die THEN u ELSE SessionShutdown(u, s)
<1>1. SessionKill(u, s) = IF ~u.sess[s].opened THEN u ELSE SessionClear(w, s)
  BY DEF SessionKill
<1>2. Good(w, L) /\ Ends(u, w) /\ ~Live(w, s)
  <2>1. CASE u.sess[s].die
    BY <2>1 DEF Ends, Live
  <2>2. CASE ~u.sess[s].die
    BY <2>2, ShutdownOk
  <2> QED
    BY <2>1, <2>2
<1> HIDE DEF w
<1>3. Good(SessionClear(w, s), L) /\ Ends(w, SessionClear(w, s)) /\ ~Live(SessionClear(w, s), s)
  BY <1>2, ClearOk
<1>4. Ends(u, SessionClear(w, s))
  BY <1>2, <1>3, EndsTwice
<1>5. ~u.sess[s].opened => Ends(u, u) /\ ~Live(u, s)
  BY DEF Ends, Live
<1> QED
  BY <1>1, <1>3, <1>4, <1>5

-----------------------------------------------------------------------------
(* Tunnels: loops over the sessions. *)

LEMMA AllShutdown ==
  ASSUME NEW u, NEW L, Good(u, L)
  PROVE  LET v == ForSessions(LAMBDA s, w : SessionShutdown(w, s), u) IN Good(v, L) /\ Ends(u, v)
<1> DEFINE T == {w \in Tables : Good(w, L) /\ Ends(u, w)}
           F == [p \in (1 .. MaxSession) \X T |-> SessionShutdown(p[2], p[1])]
           D == CHOOSE g : g = [i \in 0 .. MaxSession |-> IF i = 0 THEN u ELSE SessionShutdown(g[i - 1], i)]
<1>1. MaxSession \in Nat /\ u \in T
  BY Sizes DEF Good, Ends
<1>2. ASSUME NEW w \in T, NEW i \in Session
      PROVE  SessionShutdown(w, i) \in T
  <2>1. Good(SessionShutdown(w, i), L) /\ Ends(w, SessionShutdown(w, i))
    BY ShutdownOk
  <2>2. Ends(u, SessionShutdown(w, i))
    BY <2>1, EndsTwice
  <2> QED
    BY <2>1, <2>2 DEF Good
<1> HIDE DEF T
<1>3. F \in [(1 .. MaxSession) \X T -> T]
  BY <1>2 DEF Session
<1> HIDE DEF F
<1>4. PICK g \in [0 .. MaxSession -> T] : Rounds(MaxSession, F, u, g)
  BY <1>1, <1>3, LoopDefined
<1>5. ASSUME NEW i \in 1 .. MaxSession
      PROVE  g[i] = SessionShutdown(g[i - 1], i)
  <2>1. i - 1 \in 0 .. MaxSession
    BY <1>1
  <2>2. <<i, g[i - 1]>> \in (1 .. MaxSession) \X T
    BY <2>1
  <2>3. F[<<i, g[i - 1]>>] = SessionShutdown(g[i - 1], i)
    BY <2>2 DEF F
  <2> QED
    BY <1>4, <2>3 DEF Rounds
<1>6. g = [i \in 0 .. MaxSession |-> IF i = 0 THEN u ELSE SessionShutdown(g[i - 1], i)]
  <2>1. \A i \in 0 .. MaxSession : g[i] = IF i = 0 THEN u ELSE SessionShutdown(g[i - 1], i)
    BY <1>1, <1>4, <1>5 DEF Rounds
  <2> QED
    BY <2>1
<1>7. D = [i \in 0 .. MaxSession |-> IF i = 0 THEN u ELSE SessionShutdown(D[i - 1], i)]
  BY <1>6
<1> HIDE DEF D
<1> DEFINE S == {i \in 0 .. MaxSession : D[i] \in T}
<1>8. 0 \in S
  BY <1>1, <1>7
<1>9. ASSUME NEW i \in 0 .. MaxSession - 1, i \in S PROVE i + 1 \in S
  <2>1. i + 1 \in Session /\ i + 1 \in 0 .. MaxSession /\ i + 1 # 0 /\ (i + 1) - 1 = i
    BY <1>1 DEF Session
  <2>2. D[i + 1] = SessionShutdown(D[i], i + 1)
    BY <1>7, <2>1
  <2> QED
    BY <1>2, <1>9, <2>1, <2>2
<1> HIDE DEF S
<1>10. MaxSession \in S
  <2>1. \A i \in 0 .. MaxSession : i \in S
    BY <1>1, <1>8, <1>9, Induct
  <2> QED
    BY <1>1, <2>1
<1>11. ForSessions(LAMBDA s, w : SessionShutdown(w, s), u) = D[MaxSession]
  BY DEF ForSessions, D
<1> QED
  BY <1>10, <1>11 DEF S, T

LEMMA AllKill ==
  ASSUME NEW u, NEW L, Good(u, L)
  PROVE  LET v == ForSessions(LAMBDA s, w : SessionKill(w, s), u) IN Good(v, L) /\ Ends(u, v)
<1> DEFINE T == {w \in Tables : Good(w, L) /\ Ends(u, w)}
           F == [p \in (1 .. MaxSession) \X T |-> SessionKill(p[2], p[1])]
           D == CHOOSE g : g = [i \in 0 .. MaxSession |-> IF i = 0 THEN u ELSE SessionKill(g[i - 1], i)]
<1>1. MaxSession \in Nat /\ u \in T
  BY Sizes DEF Good, Ends
<1>2. ASSUME NEW w \in T, NEW i \in Session
      PROVE  SessionKill(w, i) \in T
  <2>1. Good(SessionKill(w, i), L) /\ Ends(w, SessionKill(w, i))
    BY KillOk
  <2>2. Ends(u, SessionKill(w, i))
    BY <2>1, EndsTwice
  <2> QED
    BY <2>1, <2>2 DEF Good
<1> HIDE DEF T
<1>3. F \in [(1 .. MaxSession) \X T -> T]
  BY <1>2 DEF Session
<1> HIDE DEF F
<1>4. PICK g \in [0 .. MaxSession -> T] : Rounds(MaxSession, F, u, g)
  BY <1>1, <1>3, LoopDefined
<1>5. ASSUME NEW i \in 1 .. MaxSession
      PROVE  g[i] = SessionKill(g[i - 1], i)
  <2>1. i - 1 \in 0 .. MaxSession
    BY <1>1
  <2>2. <<i, g[i - 1]>> \in (1 .. MaxSession) \X T
    BY <2>1
  <2>3. F[<<i, g[i - 1]>>] = SessionKill(g[i - 1], i)
    BY <2>2 DEF F
  <2> QED
    BY <1>4, <2>3 DEF Rounds
<1>6. g = [i \in 0 .. MaxSession |-> IF i = 0 THEN u ELSE SessionKill(g[i - 1], i)]
  <2>1. \A i \in 0 .. MaxSession : g[i] = IF i = 0 THEN u ELSE SessionKill(g[i - 1], i)
    BY <1>1, <1>4, <1>5 DEF Rounds
  <2> QED
    BY <2>1
<1>7. D = [i \in 0 .. MaxSession |-> IF i = 0 THEN u ELSE SessionKill(D[i - 1], i)]
  BY <1>6
<1> HIDE DEF D
<1> DEFINE S == {i \in 0 .. MaxSession : D[i] \in T}
<1>8. 0 \in S
  BY <1>1, <1>7
<1>9. ASSUME NEW i \in 0 .. MaxSession - 1, i \in S PROVE i + 1 \in S
  <2>1. i + 1 \in Session /\ i + 1 \in 0 .. MaxSession /\ i + 1 # 0 /\ (i + 1) - 1 = i
    BY <1>1 DEF Session
  <2>2. D[i + 1] = SessionKill(D[i], i + 1)
    BY <1>7, <2>1
  <2> QED
    BY <1>2, <1>9, <2>1, <2>2
<1> HIDE DEF S
<1>10. MaxSession \in S
  <2>1. \A i \in 0 .. MaxSession : i \in S
    BY <1>1, <1>8, <1>9, Induct
  <2> QED
    BY <1>1, <2>1
<1>11. ForSessions(LAMBDA s, w : SessionKill(w, s), u) = D[MaxSession]
  BY DEF ForSessions, D
<1> QED
  BY <1>10, <1>11 DEF S, T

\* A word that is changed is that of a session or tunnel that is not in use any more.
Leaves(u, v) ==
  \A e \in Entry : \/ v.act[e].bits = u.act[e].bits
                   \/ IF e = 0 THEN v.tunnel # "open" ELSE ~Live(v, e)

LEMMA EndsLeaves ==
  ASSUME NEW u, NEW v, Ends(u, v)
  PROVE  Leaves(u, v)
BY DEF Ends, Leaves, Entry, Session

\* The counts are about sessions and lists only.
LEMMA SameCounted ==
  ASSUME NEW u, NEW v, Counted(u), v.sess = u.sess, v.list = u.list, v.spoilt = u.spoilt
  PROVE  Counted(v)
<1>1. \A f : Users(v, f) = Users(u, f)
  BY DEF Users, Live
<1> QED
  BY <1>1 DEF Counted

LEMMA TunnelKillOk ==
  ASSUME NEW u, NEW L, Good(u, L)
  PROVE  Good(TunnelKill(u), L) /\ Leaves(u, TunnelKill(u)) /\ TunnelKill(u).tunnel = "free"
<1> DEFINE w == ForSessions(LAMBDA s, x : SessionKill(x, s), u)
           a == [w.act[0] EXCEPT !.bits = {}, !.whom = {}]
           h == [w.act EXCEPT ![0] = a]
           v == TunnelKill(u)
<1>1. Good(w, L) /\ Ends(u, w)
  BY AllKill
<1>2. v = [w EXCEPT !.tunnel = "free", !.tid = 0, !.act = h]
  BY DEF TunnelKill
<1> HIDE DEF w, v
<1>3. w \in Tables /\ Identified(w) /\ Named(w, L) /\ Counted(w) /\ w.act[0] \in ActType
  BY <1>1, Holds, Sizes DEF Good
<1>4. a \in ActType /\ a.whom = {}
  BY <1>3 DEF ActType
<1> HIDE DEF a
<1>5. h \in [Entry -> ActType] /\ h[0] = a /\ \A e \in Session : h[e] = w.act[e]
  BY <1>3, <1>4, Sizes DEF Tables
<1> HIDE DEF h
<1>6. /\ v \in Tables /\ v.tunnel = "free" /\ v.tid = 0 /\ v.act = h /\ v.sess = w.sess
      /\ v.list = w.list /\ v.spoilt = w.spoilt
  BY <1>2, <1>3, <1>5, Sizes DEF Tables
<1>7. \A e \in Session : \A i : For(w, e, i, L) => For(v, e, i, L)
  BY <1>6, Sizes DEF For, IdOf
<1>8. Identified(v)
  BY <1>3, <1>6 DEF Identified
<1>9. Named(v, L)
  <2>1. ASSUME NEW e \in Entry, NEW i \in v.act[e].whom PROVE i # 0 /\ For(v, e, i, L)
    <3>1. e \in Session
      BY <1>4, <1>5, <1>6, <2>1 DEF Entry, Session
    <3> QED
      BY <1>3, <1>5, <1>6, <1>7, <2>1, <3>1, Sizes DEF Named
  <2>2. ASSUME NEW s \in Session
        PROVE  /\ v.act[s].snoop = 0 \/ For(v, s, v.act[s].snoop, L)
               /\ v.sess[s].snoop = 0 \/ For(v, s, v.sess[s].snoop, L)
    BY <1>3, <1>5, <1>6, <1>7 DEF Named
  <2> QED
    BY <2>1, <2>2 DEF Named
<1>10. Counted(v)
  BY <1>3, <1>6, SameCounted
<1>11. Leaves(u, v)
  <2>1. ASSUME NEW e \in Entry, e # 0 PROVE v.act[e].bits = u.act[e].bits \/ ~Live(v, e)
    <3>1. e \in Session
      BY <2>1 DEF Entry, Session
    <3> QED
      BY <1>1, <1>5, <1>6, <3>1 DEF Ends, Live
  <2> QED
    BY <1>6, <2>1 DEF Leaves
<1> QED
  BY <1>6, <1>8, <1>9, <1>10, <1>11 DEF Good, v

LEMMA TunnelShutdownOk ==
  ASSUME NEW u, NEW L, Good(u, L)
  PROVE  Good(TunnelShutdown(u), L) /\ Leaves(u, TunnelShutdown(u)) /\ TunnelShutdown(u).tunnel # "open"
<1>1. CASE u.tunnel = "free"
  BY <1>1, TunnelKillOk DEF TunnelShutdown
<1>2. CASE u.tunnel # "free"
  <2> DEFINE w == ForSessions(LAMBDA s, x : SessionShutdown(x, s), u)
             v == [w EXCEPT !.tunnel = "die"]
  <2>1. Good(w, L) /\ Ends(u, w)
    BY AllShutdown
  <2>2. TunnelShutdown(u) = v
    BY <1>2 DEF TunnelShutdown
  <2> HIDE DEF w
  <2>3. w \in Tables /\ Identified(w) /\ Named(w, L) /\ Counted(w)
    BY <2>1 DEF Good
  <2>4. /\ v \in Tables /\ v.tunnel = "die" /\ v.tid = w.tid /\ v.act = w.act /\ v.sess = w.sess
        /\ v.list = w.list /\ v.spoilt = w.spoilt
    BY <2>3 DEF Tables
  <2> HIDE DEF v
  <2>5. w.tid # 0
    BY <1>2, <2>1, <2>3 DEF Ends, Identified
  <2>6. \A e \in Entry : \A i : For(w, e, i, L) => For(v, e, i, L)
    BY <2>4 DEF For, IdOf
  <2>7. Identified(v)
    BY <2>3, <2>4, <2>5 DEF Identified
  <2>8. Named(v, L)
    BY <2>3, <2>4, <2>6, Sizes DEF Named
  <2>9. Counted(v)
    BY <2>3, <2>4, SameCounted
  <2>10. Leaves(u, v)
    <3>1. Leaves(u, w)
      BY <2>1, EndsLeaves
    <3> QED
      BY <2>4, <3>1 DEF Leaves, Live
  <2> QED
    BY <2>2, <2>4, <2>7, <2>8, <2>9, <2>10 DEF Good
<1> QED
  BY <1>1, <1>2

-----------------------------------------------------------------------------
(* Access lists.  An open session gets filter f, and the counts follow.     *)

\* Entry x is for the same call as y.
SameCall(x, y) == x.opened = y.opened /\ x.die = y.die /\ x.id = y.id

\* The lists of w have the counts of u, but for x instead of y, and x knows its list.
Tallied(u, w, x, y) ==
  \A f \in Filter :
    LET in(e) == IF e.opened /\ ~e.die /\ e.filter = f THEN 1 ELSE 0
    IN  /\ w.list[f].id = u.list[f].id
        /\ w.list[f].used = u.list[f].used + in(x) - in(y)
        /\ in(x) = 1 => x.list = w.list[f].id

\* Session entry s is replaced by x, which is the same call's, in tables whose
\* counts have changed already.
LEMMA Replaced ==
  ASSUME NEW u, NEW L, Good(u, L), NEW s \in Session, NEW w \in Tables,
         w.sess = u.sess, w.act = u.act, w.tunnel = u.tunnel, w.tid = u.tid,
         NEW x \in SessType, SameCall(x, u.sess[s]),
         x.snoop \in {0, u.sess[s].id, u.act[s].snoop, u.sess[s].snoop},
         NEW b \in BOOLEAN, ~b => ~u.spoilt,
         ~b => Tallied(u, w, x, u.sess[s])
  PROVE  Good(Put(w, s, x, b), L) /\ Like(u, Put(w, s, x, b))
<1> DEFINE v == Put(w, s, x, b)
<1>0. u \in Tables /\ Identified(u) /\ Named(u, L) /\ Counted(u)
  BY DEF Good
<1>1. /\ v \in Tables /\ v.sess[s] = x /\ v.spoilt = b
      /\ \A i \in Session \ {s} : v.sess[i] = u.sess[i]
      /\ v.act = u.act /\ v.list = w.list /\ v.tunnel = u.tunnel /\ v.tid = u.tid
  BY PutOk
<1> HIDE DEF v
<1>2. Like(u, v)
  BY <1>1 DEF Like, SameCall
<1>3. \A i \in Session : v.sess[i].snoop \in {0, u.sess[i].id, u.act[i].snoop, u.sess[i].snoop}
  BY <1>1
<1>4. Identified(v) /\ Named(v, L)
  BY <1>0, <1>1, <1>2, <1>3, SameNamed DEF Like
<1>5. Counted(v)
  <2>1. ASSUME ~v.spoilt, NEW f \in Filter
        PROVE  /\ v.list[f].id = u.list[f].id
               /\ v.list[f].used = u.list[f].used + In(v, s, f) - In(u, s, f)
               /\ In(v, s, f) = 1 => v.sess[s].list = v.list[f].id
    BY <1>1, <2>1 DEF In, Live, Tallied
  <2> QED
    BY <1>0, <1>1, <2>1, CountedOne
<1> QED
  BY <1>1, <1>2, <1>4, <1>5 DEF Good, v
LEMMA LikeTwice ==
  ASSUME NEW u, NEW v, NEW w, Like(u, v), Like(v, w)
  PROVE  Like(u, w)
BY DEF Like

LEMMA FilterSessionOk ==
  ASSUME NEW u, NEW L, Good(u, L), NEW s \in Session, NEW f \in -1 .. MaxFilter
  PROVE  Good(FilterSession(u, s, f), L) /\ Like(u, FilterSession(u, s, f))
<1>0. u \in Tables /\ f \in Int /\ -1 \in Int /\ 1 \in Int
  BY DEF Good
<1>1. CASE ~u.sess[s].opened \/ f < 0
  BY <1>1 DEF FilterSession, Like
<1>2. CASE u.sess[s].opened /\ ~(f < 0)
  <2> DEFINE g == u.sess[s].filter
             off == -1
             w1 == Count(u, g, off)
             w == Count(w1, f, 1)
             n == IF f = 0 THEN 0 ELSE u.list[f].id
             x == [u.sess[s] EXCEPT !.filter = f, !.list = n]
             b == u.spoilt \/ u.sess[s].die
  <2>1. u.sess[s] \in SessType /\ g \in 0 .. MaxFilter /\ f \in 0 .. MaxFilter
    BY <1>0, <1>2, Holds, Sizes DEF SessType
  <2>2. n \in Nat /\ \A k \in Filter : u.list[k].used \in Int /\ u.list[k].id \in Nat
    BY <1>0, <2>1, Holds, Sizes DEF ListType
  <2>3. /\ w1 \in Tables /\ w1.sess = u.sess /\ w1.act = u.act /\ w1.tunnel = u.tunnel /\ w1.tid = u.tid
        /\ w1.spoilt = u.spoilt
        /\ \A k \in Filter : /\ w1.list[k].id = u.list[k].id
                             /\ w1.list[k].used = u.list[k].used + IF k = g THEN off ELSE 0
    <3>1. g \in 0 .. MaxFilter /\ off \in Int
      BY <2>1
    <3> HIDE DEF off, g
    <3> QED
      BY <1>0, <3>1, CountOk
  <2> HIDE DEF w1
  <2>4. /\ w \in Tables /\ w.sess = u.sess /\ w.act = u.act /\ w.tunnel = u.tunnel /\ w.tid = u.tid
        /\ w.spoilt = u.spoilt
        /\ \A k \in Filter : /\ w.list[k].id = w1.list[k].id
                             /\ w.list[k].used = w1.list[k].used + IF k = f THEN 1 ELSE 0
    <3>1. w1 \in Tables /\ f \in 0 .. MaxFilter /\ 1 \in Int
      BY <2>1, <2>3
    <3>2. /\ Count(w1, f, 1) \in Tables
          /\ Count(w1, f, 1).sess = w1.sess /\ Count(w1, f, 1).act = w1.act
          /\ Count(w1, f, 1).tunnel = w1.tunnel /\ Count(w1, f, 1).tid = w1.tid
          /\ Count(w1, f, 1).spoilt = w1.spoilt
          /\ \A k \in Filter : /\ Count(w1, f, 1).list[k].id = w1.list[k].id
                               /\ Count(w1, f, 1).list[k].used = w1.list[k].used + IF k = f THEN 1 ELSE 0
      BY <3>1, CountOk
    <3> QED
      BY <2>3, <3>2
  <2>5. FilterSession(u, s, f)
          = [w EXCEPT !.sess[s].filter = f, !.sess[s].list = n, !.spoilt = @ \/ u.sess[s].die]
    BY <1>2 DEF FilterSession, w1
  <2> HIDE DEF w
  <2>6. FilterSession(u, s, f) = Put(w, s, x, b)
    <3>1. [w EXCEPT !.sess[s].filter = f, !.sess[s].list = n, !.spoilt = @ \/ u.sess[s].die]
            = Put(w, s, [w.sess[s] EXCEPT !.filter = f, !.list = n], w.spoilt \/ u.sess[s].die)
      BY <2>4 DEF Put, Tables
    <3> QED
      BY <2>4, <2>5, <3>1
  <2>7. /\ x \in SessType /\ x.opened = u.sess[s].opened /\ x.die = u.sess[s].die /\ x.id = u.sess[s].id
        /\ x.snoop = u.sess[s].snoop /\ x.filter = f /\ x.list = n
    BY <2>1, <2>2 DEF SessType
  <2>8. b \in BOOLEAN /\ (~b => ~u.spoilt)
    BY <1>0, <2>1 DEF Tables, SessType
  <2>9. ASSUME ~b, NEW k \in Filter
        PROVE  LET in(e) == IF e.opened /\ ~e.die /\ e.filter = k THEN 1 ELSE 0
               IN  /\ w.list[k].id = u.list[k].id
                   /\ w.list[k].used = u.list[k].used + in(x) - in(u.sess[s])
                   /\ in(x) = 1 => x.list = w.list[k].id
    <3> DEFINE in(e) == IF e.opened /\ ~e.die /\ e.filter = k THEN 1 ELSE 0
    <3>1. in(x) = (IF k = f THEN 1 ELSE 0) /\ in(u.sess[s]) = (IF k = g THEN 1 ELSE 0)
      BY <1>2, <2>7, <2>9
    <3>2. w.list[k].id = u.list[k].id
      BY <2>3, <2>4
    <3>3. w.list[k].used = u.list[k].used + in(x) - in(u.sess[s])
      BY <2>2, <2>3, <2>4, <3>1
    <3>4. in(x) = 1 => x.list = w.list[k].id
      BY <2>7, <3>1, <3>2, Sizes
    <3> QED
      BY <3>2, <3>3, <3>4
  <2> HIDE DEF x, n, b
  <2>10. Good(Put(w, s, x, b), L) /\ Like(u, Put(w, s, x, b))
    <3>1. ~b => Tallied(u, w, x, u.sess[s])
      BY <2>9 DEF Tallied
    <3>2. /\ w \in Tables /\ w.sess = u.sess /\ w.act = u.act /\ w.tunnel = u.tunnel /\ w.tid = u.tid
          /\ x \in SessType /\ SameCall(x, u.sess[s])
          /\ x.snoop \in {0, u.sess[s].id, u.act[s].snoop, u.sess[s].snoop}
      BY <2>4, <2>7 DEF SameCall
    <3> QED
      BY <2>8, <3>1, <3>2, Replaced
  <2> QED
    BY <2>6, <2>10 DEF b
<1> QED
  BY <1>1, <1>2

LEMMA FilterIdOk ==
  ASSUME NEW u, NEW L, Good(u, L), NEW s \in Session, u.sess[s].opened, NEW m
  PROVE  Good(FilterId(u, s, m), L) /\ Like(u, FilterId(u, s, m))
<1>0. u \in Tables /\ 1 \in Int
  BY DEF Good
<1>1. CASE ~Defined(u, m)
  BY <1>1 DEF FilterId, Like
<1>2. CASE Defined(u, m)
  <2> DEFINE f == FindFilter(u, m)
             w == Count(u, f, 1)
             n == u.list[f].id
             x == [u.sess[s] EXCEPT !.filter = f, !.list = n]
             b == u.spoilt \/ u.sess[s].die \/ u.sess[s].filter # 0
  <2>1. u.sess[s] \in SessType /\ f \in Filter /\ f \in 0 .. MaxFilter
    BY <1>0, <1>2, Holds, DefinedOk, Sizes DEF SessType
  <2>5. FilterId(u, s, m)
          = [w EXCEPT !.sess[s].filter = f, !.sess[s].list = n,
                      !.spoilt = @ \/ u.sess[s].die \/ u.sess[s].filter # 0]
    BY <1>2 DEF FilterId
  <2> HIDE DEF f
  <2>2. n \in Nat /\ \A k \in Filter : u.list[k].used \in Int /\ u.list[k].id \in Nat
    BY <1>0, <2>1, Holds DEF ListType
  <2>4. /\ w \in Tables /\ w.sess = u.sess /\ w.act = u.act /\ w.tunnel = u.tunnel /\ w.tid = u.tid
        /\ w.spoilt = u.spoilt
        /\ \A k \in Filter : /\ w.list[k].id = u.list[k].id
                             /\ w.list[k].used = u.list[k].used + IF k = f THEN 1 ELSE 0
    BY <1>0, <2>1, CountOk
  <2> HIDE DEF w
  <2>6. FilterId(u, s, m) = Put(w, s, x, b)
    <3>1. [w EXCEPT !.sess[s].filter = f, !.sess[s].list = n,
                    !.spoilt = @ \/ u.sess[s].die \/ u.sess[s].filter # 0]
            = Put(w, s, [w.sess[s] EXCEPT !.filter = f, !.list = n],
                  w.spoilt \/ u.sess[s].die \/ u.sess[s].filter # 0)
      BY <2>4 DEF Put, Tables
    <3> QED
      BY <2>4, <2>5, <3>1
  <2>7. /\ x \in SessType /\ x.opened = u.sess[s].opened /\ x.die = u.sess[s].die /\ x.id = u.sess[s].id
        /\ x.snoop = u.sess[s].snoop /\ x.filter = f /\ x.list = n
    BY <2>1, <2>2 DEF SessType
  <2>8. b \in BOOLEAN /\ (~b => ~u.spoilt)
    BY <1>0, <2>1 DEF Tables, SessType
  <2>9. ASSUME ~b, NEW k \in Filter
        PROVE  LET in(e) == IF e.opened /\ ~e.die /\ e.filter = k THEN 1 ELSE 0
               IN  /\ w.list[k].id = u.list[k].id
                   /\ w.list[k].used = u.list[k].used + in(x) - in(u.sess[s])
                   /\ in(x) = 1 => x.list = w.list[k].id
    <3> DEFINE in(e) == IF e.opened /\ ~e.die /\ e.filter = k THEN 1 ELSE 0
    <3>1. in(x) = (IF k = f THEN 1 ELSE 0) /\ in(u.sess[s]) = 0
      BY <2>7, <2>9, Sizes
    <3>2. w.list[k].id = u.list[k].id
      BY <2>4
    <3>3. w.list[k].used = u.list[k].used + in(x) - in(u.sess[s])
      BY <2>2, <2>4, <3>1
    <3>4. in(x) = 1 => x.list = w.list[k].id
      BY <2>7, <3>1, <3>2
    <3> QED
      BY <3>2, <3>3, <3>4
  <2> HIDE DEF x, n, b
  <2>10. Good(Put(w, s, x, b), L) /\ Like(u, Put(w, s, x, b))
    <3>1. ~b => Tallied(u, w, x, u.sess[s])
      BY <2>9 DEF Tallied
    <3>2. /\ w \in Tables /\ w.sess = u.sess /\ w.act = u.act /\ w.tunnel = u.tunnel /\ w.tid = u.tid
          /\ x \in SessType /\ SameCall(x, u.sess[s])
          /\ x.snoop \in {0, u.sess[s].id, u.act[s].snoop, u.sess[s].snoop}
      BY <2>4, <2>7 DEF SameCall
    <3> QED
      BY <2>8, <3>1, <3>2, Replaced
  <2> QED
    BY <2>6, <2>10 DEF b
<1> QED
  BY <1>1, <1>2

\* Attributes other than the filter change.
Attributes(u, s, to, slow) == [u EXCEPT !.sess[s].snoop = to, !.sess[s].throttle = slow]

LEMMA AttributesOk ==
  ASSUME NEW u, NEW L, Good(u, L), NEW s \in Session,
         NEW to \in {0, u.sess[s].id, u.act[s].snoop, u.sess[s].snoop}, NEW slow \in BOOLEAN
  PROVE  Good(Attributes(u, s, to, slow), L) /\ Like(u, Attributes(u, s, to, slow))
<1> DEFINE x == [u.sess[s] EXCEPT !.snoop = to, !.throttle = slow]
           v == Attributes(u, s, to, slow)
<1>0. u \in Tables
  BY DEF Good
<1>1. u.sess[s] \in SessType /\ u.act[s] \in ActType /\ u.spoilt \in BOOLEAN /\ 0 \in Id
  BY <1>0, Holds, Sizes DEF Tables
<1>2. to \in Id
  BY <1>1 DEF SessType, ActType
<1>3. /\ x \in SessType /\ x.opened = u.sess[s].opened /\ x.die = u.sess[s].die /\ x.id = u.sess[s].id
      /\ x.snoop = to /\ x.filter = u.sess[s].filter /\ x.list = u.sess[s].list
  BY <1>1, <1>2 DEF SessType
<1>4. v = Put(u, s, x, u.spoilt)
  BY <1>0 DEF Put, Tables, Attributes
<1> HIDE DEF x, v
<1>5. ASSUME ~u.spoilt, NEW k \in Filter
      PROVE  LET in(e) == IF e.opened /\ ~e.die /\ e.filter = k THEN 1 ELSE 0
             IN  /\ u.list[k].used = u.list[k].used + in(x) - in(u.sess[s])
                 /\ in(x) = 1 => x.list = u.list[k].id
  <2> DEFINE in(e) == IF e.opened /\ ~e.die /\ e.filter = k THEN 1 ELSE 0
  <2>1. in(x) = in(u.sess[s]) /\ in(x) \in {0, 1}
    BY <1>3
  <2>2. u.list[k].used \in Int
    BY <1>0, Holds DEF ListType
  <2>3. in(x) = 1 => s \in Users(u, k)
    BY <1>3 DEF Users, Live
  <2>4. in(x) = 1 => x.list = u.list[k].id
    BY <1>3, <1>5, <2>3 DEF Good, Counted
  <2> HIDE DEF in
  <2> QED
    BY <2>1, <2>2, <2>4 DEF in
<1>6. Good(Put(u, s, x, u.spoilt), L) /\ Like(u, Put(u, s, x, u.spoilt))
  <2>1. ~u.spoilt => Tallied(u, u, x, u.sess[s])
    BY <1>5 DEF Tallied
  <2>2. SameCall(x, u.sess[s])
    BY <1>3 DEF SameCall
  <2> QED
    BY <1>0, <1>1, <1>3, <2>1, <2>2, Replaced
<1> QED
  BY <1>4, <1>6 DEF v

LEMMA MarkedOk ==
  ASSUME NEW u, NEW L, Good(u, L), NEW b \in BOOLEAN, ~b => ~u.spoilt
  PROVE  Good([u EXCEPT !.spoilt = b], L) /\ Like(u, [u EXCEPT !.spoilt = b])
<1> DEFINE v == [u EXCEPT !.spoilt = b]
<1>0. u \in Tables /\ Identified(u) /\ Named(u, L) /\ Counted(u)
  BY DEF Good
<1>1. /\ v \in Tables /\ v.sess = u.sess /\ v.act = u.act /\ v.list = u.list
      /\ v.tunnel = u.tunnel /\ v.tid = u.tid /\ v.spoilt = b
  BY <1>0 DEF Tables
<1> HIDE DEF v
<1>2. Like(u, v)
  BY <1>1 DEF Like
<1>3. Identified(v) /\ Named(v, L)
  BY <1>0, <1>1, SameNamed
<1>4. \A f : Users(v, f) = Users(u, f)
  BY <1>1 DEF Users, Live
<1>5. Counted(v)
  BY <1>0, <1>1, <1>4 DEF Counted
<1> QED
  BY <1>1, <1>2, <1>3, <1>5 DEF Good, v
-----------------------------------------------------------------------------
(* Requested actions. *)

LEMMA LikeLeaves ==
  ASSUME NEW u, NEW v, Like(u, v)
  PROVE  Leaves(u, v)
BY LikeEnds, EndsLeaves

LEMMA SnoopOk ==
  ASSUME NEW u, NEW L, Good(u, L), NEW s \in Session, NEW bits
  PROVE  Good(Snoop(u, s, bits), L) /\ Like(u, Snoop(u, s, bits))
<1> DEFINE to == IF "nosnoop" \in bits THEN 0 ELSE IF "snoop" \in bits THEN u.act[s].snoop ELSE u.sess[s].snoop
           slow == u.sess[s].throttle
<1>1. to \in {0, u.sess[s].id, u.act[s].snoop, u.sess[s].snoop}
  OBVIOUS
<1>2. u \in Tables /\ u.sess[s] \in SessType /\ slow \in BOOLEAN
  BY Holds DEF Good, SessType
<1>3. Snoop(u, s, bits) = [u EXCEPT !.sess[s].snoop = to]
  BY DEF Snoop
<1> HIDE DEF to
<1>4. [u EXCEPT !.sess[s].snoop = to] = Attributes(u, s, to, slow)
  <2>1. [u.sess[s] EXCEPT !.snoop = to] = [u.sess[s] EXCEPT !.snoop = to, !.throttle = slow]
    BY <1>2 DEF SessType
  <2>2. [u EXCEPT !.sess[s].snoop = to]
          = [u EXCEPT !.sess = [u.sess EXCEPT ![s] = [u.sess[s] EXCEPT !.snoop = to]]]
    OBVIOUS
  <2>3. Attributes(u, s, to, slow)
          = [u EXCEPT !.sess = [u.sess EXCEPT ![s] = [u.sess[s] EXCEPT !.snoop = to, !.throttle = slow]]]
    BY <1>2 DEF Tables, Attributes
  <2> QED
    BY <2>1, <2>2, <2>3
<1> HIDE DEF slow
<1>5. Good(Attributes(u, s, to, slow), L) /\ Like(u, Attributes(u, s, to, slow))
  BY <1>1, <1>2, AttributesOk
<1> QED
  BY <1>3, <1>4, <1>5

LEMMA ThrottleOk ==
  ASSUME NEW u, NEW L, Good(u, L), NEW s \in Session, NEW bits
  PROVE  Good(Throttle(u, s, bits), L) /\ Like(u, Throttle(u, s, bits))
<1> DEFINE to == u.sess[s].snoop
           slow == ("throttle" \in bits \/ u.sess[s].throttle) /\ "nothrottle" \notin bits
<1>1. to \in {0, u.sess[s].id, u.act[s].snoop, u.sess[s].snoop}
  OBVIOUS
<1>2. u \in Tables /\ u.sess[s] \in SessType /\ slow \in BOOLEAN
  BY Holds DEF Good
<1>3. Throttle(u, s, bits) = [u EXCEPT !.sess[s].throttle = slow]
  BY DEF Throttle
<1> HIDE DEF slow
<1>4. [u EXCEPT !.sess[s].throttle = slow] = Attributes(u, s, to, slow)
  <2>1. [u.sess[s] EXCEPT !.throttle = slow] = [u.sess[s] EXCEPT !.snoop = to, !.throttle = slow]
    BY <1>2 DEF SessType
  <2>2. [u EXCEPT !.sess[s].throttle = slow]
          = [u EXCEPT !.sess = [u.sess EXCEPT ![s] = [u.sess[s] EXCEPT !.throttle = slow]]]
    OBVIOUS
  <2>3. Attributes(u, s, to, slow)
          = [u EXCEPT !.sess = [u.sess EXCEPT ![s] = [u.sess[s] EXCEPT !.snoop = to, !.throttle = slow]]]
    BY <1>2 DEF Tables, Attributes
  <2> QED
    BY <2>1, <2>2, <2>3
<1> HIDE DEF to
<1>5. Good(Attributes(u, s, to, slow), L) /\ Like(u, Attributes(u, s, to, slow))
  BY <1>1, <1>2, AttributesOk
<1> QED
  BY <1>3, <1>4, <1>5

LEMMA FilteredOk ==
  ASSUME NEW u, NEW L, Good(u, L), NEW s \in Session, NEW bits
  PROVE  Good(Filtered(u, s, bits), L) /\ Like(u, Filtered(u, s, bits))
<1>0. u \in Tables /\ u.act[s] \in ActType /\ u.act[s].filter \in -1 .. MaxFilter /\ 0 \in -1 .. MaxFilter
  BY Holds, Sizes DEF Good, ActType
<1>1. CASE "nofilter" \in bits
  BY <1>0, <1>1, FilterSessionOk DEF Filtered
<1>2. CASE "nofilter" \notin bits /\ "filter" \notin bits
  BY <1>2 DEF Filtered, Like
<1>3. CASE "nofilter" \notin bits /\ "filter" \in bits
  <2> DEFINE f == u.act[s].filter
             w == FilterSession(u, s, f)
             b == w.spoilt \/ (f > 0 /\ u.list[f].id # u.act[s].list)
  <2>1. Good(w, L) /\ Like(u, w)
    BY <1>0, FilterSessionOk
  <2>2. Filtered(u, s, bits) = [w EXCEPT !.spoilt = b]
    BY <1>3 DEF Filtered
  <2> HIDE DEF w
  <2>3. b \in BOOLEAN /\ (~b => ~w.spoilt)
    BY <2>1 DEF Good, Tables
  <2> HIDE DEF b
  <2>4. Good([w EXCEPT !.spoilt = b], L) /\ Like(w, [w EXCEPT !.spoilt = b])
    BY <2>1, <2>3, MarkedOk
  <2> QED
    BY <2>1, <2>2, <2>4, LikeTwice
<1> QED
  BY <1>1, <1>2, <1>3

LEMMA PerformOk ==
  ASSUME NEW u, NEW L, Good(u, L), NEW s \in Session, NEW bits
  PROVE  /\ Good(Perform(u, s, bits), L) /\ Ends(u, Perform(u, s, bits))
         /\ "kill" \in bits => ~Live(Perform(u, s, bits), s)
<1>1. CASE "kill" \in bits
  BY <1>1, ShutdownOk DEF Perform
<1>2. CASE "kill" \notin bits
  <2> DEFINE v == Snoop(u, s, bits)
             w == Throttle(v, s, bits)
             x == Filtered(w, s, bits)
  <2>1. Good(v, L) /\ Like(u, v)
    BY SnoopOk
  <2> HIDE DEF v
  <2>2. Good(w, L) /\ Like(v, w)
    BY <2>1, ThrottleOk
  <2> HIDE DEF w
  <2>3. Good(x, L) /\ Like(w, x)
    BY <2>2, FilteredOk
  <2>4. Perform(u, s, bits) = x
    BY <1>2 DEF Perform, w, v
  <2> HIDE DEF x
  <2>5. Ends(u, x)
    BY <2>1, <2>2, <2>3, LikeTwice, LikeEnds
  <2> QED
    BY <1>2, <2>3, <2>4, <2>5
<1> QED
  BY <1>1, <1>2

\* The word of entry e is replaced by a.
PutAct(u, e, a) == [u EXCEPT !.act = [u.act EXCEPT ![e] = a]]

LEMMA PutActOk ==
  ASSUME NEW u, NEW L, Good(u, L), NEW M, L \subseteq M, NEW e \in Entry, NEW a \in ActType,
         \A i \in a.whom : i # 0 /\ For(u, e, i, M),
         a.snoop = u.act[e].snoop \/ For(u, e, a.snoop, M)
  PROVE  /\ Good(PutAct(u, e, a), M) /\ PutAct(u, e, a).act[e] = a
         /\ \A i \in Entry \ {e} : PutAct(u, e, a).act[i] = u.act[i]
         /\ PutAct(u, e, a).sess = u.sess /\ PutAct(u, e, a).tid = u.tid /\ PutAct(u, e, a).tunnel = u.tunnel
<1> DEFINE h == [u.act EXCEPT ![e] = a]
           v == PutAct(u, e, a)
<1>0. u \in Tables /\ Identified(u) /\ Named(u, L) /\ Counted(u)
  BY DEF Good
<1>1. v = [u EXCEPT !.act = h]
  BY DEF PutAct
<1> HIDE DEF v
<1>3. h \in [Entry -> ActType] /\ h[e] = a /\ \A i \in Entry \ {e} : h[i] = u.act[i]
  BY <1>0 DEF Tables
<1> HIDE DEF h
<1>4. /\ v \in Tables /\ v.act = h /\ v.sess = u.sess /\ v.list = u.list
      /\ v.tunnel = u.tunnel /\ v.tid = u.tid /\ v.spoilt = u.spoilt
  BY <1>0, <1>1, <1>3 DEF Tables
<1>5. \A k \in Entry : \A i : /\ For(u, k, i, L) => For(v, k, i, M)
                              /\ For(u, k, i, M) => For(v, k, i, M)
  BY <1>4 DEF For, IdOf
<1>6. Named(v, M)
  <2>1. ASSUME NEW k \in Entry, NEW i \in v.act[k].whom PROVE i # 0 /\ For(v, k, i, M)
    <3>1. CASE k = e
      BY <1>3, <1>4, <1>5, <2>1, <3>1
    <3>2. CASE k # e
      BY <1>0, <1>3, <1>4, <1>5, <2>1, <3>2 DEF Named
    <3> QED
      BY <3>1, <3>2
  <2>2. ASSUME NEW s \in Session PROVE v.act[s].snoop = 0 \/ For(v, s, v.act[s].snoop, M)
    <3>1. s \in Entry
      BY Sizes
    <3>2. u.act[s].snoop = 0 \/ For(v, s, u.act[s].snoop, M)
      BY <1>0, <1>5, <3>1 DEF Named
    <3>3. CASE s = e
      BY <1>3, <1>4, <1>5, <3>1, <3>2, <3>3
    <3>4. CASE s # e
      BY <1>3, <1>4, <3>1, <3>2, <3>4
    <3> QED
      BY <3>3, <3>4
  <2>3. ASSUME NEW s \in Session PROVE v.sess[s].snoop = 0 \/ For(v, s, v.sess[s].snoop, M)
    BY <1>0, <1>4, <1>5, Sizes DEF Named
  <2> QED
    BY <2>1, <2>2, <2>3 DEF Named
<1>7. Identified(v)
  BY <1>0, <1>4 DEF Identified
<1>8. Counted(v)
  BY <1>0, <1>4, SameCounted
<1> QED
  BY <1>3, <1>4, <1>6, <1>7, <1>8 DEF Good, v

-----------------------------------------------------------------------------
(* The steps. *)

Obeyed ==
  \A e \in Entry :
    "kill" \in t.act[e].bits /\ IdOf(t, e) \in t.act[e].whom /\ "kill" \notin t'.act[e].bits =>
    \/ IdOf(t, e) \in lost'
    \/ IdOf(t', e) # IdOf(t, e)
    \/ IF e = 0 THEN t'.tunnel # "open" ELSE ~Live(t', e)

LEMMA LeavesObeyed ==
  ASSUME Leaves(t, t')
  PROVE  Obeyed
BY DEF Leaves, Obeyed

LEMMA SameObeyed ==
  ASSUME \A e \in Entry : t'.act[e].bits = t.act[e].bits
  PROVE  Obeyed
BY DEF Obeyed

LEMMA ReckonOk ==
  ASSUME Others, NEW what \in {"logins", "commands"}, Reckon(what)
  PROVE  /\ left' \in [logins : 0 .. MaxLogins, commands : 0 .. MaxCommands]
         /\ what = "logins" => left.logins \in Id /\ left.logins # 0
BY Sizes DEF Others, Reckon, Id

\* A step of the main process.
LEMMA MainStep ==
  ASSUME IInv, Good(t', late), Leaves(t, t'), UNCHANGED <<main, cli, lost, late>>,
         left' \in [logins : 0 .. MaxLogins, commands : 0 .. MaxCommands]
  PROVE  IInv' /\ Obeyed
BY LeavesObeyed DEF IInv, Others

LEMMA ReadActionsStep ==
  ASSUME IInv, NEW e \in Entry, ReadActions(e)
  PROVE  IInv' /\ Obeyed
<1>1. /\ UNCHANGED <<cli, lost, late, left>> /\ main' = [on |-> TRUE, e |-> e, bits |-> t.act[e].bits]
      /\ t' = t \/ (e # 0 /\ t' = SessionShutdown(t, e))
  BY DEF ReadActions
<1>2. t.act[e].bits \in SUBSET Kind
  BY Holds DEF IInv, Good, ActType
<1>3. Good(t', late) /\ t'.act = t.act
  <2>1. CASE t' = t
    BY <2>1 DEF IInv
  <2>2. CASE e # 0 /\ t' = SessionShutdown(t, e)
    <3>1. e \in Session
      BY <2>2 DEF Entry, Session
    <3> QED
      BY <2>2, <3>1, ShutdownOk DEF IInv
  <2> QED
    BY <1>1, <2>1, <2>2
<1> QED
  BY <1>1, <1>2, <1>3, SameObeyed DEF IInv, Others

LEMMA DoActionsStep ==
  ASSUME IInv, NEW e \in Entry, DoActions(e)
  PROVE  IInv' /\ Obeyed
<1> DEFINE c == [t EXCEPT !.act[e].bits = {}, !.act[e].whom = {}]
           a == [t.act[e] EXCEPT !.bits = {}, !.whom = {}]
           v == IF e = 0 THEN TunnelShutdown(c) ELSE Perform(c, e, main.bits)
<1>0. t \in Tables /\ t.act[e] \in ActType /\ Good(t, late) /\ late \subseteq late /\ IdOf(t, e) \in Id
  BY Holds DEF IInv, Good
<1>1. a \in ActType /\ a.whom = {} /\ a.snoop = t.act[e].snoop /\ a.bits = {}
  BY <1>0 DEF ActType
<1>2. c = PutAct(t, e, a)
  BY <1>0 DEF PutAct, Tables
<1>3. /\ t' = v /\ main' = Nothing /\ UNCHANGED <<cli, late, left>>
      /\ lost' = IF t.act[e].bits = main.bits THEN lost ELSE lost \cup {IdOf(t, e)}
  BY DEF DoActions
<1> HIDE DEF a, c
<1>4. /\ Good(c, late) /\ c.act[e] = a /\ \A i \in Entry \ {e} : c.act[i] = t.act[i]
      /\ c.sess = t.sess /\ c.tid = t.tid /\ c.tunnel = t.tunnel
  BY <1>0, <1>1, <1>2, PutActOk
<1>5. /\ Good(v, late) /\ Leaves(c, v)
      /\ e = 0 => v.tunnel # "open"
      /\ e # 0 /\ "kill" \in main.bits => ~Live(v, e)
  <2>1. CASE e = 0
    BY <1>4, <2>1, TunnelShutdownOk
  <2>2. CASE e # 0
    <3>1. e \in Session
      BY <2>2 DEF Entry, Session
    <3> QED
      BY <1>4, <2>2, <3>1, PerformOk, EndsLeaves
  <2> QED
    BY <2>1, <2>2
<1> HIDE DEF v
<1>6. Obeyed
  <2> SUFFICES ASSUME NEW i \in Entry,
                      "kill" \in t.act[i].bits, IdOf(t, i) \in t.act[i].whom, "kill" \notin t'.act[i].bits
               PROVE  \/ IdOf(t, i) \in lost'
                      \/ IF i = 0 THEN t'.tunnel # "open" ELSE ~Live(t', i)
    BY DEF Obeyed
  <2>1. CASE i # e
    BY <1>3, <1>4, <1>5, <2>1 DEF Leaves
  <2>2. CASE i = e /\ t.act[e].bits # main.bits
    BY <1>3, <2>2
  <2>3. CASE i = e /\ t.act[e].bits = main.bits
    BY <1>3, <1>5, <2>3
  <2> QED
    BY <2>1, <2>2, <2>3
<1>7. main' \in [on : BOOLEAN, e : Entry, bits : SUBSET Kind]
  BY <1>3, Sizes DEF Nothing
<1>8. IInv'
  BY <1>0, <1>3, <1>5, <1>7 DEF IInv, Others
<1> QED
  BY <1>6, <1>8
\* A session or the tunnel begins: what was asked for the entry came late.
LEMMA OpenedOk ==
  ASSUME NEW u, NEW L, Good(u, L), NEW s \in Session, ~u.sess[s].opened,
         NEW x \in SessType, x.opened, x.id # 0, x.snoop = 0, x.filter = 0
  PROVE  LET v == Put(u, s, x, u.spoilt) IN Good(v, L) /\ v.sess[s] = x /\ v.act = u.act /\ v.tunnel = u.tunnel
<1> DEFINE v == Put(u, s, x, u.spoilt)
<1>0. u \in Tables /\ Identified(u) /\ Named(u, L) /\ Counted(u) /\ u.spoilt \in BOOLEAN /\ s \in Entry /\ s # 0
  BY Sizes DEF Good, Tables
<1>1. /\ v \in Tables /\ v.sess[s] = x /\ v.spoilt = u.spoilt
      /\ \A i \in Session \ {s} : v.sess[i] = u.sess[i]
      /\ v.act = u.act /\ v.list = u.list /\ v.tunnel = u.tunnel /\ v.tid = u.tid
  BY <1>0, PutOk
<1> HIDE DEF v
<1>2. \A e \in Entry : \A i : i # 0 /\ For(u, e, i, L) => For(v, e, i, L)
  <2>1. u.sess[s].id = 0
    BY <1>0 DEF Identified
  <2>2. ASSUME NEW e \in Entry, NEW i, i # 0, For(u, e, i, L) PROVE For(v, e, i, L)
    <3>1. CASE e = s
      BY <1>0, <2>1, <2>2, <3>1 DEF For, IdOf
    <3>2. CASE e # s
      <4>1. e # 0 => e \in Session \ {s}
        BY <3>2 DEF Entry, Session
      <4> QED
        BY <1>1, <2>2, <4>1 DEF For, IdOf
    <3> QED
      BY <3>1, <3>2
  <2> QED
    BY <2>2
<1>3. Identified(v)
  <2>1. \A i \in Session : v.sess[i].opened <=> v.sess[i].id # 0
    BY <1>0, <1>1 DEF Identified
  <2> QED
    BY <1>0, <1>1, <2>1 DEF Identified
<1>4. Named(v, L)
  <2>1. \A e \in Entry : \A i \in v.act[e].whom : i # 0 /\ For(v, e, i, L)
    BY <1>0, <1>1, <1>2 DEF Named
  <2>2. ASSUME NEW i \in Session
        PROVE  /\ v.act[i].snoop = 0 \/ For(v, i, v.act[i].snoop, L)
               /\ v.sess[i].snoop = 0 \/ For(v, i, v.sess[i].snoop, L)
    BY <1>0, <1>1, <1>2, Sizes DEF Named
  <2> QED
    BY <2>1, <2>2 DEF Named
<1>5. Counted(v)
  <2>1. ASSUME NEW f \in Filter
        PROVE  In(v, s, f) = 0 /\ In(u, s, f) = 0 /\ u.list[f].used \in Int
    BY <1>0, <1>1, Holds, Sizes DEF In, Live, ListType
  <2> QED
    BY <1>0, <1>1, <2>1, CountedOne
<1> QED
  BY <1>1, <1>3, <1>4, <1>5 DEF Good, v

LEMMA TunnelUpStep ==
  ASSUME IInv, TunnelUp
  PROVE  IInv' /\ Obeyed
<1> DEFINE id == left.logins
<1>0. t \in Tables /\ Identified(t) /\ Named(t, late) /\ Counted(t)
  BY DEF IInv, Good
<1>1. t.tunnel = "free" /\ t' = [t EXCEPT !.tunnel = "open", !.tid = id] /\ UNCHANGED <<main, cli, lost, late>>
  BY DEF TunnelUp
<1>2. id \in Id /\ id # 0 /\ left' \in [logins : 0 .. MaxLogins, commands : 0 .. MaxCommands]
  BY ReckonOk DEF TunnelUp, IInv
<1> HIDE DEF id
<1>3. /\ t' \in Tables /\ t'.tunnel = "open" /\ t'.tid = id
      /\ t'.sess = t.sess /\ t'.act = t.act /\ t'.list = t.list /\ t'.spoilt = t.spoilt
  BY <1>0, <1>1, <1>2 DEF Tables
<1>4. \A e \in Entry : \A i : i # 0 /\ For(t, e, i, late) => For(t', e, i, late)
  <2>1. t.tid = 0
    BY <1>0, <1>1 DEF Identified
  <2> QED
    BY <1>3, <2>1 DEF For, IdOf
<1>5. Identified(t')
  BY <1>0, <1>2, <1>3 DEF Identified
<1>6. Named(t', late)
  <2>1. \A e \in Entry : \A i \in t'.act[e].whom : i # 0 /\ For(t', e, i, late)
    BY <1>0, <1>3, <1>4 DEF Named
  <2>2. ASSUME NEW i \in Session
        PROVE  /\ t'.act[i].snoop = 0 \/ For(t', i, t'.act[i].snoop, late)
               /\ t'.sess[i].snoop = 0 \/ For(t', i, t'.sess[i].snoop, late)
    BY <1>0, <1>3, <1>4, Sizes DEF Named
  <2> QED
    BY <2>1, <2>2 DEF Named
<1>7. Counted(t')
  BY <1>0, <1>3, SameCounted
<1>8. Good(t', late) /\ Leaves(t, t')
  BY <1>3, <1>5, <1>6, <1>7 DEF Good, Leaves
<1> QED
  BY <1>1, <1>2, <1>8, MainStep

LEMMA LoginStep ==
  ASSUME IInv, NEW s \in Session, NEW n \in User, NEW w \in BOOLEAN, NEW f, Login(s, n, w, f)
  PROVE  IInv' /\ Obeyed
<1> DEFINE id == left.logins
           x == [Free EXCEPT !.opened = TRUE, !.user = n, !.walled = w, !.id = id]
           v == [t EXCEPT !.sess[s] = x]
<1>0. t \in Tables /\ Good(t, late)
  BY DEF IInv, Good
<1>1. ~t.sess[s].opened /\ t' = FilterId(v, s, f) /\ UNCHANGED <<main, cli, lost, late>>
  BY DEF Login
<1>2. id \in Id /\ id # 0 /\ left' \in [logins : 0 .. MaxLogins, commands : 0 .. MaxCommands]
  BY ReckonOk DEF Login, IInv
<1> HIDE DEF id
<1>3. x \in SessType /\ x.opened /\ x.id # 0 /\ x.snoop = 0 /\ x.filter = 0
  <2>1. Free \in SessType /\ Free.snoop = 0 /\ Free.filter = 0
    BY Blank
  <2>2. x \in SessType
    BY <1>2, <2>1 DEF SessType
  <2>3. x.opened /\ x.id = id /\ x.snoop = Free.snoop /\ x.filter = Free.filter
    BY <2>1 DEF SessType
  <2> QED
    BY <1>2, <2>1, <2>2, <2>3
<1> HIDE DEF x
<1>4. v = Put(t, s, x, t.spoilt)
  BY <1>0 DEF Put, Tables
<1> HIDE DEF v
<1>5. Good(v, late) /\ v.sess[s] = x /\ v.act = t.act /\ v.tunnel = t.tunnel
  BY <1>0, <1>1, <1>3, <1>4, OpenedOk
<1>6. Good(t', late) /\ Like(v, t')
  BY <1>1, <1>3, <1>5, FilterIdOk
<1>7. Leaves(t, t')
  BY <1>5, <1>6 DEF Like, Leaves
<1> QED
  BY <1>1, <1>2, <1>6, <1>7, MainStep

LEMMA LoginAgainStep ==
  ASSUME IInv, NEW s \in Session, NEW f, LoginAgain(s, f)
  PROVE  IInv' /\ Obeyed
<1>1. t.sess[s].opened /\ t' = FilterId(t, s, f) /\ UNCHANGED <<main, cli, lost, late>> /\ Reckon("commands")
  BY DEF LoginAgain
<1>2. left' \in [logins : 0 .. MaxLogins, commands : 0 .. MaxCommands]
  BY <1>1, ReckonOk DEF IInv
<1>3. Good(t', late) /\ Leaves(t, t')
  BY <1>1, FilterIdOk, LikeLeaves DEF IInv
<1> QED
  BY <1>1, <1>2, <1>3, MainStep

LEMMA EndStep ==
  ASSUME IInv, NEW s \in Session, End(s)
  PROVE  IInv' /\ Obeyed
<1>1. t' = SessionShutdown(t, s) /\ UNCHANGED <<main, cli, lost, late>> /\ (Reckon("commands") \/ UNCHANGED left)
  BY DEF End
<1>2. left' \in [logins : 0 .. MaxLogins, commands : 0 .. MaxCommands]
  BY <1>1, ReckonOk DEF IInv, Others
<1>3. Good(t', late) /\ Leaves(t, t')
  BY <1>1, ShutdownOk, EndsLeaves DEF IInv
<1> QED
  BY <1>1, <1>2, <1>3, MainStep

\* What of the main process takes no count.
LEMMA EndingsStep ==
  ASSUME IInv, (\E s \in Session : Kill(s)) \/ TunnelDown \/ TunnelExpire
  PROVE  IInv' /\ Obeyed
<1>1. UNCHANGED <<main, cli, lost, late, left>>
  BY DEF Kill, TunnelDown, TunnelExpire
<1>2. left' \in [logins : 0 .. MaxLogins, commands : 0 .. MaxCommands]
  BY <1>1 DEF IInv, Others
<1>3. Good(t', late) /\ Leaves(t, t')
  <2>1. CASE \E s \in Session : Kill(s)
    BY <2>1, KillOk, EndsLeaves DEF IInv, Kill
  <2>2. CASE TunnelDown
    BY <2>2, TunnelShutdownOk DEF IInv, TunnelDown
  <2>3. CASE TunnelExpire
    BY <2>3, TunnelKillOk DEF IInv, TunnelExpire
  <2> QED
    BY <2>1, <2>2, <2>3
<1> QED
  BY <1>1, <1>2, <1>3, MainStep

LEMMA NamedByOk ==
  ASSUME NEW r \in Request, NamedBy(r) # 0
  PROVE  NamedBy(r) \in Session
<1> DEFINE byPort == IF r.port # 0 /\ t.sess[r.port].opened THEN r.port ELSE 0
           byIp   == IF r.ip # 0 /\ Live(t, r.ip) THEN r.ip ELSE 0
           first  == IF r.port # 0 THEN byPort ELSE byIp
<1>1. r.port \in Entry /\ r.ip \in Entry
  BY DEF Request
<1>2. first \in Entry
  BY <1>1, Sizes
<1>3. NamedBy(r) \in {SessionByUser(t, r.user), first, 0}
  BY DEF NamedBy
<1> HIDE DEF first
<1>4. first # 0 => first \in Session
  BY <1>2 DEF Entry, Session
<1> QED
  BY <1>3, <1>4, SessionByUserOk

LEMMA ChangeOk ==
  ASSUME NEW u, NEW L, Good(u, L), NEW s \in Session, NEW r \in Request
  PROVE  Good(Change(u, s, r), L) /\ Like(u, Change(u, s, r))
<1> DEFINE f == IF r.filter = NoName THEN 0 ELSE FindFilter(u, r.filter)
           v == Attributes(u, s, 0, FALSE)
           w == FilterSession(v, s, f)
           to == IF "intercept" \in r.avp THEN u.sess[s].id ELSE 0
           slow == "throttle" \in r.avp
<1>1. f \in -1 .. MaxFilter
  BY FindFilterOk, Sizes
<1>2. Good(v, L) /\ Like(u, v)
  <2>1. 0 \in {0, u.sess[s].id, u.act[s].snoop, u.sess[s].snoop} /\ FALSE \in BOOLEAN
    OBVIOUS
  <2> QED
    BY <2>1, AttributesOk
<1>6. Change(u, s, r) = Attributes(w, s, to, slow)
  BY DEF Change, Attributes
<1> HIDE DEF f, v
<1>3. Good(w, L) /\ Like(v, w)
  BY <1>1, <1>2, FilterSessionOk
<1> HIDE DEF w
<1>4. to \in {0, w.sess[s].id, w.act[s].snoop, w.sess[s].snoop}
  BY <1>2, <1>3 DEF Like
<1>5. slow \in BOOLEAN
  OBVIOUS
<1> HIDE DEF to, slow
<1>7. Good(Attributes(w, s, to, slow), L) /\ Like(w, Attributes(w, s, to, slow))
  BY <1>3, <1>4, <1>5, AttributesOk
<1> QED
  BY <1>2, <1>3, <1>6, <1>7, LikeTwice

LEMMA ProcessDaeStep ==
  ASSUME IInv, NEW r \in Request, ProcessDae(r)
  PROVE  IInv' /\ Obeyed
<1> DEFINE s == NamedBy(r)
<1>1. /\ UNCHANGED <<main, cli, lost, late>> /\ Reckon("commands") /\ s # 0
      /\ t' = IF r.code = "disconnect" THEN SessionShutdown(t, s) ELSE Change(t, s, r)
  BY DEF ProcessDae, Acceptable
<1>2. left' \in [logins : 0 .. MaxLogins, commands : 0 .. MaxCommands]
  BY <1>1, ReckonOk DEF IInv
<1>3. s \in Session
  BY <1>1, NamedByOk
<1> HIDE DEF s
<1>4. Good(t', late) /\ Leaves(t, t')
  BY <1>1, <1>3, ShutdownOk, EndsLeaves, ChangeOk, LikeLeaves DEF IInv
<1> QED
  BY <1>1, <1>2, <1>4, MainStep
-----------------------------------------------------------------------------
(* The steps of the children. *)

\* A child goes on to command c.
LEMMA CliOk ==
  ASSUME Others, NEW p \in Cli, NEW c, CommandOk(c), cli' = [cli EXCEPT ![p] = c]
  PROVE  cli' \in [Cli -> Command] /\ \A q \in Cli : CommandOk(cli'[q])
<1>1. cli \in [Cli -> Command] /\ (\A q \in Cli : CommandOk(cli[q])) /\ c \in Command
  BY DEF Others, CommandOk
<1>2. cli' \in [Cli -> Command]
  BY <1>1
<1>3. \A q \in Cli : cli'[q] = IF q = p THEN c ELSE cli[q]
  BY <1>1
<1> QED
  BY <1>1, <1>2, <1>3

LEMMA IdleOk == CommandOk(Idle)
<1>1. Idle.at = "idle"
  BY DEF Idle
<1>2. NoAction \in ActType
  BY Blank
<1>3. Idle \in Command
  BY <1>2, Sizes DEF Idle, Command
<1> QED
  BY <1>1, <1>3 DEF CommandOk

LEMMA BeginOk ==
  ASSUME IInv, NEW p \in Cli, NEW op \in Kind, NEW at \in {"idle", "value", "load"}, NEW e \in Entry,
         IdOf(t, e) # 0, Begin(p, op, at, e)
  PROVE  Others'
<1> DEFINE id == IdOf(t, e)
           c == [Idle EXCEPT !.op = op, !.at = at, !.e = e, !.id = id]
<1>1. /\ Reckon("commands") /\ cli' = [cli EXCEPT ![p] = c] /\ UNCHANGED <<main, lost, late>>
      /\ id \in Id /\ id # 0
  BY Holds DEF Begin, IInv, Good
<1> HIDE DEF id
<1>2. CommandOk(c)
  <2>1. Idle \in Command
    BY IdleOk DEF CommandOk
  <2>2. c \in Command /\ c.op = op /\ c.at = at /\ c.id = id
    BY <1>1, <2>1 DEF Command
  <2> HIDE DEF c
  <2> QED
    BY <1>1, <2>2 DEF CommandOk
<1> HIDE DEF c
<1>3. cli' \in [Cli -> Command] /\ \A q \in Cli : CommandOk(cli'[q])
  BY <1>1, <1>2, CliOk DEF IInv
<1>4. left' \in [logins : 0 .. MaxLogins, commands : 0 .. MaxCommands]
  BY <1>1, ReckonOk DEF IInv
<1> QED
  BY <1>1, <1>3, <1>4 DEF IInv, Others

LEMMA InUse ==
  ASSUME IInv
  PROVE  /\ \A s \in Session : t.sess[s].opened => s \in Entry /\ IdOf(t, s) # 0
         /\ t.tunnel = "open" => IdOf(t, 0) # 0
<1>1. Identified(t)
  BY DEF IInv, Good
<1> QED
  BY <1>1, Sizes DEF Identified, IdOf

\* The commands that only find their session.
LEMMA FindStep ==
  ASSUME IInv, NEW p \in Cli, NEW n, NEW d \in Session,
         \/ DropUser(p, n) \/ SnoopUser(p, n) \/ NoSnoopUser(p, n) \/ ThrottleUser(p, n)
         \/ NoThrottleUser(p, n) \/ NoFilterUser(p, n) \/ DropSession(p, d) \/ DropTunnel(p)
  PROVE  IInv' /\ Obeyed
<1>1. PICK op \in Kind, at \in {"value", "load"}, e \in Entry :
        Begin(p, op, at, e) /\ UNCHANGED t /\ IdOf(t, e) # 0
  <2> DEFINE s == SessionByUser(t, n)
  <2>1. s # 0 => s \in Entry /\ IdOf(t, s) # 0
    BY SessionByUserOk, InUse
  <2>2. Live(t, d) => d \in Entry /\ IdOf(t, d) # 0
    BY InUse DEF Live
  <2>3. CASE DropUser(p, n)
    BY <2>1, <2>3 DEF DropUser, Kind
  <2>4. CASE SnoopUser(p, n)
    BY <2>1, <2>4 DEF SnoopUser, Kind
  <2>5. CASE NoSnoopUser(p, n)
    BY <2>1, <2>5 DEF NoSnoopUser, Kind
  <2>6. CASE ThrottleUser(p, n)
    BY <2>1, <2>6 DEF ThrottleUser, Kind
  <2>7. CASE NoThrottleUser(p, n)
    BY <2>1, <2>7 DEF NoThrottleUser, Kind
  <2>8. CASE NoFilterUser(p, n)
    BY <2>1, <2>8 DEF NoFilterUser, Kind
  <2>9. CASE DropSession(p, d)
    BY <2>2, <2>9 DEF DropSession, Kind
  <2>10. CASE DropTunnel(p)
    BY <2>10, InUse, Sizes DEF DropTunnel, Kind
  <2> QED
    BY <2>3, <2>4, <2>5, <2>6, <2>7, <2>8, <2>9, <2>10
<1>2. Others'
  BY <1>1, BeginOk
<1>3. Good(t', late')
  BY <1>1 DEF IInv, Begin
<1> QED
  BY <1>1, <1>2, <1>3, SameObeyed DEF IInv

\* The attributes of an action are written, not its bits.
LEMMA AttributeStep ==
  ASSUME IInv, Others', late \subseteq late', NEW e \in Entry, NEW a \in ActType,
         a.bits = t.act[e].bits, a.whom = t.act[e].whom,
         a.snoop = t.act[e].snoop \/ For(t, e, a.snoop, late'),
         t' = PutAct(t, e, a)
  PROVE  IInv' /\ Obeyed
<1>1. \A i \in a.whom : i # 0 /\ For(t, e, i, late')
  BY DEF IInv, Good, Named, For
<1>2. Good(t', late') /\ t'.act[e] = a /\ \A i \in Entry \ {e} : t'.act[i] = t.act[i]
  <2>1. Good(t, late)
    BY DEF IInv
  <2>2. ASSUME NEW M, M = late'
        PROVE  Good(PutAct(t, e, a), M) /\ PutAct(t, e, a).act[e] = a
               /\ \A i \in Entry \ {e} : PutAct(t, e, a).act[i] = t.act[i]
    <3>1. late \subseteq M /\ (a.snoop = t.act[e].snoop \/ For(t, e, a.snoop, M)) /\ \A i \in a.whom : i # 0 /\ For(t, e, i, M)
      BY <1>1, <2>2
    <3> QED
      BY <2>1, <3>1, PutActOk
  <2> QED
    BY <2>2
<1>3. \A i \in Entry : t'.act[i].bits = t.act[i].bits
  BY <1>2
<1> QED
  BY <1>2, <1>3, SameObeyed DEF IInv

LEMMA FilterUserStep ==
  ASSUME IInv, NEW p \in Cli, NEW n, FilterUser(p, n)
  PROVE  IInv' /\ Obeyed
<1> DEFINE s == SessionByUser(t, n)
           at == IF t.sess[s].filter = 0 THEN "value" ELSE "idle"
           a == [t.act[s] EXCEPT !.filter = -1]
<1>1. s # 0 /\ Begin(p, "filter", at, s) /\ t' = [t EXCEPT !.act[s].filter = -1]
  BY DEF FilterUser
<1>2. s \in Entry /\ IdOf(t, s) # 0
  BY <1>1, SessionByUserOk, InUse
<1>3. at \in {"idle", "value", "load"} /\ "filter" \in Kind /\ late' = late
  BY <1>1 DEF Kind, Begin
<1> HIDE DEF s, at
<1>4. Others'
  BY <1>1, <1>2, <1>3, BeginOk
<1>5. t.act[s] \in ActType /\ -1 \in -1 .. MaxFilter
  BY <1>2, Holds, Sizes DEF IInv, Good
<1>6. /\ a \in ActType /\ a.bits = t.act[s].bits /\ a.whom = t.act[s].whom /\ a.snoop = t.act[s].snoop
  BY <1>5 DEF ActType
<1>7. t' = PutAct(t, s, a)
  BY <1>1 DEF PutAct
<1> HIDE DEF a
<1> QED
  BY <1>2, <1>3, <1>4, <1>6, <1>7, AttributeStep

\* What is stored for a call that is over is late.
LEMMA MarkLateOk ==
  ASSUME IInv, NEW p \in Cli, MarkLate(p)
  PROVE  /\ late \subseteq late' /\ late' \subseteq Entry \X Id
         /\ For(t, cli[p].e, cli[p].id, late')
<1>1. cli[p] \in Command /\ late \subseteq Entry \X Id
  BY DEF IInv, Others, CommandOk
<1>2. cli[p].e \in Entry /\ cli[p].id \in Id
  BY <1>1 DEF Command
<1> QED
  BY <1>1, <1>2 DEF MarkLate, Overtaken, For

\* A child that wrote the value goes on to the word, or is done.
LEMMA GotoOk ==
  ASSUME IInv, NEW p \in Cli, NEW at \in {"load", "idle"}, Goto(p, at), at = "load" => cli[p].at = "value"
  PROVE  cli' \in [Cli -> Command] /\ \A q \in Cli : CommandOk(cli'[q])
<1> DEFINE c == IF at = "idle" THEN Idle ELSE [cli[p] EXCEPT !.at = at]
<1>1. cli' = [cli EXCEPT ![p] = c]
  BY DEF Goto
<1>2. cli[p] \in Command /\ CommandOk(cli[p])
  BY DEF IInv, Others
<1>3. CommandOk(c)
  <2>1. CASE at = "idle"
    BY <2>1, IdleOk
  <2>2. CASE at = "load"
    <3> DEFINE d == [cli[p] EXCEPT !.at = "load"]
    <3>1. d \in Command /\ d.at = "load" /\ d.op = cli[p].op /\ d.id = cli[p].id
      BY <1>2 DEF Command
    <3>2. c = d
      BY <2>2
    <3> HIDE DEF c, d
    <3>3. cli[p].op \in Kind /\ cli[p].id # 0
      BY <1>2, <2>2 DEF CommandOk
    <3> QED
      BY <3>1, <3>2, <3>3 DEF CommandOk
  <2> QED
    BY <2>1, <2>2
<1> HIDE DEF c
<1> QED
  BY <1>1, <1>3, CliOk DEF IInv

LEMMA SetSnoopStep ==
  ASSUME IInv, NEW p \in Cli, SetSnoop(p)
  PROVE  IInv' /\ Obeyed
<1> DEFINE e == cli[p].e
           id == cli[p].id
           a == [t.act[e] EXCEPT !.snoop = id]
<1>1. /\ cli[p].at = "value" /\ t' = [t EXCEPT !.act[e].snoop = id] /\ Goto(p, "load") /\ MarkLate(p)
      /\ UNCHANGED <<main, lost, left>>
  BY DEF SetSnoop
<1>2. e \in Entry /\ id \in Id
  BY DEF IInv, Others, Command
<1>3. late \subseteq late' /\ late' \subseteq Entry \X Id /\ For(t, e, id, late')
  BY <1>1, MarkLateOk
<1> HIDE DEF e, id
<1>4. cli' \in [Cli -> Command] /\ \A q \in Cli : CommandOk(cli'[q])
  BY <1>1, GotoOk
<1>5. Others'
  BY <1>1, <1>3, <1>4 DEF IInv, Others
<1>6. t.act[e] \in ActType
  BY <1>2, Holds DEF IInv, Good
<1>7. a \in ActType /\ a.bits = t.act[e].bits /\ a.whom = t.act[e].whom /\ a.snoop = id
  BY <1>2, <1>6 DEF ActType
<1>8. t' = PutAct(t, e, a)
  BY <1>1 DEF PutAct
<1> HIDE DEF a
<1> QED
  BY <1>2, <1>3, <1>5, <1>7, <1>8, AttributeStep

LEMMA SetFilterStep ==
  ASSUME IInv, NEW p \in Cli, NEW n, SetFilter(p, n)
  PROVE  IInv' /\ Obeyed
<1> DEFINE e == cli[p].e
           f == FindFilter(t, n)
           k == t.list[f].id
           a == [t.act[e] EXCEPT !.filter = f, !.list = k]
<1>1. CASE Defined(t, n)
  <2>1. /\ cli[p].at = "value" /\ t' = [t EXCEPT !.act[e].filter = f, !.act[e].list = k]
        /\ Goto(p, "load") /\ MarkLate(p) /\ UNCHANGED <<main, lost, left>>
    BY <1>1 DEF SetFilter
  <2>2. e \in Entry /\ f \in Filter /\ f \in -1 .. MaxFilter
    BY <1>1, DefinedOk, Sizes DEF IInv, Others, Command
  <2>3. late \subseteq late' /\ late' \subseteq Entry \X Id
    BY <2>1, MarkLateOk
  <2> HIDE DEF e, f
  <2>4. cli' \in [Cli -> Command] /\ \A q \in Cli : CommandOk(cli'[q])
    BY <2>1, GotoOk
  <2>5. Others'
    BY <2>1, <2>3, <2>4 DEF IInv, Others
  <2>6. t \in Tables /\ t.act[e] \in ActType /\ k \in Nat
    BY <2>2, Holds DEF IInv, Good, ListType
  <2> HIDE DEF k
  <2>7. a \in ActType /\ a.bits = t.act[e].bits /\ a.whom = t.act[e].whom /\ a.snoop = t.act[e].snoop
    BY <2>2, <2>6 DEF ActType
  <2>8. t' = PutAct(t, e, a)
    BY <2>1, <2>2, <2>6 DEF PutAct, Tables
  <2> HIDE DEF a
  <2> QED
    BY <2>2, <2>3, <2>5, <2>7, <2>8, AttributeStep
<1>2. CASE ~Defined(t, n)
  <2>1. Goto(p, "idle") /\ UNCHANGED <<t, main, lost, late, left>>
    BY <1>2 DEF SetFilter
  <2>2. cli' \in [Cli -> Command] /\ \A q \in Cli : CommandOk(cli'[q])
    BY <2>1, GotoOk
  <2> QED
    BY <2>1, <2>2, SameObeyed DEF IInv, Others
<1> QED
  BY <1>1, <1>2

LEMMA LoadStep ==
  ASSUME IInv, NEW p \in Cli, Load(p)
  PROVE  IInv' /\ Obeyed
<1> DEFINE w == t.act[cli[p].e]
           c == [cli[p] EXCEPT !.word = w, !.at = "store"]
<1>1. cli[p] \in Command /\ CommandOk(cli[p]) /\ cli[p].e \in Entry
  BY DEF IInv, Others, Command
<1>2. cli[p].at = "load" /\ UNCHANGED <<t, main, lost, late, left>>
  BY DEF Load
<1>3. cli' = [cli EXCEPT ![p] = c]
  BY <1>1 DEF Load, IInv, Others
<1>4. w \in ActType /\ 0 \notin w.whom
  BY <1>1, Holds DEF IInv, Good, Named
<1> HIDE DEF w
<1>5. c \in Command /\ c.at = "store" /\ c.op = cli[p].op /\ c.id = cli[p].id /\ c.word = w
  BY <1>1, <1>4 DEF Command
<1> HIDE DEF c
<1>6. CommandOk(c)
  BY <1>1, <1>2, <1>4, <1>5 DEF CommandOk
<1>7. cli' \in [Cli -> Command] /\ \A q \in Cli : CommandOk(cli'[q])
  BY <1>3, <1>6, CliOk DEF IInv
<1> QED
  BY <1>2, <1>7, SameObeyed DEF IInv, Others

LEMMA StoreStep ==
  ASSUME IInv, NEW p \in Cli, Store(p)
  PROVE  IInv' /\ Obeyed
<1> DEFINE c == cli[p]
           e == c.e
           bits == c.word.bits \cup {c.op}
           whom == c.word.whom \cup {c.id}
           a == [t.act[e] EXCEPT !.bits = bits, !.whom = whom]
<1>1. /\ c.at = "store" /\ t' = [t EXCEPT !.act[e].bits = bits, !.act[e].whom = whom]
      /\ lost' = IF t.act[e].bits \subseteq c.word.bits THEN lost ELSE lost \cup t.act[e].whom
      /\ late' = late \cup {<<e, i>> : i \in whom \ {IdOf(t, e)}}
      /\ Goto(p, "idle") /\ UNCHANGED <<main, left>>
  BY DEF Store
<1>2. /\ e \in Entry /\ c.id \in Id /\ c.id # 0 /\ c.op \in Kind
      /\ c.word.bits \subseteq Kind /\ c.word.whom \subseteq Id /\ 0 \notin c.word.whom
  BY <1>1 DEF IInv, Others, CommandOk, Command, ActType
<1>3. t \in Tables /\ t.act[e] \in ActType /\ late \subseteq Entry \X Id /\ lost \subseteq Id
  BY <1>2, Holds DEF IInv, Good, Others
<1>4. bits \in SUBSET Kind /\ whom \in SUBSET Id /\ 0 \notin whom /\ c.word.bits \subseteq bits
  BY <1>2
<1>5. cli' \in [Cli -> Command] /\ \A q \in Cli : CommandOk(cli'[q])
  BY <1>1, GotoOk
<1> HIDE DEF c, e, bits, whom
<1>6. late \subseteq late' /\ late' \subseteq Entry \X Id /\ \A i \in whom : i # 0 /\ For(t, e, i, late')
  BY <1>1, <1>2, <1>3, <1>4 DEF For
<1>7. lost' \subseteq Id
  BY <1>1, <1>3 DEF ActType
<1>8. a \in ActType /\ a.bits = bits /\ a.whom = whom /\ a.snoop = t.act[e].snoop
  BY <1>3, <1>4 DEF ActType
<1>9. t' = PutAct(t, e, a)
  BY <1>1, <1>2, <1>3 DEF PutAct, Tables
<1> HIDE DEF a
<1>10. /\ Good(t', late') /\ t'.act[e] = a /\ \A i \in Entry \ {e} : t'.act[i] = t.act[i]
       /\ t'.sess = t.sess /\ t'.tid = t.tid /\ t'.tunnel = t.tunnel
  BY <1>2, <1>6, <1>8, <1>9, PutActOk DEF IInv
<1>11. Obeyed
  <2> SUFFICES ASSUME NEW i \in Entry,
                      "kill" \in t.act[i].bits, IdOf(t, i) \in t.act[i].whom, "kill" \notin t'.act[i].bits
               PROVE  IdOf(t, i) \in lost'
    BY DEF Obeyed
  <2>1. i = e
    BY <1>10
  <2>2. ~(t.act[e].bits \subseteq c.word.bits)
    BY <1>4, <1>8, <1>10, <2>1
  <2> QED
    BY <1>1, <2>1, <2>2
<1>12. Others'
  BY <1>1, <1>5, <1>6, <1>7 DEF IInv, Others
<1> QED
  BY <1>10, <1>11, <1>12 DEF IInv

LEMMA AccessListStep ==
  ASSUME IInv, NEW p \in Cli, NEW op \in {"create", "delete"}, NEW n \in Name, AccessList(p, op, n)
  PROVE  IInv' /\ Obeyed
<1> DEFINE f == FindFilter(t, n)
           c == [Idle EXCEPT !.op = op, !.at = "write", !.f = f, !.name = n]
<1>1. f # 0 /\ Reckon("commands") /\ cli' = [cli EXCEPT ![p] = c] /\ UNCHANGED <<t, main, lost, late>>
  BY DEF AccessList
<1>2. f \in Filter /\ f \in 0 .. MaxFilter
  BY <1>1, FindFilterOk
<1> HIDE DEF f
<1>3. Idle \in Command
  BY IdleOk DEF CommandOk
<1>4. c \in Command /\ c.at = "write" /\ c.f = f
  BY <1>2, <1>3 DEF Command
<1> HIDE DEF c
<1>5. CommandOk(c)
  BY <1>2, <1>4 DEF CommandOk
<1>6. cli' \in [Cli -> Command] /\ \A q \in Cli : CommandOk(cli'[q])
  BY <1>1, <1>5, CliOk DEF IInv
<1>7. left' \in [logins : 0 .. MaxLogins, commands : 0 .. MaxCommands]
  BY <1>1, ReckonOk DEF IInv
<1> QED
  BY <1>1, <1>6, <1>7, SameObeyed DEF IInv, Others

LEMMA WriteListStep ==
  ASSUME IInv, NEW p \in Cli, WriteList(p)
  PROVE  IInv' /\ Obeyed
<1> DEFINE f == cli[p].f
           n == IF cli[p].op = "create" THEN cli[p].name ELSE NoName
           id == IF n = NoName THEN 0 ELSE left.commands + 1
           y == [name |-> n, used |-> 0, id |-> id]
           g == [t.list EXCEPT ![f] = y]
           b == t.spoilt \/ t.list[f].used # 0
<1>1. /\ cli[p].at = "write" /\ t' = [t EXCEPT !.list = g, !.spoilt = b]
      /\ Goto(p, "idle") /\ UNCHANGED <<main, lost, late, left>>
  BY DEF WriteList
<1>2. f \in Filter /\ n \in Name \cup {NoName}
  BY <1>1 DEF IInv, Others, CommandOk, Command
<1> HIDE DEF f, n
<1>3. id \in Nat
  BY Sizes DEF IInv, Others
<1> HIDE DEF id
<1>4. y \in ListType /\ y.used = 0 /\ y.id = id
  BY <1>2, <1>3 DEF ListType
<1> HIDE DEF y
<1>5. t \in Tables /\ Identified(t) /\ Named(t, late) /\ Counted(t) /\ t.spoilt \in BOOLEAN
  BY DEF IInv, Good, Tables
<1>6. g \in [Filter -> ListType] /\ g[f] = y /\ \A k \in Filter \ {f} : g[k] = t.list[k]
  BY <1>2, <1>4, <1>5 DEF Tables
<1>7. b \in BOOLEAN /\ (~b => ~t.spoilt /\ t.list[f].used = 0)
  BY <1>5
<1> HIDE DEF g, b
<1>8. /\ t' \in Tables /\ t'.sess = t.sess /\ t'.act = t.act /\ t'.tunnel = t.tunnel /\ t'.tid = t.tid
      /\ t'.list = g /\ t'.spoilt = b
  BY <1>1, <1>5, <1>6, <1>7 DEF Tables
<1>9. Identified(t') /\ Named(t', late)
  BY <1>5, <1>8, SameNamed
<1>10. Counted(t')
  <2> SUFFICES ASSUME ~b, NEW k \in Filter
               PROVE  /\ g[k].used = Cardinality(Users(t, k))
                      /\ \A s \in Users(t, k) : t.sess[s].list = g[k].id
    <3>1. \A k : Users(t', k) = Users(t, k)
      BY <1>8 DEF Users, Live
    <3> QED
      BY <1>8, <3>1 DEF Counted
  <2>1. /\ t.list[k].used = Cardinality(Users(t, k))
        /\ \A s \in Users(t, k) : t.sess[s].list = t.list[k].id
    BY <1>5, <1>7 DEF Counted
  <2>2. CASE k # f
    BY <1>6, <2>1, <2>2
  <2>3. CASE k = f
    <3>1. Cardinality(Users(t, f)) = 0
      BY <1>7, <2>1, <2>3
    <3>2. IsFiniteSet(Users(t, f))
      <4>1. Users(t, f) \subseteq Session
        BY DEF Users
      <4> QED
        BY <4>1, Sizes, FS_Subset
    <3>3. Users(t, f) = {}
      BY <3>1, <3>2, FS_EmptySet
    <3> QED
      BY <1>4, <1>6, <2>3, <3>1, <3>3
  <2> QED
    BY <2>2, <2>3
<1>11. cli' \in [Cli -> Command] /\ \A q \in Cli : CommandOk(cli'[q])
  BY <1>1, GotoOk
<1>12. Others'
  BY <1>1, <1>11 DEF IInv, Others
<1>13. Good(t', late')
  BY <1>1, <1>8, <1>9, <1>10 DEF Good
<1> QED
  BY <1>8, <1>12, <1>13, SameObeyed DEF IInv
-----------------------------------------------------------------------------
(* Together. *)

LEMMA InitOk ==
  ASSUME Init
  PROVE  IInv
<1>1. PICK n \in Name \cup {NoName} :
        t = [sess |-> [s \in Session |-> Free], act |-> [e \in Entry |-> NoAction],
             list |-> [f \in Filter |-> [Unlisted EXCEPT !.name = IF f = 1 THEN n ELSE NoName]],
             tunnel |-> "free", tid |-> 0, spoilt |-> FALSE]
  BY DEF Init
<1>2. /\ \A s \in Session : t.sess[s] = Free
      /\ \A e \in Entry : t.act[e] = NoAction
      /\ \A f \in Filter : t.list[f] \in ListType /\ t.list[f].used = 0 /\ t.list[f].id = 0
      /\ t.tunnel = "free" /\ t.tid = 0
  BY <1>1 DEF Unlisted, ListType
<1>3. t \in Tables
  <2> DEFINE list == [f \in Filter |-> [Unlisted EXCEPT !.name = IF f = 1 THEN n ELSE NoName]]
  <2>1. list \in [Filter -> ListType]
    BY DEF Unlisted, ListType
  <2> HIDE DEF list
  <2>2. t = [sess |-> [s \in Session |-> Free], act |-> [e \in Entry |-> NoAction],
             list |-> list, tunnel |-> "free", tid |-> 0, spoilt |-> FALSE]
    BY <1>1 DEF list
  <2> QED
    BY <2>1, <2>2, Blank, Sizes DEF Tables
<1>4. Identified(t)
  BY <1>2, Blank DEF Identified
<1>5. Named(t, late)
  BY <1>2, Blank, Sizes DEF Named
<1>6. Counted(t)
  <2> SUFFICES ASSUME NEW f \in Filter PROVE t.list[f].used = Cardinality(Users(t, f)) /\ Users(t, f) = {}
    BY DEF Counted
  <2>1. Users(t, f) = {}
    BY <1>2, Blank DEF Users, Live
  <2> QED
    BY <1>2, <2>1, FS_EmptySet
<1>7. Others
  <2>1. cli \in [Cli -> Command] /\ \A p \in Cli : CommandOk(cli[p])
    BY IdleOk DEF Init, CommandOk
  <2>2. main \in [on : BOOLEAN, e : Entry, bits : SUBSET Kind]
    BY Sizes DEF Init, Nothing
  <2>3. left \in [logins : 0 .. MaxLogins, commands : 0 .. MaxCommands]
    BY Sizes DEF Init
  <2> QED
    BY <2>1, <2>2, <2>3 DEF Init, Others
<1> QED
  BY <1>3, <1>4, <1>5, <1>6, <1>7 DEF IInv, Good

LEMMA NextOk ==
  ASSUME IInv, Next
  PROVE  IInv' /\ Obeyed
<1>1. CASE TunnelUp \/ TunnelDown \/ TunnelExpire
  BY <1>1, TunnelUpStep, EndingsStep
<1>2. CASE \E s \in Session :
             \/ \E n \in User, w \in BOOLEAN, f \in Name \cup {NoName} : Login(s, n, w, f)
             \/ \E f \in Name : LoginAgain(s, f)
             \/ End(s) \/ Kill(s)
  BY <1>2, LoginStep, LoginAgainStep, EndStep, EndingsStep
<1>3. CASE \E e \in Entry : ReadActions(e) \/ DoActions(e)
  BY <1>3, ReadActionsStep, DoActionsStep
<1>4. CASE \E r \in Request : ProcessDae(r)
  BY <1>4, ProcessDaeStep
<1>5. ASSUME NEW p \in Cli, NEW n \in User,
             \/ DropUser(p, n) \/ SnoopUser(p, n) \/ NoSnoopUser(p, n) \/ ThrottleUser(p, n)
             \/ NoThrottleUser(p, n) \/ FilterUser(p, n) \/ NoFilterUser(p, n)
      PROVE  IInv' /\ Obeyed
  <2>1. CASE FilterUser(p, n)
    BY <2>1, FilterUserStep
  <2>2. CASE ~FilterUser(p, n)
    <3>1. PICK s \in Session : s = SessionByUser(t, n)
      BY <1>5, <2>2, SessionByUserOk
           DEF DropUser, SnoopUser, NoSnoopUser, ThrottleUser, NoThrottleUser, NoFilterUser
    <3> QED
      BY <1>5, <2>2, <3>1, FindStep
  <2> QED
    BY <2>1, <2>2
<1>6. ASSUME NEW p \in Cli, NEW s \in Session, DropSession(p, s)
      PROVE  IInv' /\ Obeyed
  BY <1>6, FindStep
<1>7. ASSUME NEW p \in Cli, DropTunnel(p)
      PROVE  IInv' /\ Obeyed
  <2>1. Begin(p, "kill", "load", 0) /\ UNCHANGED t /\ IdOf(t, 0) # 0 /\ UNCHANGED late
    BY <1>7, InUse DEF DropTunnel, Begin
  <2>2. Others'
    <3>1. "kill" \in Kind /\ "load" \in {"idle", "value", "load"} /\ 0 \in Entry
      BY Sizes DEF Kind
    <3> QED
      BY <2>1, <3>1, BeginOk
  <2> QED
    BY <2>1, <2>2, SameObeyed DEF IInv
<1>8. ASSUME NEW p \in Cli, SetSnoop(p) \/ Load(p) \/ Store(p) \/ WriteList(p)
      PROVE  IInv' /\ Obeyed
  BY <1>8, SetSnoopStep, LoadStep, StoreStep, WriteListStep
<1>9. ASSUME NEW p \in Cli, NEW n \in Name,
             SetFilter(p, n) \/ AccessList(p, "create", n) \/ AccessList(p, "delete", n)
      PROVE  IInv' /\ Obeyed
  BY <1>9, SetFilterStep, AccessListStep
<1> QED
  BY <1>1, <1>2, <1>3, <1>4, <1>5, <1>6, <1>7, <1>8, <1>9 DEF Next

\* The invariant is one, and every step obeys.
LEMMA Invariant == Spec => [](IInv) /\ [][Obeyed]_vars
<1>1. Init => IInv
  BY InitOk
<1>2. IInv /\ [Next]_vars => IInv' /\ [Obeyed]_vars
  <2>1. ASSUME IInv, UNCHANGED vars PROVE IInv'
    <3>1. t' = t /\ late' = late /\ main' = main /\ cli' = cli /\ lost' = lost /\ left' = left
      BY <2>1 DEF vars
    <3>2. Good(t', late')
      BY <2>1, <3>1 DEF IInv
    <3>3. Others'
      BY <2>1, <3>1 DEF IInv, Others
    <3> QED
      BY <3>2, <3>3 DEF IInv
  <2> QED
    BY <2>1, NextOk
<1> QED
  BY <1>1, <1>2, PTL DEF Spec

\* The tables of sessions, requested actions and access lists keep to their
\* types (l2tpns.h), whatever the children store.
THEOREM TypeCorrect == Spec => []TypeOK
<1>1. IInv => TypeOK
  BY DEF IInv, Good, Others, TypeOK, Tables, SessType, ActType, ListType
<1> QED
  BY <1>1, Invariant, PTL

\* What is asked for and who is intercepted is right for the call that uses
\* the entry, or was stored late: sessionclear and tunnelkill clear the words
\* (l2tpns.c:2403, l2tpns.c:2506).
THEOREM NamedOnly == Spec => []OnlyNamed
<1>1. ASSUME IInv PROVE OnlyNamed
  <2>1. Named(t, late)
    BY <1>1 DEF IInv, Good
  <2>2. ASSUME NEW s \in Session PROVE t.sess[s].snoop \in {0, t.sess[s].id} \/ <<s, t.sess[s].snoop>> \in late
    <3>1. IdOf(t, s) = t.sess[s].id
      BY Sizes DEF IdOf
    <3> QED
      BY <2>1, <3>1 DEF Named, For
  <2> QED
    BY <2>1, <2>2 DEF OnlyNamed, Named, For
<1> QED
  BY <1>1, Invariant, PTL

\* An access list's count is the number of live sessions it filters, unless
\* the tables are spoilt (filter_session, l2tpns.c:2107; sessionshutdown,
\* l2tpns.c:2333; "racy", cli.c:3100).
THEOREM Counting == Spec => []Counts
<1>1. IInv => TypeOK /\ FiltersCounted
  BY DEF IInv, Good, Others, TypeOK, Tables, SessType, ActType, ListType, Counted, FiltersCounted, Users
<1> QED
  BY <1>1, Invariant, PTL DEF Counts

\* A drop is carried out or overwritten, and nothing else takes it from the
\* word (regular_cleanups, l2tpns.c:3726 and 3963).
THEOREM Drops == Spec => DropsObeyed
<1>1. [Obeyed]_vars =>
        [\A e \in Entry :
           "kill" \in t.act[e].bits /\ IdOf(t, e) \in t.act[e].whom /\ "kill" \notin t'.act[e].bits =>
           \/ IdOf(t, e) \in lost'
           \/ IdOf(t', e) # IdOf(t, e)
           \/ IF e = 0 THEN t'.tunnel # "open" ELSE ~Live(t', e)]_vars
  BY DEF Obeyed
<1> QED
  BY <1>1, Invariant, PTL DEF DropsObeyed

=============================================================================
