--------------------------- MODULE Sessions_proofs ---------------------------
(***************************************************************************)
(* That the session table, its free list, the addresses and the RADIUS     *)
(* slots of Sessions fit together, for any number of sessions, slots and   *)
(* addresses.                                                              *)
(***************************************************************************)
EXTENDS Sessions, Loops, FiniteSetTheorems, TLAPS

Ip == {0} \cup Pool \cup Framed

SlotType == [state : SlotState, session : 0 .. MaxSession, auth : 0 .. MaxCalls]

Tables ==
  [sess : [Sid -> SessType], free : 0 .. MaxSession,
   local : [Sid -> 0 .. MaxRadius], rad : [Slot -> SlotType],
   pool : [Pool -> 0 .. MaxSession], noauth : SUBSET Sid,
   copy : [Sid -> SessType], sent : SUBSET ({"START", "STOP"} \X Call), late : SUBSET Pool]

\* What is true of an open session's entry e, whatever the other tables say.
EntryOk(e) ==
  e.opened => /\ e.next = 0 /\ e.call # 0 /\ e.granted \in {0, e.call}
              /\ e.ip \notin Pool => e.ip = 0 \/ e.static

\* It has no address before it is authenticated,
Waiting(e) == e.opened /\ e.phase = "Authenticate" => e.ip = 0

\* nor while an access request is on its way.
Waits(t, s) ==
  /\ Waiting(t.sess[s])
  /\ t.local[s] # 0 /\ t.rad[t.local[s]].state = "AUTH" => t.sess[s].ip = 0

\* Of the address it has.  One that is dying got it late.
Holds(t, s) ==
  LET e == t.sess[s]
  IN  e.opened /\ e.ip # 0 /\ ~e.static => t.pool[e.ip] = s /\ (e.die => e.ip \in t.late)

\* Of the pool's address a.
Held(t, a) ==
  a \notin t.late /\ t.pool[a] # 0 =>
    LET e == t.sess[t.pool[a]]
    IN  e.opened /\ e.ip = a /\ ~e.static

\* A slot serves an open session that knows it; the request it stands for is
\* that of the session's call.
Serves(t, r) ==
  t.rad[r].state # "NULL" =>
    LET s == t.rad[r].session
    IN  s # 0 /\ t.sess[s].opened /\ t.local[s] = r /\ t.rad[r].auth = t.sess[s].call

Served(t, s) == t.local[s] # 0 => t.rad[t.local[s]].state # "NULL" /\ t.rad[t.local[s]].session = s

\* A session that is open for a slave is open, and has the address the slave
\* knows.  Whether the address counts as static the slave may not know.
Copied(t, s) ==
  ~failed => /\ EntryOk(t.copy[s]) /\ Waiting(t.copy[s])
             /\ t.copy[s].opened => t.sess[s].opened /\ t.sess[s].ip = t.copy[s].ip

\* The free list holds no open session; nothing on it points to its head, and
\* no two to the same entry, so that it stays so when the head is taken.
OnList(t, F) ==
  /\ F \subseteq {s \in Sid : ~t.sess[s].opened} /\ t.free \in F \cup {0}
  /\ \A s \in F : t.sess[s].next \in (F \ {t.free}) \cup {0}
  /\ \A s, i \in F : s # i /\ t.sess[s].next # 0 => t.sess[s].next # t.sess[i].next

\* It is a sequence c of all the k free entries.
Listed(t, k, c) ==
  /\ c \in [1 .. k -> Sid]
  /\ \A i, j \in 1 .. k : i # j => c[i] # c[j]
  /\ \A s \in Sid : ~t.sess[s].opened <=> \E i \in 1 .. k : c[i] = s
  /\ t.free = IF k = 0 THEN 0 ELSE c[1]
  /\ \A i \in 1 .. k : t.sess[c[i]].next = IF i = k THEN 0 ELSE c[i + 1]

ListOk(t) ==
  /\ \E F \in SUBSET Sid : OnList(t, F)
  /\ ~failed => \E k \in 0 .. MaxSession : \E c \in [1 .. k -> Sid] : Listed(t, k, c)

Apart(t, s, i) == s # i /\ t.sess[s].opened /\ t.sess[i].opened /\ t.sess[s].ip # 0 => t.sess[s].ip # t.sess[i].ip

\* The tables fit together, but for what a handler still has to see to of the
\* sessions in X.
Fits(t, X) ==
  /\ t \in Tables
  /\ \A s \in Sid : EntryOk(t.sess[s]) /\ Holds(t, s) /\ Served(t, s)
  /\ \A a \in Pool : Held(t, a)
  /\ \A r \in Slot : Serves(t, r)
  /\ \A s \in Sid \ X : Copied(t, s) /\ Waits(t, s)
  /\ \A s, i \in Sid \ X : Apart(t, s, i)
  /\ ListOk(t)

Asked == asked \subseteq [slot : Slot, call : Call] /\ calls \in 0 .. MaxCalls /\ failed \in BOOLEAN

IInv == Fits(m, {}) /\ Asked

-----------------------------------------------------------------------------
(* Ending a session. *)

\* The free list depends on what is open and on next only.
LEMMA ListSame ==
  ASSUME NEW t, NEW u, ListOk(t), u.free = t.free,
         \A s \in Sid : u.sess[s].opened = t.sess[s].opened /\ u.sess[s].next = t.sess[s].next
  PROVE  ListOk(u)
<1>1. \E F \in SUBSET Sid : OnList(u, F)
  <2>1. PICK F \in SUBSET Sid : OnList(t, F)
    BY DEF ListOk
  <2>2. OnList(u, F)
    BY <2>1 DEF OnList
  <2> QED
    BY <2>2
<1>2. ASSUME ~failed
      PROVE  \E k \in 0 .. MaxSession : \E c \in [1 .. k -> Sid] : Listed(u, k, c)
  <2>1. PICK k \in 0 .. MaxSession : \E c \in [1 .. k -> Sid] : Listed(t, k, c)
    BY <1>2 DEF ListOk
  <2>2. PICK c \in [1 .. k -> Sid] : Listed(t, k, c)
    BY <2>1
  <2>3. Listed(u, k, c)
    BY <2>2 DEF Listed
  <2> QED
    BY <2>3
<1> QED
  BY <1>1, <1>2 DEF ListOk

LEMMA SendOk ==
  ASSUME NEW X \in SUBSET Sid, NEW i \in Sid \ X, NEW t, Fits(t, X \cup {i}),
         Waits(t, i), \A j \in Sid \ X : Apart(t, i, j) /\ Apart(t, j, i)
  PROVE  LET u == Send(t, i)
         IN  Fits(u, X) /\ u = [t EXCEPT !.copy = u.copy]
<1> DEFINE u == Send(t, i)
<1>1. t \in Tables /\ EntryOk(t.sess[i])
  BY DEF Fits
<1>2. /\ u \in Tables /\ u = [t EXCEPT !.copy = u.copy]
      /\ u.sess = t.sess /\ u.free = t.free /\ u.local = t.local /\ u.rad = t.rad /\ u.pool = t.pool /\ u.late = t.late
      /\ \A j \in Sid \ {i} : u.copy[j] = t.copy[j]
      /\ ~failed => u.copy[i] = u.sess[i]
  BY <1>1 DEF Send, Tables
<1> HIDE DEF u
<1>3. \A s \in Sid : EntryOk(u.sess[s]) /\ Holds(u, s) /\ Served(u, s)
  BY <1>2 DEF Fits, Holds, Served
<1>4. (\A a \in Pool : Held(u, a)) /\ (\A r \in Slot : Serves(u, r))
  BY <1>2 DEF Fits, Held, Serves
<1>5. \A s \in Sid \ X : Copied(u, s) /\ Waits(u, s)
  <2>1. \A s \in Sid \ X : Waits(u, s)
    BY <1>2 DEF Fits, Waits
  <2>2. \A s \in Sid \ X : Copied(u, s)
    BY <1>1, <1>2 DEF Fits, Copied, Waits
  <2> QED
    BY <2>1, <2>2
<1>6. \A j, k \in Sid \ X : Apart(u, j, k)
  BY <1>2 DEF Fits, Apart
<1>7. ListOk(u)
  BY <1>2, ListSame DEF Fits
<1> QED
  BY <1>2, <1>3, <1>4, <1>5, <1>6, <1>7 DEF Fits, u

\* The entry after sessionshutdown.
Ended(e) == [e EXCEPT !.die = TRUE, !.ip = 0, !.phase = "Dead"]

LEMMA DeadEntry ==
  ASSUME NEW e \in SessType
  PROVE  /\ [e EXCEPT !.die = TRUE, !.ip = 0, !.phase = "Dead"] \in SessType
         /\ [[e EXCEPT !.die = TRUE] EXCEPT !.ip = 0] = [e EXCEPT !.die = TRUE, !.ip = 0]
         /\ [[e EXCEPT !.die = TRUE, !.ip = 0] EXCEPT !.phase = "Dead"] = [e EXCEPT !.die = TRUE, !.ip = 0, !.phase = "Dead"]
  BY DEF SessType, Phase

LEMMA ExceptTwice ==
  ASSUME NEW S, NEW T, NEW f \in [S -> T], NEW s \in S, NEW a, NEW b
  PROVE  /\ [f EXCEPT ![s] = a][s] = a
         /\ [[f EXCEPT ![s] = a] EXCEPT ![s] = b] = [f EXCEPT ![s] = b]
  OBVIOUS

\* What sessionshutdown makes of the tables before it sends the entry.
Dying(t, s) ==
  LET e == t.sess[s]
  IN  [t EXCEPT !.sess = [t.sess EXCEPT ![s] = [e EXCEPT !.die = TRUE, !.ip = 0, !.phase = "Dead"]],
                !.pool = IF e.ip = 0 \/ e.static THEN t.pool ELSE [t.pool EXCEPT ![e.ip] = 0],
                !.late = IF e.static THEN t.late ELSE t.late \ {e.ip}]

LEMMA DyingIs ==
  ASSUME NEW t \in Tables, NEW s \in Sid, t.sess[s].opened
  PROVE  SessionShutdown(t, s) = Send(Dying(t, s), s)
<1> DEFINE e == t.sess[s]
           d == [t EXCEPT !.sess[s].die = TRUE]
           f == FreeAddress(d, s)
           p == IF e.ip = 0 \/ e.static THEN t.pool ELSE [t.pool EXCEPT ![e.ip] = 0]
           l == IF e.static THEN t.late ELSE t.late \ {e.ip}
           g == [t EXCEPT !.sess = [t.sess EXCEPT ![s] = [e EXCEPT !.die = TRUE, !.ip = 0]], !.pool = p, !.late = l]
           v == [f EXCEPT !.sess[s].phase = "Dead"]
<1>1. /\ d = [t EXCEPT !.sess = [t.sess EXCEPT ![s] = [e EXCEPT !.die = TRUE]]]
      /\ e \in SessType /\ t.sess \in [Sid -> SessType]
  BY DEF Tables
<1>2. d.sess = [t.sess EXCEPT ![s] = [e EXCEPT !.die = TRUE]] /\ d.pool = t.pool /\ d.late = t.late
  BY <1>1 DEF Tables
<1>3. d.sess[s] = [e EXCEPT !.die = TRUE] /\ d.sess[s].die /\ d.sess[s].ip = e.ip /\ d.sess[s].static = e.static
  BY <1>1, <1>2 DEF SessType
<1>4. Stop(d, s) = d
  BY <1>3 DEF Stop
<1>7. SessionShutdown(t, s) = Send(v, s)
  BY <1>4 DEF SessionShutdown
<1>10. d \in Tables
  BY <1>1 DEF Tables, SessType
<1> HIDE DEF d
<1>5. f = [d EXCEPT !.sess = [d.sess EXCEPT ![s] = [d.sess[s] EXCEPT !.ip = 0]], !.pool = p, !.late = l]
  BY <1>2, <1>3 DEF FreeAddress
<1>6. f = g
  <2>1. [d.sess EXCEPT ![s] = [d.sess[s] EXCEPT !.ip = 0]] = [t.sess EXCEPT ![s] = [[e EXCEPT !.die = TRUE] EXCEPT !.ip = 0]]
    <3>1. [d.sess EXCEPT ![s] = [d.sess[s] EXCEPT !.ip = 0]]
            = [[t.sess EXCEPT ![s] = [e EXCEPT !.die = TRUE]] EXCEPT ![s] = [[e EXCEPT !.die = TRUE] EXCEPT !.ip = 0]]
      BY <1>2, <1>3, Zenon
    <3> HIDE DEF e
    <3> QED
      BY <1>1, <3>1, ExceptTwice, Zenon
  <2>2. [d.sess EXCEPT ![s] = [d.sess[s] EXCEPT !.ip = 0]] = [t.sess EXCEPT ![s] = [e EXCEPT !.die = TRUE, !.ip = 0]]
    BY <1>1, <2>1, DeadEntry, Zenon
  <2> HIDE DEF p, l
  <2> QED
    BY <1>1, <1>5, <2>2 DEF Tables
<1> HIDE DEF f
<1>8. v = [g EXCEPT !.sess = [g.sess EXCEPT ![s] = [g.sess[s] EXCEPT !.phase = "Dead"]]]
  BY <1>6
<1> HIDE DEF p, l
<1>9. v = Dying(t, s)
  <2>1. g.sess = [t.sess EXCEPT ![s] = [e EXCEPT !.die = TRUE, !.ip = 0]]
    BY DEF Tables
  <2>4. g.sess[s] = [e EXCEPT !.die = TRUE, !.ip = 0]
    BY <1>1, <2>1, ExceptTwice
  <2> HIDE DEF g
  <2>2. [g.sess EXCEPT ![s] = [g.sess[s] EXCEPT !.phase = "Dead"]]
          = [t.sess EXCEPT ![s] = [e EXCEPT !.die = TRUE, !.ip = 0, !.phase = "Dead"]]
    <3>1. [g.sess EXCEPT ![s] = [g.sess[s] EXCEPT !.phase = "Dead"]]
            = [t.sess EXCEPT ![s] = [[e EXCEPT !.die = TRUE, !.ip = 0] EXCEPT !.phase = "Dead"]]
      BY <1>1, <2>1, <2>4, ExceptTwice, Zenon
    <3> QED
      BY <1>1, <3>1, DeadEntry, Zenon
  <2> USE DEF g
  <2>3. v = [t EXCEPT !.sess = [t.sess EXCEPT ![s] = [e EXCEPT !.die = TRUE, !.ip = 0, !.phase = "Dead"]], !.pool = p, !.late = l]
    BY <1>8, <2>2 DEF Tables
  <2> QED
    BY <2>3 DEF Dying, p, l
<1> HIDE DEF v
<1> QED
  BY <1>7, <1>9

LEMMA DyingType ==
  ASSUME NEW t \in Tables, NEW s \in Sid
  PROVE  LET u == Dying(t, s)
             e == t.sess[s]
         IN  /\ u \in Tables
             /\ u.free = t.free /\ u.local = t.local /\ u.rad = t.rad /\ u.copy = t.copy /\ u.sent = t.sent
             /\ u.sess = [t.sess EXCEPT ![s] = [e EXCEPT !.die = TRUE, !.ip = 0, !.phase = "Dead"]]
             /\ u.pool = IF e.ip = 0 \/ e.static THEN t.pool ELSE [t.pool EXCEPT ![e.ip] = 0]
             /\ u.late = IF e.static THEN t.late ELSE t.late \ {e.ip}
<1> DEFINE e == t.sess[s]
           d == [e EXCEPT !.die = TRUE, !.ip = 0, !.phase = "Dead"]
           n == [t.sess EXCEPT ![s] = d]
           p == IF e.ip = 0 \/ e.static THEN t.pool ELSE [t.pool EXCEPT ![e.ip] = 0]
           l == IF e.static THEN t.late ELSE t.late \ {e.ip}
<1>1. d \in SessType
  <2>1. e \in SessType
    BY DEF Tables
  <2> QED
    BY <2>1, DeadEntry
<1> HIDE DEF d
<1>2. n \in [Sid -> SessType]
  BY <1>1 DEF Tables
<1>3. p \in [Pool -> 0 .. MaxSession]
  <2>1. 0 \in 0 .. MaxSession /\ t.pool \in [Pool -> 0 .. MaxSession]
    BY SizesArePositive DEF Tables
  <2> QED
    BY <2>1
<1>4. l \in SUBSET Pool
  BY DEF Tables
<1>5. Dying(t, s) = [t EXCEPT !.sess = n, !.pool = p, !.late = l]
  BY DEF Dying, n, d
<1> DEFINE u == Dying(t, s)
<1> HIDE DEF n, p, l, u
<1>6. u = [t EXCEPT !.sess = n, !.pool = p, !.late = l]
  BY <1>5 DEF u
<1>7. /\ u \in Tables /\ u.sess = n /\ u.pool = p /\ u.late = l
      /\ u.free = t.free /\ u.local = t.local /\ u.rad = t.rad /\ u.copy = t.copy /\ u.sent = t.sent
  BY <1>2, <1>3, <1>4, <1>6 DEF Tables
<1> QED
  BY <1>7 DEF n, p, l, d, u

\* sessionshutdown gives back what the session has and keeps the rest.
LEMMA ShutdownOk ==
  ASSUME NEW X \in SUBSET Sid, NEW i \in Sid \ X, NEW t, Fits(t, X \cup {i}), t.sess[i].opened
  PROVE  LET u == SessionShutdown(t, i)
         IN  /\ Fits(u, X) /\ u.free = t.free /\ u.local = t.local /\ u.rad = t.rad
             /\ u.sess = [t.sess EXCEPT ![i] = Ended(t.sess[i])]
<1> DEFINE e == t.sess[i]
           d == [e EXCEPT !.die = TRUE, !.ip = 0, !.phase = "Dead"]
           u == Dying(t, i)
<1>1. /\ t \in Tables /\ t.sess \in [Sid -> SessType] /\ e \in SessType /\ e.opened
      /\ t.pool \in [Pool -> 0 .. MaxSession] /\ t.late \subseteq Pool
  BY DEF Fits, Tables
<1>2. /\ u \in Tables
      /\ u.free = t.free /\ u.local = t.local /\ u.rad = t.rad /\ u.copy = t.copy
      /\ u.sess = [t.sess EXCEPT ![i] = d]
      /\ u.pool = IF e.ip = 0 \/ e.static THEN t.pool ELSE [t.pool EXCEPT ![e.ip] = 0]
      /\ u.late = IF e.static THEN t.late ELSE t.late \ {e.ip}
  BY <1>1, DyingType
<1>3. /\ d.opened /\ d.next = e.next /\ d.call = e.call /\ d.granted = e.granted /\ d.static = e.static
      /\ d.ip = 0 /\ d.phase = "Dead"
  BY <1>1 DEF SessType
<1>4. EntryOk(e) /\ Holds(t, i)
  BY DEF Fits
<1> HIDE DEF u, d
<1>5. u.sess[i] = d /\ \A j \in Sid \ {i} : u.sess[j] = t.sess[j]
  BY <1>1, <1>2
<1>18. ASSUME NEW s \in Sid
       PROVE  /\ u.sess[s].opened = t.sess[s].opened /\ u.sess[s].next = t.sess[s].next
              /\ u.sess[s].call = t.sess[s].call
              /\ t.sess[s].ip = 0 => u.sess[s].ip = 0
  <2>1. CASE s = i
    BY <1>1, <1>3, <1>5, <2>1
  <2>2. CASE s # i
    BY <1>5, <2>2
  <2> QED
    BY <2>1, <2>2
<1>6. \A s \in Sid : EntryOk(u.sess[s])
  BY <1>3, <1>4, <1>5 DEF Fits, EntryOk
<1>7. ASSUME NEW s \in Sid
      PROVE  Holds(u, s)
  <2>1. CASE s = i
    BY <1>3, <1>5, <2>1 DEF Holds
  <2>2. CASE s # i /\ t.sess[s].opened /\ t.sess[s].ip # 0 /\ ~t.sess[s].static
    <3> DEFINE a == t.sess[s].ip
    <3>1. a \in Pool /\ t.pool[a] = s /\ (t.sess[s].die => a \in t.late)
      BY <2>2 DEF Fits, EntryOk, Holds
    <3>2. e.static \/ e.ip = 0 \/ e.ip # a
      BY <1>1, <1>4, <2>2, <3>1 DEF Holds
    <3>3. u.pool[a] = s /\ (t.sess[s].die => a \in u.late)
      BY <1>1, <1>2, <2>2, <3>1, <3>2
    <3> QED
      BY <1>5, <2>2, <3>3 DEF Holds
  <2>3. CASE s # i /\ ~(t.sess[s].opened /\ t.sess[s].ip # 0 /\ ~t.sess[s].static)
    BY <1>5, <2>3 DEF Holds
  <2> QED
    BY <2>1, <2>2, <2>3
<1>8. ASSUME NEW a \in Pool
      PROVE  Held(u, a)
  <2> SUFFICES ASSUME a \notin u.late, u.pool[a] # 0
               PROVE  LET k == u.sess[u.pool[a]] IN k.opened /\ k.ip = a /\ ~k.static
    BY DEF Held
  <2>1. a # 0
    BY AddressesAreNats
  <2>2. ~(~e.static /\ e.ip = a)
    BY <1>1, <1>2, <2>1
  <2>3. u.pool[a] = t.pool[a] /\ a \notin t.late
    BY <1>1, <1>2, <2>2
  <2> DEFINE j == t.pool[a]
  <2>4. j \in Sid /\ t.sess[j].opened /\ t.sess[j].ip = a /\ ~t.sess[j].static
    BY <1>1, <2>3 DEF Fits, Held, Sid
  <2>5. j # i
    BY <2>2, <2>4
  <2> QED
    BY <1>5, <2>3, <2>4, <2>5
<1>9. \A s \in Sid : Served(u, s)
  BY <1>2 DEF Fits, Served
<1>10. ASSUME NEW r \in Slot
       PROVE  Serves(u, r)
  <2>1. t.rad[r] \in SlotType /\ Serves(t, r)
    BY <1>1 DEF Fits, Tables
  <2>2. t.rad[r].session # 0 => t.rad[r].session \in Sid
    BY <2>1 DEF SlotType, Sid
  <2> QED
    BY <1>2, <1>18, <2>1, <2>2 DEF Serves
<1>11. \A s \in Sid \ (X \cup {i}) : Copied(u, s) /\ Waits(u, s)
  BY <1>2, <1>5 DEF Fits, Copied, Waits
<1>19. Waits(u, i)
  BY <1>3, <1>5 DEF Waits, Waiting
<1>12. \A s, j \in Sid \ (X \cup {i}) : Apart(u, s, j)
  BY <1>5 DEF Fits, Apart
<1>13. ListOk(u)
  BY <1>2, <1>18, ListSame DEF Fits
<1>14. Fits(u, X \cup {i})
  BY <1>2, <1>6, <1>7, <1>8, <1>9, <1>10, <1>11, <1>12, <1>13 DEF Fits
<1>15. \A j \in Sid \ X : Apart(u, i, j) /\ Apart(u, j, i)
  BY <1>3, <1>5 DEF Apart
<1>16. LET v == Send(u, i) IN Fits(v, X) /\ v = [u EXCEPT !.copy = v.copy]
  BY <1>14, <1>15, <1>19, SendOk
<1>17. SessionShutdown(t, i) = Send(u, i)
  BY <1>1, DyingIs DEF u
<1> QED
  BY <1>2, <1>16, <1>17 DEF Tables, d, Ended

\* Working on one more session asks for no more.
LEMMA Fewer ==
  ASSUME NEW X, NEW Y, X \subseteq Y, NEW t, Fits(t, X)
  PROVE  Fits(t, Y)
  BY DEF Fits

\* u is t with slot r, of session s, empty.
Emptied(t, u, r, s) ==
  /\ u.sess = t.sess /\ u.free = t.free /\ u.pool = t.pool /\ u.late = t.late /\ u.copy = t.copy
  /\ u.local = [t.local EXCEPT ![s] = 0] /\ u.rad = [t.rad EXCEPT ![r] = NoSlot]

LEMMA RadiusClearOk ==
  ASSUME NEW X \in SUBSET Sid, NEW t, Fits(t, X), NEW r \in Slot, NEW s \in Sid,
         t.rad[r].state # "NULL" => t.rad[r].session = s, t.local[s] \in {0, r}
  PROVE  LET u == RadiusClear(t, r, s)
         IN  Fits(u, X) /\ Emptied(t, u, r, s)
<1> DEFINE u == RadiusClear(t, r, s)
<1>1. t \in Tables /\ t.local \in [Sid -> 0 .. MaxRadius] /\ t.rad \in [Slot -> SlotType]
  BY DEF Fits, Tables
<1>2. NoSlot \in SlotType /\ NoSlot.state = "NULL" /\ 0 \in 0 .. MaxRadius
  BY SizesArePositive DEF NoSlot, SlotType, SlotState
<1> DEFINE lo == [t.local EXCEPT ![s] = 0]
           ra == [t.rad EXCEPT ![r] = NoSlot]
<1>3. lo \in [Sid -> 0 .. MaxRadius] /\ ra \in [Slot -> SlotType]
  BY <1>1, <1>2
<1>4. u = [t EXCEPT !.rad = ra, !.local = lo]
  BY DEF RadiusClear
<1> HIDE DEF u
<1>5. /\ lo[s] = 0 /\ ra[r].state = "NULL"
      /\ \A i \in Sid \ {s} : lo[i] = t.local[i]
      /\ \A q \in Slot \ {r} : ra[q] = t.rad[q]
  BY <1>1, <1>2
<1> HIDE DEF lo, ra
<1>6. /\ u \in Tables /\ u.sess = t.sess /\ u.free = t.free /\ u.pool = t.pool /\ u.late = t.late /\ u.copy = t.copy
      /\ u.local = lo /\ u.rad = ra
  BY <1>1, <1>3, <1>4 DEF Tables
<1>7. 0 \notin Slot /\ \A i \in Sid : t.local[i] \in {0} \cup Slot
  BY <1>1 DEF Slot
<1>8. ASSUME NEW i \in Sid
      PROVE  Served(u, i)
  <2>1. CASE i = s
    BY <1>5, <1>6, <2>1 DEF Served
  <2>2. CASE i # s /\ t.local[i] # 0
    <3>1. Served(t, i)
      BY DEF Fits
    <3>2. t.local[i] \in Slot \ {r}
      BY <1>7, <2>2, <3>1 DEF Served
    <3> QED
      BY <1>5, <1>6, <2>2, <3>1, <3>2 DEF Served
  <2>3. CASE i # s /\ t.local[i] = 0
    BY <1>5, <1>6, <2>3 DEF Served
  <2> QED
    BY <2>1, <2>2, <2>3
<1>9. ASSUME NEW q \in Slot
      PROVE  Serves(u, q)
  <2>1. CASE q = r
    BY <1>5, <1>6, <2>1 DEF Serves
  <2>2. CASE q # r /\ t.rad[q].state # "NULL"
    <3>1. Serves(t, q) /\ t.rad[q] \in SlotType
      BY <1>1 DEF Fits
    <3>2. t.rad[q].session \in Sid /\ t.local[t.rad[q].session] = q
      BY <2>2, <3>1 DEF Serves, SlotType, Sid
    <3>3. t.rad[q].session # s
      BY <1>7, <2>2, <3>2
    <3> QED
      BY <1>5, <1>6, <2>2, <3>1, <3>2, <3>3 DEF Serves
  <2>3. CASE q # r /\ t.rad[q].state = "NULL"
    BY <1>5, <1>6, <2>3 DEF Serves
  <2> QED
    BY <2>1, <2>2, <2>3
<1>10. (\A i \in Sid : EntryOk(u.sess[i]) /\ Holds(u, i)) /\ \A a \in Pool : Held(u, a)
  BY <1>6 DEF Fits, Holds, Held
<1>11. (\A i \in Sid \ X : Copied(u, i)) /\ \A i, j \in Sid \ X : Apart(u, i, j)
  BY <1>6 DEF Fits, Copied, Apart
<1>12. ListOk(u)
  BY <1>6, ListSame DEF Fits
<1>13. ASSUME NEW i \in Sid \ X
       PROVE  Waits(u, i)
  <2> DEFINE q == t.local[i]
  <2>1. Waits(t, i) /\ u.sess = t.sess
    BY <1>6 DEF Fits
  <2>2. CASE i = s \/ q = 0
    <3>1. u.local[i] = 0
      BY <1>5, <1>6, <2>2
    <3> QED
      BY <2>1, <3>1 DEF Waits
  <2>3. CASE i # s /\ q # 0
    <3>1. u.local[i] = q /\ q \in Slot
      BY <1>5, <1>6, <1>7, <2>3
    <3>2. u.rad[q].state = "NULL" \/ u.rad[q].state = t.rad[q].state
      BY <1>5, <1>6, <3>1
    <3> QED
      BY <2>1, <2>3, <3>1, <3>2 DEF Waits
  <2> QED
    BY <2>2, <2>3
<1> QED
  BY <1>6, <1>8, <1>9, <1>10, <1>11, <1>12, <1>13 DEF Fits, Emptied, u, lo, ra

\* An entry that is put at the head of the free list.
LEMMA Pushed ==
  ASSUME NEW t, NEW u, NEW s \in Sid, ListOk(t), t.sess[s].opened,
         ~u.sess[s].opened, u.sess[s].next = t.free, u.free = s,
         \A i \in Sid \ {s} : u.sess[i].opened = t.sess[i].opened /\ u.sess[i].next = t.sess[i].next
  PROVE  ListOk(u)
<1>0. s # 0 /\ 0 \notin Sid
  BY DEF Sid
<1>1. \E F \in SUBSET Sid : OnList(u, F)
  <2>1. PICK F \in SUBSET Sid : OnList(t, F)
    BY DEF ListOk
  <2>2. s \notin F
    BY <2>1 DEF OnList
  <2> DEFINE G == F \cup {s}
  <2>3. G \subseteq {i \in Sid : ~u.sess[i].opened} /\ u.free \in G \cup {0}
    BY <2>1, <2>2 DEF OnList
  <2>4. \A i \in G : u.sess[i].next \in (G \ {u.free}) \cup {0}
    BY <1>0, <2>1, <2>2 DEF OnList
  <2>5. \A i, j \in G : i # j /\ u.sess[i].next # 0 => u.sess[i].next # u.sess[j].next
    BY <2>1, <2>2 DEF OnList
  <2> QED
    BY <2>3, <2>4, <2>5 DEF OnList
<1>2. ASSUME ~failed
      PROVE  \E k \in 0 .. MaxSession : \E c \in [1 .. k -> Sid] : Listed(u, k, c)
  <2>1. PICK k \in 0 .. MaxSession : \E c \in [1 .. k -> Sid] : Listed(t, k, c)
    BY <1>2 DEF ListOk
  <2>2. PICK c \in [1 .. k -> Sid] : Listed(t, k, c)
    BY <2>1
  <2>3. \A i \in 1 .. k : c[i] # s
    BY <2>2 DEF Listed
  <2> DEFINE b == [i \in 1 .. k + 1 |-> IF i = 1 THEN s ELSE c[i - 1]]
  <2>4. k \in Nat /\ MaxSession \in Nat
    BY SizesArePositive
  <2>5. b \in [1 .. k + 1 -> Sid] /\ b[1] = s /\ \A i \in 1 .. k : b[i + 1] = c[i]
    BY <2>2, <2>4
  <2>6. \A i \in 1 .. k + 1 : i = 1 \/ \E j \in 1 .. k : i = j + 1
    <3> TAKE i \in 1 .. k + 1
    <3>1. CASE i # 1
      <4>1. i - 1 \in 1 .. k /\ i = (i - 1) + 1
        BY <2>4, <3>1
      <4> QED
        BY <4>1
    <3> QED
      BY <3>1
  <2> HIDE DEF b
  <2>13. ASSUME NEW i \in 1 .. k + 1, i # 1
         PROVE  b[i] # s /\ \E j \in 1 .. k : b[i] = c[j]
    <3>1. PICK x \in 1 .. k : i = x + 1
      BY <2>6, <2>13
    <3>2. b[i] = c[x] /\ c[x] # s
      BY <2>3, <2>5, <3>1
    <3> QED
      BY <3>2
  <2>7. \A i, j \in 1 .. k + 1 : i # j => b[i] # b[j]
    <3> TAKE i, j \in 1 .. k + 1
    <3>1. CASE i = 1 /\ j = 1
      BY <3>1
    <3>2. ASSUME i # 1, j = 1 PROVE b[i] # b[j]
      BY <2>5, <2>13, <3>2
    <3>3. ASSUME i = 1, j # 1 PROVE b[i] # b[j]
      BY <2>5, <2>13, <3>3
    <3>4. ASSUME i # 1, j # 1, i # j PROVE b[i] # b[j]
      <4>1. PICK x \in 1 .. k : i = x + 1
        BY <2>6, <3>4
      <4>2. PICK y \in 1 .. k : j = y + 1
        BY <2>6, <3>4
      <4>3. x # y /\ c[x] # c[y]
        BY <2>2, <3>4, <4>1, <4>2 DEF Listed
      <4> QED
        BY <2>5, <4>1, <4>2, <4>3
    <3> QED
      BY <3>1, <3>2, <3>3, <3>4
  <2>8. \A x \in Sid : ~u.sess[x].opened <=> \E i \in 1 .. k + 1 : b[i] = x
    <3> TAKE x \in Sid
    <3>1. CASE x = s
      BY <2>4, <2>5, <3>1
    <3>2. CASE x # s
      <4>1. ~u.sess[x].opened <=> \E i \in 1 .. k : c[i] = x
        BY <2>2, <3>2 DEF Listed
      <4>2. (\E i \in 1 .. k : c[i] = x) => \E i \in 1 .. k + 1 : b[i] = x
        BY <2>4, <2>5
      <4>3. ASSUME NEW i \in 1 .. k + 1, b[i] = x PROVE \E j \in 1 .. k : c[j] = x
        <5>1. i # 1
          BY <2>5, <3>2, <4>3
        <5> QED
          BY <2>13, <4>3, <5>1
      <4> QED
        BY <4>1, <4>2, <4>3
    <3> QED
      BY <3>1, <3>2
  <2>9. u.free = IF k + 1 = 0 THEN 0 ELSE b[1]
    BY <2>4, <2>5
  <2>10. \A i \in 1 .. k + 1 : u.sess[b[i]].next = IF i = k + 1 THEN 0 ELSE b[i + 1]
    <3> TAKE i \in 1 .. k + 1
    <3>1. CASE i = 1
      <4>1. u.sess[b[i]].next = IF k = 0 THEN 0 ELSE c[1]
        BY <2>2, <2>5, <3>1 DEF Listed
      <4> QED
        BY <2>4, <2>5, <3>1, <4>1
    <3>2. CASE i # 1
      <4>1. PICK x \in 1 .. k : i = x + 1
        BY <2>6, <3>2
      <4>2. b[i] = c[x] /\ c[x] \in Sid \ {s}
        BY <2>2, <2>3, <2>5, <4>1
      <4>3. u.sess[b[i]].next = IF x = k THEN 0 ELSE c[x + 1]
        BY <2>2, <4>2 DEF Listed
      <4>4. x # k => x + 1 \in 1 .. k /\ b[(x + 1) + 1] = c[x + 1]
        BY <2>4, <2>5
      <4> QED
        BY <2>4, <4>1, <4>3, <4>4
    <3> QED
      BY <3>1, <3>2
  <2>11. k + 1 \in 0 .. MaxSession
    <3>1. ASSUME k = MaxSession PROVE FALSE
      <4>1. c \in Injection(1 .. MaxSession, Sid \ {s})
        <5>1. c \in [1 .. MaxSession -> Sid \ {s}]
          BY <2>2, <2>3, <3>1
        <5>2. \A i, j \in 1 .. MaxSession : c[i] = c[j] => i = j
          BY <2>2, <3>1 DEF Listed
        <5> QED
          BY <5>1, <5>2 DEF Injection, IsInjective
      <4>2. IsFiniteSet(Sid) /\ Cardinality(Sid) = MaxSession
        BY <2>4, FS_Interval DEF Sid
      <4>3. IsFiniteSet(Sid \ {s}) /\ Cardinality(Sid \ {s}) = MaxSession - 1
        BY <4>2, FS_RemoveElement
      <4>4. IsFiniteSet(1 .. MaxSession) /\ Cardinality(1 .. MaxSession) = MaxSession
        BY <4>2 DEF Sid
      <4>5. Cardinality(1 .. MaxSession) =< Cardinality(Sid \ {s})
        BY <4>1, <4>3, <4>4, FS_Injection
      <4> QED
        BY <2>4, <4>3, <4>4, <4>5
    <3> QED
      BY <2>4, <3>1
  <2>12. Listed(u, k + 1, b)
    BY <2>5, <2>7, <2>8, <2>9, <2>10 DEF Listed
  <2> QED
    BY <2>5, <2>11, <2>12
<1> QED
  BY <1>1, <1>2 DEF ListOk

\* The head that is taken off.
LEMMA Popped ==
  ASSUME NEW t, NEW u, NEW s \in Sid, ListOk(t), t.free = s,
         u.sess[s].opened, u.free = t.sess[s].next,
         \A i \in Sid \ {s} : u.sess[i].opened = t.sess[i].opened /\ u.sess[i].next = t.sess[i].next
  PROVE  ListOk(u)
<1>0. s # 0 /\ 0 \notin Sid
  BY DEF Sid
<1>1. \E F \in SUBSET Sid : OnList(u, F)
  <2>1. PICK F \in SUBSET Sid : OnList(t, F)
    BY DEF ListOk
  <2>2. s \in F
    BY <1>0, <2>1 DEF OnList
  <2> DEFINE G == F \ {s}
  <2>3. G \subseteq {i \in Sid : ~u.sess[i].opened} /\ u.free \in G \cup {0}
    BY <2>1, <2>2 DEF OnList
  <2>4. \A i \in G : u.sess[i].next \in (G \ {u.free}) \cup {0}
    BY <2>1, <2>2 DEF OnList
  <2>5. \A i, j \in G : i # j /\ u.sess[i].next # 0 => u.sess[i].next # u.sess[j].next
    BY <2>1, <2>2 DEF OnList
  <2> QED
    BY <2>3, <2>4, <2>5 DEF OnList
<1>2. ASSUME ~failed
      PROVE  \E k \in 0 .. MaxSession : \E c \in [1 .. k -> Sid] : Listed(u, k, c)
  <2>1. PICK k \in 0 .. MaxSession : \E c \in [1 .. k -> Sid] : Listed(t, k, c)
    BY <1>2 DEF ListOk
  <2>2. PICK c \in [1 .. k -> Sid] : Listed(t, k, c)
    BY <2>1
  <2>0. t.free = IF k = 0 THEN 0 ELSE c[1]
    BY <2>2 DEF Listed
  <2>3. MaxSession \in Nat /\ k # 0 /\ c[1] = s
    <3>1. MaxSession \in Nat
      BY SizesArePositive
    <3>2. k # 0
      BY <1>0, <2>0
    <3> QED
      BY <2>0, <3>1, <3>2
  <2> DEFINE n == k - 1
             b == [i \in 1 .. n |-> c[i + 1]]
  <2>4. n \in Nat /\ n \in 0 .. MaxSession /\ k = n + 1 /\ 1 \in 1 .. k
    BY <2>3
  <2> HIDE DEF n
  <2>5. \A i \in 1 .. n : i + 1 \in 1 .. k /\ i + 1 # 1
    BY <2>4
  <2>6. b \in [1 .. n -> Sid] /\ \A i \in 1 .. n : b[i] = c[i + 1]
    BY <2>2, <2>5
  <2> HIDE DEF b
  <2>7. \A i \in 1 .. k : i = 1 \/ \E j \in 1 .. n : i = j + 1
    <3> TAKE i \in 1 .. k
    <3>1. CASE i # 1
      <4>1. i - 1 \in 1 .. n /\ i = (i - 1) + 1
        BY <2>4, <3>1
      <4> QED
        BY <4>1
    <3> QED
      BY <3>1
  <2>8. \A i, j \in 1 .. n : i # j => b[i] # b[j]
    <3> TAKE i, j \in 1 .. n
    <3>1. i # j => i + 1 # j + 1
      BY <2>4
    <3> QED
      BY <2>2, <2>5, <2>6, <3>1 DEF Listed
  <2>9. \A i \in 1 .. n : b[i] # s
    <3> TAKE i \in 1 .. n
    <3>1. b[i] = c[i + 1] /\ i + 1 \in 1 .. k /\ i + 1 # 1
      BY <2>5, <2>6
    <3>2. c[i + 1] # c[1]
      BY <2>2, <2>4, <3>1 DEF Listed
    <3> QED
      BY <2>3, <3>1, <3>2
  <2>10. \A x \in Sid : ~u.sess[x].opened <=> \E i \in 1 .. n : b[i] = x
    <3> TAKE x \in Sid
    <3>1. CASE x = s
      BY <2>9, <3>1
    <3>2. CASE x # s
      <4>1. ~u.sess[x].opened <=> \E i \in 1 .. k : c[i] = x
        BY <2>2, <3>2 DEF Listed
      <4>2. (\E i \in 1 .. n : b[i] = x) => \E i \in 1 .. k : c[i] = x
        BY <2>5, <2>6
      <4>3. ASSUME NEW i \in 1 .. k, c[i] = x PROVE \E j \in 1 .. n : b[j] = x
        <5>1. i # 1
          BY <2>3, <3>2, <4>3
        <5>2. PICK j \in 1 .. n : i = j + 1
          BY <2>7, <5>1
        <5> QED
          BY <2>6, <4>3, <5>2
      <4> QED
        BY <4>1, <4>2, <4>3
    <3> QED
      BY <3>1, <3>2
  <2>11. \A i \in 1 .. n : u.sess[b[i]].next = IF i = n THEN 0 ELSE b[i + 1]
    <3> TAKE i \in 1 .. n
    <3>1. b[i] = c[i + 1] /\ b[i] \in Sid \ {s} /\ i + 1 \in 1 .. k
      BY <2>5, <2>6, <2>9
    <3>2. u.sess[b[i]].next = IF i + 1 = k THEN 0 ELSE c[(i + 1) + 1]
      BY <2>2, <3>1 DEF Listed
    <3>3. i # n => i + 1 \in 1 .. n
      BY <2>4
    <3>4. i # n => b[i + 1] = c[(i + 1) + 1]
      BY <2>6, <3>3
    <3> QED
      BY <2>4, <3>2, <3>4
  <2>12. u.free = IF n = 0 THEN 0 ELSE b[1]
    <3>0. t.sess[c[1]].next = IF 1 = k THEN 0 ELSE c[1 + 1]
      BY <2>2, <2>4 DEF Listed
    <3>1. u.free = IF 1 = k THEN 0 ELSE c[1 + 1]
      BY <2>3, <3>0
    <3>2. n # 0 => 1 \in 1 .. n
      BY <2>4
    <3> QED
      BY <2>4, <2>6, <3>1, <3>2
  <2>13. Listed(u, n, b)
    BY <2>6, <2>8, <2>10, <2>11, <2>12 DEF Listed
  <2> QED
    BY <2>4, <2>6, <2>13
<1> QED
  BY <1>1, <1>2 DEF ListOk

\* A closed entry at the head of the free list is like the others.
LEMMA ClearOk ==
  ASSUME NEW X \in SUBSET Sid, NEW i \in Sid \ X, NEW t, Fits(t, X \cup {i}),
         t.sess[i].opened, t.sess[i].die, t.local[i] = 0
  PROVE  LET u == Send(SessionClear(t, i), i)
         IN  /\ Fits(u, X) /\ u.free = i /\ u.local = t.local /\ u.rad = t.rad
             /\ u.sess = [t.sess EXCEPT ![i] = [Closed EXCEPT !.next = t.free]]
<1> DEFINE c == [Closed EXCEPT !.next = t.free]
           n == [t.sess EXCEPT ![i] = c]
           u == SessionClear(t, i)
<1>1. /\ t \in Tables /\ t.sess \in [Sid -> SessType] /\ t.free \in 0 .. MaxSession
      /\ t.local \in [Sid -> 0 .. MaxRadius] /\ t.rad \in [Slot -> SlotType] /\ t.pool \in [Pool -> 0 .. MaxSession]
  BY DEF Fits, Tables
<1>2. c \in SessType /\ ~c.opened /\ c.next = t.free
  <2>1. 0 \in 0 .. MaxCalls /\ t.free \in 0 .. MaxSession
    BY <1>1, SizesArePositive
  <2> QED
    BY <2>1 DEF Closed, SessType, Phase
<1> HIDE DEF c
<1>3. n \in [Sid -> SessType] /\ n[i] = c /\ \A j \in Sid \ {i} : n[j] = t.sess[j]
  BY <1>1, <1>2
<1>4. [t.local EXCEPT ![i] = 0] = t.local
  BY <1>1
<1>5. u = [t EXCEPT !.sess = n, !.local = t.local, !.free = i]
  <2>1. u = [t EXCEPT !.sess = n, !.local = [t.local EXCEPT ![i] = 0], !.free = i]
    BY DEF SessionClear, n, c
  <2> HIDE DEF u, n
  <2> QED
    BY <1>4, <2>1
<1> HIDE DEF u, n
<1>6. /\ u \in Tables /\ u.sess = n /\ u.free = i
      /\ u.local = t.local /\ u.rad = t.rad /\ u.pool = t.pool /\ u.late = t.late /\ u.copy = t.copy
  <2>1. i \in 0 .. MaxSession
    BY DEF Sid
  <2> QED
    BY <1>1, <1>3, <1>5, <2>1 DEF Tables
<1>7. ASSUME NEW s \in Sid
      PROVE  EntryOk(u.sess[s]) /\ Holds(u, s) /\ Served(u, s)
  <2>1. CASE s = i
    BY <1>2, <1>3, <1>6, <2>1 DEF EntryOk, Holds, Served
  <2>2. CASE s # i
    BY <1>3, <1>6, <2>2 DEF Fits, Holds, Served
  <2> QED
    BY <2>1, <2>2
<1>8. ASSUME NEW a \in Pool
      PROVE  Held(u, a)
  <2> SUFFICES ASSUME a \notin t.late, t.pool[a] # 0
               PROVE  LET e == u.sess[t.pool[a]] IN e.opened /\ e.ip = a /\ ~e.static
    BY <1>6 DEF Held
  <2> DEFINE j == t.pool[a]
  <2>1. j \in Sid /\ t.sess[j].opened /\ t.sess[j].ip = a /\ ~t.sess[j].static
    BY <1>1 DEF Fits, Held, Sid
  <2>2. j # i
    <3>1. Holds(t, i) /\ a # 0
      BY AddressesAreNats DEF Fits
    <3> QED
      BY <2>1, <3>1 DEF Holds
  <2> QED
    BY <1>3, <1>6, <2>1, <2>2
<1>9. ASSUME NEW r \in Slot
      PROVE  Serves(u, r)
  <2>1. CASE t.rad[r].state = "NULL"
    BY <1>6, <2>1 DEF Serves
  <2>2. CASE t.rad[r].state # "NULL"
    <3>1. Serves(t, r) /\ t.rad[r].session \in 0 .. MaxSession
      BY <1>1 DEF Fits, SlotType
    <3>2. t.rad[r].session \in Sid /\ t.local[t.rad[r].session] = r /\ r # 0
      BY <2>2, <3>1 DEF Serves, Sid, Slot
    <3>3. t.rad[r].session # i
      BY <3>2
    <3> QED
      BY <1>3, <1>6, <3>1, <3>2, <3>3 DEF Serves
  <2> QED
    BY <2>1, <2>2
<1>10. \A s \in Sid \ (X \cup {i}) : Copied(u, s) /\ Waits(u, s)
  BY <1>3, <1>6 DEF Fits, Copied, Waits
<1>11. \A s, j \in Sid \ (X \cup {i}) : Apart(u, s, j)
  BY <1>3, <1>6 DEF Fits, Apart
<1>12. ListOk(u)
  <2>1. ListOk(t)
    BY DEF Fits
  <2> QED
    BY <1>2, <1>3, <1>6, <2>1, Pushed
<1>13. Fits(u, X \cup {i})
  BY <1>6, <1>7, <1>8, <1>9, <1>10, <1>11, <1>12 DEF Fits
<1>14. \A j \in Sid \ X : Apart(u, i, j) /\ Apart(u, j, i)
  BY <1>2, <1>3, <1>6 DEF Apart
<1>15. LET v == Send(u, i) IN Fits(v, X) /\ v = [u EXCEPT !.copy = v.copy]
  <2>1. Waits(u, i)
    BY <1>2, <1>3, <1>6 DEF Waits, Waiting
  <2> QED
    BY <1>13, <1>14, <2>1, SendOk
<1> QED
  BY <1>6, <1>15 DEF Tables, n, c, u

\* The entry after sessionkill.
Freed(next) == [Closed EXCEPT !.next = next]

\* Other sessions than i keep their entry and slot.
SameBut(t, u, i) == \A s \in Sid \ {i} : u.sess[s] = t.sess[s] /\ u.local[s] = t.local[s]

\* sessionkill frees the entry, its slot and, but for late ones, its address.
LEMMA KillOk ==
  ASSUME NEW X \in SUBSET Sid, NEW i \in Sid \ X, NEW t, Fits(t, X \cup {i}), t.sess[i].opened
  PROVE  LET u == SessionKill(t, i)
         IN  /\ Fits(u, X) /\ u.free = i
             /\ u.sess[i] = Freed(t.free) /\ u.local[i] = 0
             /\ SameBut(t, u, i)
             /\ t.local[i] # 0 => u.rad[t.local[i]].state = "NULL"
<1> DEFINE down    == IF t.sess[i].die THEN t ELSE SessionShutdown(t, i)
           cleared == IF down.local[i] = 0 THEN down ELSE RadiusClear(down, down.local[i], i)
           u       == Send(SessionClear(cleared, i), i)
           Y       == X \cup {i}
           c       == [Closed EXCEPT !.next = t.free]
<1>1. EntryOk(t.sess[i]) /\ t \in Tables
  BY DEF Fits
<1>2. SessionKill(t, i) = u
  BY <1>1 DEF SessionKill, EntryOk
<1>3. /\ Fits(down, Y) /\ down.free = t.free /\ down.local = t.local /\ down.rad = t.rad
      /\ down.sess[i].opened /\ down.sess[i].die /\ \A s \in Sid \ {i} : down.sess[s] = t.sess[s]
  <2>1. CASE t.sess[i].die
    BY <2>1
  <2>2. CASE ~t.sess[i].die
    <3> DEFINE v == SessionShutdown(t, i)
               d == Ended(t.sess[i])
    <3>1. /\ Fits(v, X) /\ v.free = t.free /\ v.local = t.local /\ v.rad = t.rad
          /\ v.sess = [t.sess EXCEPT ![i] = d]
      <4> HIDE DEF v, d
      <4> QED
        BY ShutdownOk DEF v, d
    <3>2. t.sess \in [Sid -> SessType] /\ t.sess[i] \in SessType /\ d.opened /\ d.die
      BY <1>1 DEF Tables, SessType, Ended
    <3> HIDE DEF v, d
    <3>3. v.sess[i] = d /\ \A s \in Sid \ {i} : v.sess[s] = t.sess[s]
      BY <3>1, <3>2
    <3>4. Fits(v, Y)
      BY <3>1, Fewer
    <3>5. down = v
      BY <2>2 DEF v
    <3> QED
      BY <3>1, <3>2, <3>3, <3>4, <3>5
  <2> QED
    BY <2>1, <2>2
<1>4. down.sess \in [Sid -> SessType] /\ t.sess \in [Sid -> SessType] /\ t.local \in [Sid -> 0 .. MaxRadius]
  BY <1>1, <1>3 DEF Fits, Tables
<1> HIDE DEF down, Y
<1>5. /\ Fits(cleared, Y) /\ cleared.free = t.free /\ cleared.sess = down.sess
      /\ cleared.local = [t.local EXCEPT ![i] = 0]
      /\ cleared.rad = IF t.local[i] = 0 THEN t.rad ELSE [t.rad EXCEPT ![t.local[i]] = NoSlot]
  <2>1. CASE t.local[i] = 0
    BY <1>3, <1>4, <2>1
  <2>2. CASE t.local[i] # 0
    <3> DEFINE r == t.local[i]
    <3>1. r \in Slot /\ Served(down, i) /\ Y \in SUBSET Sid
      BY <1>3, <1>4, <2>2 DEF Fits, Slot, Y
    <3>2. down.rad[r].session = i /\ down.local[i] = r
      BY <1>3, <2>2, <3>1 DEF Served
    <3> DEFINE v == RadiusClear(down, r, i)
    <3>3. /\ Fits(v, Y) /\ v.sess = down.sess /\ v.free = down.free
          /\ v.local = [down.local EXCEPT ![i] = 0] /\ v.rad = [down.rad EXCEPT ![r] = NoSlot]
      <4> HIDE DEF r, v
      <4>1. Fits(down, Y) /\ i \in Sid /\ down.local[i] \in {0, r}
        BY <1>3, <3>2
      <4>2. Fits(v, Y) /\ Emptied(down, v, r, i)
        BY <3>1, <3>2, <4>1, RadiusClearOk DEF v
      <4> QED
        BY <4>2 DEF Emptied
    <3>4. cleared = v
      BY <1>3, <2>2
    <3> QED
      BY <1>3, <2>2, <3>3, <3>4
  <2> QED
    BY <2>1, <2>2
<1> HIDE DEF cleared
<1>6. cleared.sess[i].opened /\ cleared.sess[i].die /\ cleared.local[i] = 0
  BY <1>3, <1>4, <1>5
<1>7. /\ Fits(u, X) /\ u.free = i /\ u.local = cleared.local /\ u.rad = cleared.rad
      /\ u.sess = [cleared.sess EXCEPT ![i] = [Closed EXCEPT !.next = cleared.free]]
  <2> HIDE DEF u
  <2>1. Fits(cleared, X \cup {i})
    BY <1>5 DEF Y
  <2> QED
    BY <1>6, <2>1, ClearOk DEF u
<1> HIDE DEF u
<1>8. u.sess = [down.sess EXCEPT ![i] = c]
  BY <1>5, <1>7
<1> HIDE DEF c
<1>9. u.sess = [t.sess EXCEPT ![i] = c]
  BY <1>3, <1>4, <1>8
<1> QED
  <2>1. u.sess[i] = c /\ \A s \in Sid \ {i} : u.sess[s] = t.sess[s]
    BY <1>4, <1>9
  <2>2. u.local[i] = 0 /\ \A s \in Sid \ {i} : u.local[s] = t.local[s]
    BY <1>4, <1>5, <1>7
  <2>3. t.local[i] # 0 => u.rad[t.local[i]].state = "NULL"
    <3>1. t.local[i] # 0 => t.local[i] \in Slot
      BY <1>4 DEF Slot
    <3>2. t.rad \in [Slot -> SlotType] /\ NoSlot.state = "NULL"
      BY <1>1 DEF Tables, NoSlot
    <3> QED
      BY <1>5, <1>7, <3>1, <3>2
  <2> QED
    BY <1>2, <1>7, <2>1, <2>2, <2>3 DEF c, Freed, SameBut

-----------------------------------------------------------------------------
(* RADIUS slots and new entries. *)

LEMMA Smallest ==
  ASSUME NEW S \in SUBSET Nat, S # {}
  PROVE  Least(S) \in S /\ \A y \in S : Least(S) =< y
<1>1. \E x \in S : \A y \in S : x =< y
  BY Lowest
<1> QED
  BY <1>1 DEF Least

LEMMA InRange ==
  ASSUME NEW t \in Tables, NEW s \in Sid
  PROVE  /\ s \in 0 .. MaxSession /\ s # 0
         /\ t.sess[s] \in SessType /\ t.sess[s].call \in 0 .. MaxCalls
<1>1. s \in 0 .. MaxSession /\ s # 0
  BY DEF Sid
<1>2. t.sess[s] \in SessType
  BY DEF Tables
<1>3. t.sess[s].call \in 0 .. MaxCalls
  BY <1>2 DEF SessType
<1> QED
  BY <1>1, <1>2, <1>3

\* The slot a session has or may have is given to what it asks for now.
Taken(t, s, r, st, sent) ==
  [t EXCEPT !.local = [t.local EXCEPT ![s] = r],
            !.rad = [t.rad EXCEPT ![r] = [state |-> st, session |-> s, auth |-> t.sess[s].call]],
            !.sent = sent]

LEMMA TakenOk ==
  ASSUME NEW X \in SUBSET Sid, NEW t, Fits(t, X), NEW s \in Sid, t.sess[s].opened,
         NEW r \in Slot, t.local[s] = r \/ (t.local[s] = 0 /\ t.rad[r].state = "NULL"),
         NEW st \in SlotState \ {"NULL"}, s \notin X /\ st = "AUTH" => t.sess[s].ip = 0,
         NEW sent \in SUBSET ({"START", "STOP"} \X Call)
  PROVE  LET u == Taken(t, s, r, st, sent)
         IN  /\ Fits(u, X) /\ u.sess = t.sess /\ u.free = t.free
<1> DEFINE u == Taken(t, s, r, st, sent)
           n == [state |-> st, session |-> s, auth |-> t.sess[s].call]
           lo == [t.local EXCEPT ![s] = r]
           ra == [t.rad EXCEPT ![r] = n]
<1>1. /\ t \in Tables /\ t.local \in [Sid -> 0 .. MaxRadius] /\ t.rad \in [Slot -> SlotType]
      /\ t.sess \in [Sid -> SessType]
  BY DEF Fits, Tables
<1>2. n \in SlotType
  <2>1. s \in 0 .. MaxSession /\ t.sess[s].call \in 0 .. MaxCalls
    BY <1>1, InRange
  <2> QED
    BY <2>1 DEF SlotType
<1>3. n.state = st /\ n.session = s /\ n.auth = t.sess[s].call
  OBVIOUS
<1> HIDE DEF n
<1>4. r \in 0 .. MaxRadius /\ r # 0
  BY DEF Slot
<1>5. /\ lo \in [Sid -> 0 .. MaxRadius] /\ ra \in [Slot -> SlotType]
      /\ lo[s] = r /\ ra[r] = n
      /\ \A i \in Sid \ {s} : lo[i] = t.local[i]
      /\ \A q \in Slot \ {r} : ra[q] = t.rad[q]
  BY <1>1, <1>2, <1>4
<1>6. u = [t EXCEPT !.local = lo, !.rad = ra, !.sent = sent]
  BY DEF Taken, n
<1> HIDE DEF u, lo, ra
<1>7. /\ u \in Tables /\ u.sess = t.sess /\ u.free = t.free /\ u.pool = t.pool /\ u.late = t.late /\ u.copy = t.copy
      /\ u.local = lo /\ u.rad = ra
  BY <1>1, <1>5, <1>6 DEF Tables
<1>8. ASSUME NEW i \in Sid
      PROVE  Served(u, i)
  <2>1. CASE i = s
    BY <1>3, <1>5, <1>7, <2>1 DEF Served
  <2>2. CASE i # s /\ t.local[i] # 0
    <3>1. Served(t, i) /\ Served(t, s)
      BY DEF Fits
    <3>2. t.local[i] \in Slot
      BY <1>1, <2>2 DEF Slot
    <3>3. t.local[i] # r
      BY <1>4, <2>2, <3>1 DEF Served
    <3> QED
      BY <1>5, <1>7, <2>2, <3>1, <3>2, <3>3 DEF Served
  <2>3. CASE i # s /\ t.local[i] = 0
    BY <1>5, <1>7, <2>3 DEF Served
  <2> QED
    BY <2>1, <2>2, <2>3
<1>9. ASSUME NEW q \in Slot
      PROVE  Serves(u, q)
  <2>1. CASE q = r
    BY <1>3, <1>5, <1>7, <2>1 DEF Serves, Sid
  <2>2. CASE q # r /\ t.rad[q].state # "NULL"
    <3>0. q # 0
      BY DEF Slot
    <3>1. Serves(t, q) /\ t.rad[q] \in SlotType /\ q # 0
      BY <1>1, <3>0 DEF Fits
    <3>2. t.rad[q].session \in Sid /\ t.local[t.rad[q].session] = q
      BY <2>2, <3>1 DEF Serves, SlotType, Sid
    <3>3. t.rad[q].session # s
      BY <2>2, <3>1, <3>2
    <3> QED
      BY <1>5, <1>7, <2>2, <3>1, <3>2, <3>3 DEF Serves
  <2>3. CASE q # r /\ t.rad[q].state = "NULL"
    BY <1>5, <1>7, <2>3 DEF Serves
  <2> QED
    BY <2>1, <2>2, <2>3
<1>10. (\A i \in Sid : EntryOk(u.sess[i]) /\ Holds(u, i)) /\ \A a \in Pool : Held(u, a)
  BY <1>7 DEF Fits, Holds, Held
<1>11. (\A i \in Sid \ X : Copied(u, i)) /\ \A i, j \in Sid \ X : Apart(u, i, j)
  BY <1>7 DEF Fits, Copied, Apart
<1>12. ListOk(u)
  BY <1>7, ListSame DEF Fits
<1>13. ASSUME NEW i \in Sid \ X
       PROVE  Waits(u, i)
  <2>1. CASE i = s
    BY <1>3, <1>5, <1>7, <2>1 DEF Fits, Waits
  <2>2. CASE i # s /\ t.local[i] # 0
    <3>1. Served(t, i) /\ Served(t, s)
      BY DEF Fits
    <3>2. t.local[i] \in Slot \ {r}
      BY <1>1, <1>4, <2>2, <3>1 DEF Served, Slot
    <3> QED
      BY <1>5, <1>7, <2>2, <3>2 DEF Fits, Waits
  <2>3. CASE i # s /\ t.local[i] = 0
    BY <1>5, <1>7, <2>3 DEF Fits, Waits
  <2> QED
    BY <2>1, <2>2, <2>3
<1> QED
  BY <1>7, <1>8, <1>9, <1>10, <1>11, <1>12, <1>13 DEF Fits, u

LEMMA SlotForOk ==
  ASSUME NEW t \in Tables, NEW s \in Sid, SlotFor(t, s) # 0
  PROVE  LET r == SlotFor(t, s)
         IN  r \in Slot /\ (t.local[s] = r \/ (t.local[s] = 0 /\ t.rad[r].state = "NULL"))
<1> DEFINE free == {r \in Slot : t.rad[r].state = "NULL"}
<1>1. t.local[s] \in 0 .. MaxRadius
  BY DEF Tables
<1>2. CASE t.local[s] # 0
  BY <1>1, <1>2 DEF SlotFor, Slot
<1>3. CASE t.local[s] = 0
  <2>1. free # {} /\ SlotFor(t, s) = Least(free)
    BY <1>3 DEF SlotFor
  <2>2. free \in SUBSET Nat
    BY DEF Slot
  <2>3. Least(free) \in free
    BY <2>1, <2>2, Smallest
  <2> QED
    BY <1>3, <2>1, <2>3
<1> QED
  BY <1>2, <1>3

LEMMA RadiusNewOk ==
  ASSUME NEW X \in SUBSET Sid, NEW t, Fits(t, X), NEW s \in Sid, t.sess[s].opened, SlotFor(t, s) # 0
  PROVE  LET u == RadiusNew(t, s)
         IN  /\ Fits(u, X) /\ u.sess = t.sess
<1> DEFINE r == SlotFor(t, s)
<1>1. t \in Tables
  BY DEF Fits
<1>2. r \in Slot /\ (t.local[s] = r \/ (t.local[s] = 0 /\ t.rad[r].state = "NULL"))
  BY <1>1, SlotForOk
<1>3. CASE t.local[s] # 0
  BY <1>3 DEF RadiusNew
<1>4. CASE t.local[s] = 0
  <2>1. RadiusNew(t, s) = Taken(t, s, r, "WAIT", t.sent)
    <3>1. t = [t EXCEPT !.sent = t.sent]
      BY <1>1 DEF Tables
    <3>2. RadiusNew(t, s) = [t EXCEPT !.local[s] = r,
                                      !.rad[r] = [state |-> "WAIT", session |-> s, auth |-> t.sess[s].call]]
      BY <1>4 DEF RadiusNew
    <3> HIDE DEF r
    <3> QED
      BY <1>1, <3>2 DEF Taken, Tables
  <2>2. t.sent \in SUBSET ({"START", "STOP"} \X Call) /\ "WAIT" \in SlotState \ {"NULL"}
    BY <1>1 DEF Tables, SlotState
  <2> HIDE DEF r
  <2>3. Fits(Taken(t, s, r, "WAIT", t.sent), X) /\ Taken(t, s, r, "WAIT", t.sent).sess = t.sess
    BY <1>2, <2>2, TakenOk
  <2> QED
    BY <2>1, <2>3
<1> QED
  BY <1>3, <1>4

LEMMA RadiusSendOk ==
  ASSUME NEW X \in SUBSET Sid, NEW t, Fits(t, X), NEW s \in Sid, t.sess[s].opened, SlotFor(t, s) # 0,
         NEW st \in SlotState \ {"NULL"}, st = "AUTH" => t.sess[s].ip = 0
  PROVE  LET u == RadiusSend(t, s, st)
         IN  /\ Fits(u, X) /\ u.sess = t.sess
<1> DEFINE r == SlotFor(t, s)
           n == [state |-> "WAIT", session |-> s, auth |-> t.sess[s].call]
           sent == t.sent \cup ({<<st, t.sess[s].call>>} \cap ({"START", "STOP"} \X Call))
           v == RadiusNew(t, s)
<1>1. t \in Tables /\ t.rad \in [Slot -> SlotType] /\ t.local \in [Sid -> 0 .. MaxRadius]
  BY DEF Fits, Tables
<1>2. r \in Slot /\ (t.local[s] = r \/ (t.local[s] = 0 /\ t.rad[r].state = "NULL"))
  BY <1>1, SlotForOk
<1>3. sent \in SUBSET ({"START", "STOP"} \X Call)
  BY <1>1 DEF Tables
<1>4. RadiusSend(t, s, st) = [v EXCEPT !.rad = [v.rad EXCEPT ![r] = [v.rad[r] EXCEPT !.state = st]],
                                       !.sent = v.sent \cup ({<<st, t.sess[s].call>>} \cap ({"START", "STOP"} \X Call))]
  BY DEF RadiusSend
<1>5. r # 0
  BY <1>2 DEF Slot
<1> HIDE DEF r
<1>6. /\ v = [t EXCEPT !.local = v.local, !.rad = v.rad]
      /\ v.local = [t.local EXCEPT ![s] = r] /\ v.rad \in [Slot -> SlotType] /\ v.sent = t.sent
      /\ v.rad[r].session = s /\ v.rad[r].auth = t.sess[s].call
      /\ [v.rad EXCEPT ![r] = 0] = [t.rad EXCEPT ![r] = 0]
  <2>1. CASE t.local[s] # 0
    <3>1. v = t /\ r = t.local[s]
      BY <1>2, <2>1 DEF RadiusNew
    <3>2. Served(t, s) /\ Serves(t, r)
      BY <1>2 DEF Fits
    <3>3. t.rad[r].session = s /\ t.rad[r].auth = t.sess[s].call
      BY <2>1, <3>1, <3>2 DEF Served, Serves
    <3>4. t = [t EXCEPT !.local = t.local, !.rad = t.rad] /\ t.local = [t.local EXCEPT ![s] = r]
      BY <1>1, <3>1 DEF Tables
    <3> QED
      BY <1>1, <3>1, <3>3, <3>4
  <2>2. CASE t.local[s] = 0
    <3>1. v = [t EXCEPT !.local = [t.local EXCEPT ![s] = r], !.rad = [t.rad EXCEPT ![r] = n]]
      BY <2>2 DEF RadiusNew, r
    <3>2. n \in SlotType /\ n.session = s /\ n.auth = t.sess[s].call
      <4>1. s \in 0 .. MaxSession /\ t.sess[s].call \in 0 .. MaxCalls
        BY <1>1, InRange
      <4> QED
        BY <4>1 DEF SlotType, SlotState
    <3> HIDE DEF n, v
    <3>3. v.local = [t.local EXCEPT ![s] = r] /\ v.rad = [t.rad EXCEPT ![r] = n] /\ v.sent = t.sent
      BY <1>1, <3>1 DEF Tables
    <3>4. v = [t EXCEPT !.local = v.local, !.rad = v.rad]
      BY <3>1, <3>3
    <3> QED
      BY <1>1, <1>2, <3>2, <3>3, <3>4
  <2> QED
    BY <1>2, <2>1, <2>2
<1> HIDE DEF n, v
<1>7. [v.rad EXCEPT ![r] = [v.rad[r] EXCEPT !.state = st]]
        = [t.rad EXCEPT ![r] = [state |-> st, session |-> s, auth |-> t.sess[s].call]]
  <2> DEFINE k == [state |-> st, session |-> s, auth |-> t.sess[s].call]
  <2>1. [v.rad[r] EXCEPT !.state = st] = k
    <3>1. v.rad[r] \in SlotType
      BY <1>2, <1>6
    <3> QED
      BY <1>6, <3>1 DEF SlotType
  <2> HIDE DEF k
  <2>2. \A q \in Slot \ {r} : v.rad[q] = t.rad[q]
    <3> TAKE q \in Slot \ {r}
    <3>1. [v.rad EXCEPT ![r] = 0][q] = v.rad[q] /\ [t.rad EXCEPT ![r] = 0][q] = t.rad[q]
      BY <1>1, <1>6
    <3> QED
      BY <1>6, <3>1
  <2>3. [v.rad EXCEPT ![r] = k] = [t.rad EXCEPT ![r] = k]
    BY <1>1, <1>6, <2>2
  <2> QED
    BY <2>1, <2>3 DEF k
<1>8. RadiusSend(t, s, st) = Taken(t, s, r, st, sent)
  <2> DEFINE a == [t.rad EXCEPT ![r] = [state |-> st, session |-> s, auth |-> t.sess[s].call]]
             l == [t.local EXCEPT ![s] = r]
  <2>1. RadiusSend(t, s, st) = [v EXCEPT !.rad = a, !.sent = sent]
    BY <1>4, <1>6, <1>7
  <2>2. Taken(t, s, r, st, sent) = [t EXCEPT !.local = l, !.rad = a, !.sent = sent]
    BY DEF Taken
  <2> HIDE DEF a, l, sent
  <2>3. v = [t EXCEPT !.local = l, !.rad = v.rad]
    BY <1>6 DEF l
  <2>4. [v EXCEPT !.rad = a, !.sent = sent] = [t EXCEPT !.local = l, !.rad = a, !.sent = sent]
    BY <1>1, <2>3 DEF Tables
  <2> QED
    BY <2>1, <2>2, <2>4
<1> HIDE DEF sent
<1>9. Fits(Taken(t, s, r, st, sent), X) /\ Taken(t, s, r, st, sent).sess = t.sess
  BY <1>2, <1>3, TakenOk
<1> QED
  BY <1>8, <1>9

-----------------------------------------------------------------------------
(* Changes of one entry. *)

\* An open session's entry may change as long as the address it has then is
\* the one the pool has given it.
LEMMA UpdateOk ==
  ASSUME NEW X \in SUBSET Sid, NEW s \in X, NEW t, Fits(t, X), t.sess[s].opened,
         NEW u \in Tables, u.free = t.free, u.local = t.local, u.rad = t.rad,
         u.pool = t.pool, u.late = t.late, u.copy = t.copy,
         \A i \in Sid \ {s} : u.sess[i] = t.sess[i],
         NEW e \in SessType, u.sess[s] = e, EntryOk(e), e.opened, e.call = t.sess[s].call,
         e.ip # 0 /\ ~e.static => t.pool[e.ip] = s /\ (e.die => e.ip \in t.late),
         \A a \in Pool \ t.late : t.pool[a] = s => e.ip = a /\ ~e.static
  PROVE  Fits(u, X)
<1>1. t \in Tables /\ t.sess \in [Sid -> SessType] /\ s \in Sid /\ EntryOk(t.sess[s]) /\ t.pool \in [Pool -> 0 .. MaxSession]
  BY DEF Fits, Tables
<1>2. u.sess[s] = e /\ \A i \in Sid \ {s} : u.sess[i] = t.sess[i]
  OBVIOUS
<1>3. /\ u.free = t.free /\ u.local = t.local /\ u.rad = t.rad
      /\ u.pool = t.pool /\ u.late = t.late /\ u.copy = t.copy
  OBVIOUS
<1>4. ASSUME NEW i \in Sid
      PROVE  /\ EntryOk(u.sess[i]) /\ Holds(u, i) /\ Served(u, i)
             /\ u.sess[i].opened = t.sess[i].opened /\ u.sess[i].next = t.sess[i].next /\ u.sess[i].call = t.sess[i].call
  <2>1. EntryOk(t.sess[i]) /\ Holds(t, i) /\ Served(t, i)
    BY DEF Fits
  <2>2. CASE i = s
    <3>1. t.sess[i].next = 0 /\ e.next = 0 /\ e.opened = t.sess[i].opened
      BY <2>1, <2>2 DEF EntryOk, SessType
    <3> QED
      BY <1>2, <1>3, <2>1, <2>2, <3>1 DEF Holds, Served
  <2>3. CASE i # s
    BY <1>2, <1>3, <2>1, <2>3 DEF Holds, Served
  <2> QED
    BY <2>2, <2>3
<1>5. ASSUME NEW a \in Pool
      PROVE  Held(u, a)
  <2> SUFFICES ASSUME a \notin t.late, t.pool[a] # 0
               PROVE  LET k == u.sess[t.pool[a]] IN k.opened /\ k.ip = a /\ ~k.static
    BY <1>3 DEF Held
  <2>1. CASE t.pool[a] = s
    BY <1>2, <1>3, <2>1
  <2>2. CASE t.pool[a] # s
    <3>1. t.pool[a] \in Sid \ {s}
      BY <1>1, <2>2 DEF Sid
    <3>2. Held(t, a)
      BY DEF Fits
    <3> QED
      BY <1>2, <1>3, <3>1, <3>2 DEF Held
  <2> QED
    BY <2>1, <2>2
<1>6. ASSUME NEW r \in Slot
      PROVE  Serves(u, r)
  <2>1. Serves(t, r) /\ t.rad[r].session \in 0 .. MaxSession
    BY <1>1 DEF Fits, Tables, SlotType
  <2>2. t.rad[r].session # 0 => t.rad[r].session \in Sid
    BY <2>1 DEF Sid
  <2> QED
    BY <1>3, <1>4, <2>1, <2>2 DEF Serves
<1>7. (\A i \in Sid \ X : Copied(u, i) /\ Waits(u, i)) /\ \A i, j \in Sid \ X : Apart(u, i, j)
  <2>1. \A i \in Sid \ X : u.sess[i] = t.sess[i]
    BY <1>2, <1>3
  <2> QED
    BY <1>3, <2>1 DEF Fits, Copied, Waits, Apart
<1>8. ListOk(u)
  BY <1>3, <1>4, ListSame DEF Fits
<1> QED
  BY <1>3, <1>4, <1>5, <1>6, <1>7, <1>8 DEF Fits

\* The tables with another entry of s.
With(t, s, e) == [t EXCEPT !.sess = [t.sess EXCEPT ![s] = e]]

\* A change that leaves the address alone, sent to the slaves.
LEMMA ChangeOk ==
  ASSUME NEW X \in SUBSET Sid, NEW s \in Sid \ X, NEW t, Fits(t, X), t.sess[s].opened,
         NEW e \in SessType, EntryOk(e), Waiting(e), e.opened, e.call = t.sess[s].call,
         e.ip = t.sess[s].ip, e.static = t.sess[s].static, e.die = t.sess[s].die
  PROVE  LET u == Send(With(t, s, e), s)
         IN  Fits(u, X) /\ u.sess[s] = e
<1> DEFINE Y == X \cup {s}
           n == [t.sess EXCEPT ![s] = e]
           u == [t EXCEPT !.sess = n]
<1>1. /\ t \in Tables /\ t.sess \in [Sid -> SessType] /\ t.pool \in [Pool -> 0 .. MaxSession]
      /\ EntryOk(t.sess[s]) /\ Holds(t, s) /\ Waits(t, s)
  BY DEF Fits, Tables
<1>2. n \in [Sid -> SessType] /\ n[s] = e /\ \A i \in Sid \ {s} : n[i] = t.sess[i]
  BY <1>1
<1>3. e.ip # 0 /\ ~e.static => t.pool[e.ip] = s /\ (e.die => e.ip \in t.late)
  BY <1>1 DEF Holds
<1>4. \A a \in Pool \ t.late : t.pool[a] = s => e.ip = a /\ ~e.static
  <2>1. s # 0
    BY <1>1, InRange
  <2> QED
    BY <2>1 DEF Fits, Held
<1>5. Fits(t, Y)
  BY Fewer
<1> HIDE DEF n
<1>7. /\ u \in Tables /\ u.sess = n /\ u.free = t.free /\ u.local = t.local /\ u.rad = t.rad
      /\ u.pool = t.pool /\ u.late = t.late /\ u.copy = t.copy
  BY <1>1, <1>2 DEF Tables
<1> HIDE DEF u
<1>6. Fits(u, Y)
  <2>1. Y \in SUBSET Sid /\ s \in Y
    OBVIOUS
  <2>2. u.sess[s] = e /\ \A i \in Sid \ {s} : u.sess[i] = t.sess[i]
    BY <1>2, <1>7
  <2> HIDE DEF Y
  <2> QED
    BY <1>3, <1>4, <1>5, <1>7, <2>1, <2>2, UpdateOk
<1>8. Waits(u, s)
  BY <1>1, <1>2, <1>7 DEF Waits
<1>9. \A j \in Sid \ X : Apart(u, s, j) /\ Apart(u, j, s)
  <2> TAKE j \in Sid \ X
  <2>1. CASE j = s
    BY <2>1 DEF Apart
  <2>2. CASE j # s
    <3>1. Apart(t, s, j) /\ Apart(t, j, s) /\ u.sess[j] = t.sess[j] /\ u.sess[s] = e
      BY <1>2, <1>7, <2>2 DEF Fits
    <3> QED
      BY <3>1 DEF Apart
  <2> QED
    BY <2>1, <2>2
<1>10. LET v == Send(u, s) IN Fits(v, X) /\ v = [u EXCEPT !.copy = v.copy]
  BY <1>6, <1>8, <1>9, SendOk
<1> DEFINE v == Send(u, s)
<1>11. Fits(v, X) /\ v = [u EXCEPT !.copy = v.copy]
  BY <1>10
<1> HIDE DEF v
<1>12. v.sess[s] = e
  BY <1>2, <1>7, <1>11 DEF Tables
<1> QED
  BY <1>11, <1>12 DEF v, u, n, With

LEMMA EndedIs ==
  ASSUME NEW e \in SessType
  PROVE  /\ Ended(e) \in SessType
         /\ Ended(e).opened = e.opened /\ Ended(e).next = e.next /\ Ended(e).call = e.call
         /\ Ended(e).ip = 0 /\ Ended(e).die /\ Ended(e).granted = e.granted
  BY DEF SessType, Phase, Ended

\* sessionshutdown and sessionkill of any session.
LEMMA AnyShutdown ==
  ASSUME NEW X \in SUBSET Sid, NEW i \in Sid \ X, NEW t, Fits(t, X)
  PROVE  LET u == SessionShutdown(t, i)
         IN  /\ Fits(u, X) /\ SameBut(t, u, i)
             /\ u.sess[i].opened = t.sess[i].opened
             /\ u.sess[i].opened => u.sess[i].ip = 0
<1> DEFINE u == SessionShutdown(t, i)
<1>1. CASE ~t.sess[i].opened
  BY <1>1 DEF SessionShutdown, SameBut
<1>2. CASE t.sess[i].opened
  <2>1. Fits(t, X \cup {i}) /\ t \in Tables
    BY Fewer DEF Fits
  <2>2. Fits(u, X) /\ u.local = t.local /\ u.sess = [t.sess EXCEPT ![i] = Ended(t.sess[i])]
    BY <1>2, <2>1, ShutdownOk
  <2>3. t.sess \in [Sid -> SessType] /\ t.sess[i] \in SessType
    BY <2>1 DEF Tables
  <2> HIDE DEF u
  <2>4. u.sess[i] = Ended(t.sess[i]) /\ \A s \in Sid \ {i} : u.sess[s] = t.sess[s]
    BY <2>2, <2>3
  <2>5. u.sess[i].opened = t.sess[i].opened /\ u.sess[i].ip = 0
    BY <2>3, <2>4, EndedIs
  <2> QED
    BY <2>2, <2>4, <2>5 DEF u, SameBut
<1> QED
  BY <1>1, <1>2

LEMMA AnyKill ==
  ASSUME NEW X \in SUBSET Sid, NEW i \in Sid \ X, NEW t, Fits(t, X)
  PROVE  LET u == SessionKill(t, i)
         IN  /\ Fits(u, X)
             /\ SameBut(t, u, i)
             /\ ~u.sess[i].opened
             /\ t.sess[i].opened => u.local[i] = 0 /\ u.sess[i].next = t.free /\ u.free = i
<1> DEFINE u == SessionKill(t, i)
<1>1. CASE ~t.sess[i].opened
  BY <1>1 DEF SessionKill, SameBut
<1>2. CASE t.sess[i].opened
  <2>1. Fits(t, X \cup {i})
    BY Fewer
  <2>2. /\ Fits(u, X) /\ u.free = i /\ u.sess[i] = Freed(t.free) /\ u.local[i] = 0
        /\ SameBut(t, u, i)
    BY <1>2, <2>1, KillOk
  <2>3. ~Freed(t.free).opened /\ Freed(t.free).next = t.free
    BY DEF Closed, Freed
  <2> HIDE DEF u
  <2> QED
    BY <2>2, <2>3 DEF u
<1> QED
  BY <1>1, <1>2

-----------------------------------------------------------------------------
(* A call is accepted, a session gets an address. *)

\* The entry of a call that has just come in.
Fresh(c) == [Closed EXCEPT !.opened = TRUE, !.phase = "Establish", !.call = c]

\* Nothing belongs to a free entry.
LEMMA FreeIsBare ==
  ASSUME NEW X, NEW t, Fits(t, X), NEW s \in Sid, ~t.sess[s].opened
  PROVE  /\ t.local[s] = 0
         /\ \A r \in Slot : t.rad[r].state # "NULL" => t.rad[r].session # s
         /\ \A a \in Pool \ t.late : t.pool[a] # s
<1>1. \A r \in Slot : t.rad[r].state # "NULL" => t.rad[r].session # s
  BY DEF Fits, Serves
<1>2. t.local[s] = 0
  <2>1. t.local[s] # 0 => t.local[s] \in Slot
    BY DEF Fits, Tables, Slot
  <2> QED
    BY <1>1, <2>1 DEF Fits, Served
<1>3. \A a \in Pool \ t.late : t.pool[a] # s
  <2>1. s # 0
    BY DEF Sid
  <2> QED
    BY <2>1 DEF Fits, Held
<1> QED
  BY <1>1, <1>2, <1>3

LEMMA OpenedOk ==
  ASSUME NEW t, Fits(t, {}), NEW s \in Sid, t.free = s, calls + 1 \in Call
  PROVE  Fits(Opened(t, s), {})
<1> DEFINE c == calls + 1
           e == Fresh(c)
           n == [t.sess EXCEPT ![s] = e]
           no == t.noauth \ {s}
           u == Opened(t, s)
<1>1. /\ t \in Tables /\ t.sess \in [Sid -> SessType] /\ t.sess[s] \in SessType
      /\ t.pool \in [Pool -> 0 .. MaxSession] /\ t.rad \in [Slot -> SlotType]
      /\ t.copy \in [Sid -> SessType]
  BY DEF Fits, Tables
<1>2. ~t.sess[s].opened
  <2>1. PICK F \in SUBSET Sid : OnList(t, F)
    BY DEF Fits, ListOk
  <2>2. s # 0
    BY DEF Sid
  <2> QED
    BY <2>1, <2>2 DEF OnList
<1>3. e \in SessType /\ e.opened /\ e.next = 0 /\ e.call = c /\ e.ip = 0 /\ e.granted = 0 /\ e.phase = "Establish" /\ ~e.die
  <2>1. c \in 0 .. MaxCalls /\ 0 \in 0 .. MaxCalls /\ 0 \in 0 .. MaxSession
    BY SizesArePositive DEF Call
  <2> HIDE DEF c
  <2> QED
    BY <2>1 DEF Fresh, Closed, SessType, Phase
<1>4. c # 0
  BY DEF Call
<1>5. Opened(t, s) = [t EXCEPT !.free = t.sess[s].next, !.sess = [t.sess EXCEPT ![s] = Fresh(c)], !.noauth = no]
  BY DEF Opened, Fresh
<1> HIDE DEF c, e
<1>6. n \in [Sid -> SessType] /\ n[s] = e /\ \A i \in Sid \ {s} : n[i] = t.sess[i]
  BY <1>1, <1>3
<1>7. t.sess[s].next \in 0 .. MaxSession
  BY <1>1 DEF SessType
<1>8. u = [t EXCEPT !.free = t.sess[s].next, !.sess = n, !.noauth = no]
  BY <1>5 DEF e
<1>17. no \in SUBSET Sid
  BY <1>1 DEF Tables
<1> HIDE DEF n, no, u
<1>9. /\ u \in Tables /\ u.sess = n /\ u.free = t.sess[s].next /\ u.local = t.local /\ u.rad = t.rad
      /\ u.pool = t.pool /\ u.late = t.late /\ u.copy = t.copy
  BY <1>1, <1>6, <1>7, <1>8, <1>17 DEF Tables
<1>10. /\ t.local[s] = 0
       /\ \A r \in Slot : t.rad[r].state # "NULL" => t.rad[r].session # s
       /\ \A a \in Pool \ t.late : t.pool[a] # s
  BY <1>2, FreeIsBare
<1>11. ASSUME NEW i \in Sid
       PROVE  EntryOk(u.sess[i]) /\ Holds(u, i) /\ Served(u, i) /\ Waits(u, i)
  <2>1. CASE i = s
    BY <1>3, <1>4, <1>6, <1>9, <1>10, <2>1 DEF EntryOk, Holds, Served, Waits, Waiting
  <2>2. CASE i # s
    BY <1>6, <1>9, <2>2 DEF Fits, Holds, Served, Waits
  <2> QED
    BY <2>1, <2>2
<1>12. ASSUME NEW a \in Pool
       PROVE  Held(u, a)
  <2>1. a \notin t.late /\ t.pool[a] # 0 => t.pool[a] \in Sid \ {s}
    BY <1>1, <1>10 DEF Sid
  <2>2. Held(t, a)
    BY DEF Fits
  <2> QED
    BY <1>6, <1>9, <2>1, <2>2 DEF Held
<1>13. ASSUME NEW r \in Slot
       PROVE  Serves(u, r)
  <2>1. Serves(t, r) /\ t.rad[r] \in SlotType
    BY <1>1 DEF Fits
  <2>2. t.rad[r].state # "NULL" => t.rad[r].session \in Sid \ {s}
    BY <1>10, <2>1 DEF Serves, SlotType, Sid
  <2> QED
    BY <1>6, <1>9, <2>1, <2>2 DEF Serves
<1>14. ASSUME NEW i \in Sid
       PROVE  Copied(u, i)
  <2>1. Copied(t, i)
    BY DEF Fits
  <2>2. CASE i = s
    BY <1>2, <1>9, <2>1, <2>2 DEF Copied
  <2>3. CASE i # s
    BY <1>6, <1>9, <2>1, <2>3 DEF Copied
  <2> QED
    BY <2>2, <2>3
<1>15. ASSUME NEW i \in Sid, NEW j \in Sid
       PROVE  Apart(u, i, j)
  <2>1. CASE i = s \/ j = s
    BY <1>3, <1>6, <1>9, <2>1 DEF Apart
  <2>2. CASE i # s /\ j # s
    BY <1>6, <1>9, <2>2 DEF Fits, Apart
  <2> QED
    BY <2>1, <2>2
<1>16. ListOk(u)
  <2>1. ListOk(t)
    BY DEF Fits
  <2> QED
    BY <1>3, <1>6, <1>9, <2>1, Popped
<1> QED
  BY <1>9, <1>11, <1>12, <1>13, <1>14, <1>15, <1>16 DEF Fits, u

LEMMA AssignOk ==
  ASSUME NEW X \in SUBSET Sid, NEW s \in X, NEW t, Fits(t, X), t.sess[s].opened, t.sess[s].ip = 0,
         NEW a \in Pool, t.pool[a] = 0
  PROVE  LET u == Assign(t, s, a)
         IN  /\ Fits(u, X) /\ u.local = t.local /\ u.rad = t.rad
             /\ u.sess[s].opened /\ u.sess[s].ip = a
<1> DEFINE e == [t.sess[s] EXCEPT !.ip = a, !.static = FALSE]
           n == [t.sess EXCEPT ![s] = e]
           p == [t.pool EXCEPT ![a] = s]
           l == IF t.sess[s].die THEN t.late \cup {a} ELSE t.late
           u == Assign(t, s, a)
<1>1. /\ t \in Tables /\ t.sess \in [Sid -> SessType] /\ t.sess[s] \in SessType /\ s \in Sid
      /\ t.pool \in [Pool -> 0 .. MaxSession] /\ t.rad \in [Slot -> SlotType] /\ t.late \subseteq Pool
  BY DEF Fits, Tables
<1>2. a # 0 /\ s # 0 /\ s \in 0 .. MaxSession
  BY <1>1, AddressesAreNats, InRange
<1>3. /\ e \in SessType /\ e.opened /\ e.next = t.sess[s].next /\ e.call = t.sess[s].call /\ e.ip = a
      /\ ~e.static /\ e.granted = t.sess[s].granted /\ e.die = t.sess[s].die
  BY <1>1 DEF SessType
<1>4. p \in [Pool -> 0 .. MaxSession] /\ p[a] = s /\ \A b \in Pool \ {a} : p[b] = t.pool[b]
  BY <1>1, <1>2
<1>5. n \in [Sid -> SessType] /\ n[s] = e /\ \A i \in Sid \ {s} : n[i] = t.sess[i]
  BY <1>1, <1>3
<1>6. l \in SUBSET Pool /\ t.late \subseteq l /\ (t.sess[s].die => a \in l) /\ l \subseteq t.late \cup {a}
  BY <1>1
<1>7. u = [t EXCEPT !.sess = n, !.pool = p, !.late = l]
  <2> DEFINE n1 == [t.sess EXCEPT ![s] = [t.sess[s] EXCEPT !.ip = a]]
  <2>1. n1 \in [Sid -> SessType] /\ n1[s] = [t.sess[s] EXCEPT !.ip = a]
    BY <1>1 DEF SessType
  <2>2. [n1 EXCEPT ![s] = [n1[s] EXCEPT !.static = FALSE]] = n
    BY <1>1, <2>1
  <2>3. u = [t EXCEPT !.sess = [n1 EXCEPT ![s] = [n1[s] EXCEPT !.static = FALSE]], !.pool = p, !.late = l]
    BY <1>1 DEF Assign, Tables
  <2> HIDE DEF u, n1, n, p, l
  <2> QED
    BY <2>2, <2>3
<1> HIDE DEF e, n, p, l, u
<1>8. /\ u \in Tables /\ u.sess = n /\ u.free = t.free /\ u.local = t.local /\ u.rad = t.rad
      /\ u.pool = p /\ u.late = l /\ u.copy = t.copy
  BY <1>1, <1>4, <1>5, <1>6, <1>7 DEF Tables
<1>9. ASSUME NEW i \in Sid
      PROVE  /\ EntryOk(u.sess[i]) /\ Served(u, i)
             /\ u.sess[i].opened = t.sess[i].opened /\ u.sess[i].next = t.sess[i].next /\ u.sess[i].call = t.sess[i].call
  <2>1. CASE i = s
    <3>1. EntryOk(t.sess[s]) /\ Served(t, s)
      BY <1>1 DEF Fits
    <3>2. EntryOk(e)
      BY <1>3, <3>1 DEF EntryOk
    <3>3. e.opened = t.sess[s].opened
      BY <1>1, <1>3 DEF SessType
    <3> QED
      BY <1>3, <1>5, <1>8, <2>1, <3>1, <3>2, <3>3 DEF Served
  <2>2. CASE i # s
    BY <1>5, <1>8, <2>2 DEF Fits, Served
  <2> QED
    BY <2>1, <2>2
<1>10. ASSUME NEW i \in Sid
       PROVE  Holds(u, i)
  <2>1. CASE i = s
    BY <1>3, <1>4, <1>5, <1>6, <1>8, <2>1 DEF Holds
  <2>2. CASE i # s /\ t.sess[i].opened /\ t.sess[i].ip # 0 /\ ~t.sess[i].static
    <3>1. Holds(t, i) /\ EntryOk(t.sess[i]) /\ i # 0
      BY DEF Fits, Sid
    <3>2. t.sess[i].ip \in Pool \ {a}
      BY <2>2, <3>1 DEF Holds, EntryOk
    <3> QED
      BY <1>4, <1>5, <1>6, <1>8, <2>2, <3>1, <3>2 DEF Holds
  <2>3. CASE i # s /\ ~(t.sess[i].opened /\ t.sess[i].ip # 0 /\ ~t.sess[i].static)
    BY <1>5, <1>8, <2>3 DEF Holds
  <2> QED
    BY <2>1, <2>2, <2>3
<1>11. ASSUME NEW b \in Pool
       PROVE  Held(u, b)
  <2>1. CASE b = a
    BY <1>3, <1>4, <1>5, <1>8, <2>1 DEF Held
  <2>2. CASE b # a
    <3>1. Held(t, b) /\ b # 0
      BY AddressesAreNats DEF Fits
    <3>2. t.pool[b] # 0 => t.pool[b] \in Sid
      BY <1>1 DEF Sid
    <3>3. b \notin t.late => t.pool[b] # s
      BY <1>2, <3>1 DEF Held
    <3> QED
      BY <1>4, <1>5, <1>6, <1>8, <2>2, <3>1, <3>2, <3>3 DEF Held
  <2> QED
    BY <2>1, <2>2
<1>12. ASSUME NEW r \in Slot
       PROVE  Serves(u, r)
  <2>1. Serves(t, r) /\ t.rad[r] \in SlotType
    BY <1>1 DEF Fits
  <2>2. t.rad[r].state # "NULL" => t.rad[r].session \in Sid
    BY <2>1 DEF Serves, SlotType, Sid
  <2> QED
    BY <1>8, <1>9, <2>1, <2>2 DEF Serves
<1>13. (\A i \in Sid \ X : Copied(u, i) /\ Waits(u, i)) /\ \A i, j \in Sid \ X : Apart(u, i, j)
  <2>1. \A i \in Sid \ X : u.sess[i] = t.sess[i]
    BY <1>5, <1>8
  <2> QED
    BY <1>8, <2>1 DEF Fits, Copied, Waits, Apart
<1>14. ListOk(u)
  BY <1>8, <1>9, ListSame DEF Fits
<1>15. Fits(u, X)
  BY <1>8, <1>9, <1>10, <1>11, <1>12, <1>13, <1>14 DEF Fits
<1> QED
  BY <1>3, <1>5, <1>8, <1>15 DEF u

-----------------------------------------------------------------------------
(* Loops over the sessions. *)

LEMMA AllShutdown ==
  ASSUME NEW t, Fits(t, {})
  PROVE  Fits(ForSessions(LAMBDA s, u : SessionShutdown(u, s), t), {})
<1> DEFINE T == {u \in Tables : Fits(u, {})}
           F == [p \in (1 .. MaxSession) \X T |-> SessionShutdown(p[2], p[1])]
           D == CHOOSE g : g = [i \in 0 .. MaxSession |-> IF i = 0 THEN t ELSE SessionShutdown(g[i - 1], i)]
<1>1. MaxSession \in Nat /\ t \in T
  BY SizesArePositive DEF Fits
<1>2. ASSUME NEW u \in T, NEW i \in Sid
      PROVE  SessionShutdown(u, i) \in T
  <2>1. Fits(SessionShutdown(u, i), {})
    BY AnyShutdown
  <2> QED
    BY <2>1 DEF Fits
<1> HIDE DEF T
<1>3. F \in [(1 .. MaxSession) \X T -> T]
  BY <1>2 DEF Sid
<1> HIDE DEF F
<1>4. PICK g \in [0 .. MaxSession -> T] : Rounds(MaxSession, F, t, g)
  BY <1>1, <1>3, LoopDefined
<1>5. ASSUME NEW i \in 1 .. MaxSession
      PROVE  g[i] = SessionShutdown(g[i - 1], i)
  <2>1. i - 1 \in 0 .. MaxSession
    BY <1>1
  <2>2. <<i, g[i - 1]>> \in (1 .. MaxSession) \X T
    BY <2>1
  <2>3. F[<<i, g[i - 1]>>] = SessionShutdown(g[i - 1], i)
    BY <2>2 DEF F
  <2> QED
    BY <1>4, <2>3 DEF Rounds
<1>6. g = [i \in 0 .. MaxSession |-> IF i = 0 THEN t ELSE SessionShutdown(g[i - 1], i)]
  <2>1. \A i \in 0 .. MaxSession : g[i] = IF i = 0 THEN t ELSE SessionShutdown(g[i - 1], i)
    BY <1>1, <1>4, <1>5 DEF Rounds
  <2> QED
    BY <2>1
<1>7. D = [i \in 0 .. MaxSession |-> IF i = 0 THEN t ELSE SessionShutdown(D[i - 1], i)]
  BY <1>6
<1> HIDE DEF D
<1> DEFINE S == {i \in 0 .. MaxSession : D[i] \in T}
<1>8. 0 \in S
  BY <1>1, <1>7
<1>9. ASSUME NEW i \in 0 .. MaxSession - 1, i \in S PROVE i + 1 \in S
  <2>1. i + 1 \in Sid /\ i + 1 \in 0 .. MaxSession /\ i + 1 # 0 /\ (i + 1) - 1 = i
    BY <1>1 DEF Sid
  <2>2. D[i + 1] = SessionShutdown(D[i], i + 1)
    BY <1>7, <2>1
  <2> QED
    BY <1>2, <1>9, <2>1, <2>2
<1> HIDE DEF S
<1>10. MaxSession \in S
  <2>1. \A i \in 0 .. MaxSession : i \in S
    BY <1>1, <1>8, <1>9, Induct
  <2> QED
    BY <1>1, <2>1
<1>11. ForSessions(LAMBDA s, u : SessionShutdown(u, s), t) = D[MaxSession]
  BY DEF ForSessions, D
<1> QED
  BY <1>10, <1>11 DEF S, T

LEMMA AllKill ==
  ASSUME NEW t, Fits(t, {})
  PROVE  Fits(ForSessions(LAMBDA s, u : SessionKill(u, s), t), {})
<1> DEFINE T == {u \in Tables : Fits(u, {})}
           F == [p \in (1 .. MaxSession) \X T |-> SessionKill(p[2], p[1])]
           D == CHOOSE g : g = [i \in 0 .. MaxSession |-> IF i = 0 THEN t ELSE SessionKill(g[i - 1], i)]
<1>1. MaxSession \in Nat /\ t \in T
  BY SizesArePositive DEF Fits
<1>2. ASSUME NEW u \in T, NEW i \in Sid
      PROVE  SessionKill(u, i) \in T
  <2>1. Fits(SessionKill(u, i), {})
    BY AnyKill
  <2> QED
    BY <2>1 DEF Fits
<1> HIDE DEF T
<1>3. F \in [(1 .. MaxSession) \X T -> T]
  BY <1>2 DEF Sid
<1> HIDE DEF F
<1>4. PICK g \in [0 .. MaxSession -> T] : Rounds(MaxSession, F, t, g)
  BY <1>1, <1>3, LoopDefined
<1>5. ASSUME NEW i \in 1 .. MaxSession
      PROVE  g[i] = SessionKill(g[i - 1], i)
  <2>1. i - 1 \in 0 .. MaxSession
    BY <1>1
  <2>2. <<i, g[i - 1]>> \in (1 .. MaxSession) \X T
    BY <2>1
  <2>3. F[<<i, g[i - 1]>>] = SessionKill(g[i - 1], i)
    BY <2>2 DEF F
  <2> QED
    BY <1>4, <2>3 DEF Rounds
<1>6. g = [i \in 0 .. MaxSession |-> IF i = 0 THEN t ELSE SessionKill(g[i - 1], i)]
  <2>1. \A i \in 0 .. MaxSession : g[i] = IF i = 0 THEN t ELSE SessionKill(g[i - 1], i)
    BY <1>1, <1>4, <1>5 DEF Rounds
  <2> QED
    BY <2>1
<1>7. D = [i \in 0 .. MaxSession |-> IF i = 0 THEN t ELSE SessionKill(D[i - 1], i)]
  BY <1>6
<1> HIDE DEF D
<1> DEFINE S == {i \in 0 .. MaxSession : D[i] \in T}
<1>8. 0 \in S
  BY <1>1, <1>7
<1>9. ASSUME NEW i \in 0 .. MaxSession - 1, i \in S PROVE i + 1 \in S
  <2>1. i + 1 \in Sid /\ i + 1 \in 0 .. MaxSession /\ i + 1 # 0 /\ (i + 1) - 1 = i
    BY <1>1 DEF Sid
  <2>2. D[i + 1] = SessionKill(D[i], i + 1)
    BY <1>7, <2>1
  <2> QED
    BY <1>2, <1>9, <2>1, <2>2
<1> HIDE DEF S
<1>10. MaxSession \in S
  <2>1. \A i \in 0 .. MaxSession : i \in S
    BY <1>1, <1>8, <1>9, Induct
  <2> QED
    BY <1>1, <2>1
<1>11. ForSessions(LAMBDA s, u : SessionKill(u, s), t) = D[MaxSession]
  BY DEF ForSessions, D
<1> QED
  BY <1>10, <1>11 DEF S, T

\* What sessionsetup does to session i for s.
Zap(i, u, s, twins) ==
  IF i = s \/ ~u.sess[s].opened THEN u
  ELSE IF u.sess[i].ip = u.sess[s].ip THEN SessionKill(u, i)
  ELSE IF i \in twins THEN SessionShutdown(u, i) ELSE u

\* Afterwards i does not have the address of s.
LEMMA ZapOne ==
  ASSUME NEW s \in Sid, NEW i \in Sid, NEW twins, NEW u, Fits(u, {s})
  PROVE  LET v == Zap(i, u, s, twins)
         IN  /\ Fits(v, {s}) /\ v.sess[s] = u.sess[s] /\ v.local[s] = u.local[s]
             /\ \A j \in Sid \ {i} : v.sess[j] = u.sess[j]
             /\ Apart(v, s, i) /\ Apart(v, i, s)
<1> DEFINE v == Zap(i, u, s, twins)
<1>1. CASE i = s \/ ~u.sess[s].opened
  BY <1>1 DEF Zap, Apart
<1> HIDE DEF v
<1>5. {s} \in SUBSET Sid
  OBVIOUS
<1>2. CASE i # s /\ u.sess[s].opened /\ u.sess[i].ip = u.sess[s].ip
  <2>1. v = SessionKill(u, i) /\ i \in Sid \ {s} /\ s \in Sid \ {i}
    BY <1>2 DEF Zap, v
  <2>2. Fits(v, {s}) /\ ~v.sess[i].opened /\ SameBut(u, v, i)
    BY <1>5, <2>1, AnyKill
  <2> QED
    BY <2>1, <2>2 DEF Apart, SameBut, v
<1>3. CASE i # s /\ u.sess[s].opened /\ u.sess[i].ip # u.sess[s].ip /\ i \in twins
  <2>1. v = SessionShutdown(u, i) /\ i \in Sid \ {s} /\ s \in Sid \ {i}
    BY <1>3 DEF Zap, v
  <2>2. Fits(v, {s}) /\ (v.sess[i].opened => v.sess[i].ip = 0) /\ SameBut(u, v, i)
    BY <1>5, <2>1, AnyShutdown
  <2> QED
    BY <2>1, <2>2 DEF Apart, SameBut, v
<1>4. CASE i # s /\ u.sess[s].opened /\ u.sess[i].ip # u.sess[s].ip /\ i \notin twins
  BY <1>4 DEF Zap, Apart, v
<1> QED
  BY <1>1, <1>2, <1>3, <1>4

LEMMA ZapOldOk ==
  ASSUME NEW s \in Sid, NEW twins, NEW t, Fits(t, {s})
  PROVE  LET u == ZapOld(t, s, twins)
         IN  /\ Fits(u, {s}) /\ u.sess[s] = t.sess[s] /\ u.local[s] = t.local[s]
             /\ \A j \in Sid : Apart(u, s, j) /\ Apart(u, j, s)
<1> DEFINE T == {u \in Tables : Fits(u, {s}) /\ u.sess[s] = t.sess[s] /\ u.local[s] = t.local[s]}
           F == [p \in (1 .. MaxSession) \X T |-> Zap(p[1], p[2], s, twins)]
           D == CHOOSE g : g = [i \in 0 .. MaxSession |-> IF i = 0 THEN t ELSE Zap(i, g[i - 1], s, twins)]
<1>1. MaxSession \in Nat /\ t \in T
  BY SizesArePositive DEF Fits
<1>2. ASSUME NEW u \in T, NEW i \in Sid
      PROVE  LET v == Zap(i, u, s, twins)
             IN  v \in T /\ Apart(v, s, i) /\ Apart(v, i, s) /\ \A j \in Sid \ {i} : v.sess[j] = u.sess[j]
  <2> DEFINE v == Zap(i, u, s, twins)
  <2>1. /\ Fits(v, {s}) /\ v.sess[s] = u.sess[s] /\ v.local[s] = u.local[s]
        /\ \A j \in Sid \ {i} : v.sess[j] = u.sess[j]
        /\ Apart(v, s, i) /\ Apart(v, i, s)
    BY ZapOne
  <2> HIDE DEF v
  <2>2. v \in T
    BY <2>1 DEF Fits
  <2> QED
    BY <2>1, <2>2 DEF v
<1> HIDE DEF T
<1>3. F \in [(1 .. MaxSession) \X T -> T]
  BY <1>2 DEF Sid
<1> HIDE DEF F
<1>4. PICK g \in [0 .. MaxSession -> T] : Rounds(MaxSession, F, t, g)
  BY <1>1, <1>3, LoopDefined
<1>5. ASSUME NEW i \in 1 .. MaxSession
      PROVE  g[i] = Zap(i, g[i - 1], s, twins)
  <2>1. i - 1 \in 0 .. MaxSession
    BY <1>1
  <2>2. <<i, g[i - 1]>> \in (1 .. MaxSession) \X T
    BY <2>1
  <2>3. F[<<i, g[i - 1]>>] = Zap(i, g[i - 1], s, twins)
    BY <2>2 DEF F
  <2> QED
    BY <1>4, <2>3 DEF Rounds
<1>6. g = [i \in 0 .. MaxSession |-> IF i = 0 THEN t ELSE Zap(i, g[i - 1], s, twins)]
  <2>1. \A i \in 0 .. MaxSession : g[i] = IF i = 0 THEN t ELSE Zap(i, g[i - 1], s, twins)
    BY <1>1, <1>4, <1>5 DEF Rounds
  <2> QED
    BY <2>1
<1>7. D = [i \in 0 .. MaxSession |-> IF i = 0 THEN t ELSE Zap(i, D[i - 1], s, twins)]
  BY <1>6
<1> HIDE DEF D
<1> DEFINE S == {i \in 0 .. MaxSession :
                   D[i] \in T /\ \A j \in 1 .. i : Apart(D[i], s, j) /\ Apart(D[i], j, s)}
<1>8. 0 \in S
  BY <1>1, <1>7
<1>9. ASSUME NEW i \in 0 .. MaxSession - 1, i \in S PROVE i + 1 \in S
  <2> DEFINE k == i + 1
             v == D[k]
  <2>1. k \in Sid /\ k \in 0 .. MaxSession /\ k # 0 /\ k - 1 = i /\ i \in 0 .. MaxSession
    BY <1>1 DEF Sid
  <2>2. v = Zap(k, D[i], s, twins)
    BY <1>7, <2>1
  <2>3. v \in T /\ Apart(v, s, k) /\ Apart(v, k, s) /\ \A j \in Sid \ {k} : v.sess[j] = D[i].sess[j]
    BY <1>2, <1>9, <2>1, <2>2
  <2>4. ASSUME NEW j \in 1 .. k, j # k
        PROVE  Apart(v, s, j) /\ Apart(v, j, s)
    <3>1. j \in 1 .. i /\ j \in Sid \ {k}
      BY <1>1, <2>1, <2>4 DEF Sid
    <3>2. v.sess[j] = D[i].sess[j] /\ v.sess[s] = D[i].sess[s]
      BY <1>9, <2>3, <3>1 DEF T
    <3> QED
      BY <1>9, <3>1, <3>2 DEF Apart
  <2> QED
    BY <2>1, <2>3, <2>4
<1> HIDE DEF S
<1>10. MaxSession \in S
  <2>1. \A i \in 0 .. MaxSession : i \in S
    BY <1>1, <1>8, <1>9, Induct
  <2> QED
    BY <1>1, <2>1
<1>11. ZapOld(t, s, twins) = D[MaxSession]
  BY DEF ZapOld, ForSessions, Zap, D
<1> QED
  BY <1>10, <1>11 DEF S, T, Sid

LEMMA SendClear ==
  ASSUME NEW t \in Tables, NEW r \in Slot, NEW s \in Sid
  PROVE  RadiusClear(Send(t, s), r, s) = Send(RadiusClear(t, r, s), s)
<1>1. CASE failed
  BY <1>1 DEF Send
<1>2. CASE ~failed
  <2> DEFINE c == [t.copy EXCEPT ![s] = t.sess[s]]
             ra == [t.rad EXCEPT ![r] = NoSlot]
             lo == [t.local EXCEPT ![s] = 0]
             u == Send(t, s)
             v == RadiusClear(t, r, s)
  <2>1. u = [t EXCEPT !.copy = c] /\ v = [t EXCEPT !.rad = ra, !.local = lo]
    BY <1>2 DEF Send, RadiusClear
  <2>2. Send(v, s) = [v EXCEPT !.copy = [v.copy EXCEPT ![s] = v.sess[s]]]
    BY <1>2 DEF Send
  <2>3. RadiusClear(u, r, s) = [u EXCEPT !.rad = [u.rad EXCEPT ![r] = NoSlot], !.local = [u.local EXCEPT ![s] = 0]]
    BY DEF RadiusClear
  <2> HIDE DEF u, v
  <2>4. v.copy = t.copy /\ v.sess = t.sess /\ u.rad = t.rad /\ u.local = t.local
    BY <2>1 DEF Tables
  <2>5. /\ Send(v, s) = [v EXCEPT !.copy = c]
        /\ RadiusClear(u, r, s) = [u EXCEPT !.rad = ra, !.local = lo]
    BY <2>2, <2>3, <2>4
  <2> HIDE DEF c, ra, lo
  <2>6. [v EXCEPT !.copy = c] = [u EXCEPT !.rad = ra, !.local = lo]
    BY <2>1 DEF Tables
  <2> QED
    BY <2>5, <2>6 DEF u, v
<1> QED
  BY <1>1, <1>2

\* sessionsetup and the release of the slot whose answer it acts on.
LEMMA SetupOk ==
  ASSUME NEW s \in Sid, NEW t, Fits(t, {s}), t.sess[s].opened, NEW r \in Slot, t.local[s] = r,
         NEW a \in Choices(t, s), NEW twins
  PROVE  Fits(RadiusClear(SessionSetup(t, s, a, twins), r, s), {})
<1> DEFINE has == IF a = 0 THEN t ELSE Assign(t, s, a)
           z == ZapOld(has, s, twins)
           e == [z.sess[s] EXCEPT !.phase = "Network"]
           w == [z EXCEPT !.sess = [z.sess EXCEPT ![s] = e]]
<1>0. r # 0 /\ s \in {s} /\ {s} \in SUBSET Sid /\ {} \in SUBSET Sid /\ s \in Sid \ {} /\ {} \cup {s} = {s}
  BY DEF Slot
<1>1. /\ Fits(has, {s}) /\ has.sess[s].opened /\ has.local[s] = r
      /\ a # 0 => has.sess[s].ip # 0
  <2>1. CASE a = 0
    BY <2>1
  <2>2. CASE a # 0
    <3>1. t.sess[s].ip = 0 /\ a \in Pool /\ t.pool[a] = 0
      BY <2>2 DEF Choices
    <3> DEFINE v == Assign(t, s, a)
    <3>2. Fits(v, {s}) /\ v.local = t.local /\ v.sess[s].opened /\ v.sess[s].ip = a
      BY <1>0, <3>1, AssignOk
    <3> HIDE DEF v
    <3> QED
      BY <2>2, <3>2 DEF v
  <2> QED
    BY <2>1, <2>2
<1>2. SessionSetup(t, s, a, twins) = IF has.sess[s].ip = 0 THEN SessionShutdown(t, s) ELSE Send(w, s)
  BY DEF SessionSetup
<1>3. CASE has.sess[s].ip = 0
  <2> DEFINE u == SessionShutdown(t, s)
  <2>1. Fits(u, {}) /\ u.local = t.local
    <3>1. Fits(t, {} \cup {s})
      BY <1>0
    <3>2. {} \in SUBSET Sid /\ s \in Sid \ {} /\ t.sess[s].opened
      OBVIOUS
    <3> HIDE DEF u
    <3> QED
      BY <3>1, <3>2, ShutdownOk DEF u
  <2> HIDE DEF u
  <2>2. u.rad[r].session = s /\ u.local[s] = r
    BY <1>0, <2>1 DEF Fits, Served
  <2>3. Fits(RadiusClear(u, r, s), {})
    BY <1>0, <2>1, <2>2, RadiusClearOk
  <2> QED
    BY <1>2, <1>3, <2>3 DEF u
<1>4. CASE has.sess[s].ip # 0
  <2> HIDE DEF has
  <2>1. /\ Fits(z, {s}) /\ z.sess[s] = has.sess[s] /\ z.local[s] = r
        /\ \A j \in Sid : Apart(z, s, j) /\ Apart(z, j, s)
    BY <1>1, ZapOldOk
  <2> HIDE DEF z
  <2>2. /\ z \in Tables /\ z.sess \in [Sid -> SessType] /\ z.sess[s] \in SessType /\ z.sess[s].opened
        /\ EntryOk(z.sess[s]) /\ Holds(z, s)
    BY <1>1, <2>1 DEF Fits, Tables
  <2>3. /\ e \in SessType /\ e.opened /\ e.call = z.sess[s].call /\ e.next = z.sess[s].next
        /\ e.granted = z.sess[s].granted /\ e.phase = "Network"
        /\ e.ip = z.sess[s].ip /\ e.static = z.sess[s].static /\ e.die = z.sess[s].die
    BY <2>2 DEF SessType, Phase
  <2> HIDE DEF e
  <2>4. /\ w \in Tables /\ w.sess = [z.sess EXCEPT ![s] = e]
        /\ w.free = z.free /\ w.local = z.local /\ w.rad = z.rad
        /\ w.pool = z.pool /\ w.late = z.late /\ w.copy = z.copy
    BY <2>2, <2>3 DEF Tables
  <2> HIDE DEF w
  <2>5. w.sess[s] = e /\ \A i \in Sid \ {s} : w.sess[i] = z.sess[i]
    BY <2>2, <2>4
  <2>6. EntryOk(e)
    BY <2>2, <2>3 DEF EntryOk
  <2>7. e.ip # 0 /\ ~e.static => z.pool[e.ip] = s /\ (e.die => e.ip \in z.late)
    BY <2>2, <2>3 DEF Holds
  <2>8. \A b \in Pool \ z.late : z.pool[b] = s => e.ip = b /\ ~e.static
    <3>1. s # 0
      BY DEF Sid
    <3> QED
      BY <2>1, <2>3, <3>1 DEF Fits, Held
  <2>9. Fits(w, {s})
    <3>1. z.sess[s].opened /\ e \in SessType /\ e.opened /\ e.call = z.sess[s].call
      BY <2>2, <2>3
    <3>2. /\ w \in Tables /\ w.free = z.free /\ w.local = z.local /\ w.rad = z.rad
          /\ w.pool = z.pool /\ w.late = z.late /\ w.copy = z.copy
      BY <2>4
    <3>3. Fits(z, {s})
      BY <2>1
    <3> QED
      BY <1>0, <2>5, <2>6, <2>7, <2>8, <3>1, <3>2, <3>3, UpdateOk
  <2> DEFINE v == RadiusClear(w, r, s)
  <2>11. v.local[s] = 0
    BY <2>4 DEF RadiusClear, Tables
  <2>10. Fits(v, {s}) /\ v.sess = w.sess
    <3>1. w.rad[r].session = s /\ w.local[s] = r
      BY <1>0, <2>1, <2>4, <2>9 DEF Fits, Served
    <3>2. {s} \in SUBSET Sid /\ (w.rad[r].state # "NULL" => w.rad[r].session = s) /\ w.local[s] \in {0, r}
      BY <3>1
    <3> HIDE DEF v
    <3>3. Fits(v, {s}) /\ Emptied(w, v, r, s)
      BY <2>9, <3>2, RadiusClearOk DEF v
    <3> QED
      BY <3>3 DEF Emptied
  <2> HIDE DEF v
  <2>12. Waits(v, s)
    BY <2>3, <2>5, <2>10, <2>11 DEF Waits, Waiting
  <2>13. \A j \in Sid : Apart(v, s, j) /\ Apart(v, j, s)
    <3> TAKE j \in Sid
    <3>1. CASE j = s
      BY <3>1 DEF Apart
    <3>2. CASE j # s
      BY <2>1, <2>2, <2>3, <2>5, <2>10, <3>2 DEF Apart
    <3> QED
      BY <3>1, <3>2
  <2>14. Fits(Send(v, s), {})
    <3> DEFINE x == Send(v, s)
    <3>1. Fits(x, {}) /\ x = [v EXCEPT !.copy = x.copy]
      <4>1. Fits(v, {} \cup {s}) /\ \A j \in Sid \ {} : Apart(v, s, j) /\ Apart(v, j, s)
        BY <2>10, <2>13, <1>0
      <4> QED
        BY <1>0, <2>12, <4>1, SendOk
    <3> QED
      BY <3>1
  <2>15. RadiusClear(Send(w, s), r, s) = Send(v, s)
    BY <2>4, SendClear DEF v
  <2> QED
    BY <1>2, <1>4, <2>14, <2>15 DEF has
<1> QED
  BY <1>3, <1>4

-----------------------------------------------------------------------------
(* Actions. *)

\* Tables that fit together do so after a step that is not a failover.
LEMMA Primed ==
  ASSUME failed' = failed, Fits(m', {})
  PROVE  Fits(m, {})'
<1>1. m' \in Tables
  BY DEF Fits
<1>2. (m \in Tables)'
  BY <1>1 DEF Tables, SessType, SlotType, SlotState, Phase, Sid, Slot, Call, Ip
<1>3. (\A s \in Sid : EntryOk(m.sess[s]) /\ Holds(m, s) /\ Served(m, s))'
  BY DEF Fits, EntryOk, Holds, Served, Sid
<1>4. (\A a \in Pool : Held(m, a))'
  BY DEF Fits, Held
<1>5. (\A r \in Slot : Serves(m, r))'
  BY DEF Fits, Serves, Slot
<1>6. (\A s \in Sid \ {} : Copied(m, s) /\ Waits(m, s))'
  BY DEF Fits, Copied, Waits, Waiting, EntryOk, Sid
<1>7. (\A s, i \in Sid \ {} : Apart(m, s, i))'
  BY DEF Fits, Apart, Sid
<1>8. ListOk(m)'
  BY DEF Fits, ListOk, OnList, Listed, Sid
<1> QED
  BY <1>2, <1>3, <1>4, <1>5, <1>6, <1>7, <1>8 DEF Fits

\* A session that a slot is for.
LEMMA SlotServes ==
  ASSUME NEW X, NEW t, Fits(t, X), NEW r \in Slot, t.rad[r].state # "NULL"
  PROVE  LET s == t.rad[r].session
         IN  s \in Sid /\ t.sess[s].opened /\ t.local[s] = r /\ t.rad[r].auth = t.sess[s].call
<1>1. Serves(t, r) /\ t.rad[r] \in SlotType
  BY DEF Fits, Tables
<1>2. t.rad[r].session \in 0 .. MaxSession
  BY <1>1 DEF SlotType
<1> QED
  BY <1>1, <1>2 DEF Serves, Sid

LEMMA PhaseOk ==
  ASSUME NEW t, Fits(t, {}), NEW s \in Sid, t.sess[s].opened,
         NEW p \in Phase, p = "Authenticate" => t.sess[s].ip = 0
  PROVE  LET u == Send([t EXCEPT !.sess[s].phase = p], s)
         IN  Fits(u, {}) /\ u.sess[s].opened /\ u.sess[s].ip = t.sess[s].ip
<1> DEFINE e == [t.sess[s] EXCEPT !.phase = p]
           u == Send(With(t, s, e), s)
<1>1. t \in Tables /\ t.sess \in [Sid -> SessType] /\ t.sess[s] \in SessType /\ EntryOk(t.sess[s])
  BY DEF Fits, Tables
<1>2. /\ e \in SessType /\ e.opened /\ e.call = t.sess[s].call /\ e.next = t.sess[s].next
      /\ e.granted = t.sess[s].granted /\ e.phase = p
      /\ e.ip = t.sess[s].ip /\ e.static = t.sess[s].static /\ e.die = t.sess[s].die
  BY <1>1 DEF SessType
<1> HIDE DEF e
<1>3. EntryOk(e) /\ Waiting(e)
  BY <1>1, <1>2 DEF EntryOk, Waiting
<1>4. Fits(u, {}) /\ u.sess[s] = e
  <2>1. {} \in SUBSET Sid /\ s \in Sid \ {}
    OBVIOUS
  <2> HIDE DEF u
  <2> QED
    BY <1>2, <1>3, <2>1, ChangeOk DEF u
<1> HIDE DEF u
<1>5. Send([t EXCEPT !.sess[s].phase = p], s) = u
  BY DEF u, e, With
<1> QED
  BY <1>2, <1>4, <1>5

LEMMA IcrqOk ==
  ASSUME IInv, Icrq
  PROVE  Fits(m', {})
<1>1. Fits(m, {}) /\ calls \in 0 .. MaxCalls /\ calls < MaxCalls
  BY DEF IInv, Asked, Icrq
<1>2. calls + 1 \in Call
  BY <1>1, SizesArePositive DEF Call
<1>3. PICK dup \in {s \in Sid : m.sess[s].opened} \cup {0} :
        m.free # 0 /\ m' = IF dup # 0 THEN Opened(SessionKill(m, dup), dup) ELSE Opened(m, m.free)
  BY DEF Icrq
<1>4. CASE dup = 0
  <2>1. m.free \in Sid
    BY <1>1, <1>3 DEF Fits, Tables, Sid
  <2> QED
    BY <1>1, <1>2, <1>3, <1>4, <2>1, OpenedOk
<1>5. CASE dup # 0
  <2> DEFINE t == SessionKill(m, dup)
  <2>1. dup \in Sid /\ m.sess[dup].opened
    BY <1>5
  <2>2. Fits(t, {}) /\ t.free = dup
    <3>1. dup \in Sid \ {} /\ {} \in SUBSET Sid
      BY <2>1
    <3> HIDE DEF t
    <3> QED
      BY <1>1, <2>1, <3>1, AnyKill DEF t
  <2> HIDE DEF t
  <2> QED
    BY <1>2, <1>3, <1>5, <2>1, <2>2, OpenedOk DEF t
<1> QED
  BY <1>4, <1>5

LEMMA LcpUpOk ==
  ASSUME IInv, NEW s \in Sid, LcpUp(s)
  PROVE  Fits(m', {})
<1>1. Fits(m, {}) /\ m.sess[s].opened /\ {"Network", "Authenticate"} \subseteq Phase
  BY DEF IInv, LcpUp, Phase
<1> DEFINE t == Send([m EXCEPT !.sess[s].phase = "Authenticate"], s)
<1>2. CASE m' = Send([m EXCEPT !.sess[s].phase = "Network"], s)
  BY <1>1, <1>2, PhaseOk
<1>3. CASE m.sess[s].ip = 0 /\ (m' = t \/ (SlotFor(t, s) # 0 /\ m' = RadiusSend(t, s, "CHAP")))
  <2>2. Fits(t, {}) /\ t.sess[s].opened
    BY <1>1, <1>3, PhaseOk
  <2> HIDE DEF t
  <2>3. "CHAP" \in SlotState \ {"NULL"} /\ "CHAP" # "AUTH" /\ {} \in SUBSET Sid
    BY DEF SlotState
  <2>4. SlotFor(t, s) # 0 => Fits(RadiusSend(t, s, "CHAP"), {})
    BY <2>2, <2>3, RadiusSendOk
  <2> QED
    BY <1>3, <2>2, <2>4
<1> QED
  BY <1>2, <1>3 DEF LcpUp

LEMMA LoginOk ==
  ASSUME IInv, NEW s \in Sid, Login(s)
  PROVE  Fits(m', {})
<1>1. /\ Fits(m, {}) /\ m.sess[s].opened /\ m.sess[s].phase = "Authenticate" /\ s \in Sid \ {}
      /\ {} \in SUBSET Sid
  BY DEF IInv, Login
<1>2. m.sess[s].ip = 0
  BY <1>1 DEF Fits, Waits, Waiting
<1>3. CASE SlotFor(m, s) = 0
  <2>1. m' = SessionShutdown(m, s)
    BY <1>3 DEF Login
  <2> QED
    BY <1>1, <2>1, AnyShutdown
<1>4. CASE SlotFor(m, s) # 0
  <2>1. m' = RadiusNew(m, s) \/ m' = RadiusSend(m, s, "AUTH")
    BY <1>4 DEF Login
  <2>2. Fits(RadiusNew(m, s), {})
    BY <1>1, <1>4, RadiusNewOk
  <2>3. Fits(RadiusSend(m, s, "AUTH"), {})
    <3>1. "AUTH" \in SlotState \ {"NULL"}
      BY DEF SlotState
    <3> QED
      BY <1>1, <1>2, <1>4, <3>1, RadiusSendOk
  <2> QED
    BY <2>1, <2>2, <2>3
<1> QED
  BY <1>3, <1>4

\* The entry of a session whose access request was accepted.
Granted(e, ip, c) ==
  [e EXCEPT !.ip = IF ip # 0 THEN ip ELSE e.ip, !.static = (ip # 0) \/ e.static, !.granted = c]

IsGranted(g, e, ip, c) ==
  /\ g.opened = e.opened /\ g.next = e.next /\ g.call = e.call /\ g.granted = c
  /\ (ip # 0 => g.static /\ g.ip = ip) /\ (ip = 0 => g.ip = e.ip)

LEMMA GrantedIs ==
  ASSUME NEW e \in SessType, NEW ip \in Framed \cup {0}, NEW c \in Call
  PROVE  Granted(e, ip, c) \in SessType /\ IsGranted(Granted(e, ip, c), e, ip, c)
<1> DEFINE a == IF ip # 0 THEN ip ELSE e.ip
           b == (ip # 0) \/ e.static
<1>1. c \in 0 .. MaxCalls
  BY DEF Call
<1>2. a \in {0} \cup Pool \cup Framed /\ (ip # 0 => a = ip) /\ (ip = 0 => a = e.ip)
  BY DEF SessType
<1>3. b \in BOOLEAN /\ (ip # 0 => b)
  OBVIOUS
<1>4. Granted(e, ip, c) = [e EXCEPT !.ip = a, !.static = b, !.granted = c]
  BY DEF Granted
<1> HIDE DEF a, b
<1> DEFINE g == [e EXCEPT !.ip = a, !.static = b, !.granted = c]
<1>5. /\ g \in SessType /\ g.opened = e.opened /\ g.next = e.next /\ g.call = e.call /\ g.granted = c
      /\ g.die = e.die /\ g.static = b /\ g.ip = a
  BY <1>1, <1>2, <1>3 DEF SessType
<1> HIDE DEF g
<1> QED
  BY <1>2, <1>3, <1>4, <1>5 DEF g, IsGranted

LEMMA AcceptOk ==
  ASSUME IInv, NEW q \in asked, Accept(q)
  PROVE  Fits(m', {})
<1> DEFINE s == m.rad[q.slot].session
           r == q.slot
           c == q.call
<1>1. Fits(m, {}) /\ m \in Tables /\ r \in Slot /\ c \in Call /\ m.rad[r].state = "AUTH" /\ m.rad[r].auth = c
  BY DEF IInv, Asked, Accept, Answered, Fits
<1>2. s \in Sid /\ m.sess[s].opened /\ m.local[s] = r /\ c = m.sess[s].call
  BY <1>1, SlotServes
<1>3. r # 0 /\ s # 0 /\ c # 0
  BY <1>1, <1>2 DEF Slot, Sid, Call
<1>4. m.sess[s].ip = 0
  BY <1>1, <1>2, <1>3 DEF Fits, Waits
<1>5. PICK ip \in Framed \cup {0}, twins \in SUBSET Sid :
        \E a \in Choices(With(m, s, Granted(m.sess[s], ip, c)), s) :
          m' = RadiusClear(SessionSetup(With(m, s, Granted(m.sess[s], ip, c)), s, a, twins), r, s)
  BY DEF Accept, With, Granted
<1> HIDE DEF s, r, c
<1> DEFINE e == Granted(m.sess[s], ip, c)
           t == With(m, s, e)
<1>6. \E a \in Choices(t, s) : m' = RadiusClear(SessionSetup(t, s, a, twins), r, s)
  BY <1>5
<1>7. /\ m.sess \in [Sid -> SessType] /\ m.sess[s] \in SessType /\ EntryOk(m.sess[s])
  BY <1>1, <1>2 DEF Fits, Tables
<1>8. /\ e \in SessType /\ e.opened /\ e.next = m.sess[s].next /\ e.call = m.sess[s].call /\ e.granted = c
      /\ e.ip = ip /\ (ip # 0 => e.static)
  <2> HIDE DEF e
  <2> QED
    <3> DEFINE d == m.sess[s]
    <3>1. d \in SessType /\ d.opened /\ d.ip = 0 /\ c \in Call /\ e = Granted(d, ip, c)
      BY <1>1, <1>2, <1>4, <1>7 DEF e
    <3> HIDE DEF d
    <3>2. e \in SessType /\ IsGranted(e, d, ip, c)
      BY <3>1, GrantedIs
    <3> QED
      BY <3>1, <3>2 DEF d, IsGranted
<1> HIDE DEF e
<1>9. EntryOk(e)
  BY <1>2, <1>7, <1>8 DEF EntryOk
<1>10. /\ t \in Tables /\ t.sess = [m.sess EXCEPT ![s] = e] /\ t.free = m.free /\ t.local = m.local /\ t.rad = m.rad
       /\ t.pool = m.pool /\ t.late = m.late /\ t.copy = m.copy
  BY <1>1, <1>2, <1>7, <1>8 DEF With, Tables
<1> HIDE DEF t
<1>11. t.sess[s] = e /\ \A i \in Sid \ {s} : t.sess[i] = m.sess[i]
  BY <1>2, <1>7, <1>10
<1>12. \A b \in Pool \ m.late : m.pool[b] # s
  <2>1. 0 \notin Pool
    BY AddressesAreNats
  <2> QED
    BY <1>1, <1>3, <1>4, <2>1 DEF Fits, Held
<1> DEFINE X == {s}
<1>13. X \in SUBSET Sid /\ s \in X /\ Fits(m, X)
  BY <1>1, <1>2, Fewer
<1>14. Fits(t, X)
  <2> HIDE DEF X
  <2>1. /\ t \in Tables /\ t.free = m.free /\ t.local = m.local /\ t.rad = m.rad
        /\ t.pool = m.pool /\ t.late = m.late /\ t.copy = m.copy
    BY <1>10
  <2>2. e.ip # 0 /\ ~e.static => m.pool[e.ip] = s /\ (e.die => e.ip \in m.late)
    BY <1>8
  <2>3. \A b \in Pool \ m.late : m.pool[b] = s => e.ip = b /\ ~e.static
    BY <1>12
  <2>4. m.sess[s].opened /\ e \in SessType /\ e.opened /\ e.call = m.sess[s].call
    BY <1>2, <1>8
  <2> QED
    BY <1>9, <1>11, <1>13, <2>1, <2>2, <2>3, <2>4, UpdateOk
<1>15. t.sess[s].opened /\ t.local[s] = r
  BY <1>2, <1>8, <1>10, <1>11
<1>16. Fits(t, {s})
  BY <1>14
<1> QED
  BY <1>1, <1>2, <1>6, <1>15, <1>16, SetupOk

LEMMA RejectOk ==
  ASSUME IInv, NEW q \in asked, Reject(q)
  PROVE  Fits(m', {})
<1> DEFINE s == m.rad[q.slot].session
           r == q.slot
           u == SessionKill(m, s)
<1>1. /\ Fits(m, {}) /\ r \in Slot /\ m.rad[r].state = "AUTH" /\ m' = RadiusClear(u, r, s)
  BY DEF IInv, Asked, Reject, Answered
<1>2. s \in Sid /\ m.sess[s].opened /\ m.local[s] = r /\ r # 0
  BY <1>1, SlotServes DEF Slot
<1> HIDE DEF s, r, u
<1>3. {} \in SUBSET Sid /\ s \in Sid \ {} /\ Fits(m, {} \cup {s})
  BY <1>1, <1>2, Fewer
<1>4. Fits(u, {}) /\ u.local[s] = 0 /\ u.rad[r].state = "NULL"
  <2>1. /\ Fits(u, {}) /\ u.local[s] = 0
        /\ m.local[s] # 0 => u.rad[m.local[s]].state = "NULL"
    BY <1>2, <1>3, KillOk DEF u
  <2> QED
    BY <1>2, <2>1
<1> QED
  BY <1>1, <1>2, <1>3, <1>4, RadiusClearOk

LEMMA AcknowledgedOk ==
  ASSUME NEW t, Fits(t, {}), NEW r \in Slot, t.rad[r].state # "NULL"
  PROVE  Fits(RadiusClear(t, r, t.rad[r].session), {})
<1> DEFINE s == t.rad[r].session
<1>1. s \in Sid /\ t.local[s] = r /\ {} \in SUBSET Sid
  BY SlotServes
<1> QED
  BY <1>1, RadiusClearOk

LEMMA GiveUpOk ==
  ASSUME IInv, NEW r \in Slot, GiveUp(r)
  PROVE  Fits(m', {})
<1> DEFINE s == m.rad[r].session
<1>1. Fits(m, {}) /\ m.rad[r].state # "NULL"
  BY DEF IInv, GiveUp
<1>2. s \in Sid \ {} /\ {} \in SUBSET Sid
  BY <1>1, SlotServes
<1>3. Fits(SessionShutdown(m, s), {})
  BY <1>1, <1>2, AnyShutdown
<1>4. Fits(RadiusClear(m, r, s), {})
  BY <1>1, AcknowledgedOk
<1> QED
  BY <1>3, <1>4 DEF GiveUp

LEMMA IpcpOpenOk ==
  ASSUME IInv, NEW s \in Sid, IpcpOpen(s)
  PROVE  Fits(m', {})
<1> DEFINE t == RadiusSend(m, s, "START")
           e == [t.sess[s] EXCEPT !.started = TRUE]
<1>1. /\ Fits(m, {}) /\ m.sess[s].opened /\ m.sess[s].phase = "Network" /\ SlotFor(m, s) # 0
      /\ {} \in SUBSET Sid /\ s \in Sid \ {}
  BY DEF IInv, IpcpOpen
<1>2. m' = Send(With(t, s, e), s)
  BY DEF IpcpOpen, With
<1>3. Fits(t, {}) /\ t.sess = m.sess
  <2>1. "START" \in SlotState \ {"NULL"} /\ "START" # "AUTH"
    BY DEF SlotState
  <2> HIDE DEF t
  <2> QED
    BY <1>1, <2>1, RadiusSendOk DEF t
<1> HIDE DEF t
<1>4. t.sess[s] \in SessType /\ EntryOk(t.sess[s]) /\ t.sess[s].opened /\ t.sess[s].phase = "Network"
  BY <1>1, <1>3 DEF Fits, Tables
<1>5. /\ e \in SessType /\ e.opened /\ e.call = t.sess[s].call /\ e.next = t.sess[s].next
      /\ e.granted = t.sess[s].granted /\ e.phase = "Network"
      /\ e.ip = t.sess[s].ip /\ e.static = t.sess[s].static /\ e.die = t.sess[s].die
  BY <1>4 DEF SessType
<1> HIDE DEF e
<1>6. EntryOk(e) /\ Waiting(e)
  BY <1>4, <1>5 DEF EntryOk, Waiting
<1> QED
  BY <1>1, <1>2, <1>3, <1>4, <1>5, <1>6, ChangeOk

LEMMA InterimOk ==
  ASSUME IInv, NEW s \in Sid, Interim(s)
  PROVE  Fits(m', {})
<1>1. /\ Fits(m, {}) /\ m.sess[s].opened /\ SlotFor(m, s) # 0 /\ {} \in SUBSET Sid
      /\ m' = RadiusSend(m, s, "INTERIM")
  BY DEF IInv, Interim
<1>2. "INTERIM" \in SlotState \ {"NULL"} /\ "INTERIM" # "AUTH"
  BY DEF SlotState
<1> QED
  BY <1>1, <1>2, RadiusSendOk

LEMMA EndsOk ==
  ASSUME IInv, NEW s \in Sid, LcpRestart(s) \/ Close(s) \/ Expire(s)
  PROVE  Fits(m', {})
<1>1. Fits(m, {}) /\ {} \in SUBSET Sid /\ s \in Sid \ {}
  BY DEF IInv
<1>2. CASE LcpRestart(s)
  <2>1. /\ m.sess[s].opened /\ "Establish" \in Phase /\ "Establish" # "Authenticate"
        /\ m' = Send([m EXCEPT !.sess[s].phase = "Establish"], s)
    BY <1>2 DEF LcpRestart, Phase
  <2> QED
    BY <1>1, <2>1, PhaseOk
<1>3. CASE Close(s)
  BY <1>1, <1>3, AnyShutdown DEF Close
<1>4. CASE Expire(s)
  BY <1>1, <1>4, AnyKill DEF Expire
<1> QED
  BY <1>2, <1>3, <1>4

-----------------------------------------------------------------------------
(* The slave takes over. *)

\* No address is found in the pool, for minus what the map holds of one is
\* never positive.
LEMMA NotFound ==
  ASSUME NEW t \in Tables, NEW s \in Sid
  PROVE  IpId(t, s) \in Int /\ IpId(t, s) <= 0
<1> DEFINE n == IF t.sess[s].ip \in Pool THEN -t.sess[s].ip ELSE s
<1>1. n \in Int
  BY AddressesAreNats DEF Sid
<1> HIDE DEF n
<1> DEFINE k == n % 65536
           i == -k
<1>2. k \in 0 .. 65535
  BY <1>1
<1>3. IpId(t, s) = i
  BY DEF IpId, Stored, n
<1> HIDE DEF k
<1>4. i \in Int /\ i <= 0
  BY <1>2
<1> HIDE DEF i
<1> QED
  BY <1>3, <1>4

\* So rebuild_address_pool leaves the pool with no address assigned, every
\* session that has one counts it as static, and nothing else is changed.
LEMMA RebuildIs ==
  ASSUME NEW t \in Tables
  PROVE  LET u == RebuildAddressPool(t)
         IN  /\ u \in Tables /\ u.late = {} /\ \A a \in Pool : u.pool[a] = 0
             /\ u.free = t.free /\ u.local = t.local /\ u.rad = t.rad /\ u.copy = t.copy
             /\ \A s \in Sid : /\ u.sess[s].opened = t.sess[s].opened /\ u.sess[s].next = t.sess[s].next
                               /\ u.sess[s].call = t.sess[s].call /\ u.sess[s].granted = t.sess[s].granted
                               /\ u.sess[s].phase = t.sess[s].phase /\ u.sess[s].ip = t.sess[s].ip
                               /\ t.sess[s].opened /\ t.sess[s].ip # 0 => u.sess[s].static
<1> DEFINE pooled(s) == t.sess[s].opened /\ t.sess[s].ip # 0 /\ (t.sess[s].static => IpId(t, s) >= 1)
           has(a) == {s \in Sid : pooled(s) /\ IpId(t, s) = a}
           owner == [a \in Pool |-> IF has(a) = {} THEN 0 ELSE CHOOSE s \in has(a) : \A i \in has(a) : i <= s]
           ss == [s \in Sid |-> IF pooled(s) THEN [t.sess[s] EXCEPT !.static = IpId(t, s) # t.sess[s].ip] ELSE t.sess[s]]
           late == {a \in Pool : owner[a] # 0 /\ t.sess[owner[a]].die}
           u == RebuildAddressPool(t)
<1>1. t.sess \in [Sid -> SessType] /\ \A s \in Sid : t.sess[s] \in SessType
  BY DEF Tables
<1>2. u = [t EXCEPT !.sess = ss, !.pool = owner, !.late = late]
  BY DEF RebuildAddressPool
<1>3. \A a \in Pool : has(a) = {}
  BY NotFound, AddressesAreNats
<1>4. owner = [a \in Pool |-> 0]
  BY <1>3
<1>5. late = {}
  BY <1>4
<1>6. ASSUME NEW s \in Sid
      PROVE  /\ ss[s] \in SessType
             /\ ss[s].opened = t.sess[s].opened /\ ss[s].next = t.sess[s].next
             /\ ss[s].call = t.sess[s].call /\ ss[s].granted = t.sess[s].granted
             /\ ss[s].phase = t.sess[s].phase /\ ss[s].ip = t.sess[s].ip
             /\ t.sess[s].opened /\ t.sess[s].ip # 0 => ss[s].static
  <2> DEFINE e == t.sess[s]
  <2>1. e \in SessType /\ IpId(t, s) \in Int /\ IpId(t, s) <= 0
    BY <1>1, NotFound
  <2>2. CASE pooled(s)
    <3>1. e.ip \in Nat \ {0}
      BY <2>1, <2>2, AddressesAreNats DEF SessType
    <3>2. (IpId(t, s) # e.ip) = TRUE
      BY <2>1, <3>1
    <3>3. ss[s] = [e EXCEPT !.static = TRUE]
      BY <2>2, <3>2
    <3> HIDE DEF ss, e
    <3>4. [e EXCEPT !.static = TRUE] \in SessType
      BY <2>1 DEF SessType
    <3> QED
      BY <2>1, <3>3, <3>4 DEF SessType, e
  <2>3. CASE ~pooled(s)
    <3>1. ss[s] = e
      BY <2>3
    <3>2. e.opened /\ e.ip # 0 => e.static
      BY <2>3
    <3> HIDE DEF ss
    <3> QED
      BY <2>1, <3>1, <3>2
  <2> QED
    BY <2>2, <2>3
<1>7. ss \in [Sid -> SessType]
  BY <1>6
<1> HIDE DEF ss, owner, late, u
<1>8. owner \in [Pool -> 0 .. MaxSession] /\ \A a \in Pool : owner[a] = 0
  BY <1>4, SizesArePositive
<1>9. /\ u \in Tables /\ u.sess = ss /\ u.pool = owner /\ u.late = late
      /\ u.free = t.free /\ u.local = t.local /\ u.rad = t.rad /\ u.copy = t.copy
  BY <1>2, <1>5, <1>7, <1>8 DEF Tables
<1> QED
  BY <1>5, <1>6, <1>8, <1>9 DEF u

LEMMA AddIpPoolOk ==
  ASSUME IInv, AddIpPool
  PROVE  Fits(m', {})
<1> DEFINE u == RebuildAddressPool(m)
<1>1. Fits(m, {}) /\ m \in Tables /\ m' = u
  BY DEF IInv, Fits, AddIpPool
<1>2. /\ u \in Tables /\ u.late = {} /\ \A a \in Pool : u.pool[a] = 0
      /\ u.free = m.free /\ u.local = m.local /\ u.rad = m.rad /\ u.copy = m.copy
      /\ \A s \in Sid : /\ u.sess[s].opened = m.sess[s].opened /\ u.sess[s].next = m.sess[s].next
                        /\ u.sess[s].call = m.sess[s].call /\ u.sess[s].granted = m.sess[s].granted
                        /\ u.sess[s].phase = m.sess[s].phase /\ u.sess[s].ip = m.sess[s].ip
                        /\ m.sess[s].opened /\ m.sess[s].ip # 0 => u.sess[s].static
  BY <1>1, RebuildIs
<1> HIDE DEF u
<1>3. \A s \in Sid : EntryOk(u.sess[s]) /\ Holds(u, s) /\ Served(u, s)
  BY <1>1, <1>2 DEF Fits, EntryOk, Holds, Served
<1>4. \A a \in Pool : Held(u, a)
  BY <1>2 DEF Held
<1>5. ASSUME NEW r \in Slot
      PROVE  Serves(u, r)
  <2>1. Serves(m, r) /\ m.rad[r] \in SlotType
    BY <1>1 DEF Fits, Tables
  <2>2. m.rad[r].session # 0 => m.rad[r].session \in Sid
    BY <2>1 DEF SlotType, Sid
  <2> QED
    BY <1>2, <2>1, <2>2 DEF Serves
<1>6. \A s \in Sid : Copied(u, s) /\ Waits(u, s)
  BY <1>1, <1>2 DEF Fits, Copied, Waits, Waiting
<1>7. \A s, i \in Sid : Apart(u, s, i)
  BY <1>1, <1>2 DEF Fits, Apart
<1>8. ListOk(u)
  BY <1>1, <1>2, ListSame DEF Fits
<1> QED
  BY <1>1, <1>2, <1>3, <1>4, <1>5, <1>6, <1>7, <1>8 DEF Fits

\* What the slave has of an open session; the free entries are strung in
\* ascending order.
Known(e, s) == EntryOk(e) /\ Waiting(e) /\ (e.opened => m.sess[s].opened /\ m.sess[s].ip = e.ip)

TakenOver(tab) ==
  /\ tab \in [Sid -> SessType]
  /\ \A s \in Sid : Known(tab[s], s)
  /\ \A s \in Sid : ~tab[s].opened =>
       \/ tab[s].next = 0 /\ \A i \in Sid : i > s => tab[i].opened
       \/ /\ tab[s].next \in Sid /\ tab[s].next > s /\ ~tab[tab[s].next].opened
          /\ \A i \in Sid : i > s /\ ~tab[i].opened => tab[s].next =< i

LEMMA RestrungIs ==
  ASSUME Fits(m, {}), ~failed, NEW walked \in SUBSET Sid
  PROVE  TakenOver(Restrung([s \in Sid |-> IF s \in walked THEN m.sess[s] ELSE m.copy[s]]))
<1> DEFINE raw == [s \in Sid |-> IF s \in walked THEN m.sess[s] ELSE m.copy[s]]
           tab == Restrung(raw)
           Later(s) == {i \in Sid : i > s /\ ~raw[i].opened}
           n(s) == IF Later(s) = {} THEN 0 ELSE Least(Later(s))
<1>1. m.sess \in [Sid -> SessType] /\ m.copy \in [Sid -> SessType]
  BY DEF Fits, Tables
<1>2. raw \in [Sid -> SessType] /\ \A s \in Sid : Known(raw[s], s)
  <2>1. raw \in [Sid -> SessType]
    BY <1>1
  <2>2. \A s \in Sid : Known(raw[s], s)
    BY DEF Fits, Copied, Waits, Known
  <2> QED
    BY <2>1, <2>2
<1> HIDE DEF raw
<1>3. \A s \in Sid : Later(s) # {} => Least(Later(s)) \in Later(s) /\ \A i \in Later(s) : Least(Later(s)) =< i
  <2> TAKE s \in Sid
  <2>1. Later(s) \in SUBSET Nat
    BY DEF Sid
  <2> HIDE DEF Later
  <2> QED
    BY <2>1, Smallest
<1>4. tab = [s \in Sid |-> IF raw[s].opened THEN raw[s] ELSE [Closed EXCEPT !.next = n(s)]]
  BY DEF Restrung
<1>5. \A s \in Sid : n(s) \in 0 .. MaxSession
  BY <1>3, SizesArePositive DEF Sid
<1>6. \A k \in 0 .. MaxSession : LET c == [Closed EXCEPT !.next = k]
                                 IN  c \in SessType /\ ~c.opened /\ c.next = k
  <2>1. 0 \in 0 .. MaxCalls
    BY SizesArePositive
  <2> QED
    BY <2>1 DEF Closed, SessType, Phase
<1> HIDE DEF tab, n
<1>7. ASSUME NEW s \in Sid
      PROVE  /\ tab[s] \in SessType
             /\ tab[s].opened = raw[s].opened
             /\ raw[s].opened => tab[s] = raw[s]
             /\ ~raw[s].opened => tab[s].next = n(s)
  <2>1. CASE raw[s].opened
    BY <1>2, <1>4, <2>1
  <2>2. CASE ~raw[s].opened
    <3> DEFINE c == [Closed EXCEPT !.next = n(s)]
    <3>1. tab[s] = c
      BY <1>4, <2>2
    <3>2. c \in SessType /\ ~c.opened /\ c.next = n(s)
      BY <1>5, <1>6
    <3>3. c.opened = raw[s].opened
      BY <1>2, <2>2, <3>2 DEF SessType
    <3> HIDE DEF c
    <3> QED
      BY <2>2, <3>1, <3>2, <3>3
  <2> QED
    BY <2>1, <2>2
<1>8. tab \in [Sid -> SessType]
  <2>1. tab = [s \in Sid |-> tab[s]]
    BY <1>4
  <2> QED
    BY <1>7, <2>1
<1>9. ASSUME NEW s \in Sid, ~tab[s].opened
      PROVE  \/ tab[s].next = 0 /\ \A i \in Sid : i > s => tab[i].opened
             \/ /\ tab[s].next \in Sid /\ tab[s].next > s /\ ~tab[tab[s].next].opened
                /\ \A i \in Sid : i > s /\ ~tab[i].opened => tab[s].next =< i
  <2>1. tab[s].next = n(s)
    BY <1>7, <1>9
  <2>2. CASE Later(s) = {}
    <3>1. \A i \in Sid : i > s => raw[i].opened
      BY <2>2
    <3> QED
      BY <1>7, <2>1, <2>2, <3>1 DEF n
  <2>3. CASE Later(s) # {}
    <3>1. n(s) \in Later(s) /\ \A i \in Later(s) : n(s) =< i
      BY <1>3, <2>3 DEF n
    <3>2. n(s) \in Sid /\ n(s) > s /\ ~raw[n(s)].opened
      BY <3>1
    <3>3. \A i \in Sid : i > s /\ ~tab[i].opened => n(s) =< i
      BY <1>7, <3>1
    <3>4. ~tab[n(s)].opened
      BY <1>7, <3>2
    <3> QED
      BY <2>1, <3>2, <3>3, <3>4
  <2> QED
    BY <2>2, <2>3
<1>10. \A s \in Sid : Known(tab[s], s)
  BY <1>2, <1>7 DEF Known, EntryOk, Waiting
<1> QED
  BY <1>8, <1>9, <1>10 DEF TakenOver, tab, raw

\* The tables after a failover, when there is no slave to send copies to and
\* ids may be lost.
LEMMA PrimedFailed ==
  ASSUME failed', m' \in Tables,
         \A s \in Sid : EntryOk(m'.sess[s]) /\ Holds(m', s) /\ Served(m', s) /\ Waits(m', s),
         \A a \in Pool : Held(m', a), \A r \in Slot : Serves(m', r),
         \A s, i \in Sid : Apart(m', s, i),
         NEW F \in SUBSET Sid, OnList(m', F)
  PROVE  Fits(m, {})'
<1>2. (m \in Tables)'
  BY DEF Tables, SessType, SlotType, SlotState, Phase, Sid, Slot, Call, Ip
<1>3. (\A s \in Sid : EntryOk(m.sess[s]) /\ Holds(m, s) /\ Served(m, s))'
  BY DEF EntryOk, Holds, Served, Sid
<1>4. (\A a \in Pool : Held(m, a))'
  BY DEF Held
<1>5. (\A r \in Slot : Serves(m, r))'
  BY DEF Serves, Slot
<1>6. (\A s \in Sid \ {} : Copied(m, s) /\ Waits(m, s))'
  BY DEF Copied, Waits, Waiting, Sid
<1>7. (\A s, i \in Sid \ {} : Apart(m, s, i))'
  BY DEF Apart, Sid
<1>8. ListOk(m)'
  BY DEF ListOk, OnList, Sid
<1> QED
  BY <1>2, <1>3, <1>4, <1>5, <1>6, <1>7, <1>8 DEF Fits

LEMMA FailOverOk ==
  ASSUME IInv, FailOver
  PROVE  Fits(m, {})'
<1> PICK walked \in SUBSET Sid :
      LET tab == Restrung([s \in Sid |-> IF s \in walked THEN m.sess[s] ELSE m.copy[s]])
      IN  m' = RebuildAddressPool([m EXCEPT !.sess = tab, !.local = [s \in Sid |-> 0],
                                            !.rad = [r \in Slot |-> NoSlot], !.noauth = Sid,
                                            !.copy = FreshSess, !.sent = {}])
  BY DEF FailOver
<1> DEFINE tab == Restrung([s \in Sid |-> IF s \in walked THEN m.sess[s] ELSE m.copy[s]])
           v == [m EXCEPT !.sess = tab, !.local = [s \in Sid |-> 0], !.rad = [r \in Slot |-> NoSlot],
                          !.noauth = Sid, !.copy = FreshSess, !.sent = {}]
           u == m'
<1>1. Fits(m, {}) /\ ~failed /\ failed' /\ m \in Tables
  BY DEF IInv, FailOver, Fits
<1>2. u = RebuildAddressPool(v)
  OBVIOUS
<1>3. TakenOver(tab)
  BY <1>1, RestrungIs
<1> HIDE DEF tab
<1>4. tab \in [Sid -> SessType]
  BY <1>3 DEF TakenOver
<1>9. FreshSess \in [Sid -> SessType]
  <2>1. \A k \in 0 .. MaxSession : [Closed EXCEPT !.next = k] \in SessType
    <3>1. 0 \in 0 .. MaxCalls
      BY SizesArePositive
    <3> QED
      BY <3>1 DEF Closed, SessType, Phase
  <2>2. \A s \in Sid : (IF s = MaxSession THEN 0 ELSE s + 1) \in 0 .. MaxSession
    BY SizesArePositive DEF Sid
  <2> QED
    BY <2>1, <2>2 DEF FreshSess
<1>10. NoSlot \in SlotType /\ NoSlot.state = "NULL" /\ 0 \in 0 .. MaxRadius
  BY SizesArePositive DEF NoSlot, SlotType, SlotState
<1>5. /\ v \in Tables /\ v.sess = tab /\ v.free = m.free
      /\ v.local = [s \in Sid |-> 0] /\ v.rad = [r \in Slot |-> NoSlot]
  BY <1>1, <1>4, <1>9, <1>10 DEF Tables
<1> HIDE DEF v, u
<1>6. /\ u \in Tables /\ u.late = {} /\ \A a \in Pool : u.pool[a] = 0
      /\ u.free = v.free /\ u.local = v.local /\ u.rad = v.rad
      /\ \A s \in Sid : /\ u.sess[s].opened = v.sess[s].opened /\ u.sess[s].next = v.sess[s].next
                        /\ u.sess[s].call = v.sess[s].call /\ u.sess[s].granted = v.sess[s].granted
                        /\ u.sess[s].phase = v.sess[s].phase /\ u.sess[s].ip = v.sess[s].ip
                        /\ v.sess[s].opened /\ v.sess[s].ip # 0 => u.sess[s].static
  BY <1>2, <1>5, RebuildIs
<1>13. /\ \A s \in Sid : u.local[s] = 0
       /\ \A r \in Slot : u.rad[r].state = "NULL"
  BY <1>5, <1>6, <1>10
<1>8. \A s \in Sid : Known(tab[s], s)
  BY <1>3 DEF TakenOver
<1>14. ASSUME NEW s \in Sid
       PROVE  EntryOk(u.sess[s]) /\ Served(u, s) /\ Waits(u, s)
  <2>1. Served(u, s)
    BY <1>13 DEF Served
  <2>2. EntryOk(u.sess[s])
    BY <1>5, <1>6, <1>8 DEF EntryOk, Known
  <2>3. Waits(u, s)
    BY <1>5, <1>6, <1>8, <1>13 DEF Waits, Waiting, Known
  <2> QED
    BY <2>1, <2>2, <2>3
<1>15. \A s \in Sid : Holds(u, s)
  BY <1>5, <1>6 DEF Holds
<1>16. \A a \in Pool : Held(u, a)
  BY <1>6 DEF Held
<1>17. \A r \in Slot : Serves(u, r)
  BY <1>13 DEF Serves
<1>18. ASSUME NEW s \in Sid, NEW i \in Sid
       PROVE  Apart(u, s, i)
  <2>1. Apart(m, s, i)
    BY <1>1 DEF Fits
  <2> QED
    BY <1>5, <1>6, <1>8, <2>1 DEF Apart, Known
<1>19. \E F \in SUBSET Sid : OnList(u, F)
  <2> DEFINE F == {s \in Sid : m.free # 0 /\ s >= m.free /\ ~tab[s].opened}
  <2>1. F \subseteq {s \in Sid : ~u.sess[s].opened}
    BY <1>5, <1>6
  <2>2. m.free \in F \cup {0}
    <3>1. PICK G \in SUBSET Sid : OnList(m, G)
      BY <1>1 DEF Fits, ListOk
    <3>2. m.free # 0 => m.free \in Sid /\ ~m.sess[m.free].opened
      BY <3>1 DEF OnList
    <3>3. m.free # 0 => m.free >= m.free /\ ~tab[m.free].opened
      BY <1>8, <3>2 DEF Sid, Known
    <3> QED
      BY <3>2, <3>3
  <2>3. \A s \in F : \/ tab[s].next = 0 /\ \A i \in Sid : i > s => tab[i].opened
                     \/ /\ tab[s].next \in Sid /\ tab[s].next > s /\ ~tab[tab[s].next].opened
                        /\ \A i \in Sid : i > s /\ ~tab[i].opened => tab[s].next =< i
    BY <1>3 DEF TakenOver
  <2>4. ASSUME NEW s \in F
        PROVE  u.sess[s].next \in (F \ {m.free}) \cup {0}
    <3>1. CASE tab[s].next = 0
      BY <1>5, <1>6, <3>1
    <3>2. CASE tab[s].next # 0
      <4> DEFINE k == tab[s].next
      <4>1. k \in Sid /\ k > s /\ ~tab[k].opened
        BY <2>3, <3>2
      <4>2. m.free \in Nat /\ s \in Nat /\ s >= m.free /\ k \in Nat /\ m.free # 0
        BY <2>2, <4>1 DEF Sid
      <4> HIDE DEF k
      <4>3. k >= m.free /\ k # m.free
        BY <4>1, <4>2
      <4>4. k \in F \ {m.free}
        BY <4>1, <4>2, <4>3
      <4> QED
        BY <1>5, <1>6, <4>4 DEF k
    <3> QED
      BY <3>1, <3>2
  <2>5. ASSUME NEW s \in F, NEW i \in F, s # i, u.sess[s].next # 0
        PROVE  u.sess[s].next # u.sess[i].next
    <3> SUFFICES ASSUME tab[s].next = tab[i].next, tab[s].next # 0 PROVE FALSE
      BY <1>5, <1>6, <2>5
    <3> DEFINE k == tab[s].next
    <3>1. /\ k \in Sid /\ k > s /\ k > i
          /\ \A j \in Sid : j > s /\ ~tab[j].opened => k =< j
          /\ \A j \in Sid : j > i /\ ~tab[j].opened => k =< j
      BY <2>3
    <3>2. s \in Sid /\ i \in Sid /\ ~tab[s].opened /\ ~tab[i].opened /\ s \in Nat /\ i \in Nat /\ k \in Nat
      BY <3>1 DEF Sid
    <3> HIDE DEF k
    <3>3. i > s => k =< i
      BY <3>1, <3>2
    <3>4. s > i => k =< s
      BY <3>1, <3>2
    <3> QED
      BY <2>5, <3>1, <3>2, <3>3, <3>4
  <2> HIDE DEF F
  <2>6. OnList(u, F)
    BY <1>5, <1>6, <2>1, <2>2, <2>4, <2>5 DEF OnList
  <2>7. F \in SUBSET Sid
    BY DEF F
  <2> QED
    BY <2>6, <2>7
<1>20. PICK F \in SUBSET Sid : OnList(u, F)
  BY <1>19
<1> USE DEF u
<1> QED
  BY <1>1, <1>6, <1>14, <1>15, <1>16, <1>17, <1>18, <1>20, PrimedFailed

-----------------------------------------------------------------------------
(* The invariant. *)

\* The first tables: all entries free, on the list in ascending order.
LEMMA InitOk ==
  ASSUME Init
  PROVE  IInv
<1> DEFINE c == [i \in 1 .. MaxSession |-> i]
<1>1. MaxSession \in Nat \ {0} /\ MaxRadius \in Nat \ {0} /\ MaxCalls \in Nat \ {0}
  BY SizesArePositive
<1>2. /\ m.sess = FreshSess /\ m.copy = FreshSess /\ m.free = 1 /\ m.sent = {} /\ m.late = {} /\ m.noauth = {}
      /\ m.local = [s \in Sid |-> 0] /\ m.rad = [r \in Slot |-> NoSlot] /\ m.pool = [a \in Pool |-> 0]
      /\ m = [sess |-> m.sess, free |-> m.free, local |-> m.local, rad |-> m.rad, pool |-> m.pool,
              noauth |-> m.noauth, copy |-> m.copy, sent |-> m.sent, late |-> m.late]
  BY DEF Init
<1>3. ASSUME NEW s \in Sid
      PROVE  /\ FreshSess[s] \in SessType /\ ~FreshSess[s].opened
             /\ FreshSess[s].next = IF s = MaxSession THEN 0 ELSE s + 1
  <2> DEFINE k == IF s = MaxSession THEN 0 ELSE s + 1
  <2>1. k \in 0 .. MaxSession /\ 0 \in 0 .. MaxCalls
    BY <1>1 DEF Sid
  <2>2. FreshSess[s] = [Closed EXCEPT !.next = k]
    BY DEF FreshSess
  <2> HIDE DEF k
  <2>3. [Closed EXCEPT !.next = k] \in SessType /\ ~[Closed EXCEPT !.next = k].opened /\ [Closed EXCEPT !.next = k].next = k
    BY <2>1 DEF Closed, SessType, Phase
  <2> QED
    BY <2>2, <2>3 DEF k
<1>4. FreshSess \in [Sid -> SessType]
  BY <1>3 DEF FreshSess
<1>5. NoSlot \in SlotType /\ NoSlot.state = "NULL"
  BY <1>1 DEF NoSlot, SlotType, SlotState
<1>6. m \in Tables
  <2>1. m.local \in [Sid -> 0 .. MaxRadius] /\ m.pool \in [Pool -> 0 .. MaxSession] /\ m.free \in 0 .. MaxSession
    BY <1>1, <1>2
  <2>2. m.rad \in [Slot -> SlotType]
    BY <1>2, <1>5
  <2>3. m.sent \in SUBSET ({"START", "STOP"} \X Call) /\ m.late \in SUBSET Pool /\ m.noauth \in SUBSET Sid
    BY <1>2
  <2>4. m.sess \in [Sid -> SessType] /\ m.copy \in [Sid -> SessType]
    BY <1>2, <1>4
  <2> QED
    BY <1>2, <2>1, <2>2, <2>3, <2>4 DEF Tables
<1>7. \A s \in Sid : m.local[s] = 0
  BY <1>2
<1>8. \A s \in Sid : ~m.sess[s].opened /\ ~m.copy[s].opened
  BY <1>2, <1>3
<1>9. \A s \in Sid : EntryOk(m.sess[s]) /\ Holds(m, s) /\ Served(m, s) /\ Copied(m, s) /\ Waits(m, s)
  BY <1>7, <1>8 DEF EntryOk, Holds, Served, Copied, Waits, Waiting
<1>10. \A a \in Pool : Held(m, a)
  BY <1>2 DEF Held
<1>11. \A r \in Slot : Serves(m, r)
  BY <1>2, <1>5 DEF Serves
<1>12. \A s, i \in Sid : Apart(m, s, i)
  BY <1>8 DEF Apart
<1>13. OnList(m, Sid)
  <2>1. m.free \in Sid
    BY <1>1, <1>2 DEF Sid
  <2>2. \A s \in Sid : m.sess[s].next = IF s = MaxSession THEN 0 ELSE s + 1
    BY <1>2, <1>3
  <2>3. \A s \in Sid : m.sess[s].next \in (Sid \ {m.free}) \cup {0}
    BY <1>1, <1>2, <2>2 DEF Sid
  <2>4. \A s, i \in Sid : s # i /\ m.sess[s].next # 0 => m.sess[s].next # m.sess[i].next
    BY <1>1, <2>2 DEF Sid
  <2> QED
    BY <1>8, <2>1, <2>3, <2>4 DEF OnList
<1>14. Listed(m, MaxSession, c)
  <2>1. c \in [1 .. MaxSession -> Sid] /\ \A i \in 1 .. MaxSession : c[i] = i
    BY DEF Sid
  <2> HIDE DEF c
  <2>2. \A s \in Sid : \E i \in 1 .. MaxSession : c[i] = s
    BY <2>1 DEF Sid
  <2>3. m.free = IF MaxSession = 0 THEN 0 ELSE c[1]
    BY <1>1, <1>2, <2>1
  <2>4. ASSUME NEW i \in 1 .. MaxSession
        PROVE  m.sess[c[i]].next = IF i = MaxSession THEN 0 ELSE c[i + 1]
    <3>1. m.sess[c[i]].next = IF i = MaxSession THEN 0 ELSE i + 1
      BY <1>2, <1>3, <2>1 DEF Sid
    <3>2. i # MaxSession => i + 1 \in 1 .. MaxSession
      BY <1>1
    <3> QED
      BY <2>1, <3>1, <3>2
  <2> QED
    BY <1>8, <2>1, <2>2, <2>3, <2>4 DEF Listed
<1>15. ListOk(m)
  <2>1. c \in [1 .. MaxSession -> Sid] /\ MaxSession \in 0 .. MaxSession
    BY <1>1 DEF Sid
  <2> HIDE DEF c
  <2> QED
    BY <1>13, <1>14, <2>1 DEF ListOk
<1>16. Fits(m, {})
  BY <1>6, <1>9, <1>10, <1>11, <1>12, <1>15 DEF Fits
<1>17. Asked
  <2>1. asked = {} /\ calls = 0 /\ failed = FALSE
    BY DEF Init
  <2>2. asked \subseteq [slot : Slot, call : Call]
    BY <2>1, Zenon
  <2>3. calls \in 0 .. MaxCalls
    BY <1>1, <2>1
  <2>4. failed \in BOOLEAN
    BY <2>1
  <2> QED
    BY <2>2, <2>3, <2>4 DEF Asked
<1> QED
  BY <1>16, <1>17 DEF IInv

\* An access request is asked from a slot for a call.
LEMMA AskedOk ==
  ASSUME IInv, [Next]_vars
  PROVE  Asked'
<1>1. asked \subseteq [slot : Slot, call : Call] /\ calls \in 0 .. MaxCalls /\ failed \in BOOLEAN /\ Fits(m, {})
  BY DEF IInv, Asked
<1>2. CASE Icrq
  <2>1. calls' \in 0 .. MaxCalls
    BY <1>1, <1>2, SizesArePositive DEF Icrq
  <2> QED
    BY <1>1, <1>2, <2>1 DEF Icrq, Asked, Slot, Call
<1>3. ASSUME NEW s \in Sid, Login(s)
      PROVE  Asked'
  <2>1. m \in Tables /\ m.sess[s].opened /\ EntryOk(m.sess[s])
    BY <1>1, <1>3 DEF Login, Fits
  <2>2. m.sess[s].call \in Call
    BY <2>1, InRange DEF EntryOk, Call
  <2>3. SlotFor(m, s) # 0 => SlotFor(m, s) \in Slot
    BY <2>1, SlotForOk
  <2>4. \/ asked' = asked
        \/ SlotFor(m, s) # 0 /\ asked' = asked \cup {[slot |-> SlotFor(m, s), call |-> m.sess[s].call]}
    BY <1>3 DEF Login
  <2>5. asked' \subseteq [slot : Slot, call : Call]
    BY <1>1, <2>2, <2>3, <2>4
  <2> QED
    BY <1>1, <1>3, <2>5 DEF Login, Asked, Slot, Call
<1>4. CASE FailOver
  BY <1>1, <1>4 DEF FailOver, Asked
<1>5. ASSUME UNCHANGED <<asked, calls, failed>>
      PROVE  Asked'
  BY <1>1, <1>5 DEF Asked, Slot, Call
<1>6. ASSUME NEW s \in Sid, LcpUp(s) \/ LcpRestart(s) \/ IpcpOpen(s) \/ Interim(s) \/ Close(s) \/ Expire(s)
      PROVE  Asked'
  BY <1>5, <1>6 DEF LcpUp, LcpRestart, IpcpOpen, Interim, Close, Expire
<1>7. ASSUME NEW q \in asked, Accept(q) \/ Reject(q)
      PROVE  Asked'
  BY <1>5, <1>7 DEF Accept, Reject
<1>8. ASSUME NEW r \in Slot, Acknowledged(r) \/ GiveUp(r)
      PROVE  Asked'
  BY <1>5, <1>8 DEF Acknowledged, GiveUp
<1>9. CASE TunnelShutdown \/ TunnelKill \/ AddIpPool
  BY <1>5, <1>9 DEF TunnelShutdown, TunnelKill, AddIpPool
<1>10. CASE UNCHANGED vars
  BY <1>5, <1>10 DEF vars
<1> QED
  BY <1>2, <1>3, <1>4, <1>6, <1>7, <1>8, <1>9, <1>10 DEF Next

LEMMA NextOk ==
  ASSUME IInv, [Next]_vars
  PROVE  IInv'
<1> SUFFICES Fits(m, {})'
  BY AskedOk DEF IInv
<1>1. Fits(m, {})
  BY DEF IInv
<1>2. CASE FailOver
  BY <1>2, FailOverOk
<1>3. ASSUME Fits(m', {}), failed' = failed
      PROVE  Fits(m, {})'
  BY <1>3, Primed
<1>4. CASE Icrq
  BY <1>3, <1>4, IcrqOk DEF Icrq
<1>5. ASSUME NEW s \in Sid, LcpUp(s)
      PROVE  Fits(m, {})'
  BY <1>3, <1>5, LcpUpOk DEF LcpUp
<1>6. ASSUME NEW s \in Sid, Login(s)
      PROVE  Fits(m, {})'
  BY <1>3, <1>6, LoginOk DEF Login
<1>7. ASSUME NEW s \in Sid, IpcpOpen(s)
      PROVE  Fits(m, {})'
  BY <1>3, <1>7, IpcpOpenOk DEF IpcpOpen
<1>8. ASSUME NEW s \in Sid, Interim(s)
      PROVE  Fits(m, {})'
  BY <1>3, <1>8, InterimOk DEF Interim
<1>9. ASSUME NEW s \in Sid, LcpRestart(s) \/ Close(s) \/ Expire(s)
      PROVE  Fits(m, {})'
  <2>1. failed' = failed
    BY <1>9 DEF LcpRestart, Close, Expire
  <2> QED
    BY <1>3, <1>9, <2>1, EndsOk
<1>10. ASSUME NEW q \in asked, Accept(q)
       PROVE  Fits(m, {})'
  BY <1>3, <1>10, AcceptOk DEF Accept
<1>11. ASSUME NEW q \in asked, Reject(q)
       PROVE  Fits(m, {})'
  BY <1>3, <1>11, RejectOk DEF Reject
<1>12. ASSUME NEW r \in Slot, Acknowledged(r)
       PROVE  Fits(m, {})'
  <2>1. /\ m.rad[r].state # "NULL" /\ failed' = failed
        /\ m' = RadiusClear(m, r, m.rad[r].session)
    BY <1>12 DEF Acknowledged
  <2>2. Fits(m', {})
    BY <1>1, <2>1, AcknowledgedOk
  <2> QED
    BY <1>3, <2>1, <2>2
<1>13. ASSUME NEW r \in Slot, GiveUp(r)
       PROVE  Fits(m, {})'
  BY <1>3, <1>13, GiveUpOk DEF GiveUp
<1>14. CASE TunnelShutdown
  <2>1. Fits(m', {})
    BY <1>1, <1>14, AllShutdown DEF TunnelShutdown
  <2> QED
    BY <1>3, <1>14, <2>1 DEF TunnelShutdown
<1>15. CASE TunnelKill
  <2>1. Fits(m', {})
    BY <1>1, <1>15, AllKill DEF TunnelKill
  <2> QED
    BY <1>3, <1>15, <2>1 DEF TunnelKill
<1>16. CASE UNCHANGED vars
  BY <1>1, <1>3, <1>16 DEF vars
<1>17. CASE AddIpPool
  BY <1>3, <1>17, AddIpPoolOk DEF AddIpPool
<1> QED
  BY <1>2, <1>4, <1>5, <1>6, <1>7, <1>8, <1>9, <1>10, <1>11, <1>12, <1>13, <1>14, <1>15, <1>16, <1>17 DEF Next

-----------------------------------------------------------------------------
(* What follows from it. *)

\* The list is followed to any length.
LEMMA ChainIs ==
  ASSUME m \in Tables
  PROVE  /\ Chain \in [Sid -> 0 .. MaxSession]
         /\ \A n \in Sid : Chain[n] = IF n = 1 THEN m.free
                                      ELSE IF Chain[n - 1] = 0 THEN 0 ELSE m.sess[Chain[n - 1]].next
<1> DEFINE k == MaxSession - 1
           T == 0 .. MaxSession
           F == [p \in (1 .. k) \X T |-> IF p[2] = 0 THEN 0 ELSE m.sess[p[2]].next]
<1>1. MaxSession \in Nat \ {0} /\ k \in Nat /\ k + 1 = MaxSession
  BY SizesArePositive
<1>2. m.free \in T /\ \A s \in Sid : m.sess[s].next \in T
  BY DEF Tables, SessType
<1> HIDE DEF k
<1>3. F \in [(1 .. k) \X T -> T]
  <2>1. \A x \in T : x # 0 => x \in Sid
    BY DEF Sid
  <2>2. 0 \in T
    BY <1>1
  <2> QED
    BY <1>2, <2>1, <2>2
<1> HIDE DEF F
<1>4. PICK g \in [0 .. k -> T] : Rounds(k, F, m.free, g)
  <2> HIDE DEF T
  <2> QED
    BY <1>1, <1>2, <1>3, LoopDefined
<1>5. ASSUME NEW i \in 1 .. k
      PROVE  g[i] = IF g[i - 1] = 0 THEN 0 ELSE m.sess[g[i - 1]].next
  <2>1. i - 1 \in 0 .. k
    BY <1>1
  <2>2. <<i, g[i - 1]>> \in (1 .. k) \X T
    BY <2>1
  <2>3. F[<<i, g[i - 1]>>] = IF g[i - 1] = 0 THEN 0 ELSE m.sess[g[i - 1]].next
    BY <2>2 DEF F
  <2> QED
    BY <1>4, <2>3 DEF Rounds
<1> DEFINE h == [n \in Sid |-> g[n - 1]]
<1>6. h \in [Sid -> T]
  BY <1>1 DEF Sid
<1>7. ASSUME NEW n \in Sid
      PROVE  h[n] = IF n = 1 THEN m.free ELSE IF h[n - 1] = 0 THEN 0 ELSE m.sess[h[n - 1]].next
  <2>1. CASE n = 1
    BY <1>4, <2>1 DEF Rounds
  <2>2. CASE n # 1
    <3>1. n - 1 \in Sid /\ n - 1 \in 1 .. k
      BY <1>1, <2>2 DEF Sid
    <3>2. h[n] = g[n - 1] /\ h[n - 1] = g[(n - 1) - 1]
      BY <3>1
    <3>3. g[n - 1] = IF g[(n - 1) - 1] = 0 THEN 0 ELSE m.sess[g[(n - 1) - 1]].next
      BY <1>5, <3>1
    <3> QED
      BY <2>2, <3>2, <3>3
  <2> QED
    BY <2>1, <2>2
<1>8. h = [n \in Sid |-> IF n = 1 THEN m.free ELSE IF h[n - 1] = 0 THEN 0 ELSE m.sess[h[n - 1]].next]
  <2> HIDE DEF h
  <2> QED
    BY <1>6, <1>7
<1> DEFINE D == CHOOSE at : at = [n \in Sid |-> IF n = 1 THEN m.free ELSE IF at[n - 1] = 0 THEN 0 ELSE m.sess[at[n - 1]].next]
<1>9. Chain = D
  BY DEF Chain
<1> HIDE DEF h
<1>10. D = [n \in Sid |-> IF n = 1 THEN m.free ELSE IF D[n - 1] = 0 THEN 0 ELSE m.sess[D[n - 1]].next]
  BY <1>8
<1> HIDE DEF D
<1>11. \A n \in Sid : D[n] = IF n = 1 THEN m.free ELSE IF D[n - 1] = 0 THEN 0 ELSE m.sess[D[n - 1]].next
  BY <1>10
<1> DEFINE S == {i \in 0 .. k : D[i + 1] \in T}
<1>12. 0 \in S
  <2>1. 1 \in Sid /\ 0 + 1 = 1 /\ 0 \in 0 .. k
    BY <1>1 DEF Sid
  <2> QED
    BY <1>2, <1>11, <2>1
<1>13. ASSUME NEW i \in 0 .. k - 1, i \in S PROVE i + 1 \in S
  <2>1. (i + 1) + 1 \in Sid /\ (i + 1) + 1 # 1 /\ ((i + 1) + 1) - 1 = i + 1 /\ i + 1 \in 0 .. k
    BY <1>1 DEF Sid
  <2>2. D[(i + 1) + 1] = IF D[i + 1] = 0 THEN 0 ELSE m.sess[D[i + 1]].next
    BY <1>11, <2>1
  <2>3. D[i + 1] \in T /\ (D[i + 1] # 0 => D[i + 1] \in Sid)
    BY <1>13 DEF Sid
  <2>4. 0 \in T
    BY <1>1
  <2> QED
    BY <1>2, <2>1, <2>2, <2>3, <2>4
<1>14. \A i \in 0 .. k : i \in S
  <2> HIDE DEF S
  <2> QED
    BY <1>1, <1>12, <1>13, Induct
<1>15. ASSUME NEW n \in Sid PROVE D[n] \in T
  <2>1. n - 1 \in 0 .. k /\ (n - 1) + 1 = n
    BY <1>1 DEF Sid
  <2>2. D[(n - 1) + 1] \in T
    BY <1>14, <2>1
  <2> QED
    BY <2>1, <2>2
<1> QED
  BY <1>9, <1>10, <1>11, <1>15

\* After a failover too: the ids on the list are free.
LEMMA ChainIsFree ==
  ASSUME m \in Tables, NEW F \in SUBSET Sid, OnList(m, F)
  PROVE  \A n \in Sid : Chain[n] \in F \cup {0}
<1> DEFINE S == {i \in 0 .. MaxSession - 1 : Chain[i + 1] \in F \cup {0}}
<1>1. MaxSession \in Nat \ {0} /\ MaxSession - 1 \in Nat
  BY SizesArePositive
<1>2. m.free \in F \cup {0} /\ \A s \in F : m.sess[s].next \in F \cup {0}
  BY DEF OnList
<1>3. \A n \in Sid : Chain[n] = IF n = 1 THEN m.free
                                ELSE IF Chain[n - 1] = 0 THEN 0 ELSE m.sess[Chain[n - 1]].next
  BY ChainIs
<1>4. 0 \in S
  <2>1. 1 \in Sid /\ 0 + 1 = 1 /\ 0 \in 0 .. MaxSession - 1
    BY <1>1 DEF Sid
  <2> QED
    BY <1>2, <1>3, <2>1
<1>5. ASSUME NEW i \in 0 .. (MaxSession - 1) - 1, i \in S PROVE i + 1 \in S
  <2>1. (i + 1) + 1 \in Sid /\ (i + 1) + 1 # 1 /\ ((i + 1) + 1) - 1 = i + 1 /\ i + 1 \in 0 .. MaxSession - 1
    BY <1>1 DEF Sid
  <2>2. Chain[(i + 1) + 1] = IF Chain[i + 1] = 0 THEN 0 ELSE m.sess[Chain[i + 1]].next
    BY <1>3, <2>1
  <2> QED
    BY <1>2, <1>5, <2>1, <2>2
<1>6. \A i \in 0 .. MaxSession - 1 : i \in S
  <2> HIDE DEF S
  <2> QED
    BY <1>1, <1>4, <1>5, Induct
<1> TAKE n \in Sid
<1>7. n - 1 \in 0 .. MaxSession - 1 /\ (n - 1) + 1 = n
  BY <1>1 DEF Sid
<1>8. Chain[(n - 1) + 1] \in F \cup {0}
  BY <1>6, <1>7
<1> QED
  BY <1>7, <1>8

\* Before it is the list.
LEMMA ChainIsList ==
  ASSUME m \in Tables, NEW k \in 0 .. MaxSession, NEW c \in [1 .. k -> Sid], Listed(m, k, c)
  PROVE  \A n \in Sid : Chain[n] = IF n =< k THEN c[n] ELSE 0
<1> DEFINE At(n) == IF n =< k THEN c[n] ELSE 0
           S == {i \in 0 .. MaxSession - 1 : Chain[i + 1] = At(i + 1)}
<1>1. MaxSession \in Nat \ {0} /\ MaxSession - 1 \in Nat /\ k \in Nat
  BY SizesArePositive
<1>2. /\ m.free = IF k = 0 THEN 0 ELSE c[1]
      /\ \A i \in 1 .. k : m.sess[c[i]].next = IF i = k THEN 0 ELSE c[i + 1]
  BY DEF Listed
<1>3. \A n \in Sid : Chain[n] = IF n = 1 THEN m.free
                                ELSE IF Chain[n - 1] = 0 THEN 0 ELSE m.sess[Chain[n - 1]].next
  BY ChainIs
<1>4. 0 \in S
  <2>1. 1 \in Sid /\ 0 + 1 = 1 /\ 0 \in 0 .. MaxSession - 1
    BY <1>1 DEF Sid
  <2>2. At(1) = m.free
    BY <1>1, <1>2
  <2> QED
    BY <1>3, <2>1, <2>2
<1>5. ASSUME NEW i \in 0 .. (MaxSession - 1) - 1, i \in S PROVE i + 1 \in S
  <2> DEFINE j == i + 1
  <2>1. j + 1 \in Sid /\ j + 1 # 1 /\ (j + 1) - 1 = j /\ j \in 0 .. MaxSession - 1 /\ j \in Nat \ {0}
    BY <1>1 DEF Sid
  <2>2. Chain[j] = At(j)
    BY <1>5
  <2> HIDE DEF j
  <2>3. Chain[j + 1] = IF Chain[j] = 0 THEN 0 ELSE m.sess[Chain[j]].next
    BY <1>3, <2>1
  <2>4. CASE j =< k
    <3>1. j \in 1 .. k /\ Chain[j] = c[j]
      BY <1>1, <2>1, <2>2, <2>4
    <3>2. c[j] \in Sid /\ c[j] # 0
      BY <3>1 DEF Sid
    <3>3. Chain[j + 1] = IF j = k THEN 0 ELSE c[j + 1]
      BY <1>2, <2>3, <3>1, <3>2
    <3>4. j = k => ~(j + 1 =< k)
      BY <1>1
    <3>5. j # k => j + 1 =< k
      BY <1>1, <2>1, <2>4
    <3>6. Chain[j + 1] = At(j + 1)
      BY <3>3, <3>4, <3>5
    <3> QED
      BY <2>1, <3>6 DEF j
  <2>5. CASE ~(j =< k)
    <3>1. Chain[j + 1] = 0
      BY <2>2, <2>3, <2>5
    <3>2. ~(j + 1 =< k)
      BY <1>1, <2>1, <2>5
    <3>3. Chain[j + 1] = At(j + 1)
      BY <3>1, <3>2
    <3> QED
      BY <2>1, <3>3 DEF j
  <2> QED
    BY <2>4, <2>5
<1> HIDE DEF At
<1>6. \A i \in 0 .. MaxSession - 1 : i \in S
  <2> HIDE DEF S
  <2> QED
    BY <1>1, <1>4, <1>5, Induct
<1> SUFFICES ASSUME NEW n \in Sid PROVE Chain[n] = At(n)
  BY DEF At
<1>7. n - 1 \in 0 .. MaxSession - 1 /\ (n - 1) + 1 = n
  BY <1>1 DEF Sid
<1>8. Chain[(n - 1) + 1] = At((n - 1) + 1)
  BY <1>6, <1>7
<1> QED
  BY <1>7, <1>8

LEMMA FreeListOk ==
  ASSUME IInv
  PROVE  FreeList
<1>1. m \in Tables /\ ListOk(m)
  BY DEF IInv, Fits
<1>2. OnChain \cap Opens = {}
  <2>1. PICK F \in SUBSET Sid : OnList(m, F)
    BY <1>1 DEF ListOk
  <2>2. \A n \in Sid : Chain[n] \in F \cup {0}
    BY <1>1, <2>1, ChainIsFree
  <2>3. OnChain \subseteq F
    BY <2>2 DEF OnChain
  <2>4. F \cap Opens = {}
    BY <2>1 DEF OnList, Opens
  <2> QED
    BY <2>3, <2>4
<1>3. ASSUME ~failed
      PROVE  /\ OnChain = Sid \ Opens
             /\ \A i, j \in Sid : i < j /\ Chain[i] # 0 => Chain[i] # Chain[j]
  <2>1. PICK k \in 0 .. MaxSession : \E c \in [1 .. k -> Sid] : Listed(m, k, c)
    BY <1>1, <1>3 DEF ListOk
  <2>2. PICK c \in [1 .. k -> Sid] : Listed(m, k, c)
    BY <2>1
  <2>3. \A n \in Sid : Chain[n] = IF n =< k THEN c[n] ELSE 0
    BY <1>1, <2>2, ChainIsList
  <2>4. k \in Nat /\ MaxSession \in Nat /\ k =< MaxSession
    BY SizesArePositive
  <2>5. \A n \in Sid : Chain[n] # 0 => n \in 1 .. k /\ Chain[n] = c[n]
    BY <2>3, <2>4 DEF Sid
  <2>6. \A n \in 1 .. k : n \in Sid /\ Chain[n] = c[n] /\ c[n] # 0
    BY <2>3, <2>4 DEF Sid
  <2>7. /\ \A i, j \in 1 .. k : i # j => c[i] # c[j]
        /\ \A s \in Sid : ~m.sess[s].opened <=> \E i \in 1 .. k : c[i] = s
    BY <2>2 DEF Listed
  <2>8. \A s \in Sid : s \in OnChain <=> \E i \in 1 .. k : c[i] = s
    BY <2>5, <2>6 DEF OnChain
  <2>9. OnChain \subseteq Sid
    BY <2>5 DEF OnChain
  <2>10. OnChain = Sid \ Opens
    BY <2>7, <2>8, <2>9 DEF Opens
  <2>11. ASSUME NEW i \in Sid, NEW j \in Sid, i < j, Chain[i] # 0
         PROVE  Chain[i] # Chain[j]
    <3>1. i # j /\ i \in 1 .. k /\ Chain[i] = c[i]
      BY <2>5, <2>11 DEF Sid
    <3>2. Chain[j] # 0 => j \in 1 .. k /\ Chain[j] = c[j]
      BY <2>5
    <3> QED
      BY <2>7, <2>11, <3>1, <3>2
  <2> QED
    BY <2>10, <2>11
<1> QED
  BY <1>2, <1>3 DEF FreeList

LEMMA TablesOk ==
  ASSUME IInv
  PROVE  SessionTables
<1>1. m \in Tables /\ Asked
  BY DEF IInv, Fits
<1>2. TypeOK
  BY <1>1 DEF TypeOK, Tables, SlotType, Asked
<1>3. NoSharedAddress
  BY DEF IInv, Fits, Apart, NoSharedAddress, Opens
<1>4. PoolAgrees
  <2>1. ASSUME NEW s \in Opens, m.sess[s].ip \in Pool, ~m.sess[s].static
        PROVE  m.pool[m.sess[s].ip] = s
    <3>1. s \in Sid /\ m.sess[s].opened /\ m.sess[s].ip # 0
      BY <2>1, AddressesAreNats DEF Opens
    <3>2. Holds(m, s)
      BY <3>1 DEF IInv, Fits
    <3> QED
      BY <2>1, <3>1, <3>2 DEF Holds
  <2>2. ASSUME NEW a \in Pool \ m.late, m.pool[a] # 0
        PROVE  m.pool[a] \in Opens /\ m.sess[m.pool[a]].ip = a
    <3>1. m.pool[a] \in Sid
      BY <1>1, <2>2 DEF Tables, Sid
    <3>2. Held(m, a)
      BY DEF IInv, Fits
    <3> QED
      BY <2>2, <3>1, <3>2 DEF Held, Opens
  <2> QED
    BY <2>1, <2>2 DEF PoolAgrees
<1> QED
  BY <1>2, <1>3, <1>4, FreeListOk DEF SessionTables

LEMMA SlotsOk ==
  ASSUME IInv
  PROVE  RadiusSlots
<1>1. m \in Tables /\ Fits(m, {})
  BY DEF IInv, Fits
<1>2. SlotsPaired
  <2>1. ASSUME NEW r \in Slot, m.rad[r].state # "NULL"
        PROVE  m.rad[r].session \in Opens /\ m.local[m.rad[r].session] = r
    BY <1>1, <2>1, SlotServes DEF Opens
  <2>2. ASSUME NEW s \in Sid, m.local[s] # 0
        PROVE  m.rad[m.local[s]].state # "NULL" /\ m.rad[m.local[s]].session = s
    BY <1>1, <2>2 DEF Fits, Served
  <2> QED
    BY <2>1, <2>2 DEF SlotsPaired
<1>3. AcceptIsForThatCall
  BY <1>1 DEF Fits, EntryOk, AcceptIsForThatCall, Opens
<1> QED
  BY <1>2, <1>3 DEF RadiusSlots

-----------------------------------------------------------------------------
\* Whatever calls, answers, timers and a failover do to them, the tables fit
\* together.
THEOREM Sound == Spec => []IInv
<1>1. Init => IInv
  BY InitOk
<1>2. IInv /\ [Next]_vars => IInv'
  BY NextOk
<1> QED
  BY <1>1, <1>2, PTL DEF Spec

\* No id is handed out that is in use, the free list has every free id once
\* until a slave takes over, no two sessions have the same address, and what
\* the pool has assigned belongs to the session it names (sessionkill,
\* assign_ip_address, sessionsetup).  This holds although the pool forgets
\* addresses in use whenever rebuild_address_pool runs, at a failover or for
\* the command ip-pool: such an address is given again, and sessionsetup ends
\* the session that had it.
THEOREM TablesAgree == Spec => []SessionTables
<1>1. IInv => SessionTables
  BY TablesOk
<1> QED
  BY <1>1, Sound, PTL

\* A RADIUS slot and its session know each other, and an accept brings up only
\* the call that asked (radiusnew, radiusclear, processrad).
THEOREM SlotsServeTheirCall == Spec => []RadiusSlots
<1>1. IInv => RadiusSlots
  BY SlotsOk
<1> QED
  BY <1>1, Sound, PTL

=============================================================================
