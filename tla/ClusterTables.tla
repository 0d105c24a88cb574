---------------------------- MODULE ClusterTables ----------------------------
(***************************************************************************)
(* Replication of the session, bundle and tunnel tables during the tenure  *)
(* of one cluster master (src/cluster.c).                                  *)
(*                                                                         *)
(* The master marks a table entry as changed in a short queue              *)
(* (type_changed) and sends the queued entries in its next heartbeat,      *)
(* filling the rest of the packet with a slow walk over the three tables   *)
(* (cluster_heartbeat).  A slave starts with every entry undefined, takes  *)
(* the heartbeats in sequence, clears what lies above the master's highest *)
(* ids (cluster_check_sessions), loads the entries it is sent              *)
(* (cluster_recv_session, _bundle, _tunnel) and calls itself up to date    *)
(* once nothing is undefined (cluster_uptodate).                           *)
(*                                                                         *)
(* Abstractions.  An entry's contents are a member of Data.  The network   *)
(* is seen through cluster_process_heartbeat, which applies only the       *)
(* heartbeat whose number it expects and has the rest resent: inbox[s] is  *)
(* the heartbeats sent since s joined that s has not applied.  Module      *)
(* Cluster models the numbers, the losses and the resends.                 *)
(***************************************************************************)
EXTENDS Integers, Sequences, FiniteSets, SequencesExt

CONSTANTS
  Slave,            \* the slaves of this master
  Data,             \* contents of an entry in use
  Free,             \* an entry not in use (T_FREE, BUNDLEFREE, TUNNELFREE)
  Undef,            \* an entry a slave knows nothing of (T_UNDEF, ...)
  LastId,           \* MAXSESSION-1, MAXBUNDLE-1 and MAXTUNNEL-1
  MAX_CHANGES,      \* slots declared for cluster_changes
  HB_HISTORY_SIZE,  \* bound: how far a slave may lag before it is killed
  MAX_HEART_SIZE,   \* room in a heartbeat
  HeaderSize,       \* what the heartbeat header takes of it
  EntryHeader,      \* the type and id words in front of an entry
  StructSize,       \* sizeof(sessiont), sizeof(bundlet), sizeof(tunnelt)
  PackedSize        \* what rle_compress makes of them

Kind  == {"sess", "bund", "tunn"}
Value == Data \cup {Free}

ASSUME ValuesDistinct == Free \notin Data /\ Undef \notin Value
ASSUME LastIdType     == LastId \in [Kind -> Nat \ {0}]
ASSUME QueueSize      == MAX_CHANGES \in Nat \ {0}
ASSUME HistorySize    == HB_HISTORY_SIZE \in Nat \ {0}
ASSUME PacketSizes    == /\ {MAX_HEART_SIZE, HeaderSize, EntryHeader} \subseteq Nat
                         /\ StructSize \in [Kind -> Nat \ {0}]
                         /\ PackedSize \in [Kind -> Nat \ {0}]
                         /\ \A k \in Kind : PackedSize[k] <= StructSize[k]

Id(k)   == 1 .. LastId[k]        \* entry 0 of every table is never used
Cell(k) == {<<k, i>> : i \in Id(k)}
Cells   == UNION {Cell(k) : k \in Kind}

VARIABLES
  table,    \* the master's tables
  high,     \* cluster_highest_sessionid, _bundleid, _tunnelid
  queue,    \* cluster_changes[0 .. cluster_num_changes-1]
  walk,     \* walk_session_number, ...; the code's 0 stands for 1
  silent,   \* ghost: cells changed without type_changed since last sent
  inbox,    \* heartbeats each slave has still to apply
  replica,  \* the slaves' tables
  undef,    \* cluster_undefined_sessions, _bundles, _tunnels of each slave
  uptodate  \* cluster_iam_uptodate of each slave

masterVars == <<table, high, queue, walk, silent>>
slaveVars  == <<replica, undef, uptodate>>
vars == <<table, high, queue, walk, silent, inbox, replica, undef, uptodate>>

Heartbeat == [high    : [Kind -> Nat],
              changes : Nat,
              vals    : UNION {[C -> Value] : C \in SUBSET Cells}]

-----------------------------------------------------------------------------
(* Building a heartbeat.                                                   *)

\* The id after i on the walk over a table whose highest id is h.
NextId(i, h) == LET j == (i + 1) % (h + 1) IN IF j = 0 THEN 1 ELSE j

\* Mutants of Nth: the walk passes through entry 0; it starts at 1 in every packet.
Nth_Zero(w, h, n)  == (w + n) % (h + 1)
Nth_First(w, h, n) == IF n = 0 \/ h = 0 THEN 1 ELSE 1 + (n % h)

\* The n-th id (from 0) of a walk that starts at w.
Nth(w, h, n) ==
  CASE n = 0            -> w
    [] n > 0 /\ w <= h  -> 1 + ((w - 1 + n) % h)
    [] n > 0 /\ w > h   -> 1 + ((NextId(w, h) - 2 + n) % h)

\* Room the walk insists on before it adds an entry of kind k: an entry that
\* does not compress, and for a session also a tunnel or two.
Reserve(k) == EntryHeader + (IF k = "sess" THEN 2 ELSE 1) * StructSize[k]

\* How many entries of kind k the walk adds at offset p: until room or ids end.
Steps(k, p, h) ==
  LET e    == EntryHeader + PackedSize[k]
      room == MAX_HEART_SIZE - Reserve(k) - p
      fit  == (room + e - 1) \div e
  IN  IF room <= 0 THEN 0 ELSE IF fit < h THEN fit ELSE h

EntriesSize(k, n) == n * (EntryHeader + PackedSize[k])

QueueCells(q, k) == {c \in Cell(k) : Contains(q, c)}

QueueEnd(q) == HeaderSize
                 + EntriesSize("sess", Cardinality(QueueCells(q, "sess")))
                 + EntriesSize("bund", Cardinality(QueueCells(q, "bund")))
                 + EntriesSize("tunn", Cardinality(QueueCells(q, "tunn")))

\* Sessions are walked first, then tunnels, then bundles, each in what is left.
WalkSteps(q, h) ==
  LET p0 == QueueEnd(q)
      ns == Steps("sess", p0, h["sess"])
      p1 == p0 + EntriesSize("sess", ns)
      nt == Steps("tunn", p1, h["tunn"])
      p2 == p1 + EntriesSize("tunn", nt)
      nb == Steps("bund", p2, h["bund"])
  IN  [k \in Kind |-> CASE k = "sess" -> ns [] k = "tunn" -> nt [] k = "bund" -> nb]

WalkCells(k, n, h) ==
  {c \in Cell(k) : \E m \in 0 .. n - 1 : c[2] = Nth(walk[k], h, m)}

\* Mutant: the heartbeat is filled by the walk alone.
SentCells_Walk(q, h) ==
  LET n == WalkSteps(q, h)
  IN  UNION {WalkCells(k, n[k], h[k]) : k \in Kind}

SentCells(q, h) ==
  LET n == WalkSteps(q, h)
  IN  UNION {QueueCells(q, k) \cup WalkCells(k, n[k], h[k]) : k \in Kind}

Built(t, h, q) == [high    |-> h,
                   changes |-> Len(q),      \* what cluster_table_version grows by
                   vals    |-> [c \in SentCells(q, h) |-> t[c]]]

\* cluster_heartbeat, for tables t with highest ids h, queue q and silent cells u.
Publish(t, h, q, u) ==
  /\ \A s \in Slave : Len(inbox[s]) < HB_HISTORY_SIZE
  /\ inbox' = [s \in Slave |-> Append(inbox[s], Built(t, h, q))]
  /\ queue' = <<>>
  /\ walk' = [k \in Kind |-> Nth(walk[k], h[k], WalkSteps(q, h)[k])]
  /\ silent' = u \ SentCells(q, h)

\* The queue once type_changed has removed c and put it at the end.
Slot(c) == CHOOSE i \in DOMAIN queue : queue[i] = c

Requeued(c) == Append(IF Contains(queue, c) THEN RemoveAt(queue, Slot(c)) ELSE queue, c)

-----------------------------------------------------------------------------
(* The master.                                                             *)

\* Mutant: a new id does not raise the highest one.
Raised_Never(c, v) == high

\* An id above the highest one raises it, as new_tunnel and the ICRQ handler do.
Raised(c, v) == IF v # Free /\ c[2] > high[c[1]]
                THEN [high EXCEPT ![c[1]] = c[2]]
                ELSE high

\* A handler writes an entry and calls cluster_send_session, _bundle or _tunnel:
\* type_changed queues it, and sends a heartbeat at once if the queue is overfull.
Change(c, v) ==
  LET t == [table EXCEPT ![c] = v]
      h == Raised(c, v)
      q == Requeued(c)
      u == silent \ {c}
  IN  /\ c[2] <= high[c[1]] \/ v # Free
      /\ table' = t
      /\ high' = h
      /\ IF Len(q) > MAX_CHANGES
         THEN Publish(t, h, q, u)
         ELSE queue' = q /\ silent' = u /\ UNCHANGED <<walk, inbox>>
      /\ UNCHANGED slaveVars

\* A handler writes an entry and leaves it to the walk: an ICRQ opens its
\* session this way, and byte counters and timers are never queued.
Touch(c, v) ==
  /\ v # Free
  /\ table[c] # v
  /\ table' = [table EXCEPT ![c] = v]
  /\ high' = Raised(c, v)
  /\ silent' = IF Contains(queue, c) THEN silent ELSE silent \cup {c}
  /\ UNCHANGED <<queue, walk, inbox, slaveVars>>

\* The main loop's periodic cluster_heartbeat.
SendHeartbeat ==
  /\ Publish(table, high, queue, silent)
  /\ UNCHANGED <<table, high, slaveVars>>

-----------------------------------------------------------------------------
(* A slave.                                                                *)

UndefCount(r, k) == Cardinality({c \in Cell(k) : r[c] = Undef})

\* cluster_check_sessions: a slave that may still hold undefined entries above
\* the master's highest ids clears them and counts the others again.
NeedsRecount(s, h) == /\ ~uptodate[s]
                      /\ \E k \in Kind : h[k] <= undef[s][k]

\* Mutant: what lies above the highest ids stays undefined.
Cleared_None(r, h) == r

Cleared(r, h) == [c \in Cells |-> IF c[2] > h[c[1]] /\ r[c] = Undef THEN Free ELSE r[c]]

\* Mutant: one kind that is defined is enough.
AllDefined_Any(n) == \E k \in Kind : n[k] = 0

AllDefined(n) == \A k \in Kind : n[k] = 0

\* Mutant: every entry received drops the counter.
Defined_Every(r, vals, k) == {c \in Cell(k) : c \in DOMAIN vals}

\* Entries of kind k that a heartbeat defines in r: the counter drops by these.
Defined(r, vals, k) == {c \in Cell(k) : r[c] = Undef /\ c \in DOMAIN vals}

\* cluster_process_heartbeat, for the heartbeat s expects: the highest ids first,
\* then the entries; each calls cluster_uptodate, which looks at the counters.
Apply(s) ==
  /\ inbox[s] # <<>>
  /\ LET hb == Head(inbox[s])
         recount == NeedsRecount(s, hb.high)
         r == IF recount THEN Cleared(replica[s], hb.high) ELSE replica[s]
         n == IF recount THEN [k \in Kind |-> UndefCount(r, k)] ELSE undef[s]
         m == IF uptodate[s] \/ (recount /\ AllDefined(n))
              THEN n
              ELSE [k \in Kind |-> n[k] - Cardinality(Defined(r, hb.vals, k))]
     IN  /\ replica' = [replica EXCEPT ![s] =
                          [c \in Cells |-> IF c \in DOMAIN hb.vals THEN hb.vals[c] ELSE r[c]]]
         /\ undef' = [undef EXCEPT ![s] = m]
         /\ uptodate' = [uptodate EXCEPT ![s] =
                           \/ @
                           \/ recount /\ AllDefined(n)
                           \/ DOMAIN hb.vals # {} /\ AllDefined(m)]
  /\ inbox' = [inbox EXCEPT ![s] = Tail(@)]
  /\ UNCHANGED masterVars

\* A slave's process ends and a new one joins at the next heartbeat sent.
Restart(s) ==
  /\ inbox' = [inbox EXCEPT ![s] = <<>>]
  /\ replica' = [replica EXCEPT ![s] = [c \in Cells |-> Undef]]
  /\ undef' = [undef EXCEPT ![s] = LastId]
  /\ uptodate' = [uptodate EXCEPT ![s] = FALSE]
  /\ UNCHANGED masterVars

-----------------------------------------------------------------------------
Init ==
  /\ table = [c \in Cells |-> Free]
  /\ high = [k \in Kind |-> 0]
  /\ queue = <<>>
  /\ walk = [k \in Kind |-> 1]
  /\ silent = {}
  /\ inbox = [s \in Slave |-> <<>>]
  /\ replica = [s \in Slave |-> [c \in Cells |-> Undef]]
  /\ undef = [s \in Slave |-> LastId]
  /\ uptodate = [s \in Slave |-> FALSE]

Next ==
  \/ \E c \in Cells, v \in Value : Change(c, v) \/ Touch(c, v)
  \/ SendHeartbeat
  \/ \E s \in Slave : Apply(s) \/ Restart(s)

Spec == Init /\ [][Next]_vars

\* The heartbeat is sent from a timer and every heartbeat is resent until the
\* slave has it.
Fairness == WF_vars(SendHeartbeat) /\ \A s \in Slave : WF_vars(Apply(s))

FairSpec == Spec /\ Fairness

-----------------------------------------------------------------------------
TypeOK ==
  /\ table \in [Cells -> Value]
  /\ high \in [Kind -> Nat]
  /\ queue \in Seq(Cells)
  /\ walk \in [Kind -> Nat \ {0}]
  /\ silent \subseteq Cells
  /\ inbox \in [Slave -> Seq(Heartbeat)]
  /\ replica \in [Slave -> [Cells -> Value \cup {Undef}]]
  /\ undef \in [Slave -> [Kind -> Int]]
  /\ uptodate \in [Slave -> BOOLEAN]

\* The three counters of a slave are exactly what is undefined in its tables: no
\* path through check_sessions (which may skip the recount) and the recv
\* functions (which skip the decrement once up to date) lets them drift.
UndefExact == \A s \in Slave, k \in Kind : undef[s][k] = UndefCount(replica[s], k)

\* A slave that takes traffic (up to date, routes advertised) has no undefined
\* entry, so that it never treats a live session of the master as unknown.
UptodateDefined == \A s \in Slave : uptodate[s] => \A c \in Cells : replica[s][c] # Undef

\* A heartbeat after the n-th that s has still to apply carries c.
SentAfter(s, c, n) ==
  \E m \in DOMAIN inbox[s] : m > n /\ c \in DOMAIN inbox[s][m].vals

\* No change is lost: what a slave holds, or will hold once it has applied what was
\* sent, is the master's entry, unless that entry waits in the queue or was
\* changed without queueing.
NoLostChange ==
  \A s \in Slave, c \in Cells :
     \/ Contains(queue, c)
     \/ c \in silent
     \/ /\ SentAfter(s, c, 0) \/ replica[s][c] \in {table[c], Undef}
        /\ \A n \in DOMAIN inbox[s] :
             \/ SentAfter(s, c, n)
             \/ c \notin DOMAIN inbox[s][n].vals
             \/ inbox[s][n].vals[c] = table[c]

\* What the theorems need besides: the counters of a slave that is up to date
\* are zero, ids in use are covered by the highest ids, and an entry above the
\* highest ids of a heartbeat was unused when that heartbeat was built.
UptodateZero == \A s \in Slave : uptodate[s] => AllDefined(undef[s])

HighCovers == \A c \in Cells : table[c] = Free \/ c[2] <= high[c[1]]

ClearedUnused ==
  \A s \in Slave, c \in Cells :
     \/ Contains(queue, c)
     \/ c \in silent
     \/ \A n \in DOMAIN inbox[s] :
          \/ SentAfter(s, c, n)
          \/ c[2] <= inbox[s][n].high[c[1]]
          \/ table[c] = Free

CountersInv == TypeOK /\ UndefExact /\ UptodateZero

ReplicationInv == CountersInv /\ HighCovers /\ ClearedUnused /\ NoLostChange

\* A slave's process that stays up becomes up to date: the walk reaches every
\* entry, whatever the queue takes of the packets, and the counters reach zero.
JoinCompletes ==
  \A s \in Slave : <>[][~Restart(s)]_vars => <>[]uptodate[s]

\* The slow walk repairs what is never queued: an entry that keeps its value gets
\* it at every slave that stays up.
WalkRepairs ==
  \A s \in Slave, c \in Cells, v \in Value :
    <>[](table[c] = v) /\ <>[][~Restart(s)]_vars => <>[](replica[s][c] = v)

\* "cluster_changes[MAX_CHANGES]" (cluster.c:49-52) is the queue of changes that
\* go out with a heartbeat, so no heartbeat carries more than MAX_CHANGES.
QueueInArray ==
  \A s \in Slave : \A n \in DOMAIN inbox[s] : inbox[s][n].changes <= MAX_CHANGES
=============================================================================
