# l2tpns in TLA+

l2tpns is an L2TP network server. It terminates PPP sessions that arrive in L2TP
tunnels or over PPPoE, authenticates them against RADIUS, gives them addresses and forwards
their traffic; it can also hand calls on to another LNS. Several machines form a cluster: one
master handles everything that changes state, the slaves forward traffic with a copy of the
master's tables and one of them takes over when the master ends. This directory models that
program as TLA+ modules, checks them with TLC and proves theorems about them with TLAPS.

All paths are relative to the root of the repository; line numbers are those of this
commit. `PROJECT.json` gives for every definition the lines it stands for, for every property
a mutation of the model that violates it, and the list of hazards the properties are
aimed at.

## The system

One process per machine, one thread: `mainloop` (l2tpns.c) waits with epoll, handles a
bounded number of packets per socket, and runs a periodic block about ten times a
second. Concurrency is between machines, between the two ends of a tunnel, a session or a
connection, between the handlers of packets and the timers that run in the periodic block, and
between the main process and the child processes that serve command lines in shared memory.

| Component | State | Operations | Interacts with | What is hard | What makes it correct | Module |
|---|---|---|---|---|---|---|
| Mastership (cluster.c) | `cluster_iam_master`, `cluster_master_address`, `cluster_last_hb`, `peers`, basetime, routes up or not | periodic ping, election, conflict of masters, redirect, kill, shutdown | heartbeat sequence; BGP (routes); main loop | timeouts racing late packets, ties, masters that meet, restarts | one master at a time; two that meet leave one; the cluster settles | `Cluster` |
| Heartbeat sequence (cluster.c) | `cluster_seq_number`, ring `past_hearts`, `cluster_table_version` | number, save, ask again, resend, kill | mastership; replication | loss, reordering, wrapping numbers, failover | every heartbeat applied once and in order; a slave in step has the master's tables | `Cluster` |
| Table replication (cluster.c) | `cluster_changes`, the three walks, highest ids, undefined counters, `cluster_iam_uptodate` | queue a change, build a heartbeat, load one, recount | every handler that changes a table | queue limit, what fits a packet, recount that returns early | no change is lost; up to date means complete; a joining slave gets there | `ClusterTables` |
| L2TP control (l2tpns.c) | per tunnel `ns`, `nr`, window, queue `controls`, `retry`, `try`, state | messages that open and close tunnels and sessions, acknowledge, retransmit, give up | sessions, timers | duplicates, reordering, window, give-up racing the answer | messages delivered once and in order; nothing left in the window | `L2tpControl`, `ControlChannel` |
| Sessions, addresses, RADIUS (l2tpns.c, radius.c) | `session[]`, `sessionfree`, `ip_address_pool`, `radius[]` | open, set up, shut down, kill, expire; assign, free, rebuild; request, retry, answer | PPP, replication | several paths end a session, late answers, reuse of every id, failover | ids free or in use; an address has one owner; an answer acts on its own call; all comes back | `Sessions` |
| PPP (ppp.c) | LCP, IPCP, IPV6CP, CCP states, restart timers, authentication | configure, terminate, authenticate, retry | RADIUS, sessions | crossing requests, early and late timers, renegotiation | no service before login; layers agree; the negotiation ends | `Ppp` |
| Multilink PPP (ppp.c, l2tpns.c) | `bundle[]`, `frag[]`, `last_seq` of links | join, leave, cut, insert, put together | sessions, cluster forwarding | loss and overtaking across links, wrapping numbers, links that leave | what comes out is what went in, in order; losses stay bounded | `Multilink` |
| Shaper (tbf.c) | bucket credit, queue, timer ring | new, queue a packet, run, free, throttle | sessions, failover | ring edited while it is walked, reuse of buckets | rate kept; every queued packet leaves | `Tbf` |
| BGP (bgp.c) | per peer state, timers, one output buffer, route lists, update flags | connect, open, update, keepalive, notify, restart, halt | mastership, CLI, main loop | connection ends while opening, routes change while the buffer is full | routes announced are the routes there; the peering comes up and stays | `Bgp` |
| LAC and PPPoE (l2tplac.c, pppoe.c) | `pconfigrlns`, `forwardtosession`, PPPoE sessions, tunnels to other LNSs | discovery, hand on, open towards an LNS, forward frames, end | sessions, RADIUS, L2TP control | two sessions tied together, each with several ways to end | both ends end; frames stay in their call | `Access` |
| CLI, DAE, filters (cli.c, radius.c, l2tpns.c) | `cli_session_actions`, `ip_filters` | drop, snoop, throttle, filter, access-list; Disconnect, CoA | sessions | processes without locks, entries used again | a command reaches the call it named; filters are counted | `Admin` |
| DHCPv6, ICMPv6 (dhcp6.c, icmp.c) | few session fields | answer requests | sessions | none to speak of | - | - |

Not the program's own logic: md5.c, arp.c, ll.c, sockets and configuration reading, the load
generator in lnsbench/ and the programs in test/.

How the modules fit together. The session table is looked at from several sides, each
with what it needs of the table: `Sessions` (ids, addresses, RADIUS, failover), `Ppp` (one session, in full),
`Multilink` (bundles of sessions), `Access` (pairs of sessions), `Admin` (actions and filters), `Tbf`
(the buckets of sessions). `Access` takes the control connection as `ControlChannel` promises it, which
`L2tpControl` is checked and proved to implement. `ClusterTables` takes the heartbeats to arrive once and in order, which
`Cluster` checks (`InStepSameTables`). A failover is in `Cluster`, `Sessions`, `Tbf` and `Multilink`.

Handlers that call each other are written as the code is: an operator takes the tables (a record) and
returns them, and an action applies such an operator to the variable. Definitions whose name has an underscore, such as
`FreeAddress_Keeps`, are mutated forms of the definition after them (see Mutants).

## The modules

### `ClusterTables`: replication during the tenure of one master

| Variable | Code |
|---|---|
| `table`, `high` | the master's `session[]`, `bundle[]`, `tunnel[]` and `cluster_highest_*id` |
| `queue` | `cluster_changes[0..cluster_num_changes-1]` |
| `walk` | `walk_session_number`, `walk_bundle_number`, `walk_tunnel_number` |
| `inbox` | heartbeats sent and not yet applied, per slave |
| `replica`, `undef`, `uptodate` | a slave's tables, `cluster_undefined_*`, `cluster_iam_uptodate` |
| `silent` | ghost: entries changed without `type_changed` and not yet sent |

`Change` is any handler that writes an entry and calls `cluster_send_session`, `_bundle` or
`_tunnel`; it includes the flush when the queue is overfull. `Touch` is a handler that
writes an entry and does not (an ICRQ opens its session so). `SendHeartbeat` is the periodic
`cluster_heartbeat`; what the packet holds is computed from sizes with the code's own reserve,
rounding and order (queue, sessions, tunnels, bundles). `Apply` is
`cluster_process_heartbeat` with `cluster_check_sessions`, `cluster_recv_*` and
`cluster_uptodate`. `Restart` replaces a slave by a new process.

Contents are values of `Data`; the numbers of heartbeats, losses and resends are not here but
in `Cluster`, whose `InStepSameTables` is what allows an inbox per slave.

### `Cluster`: mastership and the heartbeat sequence

One record per machine (`Fresh` names the code's variable for each field) and one queue of
packets per ordered pair of machines. `Wake` is one run of the periodic block: `cluster_send_ping`,
`cluster_check_master` (probe, election, becoming master), `cluster_heartbeat`,
`cluster_check_slaves`, in the order of l2tpns.c:4539-4556. `RecvPing`, `MasterRecvBeat`,
`SlaveRecvBeat`, `RecvLastSeen`, `RecvRedirect`, `RecvKill` are the cases of
`processcluster`. `RequestQuit` and `Shutdown` are the signal and the end of the main loop;
`Crash`, `Start` and `Lose` are faults.

Time is counted in rounds of one heartbeat interval. The timers are in rounds too: with the
default interval of 5 and timeout of 150 tenths of a second the timeout is 30 rounds; the model
takes 2 or 3 (3 where `SingleMaster` is checked), which is enough to tell a late heartbeat from a missing one. A packet arrives in
its round or not at all. Between two machines order is kept, and packets are lost only as
counted faults; with `Wild` any packet may be lost or overtaken. Order matters: if the
shutdown ping of a master could overtake its last heartbeat, a slave could elect itself while
another follows the dead master for one more timeout, and `SingleMaster` would not hold. On one
switched network, where the code sends both with multicast from one socket, the order is kept.

The contents of a heartbeat are the names of the changes it carries (`new`); `all` is what the slow
walk brings to a slave that joins, taken as having arrived with its first heartbeat.
`cluster_iam_uptodate` becomes true with any heartbeat (`done` in `SlaveRecvBeat`).

### `L2tpControl` and `ControlChannel`: the control connection of one tunnel

`ControlChannel` is what the connection promises: two ends write messages to each other and each
handles those of the other in order and once. `L2tpControl` is how l2tpns does it, and
`InOrderOnce` states that it implements the promise (`written` is `ns`, `handled` the ghost `got`).

| Variable | Code |
|---|---|
| `tun[e]` | `tunnel[t].ns`, `nr`, `controlc`, `try`, `retry`; `open` until `tunnelkill` |
| `net[e]` | UDP packets on their way to an end |
| `sent`, `got`, `lost` | ghosts: messages sent at least once, messages handled, packets lost |

The queue `controls` is not stored: it always holds the `controlc` messages before `ns`. Numbers are
unbounded in the model and every comparison the code makes is made on residues modulo `SEQ`
(2^16 in the code), with its own tests: equality for `ns`, the top bit of the difference for `nr`.

`Receive` is `processudp` from the sequence check on, one action for each way a message
ends: out of sequence (`Unexpected`), an empty message (`Zlb`), and a handler that answers with a message
(`Answer`: `controladd`), acknowledges (`Acknowledge`: `controlnull`) or says nothing (`Ignore`). In all but
the first the release of what is acknowledged, the advance of `nr` and the sending of messages that come
into the window (`Advanced`, `AdvanceSends`) happen before the handler, as in the code. `Talk` is
`controladd` by a timer, the CLI or a session that ends; `Retransmit` the timer in `regular_cleanups` with
`tunnelkill` after five tries.

Two networks. A wild one keeps every packet and delivers it any number of times in any order, or never; timers
expire at any time. A packet is not delivered when it is as old as half the number space (`Fresh`): 32768
messages of one tunnel; TCP's sequence numbers are trusted on the same ground. A timely one has the code's back-off in
seconds (1, 2, 4, ... 32), loses at most `MaxLoss` packets and delivers the others before time goes on.
An end in `Foreign` runs another implementation, modelled from what RFC 2661 asks of it: it looks at the
acknowledgement of any packet and acknowledges duplicates even when it has messages queued.

### `Sessions`: the session table, its addresses and its RADIUS requests

| Field of `m` | Code |
|---|---|
| `sess`, `free` | `session[]` (opened, die, next, phase, ip, static or from the pool, accounting started) and `sessionfree` |
| `pool` | `ip_address_pool[]`: the session an address is assigned to; an address of the pool is named by its index there |
| `noauth` | sessions whose `sess_local[].lcp_authtype` is 0 although they are not up: those taken over |
| `rad`, `local` | `radius[]` (state, session) and `sess_local[].radius` |

`asked` holds the access requests the server has seen: it can answer each of them at any later time, any number of
times. Ghosts: the call an entry is for, the call a grant was meant for, the accounting records sent.

`Icrq` opens a session (also under a peer's number that is in use, which kills the old one), `LcpUp` and `LcpRestart` move its
phase, `Login` asks RADIUS, `Accept`, `Reject`, `Acknowledged` are answers, `GiveUp` is `radiusretry` once the tries are used up (the retransmission of a request
changes nothing that is kept), `IpcpOpen` starts accounting, `Interim` is the periodic record, `Close` and `Expire` are the ways `sessionshutdown` and
`sessionkill` are called, `TunnelShutdown` and `TunnelKill` do so for all. `SessionSetup` contains the zapping of
older sessions of the same user or address and `Assign` the address from RADIUS or from the pool. `FailOver` is `cluster_check_master` of a slave
that has each entry as it was when it was last sent (`m.copy`) or as the slow walk brought it since: it strings a new list, rebuilds the pool, and has no RADIUS slots and no authentication protocol (`sess_local[]` is not replicated).

`RebuildAddressPool` is `rebuild_address_pool` with its arithmetic. It marks an address of the pool in the address map with minus its index and takes
minus of what it finds there for the index; but the map holds a `sessionidt`, which has no sign (`Stored`), so what it finds is 2^16 less the index and minus
that is never positive. All addresses in use come out as not in the pool: they stay unassigned, and their sessions have static addresses from then on. It runs
when a slave becomes master and for the command `ip-pool` (`AddIpPool`), at any moment in the model. An address in use can then be given to a
newcomer, whose `sessionsetup` ends the session that had it; `NoSharedAddress` checks that it always does.

Any free address may be chosen (the code prefers the user's last), and the lowest free slot is taken: an id is used again as soon as can be.

### `Ppp`: one session's negotiation

`l` is this end (`session[].ppp`, `sess_local[]` counters and `lcp_authtype`), `p` the peer: an implementation of RFC 1661 that
crosses requests with ours, may ask for what cannot be accepted first (`Picky`), restarts or closes a layer. `Receive` is `processlcp`,
`processipcp`, `processipv6cp`, `processccp`, `processpap` and `processchap`; `Timeout` the restart timers of
`regular_cleanups`; `RadiusAnswers` what `processrad` does to the phase; the packets carry
whether they belong to the last request (`last`), since l2tpns does not compare the identifiers of answers and the peer does.

Two channels that keep order, `MaxLoss` packets lost and `MaxEarly` timers that run out while an answer is on its way.

### `Multilink`: bundles, cutting and putting together

`Login`, `End`, `SessionTimeout` and `Cleanup` make and unmake bundles (`join_bundle`, `sessionshutdown`, the time limit of a bundle, the expiry of an entry);
`Send` is `processipout` for a bundle; `Receive` is `processmpin`: expansion of the number to 32 bits, M, insertion (`Insert`, with the
neighbours it cleans), the jump of M past the buffer (`Caught`), finding and delivering whole packets (`Find`, `Consumed`). Fragments may be lost, repeated,
overtaken; `FailOver` gives the buffer to a master that knows none of it and has no address in its map (see `Sessions`). `n` in a fragment is a ghost, the number it was cut with, so
that what is delivered can be compared with what was sent.

### `Tbf`: the shaper

`b` is `filter_list`, `chain` `timer_chain`, `walk` the two locals of `tbf_run_timer`, `s` what a session keeps of it. `Packet` is
`tbf_queue_packet`; `RunTimer` and `TimerStep` are `tbf_run_timer`, one filter a step, so that the loop's own reads and its end are the
code's; `Setup`, `Throttle`, `Reset`, `Shutdown`, `Kill` are the callers of `throttle_session` and of `free_tbf`; `FailOver` and `Restore` are the new master's throttling
of every session. The ghost `allow` is what an exact bucket (no rounding, no cap on elapsed time) would let through, times the ticks of a second.

### `Bgp`: the speaker and its router

`l` is `struct bgp_peer`, `table` the two lists of routes. `Loop` is one pass of the main loop (`bgp_process_peers_timers` and `bgp_process`); the socket takes all of a message, some of it or none (`room`). `SetRoute`,
`EnableRouting`, `Cli` and `Stop` are what else changes the peer; `p` is an RFC 4271 router that refuses, cuts or ends connections. It is of one of five kinds: with IPv6 (`mp`), without (`plain`), one that
refuses the capability (`nocap`) or any optional parameter (`old`), and one whose OPEN is refused, for its AS, version or hold time (`foreign`). A message the socket took in part (`half`) is
never finished: what is written next is taken from beyond the buffer, whole packets further for each byte written (bgp.c:1031), and even all that is left would be shorter than the
message (bgp.c:1050). So it is followed by something else, the router ends the connection, and the peer starts over. `Tick` is a second.

### `Access`: access concentrator

`m` holds the two entries of a call in `sess`, tunnels in `tun`, `pconfigrlns` in `conf`, RADIUS slots; `lns` and `down` are a remote LNS and what is on its way from it. `PADR` and `PADT` are discovery,
`PAP` the login (`lac_conf_forward` for masked users, else RADIUS), `Accept` contains `lac_rad_save_attr` and `lac_rad_forward`, `Receive` the messages of the LNS (SCCRP, ICRP, CDN, StopCCN),
`Cleanup`, `Expire` and `CleanTunnel` the timers. `PppoeTarget` and `LacTarget` say where the code would send a frame; they are looked at in every state and need no step.

### `Admin`: commands, requests and filters

`t` is what is in shared memory: sessions, requested actions, access lists; `cli[p]` is where a child is (what it has read), `main` what the cleaner has read. `Begin` reads the session table, `SetSnoop`, `SetFilter`, `Load` and `Store` are the single accesses of a
command, `AccessList` and `WriteList` of the access-list commands; `ReadActions` and `DoActions` the two steps of the cleaner; `ProcessDae` a Disconnect or CoA request. The session that `ReadActions` looks at may have been
ended in the same pass by the time limit of its bundle. One word is read or written at once; the two words of a snoop's destination are too, and a child's search for
its session is one step.

## Runs

| Run | Question | Bounds |
|---|---|---|
| `tables` | Can a slave's counters drift from its tables, a slave be up to date with something undefined, or a queued change be lost? Does a slave that stays up become up to date, and does the walk reach every entry? | 1 slave, 2 sessions, 1 bundle, 1 tunnel, queue of 1, one heartbeat under way, a packet that a full queue leaves room for one session of two; fairness |
| `mastership` | Can there be two masters on a network that keeps order, and do the machines settle on one? | 3 machines equally old, 1 fault of any kind, timeout 3 rounds; fairness |
| `network` | Is a slave in step with its master complete, and do two masters that meet leave one? | 2 machines of any two ages, a network that keeps order and one that loses and reorders anything, 2 faults, numbers modulo 6, ring of 2, 1 change |
| `control` | Are messages handled in order and once, is what has been sent what the window holds, is anything freed too early, can the timer stop while something waits? | windows of 2, numbers modulo 4, 5 messages per end, unlimited loss, repetition and reordering, one try before giving up |
| `control_timely` | Is everything handled and acknowledged and does nobody give up? | window of 1, l2tpns towards another implementation, both talking, 3 messages per end, 5 tries, 1 packet lost |
| `sessions` | Do the free list, the entries, the addresses and the RADIUS slots fit together, does an answer act only on its own call, and does everything come back? | 2 sessions, 1 slot, 1 address in the pool and 1 outside, 3 calls, 1 failover, any number of rebuilt pools; late and repeated answers without limit; fairness |
| `ppp` | Is anybody served without a login, can layers disagree, does the negotiation end? | 3 network protocols, CHAP preferred and PAP allowed, a peer whose first LCP and IPCP requests are refused, 2 tries a layer, 2 challenges, 1 packet lost, 1 early timer; fairness |
| `bgp` | Is everything written down that the router was told, does a hold timer run out, does the peering come up or end, are the routes there in the end? | 2 IPv4 and 1 IPv6 routes, five kinds of router, hold times 9 and 3, 2 faults, 2 changes, 1 slow second or socket that is full or takes a part, 1 retry before giving up; fairness |
| `tbf` | Is the rate kept, is the ring the filters that wait, does everything drain? | 2 sessions, 2 usable filters of queues of 2, packets of 3 and 7 bytes against a burst of 6 (one fits, one never does), TIME modulo 4 in jumps of 1 or 2 of 2 ticks a second, 3 packets, 2 operations, a failover; fairness |
| `access` | Do the entries of a call name each other, do frames stay in their call, do all ends end? | 2 clients (one handed on by configuration, one by RADIUS), 2 tunnels, 3 session ids (a call takes 2, so the table runs full), 2 slots, 2 remote LNSs, 2 calls, 1 break from outside; fairness |
| `multilink` | Is what is put together what was cut, in order, how much does a loss cost, does a bundle end with its links? | 2 links, 1 bundle, buffer of 8, 25 fragments, numbers modulo 32 on the wire, 1 fault, links that join, leave and join again (3 logins) |
| `admin` | Does a command reach another call than it named, can a count go wrong, can a drop get lost? | 2 command lines (interchangeable: symmetry), 2 sessions, 1 tunnel, 1 access list, 3 logins, 2 commands or requests |

Why these bounds are enough for the question.

- `control`: the numbers wrap once, and the window is half of the number space, the largest for which the code's
  comparison works (the code's windows, 4 or what the peer names, are far below 32768). One
  try already lets any packet be sent twice at any later time. In `control_timely` the number of
  tries is the code's, since the property is that five are enough.
- `tables`: slaves do not act on each other within one tenure, so one slave and interleavings with the master show what
  several would.
- `mastership`, `network`: the ring and the modulus are small so that the numbers wrap and slots are
  overwritten many times in a run. Three machines are needed for a third that gives way to a second; two are
  enough for conflicts. `Lapped` keeps the losses from going on until the numbers
  have come round to a slave that got nothing at all: with the code's `HB_MAX_SEQ` of 2^30 this takes decades
  without a packet, in the model six rounds. `InStepSameTables` with three machines is another matter, see Known disagreements.
- `sessions`: with three calls on two ids every id and the slot are used again while answers to the earlier use are under
  way; one address is fought over by a user whom RADIUS gives it and one who gets it from the pool.
- `ppp`: every layer can be refused, lost, late and given up; the numbers of tries only repeat this.
- `bgp`: one route more than an update carries (one addition each), a hold time that must be adapted, and retries that run out. `Settles` and `AllTold` say nothing of a `foreign` router: its OPEN is
  refused and it is connected to again at once, without a count or a pause (`bgp_send_notification`), for ever.
- `tbf`: two filters are the smallest ring the timer can lose its start from; the word is small so that TIME wraps within a run.
- `access`: breaks are anything that ends a call or a tunnel from outside (the clients, the LNS, the administrator, a timeout); the second call uses the ids of the first again.
- `multilink`: the buffer must be larger than the distance by which one link can be ahead of the other (`MaxAhead`), 25 fragments
  go round it three times, and the number a link joins at is bounded (`LowSeq`): a bundle that has sent 2^23 fragments is a known limit, see below.
- `admin`: a command takes up to four steps, and three logins use an entry again between any of them.

Deadlock is not checked where the system comes to rest when a bound is used up: `control`, `sessions`, `ppp`, `bgp`, `tbf`, `access`, `multilink`, `admin`.

## Fairness

- `ClusterTables`: weak fairness of `SendHeartbeat` (the main loop sends one every interval)
  and of `Apply` for each slave (what is missed is asked for and sent again until it arrives, or the
  slave is killed and restarts). None of the handlers is fair. A slave is killed when it lags
  `HB_HISTORY_SIZE`; the master here waits instead, and `JoinCompletes` is about slaves that are not
  restarted for ever.
- `Cluster`: weak fairness of the steps of the system together (`Step`), not of faults: each
  packet in a round arrives or is lost by a fault, each machine wakes, and the next
  round begins. The loop of `mainloop` never blocks for longer than its epoll timeout, which
  justifies it. `Shutdown` is fair for each machine because `still_busy` ends: a slave waits `QUIT_DELAY` for BGP, a
  master until its control messages are acknowledged or given up and then `BUSY_WAIT_TIME` for RADIUS.
- `L2tpControl`: weak fairness of `Receive` and `Retransmit` for each end (the main loop reads its sockets and
  runs `regular_cleanups`) and of `Tick`. Nothing that sends a new message is fair. The safety
  run and the proofs use no fairness.
- `Sessions`: weak fairness of `Expire` for each session and of `GiveUp` for each slot: `regular_cleanups` comes round to every one of them.
  The RADIUS server need not answer.
- `Ppp`: weak fairness of handling packets and of RADIUS (if it does not answer, its slot gives up, which is in `Sessions`); strong fairness of the
  timers: a timer cannot run out while packets are under way, except the `MaxEarly` times, so it is enabled again and again, and the clock passes.
- `Bgp`: time passes (`TimePasses`): a second ends only when the main loop has come round and what was sent has arrived.
- `Tbf`: weak fairness of `Loop`, the main loop's part.
- `Access`: weak fairness of the timers, of what the LNS has sent, of RADIUS, and of a client's PAP request, which it repeats until it is answered.
- `Multilink` and `Admin` have no liveness property and no fairness.

## Mutants

Each property of each run has in `PROJECT.json` a mutation of a mapped definition that TLC finds to violate it. Where a property is a conjunction of
named parts (`SessionTables`, `Queues`, ...), further mutants in the modules break the other parts:

| Module | Mutant | Violates |
|---|---|---|
| `Sessions` | `SlotFor_Past` | `TypeOK`: a slot behind the table when all are taken |
| `Sessions` | `SessionKill_Twice` | `FreeList`: a free entry is killed again and is on the list twice |
| `Sessions` | `RadiusClear_SlotOnly`, `SessionKill_KeepsSlot` | `SlotsPaired`: session and slot no longer know each other |
| `Sessions` | `ZapOld_Users` | `NoSharedAddress`: an older session with the address stays |
| `Sessions` | `Opened_KeepsNext` | `PoolAgrees`, `DyingEnds`: a new call starts with what the last one left in the entry |
| `Ppp` | `SendChap_TooMany` | `TypeOK`: a challenge more than allowed |
| `Ppp` | `LcpRestart_LinkOnly` | `NcpNeedsNetwork`: network protocols stay open over an LCP that starts again |
| `Bgp` | `SetRetry_Always` | `TypeOK`: a peer that is never given up |
| `Bgp` | `Negotiated_OwnInterval` | `HoldKept`: the router's hold timer runs out |
| `Bgp` | `SendUpdate_Complete` | `AllTold`: routes after the first are never announced |
| `Tbf` | `FreeTbf_OnChain` | `Ring`: a filter that is free is still on the ring |
| `Tbf` | `TimerStep_Late` | `NoneMissed`: the timer takes its next filter from one that has left the ring |
| `Access` | `TunnelKill_KeepsSessions`, `NewCall_OneWay` | `LinksPaired`: an entry names one that does not name it |
| `Access` | `SessionKill_KeepsSlot` | `SlotsAgree`: an answer for a session that is gone |
| `Access` | `RadForward_OpenOnly` | `LoginEnds`: a call waits for a tunnel nobody tells it of |
| `Multilink` | `Leave_Last`, `Leave_Hole` | `MembersAreLive`, `TypeOK`: the wrong link leaves, or a hole stays |
| `Multilink` | `OnMembers_Up` | `TimeoutEndsAll`: links are skipped when the list is edited while it is walked upwards |
| `Admin` | `SessionShutdown_Uncounted` | `FiltersCounted`: a session that ends is still counted |

## Proofs

`ClusterTables_proofs` proves, for every set of slaves, every table, queue, packet and ring size, assuming
only what `ClusterTables` assumes of its constants (sentinels differ, sizes are positive):

- `TypeCorrect`, `CountersExact`, `UptodateIsDefined`: the inductive invariant is
  `CountersInv == TypeOK /\ UndefExact /\ UptodateZero`. `UptodateDefined` alone is not inductive: a slave is
  up to date because a counter says so, so the counters must be exact, and when it is up to date the
  counters are no longer decremented, so they must be zero. The lemmas say what a heartbeat does to a
  counter: the entries cleared and the entries defined are subtracted once each.
- `ChangesReachSlaves`: the inductive invariant is `ReplicationInv`. `NoLostChange` follows each
  entry through the queue, the heartbeats on their way and the replica. It needs that clearing above the highest ids
  destroys nothing (`ClearedUnused`), which needs that an entry in use is covered by the highest ids
  (`HighCovers`).

`L2tpControl_proofs` proves, for every even size of the number space, windows of up to half of it, any number of
messages, tries and losses, either network and any choice of foreign ends:

- `TypeCorrect`, `SentIsWindow` (`WindowFull`), `ReleasesWhatIsHandled` (`ReleasedIsHandled`) and `TimerAlwaysRuns`
  (`TimerRuns`), from the inductive
  invariant `Inv`. Its heart is `PacketsSound`, `HandledWasSent`: a packet under way carries a message its end has
  sent and an acknowledgement its end has reached, and an end has handled no more than the other has had in its
  window. Together with the size of the window and `Fresh` this puts every number that is compared within half
  of the number space of what it is compared with, so that residues decide as numbers would (`ReleasedIs`, `InTurn`).
- `ImplementsChannel`: `Spec => InOrderOnce`, the refinement of `ControlChannel`, from the same invariant.

Each part of a step (acknowledgement, `controladd`, `controlnull`) has a lemma that says what it sends
in relation to the window (`Leads`); an action is a sequence of such parts, and `EffectKeeps` shows once that
such a sequence keeps the invariant.

`Tbf_proofs` proves, for any set of sessions, number of filters, rates, packet sizes, burst, ticks and width of TIME, assuming
`NumbersAreNats` and `SessionsAreNumbers`:

- `TypeCorrect` (`TypeOK`): everything that names a filter names one of the table, and no queue holds more than `TBF_MAX_QUEUE`.
- `RateKept` (`Conforms`): a filter lets no more through than its burst and its rate allow.
- `QueuesKept` (`Queues`): the timer chain is one ring of exactly the filters in which packets wait, a session's filters are its own, and
  the timer misses none.

The first two come from one inductive invariant, `IInv`. Its heart is `Covered`: either the exact bucket is full or what the code's filter holds, together
with what it will be credited for the time since, is no more than what the exact one holds. `Conforms` alone says nothing of the
credit still to come. Rounding down and the width of the product only take credit away (`CreditedOk`); a packet takes the same from both
(`SpentOk`); one lemma for each operation then shows that it keeps every filter so (`RunQueueOk`, `QueuePacketOk`, `NewTbfOk`, `FreeTbfOk`), and
`StepOk` puts them together, an action at a time.

`QueuesKept` needs `QInv` beside it. `Linked` says what a ring is without counting along it: `next` and `prev` are inverses on what is on the chain, and the only
part of it that holds the head and is closed under `next` is the whole. `LinkOff` and `LinkOn` show on bare links that taking one off and putting one at the
end keep this; the rest of `tbf.c` only uses these two. `Owned` leaves out the sessions a new master has yet to throttle, whose ids are the old master's, and the
direction `throttle_session` is at. `Ahead` is what makes the walk of `tbf_run_timer` inductive: every part of the chain that
holds the next filter to run and is closed under `next`, but for the last, holds all filters not yet run at this TIME. It stays so when the filter just run leaves the chain,
because its successor was read before; `AloneIs` is the case in which it was the only one. TLC checked `QInv` on the instance of `MCTbf` before it was proved.

`Ppp_proofs` proves, for any set of network protocols, any preference and choice of authentication, every peer of the model and any number of
tries, challenges, losses and early timers:

- `TypeCorrect` (`TypeOK`), `LoginFirst` (`ServiceNeedsLogin`), `NcpsFollowLcp` (`NcpNeedsNetwork`) and both together, `PhasesKept`
  (`PhasesInOrder`).
- `EndsAgree` (`LayersAgree`): once nothing is under way and no timer runs, LCP and IPCP are open at both ends or at neither.

A handler is an operator from this end's state and output to the same, so the invariant is a property of such a pair, `Sound`: it is of its type,
`Granted` and `Stacked`, and each handler has a lemma that it keeps it. `ServiceNeedsLogin` alone is not inductive: a session whose
LCP opened without an authentication protocol would go on to the Network phase without one being asked, so `Granted` adds that as long as there is no
address there is a protocol to log in with, whatever the peer naks (`LcpNak`). `Stacked` needs that LCP going down takes the layers above with it in the
same step. What comes from the peer is restricted to what a peer sends (`FromPeer`), which each of the peer's steps keeps.

`LayersAgree` speaks of quiet states only, so what leads to them has to be said of every state: that is `Agreed`, which `EndsAgree` adds to `IInv`. Until
the session has ended or the peer has closed a layer, no Terminate-Request is on its way here and the ends are `Joined`:

- `Linked`, `Peered`: LCP is being negotiated or open at both ends, the phase here and whether the peer is up follow from it;
- `Ungranted`: as long as there is no address, the peer has not been told it may go on, and no packet that would tell it so is under way;
- `Agreement`: how the peer authenticates itself converges. No acknowledgement is followed by a refusal, and no request in a way it can by one in a way it cannot,
  so once a request has been acknowledged nothing under way takes the choice back;
- `NoAnswer`, `Done`: while the peer is not up, either its last LCP request is still unanswered, and nothing of IPCP follows it here, or no IPCP packet
  is on its way here and IPCP here is at most waiting for an answer.

What is under way is only described by what a channel does not hold (`Absent`) and what does not come after what in it (`NoneAfter`): a loss keeps both, and so does
a repeated request that makes the answers to older ones stale, for all sets of packets that are `Steady`. A handler at this end is one of the moves
of `Moved`, one at the peer one of `PeerMoved`. `LinkStep` and `PeerSideStep` show that of every step, `LinkAgrees`, `PeerAgrees` that every move keeps
the ends `Joined`, whatever handler made it.

`Sessions_proofs` proves, for any number of sessions, slots and calls, any pool and any addresses RADIUS names, assuming `SizesArePositive` and
`AddressesAreNats`:

- `TablesAgree` (`SessionTables`: types, free list, addresses, pool) and `SlotsServeTheirCall` (`RadiusSlots`).

The invariant is `Fits(m, {}) /\ Asked`. `Fits(t, X)` says that the tables t fit together but for what a handler still has to do about the
sessions in X (send the entry to the slave, take an address from whoever else has it), so that handlers that call handlers can be taken one at a time: `ShutdownOk`,
`KillOk`, `RadiusNewOk`, `SetupOk`, ... say that from tables that fit each makes tables that fit. What it adds to the checked properties is what makes them inductive:

- an open entry's `next` is 0, an address from outside the pool is marked static (`EntryOk`), and a pool entry points to an open session (`Held`), so that giving an
  address back frees the right one;
- no session has an address before its request is answered (`Waits`), so that an accept that brings one never overwrites one;
- a slot's authenticator is that of its session's call (`Serves`): this is why comparing the authenticator is enough;
- what the slave has of an entry is one that could be in use, and if it is in use, so is the entry and has the same address (`Copied`): this is what makes the tables
  after a failover fit, whichever entries the walk had passed.

`NotFound` shows that `IpId` is below 1 for every address, `RebuildIs` what is left of `rebuild_address_pool` then: nothing is assigned and every address counts as static.

The free list is a sequence of all the free ids (`Listed`), which shutting down keeps (`ListSame`), killing puts one before (`Pushed`) and a call takes the first from (`Popped`).
After a failover the head is the old master's and only `OnList` is left: the ids on the list are free, and nothing on it points to its head. `Chain`, which follows
the list from its head, is a recursive function: `LoopDefined` shows that such a function exists, `Induct` what it computes, by well-founded
induction on the number of steps, as for the loops over all sessions (`AllShutdown`, `AllKill`, `ZapOldOk`).

`Admin_proofs` proves, for any number of sessions, users, access lists, child processes, logins and commands, assuming `AdminBounds` and
`NoNameIsNone`:

- `TypeCorrect` (`TypeOK`, a part of `Counts`), `NamedOnly` (`OnlyNamed`), `Counting` (`Counts`) and, as a property of every step, `Drops` (`DropsObeyed`).

The invariant is `Good(t, late) /\ Others`. `Good` is of the shared tables alone: an entry has a call's id exactly while it is in use (`Identified`), what waits in
an entry or intercepts a session is for that id or was stored late (`Named`), and the lists count (`Counted`). `OnlyNamed` alone is not inductive: it looks
at entries in use only, and a word left in a free entry would be the next call's, so `Named` asks it of all entries, where a free one has id 0 and
nothing is ever asked for id 0. `Others` says what a child holds between its reads and its writes (`CommandOk`: an id that is not 0, a word that names nobody with id 0),
which is all that is needed of it: whatever another process has done meanwhile, `Store` writes for the id, or it is noted in `late`.
The handlers are operators on the tables, and each has a lemma that it keeps `Good`. What else a handler does is one of three relations: `Ends` (calls end, none begins),
`Like` (calls stay as they are), `Leaves` (what the cleaner does to one entry); `Obeyed` follows from them. Shutting down or killing all sessions of a tunnel
is a loop (`ForSessions`), which keeps what its body keeps.

`Loops` has the lemmas on recursive functions that `Sessions_proofs`, `Admin_proofs` and `Cluster_proofs` share: `LoopDefined` (a function defined by recursion on 0 .. n exists),
`Induct` (what holds at 0 and is handed on holds up to n) and `Lowest` (a set of naturals that is not empty has a smallest member). All three are derived from the
library's theorems on well-founded sets of numbers without an operator parameter.

`Cluster_proofs` proves, for any set of machines, ranks of their starts, sizes of the ring and of the heartbeat numbers and bounds on faults and changes:

- `TypeCorrect` (`TypeOK`), for every kind of fault and either network. The invariant is `Typed`, which adds that a master has a number for its next heartbeat.
  What a C_LASTSEEN is answered with is a recursive function of how far the ring is walked; `CatchupIs` shows by induction on it that only heartbeats and C_KILL are sent.
- `OneMaster` (`SingleMaster`), for any number of crashes and shutdowns, where packets arrive in time and in order (`Wild = {FALSE}`), no packet is lost and no
  process restarts (`Faults \subseteq {"crash", "quit"}`), and the timeout is two intervals or more.

Each hypothesis of `OneMaster` is needed. With a timeout of one interval a machine that wakes early no longer hears a master that wakes late; TLC finds two
masters with three machines and one crash. With three losses it finds two masters among two machines with a timeout of three rounds. What a restart does is told under "Known disagreements".

`SingleMaster` is far from inductive: two masters come from what a machine does not know yet when its timer ends. The invariant is `Calm`, of which `Orderly` is
the heart. It speaks of a snapshot `Now`: the processes, who has run its periodic block in this round, and from whom to whom heartbeats,
shutdown pings (basetime 0), pings and C_LASTSEENs are under way. That a snapshot need not know the order of packets is `Straight`: on its
way between two machines no ping that says its sender is there follows a heartbeat of it, and no heartbeat a shutdown ping. `Orderly` is:

- `Timely`: ages fit together. A machine that is not master was last heard by its timer within the timeout, and its timer has not ended after its block has run;
- `Followed`: whom anybody follows, asks or has a heartbeat from is or was a master, and the first heartbeat comes when all have run for the timeout. So nobody sends
  C_MASTER, and nobody is elected before it has heard all the others;
- `Leaving`: a machine whose shutdown ping is under way wants to end and is not master;
- `Heard`: what a machine knows of another that could become master is not older than a round, or that other's ping is under way;
- `One`, by `Under`: while m is master, every other machine has heard m in this round or will before its timer ends, or gives way to m by age or address and will still know m
  then, or follows a machine that will not be heard again and gives way to m before it notices;
- `Mourned`: while somebody still follows, or has a heartbeat under way from, a master that died without a word (`Corpse`), nobody is elected (`Waits`).

The last two need each other: `Mourned` is what makes `One` hold when the next master is elected, for then nobody is left who would follow the dead
one for another timeout. It is also where the order of a master's last heartbeat and its shutdown ping counts (`<<o, k>> \notin zeros`). What a step does to a snapshot is one of eight relations
(`Woken`, `Pinged`, `Left`, `Beaten`, `Ended`, `Quitting`, `Passed`, `Ticked`), each with a lemma that it keeps `Orderly` (`WokenOk`, ...), and each action of `Cluster` is one of
them (`WakeIs`, `ReceiveIs`, `CrashIs`, `ShutdownIs`, `RequestQuitIs`, `TickIs`).

Only model-checked: the liveness properties (outside what TLAPS proves), `NeverGivesUp`, the rest of `Cluster` (`InStepSameTables`, `ReadsStayInRing`, `LowestAddressWins`,
`RoutesFollowSlaves`, `ConflictLeavesMaster`) and everything about `Multilink`, `Bgp` and `Access`. `Multilink` puts packets together with a recursive operator, which TLAPS does not reason about.

## Known disagreements

Statements of the documentation, of comments, or that one would expect to hold, which the code does not keep. Those with a configuration are
stated in the module and TLC finds the violation with `tlc -config <cfg> <MC module>`:

| Configuration | Property | What TLC shows |
|---|---|---|
| `MCClusterTie.cfg` | `LowestAddressWins` | INTERNALS:157 lets the lowest address win a tie; cluster.c:632 lets the highest win. |
| `MCClusterTablesQueue.cfg` | `QueueInArray` | `type_changed` flushes when `cluster_num_changes > MAX_CHANGES`, after it wrote slot `MAX_CHANGES` of an array of `MAX_CHANGES` (cluster.c:1063). |
| `MCClusterFailover.cfg` | `InStepSameTables` | With three machines: the last heartbeat of a dead master is lost to the machine that succeeds it and known to another: that one is a number ahead, asks for a heartbeat that is not the one it needs, skips the new master's first and is in step with other tables, against INTERNALS:117. The slow walk repairs it later. (With two machines, run `network`, the property holds: nobody is left to be ahead.) |
| `MCClusterWrap.cfg` | `ReadsStayInRing` | Two masters meet when the next number is 0, and the reply reads `past_hearts[-1]`; the comment at cluster.c:1860 says no check is needed. |
| `MCClusterRoutes.cfg` | `RoutesFollowSlaves` | A master elected while it counts enough up-to-date slaves withdraws its routes, and if they are gone at its first `cluster_check_slaves` never brings them up: `have_peers` there is still 0 (Docs/startup-config.5.pod:103). |
| `MCL2tpControlCrossing.cfg` | `NeverGivesUp` | Two l2tpns ends (it can be LAC and LNS) send a message at the same time. Neither acknowledges with an empty message, since one is queued "that will carry the ack" (l2tpns.c:2017), and the retransmission that carries it is dropped as out of sequence before its acknowledgement is looked at (l2tpns.c:2719). Both give up after five tries, on a network that loses nothing. |
| `MCSessionsStop.cfg` | `StopFollowsStart` | "a Stop record will be sent when the session is closed" (Docs/startup-config.5.pod:225). `sessionshutdown` sets `die` (l2tpns.c:2171) just before it sends the Stop only if `die` is not set (2174), so it never does. |
| `MCSessionsPool.cfg` | `PoolRebuilt` | INTERNALS:195 says of a slave that becomes master: "The mapping from the ippool into the session table (and vice versa) is re-built." It is not: `- lookup_ipmap()` (l2tpns.c:4965) negates a number that was stored negated in 16 bits without a sign (l2tpns.c:4956), so no address in use is found in the pool and all of it is free. With `Stored_Signed` in place of `Stored` the property holds. |
| `MCSessionsLate.cfg` | `AddressesReturned` | Every assigned address belongs to an open session, one would expect. An Access-Accept for a session that was shut down meanwhile gives it an address (l2tpns.c:5952 does not look at `die`), and `sessionkill` does not take it back: it is lost to the pool until that is rebuilt. `PoolAgrees` exempts such addresses (`m.late`). |
| `MCBgpKnown.cfg` | `KnownRoutes` | bgp.h:242 calls `routes` the routes known by the peer; an OPEN written over a buffered UPDATE (bgp.c:1375) leaves routes noted that were never sent, until the next reset. |
| `MCAccessSlot.cfg` | `AnswerFreesItsSlot` | "finished with RADIUS" (radius.c:1082) frees slot `r`, which a loop over the routes of the answer has advanced (radius.c:1016): another slot is freed. |

Stated but without a configuration: `Multilink!AddressReaches` (the comment at l2tpns.c:2261 wants the first remaining link in the address map, but
`free_ip_address` takes the address out when the link that logged in first ends) and `Multilink!FramesAlwaysWhole` (after M has run past a buffer of
4 with packets of 3 fragments, left-over slots are taken for neighbours, ppp.c:1970-1988).

Met while modelling, and modelled as they are where they touch a property:

- Cluster: a restart together with other faults in one round can make a second master. Four machines, a timeout of two rounds: the master 4 crashes and restarts at once,
  3 is elected, 4 takes 3 for its master, 3 shuts down; 1 asks 4 with a C_LASTSEEN and 4 answers with a C_MASTER that names 3 (cluster.c:1123), so 1 follows a dead machine for one
  timeout more (`cluster_set_master`), while 2, elected on 3's shutdown ping before it pinged in this round, is forgotten by 1 a round too early. `SingleMaster` is checked with one fault of any kind and proved for
  crashes and shutdowns in any number.
- Sessions: an Access-Accept for a session that is being shut down sets it up all the same and takes an address that `sessionkill` does not return;
  after a failover the head of the free list is the old master's, and the sessions taken over in LCP negotiation are not asked to authenticate (ppp.c:392: `lcp_authtype` is not replicated). A
  rebuilt pool forgets the addresses in use, so a newcomer may get one and ends the session that had it. The new master's address map holds 2^16 less the pool index where a session should be
  (so does `free_ip_address`'s, l2tpns.c:4928): packets for the sessions taken over are not theirs until the map is set again, and with an index above 2^16 - MAXSESSION could
  be another session's. The command `ip-pool` runs in a child, which shares the pool but not the map.
- PPP: identifiers of answers are not compared (ppp.c:566-605); a Configure-Nak in Opened leaves LCP open; a lost PAP-Ack is never repeated and a CHAP response to an older
  challenge ends the session; LCP in Closing is left only by the session's shutdown; IPCP in Closing ignores requests; IPV6CP and CCP may be given up here and open at the peer.
- BGP: a message written in part is never finished (bgp.c:1031, 1050); a router whose OPEN is refused is connected to again without count or pause; `update_routes` of a peer in Idle uses up its retries; nothing sets `update_routes6` on Established, on enabling or on suspending, so IPv6 routes there are not announced or
  withdrawn until one changes (`RoutesReach` is about IPv4 for this reason, `PeerKept` about both); `bgp_enable_routing` overrides a suspend from the CLI.
- Shaper: `fsck_tbfs` (tbf.c:127) is never called and would miss the last session; buckets leak when RADIUS answers again with rate 0 (l2tpns.c:6089) or late; a slave may queue
  under an id that has changed hands; a packet larger than the burst blocks the queue (the exception in `Drains`); `tbf_id > filter_list_size` lets one id too many pass (tbf.c:172).
- Access: `processudp` does not check that a session belongs to the tunnel (l2tpns.c:3354), nor PPPoE the client's address (pppoe.c:1047); with a full table the call gets entry 0
  (l2tplac.c:316, pppoe.c:638); a PADT's session number is not byte-swapped (pppoe.c:684), which is what `Swap` is for; an SCCRP without a challenge response opens the tunnel without an SCCCN (l2tpns.c:3237);
  a second configuration with the same LNS address relabels an opening tunnel (l2tplac.c:381); a repeated PADR opens a second session.
- Multilink: a fragment numbered 2^23 or more that meets M = 0 is dropped for ever (ppp.c:1928-1939), which happens when a link joins or a machine takes over late; the number of links is not checked
  against `members[]` (ppp.c:1151); a bundle made for a login that then gets no address stays.
- Commands: `action |= bit` in a child and reading and clearing in the cleaner overwrite each other (`lost`); a command given after the call ended hits the next call in the entry (`late`); filter counts are
  decremented twice when a dying session is shut down again (l2tpns.c:2334), incremented twice by a repeated Filter-Id (radius.c:814), and a list may be deleted between a child's look and its use (`spoilt`; cli.c:2524 and 2550
  call it "racy"); `drop user` finds a dying session first and then does nothing; the snoop address and port may come from two commands.

The exceptions `m.late`, `late`, `lost` and `spoilt` are ghosts that name exactly these causes; the properties hold in their absence whatever else happens. They are what the
properties do not cover: `Counts` says that the ordinary paths keep the counts, not that the three cases above do; `DropsObeyed` that a drop which was read is carried out, not that none is
overwritten; `SessionTables` nothing of the addresses in `m.late`. `InStepSameTables` with two machines says nothing of a third, `NeverGivesUp` nothing of two l2tpns ends.

## Not modelled

- Packet parsing and formatting, attributes, message authentication, logging, sockets, configuration, display commands, the kernel's routing and iptables, third-party code.
- DHCPv6 and ICMPv6: each request is answered from itself and the session.
- The run-length coding of table entries: a loop over bytes whose correctness is about all byte strings. Conversions of old heartbeat versions are field copies.
- `C_FORWARD`, `C_GARDEN` and the byte counters of `C_BYTES`: they carry a packet, or add a number, without a decision.
- Plugins that edit one attribute or one field; garden.c, which calls iptables.
- The called end's duplicate SCCRQ and tunnel authentication; a failover of a tunnel's control queue, which the code leaves undone ("FIXME", cluster.c:771).
- Clear undefined entries above the highest ids after a failover to a master with smaller ones (cluster.c:792): `ClusterTables` keeps one master.
- `Sessions`: walled garden sessions, suicide of duplicate addresses and the other non-default settings; logging in again by PAP, or LCP option 3 that sets `lcp_authtype` again once a session is up.
- `Bgp`: partial reads.
- `Ppp`: LCP echo; protocol rejects (ppp.c:1074); a peer that asks l2tpns to authenticate itself (option 3, ppp.c:664), which sets `lcp_authtype`; the answer that is still sent for a request while
  LCP is Closing (ppp.c:845) or the session is shut down; the Ack of a PAP request when the session has an address (ppp.c:117); CHAP answers without a RADIUS slot (ppp.c:221).
- `Tbf`, `Admin`: sessions without a user name, whose rate and filter are not set (l2tpns.c:2070, 2113); the id that tbf.c:170 lets through although it is not in the table (no entry ever has it: `TypeOK`).
- `Admin`: the rates a throttle command stores, which a second command may reset before they are read (cli.c:1547, l2tpns.c:4004), so that a throttle has no effect; the read past the table for
  a NAS-Port of MAXSESSION (radius.c:1208).
- `Cluster`: the faster heartbeats while a slave is not up to date (l2tpns.c:4552), the reuse of peer entries and their limit. Rate limits of C_LASTSEEN only drop what the network may drop.
- `Multilink`: the command `ip-pool`, see `Sessions`.
