# UnrealIRCd: TLA+ models, model checking and proofs

UnrealIRCd is an IRC server. One process serves its own clients and is linked
with other servers in a tree; every server holds a full copy of the network's
servers, users and channels, and keeps it up to date from messages that its
neighbours relay. A process has one thread: a command handler runs to completion
before the next line is read, so a handler is one action of a model. What can
go wrong lies between the processes (messages that cross, links that fail and
come back, clocks that differ), between a process and what it waits for
(resolvers, services, HTTP transfers, TLS engines, sockets that are full), and
in long sequences of calls (a registration that is held and tried again, a
rehash in between).

## 1. Inventory

| Component | State | Operations | Interacts with | What is hard | What makes it correct |
|---|---|---|---|---|---|
| Server linking (`modules/server.c`, `modules/protoctl.c`, `serv.c`) | `server_list`, `global_server_list`, pending nets, status of each connection | connect, PROTOCTL EAUTH/SERVERS=, SERVER, burst, SID | users and channels (burst), sockets | several servers linking at once, half-closed connections, relink before the old link is noticed | no loop, no route over a closed link, both ends agree when idle |
| Server exit (`modules/quit.c`, `modules/squit.c`) | the same tables | SQUIT, `exit_client_ex`, `recurse_remove_clients` | everything with a client pointer | splits of several levels, late SQUITs | nothing outlives its uplink |
| Users and nicks (`modules/nick.c`, `modules/kill.c`) | nick and UID hash tables | NICK, UID, QUIT, KILL, `nick_collision` | channels, links | UID/NICK crossing, clients in handshake, equal timestamps | one client per nick and UID, everywhere the same one |
| Prefix check and relay (`parse.c`, `send.c`, `hash.c`) | none of its own | `parse2`, `remove_unknown`, `sendto_server` | all commands | messages of ghosts, wrong directions | answers come to an end |
| Channels (`modules/join.c`, `part.c`, `kick.c`, `mode.c`, `channel.c`) | members, statuses, modes, lists, creation time | JOIN, PART, KICK, MODE | SJOIN, users | the last member leaving while someone joins | the same channel everywhere |
| Channel sync (`modules/sjoin.c`) | the same | SJOIN, burst in several lines | links | both sides of a split changed the channel | merge is independent of order |
| Registration (`modules/nick.c` `register_user`, `AllowClient`) | status, `class->clients`, `irccounts` | register, hold, reject, welcome, oper, exit | maxperip, connthrottle, TKL, SASL, CAP | held and tried again, blocked | counters exact |
| maxperip (`modules/maxperip.c`) | bucket per IP, flag per client | bump, compare, decrease, rebuild | registration, rehash | retry, reload | limit respected, counts exact |
| connthrottle (`modules/connthrottle.c`) | buckets per IPv6 range, category per client, rate counters | classify, bump, move, rebuild | reputation, known-users cache | category changes while counted | counts exact |
| Server bans (`modules/tkl.c`, `ircd.c` `match_tkls`) | lists of bans and exceptions with expiry, shun flag per user, `loop.do_bancheck` | add, remove, merge, sync, expire, check of users | registration, links, rehash | expiry by each server's clock, bans set on both sides of a split, two shuns on one user | same bans everywhere, applied to whoever they match |
| Ban database (`modules/tkldb.c`) | file, time of the next save | save, load | server bans | crash between saves, failed save | loss bounded by the save interval |
| Connection handshake (`socket.c`, `dns.c`, `modules/ident_lookup.c`, `cap.c`, `pingpong.c`, `ircd.c`) | flags and requests per client | lookups, CAP, cookie, timeouts | registration | answers after the client has gone or changed its address | nothing refers to what was freed; every connection is decided |
| DNS blacklists, central blocklist (`modules/blacklist.c`, `central-blocklist.c`) | reference-counted query state, HTTP transfers | query, verdict, timeout, recheck | registration, authprompt | late verdicts, verdict against timeout | who is refused stays out |
| SASL, authprompt (`modules/sasl.c`, `authprompt.c`, `svslogin.c`) | agent and progress per client | AUTHENTICATE, AUTH, answers, abort, timeout | registration, links | late answers, services that split | nobody is left waiting |
| Sockets and queues (`socket.c`, `send.c`, `dbuf.c`, `parse.c`, `dispatch.c`) | sendQ, recvQ, fake lag, dead flag, event handlers | read, write, parse, close | everything | sendQ overflow in the middle of a handler, TLS that must read to write | no lost wakeup, no lost or repeated line |
| Flood protection, reputation, history, who-was, WATCH/MONITOR, INVITE | counters, rings, back pointers | per command and by timer | users, channels | timers and exits | no stale pointer, limits kept |
| Configuration, modules | configuration tree, module list, moddata | rehash, load, unload | all | asynchronous includes, state over a reload | tables rebuilt exactly |
| TLS, web server, RPC, other databases, spamfilter patterns, logging | buffers, files | I/O, matching, formatting | registration, links | external services | - |

`PROJECT.json` lists the components with their files and status, and the hazards
with the line where each one bites and the property that would show it.

## 2. Modules

`Network` - servers and users. State: `conn` (status of each end of a connection),
`dead` (the other end closed it), `chan` (one FIFO stream per direction, TCP),
`pending` (PendingNet), `uplink`, `dir` (`client->uplink`, `client->direction`), `users` (the
hash tables, with nick, `lastnick`, registered or not). Actions: `NickFirst`,
`Register`, `NickChange`, `Quit`, `OperKill`, `OperSquit` of clients; `Connect`, `LoseLink`,
`ReadEOF`; one `Recv...` per command. `RecvEAUTH` stands for the lines PROTOCTL EAUTH,
SERVERS= and SID=, which are sent together, and contains `verify_link`'s rule for an
older link with the same server. SID= puts the peer of an incoming connection in the
id hash (`Hashed`), so that a SID (`cmd_sid`) or a prefix that names it is found before
it is a server. `RecvSERVER` contains `server_sync`: greeting,
SID to the others, burst. `RecvBadSource` is the prefix check of `parse2`.

`ChannelSync` - one channel on a tree of servers. State: `conn`, `known`, `chan`, and
`ch[s]`, the channel at `s` (creation time, members, operators, +s/+p, limit, bans).
Actions: `JoinNew`, `JoinExisting`, `Part`, `Kick`, `ChangeMode` of users; `Link`,
`LoseLink`, `ReadEOF`; `RecvSERVER`, `RecvSID`, `RecvSQUIT`, `RecvSJOIN`, `RecvLeave` (PART,
KICK), `RecvMODE`. The handshake of a link is one step here, as `Network` covers it.
A burst is one SJOIN line or two, as `send_channel_modes_sjoin3` splits a line
that is full at any member; the second line carries no modes.

`Admission` - the counters at one server. State: `status`, `known`, `class`, `bumped`,
`category` of each client, and the tables `clients`, `ipusers`, `ct`, `irccounts`.
Actions: `Accept`; the outcomes of `register_user` (`RejectPerIp`, `RejectLater`,
`RejectAfter`, `Hold`, `Block`, `Welcome`), `MakeOper`, `RemoteConnect`, `KnownChange`, `Exit`,
`Rehash`. `Env` says which of two circumstances may occur: `"retry"`, a client that a
spamfilter blocked registers again; `"rehash"`, a REHASH while a client is held.

`Sockets` - the connections of one server. State: `cl` (the client: `sendQ`, `recvQ`,
dead-socket flag, fake lag, and the two callbacks in `fd_table`), `peer` (kernel
buffers, TLS engine, peer), `busy` (whose data is being processed: while it is set
only kernels and peers move besides that processing, as there is one thread).
Actions: `Readable` and `Writable` run the callback that is registered (`read_packet`,
`send_queued_cb`); `RecvMore`, `RecvYield` are the loop of `read_packet`; `ParseSend`,
`ParseQuit`, `ParseKill`, `ParseDead`, `ParseEnd` are one line each of
`parse_client_queued`; `ProcessClients`, `CheckDeadSockets`, `FreeDead`, `EventExit` are
events. A line is the unit of data. Each handler gives a set of possible
results, because a write to a broken connection may or may not fail.

`Stream` - what the rest of the program may expect of a connection: lines are
written in order, each once, until the connection is condemned or closed, and at
most an ERROR comes after that. `Sockets` implements it with
`Abstract == INSTANCE Stream WITH phase <- ..., queue <- sendQ, sent <- out`; the
abstract specification is the property `KeepsPromise`.

`Bans` - the TKL layer on a tree of servers. State: `tkl[s]` (entries by key, that is
by type and mask), `linked`, `wire`, `user` (at most one per server, matched by every
G-line and E-line), `bancheck` (`loop.do_bancheck`), `exempt` (exceptions of the configuration), `db`,
`running`, `due`, `now` with a `Skew` per server. `MatchUser` and `MatchSimple` are the shuns
that apply to the user by `find_shun` and those that `tkl_check_local_remove_shun` sees.
Actions: `SetBan`, `SetException`,
`RemoveBan` of operators, `Recv` (SERVER, TKL +, TKL -), `Connect`, `Break`,
`CheckExpire`, `CheckPings`, `Save`, `Stop`, `Crash`, `Boot`, `Rehash`, `Register`, `Tick`.
`Merge` is the update of an existing entry in `cmd_tkl_add`. `hist` only remembers what
the properties name: that something was removed, expired, lapsed or failed.

`Handshake` - one client from accept to registration, and its PINGs. State: `cl` (the
client structure), `dnsreq` (`DNSReq`s with their back pointer), `blu` and `asked` (the
`BLUser` with its reference count, and the queries the resolver still has), `xfer`
(transfers to the central blocklist), `svc` (services, with a stream each way).
Every caller of `is_handshake_finished` and `register_user` is an action. What
registration counts is in `Admission`; here it is when it happens, and to whom.

How they fit: `Network` gives the links that `ChannelSync` and `Bans` run over (both
use its result that a link is a FIFO stream which is lost as a whole); `Sockets`
justifies that FIFO; `Handshake` decides when the `register_user` of `Admission` is
called; `Bans!Register` is its ban check.

`MC...` modules define the small instances. `NetworkProofs`, on top of it
`PairProofs`; `ChannelProofs`, on top of it `AgreementProofs`; `AdmissionProofs`,
`SocketsProofs`, `BansProofs` and `HandshakeProofs` hold the theorems. Definitions whose comment starts with "Mutant"
are plausible bugs; none is used by a specification. They show that a property
would notice the bug.

## 3. Runs

| Run | Instance | Properties | States |
|---|---|---|---|
| NetPair | 2 servers, 3 users, 2 nicks, 2 timestamps, 2 connections, 4 client actions, fairness | TypeOK, NickUnique, UIDUnique, LinkAgreement, Settles | 241,416 |
| NetLine | line of 3, 2 users, 2 connections, 3 client actions, 1 operator action | NoOrphans, NoGhosts | 598,670 |
| NetRing | 3 servers that may all link, 4 connections, no users | DirectionsUp, InStep, NoLoop | 328,039 |
| ChanRace | line of 3, 2 users at its ends, 3 actions (1 mode, such as a limit of 1), 2 links, nothing waits | TypeOK, MembersKnown, MembersAgree, TsOnlyFalls | 459,001 |
| ChanLine | line of 3, 2 users at its ends, 4 actions (1 kick, 2 modes), 3 links | ChannelAgreement | 603,468 |
| Admit | 4 local clients, 1 remote, 3 IPs, 1 range, 2 classes | TypeOK, ClassCount, IpUsersExact, CtExact, CountsExact, MaxPerIpRespected | 19,539 |
| AdmitHeld | the same, `"retry"` and `"rehash"` | SomeCountHolds: violated | - |
| Socket | a TLS user and a websocket user, lagged or not, sendQ limits of 1 and 0 lines, recvQ limit and kernel buffer of 1 line, 2 lines in, 3 out to each, 1 TLS handshake, 1 broken connection, fairness | TypeOK, Wakeable, KeepsPromise, Progress | 142,220 |
| BanLine | line of 3, one clock ahead, a ban set at both ends, for ever or for a second, 3 connects, 1 failure (link, save, crash or stop) | TypeOK, BansAgree, SavedInTime | 347,760 |
| BanUser | 2 servers, a G-line, 2 shuns on wildcards and one on a CIDR range, an E-line, 3 set, 1 removed, a rehash, a user | Enforced, ShunJustified | 1,506,684 |
| Handshake | 1 client, 1 blacklist, actions of blacklist and blocklist kill, soft, shun, 2 attempts to log in, 1 rare event (proxy, recheck, split of services), time 3, fairness | TypeOK, NoDangling, NoneForgotten, RefusedStaysOut, PingGrace, Decided | 785,045 |
| HandshakeBlock | the same with the action block of the blocklist | RefusedStaysOut: violated | - |

Run one with `tlc -config NetPair.cfg MCNetwork`.

What they show.

* `Network`: on an idle link both ends have the same servers and users, whatever
  collided before; no server ever holds a nick twice, or between two servers a UID; a split takes
  exactly what lies behind the link; simultaneous links never leave a loop; a
  handshake that meets a half-closed connection, a refusal or a relink stays in
  step (`InStep`); the answers to ghosts come to an end.
* `ChannelSync`: a channel changed in all parts of a split network is the same
  everywhere after the merge, over two hops; members agree under races.
* `Admission`: every counter is exact through holds, retries and reloads, apart
  from the three findings.
* `Sockets`: `read_packet` and `send_queued` replace each other's callbacks and TLS
  makes either wait for the other's event; still no connection is left without a
  callback (`Wakeable`), no line is lost, repeated, reordered or sent to a dead
  socket (`KeepsPromise`), and once the peers stop
  sending all queues drain or the connection ends and is freed (`Progress`).
* `Bans`: linked servers with nothing under way hold the same bans for the same
  time; a crash loses at most what changed since the last save was due; a ban that
  starts to match leads to a check of the users, unless it does so because an E-line
  expired; a shun ends with the last entry that causes it and not before, unless
  `match_user` and `match_simple` disagree about an entry.
* `Handshake`: an answer that comes late finds its structure or no client
  (`NoDangling`), whoever completes the handshake last registers the client
  (`NoneForgotten`), a refused client is not let in by a timeout or by another
  answer (`RefusedStaysOut`), a PING leaves its full time (`PingGrace`).

Bounds and why they are enough. Two connections make a split and a relink, the
smallest history with stale information; on a ring four allow all three links
and one again. Three to five client actions are two users taking a nick and
changing it while it crosses, or a channel created, changed on both sides and
left. Two timestamps give older, equal and younger. In `Socket` a kernel buffer of
one line and three lines to send are a partial write followed by an overflow; two
lines in are one that is parsed and one that waits, floods, or is read after the
socket died. In the ban runs a ban of one second and
clocks one second apart make one server expire what another still has, and three
connects are two links and one made again. In `Handshake` every timeout can pass
before or after every answer, and a second attempt can meet the answers to the
first. Counters stop the behaviours of all modules but `Admission`, so their cfgs do
not check deadlock; `Admission` is finite as it is and is checked for deadlock.
Nicks are interchangeable (`NickSymmetry`) in the runs without temporal properties.

Where the guarantees have limits, found while the bounds were chosen and recorded
as hazards:

* `LinkAgreement` needs `MaxOper = 0`: an operator's KILL that crosses a nick
  collision leaves the two ends with different users. It also needs a pair of
  servers or few connections: on a line of 3 with 2 connections it holds (206,828
  states, 3 client actions), with a third TLC finds a KILL of a nick collision that
  crosses a SQUIT and the new link that introduces the same UID again; KILL names a
  UID and not an introduction, so the middle server loses the user and the end
  keeps it.
* `UIDUnique` needs two servers or no operators. On the line a-b-c, without operators,
  it holds with 4 connections and 2 client actions (803,591 states). With 1 operator
  action, 4 connections, 3 client actions and 3 nicks TLC finds that an operator's
  SQUIT of c, sent at a, crosses the split and the relink of b and c: b drops the new
  link on the old SQUIT and does not tell a, which sent it and has since been told of c
  again. The user of c changes nick meanwhile, and on the next relink a
  gets a UID for a user that it still has under the old nick, so it has two clients
  with one UID. SQUIT names a server and not a link, and `cmd_uid` does not look.
* `NoGhosts` needs two servers or two connections: on the line with a third, made while a
  SQUIT is under way, the SQUIT removes the new entry, for the same reason.
* `MembersAgree` is checked without KICK: a KICK that crosses the PART and the
  second JOIN of its victim removes the new membership on one server only.
* `ChannelAgreement` is about merges: `Calm` makes users act, and links fail, only while
  nothing is in flight. A user's
  MODE carries no timestamp, so one that crosses an SJOIN by which the older
  side wins is applied on one side only.
* `BansAgree` needs that no ban was removed: a removal that crosses an update, or
  that happens while a link is down, leaves the ban with one side or brings it
  back. TKL messages have no tombstones. While something has expired, entries of
  one ban may differ in setter and id, not in duration.
* `Enforced` excludes the expiry of an E-line (`hist.lapsed`): `cmd_tkl_del` asks for a
  check of the users when an exception goes, `tkl_expire_entry` does not.
* `Enforced`, for shuns, and `ShunJustified` exclude (`hist.misread`) a user of whom a shun
  went while there was an entry that one of `match_user` and `match_simple` matches with
  it and the other does not: see the observations below. The exclusion ends when the
  check of the users finds a shun, or with the user.
* `NoneForgotten` excludes an attempt that `sasl_timeout` ended or that went with
  services (`hist.orphan`): see the observations below.

Fairness. `Network`: weak fairness of reading a message and of noticing a closed
connection, since the main loop (`ircd.c` `SocketLoop`, `dispatch.c`) polls every socket
without end; nothing about clients, operators, autoconnect or failures.
`Sockets`: the loop serves a descriptor that is ready, goes on with the data it
reads, looks at what fake lag left, and runs `check_deadsockets`, an event of every
second; fake lag ends as time passes; peers read what they
are sent and answer a TLS handshake unless their connection breaks. The ping
timeout is not assumed, so that it covers for no lost wakeup. `Handshake`: time
passes and the `handshake_timeout` event runs; nothing is assumed about resolvers,
services, the blocklist or the client, so the timeout alone decides.

## 4. Findings

1. `modules/nick.c:1126`: a client that a spamfilter blocks stays counted in its
   class; when it completes its handshake again it is counted once more.
2. `modules/maxperip.c:342`: the rebuild meets a client in its handshake on
   `client_list` and on `unknown_list` and counts it twice.
3. `modules/connthrottle.c:1364`: the rebuild leaves a held client out although its
   category stays, so its exit subtracts what was not added.
4. `modules/central-blocklist.c:526`: a client refused with the ban action `block` is
   logged as rejected and left to the caller, who does nothing; the timeout of
   the blocklist then lets it in as unchecked (HandshakeBlock).

The first three are shown by one run, AdmitHeld: its property says that at least
one of the three counts is right, and its last state has all three wrong.

Observations that no run is about:

* `sasl_timeout` (`modules/sasl.c:490`) speaks of continuing the connection, but only
  aborts the attempt: nobody registers the client until its next command.
  `abort_sasl` keeps `sasl_agent`, so the next AUTHENTICATE is sent as a continuation of
  a session that services have ended. `/AUTH` sets no `sasl_sent_time`, so its
  attempts have no timeout. `sasl_quit` is a hook of local users only: services do
  not hear of a client that leaves during its handshake.
* A soft blacklist hit that arrives for a registered user is kept and never used;
  one for the address of a proxy is applied to the client behind it.
* `find_shun` (`modules/tkl.c:4177`) shuns a user with `match_user`, which knows CIDR ranges
  and extended server bans; `tkl_check_local_remove_shun` asks `match_simple`, which knows
  wildcards only, whether a shun that goes affected the user (`tkl.c:3800`) and whether
  another one still does (`tkl.c:3814`; the comment at 3806: "we need to check if the user is
  under any other existing shuns"). So a user shunned by a CIDR range stays shunned
  when the entry is gone, and one shunned twice is released when the other shun goes.
  Without `hist.misread` TLC finds both in BanUser.
* An E-line that expires (`tkl.c:3913`) does not lead to the check of connected users that
  its removal leads to (`tkl.c:5496`: "we have to re-check if any connected user is now
  matched by a ban"). Without `hist.lapsed` TLC finds this in BanUser.
* `blacklist::action` may be `block` too: `blacklist_hit` reports the hit and nothing
  else happens (`BlacklistHit`). No text of the source says that it should.
* `parse.c:336` says that a message from a wrong direction is answered with SQUIT;
  `cancel_clients` drops it silently.

## 5. Proofs

All theorems hold for every value of the constants that satisfies the assumption
of the module (`ConstantsAssumption`, `SocketAssumption` and so on): finite sets of
servers, users or clients, homes that exist, timestamps and limits in range. Check
them with `tlapm NetworkProofs.tla` and so on. TLC evaluates the assumptions in each
run. Every inductive invariant below was
an invariant of a TLC run before it was proved.

`NetworkProofs`. `IInv` = `LinkInv` (types; no connection with oneself) and `TableInv`
(types; a server is its own direction and has no uplink; tables are finite;
`NoOrphans`) and the counters. `TypeOK` alone is not inductive: the burst sends
`SID(uplink, x)`, which is a message only if the uplink is a server and not `None`,
and that is what `NoOrphans` says; the burst exists only because tables are
finite. One lemma per kind of change (`ForgetTableInv`, `AddServerTableInv`,
`EnterTableInv`, `LeaveTableInv`, `NetLinkInv`) is used by the actions. `NickUnique` is
proved on top of `IInv`: a client enters a table only when whoever had the nick
leaves in the same step. Results: `TypeCorrect`, `NoOrphansHolds`, `NickUniqueHolds`.

On links, in the same module, `Handshakes` describes both directions of each connection by the states
of its two ends, the two streams and who has closed (`Phase`): a message of the
handshake is the first of its stream and while it is there the other stream is
empty; a reader that is told of an EOF is linked or waits for a peer that is gone or
that has already connected again. `InStep` itself is not inductive: that SERVER
finds its reader in the handshake follows from the stream being empty when it was
sent, and a half-closed connection makes the two ends differ. One lemma per event of
a connection (`SendPair`, `ReadPair`, `ClosePair`, `ConnectPair`, `AcceptPair`,
`AnsweredPair`, `ServerPair`) serves all actions. `Routed` then says that a server is
unknown and has no uplink, or is in `Behind` of the neighbour that is its direction,
which is linked; it is preserved by an exit because what is not behind the exited
server keeps its chain of uplinks, and by a close during a handshake because, by
`InStep`, that connection was not linked. Results: `HandshakesInStep`, `RoutedHolds`,
`DirectionsUpHolds`.

`PairProofs`. What two linked servers have of each other's users, for every set of
users, nicks and timestamps, any number of connections and any collisions. `UIDUnique`
is not inductive: that a UID finds nobody depends on all that was in flight when it was
written. `PairInv` says, for each user and for the stream from its server to the other
one (`Flow`), that

* a UID comes before all that has to do with its user, finds nobody, and is not
  answered by a KILL while it is in flight (`Fresh`);
* before the burst, and before the user registers, the other server has not heard of
  it (`Untouched`), so that a user is introduced once per link;
* on a link that is up, the messages in flight, read in order, lead from what the
  reader has to a client that the writer has too, or to nothing (`Leads`, `Agree`); without
  operators it is exactly what the writer has, unless a KILL is on its way back.

`Proper` adds that a server speaks of its own users only. A collision is the hard case:
each side removes whom it decides to remove and sends a KILL; that the reader's decision
leaves the flow of both users intact is shown once for all verdicts (`Sentence`,
`Judgement`) and used for UID and NICK. The invariant rests on `Handshakes`, which says
that a burst starts on an empty stream, and on `Routed`, by which a split leaves nobody
behind. TLC checked it before it was proved. The hypothesis `TwoServers` is needed: on a
line the properties are false (section 3). `LinkAgreement` needs `MaxOper = 0` too, as an
operator's KILL may cross a collision; the other two do not. Results: `UIDUniqueOnPair`,
`NoGhostsOnPair`, `LinkAgreementOnPair`.

`ChannelProofs`. `MergeCommutes` and `MergeAssociates`: the merge of `cmd_sjoin` on what
`send_channel_modes_sjoin3` sends, for whole channels with different members,
does not depend on who reads first or on the order of three. They are the
reason why `ChannelAgreement` can hold at all. `IInv` adds to the types that a
server knows itself, that channels are well formed (operators are members, +s
excludes +p, an empty channel is no channel) and `MembersKnown`. Results:
`TypeCorrect`, `MembersKnownHolds`, `TsOnlyFallsHolds` (an action property).

On members, in the same module, a server's view of a user is that it does not know the user's server, that
it does, or that the user is a member; each message changes the view of its reader in
one way (`After`). The inductive invariant says of each link that the messages in
flight, read in order, lead from the reader's view of a user beyond the link to the
sender's (`Follows`). `MembersAgree` is the case in which nothing is in flight. The
invariant needs, and `Pairs` adds, that a stream is only about servers on the sender's
side (`Located`), where SERVER stands in it (`Ends`), and that a server without a link
knows nobody beyond it (`Severed`, `Unanswered`), so that a burst starts from nothing on
both sides. `TreeAssumption` says that links form a tree: each cuts the network in two
(`Sides`, `Branches`, `Loss`); without it a SQUIT would not forget the same servers on
both sides. The hypothesis `MaxKick = 0` is needed: `After` describes a message about a
user that comes from the user's side, and a KICK also comes from the other one, where it
may cross a second JOIN (section 3). Results: `ViewsFollow`, `MembersAgreeHolds`.

`AgreementProofs`. `ChannelAgreement` on every tree of servers. With `Calm` the network is
always in one of three phases, and `Phases`, their disjunction, is inductive together
with the `IInv` of `ChannelProofs`. TLC checked it before it was proved.

* `MergePhase`: links come up and bursts cross, in any number and order. What a server
  has, what its neighbour has sent and what the neighbour will still burst are
  *parts* (`Incoming`); parts come to the same (`Same`) when the oldest of them grant the
  same operators, modes, limit and bans (`Items`) and all of them have the same
  members. `Even` says that at both ends of a link the parts come to the same, and
  `Tells` that a line comes after the servers it rests on. Reading an SJOIN replaces
  two parts by their merge and changes no sum, at the reader (`SjoinSame`) or on the
  links to which the reader passes it on (`SjoinOnSame`).
* `BirthPhase`: a user has created the channel, and the SJOIN with the MODE that follows
  it spread from there; `BornAhead` says how far each link is.
* `WavePhase`: one PART, KICK, MODE or the loss of a link is spread (a JOIN of an existing
  channel is an SJOIN, and so a merge). What the end that is behind has, after reading
  the message in flight, is what the other end has (`WaveAhead`), and beyond that link
  nothing is in flight (`Hush`), as on a tree the message crosses each link once.

Between phases the network is `Settled`: nothing is in flight and linked servers have
the same channel; every phase starts from there, and `ChannelAgreement` is what each of
them says of a link on which nothing is in flight. The hypothesis, `"users"` and `"links"` in `Calm`, is that of the run: a
user's MODE carries no timestamp, and without it the property is false (section 3).
KICK is covered, as a kick that meets nothing in flight removes the same member
everywhere. Results: `PhasesHold`, `ChannelAgreementHolds`.

`AdmissionProofs`. `Shape` (types over Int, and what a status implies for class, flag
and category) is inductive alone. Each table is then exact by one argument
(`MemberMove`): a step moves one client into or out of the set that the table
counts, and changes the count by one. Exact counts are naturals, which gives
`TypeOK`. `CountsExactHolds` needs no condition; `ClassCountHolds` needs no
`"retry"`; `IpUsersExactHolds`, `MaxPerIpHolds`, `CtExactHolds` need no `"rehash"`: exactly
the circumstances in which the runs find a violation.

`SocketsProofs`. `Inv` says of each connection (`Sound`) its types, that nothing condemned
has a callback or a queue, that lines queued are lines written and lines waiting,
and that an open one is `Awake`: a callback is registered for whatever it still has
to do; and of the connection in hand (`InHand`) that `read_packet` is registered, which
is only true in the middle of a handler. `Wakeable` alone is not inductive: it does
not say which of the two callbacks a TLS engine will call next. Every handler
gives results that are `Sound` and one `StreamStep` away, so the same case analysis
gives the invariant and the simulation. Results: `TypeCorrect`, `NoLostWakeup`,
`PromiseKept` (each connection implements `Stream`: `Spec => KeepsPromise`).

`BansProofs`. `MergeIdempotent`, `MergeCommutes`, `MergeAssociates`, `IgnoredIsCovered`: the
update of `cmd_tkl_add` is a least upper bound in three respects (age, end, setter
with id). Agreement rests on that: along each link, what a server has is covered, in
each respect, by what is coming to its neighbour (`Told`), and what a server knows
behind is covered by what its neighbour has or was sent (`Behind`); an entry stops to
count as soon as some clock says that it has expired, so an early expiry breaks
nothing. It is proved respect by respect, and two entries that cover each other in
all respects are equal. `Shape` has the types and that messages are on links only,
`Fresh` relates what is in memory and not in the database to the time of the next
save, `Right` is `Enforced` and `ShunJustified` per server. Neither theorem
assumes anything of the masks: `hist.misread` says when the two functions that match
them disagreed, and as long as they did not, an entry that is there is matched by both
or by neither, so the shun goes with the last one and not before. Results: `TypeCorrect`,
`BansAgreed`, `SavesInTime`, `BansEnforced`, `ShunsJustified`.

`HandshakeProofs`. `Inv` = `Shape` (types) and `Linked` (the reference count of a `BLUser` is the
number of queries that are out, it has a client exactly while there is one, and a
DNS request points to a client whose current lookup it is) and `Fair`, which says of
each client that an attempt to log in is matched by services or by an answer on its
way (`Paired`), that whoever misses nothing waits for something that will come
(`Waits`, `Heard`), that a refused one is out, shunned or held (`Barred`), and when the
last PING was sent (`Pinged`). `Barred` needs that no action of a blacklist or of the
blocklist is `"block"`, and that is the hypothesis of `RefusalsHold`; with that action
HandshakeBlock finds the violation. Results:
`TypeCorrect`, `NothingDangles`, `NobodyForgotten`, `RefusalsHold`, `PingsGrace` (an action
property).

Only model-checked. `UIDUnique`, `NoGhosts` and `LinkAgreement` on three servers: they are
proved for two, and beyond that true only within the limits of section 3, so not for
every value of the constants. `NoLoop`: it speaks of chains of neighbours over all
servers at a quiet moment and needs a relation between the whole tables of two
neighbours and everything in flight, on any graph. `Settles`, `Progress` and `Decided` are
liveness and outside the prover's reach.

## 6. What the models leave out

* `Network`: two connections of one pair that cross; hub, leaf and deny rules,
  passwords, Q-lines, invalid names (they only reject); numerics; EOS, SINFO,
  module data; a nick that only changes case. Timestamps are free choices, as
  clocks differ. The copies of a SQUIT that `remove_dependents` sends once per server
  are one message: the later ones find no target.
* `ChannelSync`: topic, keys, other modes, exempt and invite lists (handled by the
  same code as bans), who set a ban and when, mlock, permanent channels, hooks of
  modules. Users are registered and do not change. A pair of servers links again
  once both ends have closed.
* `Admission`: one of the three tiers of connthrottle, which are alike; its rate
  limit and reputation gathering are nondeterministic; exemptions do not change;
  servers in classes, U-lines, temporary classes; the IP of a client is fixed
  (WEBIRC is a hazard in `PROJECT.json`). CLOSE is several `Exit`s.
* `Sockets`: listening, accepting, connecting; the bytes within a line and writes
  that stop in one; queue limits count lines, not bytes. The peers' lines have no
  content, so a line does what any command may do: send, quit, kill.
* `Bans`: masks and matching (every G-line and E-line matches the user; of shuns, which
  ones `match_user` and `match_simple` match is a constant, so nobody logs in or changes
  host), soft bans (`Handshake` has them), K- and Z-lines, which are not broadcast, Q-lines, spamfilters, TEMPSHUN; old
  servers that drop ids. The handshake of a link is one message each way.
* `Handshake`: the DNS cache is a choice, ident results, mechanisms and passwords are
  left out; UNIX sockets, which have no handshake timeout; the handshake delay of
  blacklists, which only postpones registration; one class with one ping frequency.
  The resolver library (external) is taken to call back later, never from within the
  call that starts a query. If it failed at once for the host name, the flag that
  `socket.c:1120` sets afterwards would stay, and the client would wait for the handshake
  timeout; for blacklists, whose queries may be answered from a cache, the loop that
  starts them looks after each one whether the client is still there.
* Not modelled at all, with the reasons in `PROJECT.json`: channel history, who-was,
  WATCH and MONITOR, flood protection and reputation (tables local to one server,
  each with its own timer, independent of the protocols above), message delivery and
  user queries (one handler, no state across steps), spamfilter patterns, GeoIP,
  strings and matching (pure data), TLS and certificates (OpenSSL), web server, RPC,
  logging (formatting), the configuration parser and module loader.

## 7. Plan

1. `Network`, `ChannelSync`, `Admission` with their proofs; `Sockets` with `Stream`, `Bans`,
   `Handshake` with their runs: done.
2. Proofs for `Bans`, `Sockets` and `Handshake`, `DirectionsUp` and `InStep` of `Network`,
   `MembersAgree` of `ChannelSync` without KICK and its `ChannelAgreement`; `UIDUnique`,
   `NoGhosts` and `LinkAgreement` of `Network` for two servers: done.
3. The proofs that remain: `NoLoop`; `UIDUnique` on any tree of servers without operators.
4. Link details: two connects that cross, EOS, autoconnect; topic in `ChannelSync`.
5. Floodprot timers, history limits, who-was and MONITOR back pointers.
6. Rehash: asynchronous includes, module data over a reload.
