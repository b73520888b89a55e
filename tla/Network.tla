------------------------------- MODULE Network -------------------------------
(***************************************************************************)
(* The server-to-server core of UnrealIRCd: how linked servers keep their  *)
(* tables of servers and users the same.  One server is one single-        *)
(* threaded process, so a handler runs to completion and is one action;    *)
(* what interleaves is the handlers of different servers and the messages  *)
(* between them, one FIFO stream per direction of a TCP connection.        *)
(*                                                                         *)
(* Link set-up (PROTOCTL EAUTH/SERVERS=, SERVER), the burst of             *)
(* server_sync, SID/SQUIT, UID/NICK/QUIT/KILL with timestamp nick          *)
(* collisions, splits, half-closed connections and relinks are modelled.   *)
(***************************************************************************)
EXTENDS Integers, Sequences, FiniteSets

CONSTANTS
    Server,      \* servers, identified by their SID
    Link,        \* pairs {s, t} that have link blocks for each other
    UID,         \* user ids; a UID starts with the SID of its server
    Home,        \* [UID -> Server]: that SID
    Mask,        \* UID -> user@realhost (what 'differ' compares)
    Nick,        \* nick names
    TS,          \* timestamps (TStime() of servers whose clocks may differ)
    None,        \* "no server"
    MaxConnect,  \* bound: connections made in a behaviour
    MaxOp,       \* bound: actions of local clients
    MaxOper      \* bound: actions of operators (KILL, SQUIT)

ASSUME ConstantsAssumption ==
    /\ IsFiniteSet(Server) /\ IsFiniteSet(UID)
    /\ Link \subseteq {{s, t} : s, t \in Server}
    /\ Home \in [UID -> Server]
    /\ TS \subseteq Int
    /\ None \notin Server
    /\ Server \cap UID = {}
    /\ MaxConnect \in Nat /\ MaxOp \in Nat /\ MaxOper \in Nat

VARIABLES
    conn,     \* conn[s][t]: state of the connection with t, as s sees it
    dead,     \* <<s, t>>: t has closed the connection that s still holds
    chan,     \* chan[s][t]: bytes in flight from s to t, as messages
    pending,  \* pending[s][t]: PendingNet of s for the connecting server t
    uplink,   \* uplink[s][x]: the server that introduced x, at s
    dir,      \* dir[s][x]: the neighbour behind which s knows x (or None)
    users,    \* users[s]: the clients in s's hash tables
    used,     \* UIDs handed out so far
    nconnect, \* connections made so far
    nop,      \* client actions so far
    noper     \* operator actions so far

links == <<conn, dead, chan, pending, nconnect>>
tables == <<uplink, dir, users>>
vars == <<conn, dead, chan, pending, uplink, dir, users, used, nconnect, nop, noper>>

(***************************************************************************)
(* State of a connection at one end: none; out = connected, PASS/PROTOCTL  *)
(* sent (IsHandshake); sent = SERVER sent too (IsServerSent); in = accepted *)
(* and authenticated by EAUTH; up = IsServer, a member of server_list.     *)
(***************************************************************************)
ConnState == {"none", "out", "sent", "in", "up"}

\* A client: reg is IsUser (registered) as opposed to IsUnknown with a nick.
UserRec == [uid : UID, nick : Nick, ts : TS, reg : BOOLEAN]

Msg ==
    [type : {"EAUTH"}, known : SUBSET Server, reply : BOOLEAN]
        \cup [type : {"SERVER"}]
        \cup [type : {"SID"}, src : Server, id : Server]
        \cup [type : {"SQUIT"}, id : Server]
        \cup [type : {"UID", "NICK"}, uid : UID, nick : Nick, ts : TS]
        \cup [type : {"QUIT"}, uid : UID]
        \cup [type : {"KILL"}, src : Server \cup UID, uid : UID]

EAUTH(known, reply) == [type |-> "EAUTH", known |-> known, reply |-> reply]
SERVER == [type |-> "SERVER"]
SID(src, id) == [type |-> "SID", src |-> src, id |-> id]
SQUIT(id) == [type |-> "SQUIT", id |-> id]
UIDmsg(r) == [type |-> "UID", uid |-> r.uid, nick |-> r.nick, ts |-> r.ts]
NICK(u, n, ts) == [type |-> "NICK", uid |-> u, nick |-> n, ts |-> ts]
QUIT(u) == [type |-> "QUIT", uid |-> u]
KILL(src, u) == [type |-> "KILL", src |-> src, uid |-> u]

-----------------------------------------------------------------------------
(* Lookups *)

Up(s) == {t \in Server : conn[s][t] = "up"}             \* server_list
Known(s, x) == dir[s][x] # None                         \* find_server
Servers(s) == {x \in Server : Known(s, x)}              \* global_server_list
ByNick(s, n) == {r \in users[s] : r.nick = n}           \* find_client(nick)
ByUID(s, u) == {r \in users[s] : r.uid = u}             \* find_client(uid)
Local(s, r) == Home[r.uid] = s                          \* MyConnect
Registered(s) == {r \in users[s] : r.reg}               \* IsUser

\* client->direction of a server or of a user (users inherit their server's)
Direction(s, x) == IF x \in UID THEN dir[s][Home[x]] ELSE dir[s][x]

\* find_client of a SID: PROTOCTL SID= has put the peer of an incoming
\* connection in the id hash before it is a server
Hashed(s, x) == Known(s, x) \/ conn[s][x] = "in"

\* Is the source of a message in the tables?  (find_client of the prefix)
SourceKnown(s, x) == IF x \in UID THEN ByUID(s, x) # {} ELSE Hashed(s, x)

\* Mutant: only the server itself is removed, not what hangs off it
BehindShallow(s, x) == {x}

\* x and everything that was introduced, directly or not, by x
Behind(s, x) ==
    {y \in Server : \A S \in SUBSET Server :
        (x \in S /\ \A z \in Server : uplink[s][z] \in S => z \in S) => y \in S}

-----------------------------------------------------------------------------
(* Output of a handler at s: one sequence of messages per neighbour *)

NoOut == [t \in Server |-> <<>>]
One(t, m) == [x \in Server |-> IF x = t THEN <<m>> ELSE <<>>]
\* sendto_server(except, ...): every server in 'to' but the ones in 'except'
ToServers(to, except, m) ==
    [t \in Server |-> IF t \in to \ except THEN <<m>> ELSE <<>>]
Cat(o1, o2) == [t \in Server |-> o1[t] \o o2[t]]

(***************************************************************************)
(* The network part of a step of s: read a message from 'from', close the  *)
(* connection with c (None: no close) and send 'out' to the neighbours.    *)
(* What is sent on a connection whose other end is closed is lost, and so  *)
(* is what the closer has not read; the peer may still read what was sent  *)
(* before the close.  A stream that belongs to a newer connection attempt  *)
(* of the peer survives the close of the old connection.                   *)
(***************************************************************************)
Consume(ch, s, from) ==
    IF from = None THEN ch ELSE [ch EXCEPT ![from][s] = Tail(@)]

Deliver(ch, s, out, alive) ==
    [ch EXCEPT ![s] = [t \in Server |-> IF t \in alive THEN @[t] \o out[t] ELSE @[t]]]

\* close_connection of s's connection with c
CloseStreams(ch, s, c) ==
    IF c = None THEN ch
    ELSE IF <<s, c>> \in dead
         THEN [ch EXCEPT ![c][s] = IF conn[c][s] = "none" THEN <<>> ELSE @]
         ELSE [ch EXCEPT ![c][s] = <<>>,
                         ![s][c] = IF conn[c][s] = "none" \/ <<c, s>> \in dead
                                   THEN <<>> ELSE @]

DeadAfterClose(s, c) ==
    IF <<s, c>> \in dead THEN dead \ {<<s, c>>}
    ELSE IF c # None /\ conn[c][s] # "none" THEN dead \cup {<<c, s>>} ELSE dead

Alive(s) == {t \in Server : conn[s][t] # "none" /\ <<s, t>> \notin dead}

Net(s, from, c, out) ==
    /\ conn' = IF c = None THEN conn ELSE [conn EXCEPT ![s][c] = "none"]
    /\ pending' = IF c = None THEN pending ELSE [pending EXCEPT ![s][c] = {}]
    /\ dead' = IF c = None THEN dead ELSE DeadAfterClose(s, c)
    /\ chan' = Deliver(CloseStreams(Consume(chan, s, from), s, c), s, out, Alive(s) \ {c})

\* The head of the stream from t to s, which s reads if it is of type 'type'
Receives(s, t, type) == chan[t][s] # <<>> /\ Head(chan[t][s]).type = type

-----------------------------------------------------------------------------
(* Exits (modules/quit.c) *)

\* Mutant: the servers leave the tables, their users stay
ForgetServersOnly(s, gone) ==
    /\ UNCHANGED users
    /\ dir' = [dir EXCEPT ![s] = [y \in Server |-> IF y \in gone THEN None ELSE @[y]]]
    /\ uplink' = [uplink EXCEPT ![s] = [y \in Server |-> IF y \in gone THEN None ELSE @[y]]]

\* recurse_remove_clients: the servers in 'gone' and their users leave s's tables
Forget(s, gone) ==
    /\ users' = [users EXCEPT ![s] = {r \in @ : Home[r.uid] \notin gone}]
    /\ dir' = [dir EXCEPT ![s] = [y \in Server |-> IF y \in gone THEN None ELSE @[y]]]
    /\ uplink' = [uplink EXCEPT ![s] = [y \in Server |-> IF y \in gone THEN None ELSE @[y]]]

(***************************************************************************)
(* exit_client_ex of server x at s on the word of 'origin': everything     *)
(* behind x goes and every neighbour but the origin is told by SQUIT (the  *)
(* code repeats the SQUIT once per server in a direction; the repetitions  *)
(* follow the first one immediately and find no target).                   *)
(***************************************************************************)
ExitServer(s, from, x, origin) ==
    LET link == IF conn[s][x] = "up" THEN x ELSE None
    IN  /\ Forget(s, Behind(s, x))
        /\ Net(s, from, link, ToServers(Up(s), {x, origin}, SQUIT(x)))

\* A read of a message that changes no table (ignored, or only answered)
Reply(s, from, out) ==
    Net(s, from, None, out) /\ UNCHANGED tables

-----------------------------------------------------------------------------
(* Nick collisions (modules/nick.c) *)

\* Who wins when u, with timestamp ts, wants the nick that r has at s
Verdict(s, r, u, ts, sameDirWins) ==
    LET differ == Mask[r.uid] # Mask[u]
    IN  IF Local(s, r) /\ ~r.reg THEN "overridden"
        ELSE IF r.ts = ts THEN "equal"
        ELSE IF (differ <=> r.ts > ts) \/ sameDirWins THEN "new_won"
        ELSE "existing_won"

\* Mutant: the loser is killed everywhere but where it came from
CollisionOutNotBack(s, from, u, changing, ex, verdict) ==
    Cat(IF changing /\ verdict \in {"equal", "existing_won"}
          THEN ToServers(Up(s), {from}, KILL(s, u)) ELSE NoOut,
        IF verdict \in {"equal", "new_won"}
          THEN ToServers(Up(s), {}, KILL(s, ex.uid)) ELSE NoOut)

\* nick_collision(): the KILLs sent, by verdict; 'new' is nick-changing or not
CollisionOut(s, from, u, changing, ex, verdict) ==
    Cat(IF verdict \in {"equal", "existing_won"}
          THEN Cat(One(from, KILL(s, u)),
                   IF changing THEN ToServers(Up(s), {from}, KILL(s, u)) ELSE NoOut)
          ELSE NoOut,
        IF verdict \in {"equal", "new_won"}
          THEN ToServers(Up(s), {}, KILL(s, ex.uid)) ELSE NoOut)

\* Mutant: a client in handshake is not exited when its nick is taken over
CollisionLosersRegistered(s, u, changing, ex, verdict) ==
    (IF verdict \in {"equal", "new_won"} THEN {ex} ELSE {})
        \cup (IF changing /\ verdict \in {"equal", "existing_won"} THEN ByUID(s, u) ELSE {})

\* The clients of s that the verdict removes
CollisionLosers(s, u, changing, ex, verdict) ==
    (IF verdict # "existing_won" THEN {ex} ELSE {})
        \cup (IF changing /\ verdict \in {"equal", "existing_won"} THEN ByUID(s, u) ELSE {})

-----------------------------------------------------------------------------
(* Local clients and operators *)

ClientInput == nop < MaxOp /\ nop' = nop + 1 /\ UNCHANGED noper
OperInput == noper < MaxOper /\ noper' = noper + 1 /\ UNCHANGED nop

\* cmd_nick_local accepts nick n for a local client: free, or held by another
\* client of s that is still in its handshake and is exited ("Overridden").
NickFree(s, n) == \A r \in ByNick(s, n) : Local(s, r) /\ ~r.reg

\* A connected client sends its first NICK; lastnick is TStime() by then.
NickFirst(s, u, n, ts) ==
    /\ ClientInput
    /\ Home[u] = s /\ u \notin used
    /\ NickFree(s, n)
    /\ used' = used \cup {u}
    /\ users' = [users EXCEPT ![s] =
          (@ \ ByNick(s, n)) \cup {[uid |-> u, nick |-> n, ts |-> ts, reg |-> FALSE]}]
    /\ UNCHANGED <<links, uplink, dir>>

\* register_user: the handshake is complete, the user is introduced.
Register(s, r) ==
    /\ Local(s, r) /\ ~r.reg
    /\ users' = [users EXCEPT ![s] = (@ \ {r}) \cup {[r EXCEPT !.reg = TRUE]}]
    /\ Net(s, None, None, ToServers(Up(s), {}, UIDmsg(r)))
    /\ UNCHANGED <<uplink, dir, used, nconnect, nop, noper>>

\* A later NICK; before registration it is silent and leaves lastnick alone.
NickChange(s, r, n, ts) ==
    /\ ClientInput
    /\ Local(s, r) /\ n # r.nick /\ NickFree(s, n)
    /\ users' = [users EXCEPT ![s] = (@ \ ({r} \cup ByNick(s, n))) \cup
          {[r EXCEPT !.nick = n, !.ts = IF r.reg THEN ts ELSE @]}]
    /\ Net(s, None, None, IF r.reg THEN ToServers(Up(s), {}, NICK(r.uid, n, ts)) ELSE NoOut)
    /\ UNCHANGED <<uplink, dir, used, nconnect>>

\* QUIT, or the connection of a local client is lost.
Quit(s, r) ==
    /\ ClientInput
    /\ Local(s, r)
    /\ users' = [users EXCEPT ![s] = @ \ {r}]
    /\ Net(s, None, None, IF r.reg THEN ToServers(Up(s), {}, QUIT(r.uid)) ELSE NoOut)
    /\ UNCHANGED <<uplink, dir, used, nconnect>>

\* /KILL by a local operator; a local victim leaves by QUIT.
OperKill(s, oper, r) ==
    /\ OperInput
    /\ Local(s, oper) /\ oper.reg /\ r.reg
    /\ users' = [users EXCEPT ![s] = @ \ {r}]
    /\ Net(s, None, None,
           ToServers(Up(s), {}, IF Local(s, r) THEN QUIT(r.uid) ELSE KILL(oper.uid, r.uid)))
    /\ UNCHANGED <<uplink, dir, used, nconnect>>

\* /SQUIT of x by a local operator
OperSquit(s, oper, x) ==
    /\ OperInput
    /\ Local(s, oper) /\ oper.reg
    /\ x # s /\ Known(s, x)
    /\ ExitServer(s, None, x, None)
    /\ UNCHANGED <<used, nconnect>>

-----------------------------------------------------------------------------
(* Connections *)

\* server_autoconnect / connect_server, then start_server_handshake
Connect(s, t) ==
    /\ nconnect < MaxConnect /\ nconnect' = nconnect + 1
    /\ {s, t} \in Link /\ s # t
    /\ ~Known(s, t) /\ conn[s][t] = "none"
    /\ conn[t][s] = "none" \/ (conn[t][s] = "up" /\ <<t, s>> \in dead)
    /\ conn' = [conn EXCEPT ![s][t] = "out"]
    /\ chan' = [chan EXCEPT ![s][t] = <<EAUTH(Servers(s), FALSE)>>, ![t][s] = <<>>]
    /\ UNCHANGED <<dead, pending, tables, used, nop, noper>>

\* s gives up its connection with t: read error, ping timeout, SendQ
\* exceeded, handshake timeout (exit_client of a server or of an unknown)
CloseLink(s, t) ==
    /\ conn[s][t] # "none"
    /\ IF conn[s][t] = "up" THEN ExitServer(s, None, t, t)
       ELSE Net(s, None, t, NoOut) /\ UNCHANGED tables
    /\ UNCHANGED <<used, nconnect, nop, noper>>

ReadEOF(s, t) == <<s, t>> \in dead /\ CloseLink(s, t)
LoseLink(s, t) == <<s, t>> \notin dead /\ CloseLink(s, t)

\* verify_link: t is known through another neighbour ("Server Exists")
KnownElsewhere(s, t) == Known(s, t) /\ dir[s][t] # t

\* PROTOCTL SERVERS=: a SID is known already, or pending on another connection
Duplicate(s, t, sids, known) ==
    \/ sids \cap known # {}
    \/ \E c \in Server \ {t} : pending[s][c] \cap sids # {}

(***************************************************************************)
(* PROTOCTL EAUTH= and SERVERS= of an incoming connection.  verify_link    *)
(* drops an older link with the same server first; the old connection is   *)
(* dead, as a server makes a new one only when it has no other.            *)
(***************************************************************************)
RecvEAUTH(s, t) ==
    /\ Receives(s, t, "EAUTH") /\ ~Head(chan[t][s]).reply
    /\ LET sids == Head(chan[t][s]).known
           old == Known(s, t) /\ dir[s][t] = t
           gone == IF old THEN Behind(s, t) ELSE {}
           deny == KnownElsewhere(s, t) \/ Duplicate(s, t, sids, Servers(s) \ gone)
           told == ToServers(IF old THEN Up(s) ELSE {}, {t}, SQUIT(t))
           hello == One(t, EAUTH(Servers(s) \ gone, TRUE))
       IN  /\ Forget(s, gone)
           /\ conn' = [conn EXCEPT ![s][t] = IF deny THEN "none" ELSE "in"]
           /\ dead' = (dead \ {<<s, t>>}) \cup (IF deny THEN {<<t, s>>} ELSE {})
           /\ pending' = [pending EXCEPT ![s][t] = IF deny THEN {} ELSE sids]
           /\ chan' = Deliver(Consume(chan, s, t), s,
                              Cat(told, IF deny THEN NoOut ELSE hello),
                              Alive(s) \cup {t})
    /\ UNCHANGED <<used, nconnect, nop, noper>>

\* The answer to our own EAUTH: check it the same way, then send SERVER.
RecvEAUTHReply(s, t) ==
    /\ Receives(s, t, "EAUTH") /\ Head(chan[t][s]).reply
    /\ LET sids == Head(chan[t][s]).known
       IN  IF Known(s, t) \/ Duplicate(s, t, sids, Servers(s))
           THEN Net(s, t, t, NoOut)
           ELSE /\ conn' = [conn EXCEPT ![s][t] = "sent"]
                /\ pending' = [pending EXCEPT ![s][t] = sids]
                /\ chan' = Deliver(Consume(chan, s, t), s, One(t, SERVER), Alive(s))
                /\ UNCHANGED dead
    /\ UNCHANGED <<tables, used, nconnect, nop, noper>>

\* The sequences that list a finite set once (the order of a linked list)
Listings(S) ==
    {f \in [1..Cardinality(S) -> S] : \A i, j \in 1..Cardinality(S) : f[i] = f[j] => i = j}

\* Mutant: the burst does not skip the bursting server itself
ServerListingsWithMe(s, S) ==
    {f \in Listings(S \cup {s}) : \A i, j \in DOMAIN f : uplink[s][f[i]] = f[j] => j < i}

\* global_server_list, oldest first: a server comes after its uplink
ServerListings(s, S) ==
    {f \in Listings(S) : \A i, j \in 1..Cardinality(S) : uplink[s][f[i]] = f[j] => j < i}

\* Mutant: the SERVER of the other side is answered on our own connection too
RecvSERVERAnswered(s, t) ==
    /\ Receives(s, t, "SERVER") /\ ~Known(s, t)
    /\ conn' = [conn EXCEPT ![s][t] = "up"]
    /\ pending' = [pending EXCEPT ![s][t] = {}]
    /\ uplink' = [uplink EXCEPT ![s][t] = s]
    /\ dir' = [dir EXCEPT ![s][t] = t]
    /\ chan' = Deliver(Consume(chan, s, t), s, One(t, SERVER), Alive(s))
    /\ UNCHANGED <<dead, users, used, nconnect, nop, noper>>

(***************************************************************************)
(* SERVER, on an incoming connection and on our own: the peer is a server  *)
(* from now on.  server_sync answers (incoming), tells the others by SID   *)
(* and bursts every server and registered user to it.                      *)
(***************************************************************************)
RecvSERVER(s, t) ==
    /\ Receives(s, t, "SERVER")
    /\ IF Known(s, t)
       THEN Net(s, t, t, NoOut) /\ UNCHANGED tables
       ELSE \E sl \in ServerListings(s, Servers(s) \ {s}), ul \in Listings(Registered(s)) :
            LET greeting == IF conn[s][t] = "in" THEN <<SERVER>> ELSE <<>>
                burst == greeting \o [i \in DOMAIN sl |-> SID(uplink[s][sl[i]], sl[i])]
                                  \o [i \in DOMAIN ul |-> UIDmsg(ul[i])]
            IN  /\ conn' = [conn EXCEPT ![s][t] = "up"]
                /\ pending' = [pending EXCEPT ![s][t] = {}]
                /\ uplink' = [uplink EXCEPT ![s][t] = s]
                /\ dir' = [dir EXCEPT ![s][t] = t]
                /\ chan' = Deliver(Consume(chan, s, t), s,
                               Cat(ToServers(Up(s), {t}, SID(s, t)),
                                   [NoOut EXCEPT ![t] = burst]), Alive(s))
                /\ UNCHANGED <<dead, users>>
    /\ UNCHANGED <<used, nconnect, nop, noper>>

-----------------------------------------------------------------------------
(* Messages of linked servers *)

\* The prefix of a message; EAUTH, SERVER and SQUIT come from the peer itself
Source(m) ==
    IF m.type \in {"SID", "KILL"} THEN m.src
    ELSE IF m.type = "UID" THEN Home[m.uid] ELSE m.uid

\* parse2 lets the message through: its source exists, in this direction
Accepts(s, t, type) ==
    /\ Receives(s, t, type)
    /\ LET src == Source(Head(chan[t][s]))
       IN  SourceKnown(s, src) /\ Direction(s, src) = t

\* remove_unknown for an unknown source (a ghost at the sender);
\* cancel_clients, which does nothing, for one from the wrong direction.
RecvBadSource(s, t) ==
    /\ \E type \in {"SID", "UID", "NICK", "QUIT", "KILL"} :
          Receives(s, t, type) /\ ~Accepts(s, t, type)
    /\ LET src == Source(Head(chan[t][s]))
       IN  Reply(s, t, IF SourceKnown(s, src) THEN NoOut
                       ELSE One(t, IF src \in UID THEN KILL(s, src) ELSE SQUIT(src)))
    /\ UNCHANGED <<used, nconnect, nop, noper>>

\* Mutant: a server that is known already is introduced again
RecvSIDUnchecked(s, t) ==
    /\ Accepts(s, t, "SID")
    /\ LET m == Head(chan[t][s])
       IN  /\ uplink' = [uplink EXCEPT ![s][m.id] = m.src]
           /\ dir' = [dir EXCEPT ![s][m.id] = t]
           /\ Net(s, t, None, ToServers(Up(s), {t}, m))
    /\ UNCHANGED <<users, used, nconnect, nop, noper>>

\* cmd_sid: refused if the server is known, or its SID is (find_server, find_client)
RecvSID(s, t) ==
    /\ Accepts(s, t, "SID")
    /\ LET m == Head(chan[t][s])
       IN  IF m.id = s THEN ExitServer(s, t, m.src, t)
           ELSE IF Hashed(s, m.id) THEN Reply(s, t, One(t, SQUIT(m.id)))
           ELSE /\ uplink' = [uplink EXCEPT ![s][m.id] = m.src]
                /\ dir' = [dir EXCEPT ![s][m.id] = t]
                /\ Net(s, t, None, ToServers(Up(s), {t}, m))
                /\ UNCHANGED users
    /\ UNCHANGED <<used, nconnect, nop, noper>>

RecvSQUIT(s, t) ==
    /\ Receives(s, t, "SQUIT")
    /\ LET id == Head(chan[t][s]).id
           target == IF id = s THEN t ELSE id
       IN  IF Known(s, target) THEN ExitServer(s, t, target, t)
           ELSE Reply(s, t, NoOut)
    /\ UNCHANGED <<used, nconnect, nop, noper>>

\* cmd_uid: introduce the user unless the nick collides and the user loses.
RecvUID(s, t) ==
    /\ Accepts(s, t, "UID")
    /\ LET m == Head(chan[t][s])
           new == [uid |-> m.uid, nick |-> m.nick, ts |-> m.ts, reg |-> TRUE]
           forward == ToServers(Up(s), {t}, m)
       IN  \/ /\ ByNick(s, m.nick) = {}
              /\ users' = [users EXCEPT ![s] = @ \cup {new}]
              /\ Net(s, t, None, forward)
           \/ \E ex \in ByNick(s, m.nick) :
              LET verdict == Verdict(s, ex, m.uid, m.ts, Direction(s, ex.uid) = t)
                  enters == verdict \in {"overridden", "new_won"}
              IN  /\ users' = [users EXCEPT ![s] =
                        (@ \ CollisionLosers(s, m.uid, FALSE, ex, verdict))
                            \cup (IF enters THEN {new} ELSE {})]
                  /\ Net(s, t, None, Cat(CollisionOut(s, t, m.uid, FALSE, ex, verdict),
                                         IF enters THEN forward ELSE NoOut))
    /\ UNCHANGED <<uplink, dir, used, nconnect, nop, noper>>

\* cmd_nick_remote: change the nick unless it collides and the user loses.
RecvNICK(s, t) ==
    /\ Accepts(s, t, "NICK")
    /\ LET m == Head(chan[t][s])
           forward == ToServers(Up(s), {t}, m)
       IN  \E r \in ByUID(s, m.uid) :
           LET new == [r EXCEPT !.nick = m.nick, !.ts = m.ts]
           IN  \/ /\ r.nick = m.nick
                  /\ Reply(s, t, NoOut)
               \/ /\ ByNick(s, m.nick) = {}
                  /\ users' = [users EXCEPT ![s] = (@ \ {r}) \cup {new}]
                  /\ Net(s, t, None, forward)
                  /\ UNCHANGED <<uplink, dir>>
               \/ \E ex \in ByNick(s, m.nick) \ {r} :
                  LET verdict == Verdict(s, ex, m.uid, m.ts, FALSE)
                      enters == verdict \in {"overridden", "new_won"}
                  IN  /\ users' = [users EXCEPT ![s] =
                            (@ \ ({r} \cup CollisionLosers(s, m.uid, TRUE, ex, verdict)))
                                \cup (IF enters THEN {new} ELSE {})]
                      /\ Net(s, t, None, Cat(CollisionOut(s, t, m.uid, TRUE, ex, verdict),
                                             IF enters THEN forward ELSE NoOut))
                      /\ UNCHANGED <<uplink, dir>>
    /\ UNCHANGED <<used, nconnect, nop, noper>>

\* Mutant: a QUIT is not passed on to the other servers
RecvQUITUnforwarded(s, t) ==
    /\ Accepts(s, t, "QUIT")
    /\ users' = [users EXCEPT ![s] = @ \ ByUID(s, Head(chan[t][s]).uid)]
    /\ Net(s, t, None, NoOut)
    /\ UNCHANGED <<uplink, dir, used, nconnect, nop, noper>>

RecvQUIT(s, t) ==
    /\ Accepts(s, t, "QUIT")
    /\ LET m == Head(chan[t][s])
       IN  /\ users' = [users EXCEPT ![s] = @ \ ByUID(s, m.uid)]
           /\ Net(s, t, None, ToServers(Up(s), {t}, m))
    /\ UNCHANGED <<uplink, dir, used, nconnect, nop, noper>>

\* Mutant: the exit of a victim that is gone already is announced again
RecvKILLTwice(s, t) ==
    /\ Accepts(s, t, "KILL")
    /\ LET m == Head(chan[t][s])
           victim == {r \in ByUID(s, m.uid) : r.reg}
       IN  /\ users' = [users EXCEPT ![s] = @ \ victim]
           /\ Net(s, t, None,
                  IF Home[m.uid] = s /\ m.src \in Up(s) THEN ToServers(Up(s), {}, QUIT(m.uid))
                  ELSE ToServers(Up(s), {t}, m))
    /\ UNCHANGED <<uplink, dir, used, nconnect, nop, noper>>

\* cmd_kill from a server.  A local victim killed by a directly linked server
\* counts as a local kill: it is announced by QUIT, to all, not by KILL.
RecvKILL(s, t) ==
    /\ Accepts(s, t, "KILL")
    /\ LET m == Head(chan[t][s])
           victim == {r \in ByUID(s, m.uid) : r.reg}
           asQuit == Home[m.uid] = s /\ m.src \in Up(s)
       IN  /\ users' = [users EXCEPT ![s] = @ \ victim]
           /\ Net(s, t, None,
                  IF victim = {} THEN NoOut
                  ELSE IF asQuit THEN ToServers(Up(s), {}, QUIT(m.uid))
                  ELSE ToServers(Up(s), {t}, m))
    /\ UNCHANGED <<uplink, dir, used, nconnect, nop, noper>>

-----------------------------------------------------------------------------
Init ==
    /\ conn = [s \in Server |-> [t \in Server |-> "none"]]
    /\ dead = {}
    /\ chan = [s \in Server |-> [t \in Server |-> <<>>]]
    /\ pending = [s \in Server |-> [t \in Server |-> {}]]
    /\ uplink = [s \in Server |-> [t \in Server |-> None]]
    /\ dir = [s \in Server |-> [t \in Server |-> IF t = s THEN s ELSE None]]
    /\ users = [s \in Server |-> {}]
    /\ used = {}
    /\ nconnect = 0 /\ nop = 0 /\ noper = 0

\* What a client or an operator may do at s, at any time
ClientStep(s) ==
    \/ \E u \in UID, n \in Nick, ts \in TS : NickFirst(s, u, n, ts)
    \/ \E r \in users[s] :
          \/ Register(s, r)
          \/ Quit(s, r)
          \/ \E n \in Nick, ts \in TS : NickChange(s, r, n, ts)
          \/ \E v \in users[s] : OperKill(s, r, v)
          \/ \E x \in Server : OperSquit(s, r, x)

\* s handles the next message from t
Receive(s, t) ==
    \/ RecvEAUTH(s, t) \/ RecvEAUTHReply(s, t) \/ RecvSERVER(s, t)
    \/ RecvBadSource(s, t)
    \/ RecvSID(s, t) \/ RecvSQUIT(s, t)
    \/ RecvUID(s, t) \/ RecvNICK(s, t) \/ RecvQUIT(s, t) \/ RecvKILL(s, t)

Next ==
    \E s \in Server :
        \/ ClientStep(s)
        \/ \E t \in Server :
              Connect(s, t) \/ ReadEOF(s, t) \/ LoseLink(s, t) \/ Receive(s, t)

Spec == Init /\ [][Next]_vars

(***************************************************************************)
(* Fairness: the main loop of a server polls every socket and reads what   *)
(* is there, so a message in flight is read and a closed peer is noticed.  *)
(* Nothing is assumed of clients, operators, autoconnect or link failures. *)
(***************************************************************************)
FairSpec ==
    Spec /\ \A s, t \in Server : WF_vars(Receive(s, t)) /\ WF_vars(ReadEOF(s, t))

-----------------------------------------------------------------------------
(* Properties *)

\* Types of the variables; the counters respect their bounds.
TypeOK ==
    /\ conn \in [Server -> [Server -> ConnState]]
    /\ dead \subseteq Server \X Server
    /\ chan \in [Server -> [Server -> Seq(Msg)]]
    /\ pending \in [Server -> [Server -> SUBSET Server]]
    /\ uplink \in [Server -> [Server -> Server \cup {None}]]
    /\ dir \in [Server -> [Server -> Server \cup {None}]]
    /\ users \in [Server -> SUBSET UserRec]
    /\ used \subseteq UID
    /\ nconnect \in 0..MaxConnect
    /\ nop \in 0..MaxOp
    /\ noper \in 0..MaxOper

\* No server ever has two clients with one nick: cmd_uid, cmd_nick_remote and
\* cmd_nick_local resolve every collision before they hash the new name, also
\* for clients in handshake, after splits and with crossing NICKs and UIDs.
NickUnique ==
    \A s \in Server : \A r1, r2 \in users[s] : r1.nick = r2.nick => r1 = r2

\* No server ever has two clients with one UID: cmd_uid adds to the id hash
\* table without looking the UID up, and relies on the protocol for this.  It is
\* true between two servers; further away a late SQUIT of an operator breaks it.
UIDUnique ==
    \A s \in Server : \A r1, r2 \in users[s] : r1.uid = r2.uid => r1 = r2

\* No client outlives the server it hangs off: the server of every user and
\* the uplink of every server are in the same tables (client->uplink is a
\* pointer that recurse_remove_clients must never leave dangling).
NoOrphans ==
    \A s \in Server :
        /\ \A r \in users[s] : Known(s, Home[r.uid])
        /\ \A x \in Servers(s) \ {s} : uplink[s][x] \in Servers(s)

\* client->direction always is a server in server_list: no server is known
\* behind a neighbour whose connection is closed or still in handshake.
DirectionsUp ==
    \A s \in Server : \A x \in Servers(s) \ {s} : conn[s][dir[s][x]] = "up"

\* Every line finds its reader in the state it is meant for, through splits,
\* relinks over a link that only one side has given up, and refusals: EAUTH is
\* read on a new connection or in place of a dead one, its answer only by who
\* asked, SERVER during the handshake, and the rest only from a linked server.
\* cmd_server and the CMD_SERVER check of parse2 never have to turn one away.
InStep ==
    \A s, t \in Server : chan[t][s] # <<>> =>
        LET m == Head(chan[t][s])
        IN  CASE m.type = "EAUTH" /\ ~m.reply -> conn[s][t] = "none" \/ <<s, t>> \in dead
              [] m.type = "EAUTH" /\ m.reply -> conn[s][t] = "out"
              [] m.type = "SERVER" -> conn[s][t] \in {"in", "sent"}
              [] OTHER -> conn[s][t] = "up"

Linked(s, t) ==
    /\ conn[s][t] = "up" /\ conn[t][s] = "up"
    /\ <<s, t>> \notin dead /\ <<t, s>> \notin dead

\* s and t are linked and nothing is in flight between them
Synced(s, t) == Linked(s, t) /\ chan[s][t] = <<>> /\ chan[t][s] = <<>>

\* Two linked servers with nothing in flight have the same registered users
\* (nicks and timestamps included) and the same servers, whatever collided,
\* split or crossed before, as long as no operator interferes.
LinkAgreement ==
    \A s, t \in Server : Synced(s, t) =>
        Registered(s) = Registered(t) /\ Servers(s) = Servers(t)

\* With operators too there are no ghosts: what a server knows behind a
\* synced neighbour that neighbour knows as well, and not behind the server.
NoGhosts ==
    \A s, t \in Server : Synced(s, t) =>
        /\ \A r \in Registered(s) :
              Direction(s, r.uid) = t => r \in Registered(t) /\ Direction(t, r.uid) # s
        /\ \A x \in Servers(s) : dir[s][x] = t => Known(t, x) /\ dir[t][x] # s

\* Nothing in flight anywhere, and every closed connection noticed
Quiet == dead = {} /\ \A s, t \in Server : chan[s][t] = <<>>

\* Link blocks may form a ring, the network may not: whatever servers connect
\* at the same time, PROTOCTL SERVERS=, "Server Exists" and the SQUITs of
\* cmd_sid leave no cycle of links once things are quiet.
NoLoop ==
    Quiet => \A S \in (SUBSET Server) \ {{}} :
        \E s \in S : Cardinality({t \in S : Linked(s, t)}) < 2

\* A network left alone becomes quiet: the KILLs of ghosts, the QUITs that
\* answer KILLs and the SQUITs of duplicates never feed each other for ever.
Settles == <>[]Quiet
=============================================================================
