----------------------------- MODULE ChannelSync -----------------------------
(***************************************************************************)
(* One channel on a network of UnrealIRCd servers: JOIN, PART, KICK and    *)
(* MODE of local users, their propagation (SJOIN, PART, KICK, MODE), and   *)
(* the timestamp merge of cmd_sjoin when two parts of the network link     *)
(* again after a split in which both changed the channel.                  *)
(*                                                                         *)
(* The network is a tree of servers whose links go up and down; how a link *)
(* is agreed on, and that no cycle arises, is the business of module       *)
(* Network.  A user is known where its server is known.                    *)
(***************************************************************************)
EXTENDS Integers, Sequences, FiniteSets

CONSTANTS
    Server,       \* servers
    Edge,         \* pairs {s, t} that may link; they form a tree
    Hop,          \* Hop[s][x]: the neighbour of s on the path to x
    User,         \* registered users
    Home,         \* [User -> Server]
    TS,           \* channel creation times (TStime() of whoever creates it)
    Limit,        \* parameters of +l
    ModesOnJoin,  \* set::modes-on-join: one of "s" and "p", or None
    None,
    Calm,         \* subset of {"users", "links"}: what waits for earlier events to
                  \* settle (users act and links fail only while nothing is in
                  \* flight, links come up also during the burst of others)
    MaxOp,        \* bound: actions of users
    MaxKick,      \* bound: how many of them may be a KICK
    MaxMode,      \* bound: how many of them may be a MODE
    MaxLink       \* bound: links made in a behaviour

ASSUME ConstantsAssumption ==
    /\ Edge \subseteq {{s, t} : s, t \in Server}
    /\ Hop \in [Server -> [Server -> Server]]
    /\ Home \in [User -> Server]
    /\ TS \subseteq Nat \ {0} /\ Limit \subseteq Nat \ {0}
    /\ ModesOnJoin \in {"s", "p", None}
    /\ None \notin Server \cup User \cup Limit
    /\ Calm \subseteq {"users", "links"}
    /\ MaxOp \in Nat /\ MaxKick \in Nat /\ MaxMode \in Nat /\ MaxLink \in Nat

\* The servers that s reaches through its neighbour t
Across(s, t) == {x \in Server \ {s} : Hop[s][x] = t}

\* Links form a tree: each one cuts the network in two, and the servers of one
\* half reach all of the other half the way they reach their end of the link.
ASSUME TreeAssumption ==
    \A s, t \in Server : {s, t} \in Edge /\ s # t =>
        /\ t \in Across(s, t)
        /\ Across(t, s) = Server \ Across(s, t)
        /\ \A x \in Across(s, t) \ {t}, y \in Across(t, s) : Hop[x][y] = Hop[x][t]

VARIABLES
    conn,    \* conn[s][t]: s's end of the link with t
    known,   \* known[s]: the servers in s's tables
    chan,    \* chan[s][t]: messages in flight from s to t
    ch,      \* ch[s]: the channel at s
    nop, nkick, nmode, nlink  \* what the bounds count

vars == <<conn, known, chan, ch, nop, nkick, nmode, nlink>>
counters == <<nop, nkick, nmode, nlink>>

-----------------------------------------------------------------------------
(***************************************************************************)
(* The channel: creation time, members, the ones with +o, +s and +p, the   *)
(* limit of +l (0: not set), the users that a ban mask matches.            *)
(***************************************************************************)
Flag == {"s", "p"}
Channel == [ts : TS \cup {0}, members : SUBSET User, ops : SUBSET User,
            modes : SUBSET Flag, lim : Limit \cup {0}, bans : SUBSET User]

NoChannel ==
    [ts |-> 0, members |-> {}, ops |-> {}, modes |-> {}, lim |-> 0, bans |-> {}]
Exists(c) == c.members # {}

\* Mutant: the creation time and the modes outlive the last member
KeepEmpty(c) == c

\* sub1_from_channel: the last member leaves, the channel is destroyed
DestroyIfEmpty(c) == IF Exists(c) THEN c ELSE NoChannel

Leave(c, S) == DestroyIfEmpty([c EXCEPT !.members = @ \ S, !.ops = @ \ S])

\* +s and +p exclude each other; when two sides differ, +s wins
MergeFlags(f, g) == IF "s" \in f \cup g THEN (f \cup g) \ {"p"} ELSE f \cup g

\* cmode_limit_sjoin_check: the highest limit wins
MergeLimit(k, l) == IF k > l THEN k ELSE l

(***************************************************************************)
(* A mode change: [mode, add, arg].  What it makes of the channel; one     *)
(* that makes no difference is not reported by set_mode and not sent on.   *)
(***************************************************************************)
Change ==
    [mode : {"o", "b"}, add : BOOLEAN, arg : User]
        \cup [mode : Flag, add : BOOLEAN, arg : {None}]
        \cup [mode : {"l"}, add : {TRUE}, arg : Limit]
        \cup [mode : {"l", ""}, add : {FALSE}, arg : {None}]

Nothing == [mode |-> "", add |-> FALSE, arg |-> None]   \* an empty MODE

Toggle(S, d, x) == IF d.add THEN S \cup {x} ELSE S \ {x}

SetMode(c, d) ==
    IF d.mode = "o" THEN IF d.arg \in c.members THEN [c EXCEPT !.ops = Toggle(@, d, d.arg)] ELSE c
    ELSE IF d.mode = "b" THEN [c EXCEPT !.bans = Toggle(@, d, d.arg)]
    ELSE IF d.mode = "l" THEN [c EXCEPT !.lim = IF d.add THEN d.arg ELSE 0]
    ELSE IF d.mode \in Flag THEN [c EXCEPT !.modes = Toggle(IF d.add THEN {} ELSE @, d, d.mode)]
    ELSE c

-----------------------------------------------------------------------------
(* Messages *)

Msg ==
    [type : {"SERVER", "SID"}, ids : SUBSET Server]
        \cup [type : {"SQUIT"}, id : Server]
        \cup [type : {"EOF"}]
        \cup [type : {"SJOIN"}, ts : TS, members : SUBSET User, ops : SUBSET User,
              modes : SUBSET Flag, lim : Limit \cup {0}, bans : SUBSET User]
        \cup [type : {"PART", "KICK"}, user : User]
        \cup [type : {"MODE"}, ts : TS \cup {0}, change : Change]

SERVER(ids) == [type |-> "SERVER", ids |-> ids]
SID(ids) == [type |-> "SID", ids |-> ids]
SQUIT(id) == [type |-> "SQUIT", id |-> id]
EOF == [type |-> "EOF"]   \* the other end closed the connection
SJOIN(ts, members, ops, modes, lim, bans) ==
    [type |-> "SJOIN", ts |-> ts, members |-> members, ops |-> ops,
     modes |-> modes, lim |-> lim, bans |-> bans]
PART(u) == [type |-> "PART", user |-> u]
KICK(u) == [type |-> "KICK", user |-> u]
MODE(ts, d) == [type |-> "MODE", ts |-> ts, change |-> d]  \* ts 0: from a user

(***************************************************************************)
(* send_channel_modes_sjoin3: modes and the first members in one line,     *)
(* what does not fit, and the bans, in a second one without modes.         *)
(***************************************************************************)
Bursts(c) ==
    IF ~Exists(c) THEN {<<>>}
    ELSE {<<SJOIN(c.ts, c.members, c.ops, c.modes, c.lim, c.bans)>>} \cup
         {<<SJOIN(c.ts, first, c.ops \cap first, c.modes, c.lim, {}),
            SJOIN(c.ts, c.members \ first, c.ops \ first, {}, 0, c.bans)>> :
              first \in {S \in SUBSET c.members : S # {} /\ (S = c.members => c.bans # {})}}

-----------------------------------------------------------------------------
(* cmd_sjoin *)

\* Mutant: their modes are merged though our channel is older
TheirsCountAlways(c, ts) == TRUE

\* Do their modes, statuses and bans count?  (not removetheirs)
TheirsCount(c, ts) == ~Exists(c) \/ ts <= c.ts

\* Mutant: a younger channel is taken over just like an older one
OursYield(c, ts) ==
    IF ~Exists(c) THEN [NoChannel EXCEPT !.ts = ts]
    ELSE IF ts # c.ts THEN [NoChannel EXCEPT !.ts = ts, !.members = c.members]
    ELSE c

\* The channel before theirs is added: created, stripped (removeours) or as is
Ours(c, ts) ==
    IF ~Exists(c) THEN [NoChannel EXCEPT !.ts = ts]
    ELSE IF ts < c.ts THEN [NoChannel EXCEPT !.ts = ts, !.members = c.members]
    ELSE c

\* The channel after the SJOIN m with users 'new' of m that s knows.  The
\* status of a user that is a member already is shown but not stored.
Sjoin(c, m, new) ==
    LET o == Ours(c, m.ts)
        joined == [o EXCEPT !.members = @ \cup new]
        merged == [ts |-> o.ts,
                   members |-> o.members \cup new,
                   ops |-> o.ops \cup ((m.ops \cap new) \ c.members),
                   modes |-> MergeFlags(o.modes, m.modes),
                   lim |-> MergeLimit(o.lim, m.lim),
                   bans |-> o.bans \cup m.bans]
    IN  DestroyIfEmpty(IF TheirsCount(c, m.ts) THEN merged ELSE joined)

\* What is sent on: the line as it came, less what was skipped
SjoinOn(c, m, new) ==
    [m EXCEPT !.members = new, !.ops = @ \cap new,
              !.bans = IF TheirsCount(c, m.ts) THEN @ ELSE {}]

-----------------------------------------------------------------------------
(* Links *)

ConnState == {"none", "out", "up"}
Up(s) == {t \in Server : conn[s][t] = "up"}
KnownUsers(s) == {u \in User : Home[u] \in known[s]}

\* x and what lies beyond it, seen from s
Beyond(s, x) == {y \in Server : y = x \/ Hop[x][y] # Hop[x][s]}

\* s sends out[t] to every t whose end of the connection is open
Deliver(c, s, out) ==
    [c EXCEPT ![s] = [t \in Server |->
        IF conn[t][s] # "none" THEN @[t] \o out[t] ELSE @[t]]]
Consume(s, t) == [chan EXCEPT ![t][s] = Tail(@)]
ToOthers(s, t, m) == [x \in Server |-> IF x \in Up(s) \ {t} THEN <<m>> ELSE <<>>]
Receives(s, t, type) == chan[t][s] # <<>> /\ Head(chan[t][s]).type = type

Quiet == \A s, t \in Server : chan[s][t] = <<>>
Merging == \A s, t \in Server : \A i \in DOMAIN chan[s][t] :
    chan[s][t][i].type \in {"SERVER", "SID", "SJOIN"}

\* t connects to s and they agree; s is first to run server_sync: it tells
\* the others and bursts to t.
Link(s, t) ==
    /\ nlink < MaxLink /\ nlink' = nlink + 1
    /\ "links" \in Calm => Merging
    /\ {s, t} \in Edge /\ s # t
    /\ conn[s][t] = "none" /\ conn[t][s] = "none"
    /\ chan[s][t] = <<>> /\ chan[t][s] = <<>>
    /\ conn' = [conn EXCEPT ![s][t] = "up", ![t][s] = "out"]
    /\ known' = [known EXCEPT ![s] = @ \cup {t}]
    /\ \E burst \in Bursts(ch[s]) :
          chan' = [Deliver(chan, s, ToOthers(s, t, SID({t})))
                     EXCEPT ![s][t] = <<SERVER(known[s])>> \o burst]
    /\ UNCHANGED <<ch, nop, nkick, nmode>>

\* The end that connected reads SERVER and runs server_sync in turn.
RecvSERVER(s, t) ==
    /\ Receives(s, t, "SERVER")
    /\ LET ids == Head(chan[t][s]).ids
       IN  /\ conn' = [conn EXCEPT ![s][t] = "up"]
           /\ known' = [known EXCEPT ![s] = @ \cup ids]
           /\ \E burst \in Bursts(ch[s]) :
                 chan' = Deliver(Consume(s, t), s,
                            [ToOthers(s, t, SID(ids)) EXCEPT ![t] = <<SID(known[s])>> \o burst])
    /\ UNCHANGED <<ch, counters>>

RecvSID(s, t) ==
    /\ Receives(s, t, "SID")
    /\ LET ids == Head(chan[t][s]).ids
       IN  /\ known' = [known EXCEPT ![s] = @ \cup ids]
           /\ chan' = Deliver(Consume(s, t), s, ToOthers(s, t, SID(ids)))
    /\ UNCHANGED <<conn, ch, counters>>

\* Mutant: the users of lost servers stay on the channel
ForgetNot(s, gone) ==
    /\ known' = [known EXCEPT ![s] = @ \ gone]
    /\ UNCHANGED ch

\* recurse_remove_clients: the lost servers and their users leave
Forget(s, gone) ==
    /\ known' = [known EXCEPT ![s] = @ \ gone]
    /\ ch' = [ch EXCEPT ![s] = Leave(@, {u \in User : Home[u] \in gone})]

RecvSQUIT(s, t) ==
    /\ Receives(s, t, "SQUIT")
    /\ LET id == Head(chan[t][s]).id
           target == IF id = s THEN t ELSE id
       IN  /\ Forget(s, Beyond(s, target))
           /\ chan' = Deliver(Consume(s, t), s, ToOthers(s, t, SQUIT(target)))
    /\ UNCHANGED <<conn, counters>>

\* s loses its link with t, on its own (ping timeout, error) or reading EOF
CloseLink(s, t) ==
    /\ conn' = [conn EXCEPT ![s][t] = "none"]
    /\ Forget(s, IF conn[s][t] = "up" THEN Beyond(s, t) ELSE {})
    /\ chan' = [Deliver(chan, s, IF conn[s][t] = "up" THEN ToOthers(s, t, SQUIT(t))
                                 ELSE [x \in Server |-> <<>>])
                  EXCEPT ![t][s] = <<>>,
                         ![s][t] = IF conn[t][s] # "none" THEN Append(@, EOF) ELSE <<>>]
    /\ UNCHANGED counters

LoseLink(s, t) ==
    /\ conn[s][t] # "none"
    /\ "links" \in Calm => Quiet
    /\ CloseLink(s, t)
ReadEOF(s, t) == Receives(s, t, "EOF") /\ CloseLink(s, t)

-----------------------------------------------------------------------------
(* Local users *)

\* What a step of user u at s may always rely on
Acts(u) ==
    /\ nop < MaxOp /\ nop' = nop + 1
    /\ "users" \in Calm => Quiet
    /\ UNCHANGED <<conn, known, nlink>>

\* s's channel becomes c and every neighbour is sent msgs
Update(s, c, msgs) ==
    /\ ch' = [ch EXCEPT ![s] = c]
    /\ chan' = Deliver(chan, s, [x \in Server |-> IF x \in Up(s) THEN msgs ELSE <<>>])

\* JOIN of a channel that does not exist: it is created, with the creator
\* as channel operator and the modes of set::modes-on-join.
JoinNew(u, ts) ==
    LET s == Home[u]
        d == [mode |-> ModesOnJoin, add |-> TRUE, arg |-> None]
        c == [NoChannel EXCEPT !.ts = ts, !.members = {u}, !.ops = {u}]
        line == SJOIN(ts, {u}, {u}, {}, 0, {})
    IN  /\ Acts(u) /\ ~Exists(ch[s])
        /\ IF ModesOnJoin = None THEN Update(s, c, <<line>>)
           ELSE Update(s, SetMode(c, d), <<line, MODE(ts, d)>>)
        /\ UNCHANGED <<nkick, nmode>>

\* JOIN of an existing channel: the limit and the bans must allow it.
JoinExisting(u) ==
    LET s == Home[u]
        c == ch[s]
    IN  /\ Acts(u) /\ Exists(c) /\ u \notin c.members
        /\ c.lim = 0 \/ Cardinality(c.members) < c.lim
        /\ u \notin c.bans
        /\ Update(s, [c EXCEPT !.members = @ \cup {u}],
                  <<SJOIN(c.ts, {u}, {}, {}, 0, {})>>)
        /\ UNCHANGED <<nkick, nmode>>

Part(u) ==
    LET s == Home[u]
    IN  /\ Acts(u) /\ u \in ch[s].members
        /\ Update(s, Leave(ch[s], {u}), <<PART(u)>>)
        /\ UNCHANGED <<nkick, nmode>>

Kick(u, v) ==
    LET s == Home[u]
    IN  /\ Acts(u) /\ u \in ch[s].ops /\ v \in ch[s].members
        /\ nkick < MaxKick /\ nkick' = nkick + 1
        /\ Update(s, Leave(ch[s], {v}), <<KICK(v)>>)
        /\ UNCHANGED nmode

ChangeMode(u, d) ==
    LET s == Home[u]
    IN  /\ Acts(u) /\ u \in ch[s].ops /\ SetMode(ch[s], d) # ch[s]
        /\ nmode < MaxMode /\ nmode' = nmode + 1
        /\ Update(s, SetMode(ch[s], d), <<MODE(0, d)>>)
        /\ UNCHANGED nkick

-----------------------------------------------------------------------------
(* Messages about the channel *)

\* s reads the message from t, its channel becomes c, msgs go to the others
Handle(s, t, c, msgs) ==
    /\ ch' = [ch EXCEPT ![s] = c]
    /\ chan' = Deliver(Consume(s, t), s,
                       [x \in Server |-> IF x \in Up(s) \ {t} THEN msgs ELSE <<>>])
    /\ UNCHANGED <<conn, known, counters>>

\* Mutant: the limit is checked again where the JOIN arrives
RecvSJOINLimited(s, t) ==
    /\ Receives(s, t, "SJOIN")
    /\ LET m == Head(chan[t][s])
           c == ch[s]
           new == IF c.lim = 0 \/ Cardinality(c.members) < c.lim
                  THEN m.members \cap KnownUsers(s) ELSE {}
       IN  Handle(s, t, Sjoin(c, m, new), <<SjoinOn(c, m, new)>>)

RecvSJOIN(s, t) ==
    /\ Receives(s, t, "SJOIN")
    /\ LET m == Head(chan[t][s])
           new == m.members \cap KnownUsers(s)
       IN  Handle(s, t, Sjoin(ch[s], m, new), <<SjoinOn(ch[s], m, new)>>)

\* PART and KICK: dropped when the user is not, or no longer, a member
RecvLeave(s, t) ==
    /\ Receives(s, t, "PART") \/ Receives(s, t, "KICK")
    /\ LET m == Head(chan[t][s])
       IN  IF m.user \in ch[s].members
           THEN Handle(s, t, Leave(ch[s], {m.user}), <<m>>)
           ELSE Handle(s, t, ch[s], <<>>)

\* A MODE of a server with an earlier timestamp corrects ours.
ModeTs(c, ts) == IF ts = 0 THEN c ELSE [c EXCEPT !.ts = IF ts < @ THEN ts ELSE @]

\* MODE: of a user (no timestamp), or of a server for its modes-on-join.  One
\* that only corrects the timestamp is sent on as an empty MODE.
RecvMODE(s, t) ==
    /\ Receives(s, t, "MODE")
    /\ LET m == Head(chan[t][s])
           c == ch[s]
           dated == ModeTs(c, m.ts)
           new == SetMode(dated, m.change)
       IN  IF ~Exists(c) \/ m.ts > c.ts \/ new = c THEN Handle(s, t, c, <<>>)
           ELSE Handle(s, t, new, <<IF new = dated THEN MODE(m.ts, Nothing) ELSE m>>)

-----------------------------------------------------------------------------
Init ==
    /\ conn = [s \in Server |-> [t \in Server |-> "none"]]
    /\ known = [s \in Server |-> {s}]
    /\ chan = [s \in Server |-> [t \in Server |-> <<>>]]
    /\ ch = [s \in Server |-> NoChannel]
    /\ nop = 0 /\ nkick = 0 /\ nmode = 0 /\ nlink = 0

UserStep ==
    \E u \in User :
        \/ \E ts \in TS : JoinNew(u, ts)
        \/ JoinExisting(u)
        \/ Part(u)
        \/ \E v \in User : Kick(u, v)
        \/ \E d \in Change : ChangeMode(u, d)

Receive(s, t) ==
    \/ RecvSERVER(s, t) \/ RecvSID(s, t) \/ RecvSQUIT(s, t) \/ ReadEOF(s, t)
    \/ RecvSJOIN(s, t) \/ RecvLeave(s, t) \/ RecvMODE(s, t)

Next ==
    \/ UserStep
    \/ \E s, t \in Server : Link(s, t) \/ LoseLink(s, t) \/ Receive(s, t)

Spec == Init /\ [][Next]_vars

-----------------------------------------------------------------------------
(* Properties *)

\* Operators are members, +s and +p exclude each other, and a channel
\* without members is no channel.
WellFormed(c) ==
    /\ c \in Channel
    /\ c.ops \subseteq c.members
    /\ ~({"s", "p"} \subseteq c.modes)
    /\ IF Exists(c) THEN c.ts \in TS ELSE c = NoChannel

\* Types of the variables; every server's channel is well-formed: destroyed
\* with its last member, whatever SJOIN, PART, KICK, MODE or split did that.
TypeOK ==
    /\ conn \in [Server -> [Server -> ConnState]]
    /\ known \in [Server -> SUBSET Server]
    /\ chan \in [Server -> [Server -> Seq(Msg)]]
    /\ ch \in [Server -> Channel] /\ \A s \in Server : WellFormed(ch[s])
    /\ nop \in 0..MaxOp /\ nkick \in 0..MaxKick
    /\ nmode \in 0..MaxMode /\ nlink \in 0..MaxLink

Linked(s, t) == conn[s][t] = "up" /\ conn[t][s] = "up"
Synced(s, t) == Linked(s, t) /\ chan[s][t] = <<>> /\ chan[t][s] = <<>>

\* Every member is a user that the server knows: a netsplit takes the users
\* behind the lost server off the channel, and no SJOIN brings them back.
MembersKnown ==
    \A s \in Server : ch[s].members \subseteq KnownUsers(s)

\* Two linked servers with nothing in flight agree on the members, whatever
\* JOINs, PARTs, channel creations, MODEs, bursts and splits crossed before.
MembersAgree ==
    \A s, t \in Server : Synced(s, t) => ch[s].members = ch[t].members

\* After splits in which both sides went their own way, and whatever links
\* come up while others are still bursting (cmd_sjoin merges, and passes on
\* what it read), two linked servers with nothing in flight have the very same
\* channel: creation time, members, operators, modes, limit and bans.
ChannelAgreement ==
    \A s, t \in Server : Synced(s, t) => ch[s] = ch[t]

\* The creation time of a channel never rises as long as the channel exists.
TsOnlyFalls ==
    [][\A s \in Server : Exists(ch[s]) /\ Exists(ch'[s]) => ch'[s].ts <= ch[s].ts]_vars
=============================================================================
