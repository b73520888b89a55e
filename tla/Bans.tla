-------------------------------- MODULE Bans --------------------------------
(***************************************************************************)
(* Server bans, shuns and ban exceptions (the TKL layer, tkl.c), their     *)
(* database (tkldb.c) and the check of connected users (ircd.c).           *)
(*                                                                         *)
(* Servers are linked in a tree.  Bans are added, merged and removed by    *)
(* messages; they expire on each server by its own clock; a server saves   *)
(* them now and then, and may stop or crash and come back with what it has *)
(* on disk.  One user at most is connected to each server; every ban of    *)
(* Kill and every exception matches it, and so do the shuns of MatchUser.  *)
(***************************************************************************)
EXTENDS Integers, Sequences, FiniteSets

CONSTANTS
    Server, Edge,    \* servers, and the links there may be: a forest
    Tkldb,           \* servers with the tkldb module
    Host,            \* servers with users (a hub may have none)
    Kill, Shun,      \* keys (type and mask) of bans that end or muzzle a user
    Exception,       \* keys of E-lines
    MatchUser,       \* the shuns that apply to the user: match_user, and soft shuns
    MatchSimple,     \* the shuns whose masks match_simple matches with the user
    KeyOrder,        \* the order in which tkl_sync walks the lists
    None,
    Oper,            \* the keys that the operator of a server may set and remove
    Mark,            \* its set_by and the random id of its bans, in the order of strcmp
    Duration,        \* seconds a ban may be set for; 0: for ever
    ExceptionDuration,
    Skew,            \* how far a server's clock is ahead
    SaveEvery,       \* TKLDB_SAVE_EVERY
    SaveDelta,       \* TKLDB_SAVE_EVERY_DELTA
    Fragile,         \* bound: servers that stop or crash
    MaxTime, MaxSet, MaxRemove, MaxConnect, MaxDown, MaxUser, MaxRehash \* bounds

Key == Kill \cup Shun \cup Exception

\* An entry: when it was set and when it ends, who set it, and its id
Entry == [set_at : Nat, expire_at : Nat, set_by : {Mark[s][1] : s \in Server},
          id : {Mark[s][2] : s \in Server}]

ASSUME BansAssumption ==
    /\ Kill \cap Shun = {} /\ Exception \cap (Kill \cup Shun) = {}
    /\ MatchUser \subseteq Shun /\ MatchSimple \subseteq Shun
    /\ KeyOrder \in Seq(Key) /\ \A k \in Key : \E i \in DOMAIN KeyOrder : KeyOrder[i] = k
    /\ Edge \subseteq SUBSET Server /\ \A e \in Edge : Cardinality(e) = 2
    /\ Tkldb \subseteq Server /\ Fragile \subseteq Server /\ Host \subseteq Server
    /\ Oper \in [Server -> SUBSET Key] /\ Mark \in [Server -> Nat \X Nat]
    /\ Duration \subseteq Nat /\ ExceptionDuration \subseteq Nat
    /\ Skew \in [Server -> Nat] /\ SaveEvery \in Nat \ {0} /\ SaveDelta \in Nat
    /\ None \notin Entry

VARIABLES
    tkl,      \* tkl[s][k]: the entry, None if s has none
    linked,   \* <<s, t>>: t is in the server_list of s
    wire,     \* wire[s][t]: what s has sent to t, not yet read
    user,     \* user[s]: "none", "user", "shunned"
    bancheck, \* bancheck[s]: loop.do_bancheck, kept only where there are users
    exempt,   \* exempt[s]: an except ban block of the configuration matches the user
    db,       \* db[s]: what the database file holds
    running,  \* servers that run
    due,      \* due[s]: tkldb_next_event
    now,
    spent,    \* how much of each bound is used up
    hist      \* hist: what the properties remember

vars == <<tkl, linked, wire, user, bancheck, exempt, db, running, due, now, spent, hist>>

Clock(s) == now + Skew[s]
Pairs == {p \in Server \X Server : {p[1], p[2]} \in Edge}
Neighbours(s) == {t \in Server : <<s, t>> \in linked}

\* expire_at = 0: the ban is for ever
Expired(e, time) == e.expire_at # 0 /\ e.expire_at <= time

Spend(what) == spent' = [spent EXCEPT ![what] = @ + 1]

-----------------------------------------------------------------------------
(* The entry that two servers agree on *)

Max2(x, y) == IF x < y THEN y ELSE x
Min2(x, y) == IF x < y THEN x ELSE y

\* Mutant: the duration that arrived last wins
LongestLast(x, y) == y

\* expire_at: longest wins
Longest(x, y) == IF x = 0 \/ y = 0 THEN 0 ELSE Max2(x, y)

\* The id of the older of two entries; of two as old, the smaller one
NewIdWins(old, new) ==
    new.set_at < old.set_at \/ (new.set_at = old.set_at /\ new.id < old.id)

\* Whether the message differs from the entry in a way that counts
Differs(old, new) ==
    \/ NewIdWins(old, new)
    \/ new.set_at < old.set_at \/ new.expire_at # old.expire_at \/ new.set_by # old.set_by

\* cmd_tkl_add for an entry that exists
Merge(old, new) ==
    [set_at |-> Min2(old.set_at, new.set_at),
     expire_at |-> Longest(old.expire_at, new.expire_at),
     set_by |-> Max2(old.set_by, new.set_by),
     id |-> IF NewIdWins(old, new) THEN new.id ELSE old.id]

-----------------------------------------------------------------------------
(* Messages between linked servers *)

Hello == [op |-> "SERVER"]
Add(k, e) == [op |-> "+", key |-> k, entry |-> e]
Del(k) == [op |-> "-", key |-> k]

\* tkl_broadcast_entry: the wires w after s has sent msg to all but skip
Broadcast(w, s, skip, msg) ==
    [w EXCEPT ![s] = [t \in Server |->
        IF t \in Neighbours(s) \ {skip} THEN Append(w[s][t], msg) ELSE w[s][t]]]

\* The numbers in S, the smallest first
Ascending(S) ==
    CHOOSE q \in [1..Cardinality(S) -> S] : \A i, j \in DOMAIN q : i < j => q[i] < q[j]

\* tkl_sync: every entry, in the order of the lists
Sync(s) ==
    LET held == {i \in DOMAIN KeyOrder : tkl[s][KeyOrder[i]] # None}
        walk == Ascending(held)
    IN  [i \in DOMAIN walk |-> Add(KeyOrder[walk[i]], tkl[s][KeyOrder[walk[i]]])]

-----------------------------------------------------------------------------
(* Connected users *)

\* find_tkl_exception, given the entries t of s
Excepted(t, s) == exempt[s] \/ \E k \in Exception : t[k] # None

\* find_tkline_match
Killed(t, s) == ~Excepted(t, s) /\ \E k \in Kill : t[k] # None

\* find_shun: match_user knows addresses with a prefix length and extended bans,
\* and a soft shun does not apply to a user who has logged in
Shunned(t, s) == ~Excepted(t, s) /\ \E k \in MatchUser : t[k] # None

\* Mutant: the shun ends only with the last entry, not with the last shun
UnshunnedLate(u, gone, t) ==
    IF u = "shunned" /\ gone \cap MatchSimple # {} /\ \A k \in Key \ gone : t[k] = None
    THEN "user" ELSE u

\* tkl_check_local_remove_shun: the entries in gone go, and so does the shun of
\* the user if one of them matches it and no other does.  Both questions are
\* put to match_simple, which knows wildcards only, and not to match_user
Unshunned(u, gone, t) ==
    IF u = "shunned" /\ gone \cap MatchSimple # {} /\ \A k \in MatchSimple \ gone : t[k] = None
    THEN "user" ELSE u

\* The shuns that one of match_user and match_simple matches with the user and
\* the other does not: CIDR ranges, extended bans, soft shuns
Disputed == (MatchUser \ MatchSimple) \cup (MatchSimple \ MatchUser)

\* What hist remembers: a shun of the user went while such an entry was there
Misread(u, gone, t) ==
    /\ u = "shunned" /\ gone \cap (MatchUser \cup MatchSimple) # {}
    /\ \E k \in Disputed : t[k] # None

-----------------------------------------------------------------------------
Init ==
    /\ tkl = [s \in Server |-> [k \in Key |-> None]]
    /\ linked = {}
    /\ wire = [s \in Server |-> [t \in Server |-> <<>>]]
    /\ user = [s \in Server |-> "none"]
    /\ bancheck = [s \in Server |-> FALSE]
    /\ exempt = [s \in Server |-> FALSE]
    /\ db = [s \in Server |-> [k \in Key |-> None]]
    /\ running = Server
    /\ due = [s \in Server |-> SaveEvery + SaveDelta + Skew[s]]
    /\ now = 0
    /\ spent = [b \in {"set", "remove", "connect", "down", "user", "rehash"} |-> 0]
    /\ hist = [removed |-> FALSE, expired |-> FALSE,
               lapsed |-> [s \in Server |-> FALSE],
               misread |-> [s \in Server |-> FALSE],
               failed |-> [s \in Server |-> FALSE],
               changed |-> [s \in Server |-> [k \in Key |-> 0]]]

\* The time of a change, for SavedInTime
When(s) == IF s \in Tkldb THEN Clock(s) ELSE 0

\* s stores e under k; hist remembers when
Store(s, k, e) ==
    /\ tkl' = [tkl EXCEPT ![s][k] = e]
    /\ hist' = [hist EXCEPT !.changed[s][k] = When(s)]

\* tkl_added: a new entry asks for the check of users, whatever its type
TklAdded(s, from, w, k, e) ==
    /\ bancheck' = [bancheck EXCEPT ![s] = s \in Host]
    /\ wire' = Broadcast(w, s, from, Add(k, e))

\* cmd_tkl_add: w are the wires after the message, if any, was read
TklAdd(s, from, w, k, e) ==
    IF tkl[s][k] = None
    THEN Store(s, k, e) /\ TklAdded(s, from, w, k, e)
    ELSE /\ UNCHANGED bancheck
         /\ IF Differs(tkl[s][k], e)
            THEN LET m == Merge(tkl[s][k], e)
                 IN  Store(s, k, m) /\ wire' = Broadcast(w, s, from, Add(k, m))
            ELSE wire' = w /\ UNCHANGED <<tkl, hist>>

\* Mutant: the users are not checked when an exception goes
TklDelNoCheck(s, from, w, k) ==
    IF tkl[s][k] = None
    THEN wire' = w /\ UNCHANGED <<tkl, hist, user, bancheck>>
    ELSE /\ user' = [user EXCEPT ![s] = Unshunned(@, {k}, tkl[s])]
         /\ wire' = Broadcast(w, s, from, Del(k))
         /\ UNCHANGED bancheck
         /\ tkl' = [tkl EXCEPT ![s][k] = None]
         /\ hist' = [hist EXCEPT !.changed[s][k] = When(s), !.removed = TRUE,
                        !.misread[s] = @ \/ Misread(user[s], {k}, tkl[s])]

\* cmd_tkl_del
TklDel(s, from, w, k) ==
    IF tkl[s][k] = None
    THEN wire' = w /\ UNCHANGED <<tkl, hist, user, bancheck>>
    ELSE /\ user' = [user EXCEPT ![s] = Unshunned(@, {k}, tkl[s])]
         /\ wire' = Broadcast(w, s, from, Del(k))
         /\ bancheck' = [bancheck EXCEPT ![s] = @ \/ (s \in Host /\ k \in Exception)]
         /\ tkl' = [tkl EXCEPT ![s][k] = None]
         /\ hist' = [hist EXCEPT !.changed[s][k] = When(s), !.removed = TRUE,
                        !.misread[s] = @ \/ Misread(user[s], {k}, tkl[s])]

\* What the operator of s sends to cmd_tkl_add, for d seconds
Set(s, k, d) ==
    /\ s \in running /\ k \in Oper[s] /\ spent.set < MaxSet
    /\ TklAdd(s, s, wire, k,
              [set_at |-> Clock(s), expire_at |-> IF d = 0 THEN 0 ELSE Clock(s) + d,
               set_by |-> Mark[s][1], id |-> Mark[s][2]])
    /\ Spend("set")
    /\ UNCHANGED <<linked, user, exempt, db, running, due, now>>

\* cmd_tkl_line: a ban that s does not have (xline_exists)
SetBan(s, k) ==
    /\ k \notin Exception /\ tkl[s][k] = None
    /\ \E d \in Duration : Set(s, k, d)

\* cmd_eline: an exception, which may exist
SetException(s, k) ==
    /\ k \in Exception
    /\ \E d \in ExceptionDuration : Set(s, k, d)

\* The same commands with a minus
RemoveBan(s, k) ==
    /\ s \in running /\ k \in Oper[s] /\ spent.remove < MaxRemove
    /\ tkl[s][k] # None
    /\ TklDel(s, s, wire, k)
    /\ Spend("remove")
    /\ UNCHANGED <<linked, exempt, db, running, due, now>>

\* s reads the first message of t
Recv(s, t) ==
    /\ wire[t][s] # <<>>
    /\ LET m == Head(wire[t][s])
           w == [wire EXCEPT ![t][s] = Tail(@)]
       IN  \/ /\ m.op = "SERVER"
              /\ linked' = linked \cup {<<s, t>>}
              /\ wire' = [w EXCEPT ![s][t] = Sync(s)]
              /\ UNCHANGED <<tkl, user, bancheck, hist>>
           \/ /\ m.op = "+"
              /\ TklAdd(s, t, w, m.key, m.entry)
              /\ UNCHANGED <<linked, user>>
           \/ /\ m.op = "-"
              /\ TklDel(s, t, w, m.key)
              /\ UNCHANGED linked
    /\ UNCHANGED <<exempt, db, running, due, now, spent>>

-----------------------------------------------------------------------------
(* Links *)

\* t accepts the connection of s: it introduces itself and sends its entries;
\* s will do so when it reads the introduction
Connect(s, t) ==
    /\ {s, t} \in Edge /\ s \in running /\ t \in running /\ spent.connect < MaxConnect
    /\ <<s, t>> \notin linked /\ <<t, s>> \notin linked
    /\ linked' = linked \cup {<<t, s>>}
    /\ wire' = [wire EXCEPT ![t][s] = <<Hello>> \o Sync(t)]
    /\ Spend("connect")
    /\ UNCHANGED <<tkl, user, bancheck, exempt, db, running, due, now, hist>>

\* Mutant: only one side forgets the link
CutOneWay(gone) ==
    /\ linked' = linked \ {CHOOSE p \in gone : TRUE}
    /\ wire' = [s \in Server |-> [t \in Server |->
                  IF <<s, t>> \in gone \/ <<t, s>> \in gone THEN <<>> ELSE wire[s][t]]]

\* The links in gone break; what was under way is lost
Cut(gone) ==
    /\ linked' = linked \ gone
    /\ wire' = [s \in Server |-> [t \in Server |->
                  IF <<s, t>> \in gone \/ <<t, s>> \in gone THEN <<>> ELSE wire[s][t]]]

Break(s, t) ==
    /\ <<s, t>> \in linked /\ spent.down < MaxDown
    /\ Cut({<<s, t>>, <<t, s>>})
    /\ Spend("down")
    /\ UNCHANGED <<tkl, user, bancheck, exempt, db, running, due, now, hist>>

-----------------------------------------------------------------------------
(* Events *)

\* tkl_check_expire, tkl_expire_entry: nobody is told, and loop.do_bancheck is
\* not set, not even for an exception
CheckExpire(s) ==
    LET gone == {k \in Key : tkl[s][k] # None /\ Expired(tkl[s][k], Clock(s))}
    IN  /\ gone # {}
        /\ tkl' = [tkl EXCEPT ![s] = [k \in Key |-> IF k \in gone THEN None ELSE tkl[s][k]]]
        /\ user' = [user EXCEPT ![s] = Unshunned(@, gone, tkl[s])]
        /\ hist' = [hist EXCEPT !.expired = TRUE,
                       !.lapsed[s] = @ \/ (s \in Host /\ gone \cap Exception # {}),
                       !.misread[s] = @ \/ Misread(user[s], gone, tkl[s]),
                       !.changed[s] = [k \in Key |-> IF k \in gone THEN When(s) ELSE @[k]]]
        /\ UNCHANGED <<linked, wire, bancheck, exempt, db, running, due, now, spent>>

\* check_pings, match_tkls: the users are checked if anything asked for it
CheckPings(s) ==
    /\ bancheck[s]
    /\ bancheck' = [bancheck EXCEPT ![s] = FALSE]
    /\ user' = [user EXCEPT ![s] =
                  IF @ = "none" \/ Killed(tkl[s], s) THEN "none"
                  ELSE IF Shunned(tkl[s], s) THEN "shunned" ELSE @]
    /\ hist' = [hist EXCEPT !.lapsed[s] = FALSE, !.misread[s] = @ /\ ~Shunned(tkl[s], s)]
    /\ UNCHANGED <<tkl, linked, wire, exempt, db, running, due, now, spent>>

\* Mutant: temporary bans are not written
SavePermanent(s) ==
    /\ s \in Tkldb \cap running /\ due[s] <= Clock(s)
    /\ due' = [due EXCEPT ![s] = Clock(s) + SaveEvery]
    /\ db' = [db EXCEPT ![s] = [k \in Key |->
                 IF tkl[s][k] # None /\ tkl[s][k].expire_at = 0 THEN tkl[s][k] ELSE None]]
    /\ hist' = [hist EXCEPT !.failed[s] = FALSE]
    /\ UNCHANGED <<tkl, linked, wire, user, bancheck, exempt, running, now, spent>>

\* write_tkldb_evt, write_tkldb: a temporary file is written and renamed; when
\* that fails, or s dies before the end, the old file stays
Save(s) ==
    /\ s \in Tkldb \cap running /\ due[s] <= Clock(s)
    /\ due' = [due EXCEPT ![s] = Clock(s) + SaveEvery]
    /\ \/ /\ db' = [db EXCEPT ![s] = tkl[s]]
          /\ hist' = [hist EXCEPT !.failed[s] = FALSE]
          /\ UNCHANGED spent
       \/ /\ spent.down < MaxDown /\ Spend("down")
          /\ hist' = [hist EXCEPT !.failed[s] = TRUE]
          /\ UNCHANGED db
    /\ UNCHANGED <<tkl, linked, wire, user, bancheck, exempt, running, now>>

\* s ends: MOD_UNLOAD of tkldb saves when it is stopped in good order
Down(s, saves) ==
    /\ s \in running \cap Fragile /\ spent.down < MaxDown
    /\ Cut({p \in Pairs : s \in {p[1], p[2]}})
    /\ db' = IF saves /\ s \in Tkldb THEN [db EXCEPT ![s] = tkl[s]] ELSE db
    /\ tkl' = [tkl EXCEPT ![s] = [k \in Key |-> None]]
    /\ user' = [user EXCEPT ![s] = "none"]
    /\ bancheck' = [bancheck EXCEPT ![s] = FALSE]
    /\ running' = running \ {s}
    /\ Spend("down")
    /\ UNCHANGED <<exempt, due, now, hist>>

Stop(s) == Down(s, TRUE)
Crash(s) == Down(s, FALSE)

\* read_tkldb: what has not expired is added again
ReadTkldb(s) ==
    [k \in Key |-> IF db[s][k] # None /\ ~Expired(db[s][k], Clock(s)) THEN db[s][k] ELSE None]

\* MOD_LOAD of tkldb
Boot(s) ==
    /\ s \notin running
    /\ tkl' = [tkl EXCEPT ![s] = ReadTkldb(s)]
    /\ running' = running \cup {s}
    /\ due' = [due EXCEPT ![s] = Clock(s) + SaveEvery + SaveDelta]
    /\ hist' = [hist EXCEPT !.failed[s] = FALSE,
                   !.changed[s] = [k \in Key |-> When(s)]]
    /\ UNCHANGED <<linked, wire, user, bancheck, exempt, db, now, spent>>

\* config_run: the exceptions of the configuration are removed and read again
Rehash(s) ==
    /\ s \in running \cap Host /\ spent.rehash < MaxRehash
    /\ exempt' = [exempt EXCEPT ![s] = ~@]
    /\ bancheck' = [bancheck EXCEPT ![s] = s \in Host]
    /\ Spend("rehash")
    /\ UNCHANGED <<tkl, linked, wire, user, db, running, due, now, hist>>

\* register_user: a client that no ban matches becomes a user
Register(s) ==
    /\ s \in running \cap Host /\ user[s] = "none" /\ spent.user < MaxUser
    /\ ~Killed(tkl[s], s)
    /\ user' = [user EXCEPT ![s] = IF Shunned(tkl[s], s) THEN "shunned" ELSE "user"]
    /\ hist' = [hist EXCEPT !.misread[s] = FALSE]
    /\ Spend("user")
    /\ UNCHANGED <<tkl, linked, wire, bancheck, exempt, db, running, due, now>>

\* Time passes; the events of the last second have run where a save was due
Tick ==
    /\ now < MaxTime
    /\ \A s \in Tkldb \cap running : due[s] > Clock(s)
    /\ now' = now + 1
    /\ UNCHANGED <<tkl, linked, wire, user, bancheck, exempt, db, running, due, spent, hist>>

Next ==
    \/ \E s \in Server :
         \/ \E k \in Key : SetBan(s, k) \/ SetException(s, k) \/ RemoveBan(s, k)
         \/ \E t \in Server : Recv(s, t) \/ Connect(s, t) \/ Break(s, t)
         \/ CheckExpire(s) \/ CheckPings(s) \/ Save(s)
         \/ Stop(s) \/ Crash(s) \/ Boot(s)
         \/ Rehash(s) \/ Register(s)
    \/ Tick

Spec == Init /\ [][Next]_vars

-----------------------------------------------------------------------------
Message == {Hello} \cup [op : {"+"}, key : Key, entry : Entry] \cup [op : {"-"}, key : Key]

\* The types of the variables; entries never hold anything but times, a setter
\* and an id, links are between neighbours and only running servers have them.
TypeOK ==
    /\ tkl \in [Server -> [Key -> Entry \cup {None}]]
    /\ linked \subseteq Pairs
    /\ wire \in [Server -> [Server -> Seq(Message)]]
    /\ \A s, t \in Server : wire[s][t] # <<>> => <<s, t>> \in linked
    /\ \A p \in linked : p[1] \in running /\ p[2] \in running
    /\ user \in [Server -> {"none", "user", "shunned"}]
    /\ bancheck \in [Server -> BOOLEAN] /\ exempt \in [Server -> BOOLEAN]
    /\ db \in [Server -> [Key -> Entry \cup {None}]]
    /\ running \subseteq Server /\ due \in [Server -> Nat]
    /\ now \in Nat

\* A user whom a ban of its server matches, and no exception, is gone or
\* shunned, unless the next check_pings is going to look: every change that
\* can make a ban match asks for the check, and when one of several shuns goes
\* the others keep the user shunned.  The code has two exceptions.  When an
\* E-line is removed cmd_tkl_del asks for the check; when it expires
\* tkl_expire_entry does not (lapsed).  And tkl_check_local_remove_shun asks
\* match_simple whether another shun matches, so that one which only match_user
\* matches is overlooked (misread).
Enforced ==
    \A s \in Server : ~bancheck[s] /\ ~hist.lapsed[s] =>
        /\ user[s] # "none" => ~Killed(tkl[s], s)
        /\ user[s] = "user" /\ ~hist.misread[s] => ~Shunned(tkl[s], s)

\* Nobody stays shunned after the last shun that find_shun matched is removed or
\* expires (tkl_check_local_remove_shun), unless match_user and match_simple
\* disagreed about an entry that was there when a shun of the user went: a shun
\* on a CIDR range or an extended ban is put on and not taken off.
ShunJustified ==
    \A s \in Server : user[s] = "shunned" /\ ~hist.misread[s] =>
        \E k \in MatchUser : tkl[s][k] # None

Quiet(s, t) ==
    /\ <<s, t>> \in linked /\ <<t, s>> \in linked
    /\ wire[s][t] = <<>> /\ wire[t][s] = <<>>

\* The entry, unless it is None or some clock says it has expired
Live(e) == IF e = None \/ (e # None /\ \E s \in Server : Expired(e, Clock(s))) THEN None ELSE e

\* When no ban was removed, and a link has nothing under way, both ends hold
\* the same bans for the same time, whatever was set on both sides of a split,
\* lost with a link or with a server, read back from a database or expired
\* early on one side; the entries are the same in every field if none expired.
BansAgree ==
    \A s, t \in Server : (Quiet(s, t) /\ ~hist.removed) => \A k \in Key :
        LET x == Live(tkl[s][k])
            y == Live(tkl[t][k])
        IN  /\ (x = None) <=> (y = None)
            /\ x # None /\ y # None => x.expire_at = y.expire_at
            /\ ~hist.expired => x = y

\* What a server holds unchanged for longer than the time between two saves is
\* what it would read from its database, so a crash loses no more than that; a
\* ban removed that long ago does not come back.
SavedInTime ==
    \A s \in Tkldb, k \in Key :
        (s \in running /\ ~hist.failed[s] /\ Clock(s) - hist.changed[s][k] > SaveEvery + SaveDelta)
        => db[s][k] = tkl[s][k]
=============================================================================
