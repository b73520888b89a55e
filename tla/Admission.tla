------------------------------ MODULE Admission ------------------------------
(***************************************************************************)
(* The counters that decide who may come in, at one UnrealIRCd server: the *)
(* clients per class (class->clients), the users per IP (the IpUsersBucket *)
(* table of maxperip), the known, excepted and unknown users per IPv6      *)
(* range (the buckets of connthrottle) and the totals of irccounts.        *)
(*                                                                         *)
(* register_user may be called several times for one client: a soft ban,   *)
(* authprompt, the central blocklist and some spamfilters hold a client in *)
(* its handshake after AllowClient has counted it.  Whatever happens next, *)
(* be it a retry, an exit, a REHASH that reloads the modules or a change   *)
(* of the known-users cache, must undo exactly what was counted.           *)
(***************************************************************************)
EXTENDS Integers, FiniteSets

CONSTANTS
    LocalClient,   \* connections of this server
    RemoteClient,  \* users of other servers
    Ip,            \* IPv4 addresses and IPv6 /64s: what maxperip counts by
    IpOf,          \* [Client -> Ip]
    Prefix,         \* wider IPv6 prefixes: what connthrottle counts by (one tier)
    PrefixOf,       \* [Ip -> Prefix \cup {None}]; None: an IPv4 address
    Exempt,        \* clients with an except ban of type maxperip
    Class,         \* class blocks
    AllowClass,    \* allow::class
    OperClass,     \* oper::class
    MaxClients,    \* [Class -> Nat]: class::maxclients
    MaxPerIp,      \* allow::maxperip
    GlobalMaxPerIp,\* allow::global-maxperip
    UnknownLimit,  \* set::connthrottle::ipv6-unknown-users-limit
    None,
    Env            \* which of these are possible: "retry", a new attempt of a client
                   \* that a spamfilter blocked; "rehash", a REHASH while a client is held

Client == LocalClient \cup RemoteClient

ASSUME ConstantsAssumption ==
    /\ IsFiniteSet(LocalClient) /\ IsFiniteSet(RemoteClient)
    /\ LocalClient \cap RemoteClient = {}
    /\ IpOf \in [Client -> Ip]
    /\ PrefixOf \in [Ip -> Prefix \cup {None}]
    /\ None \notin Prefix \cup Class
    /\ Exempt \subseteq Client
    /\ AllowClass \in Class /\ OperClass \in Class
    /\ MaxClients \in [Class -> Nat]
    /\ MaxPerIp \in Nat \ {0} /\ GlobalMaxPerIp \in Nat \ {0} /\ UnknownLimit \in Nat
    /\ Env \subseteq {"retry", "rehash"}

VARIABLES
    status,    \* status[c]: none (not connected), unknown (in handshake) or user
    known,     \* known[c]: known_user_cached
    class,     \* class[c]: local->class
    bumped,    \* the clients with CLIENT_FLAG_IPUSERS_BUMPED
    category,  \* category[c]: CT_CATEGORY
    clients,   \* clients[k]: class->clients
    ipusers,   \* ipusers[i]: the IpUsersBucket (NoUsers: there is none)
    ct,        \* ct[r]: the ConnThrottleBucket (NoneCounted: there is none)
    irccounts  \* the totals that LUSERS reports

vars == <<status, known, class, bumped, category, clients, ipusers, ct, irccounts>>

Category == {"known", "excepted", "unknown"}
NoUsers == [local |-> 0, global |-> 0]
NoneCounted == [k \in Category |-> 0]

-----------------------------------------------------------------------------
(* maxperip: a bucket whose two counts are 0 is freed *)

IpPlus(b, c) == [local |-> IF c \in LocalClient THEN b.local + 1 ELSE b.local,
                 global |-> b.global + 1]
IpMinus(b, c) == [local |-> IF c \in LocalClient THEN b.local - 1 ELSE b.local,
                  global |-> b.global - 1]

\* Mutant: a client that comes back after a hold is counted again
IpBumpAgain(c) == [ipusers EXCEPT ![IpOf[c]] = IpPlus(@, c)]

\* exceeds_maxperip counts a client once, or when its bucket is gone
IpBump(c) ==
    IF c \in bumped /\ ipusers[IpOf[c]] # NoUsers THEN ipusers
    ELSE [ipusers EXCEPT ![IpOf[c]] = IpPlus(@, c)]

\* Mutant: the limit is compared before the client itself is counted
ExceedsBefore(b, c) ==
    c \notin Exempt /\ (b.local > MaxPerIp + 1 \/ b.global > GlobalMaxPerIp + 1)

\* ... and compares the bucket, itself included, with the limits
Exceeds(b, c) ==
    c \notin Exempt /\ (b.local > MaxPerIp \/ b.global > GlobalMaxPerIp)

\* Mutant: every client that leaves is subtracted, counted or not
IpDropAlways(t, counted, c) == [t EXCEPT ![IpOf[c]] = IpMinus(@, c)]

\* decrease_ipusers_bucket in table t ("bucket is gone": nothing to do)
IpDrop(t, counted, c) ==
    IF c \notin counted \/ t[IpOf[c]] = NoUsers THEN t
    ELSE [t EXCEPT ![IpOf[c]] = IpMinus(@, c)]

-----------------------------------------------------------------------------
(* connthrottle: a bucket whose counts are 0 is freed *)

PrefixFor(c) == PrefixOf[IpOf[c]]

\* ct_classify; clients without an IPv6 address have no category
Classify(c, k) ==
    IF PrefixFor(c) = None THEN "none"
    ELSE IF k THEN "known"
    ELSE IF c \in Exempt THEN "excepted" ELSE "unknown"

CtPlus(t, c, cat) ==
    IF cat = "none" THEN t ELSE [t EXCEPT ![PrefixFor(c)][cat] = @ + 1]

\* ct_bucket_unbump_client ("bucket missing on disconnect": nothing to do)
CtMinus(t, c, cat) ==
    IF cat = "none" \/ t[PrefixFor(c)] = NoneCounted THEN t
    ELSE [t EXCEPT ![PrefixFor(c)][cat] = @ - 1]

\* ct_known_user_cache_change: the category of a classified client follows
Recategorise(c, k) == IF category[c] = "none" THEN "none" ELSE Classify(c, k)

\* Mutant: the category follows, the counters do not
CtMoveNot(c, k) == ct

\* ... and so do the counters ("bucket missing on transition": they stay)
CtMove(c, k) ==
    IF Recategorise(c, k) = category[c] \/ ct[PrefixFor(c)] = NoneCounted THEN ct
    ELSE [ct EXCEPT ![PrefixFor(c)][category[c]] = @ - 1,
                    ![PrefixFor(c)][Recategorise(c, k)] = @ + 1]

\* The category that ct_allow_client and ct_remote_connect_buckets leave
NewCategory(c, k) == IF category[c] = "none" THEN Classify(c, k) ELSE Recategorise(c, k)
\* ... and the buckets: a client is counted when it gets its first category
CtCount(c, k) ==
    IF category[c] = "none" THEN CtPlus(ct, c, Classify(c, k)) ELSE CtMove(c, k)

-----------------------------------------------------------------------------
(* Exits *)

ClassPlus(t, k) == [t EXCEPT ![k] = @ + 1]
ClassMinus(t, k) == IF k = None THEN t ELSE [t EXCEPT ![k] = @ - 1]

\* irccounts with u more unknown connections, n more users, m more of our own
Tally(u, n, m) ==
    [unknown |-> irccounts.unknown + u,
     clients |-> irccounts.clients + n,
     me_clients |-> irccounts.me_clients + m]

\* Mutant: a local user that leaves is not subtracted from me_clients
CountsAfterExitGlobal(c) == IF status[c] = "unknown" THEN Tally(-1, 0, 0) ELSE Tally(0, -1, 0)

CountsAfterExit(c) ==
    IF status[c] = "unknown" THEN Tally(-1, 0, 0)
    ELSE Tally(0, -1, IF c \in LocalClient THEN -1 ELSE 0)

(***************************************************************************)
(* exit_client of c, when its class is k, its category cat, and the tables *)
(* are as given: class count, LOCAL_QUIT, UNKUSER_QUIT or REMOTE_QUIT      *)
(* (ct_quit), free_user (decrease_ipusers_bucket), irccounts.              *)
(***************************************************************************)
Leaves(c, k, cat, counted, classes, ips, prefixes) ==
    /\ status' = [status EXCEPT ![c] = "none"]
    /\ known' = [known EXCEPT ![c] = FALSE]
    /\ class' = [class EXCEPT ![c] = None]
    /\ clients' = ClassMinus(classes, k)
    /\ category' = [category EXCEPT ![c] = "none"]
    /\ ct' = CtMinus(prefixes, c, cat)
    /\ bumped' = bumped \ {c}
    /\ ipusers' = IpDrop(ips, counted, c)
    /\ irccounts' = CountsAfterExit(c)

\* QUIT, a closed socket, a registration timeout, a KILL, a ban, a netsplit
Exit(c) ==
    /\ status[c] # "none"
    /\ Leaves(c, class[c], category[c], bumped, clients, ipusers, ct)

-----------------------------------------------------------------------------
(* Local clients *)

\* add_connection
Accept(c) ==
    /\ c \in LocalClient /\ status[c] = "none"
    /\ status' = [status EXCEPT ![c] = "unknown"]
    /\ \E k \in BOOLEAN : known' = [known EXCEPT ![c] = k]
    /\ irccounts' = Tally(1, 0, 0)
    /\ UNCHANGED <<class, bumped, category, clients, ipusers, ct>>

\* register_user may run for c: again, too, when it was held before
Attempts(c) ==
    /\ c \in LocalClient /\ status[c] = "unknown"
    /\ class[c] # None => "retry" \in Env

TooManyPerIp(c) == Exceeds(IpBump(c)[IpOf[c]], c)
TooManyUnknown(c, k) ==
    /\ category[c] = "none" /\ Classify(c, k) = "unknown"
    /\ CtCount(c, k)[PrefixFor(c)]["unknown"] > UnknownLimit
ClassFull == clients[AllowClass] + 1 > MaxClients[AllowClass]

\* AllowClient rejects c: by maxperip, before connthrottle sees it ...
RejectPerIp(c) ==
    /\ Attempts(c) /\ TooManyPerIp(c)
    /\ \E k \in BOOLEAN :
          Leaves(c, class[c], Recategorise(c, k), bumped \cup {c}, clients, IpBump(c), CtMove(c, k))

\* ... by connthrottle, or because the class is full
RejectLater(c) ==
    /\ Attempts(c) /\ ~TooManyPerIp(c)
    /\ \E k \in BOOLEAN :
          /\ TooManyUnknown(c, k) \/ ClassFull
          /\ Leaves(c, class[c], NewCategory(c, k), bumped \cup {c}, clients, IpBump(c), CtCount(c, k))

\* AllowClient lets c through.  The limit of connthrottle does not apply while
\* it is disabled or reputation is still gathered, so it is no guard here.
Allowed(c) == Attempts(c) /\ ~TooManyPerIp(c) /\ ~ClassFull

\* What AllowClient changes for a client that stays connected
Counted(c, k) ==
    /\ bumped' = bumped \cup {c}
    /\ ipusers' = IpBump(c)
    /\ category' = [category EXCEPT ![c] = NewCategory(c, k)]
    /\ ct' = CtCount(c, k)

\* A bad user name, a ban, a spamfilter or connthrottle's rate limit: exit
RejectAfter(c) ==
    /\ Allowed(c)
    /\ \E k \in BOOLEAN :
          Leaves(c, AllowClass, NewCategory(c, k), bumped \cup {c}, ClassPlus(clients, AllowClass),
                 IpBump(c), CtCount(c, k))

\* Mutant: the class forgets the held client, its count does not
HoldUncounted(c) ==
    /\ Allowed(c)
    /\ \E k \in BOOLEAN : Counted(c, k) /\ known' = [known EXCEPT ![c] = k]
    /\ class' = [class EXCEPT ![c] = None]
    /\ clients' = ClassPlus(clients, AllowClass)
    /\ UNCHANGED <<status, irccounts>>

\* A soft ban or a PRE_LOCAL_CONNECT hook holds c: it is taken out of its class
Hold(c) ==
    /\ Allowed(c)
    /\ \E k \in BOOLEAN : Counted(c, k) /\ known' = [known EXCEPT ![c] = k]
    /\ class' = [class EXCEPT ![c] = None]
    /\ clients' = ClassMinus(ClassPlus(clients, AllowClass), AllowClass)
    /\ UNCHANGED <<status, irccounts>>

\* A spamfilter blocks c, which will hang "on purpose, and timeout"
Block(c) ==
    /\ Allowed(c)
    /\ \E k \in BOOLEAN : Counted(c, k) /\ known' = [known EXCEPT ![c] = k]
    /\ class' = [class EXCEPT ![c] = AllowClass]
    /\ clients' = ClassPlus(clients, AllowClass)
    /\ UNCHANGED <<status, irccounts>>

\* The user is accepted
Welcome(c) ==
    /\ Allowed(c)
    /\ \E k \in BOOLEAN : Counted(c, k) /\ known' = [known EXCEPT ![c] = k]
    /\ class' = [class EXCEPT ![c] = AllowClass]
    /\ clients' = ClassPlus(clients, AllowClass)
    /\ status' = [status EXCEPT ![c] = "user"]
    /\ irccounts' = Tally(-1, 1, 1)

\* make_oper moves a user to oper::class
MakeOper(c) ==
    /\ c \in LocalClient /\ status[c] = "user"
    /\ class' = [class EXCEPT ![c] = OperClass]
    /\ clients' = ClassPlus(ClassMinus(clients, class[c]), OperClass)
    /\ UNCHANGED <<status, known, bumped, category, ipusers, ct, irccounts>>

-----------------------------------------------------------------------------
(* Remote users, the known-users cache, REHASH *)

\* cmd_uid: maxperip_remote_connect and ct_remote_connect_buckets count it
RemoteConnect(c) ==
    /\ c \in RemoteClient /\ status[c] = "none"
    /\ status' = [status EXCEPT ![c] = "user"]
    /\ \E k \in BOOLEAN : Counted(c, k) /\ known' = [known EXCEPT ![c] = k]
    /\ irccounts' = Tally(0, 1, 0)
    /\ UNCHANGED <<class, clients>>

\* update_known_user_cache finds another value (timer, SASL, account)
KnownChange(c) ==
    /\ status[c] # "none"
    /\ known' = [known EXCEPT ![c] = ~@]
    /\ category' = [category EXCEPT ![c] = Recategorise(c, ~known[c])]
    /\ ct' = CtMove(c, ~known[c])
    /\ UNCHANGED <<status, class, bumped, clients, ipusers, irccounts>>

Users == {c \in Client : status[c] = "user"}
Held == {c \in Client : status[c] = "unknown" /\ (c \in bumped \/ category[c] # "none")}

\* How often the walk over client_list and unknown_list meets the clients S:
\* a client in its handshake is on both lists
Walked(S) == Cardinality(S) + Cardinality({c \in S : status[c] = "unknown"})

\* The two modules are reloaded and rebuild their tables from the clients.
\* rebuild_ipusers_buckets counts whoever has the flag, on both lists;
\* ct_buckets_rebuild users only, while CT_CATEGORY of the others is kept.
Rehash ==
    /\ Held # {} => "rehash" \in Env
    /\ ipusers' = [i \in Ip |->
          LET here == {c \in bumped : IpOf[c] = i}
          IN  [local |-> Walked(here \cap LocalClient), global |-> Walked(here)]]
    /\ category' = [c \in Client |-> IF c \in Users THEN Classify(c, known[c]) ELSE category[c]]
    /\ ct' = [r \in Prefix |-> [cat \in Category |->
          Cardinality({c \in Users : PrefixFor(c) = r /\ Classify(c, known[c]) = cat})]]
    /\ UNCHANGED <<status, known, class, bumped, clients, irccounts>>

-----------------------------------------------------------------------------
Init ==
    /\ status = [c \in Client |-> "none"]
    /\ known = [c \in Client |-> FALSE]
    /\ class = [c \in Client |-> None]
    /\ bumped = {}
    /\ category = [c \in Client |-> "none"]
    /\ clients = [k \in Class |-> 0]
    /\ ipusers = [i \in Ip |-> NoUsers]
    /\ ct = [r \in Prefix |-> NoneCounted]
    /\ irccounts = [unknown |-> 0, clients |-> 0, me_clients |-> 0]

RegisterUser(c) ==
    \/ RejectPerIp(c) \/ RejectLater(c) \/ RejectAfter(c)
    \/ Hold(c) \/ Block(c) \/ Welcome(c)

Next ==
    \/ \E c \in Client :
          \/ Accept(c) \/ RegisterUser(c) \/ MakeOper(c)
          \/ RemoteConnect(c) \/ KnownChange(c) \/ Exit(c)
    \/ Rehash

Spec == Init /\ [][Next]_vars

-----------------------------------------------------------------------------
(* Properties *)

\* Types of the variables; no counter ever is negative.
TypeOK ==
    /\ status \in [Client -> {"none", "unknown", "user"}]
    /\ known \in [Client -> BOOLEAN]
    /\ class \in [Client -> Class \cup {None}]
    /\ bumped \subseteq Client
    /\ category \in [Client -> Category \cup {"none"}]
    /\ clients \in [Class -> Nat]
    /\ ipusers \in [Ip -> [local : Nat, global : Nat]]
    /\ ct \in [Prefix -> [Category -> Nat]]
    /\ irccounts \in [unknown : Nat, clients : Nat, me_clients : Nat]

At(S, i) == {c \in S : IpOf[c] = i}
InClass(k) == {c \in Client : class[c] = k}
InCategory(r, cat) == {c \in Client : category[c] = cat /\ PrefixFor(c) = r}
Unknowns == {c \in Client : status[c] = "unknown"}

\* class->clients is the number of connections in the class, also after holds,
\* retries, rejected attempts and the move of an oper to another class: a
\* class neither fills up with clients that left nor admits too many.
ClassCount == \A k \in Class : clients[k] = Cardinality(InClass(k))

\* The IpUsersBucket of an IP counts the clients with the bumped flag, local
\* and global, whatever attempts, exits and rebuilds of the table there were.
IpUsersExact ==
    \A i \in Ip : /\ ipusers[i].local = Cardinality(At(bumped \cap LocalClient, i))
                  /\ ipusers[i].global = Cardinality(At(bumped, i))

\* The counters of a connthrottle bucket are the clients whose CT_CATEGORY says
\* they are counted there: no bucket is missing or negative when one leaves.
CtExact ==
    \A r \in Prefix : \A cat \in Category : ct[r][cat] = Cardinality(InCategory(r, cat))

\* The least that the comments on the three tables promise together: whatever
\* is held, tried again and recounted by a rehash, the class counts, the
\* IpUsersBuckets and the buckets of connthrottle are not all wrong at once.
SomeCountHolds == ClassCount \/ IpUsersExact \/ CtExact

\* LUSERS: unknown connections, users, and local users are counted exactly.
CountsExact ==
    /\ irccounts.unknown = Cardinality(Unknowns)
    /\ irccounts.clients = Cardinality(Users)
    /\ irccounts.me_clients = Cardinality(Users \cap LocalClient)

\* allow::maxperip is respected: an IP never has more local users that are not
\* exempt than the limit, however they, and exempt ones, came in and left.
MaxPerIpRespected ==
    \A i \in Ip : Cardinality(At((Users \cap LocalClient) \ Exempt, i)) <= MaxPerIp
=============================================================================
