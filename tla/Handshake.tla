------------------------------ MODULE Handshake ------------------------------
(***************************************************************************)
(* From accept to a registered user: DNS and ident lookups, DNS blacklists,*)
(* CAP, the ping cookie, SASL relayed to services, the authentication      *)
(* prompt, the central blocklist, and every timeout between them; then the *)
(* PINGs of the registered user (socket.c, dns.c, ident_lookup.c,          *)
(* blacklist.c, cap.c, sasl.c, authprompt.c, central-blocklist.c, ircd.c). *)
(*                                                                         *)
(* register_user is called from five places, whenever the last thing that  *)
(* was missing arrives.  Admission models what it counts; here is when it  *)
(* is called, and on whom.                                                 *)
(***************************************************************************)
EXTENDS Integers, Sequences, FiniteSets, SequencesExt

CONSTANTS
    Client, None,
    SoftBanned,        \* clients that a soft ban (only for the unauthenticated) matches
    Lists,             \* number of DNS blacklists
    BlAction,          \* actions of the blacklists: "kill", "soft", "shun", "block"
    CblVerdict,        \* actions of the central blocklist, of the same kinds
    PingCookie,        \* set::ping-cookie
    IdentTimeout,      \* set::ident::connect-timeout, read-timeout
    SaslTimeout,       \* set::sasl-timeout
    CblTimeout,        \* CBL_TRANSFER_TIMEOUT
    HandshakeTimeout,  \* set::handshake-timeout
    PingFreq,          \* class::pingfreq
    MaxTime, MaxAuth, MaxRare   \* bounds; rare: proxies, rechecks, splits of services

ASSUME HandshakeAssumption ==
    /\ IsFiniteSet(Client) /\ None \notin Client /\ SoftBanned \subseteq Client
    /\ Lists \in Nat /\ PingCookie \in BOOLEAN /\ PingFreq \in Nat \ {0}
    /\ {IdentTimeout, SaslTimeout, CblTimeout, HandshakeTimeout} \subseteq Nat
    /\ BlAction \cup CblVerdict \subseteq {"kill", "soft", "shun", "block"}

VARIABLES
    cl,     \* cl[c]: the client structure
    dnsreq, \* requests of dns.c: who asked, for which lookup, r->client, the stage
    blu,    \* blu[c]: the BLUser of c
    asked,  \* asked[c]: blacklist queries the resolver has not answered
    xfer,   \* transfers to the central blocklist: sets of client ids
    svc,    \* services: linked or not, their sessions, the streams to and from them
    now,
    spent,  \* how much of each bound is used up
    hist    \* what the properties remember

vars == <<cl, dnsreq, blu, asked, xfer, svc, now, spent, hist>>

\* The fields of a client that the handshake reads and writes
Structure ==
    [st : {"free", "unknown", "user", "gone"}, at : Nat, dns : BOOLEAN,
     ident : {"no", "connect", "read"}, lookup : Nat,
     nick : BOOLEAN, named : BOOLEAN, cookie : BOOLEAN, cap : BOOLEAN, sasl : BOOLEAN,
     sent : Nat, out : BOOLEAN, done : BOOLEAN, agent : BOOLEAN, login : BOOLEAN,
     prompt : BOOLEAN, authmsg : BOOLEAN, cbl : {"no", "pending", "sent", "allowed"},
     cblat : Nat, save : BOOLEAN, shun : BOOLEAN, last : Int, pinged : BOOLEAN]

Fresh ==
    [st |-> "free", at |-> 0, dns |-> FALSE, ident |-> "no", lookup |-> 0,
     nick |-> FALSE, named |-> FALSE, cookie |-> FALSE, cap |-> FALSE, sasl |-> FALSE,
     sent |-> 0, out |-> FALSE, done |-> FALSE, agent |-> FALSE, login |-> FALSE,
     prompt |-> FALSE, authmsg |-> FALSE, cbl |-> "no", cblat |-> 0,
     save |-> FALSE, shun |-> FALSE, last |-> 0, pinged |-> FALSE]

Live(c) == cl[c].st \in {"unknown", "user"}
Unknown(c) == cl[c].st = "unknown"

Spend(what) == spent' = [spent EXCEPT ![what] = @ + 1]

Services0(up) == [up |-> up, session |-> [c \in Client |-> "none"], to |-> <<>>, from |-> <<>>]

Init ==
    /\ cl = [c \in Client |-> Fresh]
    /\ dnsreq = {}
    /\ blu = [c \in Client |-> [alloc |-> FALSE, client |-> FALSE, refcnt |-> 0]]
    /\ asked = [c \in Client |-> 0]
    /\ xfer = {}
    /\ svc = Services0(TRUE)
    /\ now = 1
    /\ spent = [b \in {"auth", "rare"} |-> 0]
    /\ hist = [c \in Client |-> [refused |-> "no", orphan |-> FALSE, pingat |-> 0, end |-> "no"]]

-----------------------------------------------------------------------------
(* Registration: operators on the structure x of client c *)

\* abort_sasl: services are told only of an attempt that has no result
Aborts(x) == x.out /\ ~x.done
AbortSasl(x) == [x EXCEPT !.sent = 0, !.out = @ /\ x.done]

\* Mutant: the hits that blacklist.c kept are not looked at
HeldBackPrompt(c, x) == ~x.login /\ (c \in SoftBanned \/ x.prompt)

\* The soft bans that hold the client until it logs in: soft bans of the TKL
\* layer (find_tkline_match), authprompt_pre_connect and blacklist_preconnect
HeldBack(c, x) == ~x.login /\ (c \in SoftBanned \/ x.prompt \/ x.save)

\* register_user: shunned, held back by the prompt, or in (sasl_connect then
\* ends an attempt that is still going on); what only the handshake reads is dropped
RegisterUser(c, x) ==
    IF x.shun THEN x
    ELSE IF HeldBack(c, x) THEN [x EXCEPT !.prompt = TRUE]
    ELSE [AbortSasl(x) EXCEPT !.st = "user", !.at = 0, !.cblat = 0, !.named = FALSE]

\* sasl_is_handshake_finished
SaslInProgress(x) == x.sent # 0 /\ ~x.done

\* What is_handshake_finished misses: CAP negotiation, SASL, or something of the core
InProgress(x) ==
    x.cap \/ SaslInProgress(x) \/ ~x.nick \/ ~x.named \/ x.cookie

\* cbl_is_handshake_finished, cbl_start_request: the last of the hooks
CblStart(x) == IF x.cbl = "no" THEN [x EXCEPT !.cbl = "pending"] ELSE x

\* is_handshake_finished and register_user
TryRegister(c, x) ==
    IF x.st # "unknown" \/ InProgress(x) THEN x
    ELSE IF x.cbl = "allowed" THEN RegisterUser(c, x) ELSE CblStart(x)

\* cbl_allow
CblAllow(c, x) ==
    IF x.cbl = "allowed" THEN x ELSE TryRegister(c, [x EXCEPT !.cbl = "allowed"])

\* What services are told when the structure of c becomes y
Told(c, y) == IF Aborts(cl[c]) /\ ~y.out THEN <<<<c, "A">>>> ELSE <<>>

Tell(msgs) == IF svc.up THEN [svc EXCEPT !.to = @ \o msgs] ELSE svc

\* The structure becomes y; services hear of an attempt that ended
Become(c, y) ==
    /\ cl' = [cl EXCEPT ![c] = y]
    /\ svc' = Tell(Told(c, y))

\* Mutant: the structure is freed whatever is still under way
FreeBluserNow(b) == [b EXCEPT !.client = FALSE, !.alloc = FALSE]

\* blacklist_free_bluser_if_able
FreeBluser(b) == [b EXCEPT !.client = FALSE, !.alloc = b.refcnt > 0]

\* close_connection: unrealdns_delreq_bycptr
Forgotten(reqs, c) == {IF r.to = c THEN [r EXCEPT !.to = None] ELSE r : r \in reqs}

\* exit_client of the clients in gone: requests forget them, the lookups end
ExitAll(gone, why) ==
    /\ dnsreq' = {IF r.to \in gone THEN [r EXCEPT !.to = None] ELSE r : r \in dnsreq}
    /\ blu' = [c \in Client |-> IF c \in gone /\ blu[c].client THEN FreeBluser(blu[c]) ELSE blu[c]]
    /\ hist' = [c \in Client |-> IF c \in gone THEN [hist[c] EXCEPT !.end = why] ELSE hist[c]]

Gone(x) == [Fresh EXCEPT !.st = "gone", !.lookup = x.lookup]

Exit(c, why) ==
    /\ ExitAll({c}, why)
    /\ cl' = [cl EXCEPT ![c] = Gone(@)]
    /\ svc' = IF cl[c].st = "user" /\ Aborts(cl[c]) THEN Tell(<<<<c, "A">>>>) ELSE svc

-----------------------------------------------------------------------------
(* Connection and lookups *)

\* unrealdns_doclient: no request if the name is in the cache
DoClient(c, n) == {{}, {[who |-> c, n |-> n, to |-> c, stage |-> 1]}}

\* ident_lookup_connect: it may be switched off, or fail at once
IdentConnect == {"no", "connect"}

\* start_dns_and_ident_lookup: what was under way is given up
StartLookups(c, x) ==
    \E request \in DoClient(c, x.lookup + 1), ident \in IdentConnect :
        /\ dnsreq' = Forgotten(dnsreq, c) \cup request
        /\ cl' = [cl EXCEPT ![c] =
                    [x EXCEPT !.dns = request # {}, !.ident = ident, !.lookup = @ + 1]]

\* Mutant: the count starts again with every check
StartCheckAnew(c) ==
    /\ blu' = [blu EXCEPT ![c] = [alloc |-> TRUE, client |-> TRUE, refcnt |-> Lists]]
    /\ asked' = [asked EXCEPT ![c] = @ + Lists]

\* blacklist_start_check: one more query for every list, on the BLUser of c
StartCheck(c) ==
    /\ blu' = [blu EXCEPT ![c] = [alloc |-> TRUE, client |-> TRUE, refcnt |-> @.refcnt + Lists]]
    /\ asked' = [asked EXCEPT ![c] = @ + Lists]

\* add_connection, start_of_normal_client_handshake
Accept(c) ==
    /\ cl[c].st = "free" /\ now + HandshakeTimeout < MaxTime
    /\ StartCheck(c)
    /\ StartLookups(c, [Fresh EXCEPT !.st = "unknown", !.at = now, !.last = now])
    /\ UNCHANGED <<xfer, svc, now, spent, hist>>

\* parse_client_queued: commands wait for the host name and for identd
Parses(c) == Live(c) /\ ~cl[c].dns /\ cl[c].ident = "no"

\* webserver_handle_proxy, set_client_ip: the HTTP request, which is not made to
\* wait, names the address of the client; all lookups start again for it, the
\* blacklist queries for the proxy go on
ProxyIp(c) ==
    /\ Unknown(c) /\ ~cl[c].nick /\ ~cl[c].named /\ spent.rare < MaxRare
    /\ StartCheck(c)
    /\ StartLookups(c, [cl[c] EXCEPT !.last = now])
    /\ Spend("rare")
    /\ UNCHANGED <<xfer, svc, now, hist>>

\* unrealdns_cb_iptoname, unrealdns_cb_nametoip_verify and
\* proceed_normal_client_handshake; nothing happens when r->client was reset
DnsAnswer(r) ==
    /\ \/ /\ r.stage = 1 /\ r.to # None
          /\ dnsreq' = (dnsreq \ {r}) \cup {[r EXCEPT !.stage = 2]}
          /\ UNCHANGED cl
       \/ /\ dnsreq' = dnsreq \ {r}
          /\ cl' = IF r.to = None THEN cl ELSE [cl EXCEPT ![r.to].dns = FALSE]
    /\ UNCHANGED <<blu, asked, xfer, svc, now, spent, hist>>

\* ident_lookup_send, ident_lookup_receive, ident_lookup_failed
IdentAnswer(c) ==
    /\ cl[c].ident # "no"
    /\ \/ cl[c].ident = "connect" /\ cl' = [cl EXCEPT ![c].ident = "read"]
       \/ cl' = [cl EXCEPT ![c].ident = "no"]
    /\ UNCHANGED <<dnsreq, blu, asked, xfer, svc, now, spent, hist>>

\* check_ident_timeout
CheckIdentTimeout(c) ==
    /\ Unknown(c) /\ cl[c].ident # "no" /\ now - cl[c].at > IdentTimeout
    /\ cl' = [cl EXCEPT ![c].ident = "no"]
    /\ UNCHANGED <<dnsreq, blu, asked, xfer, svc, now, spent, hist>>

\* The reference that an answer returns; the last one frees the structure when
\* the client has gone
Returned(b) ==
    [b EXCEPT !.refcnt = @ - 1, !.alloc = ~(b.refcnt = 1 /\ ~b.client)]

\* What hist remembers when the verdict on c is v and c lives on
Refused(c, v) ==
    CASE v \in {"shun", "block"} /\ Unknown(c) -> "hard"
      [] v = "soft" /\ Unknown(c) /\ ~cl[c].login /\ hist[c].refused = "no" -> "soft"
      [] OTHER -> hist[c].refused

\* blacklist_hit when the client lives on: a soft action is kept for
\* register_user; shun sets the flag at once, and block does nothing
BlacklistHit(x, v) ==
    CASE v = "soft" -> [x EXCEPT !.save = TRUE]
      [] v = "shun" -> [x EXCEPT !.shun = TRUE]
      [] OTHER -> x

\* blacklist_resolver_callback, blacklist_process_result, blacklist_hit: a miss,
\* a hit that the client survives, or one that ends it
BlacklistAnswer(c) ==
    /\ asked[c] > 0
    /\ asked' = [asked EXCEPT ![c] = @ - 1]
    /\ \/ /\ blu' = [blu EXCEPT ![c] = Returned(@)]
          /\ UNCHANGED <<cl, dnsreq, svc, hist>>
       \/ \E v \in BlAction \ {"kill"} :
          /\ blu[c].client
          /\ cl' = [cl EXCEPT ![c] = BlacklistHit(@, v)]
          /\ blu' = [blu EXCEPT ![c] = Returned(@)]
          /\ hist' = [hist EXCEPT ![c].refused = Refused(c, v)]
          /\ UNCHANGED <<dnsreq, svc>>
       \/ /\ blu[c].client /\ "kill" \in BlAction
          /\ blu' = [blu EXCEPT ![c] = FreeBluser(Returned(@))]
          /\ cl' = [cl EXCEPT ![c] = Gone(@)]
          /\ dnsreq' = Forgotten(dnsreq, c)
          /\ hist' = [hist EXCEPT ![c].end = "blacklist"]
          /\ svc' = IF cl[c].st = "user" /\ Aborts(cl[c]) THEN Tell(<<<<c, "A">>>>) ELSE svc
    /\ UNCHANGED <<xfer, now, spent>>

\* blacklist_recheck: users are looked up again
BlacklistRecheck(c) ==
    /\ cl[c].st = "user" /\ spent.rare < MaxRare
    /\ StartCheck(c)
    /\ Spend("rare")
    /\ UNCHANGED <<cl, dnsreq, xfer, svc, now, hist>>

-----------------------------------------------------------------------------
(* Commands of the client *)

\* read_packet, and what the command does after it changed the structure to x
Command(c, x) ==
    /\ Become(c, TryRegister(c, [x EXCEPT !.last = now]))
    /\ UNCHANGED <<dnsreq, blu, asked, xfer, now, spent, hist>>

\* cmd_nick, the first one
Nick(c) ==
    /\ Parses(c) /\ Unknown(c) /\ ~cl[c].nick
    /\ Command(c, [cl[c] EXCEPT !.nick = TRUE, !.cookie = PingCookie])

\* cmd_user
User(c) ==
    /\ Parses(c) /\ Unknown(c)
    /\ Command(c, [cl[c] EXCEPT !.named = TRUE])

\* cmd_nospoof
Pong(c) ==
    /\ Parses(c) /\ Unknown(c) /\ cl[c].nick /\ cl[c].cookie
    /\ Command(c, [cl[c] EXCEPT !.cookie = FALSE])

\* cap_ls, cap_req: the client asks for sasl, which is there while services are linked
Cap(c) ==
    /\ Parses(c) /\ Unknown(c)
    /\ cl' = [cl EXCEPT ![c].cap = TRUE, ![c].sasl = @ \/ svc.up, ![c].last = now]
    /\ UNCHANGED <<dnsreq, blu, asked, xfer, svc, now, spent, hist>>

\* cap_end
CapEnd(c) ==
    /\ Parses(c) /\ Unknown(c)
    /\ Command(c, [cl[c] EXCEPT !.cap = FALSE])

\* cmd_authenticate: to the agent that answered before, or to start a session
Authenticate(c) ==
    /\ Parses(c) /\ cl[c].sasl /\ spent.auth < MaxAuth
    /\ cl' = [cl EXCEPT ![c].out = TRUE, ![c].sent = now, ![c].last = now, ![c].pinged = FALSE]
    /\ svc' = Tell(<<<<c, IF cl[c].agent THEN "C" ELSE "S">>>>)
    /\ Spend("auth")
    /\ UNCHANGED <<dnsreq, blu, asked, xfer, now, hist>>

\* cmd_auth, send_first_auth: the password is kept for the session that services
\* are asked to start
Auth(c) ==
    /\ Parses(c) /\ Unknown(c) /\ cl[c].prompt /\ spent.auth < MaxAuth
    /\ ~cl[c].agent /\ ~cl[c].authmsg
    /\ cl' = [cl EXCEPT ![c].authmsg = TRUE, ![c].out = @ \/ svc.up, ![c].last = now]
    /\ svc' = Tell(<<<<c, "S">>>>)
    /\ Spend("auth")
    /\ UNCHANGED <<dnsreq, blu, asked, xfer, now, hist>>

\* A registered user sends something: read_packet
UserData(c) ==
    /\ cl[c].st = "user" /\ Parses(c)
    /\ cl[c].last # now \/ cl[c].pinged
    /\ cl' = [cl EXCEPT ![c].last = now, ![c].pinged = FALSE]
    /\ UNCHANGED <<dnsreq, blu, asked, xfer, svc, now, spent, hist>>

\* QUIT, or the connection breaks
Quit(c) ==
    /\ Live(c)
    /\ Exit(c, "quit")
    /\ UNCHANGED <<asked, xfer, now, spent>>

-----------------------------------------------------------------------------
(* Services, and what they answer *)

\* Services (external) read a message: a session starts and they ask for the
\* password, or it ends with a login or with a failure; or they never read it
Services ==
    /\ svc.up /\ svc.to # <<>>
    /\ LET c == Head(svc.to)[1]
           op == Head(svc.to)[2]
           Say(state, msgs) == svc' = [svc EXCEPT !.to = Tail(@), !.session[c] = state,
                                                  !.from = @ \o msgs]
       IN  \/ op = "S" /\ Say("open", <<<<c, "C">>>>)
           \/ op = "C" /\ svc.session[c] = "open" /\ Say("none", <<<<c, "L">>, <<c, "S">>>>)
           \/ op = "C" /\ Say("none", <<<<c, "F">>>>)
           \/ op = "A" /\ Say("none", <<>>)
    /\ UNCHANGED <<cl, dnsreq, blu, asked, xfer, now, spent, hist>>

\* Mutant: the result of a SASL attempt does not complete the handshake
SaslDoneWaits(c, x, success) ==
    [x EXCEPT !.agent = FALSE, !.sent = 0, !.done = @ \/ success]

\* authprompt_sasl_result
PromptResult(c, x, success) ==
    IF success /\ x.prompt /\ x.login THEN TryRegister(c, x) ELSE x

\* cmd_sasl D, sasl_succeeded, sasl_failed
SaslDone(c, x, success) ==
    TryRegister(c, PromptResult(c,
        [x EXCEPT !.agent = FALSE, !.sent = 0, !.done = @ \/ success], success))

\* cmd_sasl C and authprompt_sasl_continuation, which sends the password it kept
SaslContinue(x) == [x EXCEPT !.agent = TRUE, !.authmsg = @ /\ ~x.prompt]

\* cmd_svslogin
SvsLogin(x) == [x EXCEPT !.login = TRUE]

\* Answers of services: they are for an id, and of a client that has gone nobody
\* has the id
RecvServices ==
    /\ svc.from # <<>>
    /\ LET c == Head(svc.from)[1]
           op == Head(svc.from)[2]
           x == cl[c]
           y == CASE op = "C" -> SaslContinue(x)
                  [] op = "L" -> SvsLogin(x)
                  [] op = "S" -> SaslDone(c, x, TRUE)
                  [] OTHER -> SaslDone(c, x, FALSE)
           password == IF x.authmsg /\ ~y.authmsg THEN <<<<c, "C">>>> ELSE <<>>
           rest == [svc EXCEPT !.from = Tail(@)]
       IN  IF Live(c)
           THEN /\ cl' = [cl EXCEPT ![c] = y]
                /\ svc' = [rest EXCEPT !.to = @ \o Told(c, y) \o password]
           ELSE svc' = rest /\ UNCHANGED cl
    /\ UNCHANGED <<dnsreq, blu, asked, xfer, now, spent, hist>>

\* Services split off: sessions and messages are lost, sasl_agent keeps a name
\* that find_client does not find; they come back
ServicesSplit ==
    /\ svc.up /\ spent.rare < MaxRare
    /\ svc' = Services0(FALSE)
    /\ hist' = [c \in Client |-> [hist[c] EXCEPT !.orphan = @ \/ (Live(c) /\ cl[c].out)]]
    /\ Spend("rare")
    /\ UNCHANGED <<cl, dnsreq, blu, asked, xfer, now>>

ServicesBack ==
    /\ ~svc.up
    /\ svc' = Services0(TRUE)
    /\ UNCHANGED <<cl, dnsreq, blu, asked, xfer, now, spent, hist>>

\* sasl_timeout
CheckSaslTimeout(c) ==
    /\ Unknown(c) /\ cl[c].sent # 0 /\ now - cl[c].sent > SaslTimeout
    /\ Become(c, AbortSasl(cl[c]))
    /\ hist' = [hist EXCEPT ![c].orphan = TRUE]
    /\ UNCHANGED <<dnsreq, blu, asked, xfer, now, spent>>

-----------------------------------------------------------------------------
(* The central blocklist *)

\* centralblocklist_bundle_requests, send_request_for_pending_clients
CblBundle ==
    LET pending == {c \in Client : Unknown(c) /\ cl[c].cbl = "pending"}
    IN  /\ pending # {}
        /\ xfer' = xfer \cup {pending}
        /\ cl' = [c \in Client |->
                     IF c \in pending THEN [cl[c] EXCEPT !.cbl = "sent", !.cblat = now] ELSE cl[c]]
        /\ UNCHANGED <<dnsreq, blu, asked, svc, now, spent, hist>>

\* take_action: whether the verdict v ends the client x
Ends(x, v) == v = "kill" \/ (v = "soft" /\ ~x.login /\ x.st = "user")

\* authprompt_take_action
Prompted(x) == [x EXCEPT !.prompt = @ \/ ~x.login]

\* cbl_handle_response for a client that lives on: soft actions leave it to the
\* prompt, and to those who are logged in they do not apply
CblVerdictOn(c, x, v) ==
    CASE v = "allow" -> CblAllow(c, x)
      [] v = "soft" -> CblAllow(c, Prompted(x))
      [] v = "shun" -> [x EXCEPT !.shun = TRUE]
      [] OTHER -> x

\* The structures become new, one after the other: services hear of the attempts
\* of those who register (sasl_connect) or were users (sasl_quit)
TellAborted(new) ==
    LET told == {c \in Client :
                   Aborts(cl[c]) /\ ~new[c].out /\ "user" \in {cl[c].st, new[c].st}}
    IN  \E order \in SetToSeqs(told) :
            svc' = Tell([i \in DOMAIN order |-> <<order[i], "A">>])

\* cbl_download_complete: a verdict for each client, or for some; the ids of
\* clients that have gone are not found
CblAnswer(t) ==
    \E v \in [t -> CblVerdict \cup {"allow", "missing"}] :
        LET here == {c \in t : Live(c) /\ v[c] # "missing"}
            gone == {c \in here : Ends(cl[c], v[c])}
            new == [c \in Client |->
                      IF c \in gone THEN Gone(cl[c])
                      ELSE IF c \in here THEN CblVerdictOn(c, cl[c], v[c]) ELSE cl[c]]
        IN  /\ xfer' = xfer \ {t}
            /\ cl' = new
            /\ dnsreq' = {IF r.to \in gone THEN [r EXCEPT !.to = None] ELSE r : r \in dnsreq}
            /\ blu' = [c \in Client |-> IF c \in gone THEN FreeBluser(blu[c]) ELSE blu[c]]
            /\ hist' = [c \in Client |->
                  IF c \in gone THEN [hist[c] EXCEPT !.end = "blocklist"]
                  ELSE IF c \in here THEN [hist[c] EXCEPT !.refused = Refused(c, v[c])] ELSE hist[c]]
            /\ TellAborted(new)
            /\ UNCHANGED <<asked, now, spent>>

\* cbl_error_response: everyone who waits is let through
CblError(t) ==
    LET new == [c \in Client |-> IF c \in t /\ Live(c) THEN CblAllow(c, cl[c]) ELSE cl[c]]
    IN  /\ xfer' = xfer \ {t}
        /\ cl' = new
        /\ TellAborted(new)
        /\ UNCHANGED <<dnsreq, blu, asked, now, spent, hist>>

\* centralblocklist_timeout_evt: the transfer goes on, its answer may come later
CblTimeoutEvt(c) ==
    /\ Unknown(c) /\ cl[c].cbl = "sent" /\ ~cl[c].shun /\ now - cl[c].cblat > CblTimeout
    /\ Become(c, CblAllow(c, cl[c]))
    /\ UNCHANGED <<dnsreq, blu, asked, xfer, now, spent, hist>>

-----------------------------------------------------------------------------
(* Timeouts of the core *)

\* Mutant: those who wait at the prompt are not timed out
HandshakeTimeoutNotPrompted(c) ==
    /\ Unknown(c) /\ ~cl[c].prompt /\ now - cl[c].at > HandshakeTimeout
    /\ Exit(c, "registration")
    /\ UNCHANGED <<asked, xfer, now, spent>>

\* handshake_timeout
HandshakeTimeoutEvt(c) ==
    /\ Unknown(c) /\ now - cl[c].at > HandshakeTimeout
    /\ Exit(c, "registration")
    /\ UNCHANGED <<asked, xfer, now, spent>>

\* Mutant: a PING that is late leaves the time of the last data as it is
CheckPingNoReset(c) ==
    /\ cl[c].st = "user" /\ now - cl[c].last >= PingFreq
    /\ \/ /\ cl[c].pinged /\ now - cl[c].last >= 2 * PingFreq
          /\ Exit(c, "ping")
       \/ /\ ~cl[c].pinged
          /\ cl' = [cl EXCEPT ![c].pinged = TRUE]
          /\ hist' = [hist EXCEPT ![c].pingat = now]
          /\ UNCHANGED <<dnsreq, blu, svc>>
    /\ UNCHANGED <<asked, xfer, now, spent>>

\* check_pings, check_ping: a PING, and the end of who does not answer
CheckPing(c) ==
    /\ cl[c].st = "user" /\ now - cl[c].last >= PingFreq
    /\ \/ /\ cl[c].pinged /\ now - cl[c].last >= 2 * PingFreq
          /\ Exit(c, "ping")
       \/ /\ ~cl[c].pinged
          /\ cl' = [cl EXCEPT ![c].pinged = TRUE, ![c].last = now - PingFreq]
          /\ hist' = [hist EXCEPT ![c].pingat = now]
          /\ UNCHANGED <<dnsreq, blu, svc>>
    /\ UNCHANGED <<asked, xfer, now, spent>>

Tick ==
    /\ now < MaxTime
    /\ now' = now + 1
    /\ UNCHANGED <<cl, dnsreq, blu, asked, xfer, svc, spent, hist>>

Next ==
    \/ \E c \in Client :
         \/ Accept(c) \/ ProxyIp(c) \/ IdentAnswer(c) \/ CheckIdentTimeout(c)
         \/ BlacklistAnswer(c) \/ BlacklistRecheck(c)
         \/ Nick(c) \/ User(c) \/ Pong(c) \/ Cap(c) \/ CapEnd(c)
         \/ Authenticate(c) \/ Auth(c) \/ UserData(c) \/ Quit(c)
         \/ CheckSaslTimeout(c) \/ CblTimeoutEvt(c) \/ HandshakeTimeoutEvt(c) \/ CheckPing(c)
    \/ \E r \in dnsreq : DnsAnswer(r)
    \/ \E t \in xfer : CblAnswer(t) \/ CblError(t)
    \/ Services \/ RecvServices \/ ServicesSplit \/ ServicesBack
    \/ CblBundle \/ Tick

Spec == Init /\ [][Next]_vars

\* The event loop runs its events, and time passes
FairSpec ==
    /\ Spec /\ WF_vars(Tick)
    /\ \A c \in Client : WF_vars(HandshakeTimeoutEvt(c))

-----------------------------------------------------------------------------
\* The types of the variables; a BLUser has as many references as there are
\* queries that will return one.
TypeOK ==
    /\ \A c \in Client :
          /\ cl[c] \in Structure
          /\ blu[c].alloc \in BOOLEAN /\ blu[c].client \in BOOLEAN
          /\ blu[c].refcnt = asked[c]
    /\ \A r \in dnsreq : r.to \in {r.who, None} /\ r.stage \in 1..2
    /\ xfer \subseteq SUBSET Client
    /\ svc.up \in BOOLEAN /\ (~svc.up => svc = Services0(FALSE))

\* What a resolver holds is never freed under it, and nothing leaks: a query in
\* flight finds its BLUser, which goes with the later of the client and the last
\* answer; a DNS request points to no client, or to a live one whose current
\* lookup it is, and a client waits for its name only while such a request exists.
NoDangling ==
    /\ \A c \in Client :
          /\ asked[c] > 0 => blu[c].alloc
          /\ blu[c].alloc => Live(c) \/ asked[c] > 0
          /\ blu[c].client <=> Live(c)
          /\ cl[c].dns => \E r \in dnsreq : r.to = c
    /\ \A r \in dnsreq : r.to # None => Live(r.to) /\ r.n = cl[r.to].lookup /\ cl[r.to].dns

\* Whatever completes the handshake last also registers the client: one that
\* misses nothing waits for the blocklist, for services, or at the prompt.  The
\* exception is an attempt that sasl_timeout ended, or that services took along:
\* nobody looks at the client then, until it sends another command.
NoneForgotten ==
    \A c \in Client : Unknown(c) /\ ~InProgress(cl[c]) =>
        \/ cl[c].cbl \in {"pending", "sent"}
        \/ cl[c].shun \/ HeldBack(c, cl[c])
        \/ \E i \in DOMAIN svc.from : svc.from[i] = <<c, "S">>
        \/ hist[c].orphan

\* A client that a blacklist or the central blocklist refused before it was let
\* in is not let in later, by a timeout, a retry or another answer; the soft
\* refusals end with a login.
RefusedStaysOut ==
    \A c \in Client : cl[c].st = "user" =>
        /\ hist[c].refused # "hard"
        /\ hist[c].refused = "soft" => cl[c].login

\* Every connection is decided: it becomes a user or ends.
Decided == \A c \in Client : Unknown(c) ~> ~Unknown(c)

\* A user who is pinged has a full pingfreq to answer, however late the PING was.
PingGrace ==
    [][\A c \in Client :
         (hist'[c].end = "ping" /\ hist[c].end # "ping") => now - hist[c].pingat >= PingFreq]_vars
=============================================================================
