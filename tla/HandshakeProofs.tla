--------------------------- MODULE HandshakeProofs ---------------------------
(***************************************************************************)
(* Module Handshake for any number of clients, blacklists and timeouts:    *)
(* the types, that no lookup is left with a freed structure (NoDangling),  *)
(* that nobody is forgotten (NoneForgotten), that who was refused is not   *)
(* let in (RefusedStaysOut), and the time to answer a PING (PingGrace).    *)
(*                                                                         *)
(* Three invariants, each from the one before: Shape, the types; Linked,   *)
(* what lookups and structures know of each other; Fair, what is promised  *)
(* to one client, given what services have been told of it.                *)
(***************************************************************************)
EXTENDS Handshake, SequenceTheorems, FiniteSetTheorems, TLAPS

BLUser == [alloc : BOOLEAN, client : BOOLEAN, refcnt : Nat]
Request == [who : Client, n : Nat, to : Client \cup {None}, stage : {1, 2}]
Question == Client \X {"S", "C", "A"}
Answer == Client \X {"C", "L", "S", "F"}
SvcRec == [up : BOOLEAN, session : [Client -> {"none", "open"}],
           to : Seq(Question), from : Seq(Answer)]
History == [refused : {"no", "soft", "hard"}, orphan : BOOLEAN, pingat : Int,
            end : {"no", "quit", "blacklist", "registration", "blocklist", "ping"}]

Shape ==
    /\ cl \in [Client -> Structure]
    /\ dnsreq \subseteq Request /\ \A r \in dnsreq : r.to \in {r.who, None}
    /\ blu \in [Client -> BLUser] /\ asked \in [Client -> Nat]
    /\ \A c \in Client : blu[c].refcnt = asked[c]
    /\ xfer \subseteq SUBSET Client
    /\ svc \in SvcRec /\ (~svc.up => svc = Services0(FALSE))
    /\ now \in Nat /\ now > 0
    /\ spent \in [{"auth", "rare"} -> Nat]
    /\ hist \in [Client -> History]

\* A structure of blacklist.c and the client x that it belongs to
Counted(x, b, n) ==
    /\ n > 0 => b.alloc
    /\ b.alloc => x.st \in {"unknown", "user"} \/ n > 0
    /\ b.client <=> x.st \in {"unknown", "user"}

\* The request that the client x, c, waits for, the only one with its name
Awaited(c, x, reqs) ==
    /\ x.dns => \E r \in reqs : r.to = c
    /\ \A r \in reqs : r.to = c => x.st \in {"unknown", "user"} /\ r.n = x.lookup /\ x.dns
    /\ \A r, s \in reqs : r.to = c /\ s.to = c => r = s

Linked ==
    \A c \in Client : Counted(cl[c], blu[c], asked[c]) /\ Awaited(c, cl[c], dnsreq)

-----------------------------------------------------------------------------
(* What is promised to a client *)

About(c, s) == \E i \in DOMAIN s : s[i][1] = c
Has(m, s) == \E i \in DOMAIN s : s[i] = m

\* Services say that an attempt succeeded right after they logged the client in
Paired(s) ==
    \A i \in DOMAIN s : s[i][2] = "L" => i + 1 \in DOMAIN s /\ s[i + 1] = <<s[i][1], "S">>

\* What stands between the client x, c, and its registration, services apart
Stopped(c, x) == InProgress(x) \/ x.cbl \in {"pending", "sent"} \/ x.shun \/ HeldBack(c, x)

\* NoneForgotten for one client; s are the answers of services
Waits(c, x, h, s) ==
    x.st = "unknown" => Stopped(c, x) \/ Has(<<c, "S">>, s) \/ h.orphan

\* Of whom services have heard, has an attempt that ends in an answer
Heard(c, x, h, q, s) ==
    About(c, q) \/ About(c, s) => x.st # "free" /\ (x.st = "unknown" => x.out \/ h.orphan)

\* A PING counts from the moment it was sent
Pinged(x, h) == x.pinged => x.st = "user" /\ x.last = h.pingat - PingFreq

\* Who was refused is held back as long as it is not let in
Barred(x, h) ==
    /\ h.refused = "hard" => x.st # "user" /\ (x.st = "unknown" => x.shun)
    /\ h.refused = "soft" => /\ x.st = "user" => x.login
                             /\ x.st = "unknown" => x.login \/ x.prompt \/ x.save

\* A client that is not there has no past
Blank(x, h) == x.st = "free" => ~x.out /\ ~x.pinged /\ h.refused = "no"

\* The promises to the client x, c, with its history h, when q has been sent to
\* services and s is what they answered
Treated(c, x, h, q, s) ==
    /\ Waits(c, x, h, s) /\ Heard(c, x, h, q, s)
    /\ Pinged(x, h) /\ Blank(x, h)
    /\ "block" \notin BlAction \cup CblVerdict => Barred(x, h)

Fair ==
    /\ Paired(svc.from)
    /\ \A c \in Client : Treated(c, cl[c], hist[c], svc.to, svc.from)

Inv == Shape /\ Linked /\ Fair

-----------------------------------------------------------------------------
(* Streams to and from services *)

\* What a stream mentions after another one is added to it.
LEMMA AboutConcat ==
    ASSUME NEW S, NEW s \in Seq(S), NEW t \in Seq(S), NEW c, About(c, s \o t)
    PROVE  About(c, s) \/ About(c, t)
  <1>1. PICK i \in DOMAIN (s \o t) : (s \o t)[i][1] = c
    BY DEF About
  <1>2. CASE i <= Len(s)
    <2>1. i \in DOMAIN s /\ (s \o t)[i] = s[i]
      BY <1>2, ConcatProperties
    <2>2. QED
      BY <1>1, <2>1 DEF About
  <1>3. CASE ~(i <= Len(s))
    <2>1. i - Len(s) \in DOMAIN t /\ (s \o t)[i] = t[i - Len(s)]
      BY <1>3, ConcatProperties
    <2>2. QED
      BY <1>1, <2>1 DEF About
  <1>4. QED
    BY <1>2, <1>3

\* A message stays in a stream that grows.
LEMMA HasConcat ==
    ASSUME NEW S, NEW s \in Seq(S), NEW t \in Seq(S), NEW m, Has(m, s)
    PROVE  Has(m, s \o t)
  <1>1. PICK i \in DOMAIN s : s[i] = m
    BY DEF Has
  <1>2. i \in DOMAIN (s \o t) /\ (s \o t)[i] = s[i]
    BY ConcatProperties
  <1>3. QED
    BY <1>1, <1>2 DEF Has

\* Reading the first message of a stream: what the rest still holds.
LEMMA TailKeeps ==
    ASSUME NEW S, NEW s \in Seq(S), s # <<>>
    PROVE  /\ Head(s) \in S /\ Head(s) = s[1] /\ Tail(s) \in Seq(S)
           /\ \A c : About(c, Tail(s)) => About(c, s)
           /\ \A c : Head(s)[1] = c => About(c, s)
           /\ \A m : Has(m, s) => Head(s) = m \/ Has(m, Tail(s))
           /\ Paired(s) => Paired(Tail(s))
           /\ Paired(s) /\ Head(s)[2] = "L" => Has(<<Head(s)[1], "S">>, Tail(s))
  <1>1. /\ Head(s) \in S /\ Head(s) = s[1] /\ Tail(s) \in Seq(S)
        /\ 1 \in DOMAIN s /\ Len(s) \in Nat /\ DOMAIN s = 1..Len(s)
        /\ DOMAIN Tail(s) = 1..(Len(s) - 1)
        /\ \A i \in DOMAIN Tail(s) : Tail(s)[i] = s[i + 1]
    OBVIOUS
  <1>2. \A i \in DOMAIN Tail(s) : i + 1 \in DOMAIN s /\ (i + 1) + 1 = i + 2
    BY <1>1
  <1>3. \A i \in DOMAIN s : i # 1 => i - 1 \in DOMAIN Tail(s) /\ (i - 1) + 1 = i
    BY <1>1
  <1>4. \A c : About(c, Tail(s)) => About(c, s)
    BY <1>1, <1>2 DEF About
  <1>5. \A c : Head(s)[1] = c => About(c, s)
    BY <1>1 DEF About
  <1>6. \A m : Has(m, s) => Head(s) = m \/ Has(m, Tail(s))
    BY <1>1, <1>3 DEF Has
  <1>7. ASSUME Paired(s) PROVE Paired(Tail(s))
    <2> SUFFICES ASSUME NEW i \in DOMAIN Tail(s), Tail(s)[i][2] = "L"
                 PROVE  i + 1 \in DOMAIN Tail(s) /\ Tail(s)[i + 1] = <<Tail(s)[i][1], "S">>
      BY DEF Paired
    <2>1. i + 1 \in DOMAIN s /\ s[i + 1] = Tail(s)[i]
      BY <1>1, <1>2
    <2>2. (i + 1) + 1 \in DOMAIN s /\ s[(i + 1) + 1] = <<s[i + 1][1], "S">>
      BY <1>7, <2>1 DEF Paired
    <2>3. i + 1 \in DOMAIN Tail(s)
      BY <2>2, <1>1
    <2>4. QED
      BY <2>1, <2>2, <2>3, <1>1
  <1>8. ASSUME Paired(s), Head(s)[2] = "L" PROVE Has(<<Head(s)[1], "S">>, Tail(s))
    <2>1. 1 + 1 \in DOMAIN s /\ s[1 + 1] = <<s[1][1], "S">>
      BY <1>1, <1>8 DEF Paired
    <2>2. 1 \in DOMAIN Tail(s) /\ Tail(s)[1] = s[1 + 1]
      BY <1>1, <2>1
    <2>3. QED
      BY <1>1, <2>1, <2>2 DEF Has
  <1>9. QED
    BY <1>1, <1>4, <1>5, <1>6, <1>7, <1>8

\* Logins stay followed by their result when more answers come.
LEMMA PairedConcat ==
    ASSUME NEW S, NEW s \in Seq(S), NEW t \in Seq(S), Paired(s), Paired(t)
    PROVE  Paired(s \o t)
  <1> SUFFICES ASSUME NEW i \in DOMAIN (s \o t), (s \o t)[i][2] = "L"
               PROVE  /\ i + 1 \in DOMAIN (s \o t)
                      /\ (s \o t)[i + 1] = <<(s \o t)[i][1], "S">>
    BY DEF Paired
  <1>1. /\ Len(s) \in Nat /\ Len(t) \in Nat /\ DOMAIN s = 1..Len(s) /\ DOMAIN t = 1..Len(t)
        /\ DOMAIN (s \o t) = 1..(Len(s) + Len(t))
        /\ \A j \in 1..Len(s) : (s \o t)[j] = s[j]
        /\ \A j \in 1..Len(t) : (s \o t)[Len(s) + j] = t[j]
    BY ConcatProperties
  <1>2. CASE i <= Len(s)
    <2>1. i \in DOMAIN s /\ (s \o t)[i] = s[i]
      BY <1>1, <1>2
    <2>2. i + 1 \in DOMAIN s /\ s[i + 1] = <<s[i][1], "S">>
      BY <2>1 DEF Paired
    <2>3. i + 1 \in DOMAIN (s \o t) /\ (s \o t)[i + 1] = s[i + 1]
      BY <1>1, <2>2
    <2>4. QED
      BY <2>1, <2>2, <2>3
  <1>3. CASE ~(i <= Len(s))
    <2> DEFINE j == i - Len(s)
    <2>1. j \in DOMAIN t /\ i = Len(s) + j
      BY <1>1, <1>3
    <2>2. (s \o t)[i] = t[j]
      BY <1>1, <2>1
    <2>3. j + 1 \in DOMAIN t /\ t[j + 1] = <<t[j][1], "S">>
      BY <2>1, <2>2 DEF Paired
    <2>4. i + 1 \in DOMAIN (s \o t) /\ i + 1 = Len(s) + (j + 1)
      BY <1>1, <2>1, <2>3
    <2>5. (s \o t)[i + 1] = t[j + 1]
      BY <1>1, <2>3, <2>4
    <2>6. QED
      BY <2>2, <2>3, <2>4, <2>5
  <1>4. QED
    BY <1>2, <1>3

-----------------------------------------------------------------------------
(* Registration *)

\* What most steps may do to the structure x of c: let it in, if nothing holds it
\* back, and else take back nothing that the promises rest on
Advances(c, x, y) ==
    /\ y \in Structure
    /\ y.st = x.st \/ (x.st = "unknown" /\ y.st = "user" /\ ~y.shun /\ ~HeldBack(c, y))
    /\ y.dns = x.dns /\ y.lookup = x.lookup
    /\ (y.st = "free" => y.out = x.out) /\ (y.st = "unknown" /\ x.out => y.out)
    /\ (x.login => y.login) /\ (x.prompt => y.prompt) /\ (x.save => y.save)
    /\ x.shun => y.shun
    /\ y.pinged => x.pinged /\ y.last = x.last

\* register_user lets a client in or holds it back.
LEMMA RegisterUserFacts ==
    ASSUME NEW c, NEW x \in Structure, x.st = "unknown"
    PROVE  /\ Advances(c, x, RegisterUser(c, x))
           /\ RegisterUser(c, x).st = "unknown" =>
                 RegisterUser(c, x).shun \/ HeldBack(c, RegisterUser(c, x))
  <1>1. CASE x.shun
    BY <1>1 DEF RegisterUser, Advances
  <1>2. CASE ~x.shun /\ HeldBack(c, x)
    <2> DEFINE y == [x EXCEPT !.prompt = TRUE]
    <2>1. RegisterUser(c, x) = y
      BY <1>2 DEF RegisterUser
    <2>2. /\ y \in Structure /\ y.st = x.st /\ y.dns = x.dns /\ y.lookup = x.lookup
          /\ y.out = x.out /\ y.login = x.login /\ y.prompt /\ y.save = x.save
          /\ y.shun = x.shun /\ y.last = x.last /\ y.pinged = x.pinged
      BY DEF Structure
    <2> HIDE DEF y
    <2>3. HeldBack(c, y)
      BY <1>2, <2>2 DEF HeldBack
    <2>4. QED
      BY <2>1, <2>2, <2>3 DEF Advances
  <1>3. CASE ~x.shun /\ ~HeldBack(c, x)
    <2> DEFINE w == AbortSasl(x)
               y == [w EXCEPT !.st = "user", !.at = 0, !.cblat = 0, !.named = FALSE]
    <2>1. RegisterUser(c, x) = y
      BY <1>3 DEF RegisterUser
    <2>2. /\ w \in Structure /\ w.dns = x.dns /\ w.lookup = x.lookup
          /\ w.login = x.login /\ w.prompt = x.prompt /\ w.save = x.save
          /\ w.shun = x.shun /\ w.last = x.last /\ w.pinged = x.pinged
      BY ZenonT(30) DEF Structure, AbortSasl
    <2> HIDE DEF w
    <2>3. /\ y \in Structure /\ y.st = "user" /\ y.dns = w.dns /\ y.lookup = w.lookup
          /\ y.login = w.login /\ y.prompt = w.prompt /\ y.save = w.save
          /\ y.shun = w.shun /\ y.last = w.last /\ y.pinged = w.pinged
      BY <2>2 DEF Structure
    <2> HIDE DEF y
    <2>4. ~HeldBack(c, y)
      BY <1>3, <2>2, <2>3 DEF HeldBack
    <2>5. QED
      BY <1>3, <2>1, <2>2, <2>3, <2>4 DEF Advances
  <1>4. QED
    BY <1>1, <1>2, <1>3

\* is_handshake_finished and register_user: what a client does not have yet, or
\* what holds it back, is all that stops it.
LEMMA TryRegisterFacts ==
    ASSUME NEW c, NEW x \in Structure
    PROVE  /\ Advances(c, x, TryRegister(c, x))
           /\ TryRegister(c, x).st = "unknown" => Stopped(c, TryRegister(c, x))
  <1>1. CASE x.st # "unknown" \/ InProgress(x)
    BY <1>1 DEF TryRegister, Advances, Stopped
  <1>2. CASE x.st = "unknown" /\ ~InProgress(x) /\ x.cbl = "allowed"
    BY <1>2, RegisterUserFacts DEF TryRegister, Stopped
  <1>3. CASE x.st = "unknown" /\ ~InProgress(x) /\ x.cbl # "allowed"
    <2>1. TryRegister(c, x) = CblStart(x)
      BY <1>3 DEF TryRegister
    <2>2. CASE x.cbl = "no"
      <3> DEFINE y == [x EXCEPT !.cbl = "pending"]
      <3>1. TryRegister(c, x) = y
        BY <2>1, <2>2 DEF CblStart
      <3>2. /\ y \in Structure /\ y.st = x.st /\ y.dns = x.dns /\ y.lookup = x.lookup
            /\ y.out = x.out /\ y.login = x.login /\ y.prompt = x.prompt /\ y.save = x.save
            /\ y.shun = x.shun /\ y.last = x.last /\ y.pinged = x.pinged /\ y.cbl = "pending"
        BY DEF Structure
      <3> HIDE DEF y
      <3>3. QED
        BY <3>1, <3>2 DEF Advances, Stopped
    <2>3. CASE x.cbl # "no"
      <3>1. TryRegister(c, x) = x /\ x.cbl \in {"pending", "sent"}
        BY <1>3, <2>1, <2>3 DEF CblStart, Structure
      <3>2. QED
        BY <3>1 DEF Advances, Stopped
    <2>4. QED
      BY <2>2, <2>3
  <1>4. QED
    BY <1>1, <1>2, <1>3

\* cbl_allow: it registers the client, or nothing changes.
LEMMA CblAllowFacts ==
    ASSUME NEW c, NEW x \in Structure
    PROVE  /\ Advances(c, x, CblAllow(c, x))
           /\ CblAllow(c, x) = x \/ (CblAllow(c, x).st = "unknown" => Stopped(c, CblAllow(c, x)))
  <1>1. CASE x.cbl = "allowed"
    BY <1>1 DEF CblAllow, Advances
  <1>2. CASE x.cbl # "allowed"
    <2> DEFINE w == [x EXCEPT !.cbl = "allowed"]
    <2>1. CblAllow(c, x) = TryRegister(c, w)
      BY <1>2 DEF CblAllow
    <2>2. /\ w \in Structure /\ w.st = x.st /\ w.dns = x.dns /\ w.lookup = x.lookup
          /\ w.out = x.out /\ w.login = x.login /\ w.prompt = x.prompt /\ w.save = x.save
          /\ w.shun = x.shun /\ w.last = x.last /\ w.pinged = x.pinged
      BY DEF Structure
    <2> HIDE DEF w
    <2>3. /\ Advances(c, w, TryRegister(c, w))
          /\ TryRegister(c, w).st = "unknown" => Stopped(c, TryRegister(c, w))
      BY <2>2, TryRegisterFacts
    <2>4. QED
      BY <2>1, <2>2, <2>3 DEF Advances
  <1>3. QED
    BY <1>1, <1>2

\* Steps follow each other as long as the client is not let in.
LEMMA AdvancesTwice ==
    ASSUME NEW c, NEW x, NEW w, NEW y, Advances(c, x, w), Advances(c, w, y), w.st = x.st
    PROVE  Advances(c, x, y)
  BY DEF Advances

\* The result of a SASL attempt completes the handshake, if nothing else is
\* missing.
LEMMA SaslDoneFacts ==
    ASSUME NEW c, NEW x \in Structure, NEW success \in BOOLEAN
    PROVE  /\ Advances(c, x, SaslDone(c, x, success))
           /\ SaslDone(c, x, success).st = "unknown" => Stopped(c, SaslDone(c, x, success))
  <1> DEFINE w == [x EXCEPT !.agent = FALSE, !.sent = 0, !.done = @ \/ success]
             v == PromptResult(c, w, success)
  <1>1. /\ w \in Structure /\ w.st = x.st /\ w.dns = x.dns /\ w.lookup = x.lookup
        /\ w.out = x.out /\ w.login = x.login /\ w.prompt = x.prompt /\ w.save = x.save
        /\ w.shun = x.shun /\ w.last = x.last /\ w.pinged = x.pinged
    BY DEF Structure
  <1>2. SaslDone(c, x, success) = TryRegister(c, v)
    BY DEF SaslDone
  <1> HIDE DEF w
  <1>3. Advances(c, x, w)
    BY <1>1 DEF Advances
  <1>4. Advances(c, x, v) /\ v \in Structure
    <2>1. CASE v = w
      BY <1>1, <1>3, <2>1
    <2>2. CASE v # w
      <3>1. v = TryRegister(c, w)
        BY <2>2 DEF PromptResult
      <3>2. Advances(c, w, v)
        BY <1>1, <3>1, TryRegisterFacts
      <3>3. QED
        BY <1>1, <1>3, <3>2, AdvancesTwice DEF Advances
    <2>3. QED
      BY <2>1, <2>2
  <1> HIDE DEF v
  <1>5. /\ Advances(c, v, TryRegister(c, v))
        /\ TryRegister(c, v).st = "unknown" => Stopped(c, TryRegister(c, v))
    BY <1>4, TryRegisterFacts
  <1>6. CASE v.st = x.st
    BY <1>2, <1>4, <1>5, <1>6, AdvancesTwice
  <1>7. CASE v.st # x.st
    <2>1. v.st = "user"
      BY <1>4, <1>7 DEF Advances
    <2>2. TryRegister(c, v) = v
      BY <2>1 DEF TryRegister
    <2>3. QED
      BY <1>2, <1>4, <1>5, <2>2
  <1>8. QED
    BY <1>6, <1>7

\* What services say before the result of an attempt.
LEMMA SaslStepFacts ==
    ASSUME NEW c, NEW x \in Structure
    PROVE  /\ Advances(c, x, SaslContinue(x)) /\ Advances(c, x, SvsLogin(x))
           /\ Stopped(c, x) => Stopped(c, SaslContinue(x))
           /\ SaslContinue(x).st = x.st /\ SvsLogin(x).st = x.st
           /\ SaslContinue(x).out = x.out /\ SvsLogin(x).out = x.out
  <1>1. Advances(c, x, SaslContinue(x)) /\ SaslContinue(x).st = x.st /\ SaslContinue(x).out = x.out
    BY ZenonT(40) DEF SaslContinue, Structure, Advances
  <1>2. Advances(c, x, SvsLogin(x)) /\ SvsLogin(x).st = x.st /\ SvsLogin(x).out = x.out
    BY ZenonT(40) DEF SvsLogin, Structure, Advances
  <1>3. /\ SaslContinue(x).cap = x.cap /\ SaslContinue(x).sent = x.sent
        /\ SaslContinue(x).done = x.done /\ SaslContinue(x).nick = x.nick
        /\ SaslContinue(x).named = x.named /\ SaslContinue(x).cookie = x.cookie
        /\ SaslContinue(x).cbl = x.cbl /\ SaslContinue(x).shun = x.shun
        /\ SaslContinue(x).login = x.login /\ SaslContinue(x).prompt = x.prompt
        /\ SaslContinue(x).save = x.save
    BY DEF SaslContinue, Structure
  <1>4. Stopped(c, x) => Stopped(c, SaslContinue(x))
    BY <1>3 DEF Stopped, InProgress, SaslInProgress, HeldBack
  <1>5. QED
    BY <1>1, <1>2, <1>4

\* The verdict of the central blocklist on a client that lives on.
LEMMA CblVerdictFacts ==
    ASSUME NEW c, NEW x \in Structure, NEW v
    PROVE  /\ Advances(c, x, CblVerdictOn(c, x, v))
           /\ CblVerdictOn(c, x, v).st = "unknown" /\ Stopped(c, x) =>
                 Stopped(c, CblVerdictOn(c, x, v))
           /\ v = "shun" => CblVerdictOn(c, x, v).shun /\ CblVerdictOn(c, x, v).st = x.st
           /\ v = "soft" /\ ~x.login => CblVerdictOn(c, x, v).prompt
  <1>1. CASE v = "allow"
    BY <1>1, CblAllowFacts DEF CblVerdictOn
  <1>2. CASE v = "soft"
    <2> DEFINE w == Prompted(x)
    <2>1. /\ w \in Structure /\ w.st = x.st /\ w.dns = x.dns /\ w.lookup = x.lookup
          /\ w.out = x.out /\ w.login = x.login /\ w.save = x.save
          /\ w.prompt = (x.prompt \/ ~x.login)
          /\ w.shun = x.shun /\ w.last = x.last /\ w.pinged = x.pinged
      BY DEF Structure, Prompted
    <2>2. /\ w.cap = x.cap /\ w.sent = x.sent /\ w.done = x.done /\ w.nick = x.nick
          /\ w.named = x.named /\ w.cookie = x.cookie /\ w.cbl = x.cbl
      BY DEF Structure, Prompted
    <2>3. CblVerdictOn(c, x, v) = CblAllow(c, w)
      BY <1>2 DEF CblVerdictOn
    <2> HIDE DEF w
    <2>4. Advances(c, x, w) /\ (Stopped(c, x) => Stopped(c, w))
      BY <2>1, <2>2 DEF Advances, Stopped, InProgress, SaslInProgress, HeldBack
    <2>5. /\ Advances(c, w, CblAllow(c, w))
          /\ CblAllow(c, w) = w \/ (CblAllow(c, w).st = "unknown" => Stopped(c, CblAllow(c, w)))
      BY <2>1, CblAllowFacts
    <2>6. Advances(c, x, CblAllow(c, w))
      BY <2>1, <2>4, <2>5, AdvancesTwice
    <2>7. ~x.login => CblAllow(c, w).prompt
      BY <2>1, <2>5 DEF Advances
    <2>8. QED
      BY <1>2, <2>3, <2>4, <2>5, <2>6, <2>7
  <1>3. CASE v = "shun"
    <2> DEFINE w == [x EXCEPT !.shun = TRUE]
    <2>1. /\ w \in Structure /\ w.st = x.st /\ w.dns = x.dns /\ w.lookup = x.lookup
          /\ w.out = x.out /\ w.login = x.login /\ w.save = x.save /\ w.prompt = x.prompt
          /\ w.shun /\ w.last = x.last /\ w.pinged = x.pinged
      BY DEF Structure
    <2>2. CblVerdictOn(c, x, v) = w
      BY <1>3 DEF CblVerdictOn
    <2> HIDE DEF w
    <2>3. QED
      BY <1>3, <2>1, <2>2 DEF Advances, Stopped
  <1>4. CASE v \notin {"allow", "soft", "shun"}
    <2>1. CblVerdictOn(c, x, v) = x
      BY <1>4 DEF CblVerdictOn
    <2>2. QED
      BY <1>4, <2>1 DEF Advances
  <1>5. QED
    BY <1>1, <1>2, <1>3, <1>4

-----------------------------------------------------------------------------
(* The promises, one client at a time *)

\* The streams q and s become t and u: what is new about c is about an attempt
\* that y knows of
Flows(c, y, q, s, t, u) ==
    About(c, t) \/ About(c, u) =>
        About(c, q) \/ About(c, s) \/ (y.st # "free" /\ (y.st = "unknown" => y.out))

\* Who is not let in still has something to wait for; the answers s become u
Remains(c, x, y, s, u) ==
    y.st = "unknown" /\ (Stopped(c, x) \/ Has(<<c, "S">>, s)) =>
        Stopped(c, y) \/ Has(<<c, "S">>, u)

\* A step that takes nothing back keeps the promises to a client.
LEMMA AdvancesTreated ==
    ASSUME NEW c, NEW x \in Structure, NEW y, NEW h, NEW q, NEW s, NEW t, NEW u,
           Treated(c, x, h, q, s), Advances(c, x, y), Flows(c, y, q, s, t, u),
           Remains(c, x, y, s, u)
    PROVE  Treated(c, y, h, t, u)
  <1>1. Waits(c, y, h, u)
    BY DEF Treated, Waits, Advances, Remains
  <1>2. Heard(c, y, h, t, u)
    BY DEF Treated, Heard, Advances, Flows
  <1>3. Pinged(y, h) /\ Blank(y, h)
    BY DEF Treated, Pinged, Blank, Advances
  <1>4. ASSUME "block" \notin BlAction \cup CblVerdict PROVE Barred(y, h)
    <2>1. Barred(x, h)
      BY <1>4 DEF Treated
    <2>2. QED
      BY <2>1 DEF Barred, Advances, HeldBack
  <1>5. QED
    BY <1>1, <1>2, <1>3, <1>4 DEF Treated

\* A new structure.
LEMMA FreshFacts ==
    /\ Fresh \in Structure /\ Fresh.st = "free" /\ ~Fresh.pinged /\ ~Fresh.out
    /\ Fresh.dns = FALSE /\ ~Fresh.nick
  BY DEF Fresh, Structure

\* Nothing is promised to a client that has gone.
LEMMA GoneTreated ==
    ASSUME NEW c, NEW x \in Structure, NEW h, NEW q, NEW s
    PROVE  /\ Gone(x) \in Structure /\ Treated(c, Gone(x), h, q, s)
           /\ Gone(x).st = "gone" /\ Gone(x).dns = FALSE
  <1>1. /\ Gone(x) \in Structure /\ Gone(x).st = "gone" /\ ~Gone(x).pinged /\ ~Gone(x).out
        /\ Gone(x).dns = FALSE
    <2>1. x.lookup \in Nat
      BY DEF Structure
    <2>2. Fresh \in Structure /\ ~Fresh.pinged /\ ~Fresh.out /\ Fresh.dns = FALSE
      BY FreshFacts
    <2>3. QED
      BY <2>1, <2>2 DEF Gone, Structure
  <1>2. QED
    BY <1>1 DEF Treated, Waits, Heard, Pinged, Blank, Barred

\* What a message to services changes, when they are there.
LEMMA TellFacts ==
    ASSUME Shape, NEW msgs \in Seq(Question)
    PROVE  /\ Tell(msgs) \in SvcRec /\ Tell(msgs).up = svc.up /\ Tell(msgs).from = svc.from
           /\ ~svc.up => Tell(msgs) = svc /\ Tell(msgs) = Services0(FALSE)
           /\ \A d : About(d, Tell(msgs).to) => About(d, svc.to) \/ (svc.up /\ About(d, msgs))
  <1>1. svc \in SvcRec /\ (~svc.up => svc = Services0(FALSE)) /\ svc.to \in Seq(Question)
    BY DEF Shape, SvcRec
  <1>2. CASE ~svc.up
    BY <1>1, <1>2 DEF Tell
  <1>3. CASE svc.up
    <2> DEFINE q == svc.to \o msgs
    <2>1. Tell(msgs) = [svc EXCEPT !.to = q]
      BY <1>3 DEF Tell
    <2>2. q \in Seq(Question) /\ \A d : About(d, q) => About(d, svc.to) \/ About(d, msgs)
      BY <1>1, AboutConcat, ConcatProperties
    <2> HIDE DEF q
    <2>3. /\ [svc EXCEPT !.to = q] \in SvcRec /\ [svc EXCEPT !.to = q].up = svc.up
          /\ [svc EXCEPT !.to = q].from = svc.from /\ [svc EXCEPT !.to = q].to = q
      BY <1>1, <2>2 DEF SvcRec
    <2>4. QED
      BY <1>3, <2>1, <2>2, <2>3
  <1>4. QED
    BY <1>2, <1>3

\* A step of one client that no lookup has to do with.
Steady(x, y) ==
    /\ y \in Structure /\ y.dns = x.dns /\ y.lookup = x.lookup
    /\ y.st = x.st \/ (x.st = "unknown" /\ y.st = "user")

\* Such steps keep Linked.
LEMMA SteadyLinked ==
    ASSUME Shape, Linked, \A c \in Client : Steady(cl[c], cl'[c]), UNCHANGED <<dnsreq, blu, asked>>
    PROVE  Linked'
  <1> SUFFICES ASSUME NEW c \in Client
               PROVE  (Counted(cl[c], blu[c], asked[c]) /\ Awaited(c, cl[c], dnsreq))'
    BY DEF Linked
  <1>1. /\ Counted(cl[c], blu[c], asked[c]) /\ Awaited(c, cl[c], dnsreq)
        /\ Steady(cl[c], cl'[c]) /\ dnsreq' = dnsreq /\ blu' = blu /\ asked' = asked
    BY DEF Linked
  <1>2. Counted(cl'[c], blu[c], asked[c])
    BY <1>1 DEF Counted, Steady
  <1>3. Awaited(c, cl'[c], dnsreq)
    BY <1>1 DEF Awaited, Steady
  <1>4. QED
    BY <1>1, <1>2, <1>3

\* A step of any number of clients, none of which takes anything back, and of
\* services.
LEMMA AllStep ==
    ASSUME Inv, cl' \in [Client -> Structure], svc' \in SvcRec,
           \A d \in Client : /\ Advances(d, cl[d], cl'[d])
                             /\ Remains(d, cl[d], cl'[d], svc.from, svc'.from)
                             /\ Flows(d, cl'[d], svc.to, svc.from, svc'.to, svc'.from),
           ~svc'.up => svc' = Services0(FALSE), Paired(svc'.from),
           UNCHANGED <<dnsreq, blu, asked, hist>>, xfer' \subseteq SUBSET Client,
           now' \in Nat, now' > 0, spent' \in [{"auth", "rare"} -> Nat]
    PROVE  Inv'
  <1>1. Shape /\ Linked /\ Fair
    BY DEF Inv
  <1>2. Shape'
    BY <1>1 DEF Shape
  <1>3. Linked'
    <2>1. \A d \in Client : Steady(cl[d], cl'[d])
      BY DEF Steady, Advances
    <2>2. QED
      BY <1>1, <2>1, SteadyLinked
  <1>4. ASSUME NEW d \in Client
        PROVE  Treated(d, cl'[d], hist[d], svc'.to, svc'.from)
    <2>1. Treated(d, cl[d], hist[d], svc.to, svc.from) /\ cl[d] \in Structure
      BY <1>1 DEF Fair, Shape
    <2>2. QED
      BY <2>1, AdvancesTreated
  <1>5. Fair'
    BY <1>4 DEF Fair
  <1>6. QED
    BY <1>2, <1>3, <1>5 DEF Inv

\* One message, and none.
LEMMA TellOne ==
    /\ \A c \in Client, op \in {"S", "C", "A"} :
          <<<<c, op>>>> \in Seq(Question) /\ \A d : About(d, <<<<c, op>>>>) => d = c
    /\ <<>> \in Seq(Question) /\ (\A d : ~About(d, <<>>))
    /\ Shape => Tell(<<>>) = svc
  <1>1. ASSUME NEW c \in Client, NEW op \in {"S", "C", "A"}
        PROVE  <<<<c, op>>>> \in Seq(Question) /\ \A d : About(d, <<<<c, op>>>>) => d = c
    BY DEF Question, About
  <1>2. <<>> \in Seq(Question) /\ \A d : ~About(d, <<>>)
    BY DEF About
  <1>3. ASSUME Shape PROVE Tell(<<>>) = svc
    <2>1. svc \in SvcRec /\ svc.to \in Seq(Question)
      BY <1>3 DEF Shape, SvcRec
    <2>2. svc.to \o <<>> = svc.to
      BY <2>1, ConcatEmptySeq
    <2>3. [svc EXCEPT !.to = svc.to] = svc
      BY <2>1 DEF SvcRec
    <2>4. QED
      BY <2>2, <2>3 DEF Tell
  <1>4. QED
    BY <1>1, <1>2, <1>3

\* A step of one client that takes nothing back, with what it says to services.
LEMMA QuietStep ==
    ASSUME Inv, NEW c \in Client, NEW y, NEW msgs \in Seq(Question),
           cl' = [cl EXCEPT ![c] = y], Advances(c, cl[c], y),
           y.st = "unknown" => Stopped(c, y) \/ (Stopped(c, cl[c]) => Stopped(c, y)),
           svc' = Tell(msgs),
           svc.up => \A d : About(d, msgs) => d = c /\ y.st # "free" /\ (y.st = "unknown" => y.out),
           UNCHANGED <<dnsreq, blu, asked, xfer, now, hist>>,
           spent' \in [{"auth", "rare"} -> Nat]
    PROVE  Inv'
  <1>1. Shape /\ Linked /\ Fair /\ cl \in [Client -> Structure]
    BY DEF Inv, Shape
  <1>2. /\ cl' \in [Client -> Structure] /\ cl'[c] = y
        /\ \A d \in Client : d # c => cl'[d] = cl[d]
    BY <1>1 DEF Advances
  <1>3. /\ svc' \in SvcRec /\ svc'.up = svc.up /\ svc'.from = svc.from
        /\ ~svc.up => svc' = Services0(FALSE)
        /\ \A d : About(d, svc'.to) => About(d, svc.to) \/ (svc.up /\ About(d, msgs))
    BY <1>1, TellFacts
  <1>4. ASSUME NEW d \in Client
        PROVE  /\ Advances(d, cl[d], cl'[d])
               /\ Remains(d, cl[d], cl'[d], svc.from, svc'.from)
               /\ Flows(d, cl'[d], svc.to, svc.from, svc'.to, svc'.from)
    <2>1. Advances(d, cl[d], cl'[d])
      BY <1>1, <1>2 DEF Advances
    <2>2. Remains(d, cl[d], cl'[d], svc.from, svc'.from)
      BY <1>2, <1>3 DEF Remains
    <2>3. Flows(d, cl'[d], svc.to, svc.from, svc'.to, svc'.from)
      BY <1>2, <1>3 DEF Flows
    <2>4. QED
      BY <2>1, <2>2, <2>3
  <1>5. Paired(svc'.from) /\ xfer' \subseteq SUBSET Client /\ now' \in Nat /\ now' > 0
    BY <1>1, <1>3 DEF Fair, Shape
  <1>6. QED
    BY <1>2, <1>3, <1>4, <1>5, AllStep

-----------------------------------------------------------------------------
(* Commands, timeouts and the blocklist: steps that take nothing back *)

\* What Told says is about an attempt that ended when the client was let in.
LEMMA ToldFacts ==
    ASSUME Inv, NEW c \in Client, NEW y, Advances(c, cl[c], y)
    PROVE  /\ Told(c, y) \in Seq(Question)
           /\ \A d : About(d, Told(c, y)) =>
                 d = c /\ y.st # "free" /\ (y.st = "unknown" => y.out)
  <1>1. Blank(cl[c], hist[c])
    BY DEF Inv, Fair, Treated
  <1>2. Aborts(cl[c]) /\ ~y.out => y.st # "free" /\ y.st # "unknown"
    BY <1>1 DEF Aborts, Blank, Advances
  <1>3. CASE Aborts(cl[c]) /\ ~y.out
    <2>1. Told(c, y) = <<<<c, "A">>>>
      BY <1>3 DEF Told
    <2>2. QED
      BY <1>2, <1>3, <2>1, TellOne
  <1>4. CASE ~(Aborts(cl[c]) /\ ~y.out)
    <2>1. Told(c, y) = <<>>
      BY <1>4 DEF Told
    <2>2. QED
      BY <2>1, TellOne
  <1>5. QED
    BY <1>3, <1>4

\* A client that is not registered is not pinged.
LEMMA UnknownFacts ==
    ASSUME Inv, NEW c \in Client
    PROVE  /\ cl[c] \in Structure /\ (cl[c].st = "unknown" => cl[c].pinged = FALSE)
           /\ now \in Int /\ now \in Nat /\ now # 0
           /\ spent \in [{"auth", "rare"} -> Nat] /\ Tell(<<>>) = svc
  <1>1. cl[c] \in Structure /\ Pinged(cl[c], hist[c]) /\ cl[c].pinged \in BOOLEAN
    BY DEF Inv, Shape, Fair, Treated, Structure
  <1>2. now \in Int /\ now \in Nat /\ now # 0 /\ spent \in [{"auth", "rare"} -> Nat]
    BY DEF Inv, Shape
  <1>3. Tell(<<>>) = svc
    BY TellOne DEF Inv
  <1>4. QED
    BY <1>1, <1>2, <1>3 DEF Pinged

\* What a command leaves alone before it tries to register the client
Untouched(x, w) ==
    /\ w \in Structure /\ w.st = x.st /\ w.dns = x.dns /\ w.lookup = x.lookup
    /\ w.out = x.out /\ w.login = x.login /\ w.prompt = x.prompt /\ w.save = x.save
    /\ w.shun = x.shun /\ w.pinged = x.pinged

\* Any command of the handshake that ends in register_user.
LEMMA CommandStep ==
    ASSUME Inv, NEW c \in Client, Unknown(c), NEW x, Untouched(cl[c], x), Command(c, x)
    PROVE  Inv'
  <1> DEFINE w == [x EXCEPT !.last = now]
             y == TryRegister(c, w)
  <1>1. cl[c] \in Structure /\ cl[c].pinged = FALSE /\ now \in Int
    BY UnknownFacts DEF Unknown
  <1>2. /\ w \in Structure /\ w.st = x.st /\ w.dns = x.dns /\ w.lookup = x.lookup
        /\ w.out = x.out /\ w.login = x.login /\ w.prompt = x.prompt /\ w.save = x.save
        /\ w.shun = x.shun /\ w.pinged = x.pinged
    BY <1>1 DEF Structure, Untouched
  <1>3. /\ cl' = [cl EXCEPT ![c] = y] /\ svc' = Tell(Told(c, y))
        /\ UNCHANGED <<dnsreq, blu, asked, xfer, now, spent, hist>>
    BY DEF Command, Become
  <1> HIDE DEF w
  <1>4. Advances(c, cl[c], w) /\ w.st = cl[c].st
    BY <1>1, <1>2 DEF Advances, Untouched
  <1>5. Advances(c, w, y) /\ (y.st = "unknown" => Stopped(c, y))
    BY <1>2, TryRegisterFacts
  <1> HIDE DEF y
  <1>6. Advances(c, cl[c], y)
    BY <1>4, <1>5, AdvancesTwice
  <1>7. /\ Told(c, y) \in Seq(Question)
        /\ \A d : About(d, Told(c, y)) => d = c /\ y.st # "free" /\ (y.st = "unknown" => y.out)
    BY <1>6, ToldFacts
  <1>8. spent' \in [{"auth", "rare"} -> Nat]
    BY <1>3, UnknownFacts
  <1>9. QED
    BY <1>3, <1>5, <1>6, <1>7, <1>8, QuietStep

\* NICK, USER, the ping cookie and CAP END.
LEMMA CommandsKeep ==
    ASSUME Inv, NEW c \in Client, Nick(c) \/ User(c) \/ Pong(c) \/ CapEnd(c)
    PROVE  Inv'
  <1>1. cl[c] \in Structure /\ PingCookie \in BOOLEAN
    BY UnknownFacts, HandshakeAssumption
  <1>2. CASE Nick(c)
    <2>1. Untouched(cl[c], [cl[c] EXCEPT !.nick = TRUE, !.cookie = PingCookie])
      BY <1>1 DEF Untouched, Structure
    <2>2. QED
      BY <1>2, <2>1, CommandStep DEF Nick
  <1>3. CASE User(c)
    <2>1. Untouched(cl[c], [cl[c] EXCEPT !.named = TRUE])
      BY <1>1 DEF Untouched, Structure
    <2>2. QED
      BY <1>3, <2>1, CommandStep DEF User
  <1>4. CASE Pong(c)
    <2>1. Untouched(cl[c], [cl[c] EXCEPT !.cookie = FALSE])
      BY <1>1 DEF Untouched, Structure
    <2>2. QED
      BY <1>4, <2>1, CommandStep DEF Pong
  <1>5. CASE CapEnd(c)
    <2>1. Untouched(cl[c], [cl[c] EXCEPT !.cap = FALSE])
      BY <1>1 DEF Untouched, Structure
    <2>2. QED
      BY <1>5, <2>1, CommandStep DEF CapEnd
  <1>6. QED
    BY <1>2, <1>3, <1>4, <1>5

\* What the gate of registration reads, CAP and SASL apart, is as it was
SameGate(x, w) ==
    /\ w.nick = x.nick /\ w.named = x.named /\ w.cookie = x.cookie /\ w.cbl = x.cbl
    /\ w.shun = x.shun /\ w.login = x.login /\ w.prompt = x.prompt /\ w.save = x.save

\* CAP, AUTHENTICATE, AUTH and whatever a user sends.
LEMMA ClientDataKeeps ==
    ASSUME Inv, NEW c \in Client, Cap(c) \/ Authenticate(c) \/ Auth(c) \/ UserData(c)
    PROVE  Inv'
  <1>1. /\ cl[c] \in Structure /\ (cl[c].st = "unknown" => cl[c].pinged = FALSE)
        /\ now \in Int /\ now \in Nat /\ now # 0
        /\ spent \in [{"auth", "rare"} -> Nat] /\ Tell(<<>>) = svc /\ svc.up \in BOOLEAN
        /\ cl \in [Client -> Structure]
    BY UnknownFacts DEF Inv, Shape, SvcRec
  <1>2. /\ [spent EXCEPT !["auth"] = @ + 1] \in [{"auth", "rare"} -> Nat]
    BY <1>1
  <1>3. CASE Cap(c)
    <2> DEFINE y == [cl[c] EXCEPT !.cap = TRUE, !.sasl = @ \/ svc.up, !.last = now]
    <2>1. /\ cl' = [cl EXCEPT ![c].cap = TRUE, ![c].sasl = @ \/ svc.up, ![c].last = now]
          /\ UNCHANGED <<dnsreq, blu, asked, xfer, svc, now, spent, hist>>
          /\ cl[c].st = "unknown"
      BY <1>3 DEF Cap, Unknown
    <2>2. cl' = [cl EXCEPT ![c] = y]
      BY <1>1, <2>1
    <2>3. Untouched(cl[c], y) /\ y.cap
      BY <1>1 DEF Untouched, Structure
    <2> HIDE DEF y
    <2>4. Advances(c, cl[c], y) /\ Stopped(c, y)
      BY <1>1, <2>1, <2>3 DEF Untouched, Advances, Stopped, InProgress
    <2>5. svc' = Tell(<<>>) /\ spent' \in [{"auth", "rare"} -> Nat]
      BY <1>1, <2>1
    <2>6. QED
      BY <2>1, <2>2, <2>4, <2>5, TellOne, QuietStep
  <1>4. CASE Authenticate(c)
    <2> DEFINE y == [cl[c] EXCEPT !.out = TRUE, !.sent = now, !.last = now, !.pinged = FALSE]
               msgs == <<<<c, IF cl[c].agent THEN "C" ELSE "S">>>>
    <2>1. /\ cl' = [cl EXCEPT ![c].out = TRUE, ![c].sent = now, ![c].last = now,
                              ![c].pinged = FALSE]
          /\ svc' = Tell(msgs) /\ spent' = [spent EXCEPT !["auth"] = @ + 1]
          /\ UNCHANGED <<dnsreq, blu, asked, xfer, now, hist>>
          /\ cl[c].st \in {"unknown", "user"}
      BY <1>4 DEF Authenticate, Parses, Live, Spend
    <2>2. cl' = [cl EXCEPT ![c] = y]
      BY <1>1, <2>1
    <2>3. /\ y \in Structure /\ y.st = cl[c].st /\ y.dns = cl[c].dns /\ y.lookup = cl[c].lookup
          /\ y.out /\ ~y.pinged /\ y.sent # 0 /\ y.cap = cl[c].cap /\ y.done = cl[c].done
          /\ SameGate(cl[c], y)
      BY <1>1 DEF Structure, SameGate
    <2> HIDE DEF y
    <2>4. Advances(c, cl[c], y) /\ (Stopped(c, cl[c]) => Stopped(c, y))
      BY <2>1, <2>3 DEF SameGate, Advances, Stopped, InProgress, SaslInProgress, HeldBack
    <2>5. msgs \in Seq(Question) /\ \A d : About(d, msgs) => d = c
      BY TellOne
    <2> HIDE DEF msgs
    <2>6. QED
      BY <1>2, <2>1, <2>2, <2>3, <2>4, <2>5, QuietStep
  <1>5. CASE Auth(c)
    <2> DEFINE y == [cl[c] EXCEPT !.authmsg = TRUE, !.out = @ \/ svc.up, !.last = now]
               msgs == <<<<c, "S">>>>
    <2>1. /\ cl' = [cl EXCEPT ![c].authmsg = TRUE, ![c].out = @ \/ svc.up, ![c].last = now]
          /\ svc' = Tell(msgs) /\ spent' = [spent EXCEPT !["auth"] = @ + 1]
          /\ UNCHANGED <<dnsreq, blu, asked, xfer, now, hist>>
          /\ cl[c].st = "unknown"
      BY <1>5 DEF Auth, Unknown, Spend
    <2>2. cl' = [cl EXCEPT ![c] = y]
      BY <1>1, <2>1
    <2>3. /\ y \in Structure /\ y.st = cl[c].st /\ y.dns = cl[c].dns /\ y.lookup = cl[c].lookup
          /\ y.out = (cl[c].out \/ svc.up) /\ y.pinged = cl[c].pinged
          /\ y.sent = cl[c].sent /\ y.cap = cl[c].cap /\ y.done = cl[c].done
          /\ SameGate(cl[c], y)
      BY <1>1 DEF Structure, SameGate
    <2> HIDE DEF y
    <2>4. Advances(c, cl[c], y) /\ (Stopped(c, cl[c]) => Stopped(c, y))
      BY <1>1, <2>1, <2>3 DEF SameGate, Advances, Stopped, InProgress, SaslInProgress, HeldBack
    <2>5. msgs \in Seq(Question) /\ \A d : About(d, msgs) => d = c
      BY TellOne
    <2> HIDE DEF msgs
    <2>6. QED
      BY <1>2, <2>1, <2>2, <2>3, <2>4, <2>5, QuietStep
  <1>6. CASE UserData(c)
    <2> DEFINE y == [cl[c] EXCEPT !.last = now, !.pinged = FALSE]
    <2>1. /\ cl' = [cl EXCEPT ![c].last = now, ![c].pinged = FALSE]
          /\ UNCHANGED <<dnsreq, blu, asked, xfer, svc, now, spent, hist>>
          /\ cl[c].st = "user"
      BY <1>6 DEF UserData
    <2>2. cl' = [cl EXCEPT ![c] = y]
      BY <1>1, <2>1
    <2>3. /\ y \in Structure /\ y.st = cl[c].st /\ y.dns = cl[c].dns /\ y.lookup = cl[c].lookup
          /\ y.out = cl[c].out /\ ~y.pinged /\ SameGate(cl[c], y)
      BY <1>1 DEF Structure, SameGate
    <2> HIDE DEF y
    <2>4. Advances(c, cl[c], y) /\ y.st # "unknown"
      BY <2>1, <2>3 DEF Advances, SameGate
    <2>5. svc' = Tell(<<>>) /\ spent' \in [{"auth", "rare"} -> Nat]
      BY <1>1, <2>1
    <2>6. QED
      BY <2>1, <2>2, <2>4, <2>5, TellOne, QuietStep
  <1>7. QED
    BY <1>3, <1>4, <1>5, <1>6

\* The answer of identd or its timeout, and the timeout of the blocklist.
LEMMA LookupsEndKeeps ==
    ASSUME Inv, NEW c \in Client, IdentAnswer(c) \/ CheckIdentTimeout(c) \/ CblTimeoutEvt(c)
    PROVE  Inv'
  <1>1. /\ cl[c] \in Structure /\ cl \in [Client -> Structure]
        /\ spent \in [{"auth", "rare"} -> Nat] /\ Tell(<<>>) = svc
    BY UnknownFacts DEF Inv, Shape
  <1>2. CASE IdentAnswer(c) \/ CheckIdentTimeout(c)
    <2>1. PICK i \in {"no", "read"} : cl' = [cl EXCEPT ![c].ident = i]
      BY <1>2 DEF IdentAnswer, CheckIdentTimeout
    <2>2. UNCHANGED <<dnsreq, blu, asked, xfer, svc, now, spent, hist>>
      BY <1>2 DEF IdentAnswer, CheckIdentTimeout
    <2> DEFINE y == [cl[c] EXCEPT !.ident = i]
    <2>3. cl' = [cl EXCEPT ![c] = y]
      BY <1>1, <2>1
    <2>4. /\ y \in Structure /\ y.st = cl[c].st /\ y.dns = cl[c].dns /\ y.lookup = cl[c].lookup
          /\ y.out = cl[c].out /\ y.pinged = cl[c].pinged /\ y.last = cl[c].last
          /\ y.sent = cl[c].sent /\ y.cap = cl[c].cap /\ y.done = cl[c].done
          /\ SameGate(cl[c], y)
      BY <1>1, <2>1 DEF Structure, SameGate
    <2> HIDE DEF y
    <2>5. Advances(c, cl[c], y) /\ (Stopped(c, cl[c]) => Stopped(c, y))
      BY <2>4 DEF SameGate, Advances, Stopped, InProgress, SaslInProgress, HeldBack
    <2>6. svc' = Tell(<<>>) /\ spent' \in [{"auth", "rare"} -> Nat]
      BY <1>1, <2>2
    <2>7. QED
      BY <2>2, <2>3, <2>5, <2>6, TellOne, QuietStep
  <1>3. CASE CblTimeoutEvt(c)
    <2> DEFINE y == CblAllow(c, cl[c])
    <2>1. /\ cl' = [cl EXCEPT ![c] = y] /\ svc' = Tell(Told(c, y))
          /\ UNCHANGED <<dnsreq, blu, asked, xfer, now, spent, hist>>
      BY <1>3 DEF CblTimeoutEvt, Become
    <2>2. Advances(c, cl[c], y) /\ (y = cl[c] \/ (y.st = "unknown" => Stopped(c, y)))
      BY <1>1, CblAllowFacts
    <2> HIDE DEF y
    <2>3. /\ Told(c, y) \in Seq(Question)
          /\ \A d : About(d, Told(c, y)) => d = c /\ y.st # "free" /\ (y.st = "unknown" => y.out)
      BY <2>2, ToldFacts
    <2>4. QED
      BY <1>1, <2>1, <2>2, <2>3, QuietStep
  <1>4. QED
    BY <1>2, <1>3

-----------------------------------------------------------------------------
(* Services *)

\* Services are there when they have said something.
LEMMA SvcFacts ==
    ASSUME Inv
    PROVE  /\ svc \in SvcRec /\ svc.to \in Seq(Question) /\ svc.from \in Seq(Answer)
           /\ svc.session \in [Client -> {"none", "open"}] /\ svc.up \in BOOLEAN
           /\ (svc.to # <<>> \/ svc.from # <<>>) => svc.up
           /\ Paired(svc.from)
  <1>1. svc \in SvcRec /\ (~svc.up => svc = Services0(FALSE)) /\ Paired(svc.from)
    BY DEF Inv, Shape, Fair
  <1>2. Services0(FALSE).to = <<>> /\ Services0(FALSE).from = <<>>
    BY DEF Services0
  <1>3. QED
    BY <1>1, <1>2 DEF SvcRec

\* No client moves, and services forget nothing about anyone.
LEMMA OnlyServices ==
    ASSUME Inv, NEW u \in Seq(Answer), svc' \in SvcRec,
           UNCHANGED <<cl, dnsreq, blu, asked, xfer, now, spent, hist>>,
           svc'.from = u, Paired(u), ~svc'.up => svc' = Services0(FALSE),
           \A d \in Client : /\ About(d, svc'.to) \/ About(d, u) =>
                                   About(d, svc.to) \/ About(d, svc.from)
                             /\ cl[d].st = "unknown" /\ Has(<<d, "S">>, svc.from) =>
                                   Has(<<d, "S">>, u)
    PROVE  Inv'
  <1>1. /\ cl' = cl /\ cl \in [Client -> Structure] /\ xfer' \subseteq SUBSET Client
        /\ now' \in Nat /\ now' > 0 /\ spent' \in [{"auth", "rare"} -> Nat]
    BY DEF Inv, Shape
  <1>2. ASSUME NEW d \in Client
        PROVE  /\ Advances(d, cl[d], cl'[d])
               /\ Remains(d, cl[d], cl'[d], svc.from, svc'.from)
               /\ Flows(d, cl'[d], svc.to, svc.from, svc'.to, svc'.from)
    BY <1>1 DEF Advances, Remains, Flows
  <1>3. QED
    BY <1>1, <1>2, AllStep

\* Services read a message and answer it.
LEMMA ServicesKeep ==
    ASSUME Inv, Services
    PROVE  Inv'
  <1>1. /\ svc \in SvcRec /\ svc.to \in Seq(Question) /\ svc.from \in Seq(Answer)
        /\ Paired(svc.from) /\ svc.to # <<>> /\ svc.up
    BY SvcFacts DEF Services
  <1> DEFINE c == Head(svc.to)[1]
             Said(state, msgs) == [svc EXCEPT !.to = Tail(@), !.session[c] = state,
                                              !.from = @ \o msgs]
  <1>2. /\ c \in Client /\ About(c, svc.to) /\ Tail(svc.to) \in Seq(Question)
        /\ \A d : About(d, Tail(svc.to)) => About(d, svc.to)
    <2>1. Head(svc.to) \in Question
      BY <1>1, TailKeeps
    <2>2. QED
      BY <1>1, <2>1, TailKeeps DEF Question
  <1>3. ASSUME NEW state \in {"none", "open"}, NEW msgs \in Seq(Answer), svc' = Said(state, msgs),
               Paired(msgs), \A d : About(d, msgs) => d = c
        PROVE  Inv'
    <2> DEFINE u == svc.from \o msgs
               q == Tail(svc.to)
               w == [svc.session EXCEPT ![c] = state]
    <2>1. u \in Seq(Answer) /\ Paired(u)
      BY <1>1, <1>3, PairedConcat, ConcatProperties
    <2>2. \A d : About(d, u) => About(d, svc.from) \/ d = c
      BY <1>1, <1>3, AboutConcat
    <2>3. \A m : Has(m, svc.from) => Has(m, u)
      BY <1>1, <1>3, HasConcat
    <2>4. w \in [Client -> {"none", "open"}]
      BY <1>1, <1>3 DEF SvcRec
    <2>5. svc' = [svc EXCEPT !.to = q, !.session = w, !.from = u]
      BY <1>1, <1>3
    <2>6. q \in Seq(Question) /\ \A d : About(d, q) => About(d, svc.to)
      BY <1>2
    <2> HIDE DEF u, q, w
    <2>7. svc' \in SvcRec /\ svc'.from = u /\ svc'.to = q /\ svc'.up
      BY <1>1, <2>1, <2>4, <2>5, <2>6 DEF SvcRec
    <2>8. UNCHANGED <<cl, dnsreq, blu, asked, xfer, now, spent, hist>>
      BY DEF Services
    <2> HIDE DEF c
    <2>9. QED
      BY <1>2, <2>1, <2>2, <2>3, <2>6, <2>7, <2>8, OnlyServices
  <1>4. \/ svc' = Said("open", <<<<c, "C">>>>)
        \/ svc' = Said("none", <<<<c, "L">>, <<c, "S">>>>)
        \/ svc' = Said("none", <<<<c, "F">>>>)
        \/ svc' = Said("none", <<>>)
    BY DEF Services
  <1>5. ASSUME NEW op \in {"C", "F"}
        PROVE  /\ <<<<c, op>>>> \in Seq(Answer) /\ Paired(<<<<c, op>>>>)
               /\ \A d : About(d, <<<<c, op>>>>) => d = c
    <2> HIDE DEF c
    <2>1. <<c, op>> \in Answer
      BY <1>2 DEF Answer
    <2>2. QED
      BY <2>1 DEF Paired, About
  <1>6. /\ <<<<c, "L">>, <<c, "S">>>> \in Seq(Answer) /\ Paired(<<<<c, "L">>, <<c, "S">>>>)
        /\ \A d : About(d, <<<<c, "L">>, <<c, "S">>>>) => d = c
    <2> HIDE DEF c
    <2>1. <<c, "L">> \in Answer /\ <<c, "S">> \in Answer
      BY <1>2 DEF Answer
    <2>2. <<<<c, "L">>, <<c, "S">>>> \in Seq(Answer)
      BY <2>1
    <2>3. Paired(<<<<c, "L">>, <<c, "S">>>>)
      BY DEF Paired
    <2>4. QED
      BY <2>2, <2>3 DEF About
  <1>7. /\ <<>> \in Seq(Answer) /\ Paired(<<>>) /\ \A d : About(d, <<>>) => d = c
    BY DEF Paired, About
  <1> HIDE DEF c, Said
  <1>8. QED
    BY <1>3, <1>4, <1>5, <1>6, <1>7

\* An empty service has said and heard nothing.
LEMMA Services0Facts ==
    ASSUME NEW up \in BOOLEAN
    PROVE  /\ Services0(up) \in SvcRec /\ Services0(up).up = up
           /\ Services0(up).to = <<>> /\ Services0(up).from = <<>>
           /\ <<>> \in Seq(Answer) /\ Paired(<<>>)
           /\ \A d : ~About(d, <<>>) /\ \A m : ~Has(m, <<>>)
  <1>1. <<>> \in Seq(Answer) /\ Paired(<<>>) /\ \A d : ~About(d, <<>>) /\ \A m : ~Has(m, <<>>)
    BY DEF Paired, About, Has
  <1>2. QED
    BY <1>1 DEF Services0, SvcRec

\* Services come back.
LEMMA ServicesBackKeeps ==
    ASSUME Inv, ServicesBack
    PROVE  Inv'
  <1>1. svc = Services0(FALSE) /\ svc' = Services0(TRUE)
        /\ UNCHANGED <<cl, dnsreq, blu, asked, xfer, now, spent, hist>>
    BY DEF ServicesBack, Inv, Shape
  <1>2. QED
    BY <1>1, Services0Facts, OnlyServices

\* Services split: whoever waited for them is an orphan.
LEMMA ServicesSplitKeeps ==
    ASSUME Inv, ServicesSplit
    PROVE  Inv'
  <1>1. /\ svc' = Services0(FALSE) /\ UNCHANGED <<cl, dnsreq, blu, asked, xfer, now>>
        /\ hist' = [c \in Client |->
                      [hist[c] EXCEPT !.orphan = @ \/ (Live(c) /\ cl[c].out)]]
        /\ spent' = [spent EXCEPT !["rare"] = @ + 1]
    BY DEF ServicesSplit, Spend
  <1>2. Shape /\ Linked /\ Fair
    BY DEF Inv
  <1>3. ASSUME NEW c \in Client
        PROVE  /\ hist'[c] \in History /\ hist'[c].refused = hist[c].refused
               /\ hist'[c].pingat = hist[c].pingat
               /\ hist'[c].orphan = (hist[c].orphan \/ (Live(c) /\ cl[c].out))
    <2>1. hist[c] \in History /\ (Live(c) /\ cl[c].out) \in BOOLEAN
      BY <1>2 DEF Shape, Live, Structure
    <2>2. hist'[c] = [hist[c] EXCEPT !.orphan = @ \/ (Live(c) /\ cl[c].out)]
      BY <1>1
    <2>3. QED
      BY <2>1, <2>2 DEF History
  <1>4. Shape'
    <2>1. hist' \in [Client -> History]
      BY <1>1, <1>3
    <2>2. spent' \in [{"auth", "rare"} -> Nat]
      BY <1>1, <1>2 DEF Shape
    <2>3. QED
      BY <1>1, <1>2, <2>1, <2>2, Services0Facts DEF Shape
  <1>5. Linked'
    <2>1. \A d \in Client : Steady(cl[d], cl'[d])
      BY <1>1, <1>2 DEF Steady, Shape
    <2>2. QED
      BY <1>1, <1>2, <2>1, SteadyLinked
  <1>6. ASSUME NEW c \in Client
        PROVE  Treated(c, cl[c], hist'[c], <<>>, <<>>)
    <2>1. Treated(c, cl[c], hist[c], svc.to, svc.from)
      BY <1>2 DEF Fair
    <2>2. Waits(c, cl[c], hist'[c], <<>>)
      <3>1. Has(<<c, "S">>, svc.from) => About(c, svc.from)
        BY DEF Has, About
      <3>2. QED
        BY <1>3, <2>1, <3>1 DEF Treated, Waits, Heard, Live
    <2>3. Heard(c, cl[c], hist'[c], <<>>, <<>>)
      BY Services0Facts DEF Heard
    <2>4. QED
      BY <1>3, <2>1, <2>2, <2>3 DEF Treated, Pinged, Blank, Barred
  <1>7. Fair'
    BY <1>1, <1>6, Services0Facts DEF Fair
  <1>8. QED
    BY <1>4, <1>5, <1>7 DEF Inv

\* An answer of services.
LEMMA RecvServicesKeeps ==
    ASSUME Inv, RecvServices
    PROVE  Inv'
  <1> DEFINE c == Head(svc.from)[1]
             op == Head(svc.from)[2]
             x == cl[c]
             y == CASE op = "C" -> SaslContinue(x)
                    [] op = "L" -> SvsLogin(x)
                    [] op = "S" -> SaslDone(c, x, TRUE)
                    [] OTHER -> SaslDone(c, x, FALSE)
             password == IF x.authmsg /\ ~y.authmsg THEN <<<<c, "C">>>> ELSE <<>>
             u == Tail(svc.from)
             q == svc.to \o Told(c, y) \o password
             rest == [svc EXCEPT !.from = Tail(@)]
  <1>1. /\ svc \in SvcRec /\ svc.to \in Seq(Question) /\ svc.from \in Seq(Answer)
        /\ Paired(svc.from) /\ svc.from # <<>> /\ svc.up = TRUE
    BY SvcFacts DEF RecvServices
  <1>2. c \in Client /\ op \in {"C", "L", "S", "F"} /\ Head(svc.from) = <<c, op>>
    <2>1. Head(svc.from) \in Answer
      BY <1>1, TailKeeps
    <2>2. QED
      BY <2>1 DEF Answer
  <1>3. /\ u \in Seq(Answer) /\ Paired(u) /\ About(c, svc.from)
        /\ \A d : About(d, u) => About(d, svc.from)
        /\ \A m : Has(m, svc.from) => <<c, op>> = m \/ Has(m, u)
        /\ op = "L" => Has(<<c, "S">>, u)
    <2>1. /\ u \in Seq(Answer) /\ Paired(u) /\ About(c, svc.from)
          /\ \A d : About(d, u) => About(d, svc.from)
      BY <1>1, TailKeeps
    <2>2. /\ \A m : Has(m, svc.from) => Head(svc.from) = m \/ Has(m, u)
          /\ op = "L" => Has(<<c, "S">>, u)
      BY <1>1, TailKeeps
    <2>3. QED
      BY <1>2, <2>1, <2>2
  <1>4. \A d : d # c => <<d, "S">> # <<c, op>>
    OBVIOUS
  <1>5. UNCHANGED <<dnsreq, blu, asked, xfer, now, spent, hist>>
    BY DEF RecvServices
  <1>6. CASE ~Live(c)
    <2>1. svc' = [svc EXCEPT !.from = u] /\ UNCHANGED cl
      BY <1>6 DEF RecvServices
    <2> HIDE DEF u, c, op
    <2>2. svc' \in SvcRec /\ svc'.to = svc.to /\ svc'.from = u /\ svc'.up
      BY <1>1, <1>3, <2>1 DEF SvcRec
    <2>3. \A d \in Client : cl[d].st = "unknown" => d # c
      BY <1>6 DEF Live
    <2>4. QED
      BY <1>3, <1>4, <1>5, <2>1, <2>2, <2>3, OnlyServices
  <1>7. CASE Live(c)
    <2>1. cl' = [cl EXCEPT ![c] = y] /\ svc' = [rest EXCEPT !.to = @ \o Told(c, y) \o password]
      BY <1>7 DEF RecvServices
    <2>2. x \in Structure /\ cl \in [Client -> Structure] /\ x.st \in {"unknown", "user"}
      BY <1>2, <1>7 DEF Inv, Shape, Live
    <2>3. /\ Advances(c, x, y)
          /\ op # "L" /\ y.st = "unknown" /\ (op = "S" \/ Stopped(c, x)) => Stopped(c, y)
      <3>1. CASE op = "C"
        <4>1. y = SaslContinue(x)
          BY <3>1
        <4>2. QED
          BY <2>2, <3>1, <4>1, SaslStepFacts
      <3>2. CASE op = "L"
        <4>1. y = SvsLogin(x)
          BY <3>2
        <4>2. QED
          BY <2>2, <3>2, <4>1, SaslStepFacts
      <3>3. CASE op = "S"
        <4>1. y = SaslDone(c, x, TRUE)
          BY <3>3
        <4>2. QED
          BY <2>2, <4>1, SaslDoneFacts
      <3>4. CASE op = "F"
        <4>1. y = SaslDone(c, x, FALSE)
          BY <3>4
        <4>2. QED
          BY <2>2, <4>1, SaslDoneFacts
      <3>5. QED
        BY <1>2, <3>1, <3>2, <3>3, <3>4
    <2> HIDE DEF y
    <2>4. Told(c, y) \in Seq(Question) /\ \A d : About(d, Told(c, y)) => d = c
      BY <1>2, <2>3, ToldFacts
    <2>5. password \in Seq(Question) /\ \A d : About(d, password) => d = c
      BY <1>2, TellOne
    <2> HIDE DEF password
    <2>6. q \in Seq(Question) /\ \A d : About(d, q) => About(d, svc.to) \/ d = c
      <3>1. svc.to \o Told(c, y) \in Seq(Question)
        BY <1>1, <2>4, ConcatProperties
      <3>2. q \in Seq(Question)
        BY <2>5, <3>1, ConcatProperties
      <3>3. \A d : About(d, svc.to \o Told(c, y)) => About(d, svc.to) \/ d = c
        BY <1>1, <2>4, AboutConcat
      <3>4. \A d : About(d, q) => About(d, svc.to \o Told(c, y)) \/ About(d, password)
        <4> DEFINE p == svc.to \o Told(c, y)
        <4>1. p \in Seq(Question) /\ q = p \o password
          BY <3>1
        <4> HIDE DEF p, q
        <4>2. \A d : About(d, p \o password) => About(d, p) \/ About(d, password)
          BY <2>5, <4>1, AboutConcat
        <4>3. QED
          BY <4>1, <4>2 DEF p
      <3>5. QED
        BY <2>5, <3>2, <3>3, <3>4
    <2>7. svc' = [svc EXCEPT !.from = u, !.to = q]
      BY <1>1, <2>1 DEF SvcRec
    <2> HIDE DEF u, q
    <2>8. svc' \in SvcRec /\ svc'.to = q /\ svc'.from = u /\ svc'.up = TRUE
      BY <1>1, <1>3, <2>6, <2>7 DEF SvcRec
    <2> HIDE DEF op, c
    <2>9. /\ cl' \in [Client -> Structure] /\ cl'[c] = y
          /\ \A d \in Client : d # c => cl'[d] = cl[d]
      BY <1>2, <2>1, <2>2, <2>3 DEF Advances
    <2>10. ASSUME NEW d \in Client
           PROVE  /\ Advances(d, cl[d], cl'[d])
                  /\ Remains(d, cl[d], cl'[d], svc.from, svc'.from)
                  /\ Flows(d, cl'[d], svc.to, svc.from, svc'.to, svc'.from)
      <3>1. Advances(d, cl[d], cl'[d])
        BY <2>2, <2>3, <2>9 DEF Advances
      <3>2. Remains(d, cl[d], cl'[d], svc.from, svc'.from)
        BY <1>2, <1>3, <1>4, <2>3, <2>8, <2>9 DEF Remains
      <3>3. Flows(d, cl'[d], svc.to, svc.from, svc'.to, svc'.from)
        BY <1>3, <2>6, <2>8 DEF Flows
      <3>4. QED
        BY <3>1, <3>2, <3>3
    <2>11. /\ xfer' \subseteq SUBSET Client /\ now' \in Nat /\ now' > 0
           /\ spent' \in [{"auth", "rare"} -> Nat]
      BY <1>5 DEF Inv, Shape
    <2>12. QED
      BY <1>3, <1>5, <2>8, <2>9, <2>10, <2>11, AllStep
  <1>8. QED
    BY <1>6, <1>7

-----------------------------------------------------------------------------
(* The central blocklist and the clock *)

\* What services are told of attempts that ended is about clients that were let
\* in or have gone.
LEMMA TellAbortedFacts ==
    ASSUME Inv, NEW new \in [Client -> Structure], TellAborted(new),
           \A d \in Client : Advances(d, cl[d], new[d]) \/ new[d].st = "gone"
    PROVE  /\ svc' \in SvcRec /\ svc'.up = svc.up /\ svc'.from = svc.from
           /\ ~svc.up => svc' = Services0(FALSE)
           /\ \A d \in Client : About(d, svc'.to) =>
                 About(d, svc.to) \/ (new[d].st # "free" /\ new[d].st # "unknown")
  <1> DEFINE told == {c \in Client :
                        Aborts(cl[c]) /\ ~new[c].out /\ "user" \in {cl[c].st, new[c].st}}
  <1>1. PICK order \in SetToSeqs(told) : svc' = Tell([i \in DOMAIN order |-> <<order[i], "A">>])
    BY DEF TellAborted
  <1> DEFINE msgs == [i \in DOMAIN order |-> <<order[i], "A">>]
  <1>2. told \subseteq Client
    OBVIOUS
  <1>3. \A d \in told : new[d].st # "free" /\ new[d].st # "unknown"
    <2> SUFFICES ASSUME NEW d \in told PROVE new[d].st # "free" /\ new[d].st # "unknown"
      OBVIOUS
    <2>1. cl[d].out /\ ~new[d].out
      BY DEF Aborts
    <2>2. Blank(cl[d], hist[d])
      BY <1>2 DEF Inv, Fair, Treated
    <2>3. QED
      BY <1>2, <2>1, <2>2 DEF Blank, Advances
  <1> HIDE DEF told
  <1>4. Cardinality(told) \in Nat
    BY <1>2, HandshakeAssumption, FS_Subset, FS_CardinalityType
  <1>5. order \in [1..Cardinality(told) -> told]
    BY DEF SetToSeqs
  <1>6. \A i \in 1..Cardinality(told) : order[i] \in told /\ <<order[i], "A">> \in Question
    BY <1>2, <1>5 DEF Question
  <1>7. msgs \in [1..Cardinality(told) -> Question]
    BY <1>5, <1>6
  <1>8. msgs \in Seq(Question) /\ DOMAIN msgs = 1..Cardinality(told)
    <2> HIDE DEF msgs
    <2>1. QED
      BY <1>4, <1>7
  <1>9. \A d : About(d, msgs) => d \in told
    BY <1>6, <1>8 DEF About
  <1> HIDE DEF msgs
  <1>10. svc' = Tell(msgs)
    BY <1>1 DEF msgs
  <1>11. Shape
    BY DEF Inv
  <1>12. QED
    BY <1>3, <1>8, <1>9, <1>10, <1>11, TellFacts

\* A failed transfer lets everybody through who was in it.
LEMMA CblErrorKeeps ==
    ASSUME Inv, NEW t \in xfer, CblError(t)
    PROVE  Inv'
  <1> DEFINE new == [c \in Client |-> IF c \in t /\ Live(c) THEN CblAllow(c, cl[c]) ELSE cl[c]]
  <1>1. /\ xfer' = xfer \ {t} /\ cl' = new /\ TellAborted(new)
        /\ UNCHANGED <<dnsreq, blu, asked, now, spent, hist>>
    BY DEF CblError
  <1>2. ASSUME NEW d \in Client
        PROVE  /\ new[d] \in Structure /\ Advances(d, cl[d], new[d])
               /\ new[d].st = "unknown" /\ Stopped(d, cl[d]) => Stopped(d, new[d])
    <2>1. cl[d] \in Structure
      BY DEF Inv, Shape
    <2>2. CASE d \in t /\ Live(d)
      <3>1. new[d] = CblAllow(d, cl[d])
        BY <2>2
      <3> HIDE DEF new
      <3>2. QED
        BY <2>1, <3>1, CblAllowFacts DEF Advances
    <2>3. CASE ~(d \in t /\ Live(d))
      <3>1. new[d] = cl[d]
        BY <2>3
      <3> HIDE DEF new
      <3>2. QED
        BY <2>1, <3>1 DEF Advances
    <2>4. QED
      BY <2>2, <2>3
  <1>3. new \in [Client -> Structure]
    BY <1>2
  <1> HIDE DEF new
  <1>4. /\ svc' \in SvcRec /\ svc'.up = svc.up /\ svc'.from = svc.from
        /\ ~svc.up => svc' = Services0(FALSE)
        /\ \A d \in Client : About(d, svc'.to) =>
              About(d, svc.to) \/ (new[d].st # "free" /\ new[d].st # "unknown")
    BY <1>1, <1>2, <1>3, TellAbortedFacts
  <1>5. ASSUME NEW d \in Client
        PROVE  /\ Advances(d, cl[d], cl'[d])
               /\ Remains(d, cl[d], cl'[d], svc.from, svc'.from)
               /\ Flows(d, cl'[d], svc.to, svc.from, svc'.to, svc'.from)
    BY <1>1, <1>2, <1>4 DEF Remains, Flows
  <1>6. /\ xfer' \subseteq SUBSET Client /\ now' \in Nat /\ now' > 0
        /\ spent' \in [{"auth", "rare"} -> Nat] /\ Paired(svc'.from)
    BY <1>1, <1>4 DEF Inv, Shape, Fair
  <1>7. QED
    BY <1>1, <1>3, <1>4, <1>5, <1>6, AllStep

\* The requests of all who wait go out in one transfer.
LEMMA CblBundleKeeps ==
    ASSUME Inv, CblBundle
    PROVE  Inv'
  <1> DEFINE pending == {c \in Client : Unknown(c) /\ cl[c].cbl = "pending"}
  <1>1. /\ xfer' = xfer \cup {pending}
        /\ cl' = [c \in Client |->
              IF c \in pending THEN [cl[c] EXCEPT !.cbl = "sent", !.cblat = now] ELSE cl[c]]
        /\ UNCHANGED <<dnsreq, blu, asked, svc, now, spent, hist>>
    BY DEF CblBundle
  <1>2. ASSUME NEW d \in Client
        PROVE  /\ cl'[d] \in Structure /\ Advances(d, cl[d], cl'[d])
               /\ cl'[d].st = "unknown" /\ Stopped(d, cl[d]) => Stopped(d, cl'[d])
    <2>1. cl[d] \in Structure /\ now \in Nat
      BY DEF Inv, Shape
    <2>2. CASE d \in pending
      <3> DEFINE y == [cl[d] EXCEPT !.cbl = "sent", !.cblat = now]
      <3>1. cl'[d] = y
        BY <1>1, <2>2
      <3>2. /\ y \in Structure /\ y.st = cl[d].st /\ y.dns = cl[d].dns /\ y.lookup = cl[d].lookup
            /\ y.out = cl[d].out /\ y.login = cl[d].login /\ y.prompt = cl[d].prompt
            /\ y.save = cl[d].save /\ y.shun = cl[d].shun /\ y.pinged = cl[d].pinged
            /\ y.last = cl[d].last /\ y.cbl = "sent"
        BY <2>1 DEF Structure
      <3> HIDE DEF y
      <3>3. QED
        BY <3>1, <3>2 DEF Advances, Stopped
    <2>3. CASE d \notin pending
      <3>1. cl'[d] = cl[d]
        BY <1>1, <2>3
      <3>2. QED
        BY <2>1, <3>1 DEF Advances
    <2>4. QED
      BY <2>2, <2>3
  <1>3. cl' \in [Client -> Structure]
    BY <1>1, <1>2
  <1>4. ASSUME NEW d \in Client
        PROVE  /\ Advances(d, cl[d], cl'[d])
               /\ Remains(d, cl[d], cl'[d], svc.from, svc'.from)
               /\ Flows(d, cl'[d], svc.to, svc.from, svc'.to, svc'.from)
    BY <1>1, <1>2 DEF Remains, Flows
  <1>5. xfer' \subseteq SUBSET Client
    BY <1>1 DEF Inv, Shape
  <1> HIDE DEF pending
  <1>6. /\ now' \in Nat /\ now' > 0 /\ svc' \in SvcRec /\ (~svc'.up => svc' = Services0(FALSE))
        /\ spent' \in [{"auth", "rare"} -> Nat] /\ Paired(svc'.from)
    BY <1>1 DEF Inv, Shape, Fair
  <1>7. QED
    BY <1>1, <1>3, <1>4, <1>5, <1>6, AllStep

\* Time passes; and nothing happens.
LEMMA TickKeeps ==
    ASSUME Inv, Tick \/ UNCHANGED vars
    PROVE  Inv'
  <1>1. /\ UNCHANGED <<cl, dnsreq, blu, asked, xfer, svc, spent, hist>>
        /\ now' \in Nat /\ now' > 0
    BY DEF Tick, vars, Inv, Shape
  <1>2. /\ cl' \in [Client -> Structure] /\ svc' \in SvcRec /\ xfer' \subseteq SUBSET Client
        /\ ~svc'.up => svc' = Services0(FALSE)
        /\ spent' \in [{"auth", "rare"} -> Nat] /\ Paired(svc'.from)
    BY <1>1 DEF Inv, Shape, Fair
  <1>3. ASSUME NEW d \in Client
        PROVE  /\ Advances(d, cl[d], cl'[d])
               /\ Remains(d, cl[d], cl'[d], svc.from, svc'.from)
               /\ Flows(d, cl'[d], svc.to, svc.from, svc'.to, svc'.from)
    BY <1>1, <1>2 DEF Advances, Remains, Flows
  <1>4. QED
    BY <1>1, <1>2, <1>3, AllStep

\* sasl_timeout: nobody looks at the client then, it is an orphan.
LEMMA SaslTimeoutKeeps ==
    ASSUME Inv, NEW c \in Client, CheckSaslTimeout(c)
    PROVE  Inv'
  <1> DEFINE y == AbortSasl(cl[c])
             h == [hist[c] EXCEPT !.orphan = TRUE]
  <1>1. /\ cl' = [cl EXCEPT ![c] = y] /\ svc' = Tell(Told(c, y))
        /\ hist' = [hist EXCEPT ![c].orphan = TRUE] /\ cl[c].st = "unknown"
        /\ UNCHANGED <<dnsreq, blu, asked, xfer, now, spent>>
    BY DEF CheckSaslTimeout, Become, Unknown
  <1>2. Shape /\ Linked /\ Fair /\ cl \in [Client -> Structure] /\ hist \in [Client -> History]
    BY DEF Inv, Shape
  <1>3. /\ y \in Structure /\ y.st = cl[c].st /\ y.dns = cl[c].dns /\ y.lookup = cl[c].lookup
        /\ y.login = cl[c].login /\ y.prompt = cl[c].prompt /\ y.save = cl[c].save
        /\ y.shun = cl[c].shun /\ y.pinged = cl[c].pinged
    <2>1. cl[c] \in Structure
      BY <1>2
    <2>2. QED
      BY <2>1 DEF AbortSasl, Structure
  <1>4. h \in History /\ h.orphan /\ h.refused = hist[c].refused
    BY <1>2 DEF History
  <1>5. hist' = [hist EXCEPT ![c] = h]
    BY <1>1, <1>2
  <1> HIDE DEF y, h
  <1>6. Told(c, y) \in Seq(Question) /\ \A d : About(d, Told(c, y)) => d = c
    BY TellOne DEF Told
  <1>7. /\ svc' \in SvcRec /\ svc'.up = svc.up /\ svc'.from = svc.from
        /\ ~svc.up => svc' = Services0(FALSE)
        /\ \A d : About(d, svc'.to) => About(d, svc.to) \/ d = c
    BY <1>1, <1>2, <1>6, TellFacts
  <1>8. /\ cl' \in [Client -> Structure] /\ cl'[c] = y
        /\ \A d \in Client : d # c => cl'[d] = cl[d] /\ hist'[d] = hist[d]
        /\ hist' \in [Client -> History] /\ hist'[c] = h
    BY <1>1, <1>2, <1>3, <1>4, <1>5
  <1>9. Shape'
    BY <1>1, <1>2, <1>7, <1>8 DEF Shape
  <1>10. Linked'
    <2>1. \A d \in Client : Steady(cl[d], cl'[d])
      BY <1>2, <1>3, <1>8 DEF Steady
    <2>2. QED
      BY <1>1, <1>2, <2>1, SteadyLinked
  <1>11. ASSUME NEW d \in Client
         PROVE  Treated(d, cl'[d], hist'[d], svc'.to, svc'.from)
    <2>1. Treated(d, cl[d], hist[d], svc.to, svc.from)
      BY <1>2 DEF Fair
    <2>2. CASE d = c
      <3>1. Waits(c, y, h, svc'.from) /\ Heard(c, y, h, svc'.to, svc'.from)
        BY <1>1, <1>3, <1>4 DEF Waits, Heard
      <3>2. Pinged(y, h) /\ Blank(y, h)
        BY <1>1, <1>3, <2>1, <2>2 DEF Treated, Pinged, Blank
      <3>3. "block" \notin BlAction \cup CblVerdict => Barred(y, h)
        BY <1>1, <1>3, <1>4, <2>1, <2>2 DEF Treated, Barred
      <3>4. QED
        BY <1>8, <2>2, <3>1, <3>2, <3>3 DEF Treated
    <2>3. CASE d # c
      BY <1>7, <1>8, <2>1, <2>3 DEF Treated, Waits, Heard
    <2>4. QED
      BY <2>2, <2>3
  <1>12. Fair'
    BY <1>2, <1>7, <1>11 DEF Fair
  <1>13. QED
    BY <1>9, <1>10, <1>12 DEF Inv

-----------------------------------------------------------------------------
(* Lookups: who waits for them and who is gone *)

Forget(reqs, gone) == {IF r.to \in gone THEN [r EXCEPT !.to = None] ELSE r : r \in reqs}

\* Requests forget those who are gone, and only them.
LEMMA ForgetFacts ==
    ASSUME NEW reqs \in SUBSET Request, \A r \in reqs : r.to \in {r.who, None},
           NEW gone \in SUBSET Client
    PROVE  /\ Forget(reqs, gone) \subseteq Request
           /\ \A r \in Forget(reqs, gone) : /\ r.to \in {r.who, None} /\ r.to \notin gone
                                            /\ r.to # None => r \in reqs
           /\ \A r \in reqs : r.to \notin gone => r \in Forget(reqs, gone)
  <1>1. \A r \in Request : /\ [r EXCEPT !.to = None] \in Request
                           /\ [r EXCEPT !.to = None].to = None
    BY DEF Request
  <1>2. None \notin gone
    BY HandshakeAssumption
  <1>3. QED
    BY <1>1, <1>2 DEF Forget

\* Those who stay wait for what they waited for.
LEMMA ForgetAwaited ==
    ASSUME NEW reqs \in SUBSET Request, \A r \in reqs : r.to \in {r.who, None},
           NEW gone \in SUBSET Client, NEW c \in Client, NEW x, Awaited(c, x, reqs)
    PROVE  /\ c \notin gone => Awaited(c, x, Forget(reqs, gone))
           /\ c \in gone => \A y : y.dns = FALSE => Awaited(c, y, Forget(reqs, gone))
  <1>1. c # None
    BY HandshakeAssumption
  <1>2. /\ \A r \in Forget(reqs, gone) : r.to \notin gone /\ (r.to # None => r \in reqs)
        /\ \A r \in reqs : r.to \notin gone => r \in Forget(reqs, gone)
    BY ForgetFacts
  <1>3. QED
    BY <1>1, <1>2 DEF Awaited

\* exit_client: the requests forget the clients in gone and the structure of
\* blacklist.c goes unless an answer is still to come.
LEMMA ExitLinked ==
    ASSUME Shape, Linked, NEW gone \in SUBSET Client,
           \A d \in gone : Live(d) /\ cl'[d].st = "gone" /\ cl'[d].dns = FALSE,
           \A d \in Client \ gone : Steady(cl[d], cl'[d]) /\ blu'[d] = blu[d],
           dnsreq' = Forget(dnsreq, gone), asked' = asked,
           \A d \in gone : blu'[d] = FreeBluser(blu[d])
    PROVE  /\ Linked' /\ dnsreq' \subseteq Request /\ \A r \in dnsreq' : r.to \in {r.who, None}
           /\ \A c \in Client : blu'[c] \in BLUser /\ blu'[c].refcnt = asked'[c]
  <1>1. /\ dnsreq \in SUBSET Request /\ (\A r \in dnsreq : r.to \in {r.who, None})
        /\ \A c \in Client : blu[c] \in BLUser /\ asked[c] \in Nat /\ blu[c].refcnt = asked[c]
    BY DEF Shape
  <1>2. dnsreq' \subseteq Request /\ \A r \in dnsreq' : r.to \in {r.who, None}
    BY <1>1, ForgetFacts
  <1>3. ASSUME NEW c \in Client
        PROVE  /\ blu'[c] \in BLUser /\ blu'[c].refcnt = asked'[c]
               /\ Counted(cl'[c], blu'[c], asked'[c]) /\ Awaited(c, cl'[c], dnsreq')
    <2>1. Counted(cl[c], blu[c], asked[c]) /\ Awaited(c, cl[c], dnsreq)
      BY DEF Linked
    <2>2. CASE c \in gone
      <3> DEFINE b == blu[c]
      <3>1. blu'[c] = [b EXCEPT !.client = FALSE, !.alloc = b.refcnt > 0]
        BY <2>2 DEF FreeBluser
      <3>2. b \in BLUser /\ b.refcnt = asked[c] /\ (b.refcnt > 0) \in BOOLEAN
        BY <1>1
      <3> HIDE DEF b
      <3>3. /\ blu'[c] \in BLUser /\ blu'[c].refcnt = asked[c] /\ blu'[c].client = FALSE
            /\ blu'[c].alloc = (asked[c] > 0)
        BY <3>1, <3>2 DEF BLUser
      <3>4. Counted(cl'[c], blu'[c], asked'[c])
        BY <2>2, <3>3 DEF Counted
      <3>5. Awaited(c, cl'[c], dnsreq')
        BY <1>1, <2>1, <2>2, ForgetAwaited
      <3>6. QED
        BY <3>3, <3>4, <3>5
    <2>3. CASE c \notin gone
      <3>1. Steady(cl[c], cl'[c]) /\ blu'[c] = blu[c]
        BY <2>3
      <3>2. Counted(cl'[c], blu'[c], asked'[c])
        BY <2>1, <3>1 DEF Counted, Steady
      <3>3. Awaited(c, cl[c], dnsreq')
        BY <1>1, <2>1, <2>3, ForgetAwaited
      <3>4. Awaited(c, cl'[c], dnsreq')
        BY <3>1, <3>3 DEF Awaited, Steady
      <3>5. QED
        BY <1>1, <3>1, <3>2, <3>4
    <2>4. QED
      BY <2>2, <2>3
  <1>4. Linked'
    BY <1>3 DEF Linked
  <1>5. QED
    BY <1>2, <1>3, <1>4

\* What services hear of a user that ends.
LEMMA QuitTold ==
    ASSUME Inv, NEW c \in Client,
           svc' = IF cl[c].st = "user" /\ Aborts(cl[c]) THEN Tell(<<<<c, "A">>>>) ELSE svc
    PROVE  /\ svc' \in SvcRec /\ svc'.up = svc.up /\ svc'.from = svc.from
           /\ ~svc'.up => svc' = Services0(FALSE)
           /\ \A d : About(d, svc'.to) => About(d, svc.to) \/ d = c
  <1>1. Shape /\ Tell(<<>>) = svc
    BY UnknownFacts DEF Inv
  <1>2. PICK msgs \in Seq(Question) : svc' = Tell(msgs) /\ \A d : About(d, msgs) => d = c
    BY <1>1, TellOne
  <1>3. /\ Tell(msgs) \in SvcRec /\ Tell(msgs).up = svc.up /\ Tell(msgs).from = svc.from
        /\ ~svc.up => Tell(msgs) = svc /\ Tell(msgs) = Services0(FALSE)
        /\ \A d : About(d, Tell(msgs).to) => About(d, svc.to) \/ (svc.up /\ About(d, msgs))
    BY <1>1, TellFacts
  <1>4. QED
    BY <1>2, <1>3

\* The promises when one client is gone and nobody else moves.
LEMMA GoneFair ==
    ASSUME Inv, NEW c \in Client, cl' = [cl EXCEPT ![c] = Gone(cl[c])],
           svc'.from = svc.from, \A d : About(d, svc'.to) => About(d, svc.to) \/ d = c,
           \A d \in Client : d # c => hist'[d] = hist[d]
    PROVE  /\ Fair' /\ cl' \in [Client -> Structure]
           /\ cl'[c].st = "gone" /\ cl'[c].dns = FALSE
           /\ \A d \in Client : d # c => cl'[d] = cl[d]
  <1>1. cl \in [Client -> Structure] /\ Fair /\ cl[c] \in Structure
    BY DEF Inv, Shape
  <1>2. /\ Gone(cl[c]) \in Structure /\ Gone(cl[c]).st = "gone" /\ Gone(cl[c]).dns = FALSE
        /\ \A h, q, s : Treated(c, Gone(cl[c]), h, q, s)
    BY <1>1, GoneTreated
  <1>3. /\ cl'[c] = Gone(cl[c]) /\ \A d \in Client : d # c => cl'[d] = cl[d]
        /\ cl' \in [Client -> Structure]
    BY <1>1, <1>2
  <1>4. ASSUME NEW d \in Client
        PROVE  Treated(d, cl'[d], hist'[d], svc'.to, svc'.from)
    <2>1. Treated(d, cl[d], hist[d], svc.to, svc.from)
      BY <1>1 DEF Fair
    <2>2. CASE d = c
      BY <1>2, <1>3, <2>2
    <2>3. CASE d # c
      BY <1>3, <2>1, <2>3 DEF Treated, Waits, Heard
    <2>4. QED
      BY <2>2, <2>3
  <1>5. Fair'
    BY <1>1, <1>4 DEF Fair
  <1>6. QED
    BY <1>2, <1>3, <1>5

\* exit_client of one client.
LEMMA ExitKeeps ==
    ASSUME Inv, NEW c \in Client, Live(c), UNCHANGED <<asked, xfer, now, spent>>,
           NEW why \in {"quit", "registration", "ping"}, Exit(c, why)
    PROVE  Inv'
  <1>1. /\ dnsreq' = Forget(dnsreq, {c})
        /\ blu' = [d \in Client |-> IF d \in {c} /\ blu[d].client THEN FreeBluser(blu[d]) ELSE blu[d]]
        /\ hist' = [d \in Client |-> IF d \in {c} THEN [hist[d] EXCEPT !.end = why] ELSE hist[d]]
        /\ cl' = [cl EXCEPT ![c] = Gone(cl[c])]
        /\ svc' = IF cl[c].st = "user" /\ Aborts(cl[c]) THEN Tell(<<<<c, "A">>>>) ELSE svc
    BY DEF Exit, ExitAll, Forget
  <1>2. Shape /\ Linked /\ cl \in [Client -> Structure] /\ hist \in [Client -> History]
    BY DEF Inv, Shape
  <1>3. /\ svc' \in SvcRec /\ svc'.up = svc.up /\ svc'.from = svc.from
        /\ ~svc'.up => svc' = Services0(FALSE)
        /\ \A d : About(d, svc'.to) => About(d, svc.to) \/ d = c
    BY <1>1, QuitTold
  <1>4. /\ Fair' /\ cl' \in [Client -> Structure]
        /\ cl'[c].st = "gone" /\ cl'[c].dns = FALSE
        /\ \A d \in Client : d # c => cl'[d] = cl[d]
    BY <1>1, <1>3, GoneFair
  <1>5. blu[c].client
    BY <1>2 DEF Linked, Counted, Live
  <1>6. blu'[c] = FreeBluser(blu[c]) /\ \A d \in Client : d # c => blu'[d] = blu[d]
    BY <1>1, <1>5
  <1>7. \A d \in Client : d # c => Steady(cl[d], cl'[d])
    BY <1>2, <1>4 DEF Steady
  <1>8. /\ Linked' /\ dnsreq' \subseteq Request /\ \A r \in dnsreq' : r.to \in {r.who, None}
        /\ \A d \in Client : blu'[d] \in BLUser /\ blu'[d].refcnt = asked'[d]
    <2> DEFINE gone == {c}
    <2>1. /\ gone \in SUBSET Client
          /\ \A d \in gone : Live(d) /\ cl'[d].st = "gone" /\ cl'[d].dns = FALSE
          /\ \A d \in Client \ gone : Steady(cl[d], cl'[d]) /\ blu'[d] = blu[d]
          /\ dnsreq' = Forget(dnsreq, gone) /\ asked' = asked
          /\ \A d \in gone : blu'[d] = FreeBluser(blu[d])
      BY <1>1, <1>4, <1>6, <1>7
    <2> HIDE DEF gone
    <2>2. QED
      BY <1>2, <2>1, ExitLinked
  <1>9. hist' \in [Client -> History]
    BY <1>1, <1>2 DEF History
  <1>10. blu' \in [Client -> BLUser]
    BY <1>1, <1>8
  <1>11. Shape'
    BY <1>2, <1>3, <1>4, <1>8, <1>9, <1>10 DEF Shape
  <1>12. QED
    BY <1>4, <1>8, <1>11 DEF Inv

\* QUIT, the timeout of the handshake and the PINGs.
LEMMA EndsKeep ==
    ASSUME Inv, NEW c \in Client, Quit(c) \/ HandshakeTimeoutEvt(c) \/ CheckPing(c)
    PROVE  Inv'
  <1>1. CASE Quit(c)
    BY <1>1, ExitKeeps DEF Quit
  <1>2. CASE HandshakeTimeoutEvt(c)
    BY <1>2, ExitKeeps DEF HandshakeTimeoutEvt, Unknown, Live
  <1>3. CASE CheckPing(c) /\ Exit(c, "ping")
    BY <1>3, ExitKeeps DEF CheckPing, Live
  <1>4. CASE CheckPing(c) /\ ~Exit(c, "ping")
    <2>1. /\ cl' = [cl EXCEPT ![c].pinged = TRUE, ![c].last = now - PingFreq]
          /\ hist' = [hist EXCEPT ![c].pingat = now]
          /\ UNCHANGED <<dnsreq, blu, svc, asked, xfer, now, spent>> /\ cl[c].st = "user"
      BY <1>4 DEF CheckPing
    <2>2. /\ Shape /\ Linked /\ Fair /\ cl \in [Client -> Structure]
          /\ hist \in [Client -> History] /\ now \in Nat
      BY DEF Inv, Shape
    <2>3. now - PingFreq \in Int /\ now \in Int /\ cl[c] \in Structure /\ hist[c] \in History
      BY <2>2, HandshakeAssumption
    <2> DEFINE y == [cl[c] EXCEPT !.pinged = TRUE, !.last = now - PingFreq]
               h == [hist[c] EXCEPT !.pingat = now]
    <2>4. cl' = [cl EXCEPT ![c] = y] /\ hist' = [hist EXCEPT ![c] = h]
      BY <2>1, <2>2
    <2>5. /\ y \in Structure /\ y.st = cl[c].st /\ y.dns = cl[c].dns /\ y.lookup = cl[c].lookup
          /\ y.out = cl[c].out /\ y.login = cl[c].login /\ y.last = now - PingFreq
      BY <2>3 DEF Structure
    <2>6. h \in History /\ h.pingat = now /\ h.refused = hist[c].refused
      BY <2>3 DEF History
    <2> HIDE DEF y, h
    <2>7. /\ cl' \in [Client -> Structure] /\ cl'[c] = y
          /\ hist' \in [Client -> History] /\ hist'[c] = h
          /\ \A d \in Client : d # c => cl'[d] = cl[d] /\ hist'[d] = hist[d]
      BY <2>2, <2>4, <2>5, <2>6
    <2>8. Shape'
      BY <2>1, <2>2, <2>7 DEF Shape
    <2>9. Linked'
      <3>1. \A d \in Client : Steady(cl[d], cl'[d])
        BY <2>2, <2>5, <2>7 DEF Steady
      <3>2. QED
        BY <2>1, <2>2, <3>1, SteadyLinked
    <2>10. ASSUME NEW d \in Client
           PROVE  Treated(d, cl'[d], hist'[d], svc.to, svc.from)
      <3>1. Treated(d, cl[d], hist[d], svc.to, svc.from)
        BY <2>2 DEF Fair
      <3>2. CASE d = c
        <4>1. /\ Waits(c, y, h, svc.from) /\ Heard(c, y, h, svc.to, svc.from)
              /\ Pinged(y, h) /\ Blank(y, h)
          BY <2>1, <2>5, <2>6 DEF Waits, Heard, Pinged, Blank
        <4>2. "block" \notin BlAction \cup CblVerdict => Barred(y, h)
          BY <2>1, <2>5, <2>6, <3>1, <3>2 DEF Treated, Barred
        <4>3. QED
          BY <2>7, <3>2, <4>1, <4>2 DEF Treated
      <3>3. CASE d # c
        BY <2>7, <3>1, <3>3
      <3>4. QED
        BY <3>2, <3>3
    <2>11. Fair'
      BY <2>1, <2>2, <2>10 DEF Fair
    <2>12. QED
      BY <2>8, <2>9, <2>11 DEF Inv
  <1>5. QED
    BY <1>1, <1>2, <1>3, <1>4

\* An answer of the resolver: the request goes on, or its client, if it has one,
\* need not wait any more.
LEMMA DnsAnswerKeeps ==
    ASSUME Inv, NEW r \in dnsreq, DnsAnswer(r)
    PROVE  Inv'
  <1>1. /\ Shape /\ Linked /\ Fair /\ cl \in [Client -> Structure] /\ r \in Request
        /\ dnsreq \subseteq Request /\ \A s \in dnsreq : s.to \in {s.who, None}
    BY DEF Inv, Shape
  <1>2. UNCHANGED <<blu, asked, xfer, svc, now, spent, hist>>
    BY DEF DnsAnswer
  <1>3. CASE r.stage = 1 /\ r.to # None /\ UNCHANGED cl
                /\ dnsreq' = (dnsreq \ {r}) \cup {[r EXCEPT !.stage = 2]}
    <2> DEFINE z == [r EXCEPT !.stage = 2]
    <2>1. z \in Request /\ z.to = r.to /\ z.who = r.who /\ z.n = r.n
      BY <1>1 DEF Request
    <2>2. dnsreq' = (dnsreq \ {r}) \cup {z}
      BY <1>3
    <2> HIDE DEF z
    <2>3. Shape'
      BY <1>1, <1>2, <1>3, <2>1, <2>2 DEF Shape
    <2>4. ASSUME NEW c \in Client
          PROVE  Awaited(c, cl[c], dnsreq')
      <3>1. Awaited(c, cl[c], dnsreq)
        BY <1>1 DEF Linked
      <3>2. QED
        BY <2>1, <2>2, <3>1 DEF Awaited
    <2>5. Linked'
      BY <1>1, <1>2, <1>3, <2>4 DEF Linked
    <2>6. Fair'
      BY <1>1, <1>2, <1>3 DEF Fair
    <2>7. QED
      BY <2>3, <2>5, <2>6 DEF Inv
  <1>4. CASE dnsreq' = dnsreq \ {r} /\ r.to = None /\ cl' = cl
    <2>1. Shape'
      BY <1>1, <1>2, <1>4 DEF Shape
    <2>2. ASSUME NEW c \in Client
          PROVE  Awaited(c, cl[c], dnsreq')
      <3>1. Awaited(c, cl[c], dnsreq) /\ c # None
        BY <1>1, HandshakeAssumption DEF Linked
      <3>2. QED
        BY <1>4, <3>1 DEF Awaited
    <2>3. Linked'
      BY <1>1, <1>2, <1>4, <2>2 DEF Linked
    <2>4. Fair'
      BY <1>1, <1>2, <1>4 DEF Fair
    <2>5. QED
      BY <2>1, <2>3, <2>4 DEF Inv
  <1>5. CASE dnsreq' = dnsreq \ {r} /\ r.to # None /\ cl' = [cl EXCEPT ![r.to].dns = FALSE]
    <2> DEFINE c == r.to
               y == [cl[c] EXCEPT !.dns = FALSE]
    <2>1. c \in Client /\ cl[c] \in Structure
      BY <1>1, <1>5 DEF Request
    <2>2. cl' = [cl EXCEPT ![c] = y]
      BY <1>1, <1>5, <2>1
    <2>3. /\ y \in Structure /\ y.st = cl[c].st /\ y.dns = FALSE /\ y.lookup = cl[c].lookup
          /\ y.out = cl[c].out /\ y.pinged = cl[c].pinged /\ y.last = cl[c].last
          /\ y.sent = cl[c].sent /\ y.cap = cl[c].cap /\ y.done = cl[c].done
          /\ SameGate(cl[c], y)
      <3> HIDE DEF c
      <3>1. QED
        BY <2>1 DEF Structure, SameGate
    <2> HIDE DEF y
    <2>4. /\ cl' \in [Client -> Structure] /\ cl'[c] = y
          /\ \A d \in Client : d # c => cl'[d] = cl[d]
      BY <1>1, <2>1, <2>2, <2>3
    <2>5. Shape'
      BY <1>1, <1>2, <1>5, <2>4 DEF Shape
    <2>6. ASSUME NEW d \in Client
          PROVE  Counted(cl'[d], blu[d], asked[d]) /\ Awaited(d, cl'[d], dnsreq')
      <3>1. Counted(cl[d], blu[d], asked[d]) /\ Awaited(d, cl[d], dnsreq)
        BY <1>1 DEF Linked
      <3>2. CASE d = c
        <4>1. \A s \in dnsreq' : s.to # c
          BY <1>5, <3>1, <3>2 DEF Awaited
        <4>2. QED
          BY <2>3, <2>4, <3>1, <3>2, <4>1 DEF Counted, Awaited
      <3>3. CASE d # c
        <4>1. cl'[d] = cl[d] /\ \A s \in dnsreq : s.to = d => s \in dnsreq'
          BY <1>5, <2>4, <3>3
        <4>2. dnsreq' \subseteq dnsreq
          BY <1>5
        <4>3. QED
          BY <3>1, <4>1, <4>2 DEF Awaited
      <3>4. QED
        BY <3>2, <3>3
    <2>7. Linked'
      BY <1>2, <2>6 DEF Linked
    <2>8. ASSUME NEW d \in Client
          PROVE  Treated(d, cl'[d], hist[d], svc.to, svc.from)
      <3>1. Treated(d, cl[d], hist[d], svc.to, svc.from)
        BY <1>1 DEF Fair
      <3>2. CASE d = c
        <4>1. Stopped(c, y) <=> Stopped(c, cl[c])
          BY <2>3 DEF SameGate, Stopped, InProgress, SaslInProgress, HeldBack
        <4>2. QED
          BY <2>3, <2>4, <3>1, <3>2, <4>1
             DEF Treated, Waits, Heard, Pinged, Blank, Barred, SameGate
      <3>3. CASE d # c
        BY <2>4, <3>1, <3>3
      <3>4. QED
        BY <3>2, <3>3
    <2>9. Fair'
      BY <1>1, <1>2, <2>8 DEF Fair
    <2>10. QED
      BY <2>5, <2>7, <2>9 DEF Inv
  <1>6. QED
    BY <1>3, <1>4, <1>5 DEF DnsAnswer

\* blacklist_start_check: one more reference for every query.
LEMMA StartCheckFacts ==
    ASSUME Shape, NEW c \in Client, StartCheck(c)
    PROVE  /\ blu' \in [Client -> BLUser] /\ asked' \in [Client -> Nat]
           /\ \A d \in Client : blu'[d].refcnt = asked'[d]
           /\ \A d \in Client : d # c => blu'[d] = blu[d] /\ asked'[d] = asked[d]
           /\ \A x : x.st \in {"unknown", "user"} => Counted(x, blu'[c], asked'[c])
  <1>1. /\ blu \in [Client -> BLUser] /\ asked \in [Client -> Nat] /\ Lists \in Nat
        /\ \A d \in Client : blu[d].refcnt = asked[d]
    BY HandshakeAssumption DEF Shape
  <1> DEFINE n == asked[c] + Lists
             b == [alloc |-> TRUE, client |-> TRUE, refcnt |-> n]
  <1>2. blu' = [blu EXCEPT ![c] = b] /\ asked' = [asked EXCEPT ![c] = n]
    BY <1>1 DEF StartCheck
  <1>3. n \in Nat /\ b \in BLUser /\ b.alloc /\ b.client /\ b.refcnt = n
    BY <1>1 DEF BLUser
  <1> HIDE DEF n, b
  <1>4. blu'[c] = b /\ asked'[c] = n
    BY <1>1, <1>2
  <1>5. \A x : x.st \in {"unknown", "user"} => Counted(x, b, n)
    BY <1>3 DEF Counted
  <1>6. QED
    BY <1>1, <1>2, <1>3, <1>4, <1>5

\* start_dns_and_ident_lookup: the client waits for the new request, if any, and
\* for no other.
LEMMA StartLookupsFacts ==
    ASSUME Shape, Linked, NEW c \in Client, NEW x \in Structure,
           x.st \in {"unknown", "user"}, StartLookups(c, x)
    PROVE  /\ cl' \in [Client -> Structure] /\ dnsreq' \subseteq Request
           /\ \A r \in dnsreq' : r.to \in {r.who, None}
           /\ \A d \in Client : d # c => cl'[d] = cl[d]
           /\ \A d \in Client : Awaited(d, cl'[d], dnsreq')
           /\ cl'[c].st = x.st /\ cl'[c].nick = x.nick /\ cl'[c].pinged = x.pinged
           /\ cl'[c].out = x.out /\ cl'[c].login = x.login /\ cl'[c].prompt = x.prompt
           /\ cl'[c].save = x.save /\ cl'[c].shun = x.shun
  <1>1. PICK request \in DoClient(c, x.lookup + 1), ident \in IdentConnect :
           /\ dnsreq' = Forgotten(dnsreq, c) \cup request
           /\ cl' = [cl EXCEPT ![c] =
                       [x EXCEPT !.dns = request # {}, !.ident = ident, !.lookup = @ + 1]]
    BY DEF StartLookups
  <1> DEFINE y == [x EXCEPT !.dns = request # {}, !.ident = ident, !.lookup = @ + 1]
             new == [who |-> c, n |-> x.lookup + 1, to |-> c, stage |-> 1]
             rest == Forget(dnsreq, {c})
  <1>2. /\ cl \in [Client -> Structure] /\ dnsreq \in SUBSET Request
        /\ \A r \in dnsreq : r.to \in {r.who, None}
    BY DEF Shape
  <1>3. x.lookup + 1 \in Nat /\ ident \in {"no", "connect", "read"} /\ (request # {}) \in BOOLEAN
    BY DEF Structure, IdentConnect
  <1>4. /\ y \in Structure /\ y.dns = (request # {}) /\ y.lookup = x.lookup + 1
        /\ y.st = x.st /\ y.nick = x.nick /\ y.pinged = x.pinged
        /\ y.out = x.out /\ y.login = x.login /\ y.prompt = x.prompt
        /\ y.save = x.save /\ y.shun = x.shun
    BY <1>3, ZenonT(40) DEF Structure
  <1>5. /\ new \in Request /\ new.to = c /\ new.who = c /\ new.n = x.lookup + 1
    BY <1>3 DEF Request
  <1>6. request = {} \/ request = {new}
    BY DEF DoClient
  <1>7. Forgotten(dnsreq, c) = rest
    BY DEF Forgotten, Forget
  <1>8. cl' = [cl EXCEPT ![c] = y] /\ dnsreq' = rest \cup request
    BY <1>1, <1>7
  <1> HIDE DEF y, new, rest
  <1>9. /\ cl' \in [Client -> Structure] /\ cl'[c] = y
        /\ \A d \in Client : d # c => cl'[d] = cl[d]
    BY <1>2, <1>4, <1>8
  <1>10. /\ rest \subseteq Request
         /\ \A r \in rest : r.to \in {r.who, None} /\ r.to # c
    BY <1>2, ForgetFacts DEF rest
  <1>11. ASSUME NEW d \in Client
         PROVE  Awaited(d, cl'[d], dnsreq')
    <2>1. Awaited(d, cl[d], dnsreq)
      BY DEF Linked
    <2>2. CASE d = c
      BY <1>4, <1>5, <1>6, <1>8, <1>9, <1>10, <2>2 DEF Awaited
    <2>3. CASE d # c
      <3>1. Awaited(d, cl[d], rest)
        BY <1>2, <2>1, <2>3, ForgetAwaited DEF rest
      <3>2. \A r \in dnsreq' : r.to = d => r \in rest
        BY <1>5, <1>6, <1>8, <2>3
      <3>3. QED
        BY <1>8, <1>9, <2>3, <3>1, <3>2 DEF Awaited
    <2>4. QED
      BY <2>2, <2>3
  <1>12. QED
    BY <1>4, <1>5, <1>6, <1>8, <1>9, <1>10, <1>11

\* A new connection, and a proxy that names the address of its client.
LEMMA ConnectKeeps ==
    ASSUME Inv, NEW c \in Client, Accept(c) \/ ProxyIp(c)
    PROVE  Inv'
  <1>1. Shape /\ Linked /\ Fair /\ cl[c] \in Structure /\ now \in Nat /\ now > 0
    BY DEF Inv, Shape
  <1>2. now \in Int /\ spent \in [{"auth", "rare"} -> Nat]
    BY <1>1 DEF Shape
  <1>3. PICK x \in Structure :
           /\ StartLookups(c, x) /\ x.st = "unknown" /\ ~x.nick /\ x.pinged = FALSE
           /\ \/ cl[c].st = "free"
              \/ /\ cl[c].st = "unknown" /\ x.out = cl[c].out /\ x.login = cl[c].login
                 /\ x.prompt = cl[c].prompt /\ x.save = cl[c].save /\ x.shun = cl[c].shun
    <2>1. CASE Accept(c)
      <3> DEFINE x == [Fresh EXCEPT !.st = "unknown", !.at = now, !.last = now]
      <3>1. x \in Structure /\ x.st = "unknown" /\ ~x.nick /\ x.pinged = FALSE
        BY <1>1, <1>2, FreshFacts DEF Structure
      <3>2. StartLookups(c, x) /\ cl[c].st = "free"
        BY <2>1 DEF Accept
      <3> HIDE DEF x
      <3>3. QED
        BY <3>1, <3>2
    <2>2. CASE ProxyIp(c)
      <3> DEFINE x == [cl[c] EXCEPT !.last = now]
      <3>1. cl[c].st = "unknown" /\ cl[c].pinged = FALSE /\ ~cl[c].nick
        BY <2>2, UnknownFacts DEF ProxyIp, Unknown
      <3>2. /\ x \in Structure /\ x.st = "unknown" /\ ~x.nick /\ x.pinged = FALSE
            /\ x.out = cl[c].out /\ x.login = cl[c].login
            /\ x.prompt = cl[c].prompt /\ x.save = cl[c].save /\ x.shun = cl[c].shun
        BY <1>1, <1>2, <3>1 DEF Structure
      <3>3. StartLookups(c, x)
        BY <2>2 DEF ProxyIp
      <3> HIDE DEF x
      <3>4. QED
        BY <3>1, <3>2, <3>3
    <2>3. QED
      BY <2>1, <2>2
  <1>4. /\ StartCheck(c) /\ UNCHANGED <<xfer, svc, now, hist>>
        /\ spent' = spent \/ spent' = [spent EXCEPT !["rare"] = @ + 1]
    BY DEF Accept, ProxyIp, Spend
  <1>5. /\ blu' \in [Client -> BLUser] /\ asked' \in [Client -> Nat]
        /\ \A d \in Client : blu'[d].refcnt = asked'[d]
        /\ \A d \in Client : d # c => blu'[d] = blu[d] /\ asked'[d] = asked[d]
        /\ \A z : z.st \in {"unknown", "user"} => Counted(z, blu'[c], asked'[c])
    BY <1>1, <1>4, StartCheckFacts
  <1>6. /\ cl' \in [Client -> Structure] /\ dnsreq' \subseteq Request
        /\ \A r \in dnsreq' : r.to \in {r.who, None}
        /\ \A d \in Client : d # c => cl'[d] = cl[d]
        /\ \A d \in Client : Awaited(d, cl'[d], dnsreq')
        /\ cl'[c].st = x.st /\ cl'[c].nick = x.nick /\ cl'[c].pinged = x.pinged
        /\ cl'[c].out = x.out /\ cl'[c].login = x.login /\ cl'[c].prompt = x.prompt
        /\ cl'[c].save = x.save /\ cl'[c].shun = x.shun
    BY <1>1, <1>3, StartLookupsFacts
  <1>7. Shape'
    <2>1. spent' \in [{"auth", "rare"} -> Nat]
      BY <1>2, <1>4
    <2>2. QED
      BY <1>1, <1>4, <1>5, <1>6, <2>1 DEF Shape
  <1>8. Linked'
    <2>1. ASSUME NEW d \in Client PROVE Counted(cl'[d], blu'[d], asked'[d])
      BY <1>1, <1>3, <1>5, <1>6 DEF Linked
    <2>2. QED
      BY <1>6, <2>1 DEF Linked
  <1>9. ASSUME NEW d \in Client
        PROVE  Treated(d, cl'[d], hist[d], svc.to, svc.from)
    <2>1. Treated(d, cl[d], hist[d], svc.to, svc.from)
      BY <1>1 DEF Fair
    <2>2. CASE d = c
      <3>1. Waits(c, cl'[c], hist[c], svc.from)
        BY <1>3, <1>6 DEF Waits, Stopped, InProgress
      <3>2. Heard(c, cl'[c], hist[c], svc.to, svc.from)
        BY <1>3, <1>6, <2>1, <2>2 DEF Treated, Heard
      <3>3. Pinged(cl'[c], hist[c]) /\ Blank(cl'[c], hist[c])
        BY <1>3, <1>6 DEF Pinged, Blank
      <3>4. "block" \notin BlAction \cup CblVerdict => Barred(cl'[c], hist[c])
        BY <1>3, <1>6, <2>1, <2>2 DEF Treated, Barred, Blank
      <3>5. QED
        BY <2>2, <3>1, <3>2, <3>3, <3>4 DEF Treated
    <2>3. CASE d # c
      BY <1>6, <2>1, <2>3
    <2>4. QED
      BY <2>2, <2>3
  <1>10. Fair'
    BY <1>1, <1>4, <1>9 DEF Fair
  <1>11. QED
    BY <1>7, <1>8, <1>10 DEF Inv

\* A user is looked up again.
LEMMA RecheckKeeps ==
    ASSUME Inv, NEW c \in Client, BlacklistRecheck(c)
    PROVE  Inv'
  <1>1. /\ Shape /\ Linked /\ Fair /\ StartCheck(c) /\ cl[c].st = "user"
        /\ UNCHANGED <<cl, dnsreq, xfer, svc, now, hist>>
        /\ spent' = [spent EXCEPT !["rare"] = @ + 1]
    BY DEF BlacklistRecheck, Inv, Spend
  <1>2. /\ blu' \in [Client -> BLUser] /\ asked' \in [Client -> Nat]
        /\ \A d \in Client : blu'[d].refcnt = asked'[d]
        /\ \A d \in Client : d # c => blu'[d] = blu[d] /\ asked'[d] = asked[d]
        /\ \A z : z.st \in {"unknown", "user"} => Counted(z, blu'[c], asked'[c])
    BY <1>1, StartCheckFacts
  <1>3. Shape'
    <2>1. spent' \in [{"auth", "rare"} -> Nat]
      BY <1>1 DEF Shape
    <2>2. QED
      BY <1>1, <1>2, <2>1 DEF Shape
  <1>4. Linked'
    BY <1>1, <1>2 DEF Linked
  <1>5. Fair'
    BY <1>1 DEF Fair
  <1>6. QED
    BY <1>3, <1>4, <1>5 DEF Inv

\* A reference comes back: the structure goes with the later of the client and
\* the last answer.
LEMMA ReturnedFacts ==
    ASSUME NEW x, NEW n \in Nat, NEW b \in BLUser, b.refcnt = n, n > 0, Counted(x, b, n)
    PROVE  /\ Returned(b) \in BLUser /\ Returned(b).refcnt = n - 1 /\ n - 1 \in Nat
           /\ Counted(x, Returned(b), n - 1)
           /\ FreeBluser(Returned(b)) \in BLUser /\ FreeBluser(Returned(b)).refcnt = n - 1
           /\ \A y : y.st = "gone" => Counted(y, FreeBluser(Returned(b)), n - 1)
  <1> DEFINE last == ~(b.refcnt = 1 /\ ~b.client)
  <1>1. n - 1 \in Nat /\ last \in BOOLEAN /\ (n - 1 > 0 => n # 1) /\ (n - 1 > 0) \in BOOLEAN
    OBVIOUS
  <1>2. last = (n # 1 \/ b.client)
    BY DEF BLUser
  <1>3. Returned(b) = [b EXCEPT !.refcnt = n - 1, !.alloc = last]
    BY DEF Returned
  <1> HIDE DEF last
  <1> DEFINE e == Returned(b)
  <1>4. /\ e \in BLUser /\ e.refcnt = n - 1 /\ e.alloc = last /\ e.client = b.client
    BY <1>1, <1>3 DEF BLUser
  <1> HIDE DEF e
  <1>5. Counted(x, e, n - 1)
    <2>1. n # 1 <=> n - 1 > 0
      OBVIOUS
    <2>2. e.alloc <=> n - 1 > 0 \/ b.client
      BY <1>2, <1>4, <2>1
    <2>3. b.client <=> x.st \in {"unknown", "user"}
      BY DEF Counted
    <2>4. QED
      BY <1>4, <2>2, <2>3 DEF Counted
  <1>6. /\ FreeBluser(e) \in BLUser /\ FreeBluser(e).refcnt = n - 1
        /\ FreeBluser(e).client = FALSE /\ FreeBluser(e).alloc = (n - 1 > 0)
    BY <1>1, <1>4 DEF FreeBluser, BLUser
  <1>7. \A y : y.st = "gone" => Counted(y, FreeBluser(e), n - 1)
    BY <1>6 DEF Counted
  <1>8. QED
    BY <1>1, <1>4, <1>5, <1>6, <1>7 DEF e

\* A blacklist answers: a miss, a hit that the client survives, or the end.
LEMMA BlacklistAnswerKeeps ==
    ASSUME Inv, NEW c \in Client, BlacklistAnswer(c)
    PROVE  Inv'
  <1>1. /\ Shape /\ Linked /\ Fair /\ cl \in [Client -> Structure] /\ cl[c] \in Structure
        /\ blu \in [Client -> BLUser] /\ asked \in [Client -> Nat]
        /\ \A d \in Client : blu[d].refcnt = asked[d]
    BY DEF Inv, Shape
  <1> DEFINE n == asked[c]
             b == blu[c]
  <1>2. /\ n > 0 /\ asked' = [asked EXCEPT ![c] = n - 1] /\ UNCHANGED <<xfer, now, spent>>
    BY DEF BlacklistAnswer
  <1>3. /\ Returned(b) \in BLUser /\ Returned(b).refcnt = n - 1 /\ n - 1 \in Nat
        /\ Counted(cl[c], Returned(b), n - 1)
        /\ FreeBluser(Returned(b)) \in BLUser /\ FreeBluser(Returned(b)).refcnt = n - 1
        /\ \A y : y.st = "gone" => Counted(y, FreeBluser(Returned(b)), n - 1)
    <2>1. Counted(cl[c], b, n) /\ b \in BLUser /\ n \in Nat /\ b.refcnt = n
      BY <1>1 DEF Linked
    <2> HIDE DEF n, b
    <2>2. QED
      BY <1>2, <2>1, ReturnedFacts
  <1> HIDE DEF n, b
  <1>4. asked'[c] = n - 1 /\ asked' \in [Client -> Nat]
        /\ \A d \in Client : d # c => asked'[d] = asked[d]
    BY <1>1, <1>2, <1>3
  <1>5. ASSUME NEW e \in BLUser, blu' = [blu EXCEPT ![c] = e], e.refcnt = n - 1
        PROVE  /\ blu' \in [Client -> BLUser] /\ blu'[c] = e
               /\ \A d \in Client : d # c => blu'[d] = blu[d]
               /\ \A d \in Client : blu'[d].refcnt = asked'[d]
    BY <1>1, <1>4, <1>5
  <1>6. CASE blu' = [blu EXCEPT ![c] = Returned(b)] /\ UNCHANGED <<cl, dnsreq, svc, hist>>
    <2>1. /\ blu' \in [Client -> BLUser] /\ blu'[c] = Returned(b)
          /\ \A d \in Client : d # c => blu'[d] = blu[d]
          /\ \A d \in Client : blu'[d].refcnt = asked'[d]
      BY <1>3, <1>5, <1>6
    <2>2. Shape'
      BY <1>1, <1>2, <1>4, <1>6, <2>1 DEF Shape
    <2>3. Linked'
      BY <1>1, <1>3, <1>4, <1>6, <2>1 DEF Linked
    <2>4. Fair'
      BY <1>1, <1>6 DEF Fair
    <2>5. QED
      BY <2>2, <2>3, <2>4 DEF Inv
  <1>7. ASSUME NEW v \in BlAction \ {"kill"}, b.client,
               cl' = [cl EXCEPT ![c] = BlacklistHit(@, v)],
               blu' = [blu EXCEPT ![c] = Returned(b)],
               hist' = [hist EXCEPT ![c].refused = Refused(c, v)], UNCHANGED <<dnsreq, svc>>
        PROVE  Inv'
    <2> DEFINE y == BlacklistHit(cl[c], v)
               h == hist'[c]
    <2>1. /\ blu' \in [Client -> BLUser] /\ blu'[c] = Returned(b)
          /\ \A d \in Client : d # c => blu'[d] = blu[d]
          /\ \A d \in Client : blu'[d].refcnt = asked'[d]
      BY <1>3, <1>5, <1>7
    <2>2. cl' = [cl EXCEPT ![c] = y]
      BY <1>1, <1>7
    <2>3. /\ y \in Structure /\ y.st = cl[c].st /\ y.dns = cl[c].dns /\ y.lookup = cl[c].lookup
          /\ y.out = cl[c].out /\ y.login = cl[c].login /\ y.prompt = cl[c].prompt
          /\ (cl[c].save => y.save) /\ (v = "soft" => y.save)
          /\ (cl[c].shun => y.shun) /\ (v = "shun" => y.shun)
          /\ y.pinged = cl[c].pinged /\ y.last = cl[c].last
          /\ y.sent = cl[c].sent /\ y.cap = cl[c].cap /\ y.done = cl[c].done
          /\ y.nick = cl[c].nick /\ y.named = cl[c].named /\ y.cookie = cl[c].cookie
          /\ y.cbl = cl[c].cbl
      <3>1. CASE v = "soft"
        BY <1>1, <3>1 DEF Structure, BlacklistHit
      <3>2. CASE v = "shun"
        BY <1>1, <3>2 DEF Structure, BlacklistHit
      <3>3. CASE v # "soft" /\ v # "shun"
        BY <1>1, <3>3 DEF BlacklistHit
      <3>4. QED
        BY <3>1, <3>2, <3>3
    <2> HIDE DEF y
    <2>4. /\ cl' \in [Client -> Structure] /\ cl'[c] = y
          /\ \A d \in Client : d # c => cl'[d] = cl[d]
      BY <1>1, <2>2, <2>3
    <2>5. cl[c].st \in {"unknown", "user"}
      BY <1>1, <1>7 DEF Linked, Counted, b
    <2>6. /\ hist' \in [Client -> History] /\ \A d \in Client : d # c => hist'[d] = hist[d]
          /\ h.orphan = hist[c].orphan /\ h.pingat = hist[c].pingat
          /\ \/ h.refused = hist[c].refused
             \/ h.refused = "soft" /\ v = "soft" /\ cl[c].st = "unknown"
             \/ h.refused = "hard" /\ v \in {"shun", "block"} /\ cl[c].st = "unknown"
      <3>1. hist \in [Client -> History] /\ hist[c] \in History
        BY <1>1 DEF Shape
      <3>2. \/ Refused(c, v) = hist[c].refused
            \/ Refused(c, v) = "soft" /\ v = "soft" /\ cl[c].st = "unknown"
            \/ Refused(c, v) = "hard" /\ v \in {"shun", "block"} /\ cl[c].st = "unknown"
        BY DEF Refused, Unknown
      <3> DEFINE g == [hist[c] EXCEPT !.refused = Refused(c, v)]
      <3>3. hist' = [hist EXCEPT ![c] = g]
        BY <1>7, <3>1
      <3>4. /\ g \in History /\ g.orphan = hist[c].orphan /\ g.pingat = hist[c].pingat
            /\ g.refused = Refused(c, v)
        BY <3>1, <3>2 DEF History
      <3> HIDE DEF g
      <3>5. QED
        BY <3>1, <3>2, <3>3, <3>4
    <2> HIDE DEF h
    <2>7. Shape'
      BY <1>1, <1>2, <1>4, <1>7, <2>1, <2>4, <2>6 DEF Shape
    <2>8. ASSUME NEW d \in Client
          PROVE  /\ Counted(cl'[d], blu'[d], asked'[d]) /\ Awaited(d, cl'[d], dnsreq)
                 /\ Treated(d, cl'[d], hist'[d], svc.to, svc.from)
      <3>1. /\ Counted(cl[d], blu[d], asked[d]) /\ Awaited(d, cl[d], dnsreq)
            /\ Treated(d, cl[d], hist[d], svc.to, svc.from)
        BY <1>1 DEF Linked, Fair
      <3>2. CASE d = c
        <4>1. Counted(y, blu'[c], asked'[c])
          BY <1>3, <1>4, <2>1, <2>3 DEF Counted
        <4>2. Awaited(c, y, dnsreq)
          BY <2>3, <3>1, <3>2 DEF Awaited
        <4>3. Stopped(c, cl[c]) => Stopped(c, y)
          BY <2>3 DEF Stopped, InProgress, SaslInProgress, HeldBack
        <4>4. /\ Waits(c, y, h, svc.from) /\ Heard(c, y, h, svc.to, svc.from)
              /\ Pinged(y, h) /\ Blank(y, h)
          BY <2>3, <2>5, <2>6, <3>1, <3>2, <4>3 DEF Treated, Waits, Heard, Pinged, Blank
        <4>5. "block" \notin BlAction \cup CblVerdict => Barred(y, h)
          BY <1>7, <2>3, <2>5, <2>6, <3>1, <3>2 DEF Treated, Barred
        <4>6. QED
          BY <2>4, <3>2, <4>1, <4>2, <4>4, <4>5 DEF Treated, h
      <3>3. CASE d # c
        BY <1>4, <2>1, <2>4, <2>6, <3>1, <3>3
      <3>4. QED
        BY <3>2, <3>3
    <2>9. Linked' /\ Fair'
      BY <1>1, <1>7, <2>8 DEF Linked, Fair
    <2>10. QED
      BY <2>7, <2>9 DEF Inv
  <1>8. CASE /\ cl' = [cl EXCEPT ![c] = Gone(cl[c])] /\ dnsreq' = Forgotten(dnsreq, c)
             /\ blu' = [blu EXCEPT ![c] = FreeBluser(Returned(b))]
             /\ hist' = [hist EXCEPT ![c].end = "blacklist"]
             /\ svc' = IF cl[c].st = "user" /\ Aborts(cl[c]) THEN Tell(<<<<c, "A">>>>) ELSE svc
    <2>1. /\ blu' \in [Client -> BLUser] /\ blu'[c] = FreeBluser(Returned(b))
          /\ \A d \in Client : d # c => blu'[d] = blu[d]
          /\ \A d \in Client : blu'[d].refcnt = asked'[d]
      BY <1>3, <1>5, <1>8
    <2>2. /\ svc' \in SvcRec /\ svc'.up = svc.up /\ svc'.from = svc.from
          /\ ~svc'.up => svc' = Services0(FALSE)
          /\ \A d : About(d, svc'.to) => About(d, svc.to) \/ d = c
      BY <1>8, QuitTold
    <2>3. hist' \in [Client -> History] /\ \A d \in Client : d # c => hist'[d] = hist[d]
      BY <1>1, <1>8, SMTT(30) DEF Shape, History
    <2>4. /\ Fair' /\ cl' \in [Client -> Structure]
          /\ cl'[c].st = "gone" /\ cl'[c].dns = FALSE
          /\ \A d \in Client : d # c => cl'[d] = cl[d]
      BY <1>8, <2>2, <2>3, GoneFair
    <2>5. dnsreq' = Forget(dnsreq, {c})
      BY <1>8 DEF Forgotten, Forget
    <2>6. /\ dnsreq \in SUBSET Request /\ (\A r \in dnsreq : r.to \in {r.who, None})
          /\ {c} \in SUBSET Client
      BY <1>1 DEF Shape
    <2>7. dnsreq' \subseteq Request /\ \A r \in dnsreq' : r.to \in {r.who, None}
      BY <2>5, <2>6, ForgetFacts
    <2>8. Shape'
      BY <1>1, <1>2, <1>4, <2>1, <2>2, <2>3, <2>4, <2>7 DEF Shape
    <2>9. ASSUME NEW d \in Client
          PROVE  Counted(cl'[d], blu'[d], asked'[d]) /\ Awaited(d, cl'[d], dnsreq')
      <3>1. Counted(cl[d], blu[d], asked[d]) /\ Awaited(d, cl[d], dnsreq)
        BY <1>1 DEF Linked
      <3>2. /\ d \notin {c} => Awaited(d, cl[d], dnsreq')
            /\ d \in {c} => \A y : y.dns = FALSE => Awaited(d, y, dnsreq')
        BY <2>5, <2>6, <3>1, ForgetAwaited
      <3>3. QED
        BY <1>3, <1>4, <2>1, <2>4, <3>1, <3>2
    <2>10. Linked'
      BY <2>9 DEF Linked
    <2>11. QED
      BY <2>4, <2>8, <2>10 DEF Inv
  <1>9. QED
    BY <1>6, <1>7, <1>8 DEF BlacklistAnswer, b

\* A verdict on a client that lives on: it is let in only if nothing was said
\* against it.
LEMMA VerdictTreated ==
    ASSUME NEW c \in Client, NEW v, NEW x \in Structure, NEW h \in History, NEW g, NEW q, NEW s, NEW t,
           Treated(c, x, h, q, s), x.st \in {"unknown", "user"},
           v = "block" => "block" \in BlAction \cup CblVerdict,
           Flows(c, CblVerdictOn(c, x, v), q, s, t, s),
           g.orphan = h.orphan, g.pingat = h.pingat,
           \/ g.refused = "hard" /\ v \in {"shun", "block"} /\ x.st = "unknown"
           \/ g.refused = "soft" /\ v = "soft" /\ ~x.login /\ x.st = "unknown"
           \/ g.refused = h.refused
    PROVE  Treated(c, CblVerdictOn(c, x, v), g, t, s)
  <1> DEFINE y == CblVerdictOn(c, x, v)
  <1>1. /\ Advances(c, x, y) /\ (y.st = "unknown" /\ Stopped(c, x) => Stopped(c, y))
        /\ v = "shun" => y.shun /\ y.st = x.st
        /\ v = "soft" /\ ~x.login => y.prompt
    BY CblVerdictFacts
  <1> HIDE DEF y
  <1>2. Treated(c, y, h, t, s)
    <2>1. Remains(c, x, y, s, s) /\ Flows(c, y, q, s, t, s)
      BY <1>1 DEF Remains, y
    <2>2. QED
      BY <1>1, <2>1, AdvancesTreated
  <1>3. y.st # "free"
    BY <1>1 DEF Advances
  <1>4. Waits(c, y, g, s) /\ Heard(c, y, g, t, s) /\ Pinged(y, g) /\ Blank(y, g)
    BY <1>2, <1>3 DEF Treated, Waits, Heard, Pinged, Blank
  <1>5. ASSUME "block" \notin BlAction \cup CblVerdict PROVE Barred(y, g)
    <2>1. Barred(y, h)
      BY <1>2, <1>5 DEF Treated
    <2>2. CASE g.refused = "hard" /\ v \in {"shun", "block"} /\ x.st = "unknown"
      BY <1>1, <1>5, <2>2 DEF Barred
    <2>3. CASE g.refused = "soft" /\ v = "soft" /\ ~x.login /\ x.st = "unknown"
      BY <1>1, <2>3 DEF Barred, Advances, HeldBack
    <2>4. CASE g.refused = h.refused
      BY <2>1, <2>4 DEF Barred
    <2>5. QED
      BY <2>2, <2>3, <2>4
  <1>6. QED
    BY <1>4, <1>5 DEF Treated, y

\* The answer of the central blocklist.
LEMMA CblAnswerKeeps ==
    ASSUME Inv, NEW t \in xfer, CblAnswer(t)
    PROVE  Inv'
  <1>1. PICK v \in [t -> CblVerdict \cup {"allow", "missing"}] :
          LET here == {c \in t : Live(c) /\ v[c] # "missing"}
              gone == {c \in here : Ends(cl[c], v[c])}
              new == [c \in Client |->
                        IF c \in gone THEN Gone(cl[c])
                        ELSE IF c \in here THEN CblVerdictOn(c, cl[c], v[c]) ELSE cl[c]]
          IN  /\ xfer' = xfer \ {t}
              /\ cl' = new
              /\ dnsreq' = {IF r.to \in gone THEN [r EXCEPT !.to = None] ELSE r : r \in dnsreq}
              /\ blu' = [c \in Client |-> IF c \in gone THEN FreeBluser(blu[c]) ELSE blu[c]]
              /\ hist' = [c \in Client |->
                    IF c \in gone THEN [hist[c] EXCEPT !.end = "blocklist"]
                    ELSE IF c \in here THEN [hist[c] EXCEPT !.refused = Refused(c, v[c])]
                    ELSE hist[c]]
              /\ TellAborted(new)
              /\ UNCHANGED <<asked, now, spent>>
    BY DEF CblAnswer
  <1> DEFINE here == {c \in t : Live(c) /\ v[c] # "missing"}
             gone == {c \in here : Ends(cl[c], v[c])}
             new == [c \in Client |->
                       IF c \in gone THEN Gone(cl[c])
                       ELSE IF c \in here THEN CblVerdictOn(c, cl[c], v[c]) ELSE cl[c]]
  <1>2. /\ xfer' = xfer \ {t} /\ cl' = new /\ dnsreq' = Forget(dnsreq, gone)
        /\ blu' = [c \in Client |-> IF c \in gone THEN FreeBluser(blu[c]) ELSE blu[c]]
        /\ hist' = [c \in Client |->
              IF c \in gone THEN [hist[c] EXCEPT !.end = "blocklist"]
              ELSE IF c \in here THEN [hist[c] EXCEPT !.refused = Refused(c, v[c])]
              ELSE hist[c]]
        /\ TellAborted(new)
        /\ UNCHANGED <<asked, now, spent>>
    BY <1>1 DEF Forget
  <1>3. /\ Shape /\ Linked /\ Fair /\ xfer \subseteq SUBSET Client
        /\ cl \in [Client -> Structure] /\ hist \in [Client -> History]
    BY DEF Inv, Shape
  <1>4. /\ here \subseteq Client /\ gone \subseteq here
        /\ \A c \in here : Live(c) /\ v[c] \in CblVerdict \cup {"allow", "missing"}
    BY <1>3
  <1>5. /\ \A c \in gone : new[c] = Gone(cl[c])
        /\ \A c \in here \ gone : new[c] = CblVerdictOn(c, cl[c], v[c])
        /\ \A c \in Client \ here : new[c] = cl[c]
    BY <1>4
  <1> HIDE DEF new, gone, here
  <1>6. ASSUME NEW c \in Client
        PROVE  /\ new[c] \in Structure
               /\ IF c \in gone THEN new[c].st = "gone" /\ new[c].dns = FALSE
                  ELSE Advances(c, cl[c], new[c])
    <2>1. cl[c] \in Structure
      BY <1>3
    <2>2. CASE c \in gone
      BY <1>4, <1>5, <2>1, <2>2, GoneTreated, ZenonT(40)
    <2>3. CASE c \in here \ gone
      <3>1. new[c] = CblVerdictOn(c, cl[c], v[c])
        BY <1>5, <2>3
      <3>2. Advances(c, cl[c], CblVerdictOn(c, cl[c], v[c]))
        BY <2>1, CblVerdictFacts
      <3>3. QED
        BY <2>3, <3>1, <3>2 DEF Advances
    <2>4. CASE c \notin here
      BY <1>4, <1>5, <2>1, <2>4 DEF Advances
    <2>5. QED
      BY <2>2, <2>3, <2>4
  <1>7. new \in [Client -> Structure]
    BY <1>6 DEF new
  <1>8. /\ svc' \in SvcRec /\ svc'.up = svc.up /\ svc'.from = svc.from
        /\ ~svc.up => svc' = Services0(FALSE)
        /\ \A d \in Client : About(d, svc'.to) =>
              About(d, svc.to) \/ (new[d].st # "free" /\ new[d].st # "unknown")
    <2>1. \A d \in Client : Advances(d, cl[d], new[d]) \/ new[d].st = "gone"
      BY <1>6
    <2>2. QED
      BY <1>2, <1>7, <2>1, TellAbortedFacts
  <1>9. ASSUME NEW c \in Client
        PROVE  hist'[c] \in History /\ Treated(c, cl'[c], hist'[c], svc'.to, svc'.from)
    <2>1. /\ cl[c] \in Structure /\ hist[c] \in History
          /\ Treated(c, cl[c], hist[c], svc.to, svc.from)
      BY <1>3 DEF Fair
    <2>2. CASE c \in gone
      <3>1. hist'[c] = [hist[c] EXCEPT !.end = "blocklist"] /\ cl'[c] = Gone(cl[c])
        BY <1>2, <1>5, <2>2
      <3>2. hist'[c] \in History
        BY <2>1, <3>1 DEF History
      <3>3. \A h, q, s : Treated(c, Gone(cl[c]), h, q, s)
        BY <2>1, GoneTreated
      <3>4. QED
        BY <3>1, <3>2, <3>3
    <2>3. CASE c \in here \ gone
      <3> DEFINE x == cl[c]
                 w == v[c]
                 g == [hist[c] EXCEPT !.refused = Refused(c, w)]
      <3>1. hist'[c] = g /\ cl'[c] = CblVerdictOn(c, x, w) /\ new[c] = cl'[c]
        BY <1>2, <1>5, <2>3
      <3>2. x.st \in {"unknown", "user"} /\ w \in CblVerdict \cup {"allow", "missing"}
        BY <1>4, <2>3 DEF Live
      <3>3. \/ Refused(c, w) = "hard" /\ w \in {"shun", "block"} /\ x.st = "unknown"
            \/ Refused(c, w) = "soft" /\ w = "soft" /\ ~x.login /\ x.st = "unknown"
            \/ Refused(c, w) = hist[c].refused
        BY DEF Refused, Unknown
      <3>4. hist[c].refused \in {"no", "soft", "hard"}
        BY <2>1 DEF History
      <3>5. /\ g \in History /\ g.refused = Refused(c, w) /\ g.orphan = hist[c].orphan
            /\ g.pingat = hist[c].pingat
        <4>1. Refused(c, w) \in {"no", "soft", "hard"}
          BY <3>3, <3>4
        <4>2. QED
          BY <2>1, <4>1 DEF History
      <3> HIDE DEF x, w, g
      <3>6. Flows(c, CblVerdictOn(c, x, w), svc.to, svc.from, svc'.to, svc.from)
        BY <1>8, <3>1 DEF Flows
      <3>7. x \in Structure /\ Treated(c, x, hist[c], svc.to, svc.from)
            /\ (w = "block" => "block" \in CblVerdict)
        BY <2>1, <3>2 DEF x
      <3>8. \/ g.refused = "hard" /\ w \in {"shun", "block"} /\ x.st = "unknown"
            \/ g.refused = "soft" /\ w = "soft" /\ ~x.login /\ x.st = "unknown"
            \/ g.refused = hist[c].refused
        BY <3>3, <3>5
      <3>9. Treated(c, CblVerdictOn(c, x, w), g, svc'.to, svc.from)
        BY <2>1, <3>2, <3>5, <3>6, <3>7, <3>8, VerdictTreated
      <3>10. QED
        BY <1>8, <3>1, <3>5, <3>9
    <2>4. CASE c \notin here
      <3>1. hist'[c] = hist[c] /\ cl'[c] = cl[c] /\ new[c] = cl[c]
        BY <1>2, <1>4, <1>5, <2>4
      <3>2. QED
        BY <1>8, <2>1, <3>1 DEF Treated, Waits, Heard
    <2>5. QED
      BY <2>2, <2>3, <2>4
  <1>10. /\ Linked' /\ dnsreq' \subseteq Request /\ \A r \in dnsreq' : r.to \in {r.who, None}
         /\ \A d \in Client : blu'[d] \in BLUser /\ blu'[d].refcnt = asked'[d]
    <2>1. /\ gone \in SUBSET Client
          /\ \A d \in gone : Live(d) /\ cl'[d].st = "gone" /\ cl'[d].dns = FALSE
          /\ \A d \in gone : blu'[d] = FreeBluser(blu[d])
      BY <1>2, <1>4, <1>6
    <2>2. \A d \in Client \ gone : Steady(cl[d], cl'[d]) /\ blu'[d] = blu[d]
      BY <1>2, <1>6 DEF Steady, Advances
    <2>3. QED
      BY <1>2, <1>3, <2>1, <2>2, ExitLinked
  <1>11. hist' \in [Client -> History]
    BY <1>2, <1>9
  <1>12. blu' \in [Client -> BLUser]
    BY <1>2, <1>10
  <1>13. Shape'
    BY <1>2, <1>3, <1>7, <1>8, <1>10, <1>11, <1>12 DEF Shape
  <1>14. Fair'
    BY <1>3, <1>8, <1>9 DEF Fair
  <1>15. QED
    BY <1>10, <1>13, <1>14 DEF Inv

-----------------------------------------------------------------------------
(* The theorems *)

\* Every step keeps the invariant.
LEMMA StepKeeps ==
    ASSUME Inv, [Next]_vars
    PROVE  Inv'
  BY ConnectKeeps, LookupsEndKeeps, BlacklistAnswerKeeps, RecheckKeeps, CommandsKeep,
     ClientDataKeeps, EndsKeep, SaslTimeoutKeeps, DnsAnswerKeeps, CblAnswerKeeps,
     CblErrorKeeps, ServicesKeep, RecvServicesKeeps, ServicesSplitKeeps, ServicesBackKeeps,
     CblBundleKeeps, TickKeeps DEF Next

\* Nobody is connected at first.
LEMMA InitInv == Init => Inv
  <1> SUFFICES ASSUME Init PROVE Inv
    OBVIOUS
  <1> DEFINE b == [alloc |-> FALSE, client |-> FALSE, refcnt |-> 0]
             h == [refused |-> "no", orphan |-> FALSE, pingat |-> 0, end |-> "no"]
  <1>1. /\ cl = [c \in Client |-> Fresh] /\ dnsreq = {} /\ blu = [c \in Client |-> b]
        /\ asked = [c \in Client |-> 0] /\ xfer = {} /\ svc = Services0(TRUE) /\ now = 1
        /\ spent = [e \in {"auth", "rare"} |-> 0] /\ hist = [c \in Client |-> h]
    BY DEF Init
  <1>2. b \in BLUser /\ b.refcnt = 0 /\ b.alloc = FALSE /\ b.client = FALSE
    BY DEF BLUser
  <1>3. h \in History /\ h.refused = "no"
    BY DEF History
  <1> HIDE DEF b, h
  <1>4. Shape
    <2>1. cl \in [Client -> Structure] /\ hist \in [Client -> History]
      BY <1>1, <1>3, FreshFacts
    <2>2. /\ blu \in [Client -> BLUser] /\ asked \in [Client -> Nat]
          /\ \A c \in Client : blu[c].refcnt = asked[c]
      BY <1>1, <1>2
    <2>3. svc \in SvcRec /\ svc.up = TRUE
      BY <1>1, Services0Facts
    <2>4. /\ now \in Nat /\ now > 0 /\ spent \in [{"auth", "rare"} -> Nat]
          /\ dnsreq \subseteq Request /\ xfer \subseteq SUBSET Client
          /\ \A r \in dnsreq : r.to \in {r.who, None}
      BY <1>1
    <2>5. QED
      BY <2>1, <2>2, <2>3, <2>4 DEF Shape
  <1>5. Linked
    <2>1. Counted(Fresh, b, 0)
      BY <1>2, FreshFacts DEF Counted
    <2>2. \A c \in Client : Awaited(c, Fresh, {})
      BY FreshFacts DEF Awaited
    <2>3. QED
      BY <1>1, <2>1, <2>2 DEF Linked
  <1>6. ASSUME NEW c \in Client PROVE Treated(c, Fresh, h, <<>>, <<>>)
    BY <1>3, FreshFacts, Services0Facts DEF Treated, Waits, Heard, Pinged, Blank, Barred
  <1>7. Fair
    BY <1>1, <1>6, Services0Facts DEF Fair
  <1>8. QED
    BY <1>4, <1>5, <1>7 DEF Inv

\* Inv is an invariant of the handshake.
LEMMA Invariance == Spec => []Inv
  <1>1. Inv /\ [Next]_vars => Inv'
    BY StepKeeps
  <1>2. QED
    BY <1>1, InitInv, PTL DEF Spec

\* Types of the client structures and of what the lookups hold; a BLUser has as
\* many references as blacklist queries are under way (blacklist.c).
THEOREM TypeCorrect == Spec => []TypeOK
  <1>1. Inv => TypeOK
    <2> SUFFICES ASSUME Inv PROVE TypeOK
      OBVIOUS
    <2>1. Shape
      BY DEF Inv
    <2>2. \A c \in Client : /\ cl[c] \in Structure
                            /\ blu[c].alloc \in BOOLEAN /\ blu[c].client \in BOOLEAN
                            /\ blu[c].refcnt = asked[c]
      BY <2>1 DEF Shape, BLUser
    <2>3. \A r \in dnsreq : r.to \in {r.who, None} /\ r.stage \in 1..2
      BY <2>1 DEF Shape, Request
    <2>4. xfer \subseteq SUBSET Client /\ svc.up \in BOOLEAN /\ (~svc.up => svc = Services0(FALSE))
      BY <2>1 DEF Shape, SvcRec
    <2>5. QED
      BY <2>2, <2>3, <2>4 DEF TypeOK
  <1>2. QED
    BY <1>1, Invariance, PTL

\* What a resolver holds is not freed under it and nothing leaks, however
\* exits, proxies, rechecks and late answers interleave (dns.c, blacklist.c).
THEOREM NothingDangles == Spec => []NoDangling
  <1>1. Inv => NoDangling
    <2> SUFFICES ASSUME Inv PROVE NoDangling
      OBVIOUS
    <2>1. /\ \A c \in Client : Counted(cl[c], blu[c], asked[c]) /\ Awaited(c, cl[c], dnsreq)
          /\ \A r \in dnsreq : r.to # None => r.to \in Client
      BY DEF Inv, Linked, Shape, Request
    <2>2. QED
      BY <2>1 DEF NoDangling, Counted, Awaited, Live
  <1>2. QED
    BY <1>1, Invariance, PTL

\* Whatever completes the handshake last also registers the client: one that
\* misses nothing waits for the blocklist, for services or at the prompt, or an
\* attempt of its own was ended by sasl_timeout or by a split of services.
THEOREM NobodyForgotten == Spec => []NoneForgotten
  <1>1. Inv => NoneForgotten
    <2> SUFFICES ASSUME Inv, NEW c \in Client, Unknown(c), ~InProgress(cl[c])
                 PROVE  \/ cl[c].cbl \in {"pending", "sent"}
                        \/ cl[c].shun \/ HeldBack(c, cl[c])
                        \/ \E i \in DOMAIN svc.from : svc.from[i] = <<c, "S">>
                        \/ hist[c].orphan
      BY DEF NoneForgotten
    <2>1. Waits(c, cl[c], hist[c], svc.from)
      BY DEF Inv, Fair, Treated
    <2>2. QED
      BY <2>1 DEF Waits, Stopped, Has, Unknown
  <1>2. QED
    BY <1>1, Invariance, PTL

\* Who was refused before it was let in stays out, and who was refused softly
\* comes in only with a login, as long as the central blocklist has no action
\* that neither ends nor shuns the client (take_action, central-blocklist.c).
THEOREM RefusalsHold ==
    ASSUME "block" \notin BlAction \cup CblVerdict
    PROVE  Spec => []RefusedStaysOut
  <1>1. Inv => RefusedStaysOut
    <2> SUFFICES ASSUME Inv, NEW c \in Client, cl[c].st = "user"
                 PROVE  hist[c].refused # "hard" /\ (hist[c].refused = "soft" => cl[c].login)
      BY DEF RefusedStaysOut
    <2>1. Barred(cl[c], hist[c])
      BY DEF Inv, Fair, Treated
    <2>2. QED
      BY <2>1 DEF Barred
  <1>2. QED
    BY <1>1, Invariance, PTL

\* Only a PING that got no answer ends a client as one.
LEMMA PingEnds ==
    ASSUME Inv, Next, NEW c \in Client, hist'[c].end = "ping", hist[c].end # "ping"
    PROVE  cl[c].pinged /\ now - cl[c].last >= 2 * PingFreq
  <1>1. hist \in [Client -> History] /\ \A d \in Client : hist[d] \in History
    BY DEF Inv, Shape
  <1>2. ASSUME NEW d \in Client, NEW why, ExitAll({d}, why)
        PROVE  d = c /\ why = "ping"
    <2>1. hist' = [e \in Client |-> IF e \in {d} THEN [hist[e] EXCEPT !.end = why] ELSE hist[e]]
      BY <1>2 DEF ExitAll
    <2>2. d = c
      BY <2>1
    <2>3. hist'[c] = [hist[c] EXCEPT !.end = why]
      BY <2>1, <2>2
    <2>4. QED
      BY <1>1, <2>2, <2>3 DEF History
  <1>3. ASSUME NEW d \in Client, CheckPing(d)
        PROVE  cl[c].pinged /\ now - cl[c].last >= 2 * PingFreq
    <2>1. CASE Exit(d, "ping") /\ cl[d].pinged /\ now - cl[d].last >= 2 * PingFreq
      BY <1>2, <2>1 DEF Exit
    <2>2. CASE hist' = [hist EXCEPT ![d].pingat = now]
      BY <1>1, <2>2 DEF History
    <2>3. QED
      BY <1>3, <2>1, <2>2 DEF CheckPing
  <1>4. ASSUME NEW d \in Client, Quit(d) \/ HandshakeTimeoutEvt(d)
        PROVE  FALSE
    BY <1>2, <1>4 DEF Quit, HandshakeTimeoutEvt, Exit
  <1>5. ASSUME NEW d \in Client, BlacklistAnswer(d) \/ CheckSaslTimeout(d)
        PROVE  FALSE
    <2>1. \/ hist' = hist
          \/ \E v \in BlAction : hist' = [hist EXCEPT ![d].refused = Refused(d, v)]
          \/ hist' = [hist EXCEPT ![d].end = "blacklist"]
          \/ hist' = [hist EXCEPT ![d].orphan = TRUE]
      BY <1>5 DEF BlacklistAnswer, CheckSaslTimeout
    <2>2. QED
      BY <1>1, <2>1 DEF History
  <1>6. ASSUME ServicesSplit PROVE FALSE
    <2>1. hist'[c] = [hist[c] EXCEPT !.orphan = @ \/ (Live(c) /\ cl[c].out)]
      BY <1>6 DEF ServicesSplit
    <2>2. QED
      BY <1>1, <2>1 DEF History
  <1>7. ASSUME NEW t \in xfer, CblAnswer(t) PROVE FALSE
    <2>1. PICK v \in [t -> CblVerdict \cup {"allow", "missing"}] :
             \/ hist'[c] = [hist[c] EXCEPT !.end = "blocklist"]
             \/ hist'[c] = [hist[c] EXCEPT !.refused = Refused(c, v[c])]
             \/ hist'[c] = hist[c]
      BY <1>7 DEF CblAnswer
    <2>2. QED
      BY <1>1, <2>1 DEF History
  <1>8. CASE hist' = hist
    BY <1>8
  <1>9. ASSUME NEW d \in Client, \/ Accept(d) \/ ProxyIp(d) \/ IdentAnswer(d)
                                 \/ CheckIdentTimeout(d) \/ BlacklistRecheck(d) \/ Cap(d)
                                 \/ Authenticate(d) \/ Auth(d) \/ UserData(d) \/ CblTimeoutEvt(d)
        PROVE  hist' = hist
    BY <1>9 DEF Accept, ProxyIp, IdentAnswer, CheckIdentTimeout, BlacklistRecheck, Cap,
                Authenticate, Auth, UserData, CblTimeoutEvt
  <1>10. ASSUME NEW d \in Client, Nick(d) \/ User(d) \/ Pong(d) \/ CapEnd(d)
         PROVE  hist' = hist
    BY <1>10 DEF Nick, User, Pong, CapEnd, Command
  <1>11. ASSUME \/ \E r \in dnsreq : DnsAnswer(r)
                \/ \E t \in xfer : CblError(t)
                \/ Services \/ RecvServices \/ ServicesBack \/ CblBundle \/ Tick
         PROVE  hist' = hist
    BY <1>11 DEF DnsAnswer, CblError, Services, RecvServices, ServicesBack, CblBundle, Tick
  <1>12. QED
    BY <1>3, <1>4, <1>5, <1>6, <1>7, <1>8, <1>9, <1>10, <1>11 DEF Next

\* A user who is pinged has a full pingfreq to answer, however late the PING was
\* (check_ping).
THEOREM PingsGrace == Spec => PingGrace
  <1>1. ASSUME Inv, [Next]_vars
        PROVE  [\A c \in Client : (hist'[c].end = "ping" /\ hist[c].end # "ping") =>
                   now - hist[c].pingat >= PingFreq]_vars
    <2> SUFFICES ASSUME Next, NEW c \in Client, hist'[c].end = "ping", hist[c].end # "ping"
                 PROVE  now - hist[c].pingat >= PingFreq
      BY <1>1
    <2>1. hist \in [Client -> History] /\ hist[c] \in History
      BY <1>1 DEF Inv, Shape
    <2>2. cl[c].pinged /\ now - cl[c].last >= 2 * PingFreq
      BY <1>1, PingEnds
    <2>3. cl[c].last = hist[c].pingat - PingFreq
      BY <1>1, <2>2 DEF Inv, Fair, Treated, Pinged
    <2>4. /\ now \in Int /\ PingFreq \in Int /\ hist[c].pingat \in Int
      BY <1>1, <2>1, HandshakeAssumption DEF Inv, Shape, History
    <2>5. \A n, p, f \in Int : n - (p - f) >= 2 * f => n - p >= f
      OBVIOUS
    <2>6. QED
      BY <2>2, <2>3, <2>4, <2>5
  <1>2. QED
    BY <1>1, Invariance, PTL DEF Spec, PingGrace
=============================================================================
