----------------------------- MODULE PairProofs -----------------------------
(***************************************************************************)
(* Proofs about Network for two servers, and every set of users, nicks and *)
(* timestamps and every bound: UIDs are unique, and two linked servers     *)
(* with nothing in flight between them have no ghosts and, without         *)
(* operators, the same users (UIDUnique, NoGhosts, LinkAgreement).         *)
(*                                                                         *)
(* What a server has of a user of the other runs behind what that server   *)
(* has: the messages in flight, read in order, lead to a client that the   *)
(* other has too, or a KILL of it is on its way back (Agree).  A UID that  *)
(* is in flight finds nobody (Fresh), as a user is introduced once per     *)
(* link, in the burst or when it registers; so before that nobody has      *)
(* heard of it (Untouched).                                                *)
(***************************************************************************)
EXTENDS NetworkProofs

\* There are two servers.
TwoServers == \E x, y \in Server : x # y /\ Server = {x, y}

\* Message m changes user u, and m has to do with u
Speaks(m, u) == m.type \in {"UID", "NICK", "QUIT", "KILL"} /\ m.uid = u
Mentions(m, u) == Speaks(m, u) \/ (m.type = "KILL" /\ m.src = u)

Introduces(m, u) == m.type = "UID" /\ m.uid = u
Kills(m, u) == m.type = "KILL" /\ m.uid = u

New(q, u) == \E i \in 1..Len(q) : Introduces(q[i], u)
Doomed(q, u) == \E i \in 1..Len(q) : Kills(q[i], u)
Mentioned(q, u) == \E i \in 1..Len(q) : Mentions(q[i], u)

\* The client that UID and NICK make
Client(m) == [uid |-> m.uid, nick |-> m.nick, ts |-> m.ts, reg |-> TRUE]

\* Message m turns what its reader has under u from v into w: cmd_uid meets
\* nobody, and a NICK is a real change
Turn(m, u, v, w) ==
    IF ~Speaks(m, u) THEN w = v
    ELSE IF m.type = "UID" THEN v = {} /\ w = {Client(m)}
    ELSE IF m.type = "NICK" /\ v # {} THEN (\A r \in v : r.nick # m.nick) /\ w = {Client(m)}
    ELSE w = {}

\* The messages q, read in order, lead from v to w
Leads(q, u, v, w) ==
    \E h \in [0..Len(q) -> SUBSET UserRec] :
        /\ h[0] = v /\ h[Len(q)] = w
        /\ \A i \in 1..Len(q) : Turn(q[i], u, h[i - 1], h[i])

(***************************************************************************)
(* What is true of user u, of the server that writes q and reads p: the    *)
(* reader of q has v under u.  A UID comes before all that has to do with  *)
(* its user, finds nobody, and is not answered by a KILL while it is in    *)
(* flight.                                                                 *)
(***************************************************************************)
Fresh(q, p, u, v) ==
    /\ \A j \in 1..Len(q) : Introduces(q[j], u) => \A i \in 1..(j - 1) : ~Mentions(q[i], u)
    /\ New(q, u) => v = {} /\ ~Doomed(p, u)
    /\ Doomed(p, u) => v = {}

\* The reader knows nothing of u yet
Untouched(q, p, u, v) == v = {} /\ ~Mentioned(q, u) /\ ~Doomed(p, u)

\* The messages lead the reader to a client that the writer, which has G under
\* u, has too; without operators to all of G, or a KILL is on its way
Agree(q, p, u, v, G) ==
    \E w \in SUBSET UserRec :
        /\ Leads(q, u, v, w) /\ w \subseteq G
        /\ MaxOper = 0 => Doomed(p, u) \/ G \subseteq w

-----------------------------------------------------------------------------
(* Streams that are read and written *)

\* What is in the tail of a stream is in the stream.
LEMMA TailMessages ==
    ASSUME NEW q \in Seq(Msg), q # <<>>, NEW u
    PROVE  /\ Tail(q) \in Seq(Msg) /\ Len(Tail(q)) = Len(q) - 1
           /\ \A i \in 1..Len(Tail(q)) : i + 1 \in 1..Len(q) /\ Tail(q)[i] = q[i + 1]
           /\ New(Tail(q), u) => New(q, u)
           /\ Doomed(Tail(q), u) => Doomed(q, u)
           /\ Mentioned(Tail(q), u) => Mentioned(q, u)
           /\ Doomed(q, u) => Kills(Head(q), u) \/ Doomed(Tail(q), u)
  <1>1. /\ Tail(q) \in Seq(Msg) /\ Len(Tail(q)) = Len(q) - 1 /\ Len(q) \in Nat /\ Len(q) # 0
        /\ \A i \in 1..Len(Tail(q)) : i + 1 \in 1..Len(q) /\ Tail(q)[i] = q[i + 1]
        /\ Head(q) = q[1]
    OBVIOUS
  <1>2. \A i \in 1..Len(q) : i = 1 \/ (i - 1 \in 1..Len(Tail(q)) /\ Tail(q)[i - 1] = q[i])
    BY <1>1
  <1>3. Doomed(q, u) => Kills(Head(q), u) \/ Doomed(Tail(q), u)
    BY <1>1, <1>2 DEF Doomed
  <1>4. /\ New(Tail(q), u) => New(q, u)
        /\ Doomed(Tail(q), u) => Doomed(q, u)
        /\ Mentioned(Tail(q), u) => Mentioned(q, u)
    BY <1>1 DEF New, Doomed, Mentioned
  <1>. QED
    BY <1>1, <1>3, <1>4

\* What is in two streams put together
LEMMA ConcatMessages ==
    ASSUME NEW q \in Seq(Msg), NEW o \in Seq(Msg), NEW u
    PROVE  /\ q \o o \in Seq(Msg) /\ Len(q \o o) = Len(q) + Len(o)
           /\ \A i \in 1..Len(q \o o) :
                 (q \o o)[i] = IF i <= Len(q) THEN q[i] ELSE o[i - Len(q)]
           /\ New(q \o o, u) <=> New(q, u) \/ New(o, u)
           /\ Doomed(q \o o, u) <=> Doomed(q, u) \/ Doomed(o, u)
           /\ Mentioned(q \o o, u) <=> Mentioned(q, u) \/ Mentioned(o, u)
  <1>. DEFINE r == q \o o
  <1>1. /\ r \in Seq(Msg) /\ Len(r) = Len(q) + Len(o)
        /\ \A i \in 1..Len(r) : r[i] = IF i <= Len(q) THEN q[i] ELSE o[i - Len(q)]
        /\ Len(q) \in Nat /\ Len(o) \in Nat
    OBVIOUS
  <1>2. /\ \A i \in 1..Len(q) : i \in 1..Len(r) /\ r[i] = q[i]
        /\ \A i \in 1..Len(o) : i + Len(q) \in 1..Len(r) /\ r[i + Len(q)] = o[i]
        /\ \A i \in 1..Len(r) :
              \/ i \in 1..Len(q) /\ r[i] = q[i]
              \/ i - Len(q) \in 1..Len(o) /\ r[i] = o[i - Len(q)]
    BY <1>1
  <1>. HIDE DEF r
  <1>3. New(r, u) <=> New(q, u) \/ New(o, u)
    BY <1>1, <1>2 DEF New
  <1>4. Doomed(r, u) <=> Doomed(q, u) \/ Doomed(o, u)
    BY <1>1, <1>2 DEF Doomed
  <1>5. Mentioned(r, u) <=> Mentioned(q, u) \/ Mentioned(o, u)
    BY <1>1, <1>2 DEF Mentioned
  <1>. QED
    BY <1>1, <1>3, <1>4, <1>5 DEF r

\* What is introduced, killed or changed is mentioned.
LEMMA MentionKinds ==
    ASSUME NEW u
    PROVE  /\ \A m : Introduces(m, u) => Speaks(m, u)
           /\ \A m : Kills(m, u) => Speaks(m, u)
           /\ \A m : Speaks(m, u) => Mentions(m, u)
           /\ \A q : New(q, u) => Mentioned(q, u)
           /\ \A q : Doomed(q, u) => Mentioned(q, u)
  <1>1. /\ \A m : Introduces(m, u) => Speaks(m, u)
        /\ \A m : Kills(m, u) => Speaks(m, u)
        /\ \A m : Speaks(m, u) => Mentions(m, u)
    BY DEF Introduces, Kills, Speaks, Mentions
  <1>. QED
    BY <1>1 DEF New, Doomed, Mentioned

\* Reading takes the first step of the way.
LEMMA LeadsTail ==
    ASSUME NEW q \in Seq(Msg), q # <<>>, NEW u, NEW v, NEW w, NEW x, Leads(q, u, v, w),
           Turn(Head(q), u, v, x)
    PROVE  Leads(Tail(q), u, x, w)
  <1>1. PICK h \in [0..Len(q) -> SUBSET UserRec] :
           /\ h[0] = v /\ h[Len(q)] = w
           /\ \A i \in 1..Len(q) : Turn(q[i], u, h[i - 1], h[i])
    BY DEF Leads
  <1>2. /\ Tail(q) \in Seq(Msg) /\ Len(Tail(q)) = Len(q) - 1 /\ Len(q) \in Nat /\ Len(q) # 0
        /\ \A i \in 1..Len(Tail(q)) : i + 1 \in 1..Len(q) /\ Tail(q)[i] = q[i + 1]
        /\ Head(q) = q[1]
    OBVIOUS
  <1>. DEFINE k == [i \in 0..Len(Tail(q)) |-> h[i + 1]]
  <1>3. h[1] = x
    <2>1. Turn(q[1], u, h[0], h[1])
      BY <1>1, <1>2
    <2>. QED
      BY <1>1, <1>2, <2>1 DEF Turn
  <1>4. k \in [0..Len(Tail(q)) -> SUBSET UserRec]
    BY <1>1, <1>2
  <1>5. k[0] = x /\ k[Len(Tail(q))] = w
    BY <1>1, <1>2, <1>3
  <1>6. \A i \in 1..Len(Tail(q)) : Turn(Tail(q)[i], u, k[i - 1], k[i])
    <2>1. SUFFICES ASSUME NEW i \in 1..Len(Tail(q)) PROVE Turn(Tail(q)[i], u, k[i - 1], k[i])
      OBVIOUS
    <2>2. Tail(q)[i] = q[i + 1] /\ k[i - 1] = h[i] /\ k[i] = h[i + 1] /\ i + 1 \in 1..Len(q)
      BY <1>2
    <2>3. Turn(q[i + 1], u, h[(i + 1) - 1], h[i + 1])
      BY <1>1, <2>2
    <2>4. (i + 1) - 1 = i
      OBVIOUS
    <2>. QED
      BY <2>2, <2>3, <2>4
  <1>. QED
    BY <1>4, <1>5, <1>6 DEF Leads

\* Sending adds at its end.
LEMMA LeadsConcat ==
    ASSUME NEW q \in Seq(Msg), NEW o \in Seq(Msg), NEW u, NEW v, NEW w, NEW x,
           Leads(q, u, v, w), Leads(o, u, w, x)
    PROVE  Leads(q \o o, u, v, x)
  <1>. DEFINE r == q \o o
  <1>1. PICK h \in [0..Len(q) -> SUBSET UserRec] :
           /\ h[0] = v /\ h[Len(q)] = w
           /\ \A i \in 1..Len(q) : Turn(q[i], u, h[i - 1], h[i])
    BY DEF Leads
  <1>2. PICK k \in [0..Len(o) -> SUBSET UserRec] :
           /\ k[0] = w /\ k[Len(o)] = x
           /\ \A i \in 1..Len(o) : Turn(o[i], u, k[i - 1], k[i])
    BY DEF Leads
  <1>3. /\ r \in Seq(Msg) /\ Len(r) = Len(q) + Len(o)
        /\ \A i \in 1..Len(r) : r[i] = IF i <= Len(q) THEN q[i] ELSE o[i - Len(q)]
        /\ Len(q) \in Nat /\ Len(o) \in Nat
    OBVIOUS
  <1>. HIDE DEF r
  <1>. DEFINE f == [i \in 0..Len(r) |-> IF i <= Len(q) THEN h[i] ELSE k[i - Len(q)]]
  <1>4. f \in [0..Len(r) -> SUBSET UserRec]
    <2>1. ASSUME NEW i \in 0..Len(r) PROVE f[i] \in SUBSET UserRec
      <3>1. CASE i <= Len(q)
        BY <1>3, <3>1
      <3>2. CASE ~(i <= Len(q))
        <4>1. i - Len(q) \in 0..Len(o)
          BY <1>3, <3>2
        <4>. QED
          BY <3>2, <4>1
      <3>. QED
        BY <3>1, <3>2
    <2>. QED
      BY <2>1
  <1>5. f[0] = v /\ f[Len(r)] = x
    BY <1>1, <1>2, <1>3
  <1>6. ASSUME NEW i \in 1..Len(r) PROVE Turn(r[i], u, f[i - 1], f[i])
    <2>1. CASE i <= Len(q)
      <3>1. i \in 1..Len(q) /\ f[i - 1] = h[i - 1] /\ f[i] = h[i] /\ r[i] = q[i]
        BY <1>3, <2>1
      <3>. QED
        BY <1>1, <3>1
    <2>2. CASE ~(i <= Len(q))
      <3>. DEFINE j == i - Len(q)
      <3>1. j \in 1..Len(o) /\ f[i] = k[j] /\ r[i] = o[j]
        BY <1>3, <2>2
      <3>2. f[i - 1] = k[j - 1]
        <4>1. CASE i - 1 = Len(q)
          <5>1. f[i - 1] = h[Len(q)] /\ j - 1 = 0
            BY <1>3, <4>1
          <5>. QED
            BY <1>1, <1>2, <5>1
        <4>2. CASE i - 1 # Len(q)
          <5>1. ~(i - 1 <= Len(q)) /\ (i - 1) - Len(q) = j - 1 /\ i - 1 \in 0..Len(r)
            BY <1>3, <2>2, <4>2
          <5>. QED
            BY <5>1
        <4>. QED
          BY <4>1, <4>2
      <3>. QED
        BY <1>2, <3>1, <3>2
    <2>. QED
      BY <2>1, <2>2
  <1>7. Leads(r, u, v, x)
    BY <1>4, <1>5, <1>6 DEF Leads
  <1>. QED
    BY <1>7 DEF r

\* Whoever is not there stays away until a UID.
LEMMA LeadsNowhere ==
    ASSUME NEW q \in Seq(Msg), NEW u, ~New(q, u)
    PROVE  Leads(q, u, {}, {})
  <1>. DEFINE h == [i \in 0..Len(q) |-> {}]
  <1>1. h \in [0..Len(q) -> SUBSET UserRec] /\ h[0] = {} /\ h[Len(q)] = {} /\ Len(q) \in Nat
    BY LenProperties
  <1>2. \A i \in 1..Len(q) : Turn(q[i], u, {}, {})
    BY DEF Turn, New, Introduces, Speaks
  <1>3. \A i \in 1..Len(q) : h[i - 1] = {} /\ h[i] = {}
    BY <1>1
  <1>. QED
    BY <1>1, <1>2, <1>3 DEF Leads

\* What does not speak of u changes nothing.
LEMMA LeadsIdle ==
    ASSUME NEW o \in Seq(Msg), NEW u, NEW w \in SUBSET UserRec, \A i \in 1..Len(o) : ~Speaks(o[i], u)
    PROVE  Leads(o, u, w, w)
  <1>. DEFINE h == [i \in 0..Len(o) |-> w]
  <1>1. h \in [0..Len(o) -> SUBSET UserRec] /\ h[0] = w /\ h[Len(o)] = w /\ Len(o) \in Nat
    BY LenProperties
  <1>2. \A i \in 1..Len(o) : Turn(o[i], u, w, w)
    BY DEF Turn
  <1>3. \A i \in 1..Len(o) : h[i - 1] = w /\ h[i] = w
    BY <1>1
  <1>. QED
    BY <1>1, <1>2, <1>3 DEF Leads

\* A QUIT or KILL of u removes it.
LEMMA LeadsAway ==
    ASSUME NEW o \in Seq(Msg), NEW u, NEW w \in SUBSET UserRec,
           \A i \in 1..Len(o) : Speaks(o[i], u) => o[i].type \in {"QUIT", "KILL"},
           \E i \in 1..Len(o) : Speaks(o[i], u)
    PROVE  Leads(o, u, w, {})
  <1>. DEFINE Gone(i) == \E k \in 1..i : Speaks(o[k], u)
              h == [i \in 0..Len(o) |-> IF Gone(i) THEN {} ELSE w]
  <1>1. Len(o) \in Nat
    OBVIOUS
  <1>2. ~Gone(0) /\ Gone(Len(o))
    BY <1>1
  <1>3. h \in [0..Len(o) -> SUBSET UserRec] /\ h[0] = w /\ h[Len(o)] = {}
    BY <1>1, <1>2
  <1>4. ASSUME NEW i \in 1..Len(o) PROVE Turn(o[i], u, h[i - 1], h[i])
    <2>1. i - 1 \in 0..Len(o) /\ i \in 0..Len(o)
      BY <1>1
    <2>2. CASE Speaks(o[i], u)
      <3>0. i \in 1..i
        BY <1>1
      <3>1. Gone(i)
        BY <2>2, <3>0
      <3>2. h[i] = {}
        BY <2>1, <3>1
      <3>3. o[i].type \in {"QUIT", "KILL"}
        BY <2>2
      <3>. QED
        BY <2>2, <3>2, <3>3 DEF Turn
    <2>3. CASE ~Speaks(o[i], u)
      <3>1. Gone(i) <=> Gone(i - 1)
        <4>1. \A k \in 1..i : k = i \/ k \in 1..(i - 1)
          OBVIOUS
        <4>2. \A k \in 1..(i - 1) : k \in 1..i
          OBVIOUS
        <4>. QED
          BY <2>3, <4>1, <4>2
      <3>. HIDE DEF Gone
      <3>. QED
        BY <2>1, <2>3, <3>1 DEF Turn
    <2>. QED
      BY <2>2, <2>3
  <1>. HIDE DEF h
  <1>. QED
    BY <1>3, <1>4 DEF Leads

\* One message
LEMMA LeadsOne ==
    ASSUME NEW m \in Msg, NEW u, NEW w \in SUBSET UserRec, NEW x \in SUBSET UserRec, Turn(m, u, w, x)
    PROVE  Leads(<<m>>, u, w, x)
  <1>. DEFINE h == [i \in 0..1 |-> IF i = 0 THEN w ELSE x]
  <1>1. h \in [0..1 -> SUBSET UserRec] /\ h[0] = w /\ h[1] = x /\ Len(<<m>>) = 1 /\ <<m>>[1] = m
    OBVIOUS
  <1>2. \A i \in 1..1 : i = 1 /\ i - 1 = 0
    OBVIOUS
  <1>. HIDE DEF h
  <1>. QED
    BY <1>1, <1>2 DEF Leads

-----------------------------------------------------------------------------
(* What a step does to one user, at the reader and at the writer *)

\* The reader takes a message as it is meant, or does nothing.
Takes(m, u, v, w) ==
    /\ ~Speaks(m, u) => w = v
    /\ ~Introduces(m, u) /\ v = {} => w = {}

\* A message that is taken as it is meant is taken.
LEMMA TurnTakes ==
    ASSUME NEW m, NEW u, NEW v, NEW w, Turn(m, u, v, w)
    PROVE  Takes(m, u, v, w)
  BY DEF Turn, Takes, Introduces, Speaks

\* Reading a message keeps a user fresh.
LEMMA ReadFresh ==
    ASSUME NEW q \in Seq(Msg), q # <<>>, NEW p \in Seq(Msg), NEW o \in Seq(Msg), NEW p1,
           p1 = p \/ p1 = p \o o, NEW u, NEW v, NEW w,
           Fresh(q, p, u, v), Takes(Head(q), u, v, w), ~Doomed(o, u)
    PROVE  /\ Fresh(Tail(q), p1, u, w)
           /\ Untouched(q, p, u, v) => Untouched(Tail(q), p1, u, w)
  <1>1. /\ Len(Tail(q)) = Len(q) - 1 /\ Len(q) \in Nat /\ Len(q) # 0 /\ Head(q) = q[1]
        /\ \A i \in 1..Len(Tail(q)) : i + 1 \in 1..Len(q) /\ Tail(q)[i] = q[i + 1]
    OBVIOUS
  <1>2. Doomed(p1, u) <=> Doomed(p, u)
    <2>1. CASE p1 = p
      BY <2>1
    <2>2. CASE p1 = p \o o
      BY <2>2, ConcatMessages
    <2>. QED
      BY <2>1, <2>2
  <1>3. \A j \in 1..Len(q) : Introduces(q[j], u) => \A i \in 1..(j - 1) : ~Mentions(q[i], u)
    BY DEF Fresh
  <1>4. ASSUME NEW j \in 1..Len(Tail(q)), Introduces(Tail(q)[j], u)
        PROVE  ~Mentions(Head(q), u) /\ \A i \in 1..(j - 1) : ~Mentions(Tail(q)[i], u)
    <2>1. j + 1 \in 1..Len(q) /\ Introduces(q[j + 1], u)
      BY <1>1, <1>4
    <2>2. \A i \in 1..((j + 1) - 1) : ~Mentions(q[i], u)
      BY <1>3, <2>1
    <2>3. 1 \in 1..((j + 1) - 1) /\ \A i \in 1..(j - 1) : i + 1 \in 1..((j + 1) - 1) /\ Tail(q)[i] = q[i + 1]
      BY <1>1
    <2>. QED
      BY <1>1, <2>2, <2>3
  <1>5. New(Tail(q), u) => w = {} /\ ~Doomed(p1, u)
    <2>1. SUFFICES ASSUME New(Tail(q), u) PROVE w = {} /\ ~Doomed(p1, u)
      OBVIOUS
    <2>2. ~Mentions(Head(q), u)
      BY <1>4, <2>1 DEF New
    <2>3. New(q, u)
      BY <2>1, TailMessages
    <2>. QED
      BY <1>2, <2>2, <2>3, MentionKinds DEF Fresh, Takes
  <1>6. Doomed(p1, u) => w = {}
    <2>1. SUFFICES ASSUME Doomed(p1, u) PROVE w = {}
      OBVIOUS
    <2>2. v = {} /\ ~New(q, u)
      BY <1>2, <2>1 DEF Fresh
    <2>3. ~Introduces(Head(q), u)
      BY <1>1, <2>2 DEF New
    <2>. QED
      BY <2>2, <2>3 DEF Takes
  <1>7. Untouched(q, p, u, v) => Untouched(Tail(q), p1, u, w)
    <2>1. Mentioned(Tail(q), u) => Mentioned(q, u)
      BY TailMessages
    <2>2. Introduces(Head(q), u) => Mentioned(q, u)
      <3>1. 1 \in 1..Len(q)
        BY <1>1
      <3>. QED
        BY <1>1, <3>1, MentionKinds DEF Mentioned
    <2>. QED
      BY <1>2, <2>1, <2>2 DEF Untouched, Takes
  <1>. QED
    BY <1>4, <1>5, <1>6, <1>7 DEF Fresh

\* Reading a message takes the reader one step closer.
LEMMA ReadAgree ==
    ASSUME NEW q \in Seq(Msg), q # <<>>, NEW p \in Seq(Msg), NEW o \in Seq(Msg), NEW p1,
           p1 = p \/ p1 = p \o o, NEW u, NEW v, NEW w, NEW G,
           Agree(q, p, u, v, G), Turn(Head(q), u, v, w)
    PROVE  Agree(Tail(q), p1, u, w, G)
  <1>1. PICK x \in SUBSET UserRec : /\ Leads(q, u, v, x) /\ x \subseteq G
                                    /\ MaxOper = 0 => Doomed(p, u) \/ G \subseteq x
    BY DEF Agree
  <1>2. Leads(Tail(q), u, w, x)
    BY <1>1, LeadsTail
  <1>3. Doomed(p, u) => Doomed(p1, u)
    BY ConcatMessages
  <1>. QED
    BY <1>1, <1>2, <1>3 DEF Agree

\* The reader reads nothing and does not touch u.
LEMMA StayFlow ==
    ASSUME NEW q \in Seq(Msg), NEW p \in Seq(Msg), NEW o \in Seq(Msg), NEW p1,
           p1 = p \/ p1 = p \o o, NEW u, NEW v, NEW G, ~Doomed(o, u)
    PROVE  /\ Fresh(q, p, u, v) => Fresh(q, p1, u, v)
           /\ Untouched(q, p, u, v) => Untouched(q, p1, u, v)
           /\ Agree(q, p, u, v, G) => Agree(q, p1, u, v, G)
  <1>1. Doomed(p1, u) <=> Doomed(p, u)
    <2>1. CASE p1 = p
      BY <2>1
    <2>2. CASE p1 = p \o o
      BY <2>2, ConcatMessages
    <2>. QED
      BY <2>1, <2>2
  <1>. QED
    BY <1>1 DEF Fresh, Agree, Untouched

\* The reader drops a user that it has, or of which it reads, and says so.
LEMMA DropFlow ==
    ASSUME NEW q \in Seq(Msg), NEW p \in Seq(Msg), NEW o \in Seq(Msg), NEW p1,
           p1 = p \/ p1 = p \o o, NEW u, NEW v, NEW G, NEW q1,
           \/ q1 = q /\ v # {}
           \/ q # <<>> /\ q1 = Tail(q) /\ (v # {} \/ Mentions(Head(q), u)),
           Fresh(q, p, u, v)
    PROVE  /\ ~Untouched(q, p, u, v) /\ Fresh(q1, p1, u, {})
           /\ Doomed(p1, u) => Agree(q1, p1, u, {}, G)
  <1>1. ~Untouched(q, p, u, v)
    <2>1. q # <<>> /\ Mentions(Head(q), u) => Mentioned(q, u)
      BY DEF Mentioned
    <2>. QED
      BY <2>1 DEF Untouched
  <1>2. /\ ~New(q1, u) /\ q1 \in Seq(Msg)
        /\ \A j \in 1..Len(q1) : Introduces(q1[j], u) => \A i \in 1..(j - 1) : ~Mentions(q1[i], u)
    <2>1. CASE q1 = q
      BY <2>1 DEF Fresh
    <2>2. CASE q # <<>> /\ q1 = Tail(q)
      <3>1. /\ Len(q1) = Len(q) - 1 /\ Len(q) \in Nat /\ Len(q) # 0 /\ Head(q) = q[1] /\ q1 \in Seq(Msg)
            /\ \A i \in 1..Len(q1) : i + 1 \in 1..Len(q) /\ q1[i] = q[i + 1]
        BY <2>2
      <3>2. ~New(q1, u)
        <4>1. SUFFICES ASSUME NEW j \in 1..Len(q1), Introduces(q1[j], u) PROVE FALSE
          BY DEF New
        <4>2. j + 1 \in 1..Len(q) /\ Introduces(q[j + 1], u) /\ 1 \in 1..((j + 1) - 1)
          BY <3>1, <4>1
        <4>3. ~Mentions(q[1], u) /\ v = {}
          BY <4>2 DEF Fresh, New
        <4>. QED
          BY <3>1, <4>3, <2>2
      <3>. QED
        BY <3>1, <3>2 DEF New
    <2>. QED
      BY <2>1, <2>2
  <1>3. Fresh(q1, p1, u, {})
    BY <1>2 DEF Fresh
  <1>4. Doomed(p1, u) => Agree(q1, p1, u, {}, G)
    <2>1. Leads(q1, u, {}, {})
      BY <1>2, LeadsNowhere
    <2>. QED
      BY <2>1 DEF Agree
  <1>. QED
    BY <1>1, <1>3, <1>4

\* The writer sends o after q and may read a message of p.
LEMMA SendFresh ==
    ASSUME NEW q \in Seq(Msg), NEW p \in Seq(Msg), NEW o \in Seq(Msg), NEW p1,
           p1 = p \/ (p # <<>> /\ p1 = Tail(p)),
           NEW u, NEW v, Fresh(q, p, u, v),
           New(o, u) => Untouched(q, p, u, v) /\ Len(o) = 1
    PROVE  /\ Fresh(q, p1, u, v) /\ Fresh(q \o o, p1, u, v)
           /\ Untouched(q, p, u, v) => Untouched(q, p1, u, v)
           /\ Untouched(q, p, u, v) /\ ~Mentioned(o, u) => Untouched(q \o o, p1, u, v)
  <1>1. Doomed(p1, u) => Doomed(p, u)
    BY TailMessages
  <1>2. Fresh(q, p1, u, v)
    BY <1>1 DEF Fresh
  <1>3. Fresh(q \o o, p1, u, v)
    <2>. DEFINE q1 == q \o o
    <2>1. /\ q1 \in Seq(Msg) /\ Len(q1) = Len(q) + Len(o) /\ Len(q) \in Nat /\ Len(o) \in Nat
          /\ \A i \in 1..Len(q1) : q1[i] = IF i <= Len(q) THEN q[i] ELSE o[i - Len(q)]
      OBVIOUS
    <2>2. /\ New(q1, u) <=> New(q, u) \/ New(o, u)
          /\ Mentioned(q1, u) <=> Mentioned(q, u) \/ Mentioned(o, u)
      BY ConcatMessages
    <2>. HIDE DEF q1
    <2>3. ASSUME New(o, u) PROVE v = {} /\ ~Mentioned(q, u) /\ ~Doomed(p, u) /\ Len(o) = 1
      BY <2>3 DEF Untouched
    <2>4. ASSUME NEW j \in 1..Len(q1), Introduces(q1[j], u), NEW i \in 1..(j - 1)
          PROVE  ~Mentions(q1[i], u)
      <3>1. CASE j <= Len(q)
        <4>1. j \in 1..Len(q) /\ q1[j] = q[j] /\ q1[i] = q[i]
          BY <2>1, <3>1
        <4>. QED
          BY <2>4, <4>1 DEF Fresh
      <3>2. CASE ~(j <= Len(q))
        <4>1. j - Len(q) \in 1..Len(o) /\ q1[j] = o[j - Len(q)]
          BY <2>1, <3>2
        <4>2. New(o, u)
          BY <2>4, <4>1 DEF New
        <4>3. i \in 1..Len(q) /\ q1[i] = q[i]
          <5>1. Len(o) = 1
            BY <2>3, <4>2
          <5>2. i \in 1..Len(q)
            BY <2>1, <4>1, <5>1
          <5>. QED
            BY <2>1, <5>2
        <4>. QED
          BY <2>3, <4>2, <4>3 DEF Mentioned
      <3>. QED
        BY <3>1, <3>2
    <2>5. New(q1, u) => v = {} /\ ~Doomed(p1, u)
      BY <1>1, <2>2, <2>3 DEF Fresh
    <2>6. Doomed(p1, u) => v = {}
      BY <1>1 DEF Fresh
    <2>7. Fresh(q1, p1, u, v)
      BY <2>4, <2>5, <2>6 DEF Fresh
    <2>. QED
      BY <2>7 DEF q1
  <1>4. Mentioned(q \o o, u) <=> Mentioned(q, u) \/ Mentioned(o, u)
    BY ConcatMessages
  <1>. QED
    BY <1>1, <1>2, <1>3, <1>4 DEF Untouched

\* The writer says nothing of u and changes nothing.
LEMMA KeepAgree ==
    ASSUME NEW q \in Seq(Msg), NEW p \in Seq(Msg), NEW o \in Seq(Msg), NEW p1,
           NEW u, NEW v, NEW G,
           p1 = p \/ (p # <<>> /\ p1 = Tail(p) /\ (MaxOper = 0 /\ Kills(Head(p), u) => G = {})),
           Agree(q, p, u, v, G), \A i \in 1..Len(o) : ~Speaks(o[i], u)
    PROVE  Agree(q \o o, p1, u, v, G)
  <1>1. PICK x \in SUBSET UserRec : /\ Leads(q, u, v, x) /\ x \subseteq G
                                    /\ MaxOper = 0 => Doomed(p, u) \/ G \subseteq x
    BY DEF Agree
  <1>2. Leads(q \o o, u, v, x)
    BY <1>1, LeadsIdle, LeadsConcat
  <1>3. MaxOper = 0 => Doomed(p1, u) \/ G \subseteq x
    <2>1. CASE p1 = p
      BY <1>1, <2>1
    <2>2. CASE p # <<>> /\ p1 = Tail(p) /\ (MaxOper = 0 /\ Kills(Head(p), u) => G = {})
      <3>1. Doomed(p, u) => Kills(Head(p), u) \/ Doomed(p1, u)
        BY <2>2, TailMessages
      <3>. QED
        BY <1>1, <2>2, <3>1
    <2>. QED
      BY <2>1, <2>2
  <1>. QED
    BY <1>1, <1>2, <1>3 DEF Agree

\* The writer has u no more: it says so, or has read a KILL.
LEMMA LeaveAgree ==
    ASSUME NEW q \in Seq(Msg), NEW p \in Seq(Msg), NEW o \in Seq(Msg), NEW p1,
           NEW u, NEW v, NEW G, Fresh(q, p, u, v), Agree(q, p, u, v, G),
           \A i \in 1..Len(o) : Speaks(o[i], u) => o[i].type \in {"QUIT", "KILL"},
           (\E i \in 1..Len(o) : Speaks(o[i], u)) \/ Doomed(p, u)
    PROVE  Agree(q \o o, p1, u, v, {})
  <1>1. CASE \E i \in 1..Len(o) : Speaks(o[i], u)
    <2>1. PICK x \in SUBSET UserRec : Leads(q, u, v, x)
      BY DEF Agree
    <2>2. Leads(q \o o, u, v, {})
      BY <1>1, <2>1, LeadsAway, LeadsConcat
    <2>. QED
      BY <2>2 DEF Agree
  <1>2. CASE Doomed(p, u)
    <2>1. v = {} /\ ~New(q, u)
      BY <1>2 DEF Fresh
    <2>2. ~New(o, u)
      BY DEF New, Introduces, Speaks
    <2>3. Leads(q \o o, u, {}, {})
      <3>1. ~New(q \o o, u) /\ q \o o \in Seq(Msg)
        BY <2>1, <2>2, ConcatMessages
      <3>. QED
        BY <3>1, LeadsNowhere
    <2>. QED
      BY <2>1, <2>3 DEF Agree
  <1>. QED
    BY <1>1, <1>2

\* A new user is introduced, or a user changes its nick.
LEMMA ChangeAgree ==
    ASSUME NEW q \in Seq(Msg), NEW p \in Seq(Msg), NEW m \in Msg, m.type \in {"UID", "NICK"},
           NEW u, m.uid = u, NEW v, NEW G, Agree(q, p, u, v, G),
           Client(m) \in UserRec,
           m.type = "UID" => G = {},
           m.type = "NICK" => \E r : G = {r} /\ r.nick # m.nick
    PROVE  Agree(q \o <<m>>, p, u, v, {Client(m)})
  <1>1. PICK x \in SUBSET UserRec : /\ Leads(q, u, v, x) /\ x \subseteq G
                                    /\ MaxOper = 0 => Doomed(p, u) \/ G \subseteq x
    BY DEF Agree
  <1>. DEFINE y == IF m.type = "NICK" /\ x = {} THEN {} ELSE {Client(m)}
  <1>2. Turn(m, u, x, y)
    BY <1>1 DEF Turn, Speaks
  <1>3. y \in SUBSET UserRec
    OBVIOUS
  <1>4. Leads(q \o <<m>>, u, v, y)
    <2>. HIDE DEF y
    <2>1. Leads(<<m>>, u, x, y)
      BY <1>2, <1>3, LeadsOne
    <2>2. <<m>> \in Seq(Msg)
      OBVIOUS
    <2>. QED
      BY <1>1, <2>1, <2>2, LeadsConcat
  <1>5. MaxOper = 0 => Doomed(p, u) \/ {Client(m)} \subseteq y
    <2>1. CASE y = {Client(m)}
      BY <2>1
    <2>2. CASE m.type = "NICK" /\ x = {}
      BY <1>1, <2>2
    <2>. QED
      BY <2>1, <2>2
  <1>. QED
    BY <1>1, <1>3, <1>4, <1>5 DEF Agree

-----------------------------------------------------------------------------
(* The invariant of two servers *)

Regs(s, u) == {r \in ByUID(s, u) : r.reg}

\* u was handed out by s and is not in its handshake
Given(s, u) == u \in used /\ \A r \in ByUID(s, u) : r.reg

\* What t sends to s counts
Live(t, s) == conn[t][s] = "up" /\ <<t, s>> \notin dead /\ <<s, t>> \notin dead

\* User u of t, on the way from t to s
Flow(t, s, u) ==
    /\ Fresh(chan[t][s], chan[s][t], u, ByUID(s, u))
    /\ conn[t][s] \in {"in", "sent"} \/ ~Given(t, u) =>
          Untouched(chan[t][s], chan[s][t], u, ByUID(s, u))
    /\ Live(t, s) => Agree(chan[t][s], chan[s][t], u, ByUID(s, u), Regs(t, u))

\* Server t may send m: it speaks of its own users, and lets them and itself kill
Proper(m, t) ==
    /\ m.type \notin {"SID", "SQUIT"}
    /\ m.type \in {"UID", "NICK", "QUIT"} => Home[m.uid] = t
    /\ m.type = "KILL" =>
          \/ m.src = t
          \/ MaxOper # 0 /\ m.src \in UID /\ Home[m.src] = t /\ Home[m.uid] # t

Flows(t, s) ==
    /\ \A i \in 1..Len(chan[t][s]) : Proper(chan[t][s][i], t)
    /\ conn[s][t] = "up" => dir[s][t] = t
    /\ \A u \in UID : Home[u] = t => Flow(t, s, u)

Locals(s) == \A r \in users[s] : IF Home[r.uid] = s THEN r.uid \in used ELSE r.reg

PairInv ==
    /\ UIDUnique
    /\ \A s \in Server : Locals(s)
    /\ \A s, t \in Server : s # t => Flows(t, s)

-----------------------------------------------------------------------------
(* Steps that read, send and change users *)

\* What s, which reads from 'from' and sends o to t, does to a user u of t
Reads(s, t, from, o, u) ==
    LET v == ByUID(s, u)
        q == chan[t][s]
    IN  \/ /\ ~Doomed(o, u)
           /\ from = None => ByUID(s, u)' = v
           /\ from = t => Takes(Head(q), u, v, ByUID(s, u)')
           /\ from = t /\ Live(t, s) => Turn(Head(q), u, v, ByUID(s, u)')
        \/ /\ ByUID(s, u)' = {} /\ Doomed(o, u)
           /\ v # {} \/ (from = t /\ Mentions(Head(q), u))

\* What it does to a user u of its own
Sends(s, t, from, o, u) ==
    LET G == Regs(s, u)
        killed == from = t /\ Kills(Head(chan[t][s]), u)
    IN  /\ Given(s, u) => Given(s, u)'
        /\ Mentioned(o, u) => Given(s, u)'
        /\ New(o, u) => ~Given(s, u) /\ Len(o) = 1
        /\ \/ conn[s][t] # "up"
           \/ /\ \A i \in 1..Len(o) : ~Speaks(o[i], u)
              /\ Regs(s, u)' = G /\ (MaxOper = 0 /\ killed => G = {})
           \/ /\ Regs(s, u)' = {}
              /\ \A i \in 1..Len(o) : Speaks(o[i], u) => o[i].type \in {"QUIT", "KILL"}
              /\ (\E i \in 1..Len(o) : Speaks(o[i], u)) \/ killed
           \/ \E m \in Msg :
              /\ o = <<m>> /\ m.uid = u /\ from = None
              /\ Client(m) \in UserRec /\ Regs(s, u)' = {Client(m)}
              /\ \/ m.type = "UID" /\ G = {} /\ ~Given(s, u)
                 \/ m.type = "NICK" /\ \E r : G = {r} /\ r.nick # m.nick

\* The flow of a user of t
LEMMA ReadFlow ==
    ASSUME LinkInv, NEW s \in Server, NEW t \in Server, s # t, NEW from \in {None, t},
           NEW out \in Out, out[t] # <<>> => conn[s][t] = "up",
           Apart(s), Carried(s, from, None, out), from = t => chan[t][s] # <<>>,
           NEW u \in UID, Flow(t, s, u), Reads(s, t, from, out[t], u),
           Given(t, u)' = Given(t, u), Regs(t, u)' = Regs(t, u)
    PROVE  Flow(t, s, u)'
  <1>. DEFINE q == chan[t][s]
              p == chan[s][t]
              o == out[t]
              v == ByUID(s, u)
              w == ByUID(s, u)'
              q1 == IF t = from THEN Tail(q) ELSE q
              p1 == IF t \in Alive(s) THEN p \o o ELSE p
              g == Given(t, u)
              G == Regs(t, u)
  <1>1. /\ q \in Seq(Msg) /\ p \in Seq(Msg) /\ o \in Seq(Msg)
        /\ p1 = p \/ p1 = p \o o
        /\ t # None
    <2>1. t # None
      BY ConstantsAssumption
    <2>2. q \in Seq(Msg) /\ p \in Seq(Msg) /\ o \in Seq(Msg)
      BY DEF LinkInv, Streams, Out
    <2>3. p1 = p \/ p1 = p \o o
      OBVIOUS
    <2>. QED
      BY <2>1, <2>2, <2>3
  <1>2. /\ chan'[t][s] = q1 /\ chan'[s][t] = p1 /\ conn'[t][s] = conn[t][s]
        /\ (Live(t, s)' <=> Live(t, s))
    BY <1>1 DEF Apart, Carried, Live
  <1>3. SUFFICES /\ Fresh(q1, p1, u, w)
                 /\ conn[t][s] \in {"in", "sent"} \/ ~g => Untouched(q1, p1, u, w)
                 /\ Live(t, s) => Agree(q1, p1, u, w, G)
    BY <1>2, Zenon DEF Flow
  <1>4. /\ Fresh(q, p, u, v)
        /\ conn[t][s] \in {"in", "sent"} \/ ~g => Untouched(q, p, u, v)
        /\ Live(t, s) => Agree(q, p, u, v, G)
    BY DEF Flow
  <1>5. Live(t, s) /\ o # <<>> => p1 = p \o o
    BY DEF Live, Alive
  <1>6. Doomed(o, u) => o # <<>>
    BY DEF Doomed
  <1>7. Doomed(p1, u) => Doomed(p, u) \/ Doomed(o, u)
    BY <1>1, ConcatMessages
  <1>8. Doomed(o, u) /\ p1 = p \o o => Doomed(p1, u)
    BY <1>1, ConcatMessages
  <1>9. from = t => q # <<>> /\ q1 = Tail(q)
    OBVIOUS
  <1>10. from = None => q1 = q
    BY <1>1
  <1>11. Mentioned(q1, u) => Mentioned(q, u)
    BY <1>1, <1>9, <1>10, TailMessages
  <1>12. from = t => (Mentions(Head(q), u) => Mentioned(q, u))
    <2>1. from = t => 1 \in 1..Len(q) /\ Head(q) = q[1]
      BY <1>1, <1>9
    <2>. QED
      BY <2>1 DEF Mentioned
  <1>13. CASE /\ ~Doomed(o, u)
              /\ from = None => w = v
              /\ from = t => Takes(Head(q), u, v, w)
              /\ from = t /\ Live(t, s) => Turn(Head(q), u, v, w)
    <2>. HIDE DEF q, p, o, v, w, q1, p1, g, G
    <2>1. CASE from = t
      <3>1. Fresh(q1, p1, u, w) /\ (Untouched(q, p, u, v) => Untouched(q1, p1, u, w))
        <4>1. Takes(Head(q), u, v, w) /\ ~Doomed(o, u) /\ q # <<>> /\ q1 = Tail(q)
          BY <1>9, <1>13, <2>1
        <4>2. Fresh(Tail(q), p1, u, w) /\ (Untouched(q, p, u, v) => Untouched(Tail(q), p1, u, w))
          BY <1>1, <1>4, <4>1, ReadFresh
        <4>. QED
          BY <4>1, <4>2
      <3>2. Live(t, s) => Agree(q1, p1, u, w, G)
        BY <1>1, <1>4, <1>9, <1>13, <2>1, ReadAgree
      <3>. QED
        BY <1>4, <3>1, <3>2
    <2>2. CASE from = None
      <3>1. q1 = q /\ w = v
        BY <1>10, <1>13, <2>2
      <3>2. /\ Fresh(q1, p1, u, w) /\ (Live(t, s) => Agree(q1, p1, u, w, G))
            /\ Untouched(q, p, u, v) => Untouched(q1, p1, u, w)
        BY <1>1, <1>4, <1>13, <3>1, StayFlow
      <3>. QED
        BY <1>4, <3>2
    <2>. QED
      BY <2>1, <2>2
  <1>14. CASE /\ w = {} /\ Doomed(o, u)
              /\ v # {} \/ (from = t /\ Mentions(Head(q), u))
    <2>. HIDE DEF q, p, o, v, w, q1, p1, g, G
    <2>1. \/ q1 = q /\ v # {}
          \/ q # <<>> /\ q1 = Tail(q) /\ (v # {} \/ Mentions(Head(q), u))
      BY <1>9, <1>10, <1>14
    <2>2. ~Untouched(q, p, u, v) /\ Fresh(q1, p1, u, {}) /\ (Doomed(p1, u) => Agree(q1, p1, u, {}, G))
      BY <1>1, <1>4, <2>1, DropFlow
    <2>3. Live(t, s) => Doomed(p1, u)
      BY <1>5, <1>6, <1>8, <1>14
    <2>. QED
      BY <1>4, <1>14, <2>2, <2>3
  <1>15. Reads(s, t, from, o, u)
    OBVIOUS
  <1>. QED
    BY <1>13, <1>14, <1>15, Zenon DEF Reads

\* The flow of a user of s
LEMMA SendFlow ==
    ASSUME LinkInv, NEW s \in Server, NEW t \in Server, s # t, NEW from \in {None, t},
           NEW out \in Out, out[t] # <<>> => conn[s][t] = "up",
           Apart(s), Carried(s, from, None, out), from = t => chan[t][s] # <<>>,
           NEW u \in UID, Flow(s, t, u), Sends(s, t, from, out[t], u),
           ByUID(t, u)' = ByUID(t, u)
    PROVE  Flow(s, t, u)'
  <1>. DEFINE p == chan[t][s]
              q == chan[s][t]
              o == out[t]
              v == ByUID(t, u)
              p1 == IF t = from THEN Tail(p) ELSE p
              q1 == IF t \in Alive(s) THEN q \o o ELSE q
              g == Given(s, u)
              h == Given(s, u)'
              G == Regs(s, u)
              H == Regs(s, u)'
  <1>1. /\ q \in Seq(Msg) /\ p \in Seq(Msg) /\ o \in Seq(Msg)
        /\ q1 = q \/ q1 = q \o o
        /\ t # None
    <2>1. t # None
      BY ConstantsAssumption
    <2>2. q \in Seq(Msg) /\ p \in Seq(Msg) /\ o \in Seq(Msg)
      BY DEF LinkInv, Streams, Out
    <2>3. q1 = q \/ q1 = q \o o
      OBVIOUS
    <2>. QED
      BY <2>1, <2>2, <2>3
  <1>2. /\ chan'[t][s] = p1 /\ chan'[s][t] = q1 /\ conn'[s][t] = conn[s][t]
        /\ (Live(s, t)' <=> Live(s, t))
    BY <1>1 DEF Apart, Carried, Live
  <1>3. SUFFICES /\ Fresh(q1, p1, u, v)
                 /\ conn[s][t] \in {"in", "sent"} \/ ~h => Untouched(q1, p1, u, v)
                 /\ Live(s, t) => Agree(q1, p1, u, v, H)
    BY <1>2, Zenon DEF Flow
  <1>4. /\ Fresh(q, p, u, v)
        /\ conn[s][t] \in {"in", "sent"} \/ ~g => Untouched(q, p, u, v)
        /\ Live(s, t) => Agree(q, p, u, v, G)
    BY DEF Flow
  <1>5. Live(s, t) => q1 = q \o o
    BY DEF Live, Alive
  <1>6. p1 = p \/ (from = t /\ p # <<>> /\ p1 = Tail(p))
    OBVIOUS
  <1>7. from = None => p1 = p
    BY <1>1
  <1>. DEFINE killed == from = t /\ Kills(Head(p), u)
  <1>8. /\ g => h
        /\ Mentioned(o, u) => h
        /\ New(o, u) => ~g /\ Len(o) = 1
        /\ \/ conn[s][t] # "up"
           \/ /\ \A i \in 1..Len(o) : ~Speaks(o[i], u)
              /\ H = G /\ (MaxOper = 0 /\ killed => G = {})
           \/ /\ H = {}
              /\ \A i \in 1..Len(o) : Speaks(o[i], u) => o[i].type \in {"QUIT", "KILL"}
              /\ (\E i \in 1..Len(o) : Speaks(o[i], u)) \/ killed
           \/ \E m \in Msg :
              /\ o = <<m>> /\ m.uid = u /\ from = None
              /\ Client(m) \in UserRec /\ H = {Client(m)}
              /\ \/ m.type = "UID" /\ G = {} /\ ~g
                 \/ m.type = "NICK" /\ \E r : G = {r} /\ r.nick # m.nick
    BY Zenon DEF Sends
  <1>9. conn[s][t] \in {"in", "sent"} => o = <<>>
    OBVIOUS
  <1>10. killed => Doomed(p, u)
    <2>1. from = t => 1 \in 1..Len(p) /\ Head(p) = p[1]
      BY <1>1
    <2>. QED
      BY <2>1 DEF Doomed
  <1>. HIDE DEF q, p, o, v, q1, p1, g, h, G, H
  <1>11. /\ Fresh(q, p1, u, v) /\ Fresh(q \o o, p1, u, v)
         /\ Untouched(q, p, u, v) => Untouched(q, p1, u, v)
         /\ Untouched(q, p, u, v) /\ ~Mentioned(o, u) => Untouched(q \o o, p1, u, v)
    <2>1. p1 = p \/ (p # <<>> /\ p1 = Tail(p))
      BY <1>6
    <2>2. Fresh(q, p, u, v) /\ (New(o, u) => Untouched(q, p, u, v) /\ Len(o) = 1)
      BY <1>4, <1>8
    <2>. QED
      BY <1>1, <2>1, <2>2, SendFresh
  <1>12. conn[s][t] \in {"in", "sent"} \/ ~h => Untouched(q1, p1, u, v)
    <2>1. conn[s][t] \in {"in", "sent"} => q1 = q
      BY <1>1, <1>9
    <2>2. ~h => ~g /\ ~Mentioned(o, u)
      BY <1>8
    <2>. QED
      BY <1>1, <1>4, <1>11, <2>1, <2>2
  <1>13. Live(s, t) => Agree(q1, p1, u, v, H)
    <2>1. SUFFICES ASSUME Live(s, t) PROVE Agree(q \o o, p1, u, v, H)
      BY <1>5
    <2>2. Agree(q, p, u, v, G)
      BY <1>4, <2>1
    <2>3. CASE /\ \A i \in 1..Len(o) : ~Speaks(o[i], u)
               /\ H = G /\ (MaxOper = 0 /\ killed => G = {})
      <3>1. p1 = p \/ (p # <<>> /\ p1 = Tail(p) /\ (MaxOper = 0 /\ Kills(Head(p), u) => G = {}))
        BY <1>6, <2>3
      <3>. QED
        BY <1>1, <2>2, <2>3, <3>1, KeepAgree
    <2>4. CASE /\ H = {}
               /\ \A i \in 1..Len(o) : Speaks(o[i], u) => o[i].type \in {"QUIT", "KILL"}
               /\ (\E i \in 1..Len(o) : Speaks(o[i], u)) \/ killed
      <3>1. (\E i \in 1..Len(o) : Speaks(o[i], u)) \/ Doomed(p, u)
        BY <1>10, <2>4
      <3>. QED
        BY <1>1, <1>4, <2>2, <2>4, <3>1, LeaveAgree
    <2>5. CASE \E m \in Msg :
              /\ o = <<m>> /\ m.uid = u /\ from = None
              /\ Client(m) \in UserRec /\ H = {Client(m)}
              /\ \/ m.type = "UID" /\ G = {} /\ ~g
                 \/ m.type = "NICK" /\ \E r : G = {r} /\ r.nick # m.nick
      <3>1. PICK m \in Msg :
              /\ o = <<m>> /\ m.uid = u /\ from = None
              /\ Client(m) \in UserRec /\ H = {Client(m)}
              /\ \/ m.type = "UID" /\ G = {} /\ ~g
                 \/ m.type = "NICK" /\ \E r : G = {r} /\ r.nick # m.nick
        BY <2>5
      <3>2. /\ m.type \in {"UID", "NICK"}
            /\ m.type = "UID" => G = {}
            /\ m.type = "NICK" => \E r : G = {r} /\ r.nick # m.nick
        BY <3>1
      <3>3. Agree(q \o <<m>>, p, u, v, {Client(m)})
        BY <1>1, <1>4, <2>2, <3>1, <3>2, ChangeAgree
      <3>4. p1 = p
        BY <1>7, <3>1
      <3>. QED
        BY <3>1, <3>3, <3>4
    <2>6. conn[s][t] = "up"
      BY <2>1 DEF Live
    <2>. QED
      BY <1>8, <2>3, <2>4, <2>5, <2>6
  <1>. QED
    BY <1>1, <1>11, <1>12, <1>13

\* The other server
LEMMA OtherServer ==
    ASSUME TwoServers, NEW s \in Server
    PROVE  /\ \E t \in Server : t # s
           /\ \A t \in Server : t # s => \A x \in Server : x = s \/ x = t
  BY DEF TwoServers

\* Proper streams put together
LEMMA ProperConcat ==
    ASSUME NEW q \in Seq(Msg), NEW o \in Seq(Msg), NEW s,
           \A i \in 1..Len(q) : Proper(q[i], s), \A i \in 1..Len(o) : Proper(o[i], s)
    PROVE  \A i \in 1..Len(q \o o) : Proper((q \o o)[i], s)
  <1>1. \A i \in 1..Len(q \o o) :
           \/ i \in 1..Len(q) /\ (q \o o)[i] = q[i]
           \/ i - Len(q) \in 1..Len(o) /\ (q \o o)[i] = o[i - Len(q)]
    OBVIOUS
  <1>. QED
    BY <1>1

\* It is enough to look at the two directions.
LEMMA CarryPair ==
    ASSUME LinkInv, TwoServers, PairInv, NEW s \in Server, NEW t \in Server, s # t,
           NEW from \in {None, t}, NEW out \in Out, out[t] # <<>> => conn[s][t] = "up",
           Apart(s), Carried(s, from, None, out), from = t => chan[t][s] # <<>>,
           users'[t] = users[t], dir' = dir,
           used \subseteq used', \A u \in UID : Home[u] = t /\ u \in used' => u \in used,
           \A r1, r2 \in users'[s] : r1.uid = r2.uid => r1 = r2,
           Locals(s)', \A r \in users[t] : r.uid \in UID,
           \A i \in 1..Len(out[t]) : Proper(out[t][i], s),
           \A u \in UID : Home[u] = t => Reads(s, t, from, out[t], u),
           \A u \in UID : Home[u] = s => Sends(s, t, from, out[t], u)
    PROVE  PairInv'
  <1>1. \A x \in Server : x = s \/ x = t
    BY OtherServer
  <1>2. UIDUnique'
    BY <1>1 DEF PairInv, UIDUnique
  <1>3. Locals(t)'
    BY DEF PairInv, Locals
  <1>4. \A u : ByUID(t, u)' = ByUID(t, u) /\ Regs(t, u)' = Regs(t, u)
    BY DEF ByUID, Regs
  <1>5. \A u \in UID : Home[u] = t => Given(t, u)' = Given(t, u)
    BY <1>4 DEF Given
  <1>6. /\ chan[t][s] \in Seq(Msg) /\ chan[s][t] \in Seq(Msg) /\ out[t] \in Seq(Msg) /\ t # None
    BY ConstantsAssumption DEF LinkInv, Streams, Out
  <1>7. /\ chan'[t][s] = (IF t = from THEN Tail(chan[t][s]) ELSE chan[t][s])
        /\ chan'[s][t] = (IF t \in Alive(s) THEN chan[s][t] \o out[t] ELSE chan[s][t])
        /\ conn'[t][s] = conn[t][s] /\ conn'[s][t] = conn[s][t]
    BY <1>6 DEF Apart, Carried
  <1>8. Flows(t, s)'
    <2>1. \A i \in 1..Len(chan'[t][s]) : Proper(chan'[t][s][i], t)
      <3>1. CASE t = from
        <4>1. \A i \in 1..Len(Tail(chan[t][s])) :
                 i + 1 \in 1..Len(chan[t][s]) /\ Tail(chan[t][s])[i] = chan[t][s][i + 1]
          BY <1>6, <3>1
        <4>. QED
          BY <1>7, <3>1, <4>1 DEF PairInv, Flows
      <3>2. CASE t # from
        BY <1>7, <3>2 DEF PairInv, Flows
      <3>. QED
        BY <3>1, <3>2
    <2>2. conn'[s][t] = "up" => dir'[s][t] = t
      BY <1>7 DEF PairInv, Flows
    <2>3. ASSUME NEW u \in UID, Home[u] = t PROVE Flow(t, s, u)'
      <3>1. Flow(t, s, u)
        BY <2>3 DEF PairInv, Flows
      <3>. QED
        BY <1>4, <1>5, <2>3, <3>1, ReadFlow
    <2>4. (\A i \in 1..Len(chan[t][s]) : Proper(chan[t][s][i], t))'
      BY <2>1 DEF Proper
    <2>. QED
      BY <2>2, <2>3, <2>4 DEF Flows
  <1>9. Flows(s, t)'
    <2>1. \A i \in 1..Len(chan'[s][t]) : Proper(chan'[s][t][i], s)
      <3>1. \A i \in 1..Len(chan[s][t]) : Proper(chan[s][t][i], s)
        BY DEF PairInv, Flows
      <3>2. \A i \in 1..Len(chan[s][t] \o out[t]) : Proper((chan[s][t] \o out[t])[i], s)
        BY <1>6, <3>1, ProperConcat
      <3>. QED
        BY <1>7, <3>1, <3>2
    <2>2. conn'[t][s] = "up" => dir'[t][s] = s
      BY <1>7 DEF PairInv, Flows
    <2>3. ASSUME NEW u \in UID, Home[u] = s PROVE Flow(s, t, u)'
      <3>1. Flow(s, t, u)
        BY <2>3 DEF PairInv, Flows
      <3>. QED
        BY <1>4, <2>3, <3>1, SendFlow
    <2>4. (\A i \in 1..Len(chan[s][t]) : Proper(chan[s][t][i], s))'
      BY <2>1 DEF Proper
    <2>. QED
      BY <2>2, <2>3, <2>4 DEF Flows
  <1>10. (\A x \in Server : Locals(x))' /\ (\A x, y \in Server : x # y => Flows(y, x))'
    BY <1>1, <1>3, <1>8, <1>9
  <1>. QED
    BY <1>2, <1>10 DEF PairInv

-----------------------------------------------------------------------------
(* What clients do *)

\* A stream of one message
LEMMA FewMessages ==
    ASSUME NEW m, NEW u
    PROVE  /\ Len(<<m>>) = 1 /\ 1 \in 1..Len(<<m>>) /\ <<m>>[1] = m
           /\ \A i \in 1..Len(<<m>>) : <<m>>[i] = m
           /\ New(<<m>>, u) <=> Introduces(m, u)
           /\ Doomed(<<m>>, u) <=> Kills(m, u)
           /\ Mentioned(<<m>>, u) <=> Mentions(m, u)
  <1>1. Len(<<m>>) = 1 /\ 1 \in 1..Len(<<m>>) /\ <<m>>[1] = m /\ \A i \in 1..Len(<<m>>) : <<m>>[i] = m
    OBVIOUS
  <1>. QED
    BY <1>1 DEF New, Doomed, Mentioned

\* A stream without messages
LEMMA NoMessages ==
    ASSUME NEW u
    PROVE  ~New(<<>>, u) /\ ~Doomed(<<>>, u) /\ ~Mentioned(<<>>, u) /\ \A i \in 1..Len(<<>>) : FALSE
  <1>1. \A i \in 1..Len(<<>>) : FALSE
    OBVIOUS
  <1>. QED
    BY <1>1 DEF New, Doomed, Mentioned

\* Who is in the tables of s
LEMMA UsersHere ==
    ASSUME IInv, Routed, TwoServers, PairInv, NEW s \in Server, NEW t \in Server, s # t
    PROVE  /\ t # None /\ Up(s) = IF conn[s][t] = "up" THEN {t} ELSE {}
           /\ \A r \in users[s] : /\ r \in UserRec /\ r.uid \in UID
                                  /\ Home[r.uid] = s \/ Home[r.uid] = t
                                  /\ Home[r.uid] = s => r.uid \in used
                                  /\ Home[r.uid] = t => r.reg /\ conn[s][t] = "up"
           /\ \A r1, r2 \in users[s] : r1.uid = r2.uid => r1 = r2
           /\ conn[s][t] = "up" => dir[s][t] = t
           /\ conn[s][t] # "up" => dir[s][t] = None
           /\ users[s] \subseteq UserRec /\ \A r \in users[t] : r.uid \in UID
  <1>1. t # None /\ \A x \in Server : x = s \/ x = t
    BY ConstantsAssumption, OtherServer
  <1>2. Up(s) = IF conn[s][t] = "up" THEN {t} ELSE {}
    BY <1>1 DEF Up, IInv, LinkInv
  <1>3. users[s] \subseteq UserRec /\ users[t] \subseteq UserRec
    BY DEF IInv, TableInv
  <1>4. \A r \in users[s] : r.uid \in UID /\ (Home[r.uid] = s \/ Home[r.uid] = t)
    BY <1>1, <1>3, ConstantsAssumption DEF UserRec
  <1>5. conn[s][t] # "up" => dir[s][t] = None
    <2>1. Route(s, t)
      BY DEF Routed
    <2>2. dir[s][t] \in Server \cup {None}
      BY DEF IInv, TableInv
    <2>. QED
      BY <1>1, <2>1, <2>2 DEF Route, Known
  <1>6. conn[s][t] = "up" => dir[s][t] = t
    BY DEF PairInv, Flows
  <1>7. \A r \in users[s] : Home[r.uid] = t => conn[s][t] = "up"
    BY <1>5 DEF IInv, TableInv, NoOrphans, Known
  <1>8. \A r \in users[s] : /\ Home[r.uid] = s => r.uid \in used
                            /\ Home[r.uid] = t => r.reg
    BY DEF PairInv, Locals
  <1>9. \A r1, r2 \in users[s] : r1.uid = r2.uid => r1 = r2
    BY DEF PairInv, UIDUnique
  <1>10. \A r \in users[t] : r.uid \in UID
    BY <1>3 DEF UserRec
  <1>. QED
    BY <1>1, <1>2, <1>3, <1>4, <1>5, <1>6, <1>7, <1>8, <1>9, <1>10

\* s neither reads nor touches u.
LEMMA ReadsNothing ==
    ASSUME NEW s, NEW t \in Server, NEW o, NEW u, ~Doomed(o, u), ByUID(s, u)' = ByUID(s, u)
    PROVE  Reads(s, t, None, o, u)
  <1>1. t # None
    BY ConstantsAssumption
  <1>. QED
    BY <1>1 DEF Reads

\* s sends nothing of u.
LEMMA SendsNothing ==
    ASSUME NEW s, NEW t \in Server, NEW from, NEW o, NEW u, ~Mentioned(o, u),
           Given(s, u) => Given(s, u)', Regs(s, u)' = Regs(s, u),
           from = t => ~(MaxOper = 0 /\ Kills(Head(chan[t][s]), u)) \/ Regs(s, u) = {}
    PROVE  Sends(s, t, from, o, u)
  <1>1. ~New(o, u) /\ \A i \in 1..Len(o) : ~Speaks(o[i], u)
    BY MentionKinds DEF Mentioned
  <1>. QED
    BY <1>1 DEF Sends

\* A client sends its first NICK.
LEMMA NickFirstPair ==
    ASSUME IInv, Routed, TwoServers, PairInv, NEW s \in Server, NEW t \in Server, s # t,
           NEW u \in UID, NEW n \in Nick, NEW ts \in TS, NickFirst(s, u, n, ts)
    PROVE  PairInv'
  <1>. DEFINE new == [uid |-> u, nick |-> n, ts |-> ts, reg |-> FALSE]
              N == (users[s] \ ByNick(s, n)) \cup {new}
  <1>1. /\ Home[u] = s /\ u \notin used /\ used' = used \cup {u}
        /\ \A r \in ByNick(s, n) : Home[r.uid] = s /\ ~r.reg
        /\ users' = [users EXCEPT ![s] = N] /\ dir' = dir
        /\ conn' = conn /\ dead' = dead /\ chan' = chan
    BY DEF NickFirst, NickFree, Local, links
  <1>2. users'[s] = N /\ users'[t] = users[t]
    BY <1>1 DEF IInv, TableInv
  <1>0. /\ \A r \in users[s] : /\ r.uid \in UID
                               /\ Home[r.uid] = s \/ Home[r.uid] = t
                               /\ Home[r.uid] = s => r.uid \in used
                               /\ Home[r.uid] = t => r.reg
        /\ \A r1, r2 \in users[s] : r1.uid = r2.uid => r1 = r2
        /\ t # None /\ \A r \in users[t] : r.uid \in UID
    BY UsersHere
  <1>3. NoOut \in Out /\ NoOut[t] = <<>>
    BY OutTypes DEF NoOut
  <1>4. Apart(s) /\ Carried(s, None, None, NoOut)
    <2>1. \A x \in Server : chan[s][x] \o <<>> = chan[s][x]
      BY DEF IInv, LinkInv, Streams
    <2>2. \A x \in Server : NoOut[x] = <<>> /\ x # None
      BY ConstantsAssumption DEF NoOut
    <2>. QED
      BY <1>1, <2>1, <2>2 DEF Apart, Carried
  <1>5. \A x \in UID : Home[x] = t => x # u
    BY <1>1
  <1>6. \A x : ByUID(s, x)' = {r \in N : r.uid = x}
    BY <1>2 DEF ByUID
  <1>7. \A x \in UID : Home[x] = t => ByUID(s, x)' = ByUID(s, x)
    BY <1>1, <1>5, <1>6 DEF ByUID
  <1>8. \A x \in UID : Home[x] = s => Regs(s, x)' = Regs(s, x)
    BY <1>1, <1>6 DEF ByUID, Regs
  <1>9. \A x \in UID : Given(s, x) => Given(s, x)'
    BY <1>1, <1>6 DEF ByUID, Given
  <1>10. \A r1, r2 \in users'[s] : r1.uid = r2.uid => r1 = r2
    <2>1. \A r \in users[s] : r.uid # new.uid
      BY <1>0, <1>1
    <2>. HIDE DEF new
    <2>. QED
      BY <1>0, <1>2, <2>1
  <1>11. Locals(s)'
    <2>1. ASSUME NEW r \in N PROVE IF Home[r.uid] = s THEN r.uid \in used' ELSE r.reg
      <3>1. CASE r = new
        BY <1>1, <3>1
      <3>2. CASE r \in users[s]
        BY <1>0, <1>1, <3>2
      <3>. QED
        BY <3>1, <3>2
    <2>. QED
      BY <1>2, <2>1 DEF Locals
  <1>12. ASSUME NEW x \in UID, Home[x] = t PROVE Reads(s, t, None, NoOut[t], x)
    <2>1. ~Doomed(NoOut[t], x) /\ ByUID(s, x)' = ByUID(s, x)
      BY <1>3, <1>7, <1>12, NoMessages
    <2>. QED
      BY <2>1, ReadsNothing
  <1>13. ASSUME NEW x \in UID, Home[x] = s PROVE Sends(s, t, None, NoOut[t], x)
    <2>1. ~Mentioned(NoOut[t], x)
      BY <1>3, NoMessages
    <2>2. (Given(s, x) => Given(s, x)') /\ Regs(s, x)' = Regs(s, x) /\ t # None
      BY <1>0, <1>8, <1>9, <1>13
    <2>. QED
      BY <2>1, <2>2, SendsNothing
  <1>14. used \subseteq used' /\ \A x \in UID : Home[x] = t /\ x \in used' => x \in used
    BY <1>1
  <1>15. \A i \in 1..Len(NoOut[t]) : Proper(NoOut[t][i], s)
    BY <1>3, NoMessages
  <1>. QED
    BY <1>1, <1>2, <1>3, <1>4, <1>10, <1>11, <1>12, <1>13, <1>14, <1>15, <1>0, CarryPair DEF IInv

\* The output of a client of s, as t gets it
LEMMA ClientOutput ==
    ASSUME IInv, Routed, TwoServers, PairInv, NEW s \in Server, NEW t \in Server, s # t,
           NEW m \in Msg, NEW out, out = NoOut \/ out = ToServers(Up(s), {}, m),
           Net(s, None, None, out)
    PROVE  /\ out \in Out /\ Apart(s) /\ Carried(s, None, None, out)
           /\ out = NoOut => out[t] = <<>>
           /\ out = ToServers(Up(s), {}, m) =>
                 out[t] = IF conn[s][t] = "up" THEN <<m>> ELSE <<>>
           /\ out[t] # <<>> => conn[s][t] = "up"
  <1>1. out \in Out
    BY OutTypes
  <1>2. Up(s) = IF conn[s][t] = "up" THEN {t} ELSE {}
    BY UsersHere
  <1>3. Apart(s) /\ Carried(s, None, None, out)
    BY <1>1, NetEffect, ConstantsAssumption DEF IInv
  <1>. QED
    BY <1>1, <1>2, <1>3 DEF NoOut, ToServers

\* A client that is introduced or changes its nick, as the message has it
LEMMA ChangedClient ==
    ASSUME NEW r \in UserRec
    PROVE  /\ Client(UIDmsg(r)) = [r EXCEPT !.reg = TRUE] /\ [r EXCEPT !.reg = TRUE] \in UserRec
           /\ \A n \in Nick, ts \in TS :
                 LET new == [r EXCEPT !.nick = n, !.ts = IF r.reg THEN ts ELSE @]
                 IN  (r.reg => Client(NICK(r.uid, n, ts)) = new) /\ new \in UserRec
  <1>. DEFINE Same(x, y) == x.uid = y.uid /\ x.nick = y.nick /\ x.ts = y.ts /\ x.reg = y.reg
  <1>0. \A x, y \in UserRec : Same(x, y) => x = y
    BY DEF UserRec
  <1>1. Client(UIDmsg(r)) = [r EXCEPT !.reg = TRUE] /\ [r EXCEPT !.reg = TRUE] \in UserRec
    <2>1. Client(UIDmsg(r)) \in UserRec /\ [r EXCEPT !.reg = TRUE] \in UserRec
      BY DEF Client, UIDmsg, UserRec
    <2>2. Same(Client(UIDmsg(r)), [r EXCEPT !.reg = TRUE])
      BY DEF Client, UIDmsg, UserRec
    <2>. QED
      BY <1>0, <2>1, <2>2
  <1>2. ASSUME NEW n \in Nick, NEW ts \in TS
        PROVE  LET new == [r EXCEPT !.nick = n, !.ts = ts]
               IN  (r.reg => Client(NICK(r.uid, n, ts)) = new) /\ new \in UserRec
    <2>. DEFINE new == [r EXCEPT !.nick = n, !.ts = ts]
    <2>1. Client(NICK(r.uid, n, ts)) \in UserRec /\ new \in UserRec
      BY DEF Client, NICK, UserRec
    <2>2. r.reg => Same(Client(NICK(r.uid, n, ts)), new)
      <3>1. r.reg => r.reg = TRUE
        BY DEF UserRec
      <3>. QED
        BY <3>1 DEF Client, NICK, UserRec
    <2>. QED
      BY <1>0, <2>1, <2>2
  <1>3. ASSUME NEW n \in Nick, NEW ts \in TS
        PROVE  LET new == [r EXCEPT !.nick = n, !.ts = IF r.reg THEN ts ELSE @]
               IN  (r.reg => Client(NICK(r.uid, n, ts)) = new) /\ new \in UserRec
    <2>1. CASE r.reg
      <3>1. [r EXCEPT !.nick = n, !.ts = IF r.reg THEN ts ELSE @] = [r EXCEPT !.nick = n, !.ts = ts]
        BY <2>1
      <3>. QED
        BY <1>2, <2>1, <3>1
    <2>2. CASE ~r.reg
      BY <2>2 DEF UserRec
    <2>. QED
      BY <2>1, <2>2
  <1>. QED
    BY <1>1, <1>2, <1>3

\* A user registers.
LEMMA RegisterPair ==
    ASSUME IInv, Routed, TwoServers, PairInv, NEW s \in Server, NEW t \in Server, s # t,
           NEW r \in users[s], Register(s, r)
    PROVE  PairInv'
  <1>. DEFINE new == [r EXCEPT !.reg = TRUE]
              m == UIDmsg(r)
              out == ToServers(Up(s), {}, m)
              N == (users[s] \ {r}) \cup {new}
              u == r.uid
  <1>0. /\ \A x \in users[s] : /\ x \in UserRec /\ x.uid \in UID
                               /\ Home[x.uid] = s \/ Home[x.uid] = t
                               /\ Home[x.uid] = s => x.uid \in used
                               /\ Home[x.uid] = t => x.reg
        /\ \A r1, r2 \in users[s] : r1.uid = r2.uid => r1 = r2
        /\ t # None /\ \A x \in users[t] : x.uid \in UID
    BY UsersHere
  <1>1. /\ Home[u] = s /\ ~r.reg /\ users' = [users EXCEPT ![s] = N]
        /\ dir' = dir /\ used' = used /\ Net(s, None, None, out)
    BY DEF Register, Local
  <1>2. users'[s] = N /\ users'[t] = users[t]
    BY <1>1 DEF IInv, TableInv
  <1>3. /\ m \in Msg /\ m.type = "UID" /\ m.uid = u /\ u \in UID
        /\ Client(m) = new /\ new \in UserRec /\ new.uid = u /\ new.reg
    <2>1. r \in UserRec
      BY <1>0
    <2>2. m \in Msg
      BY <2>1, MessageTypes
    <2>3. Client(m) = new /\ new \in UserRec
      BY <2>1, ChangedClient
    <2>. QED
      BY <2>1, <2>2, <2>3 DEF UIDmsg, UserRec
  <1>4. /\ out \in Out /\ Apart(s) /\ Carried(s, None, None, out)
        /\ out[t] = IF conn[s][t] = "up" THEN <<m>> ELSE <<>>
        /\ out[t] # <<>> => conn[s][t] = "up"
    <2>. HIDE DEF m
    <2>. QED
      BY <1>1, <1>3, ClientOutput
  <1>. HIDE DEF new, m
  <1>5. \A x : ByUID(s, x)' = {y \in N : y.uid = x}
    BY <1>2 DEF ByUID
  <1>6. \A x \in UID : x # u => ByUID(s, x)' = ByUID(s, x)
    BY <1>3, <1>5 DEF ByUID
  <1>7. ByUID(s, u) = {r} /\ ByUID(s, u)' = {new}
    BY <1>0, <1>3, <1>5 DEF ByUID
  <1>8. \A r1, r2 \in users'[s] : r1.uid = r2.uid => r1 = r2
    BY <1>0, <1>2, <1>3
  <1>9. Locals(s)'
    BY <1>0, <1>1, <1>2, <1>3 DEF Locals
  <1>. DEFINE o == out[t]
  <1>. HIDE DEF out
  <1>10. \A i \in 1..Len(o) : Proper(o[i], s)
    BY <1>1, <1>3, <1>4, FewMessages, NoMessages DEF Proper
  <1>11. ~Kills(m, u) /\ \A x : x # u => ~Mentions(m, x)
    BY <1>3 DEF Kills, Mentions, Speaks
  <1>12. \A x : ~Doomed(o, x)
    BY <1>3, <1>4, FewMessages, NoMessages DEF Kills
  <1>13. \A x : x # u => ~Mentioned(o, x)
    BY <1>4, <1>11, FewMessages, NoMessages
  <1>14. ASSUME NEW x \in UID, Home[x] = t PROVE Reads(s, t, None, o, x)
    BY <1>1, <1>6, <1>12, <1>14, ReadsNothing
  <1>15. ASSUME NEW x \in UID, Home[x] = s PROVE Sends(s, t, None, o, x)
    <2>1. CASE x # u
      <3>1. Regs(s, x)' = Regs(s, x) /\ Given(s, x)' = Given(s, x)
        BY <1>1, <1>6, <2>1 DEF Regs, Given
      <3>. QED
        BY <1>0, <1>13, <2>1, <3>1, SendsNothing
    <2>2. CASE x = u
      <3>1. ~Given(s, u) /\ Given(s, u)' /\ Regs(s, u) = {} /\ Regs(s, u)' = {new}
        BY <1>0, <1>1, <1>3, <1>7 DEF Given, Regs
      <3>2. New(o, u) => Len(o) = 1
        BY <1>4, FewMessages, NoMessages
      <3>3. conn[s][t] = "up" => o = <<m>>
        BY <1>4
      <3>. QED
        BY <1>3, <2>2, <3>1, <3>2, <3>3 DEF Sends
    <2>. QED
      BY <2>1, <2>2
  <1>. QED
    BY <1>0, <1>1, <1>2, <1>4, <1>8, <1>9, <1>10, <1>14, <1>15, CarryPair DEF IInv

\* A user changes its nick.
LEMMA NickChangePair ==
    ASSUME IInv, Routed, TwoServers, PairInv, NEW s \in Server, NEW t \in Server, s # t,
           NEW r \in users[s], NEW n \in Nick, NEW ts \in TS, NickChange(s, r, n, ts)
    PROVE  PairInv'
  <1>. DEFINE new == [r EXCEPT !.nick = n, !.ts = IF r.reg THEN ts ELSE @]
              m == NICK(r.uid, n, ts)
              out == IF r.reg THEN ToServers(Up(s), {}, m) ELSE NoOut
              D == {r} \cup ByNick(s, n)
              N == (users[s] \ D) \cup {new}
              u == r.uid
  <1>0. /\ \A x \in users[s] : /\ x \in UserRec /\ x.uid \in UID
                               /\ Home[x.uid] = s \/ Home[x.uid] = t
                               /\ Home[x.uid] = s => x.uid \in used
                               /\ Home[x.uid] = t => x.reg
        /\ \A r1, r2 \in users[s] : r1.uid = r2.uid => r1 = r2
        /\ t # None /\ \A x \in users[t] : x.uid \in UID
    BY UsersHere
  <1>1. /\ Home[u] = s /\ n # r.nick /\ users' = [users EXCEPT ![s] = N]
        /\ \A x \in ByNick(s, n) : Home[x.uid] = s /\ ~x.reg
        /\ dir' = dir /\ used' = used /\ Net(s, None, None, out)
    BY DEF NickChange, Local, NickFree
  <1>2. users'[s] = N /\ users'[t] = users[t]
    BY <1>1 DEF IInv, TableInv
  <1>3. /\ m \in Msg /\ m.type = "NICK" /\ m.uid = u /\ m.nick = n /\ u \in UID
        /\ r.reg => Client(m) = new
        /\ new \in UserRec /\ new.uid = u /\ new.reg = r.reg
    <2>1. r \in UserRec
      BY <1>0
    <2>2. m \in Msg
      BY <2>1, MessageTypes DEF UserRec
    <2>3. (r.reg => Client(m) = new) /\ new \in UserRec
      BY <2>1, ChangedClient
    <2>. QED
      BY <2>1, <2>2, <2>3 DEF NICK, UserRec
  <1>4. /\ out \in Out /\ Apart(s) /\ Carried(s, None, None, out)
        /\ out[t] = IF r.reg /\ conn[s][t] = "up" THEN <<m>> ELSE <<>>
        /\ out[t] # <<>> => conn[s][t] = "up"
    <2>. HIDE DEF m
    <2>1. out = NoOut \/ out = ToServers(Up(s), {}, m)
      OBVIOUS
    <2>. QED
      BY <1>1, <1>3, <2>1, ClientOutput
  <1>. HIDE DEF new, m
  <1>5. \A x : ByUID(s, x)' = {y \in N : y.uid = x}
    BY <1>2 DEF ByUID
  <1>6. \A x \in UID : x # u => ByUID(s, x)' = ByUID(s, x) \ ByNick(s, n)
    BY <1>0, <1>3, <1>5 DEF ByUID
  <1>7. ByUID(s, u) = {r} /\ ByUID(s, u)' = {new}
    BY <1>0, <1>3, <1>5 DEF ByUID
  <1>8. \A r1, r2 \in users'[s] : r1.uid = r2.uid => r1 = r2
    BY <1>0, <1>2, <1>3
  <1>9. Locals(s)'
    BY <1>0, <1>1, <1>2, <1>3 DEF Locals
  <1>. DEFINE o == out[t]
  <1>. HIDE DEF out, D
  <1>10. \A i \in 1..Len(o) : Proper(o[i], s)
    BY <1>1, <1>3, <1>4, FewMessages, NoMessages DEF Proper
  <1>11. \A x : x # u => ~Mentions(m, x)
    BY <1>3 DEF Mentions, Speaks
  <1>12. \A x : ~Doomed(o, x) /\ ~New(o, x)
    BY <1>3, <1>4, FewMessages, NoMessages DEF Kills, Introduces
  <1>13. \A x : x # u => ~Mentioned(o, x)
    BY <1>4, <1>11, FewMessages, NoMessages
  <1>14. ASSUME NEW x \in UID, Home[x] = t PROVE Reads(s, t, None, o, x)
    <2>1. ByUID(s, x)' = ByUID(s, x)
      BY <1>1, <1>6, <1>14 DEF ByUID
    <2>. QED
      BY <1>12, <2>1, ReadsNothing
  <1>15. ASSUME NEW x \in UID, Home[x] = s PROVE Sends(s, t, None, o, x)
    <2>1. CASE x # u
      <3>1. Regs(s, x)' = Regs(s, x) /\ (Given(s, x) => Given(s, x)')
        BY <1>1, <1>6, <2>1 DEF Regs, Given
      <3>. QED
        BY <1>0, <1>13, <2>1, <3>1, SendsNothing
    <2>2. CASE x = u /\ ~r.reg
      <3>1. o = <<>> /\ Regs(s, u)' = Regs(s, u) /\ ~Given(s, u)
        BY <1>3, <1>4, <1>7, <2>2 DEF Regs, Given
      <3>. QED
        BY <1>0, <2>2, <3>1, SendsNothing, NoMessages
    <2>3. CASE x = u /\ r.reg
      <3>1. Given(s, u)' /\ Regs(s, u) = {r} /\ Regs(s, u)' = {Client(m)}
        BY <1>0, <1>1, <1>3, <1>7, <2>3 DEF Given, Regs
      <3>2. conn[s][t] = "up" => o = <<m>>
        BY <1>4, <2>3
      <3>3. Client(m) \in UserRec /\ r.nick # m.nick
        BY <1>1, <1>3, <2>3
      <3>. QED
        BY <1>3, <1>12, <2>3, <3>1, <3>2, <3>3 DEF Sends
    <2>. QED
      BY <2>1, <2>2, <2>3
  <1>. QED
    BY <1>0, <1>1, <1>2, <1>4, <1>8, <1>9, <1>10, <1>14, <1>15, CarryPair DEF IInv

\* A user of s leaves it, or an operator of s, k, kills a user of t.
LEMMA RemovePair ==
    ASSUME IInv, Routed, TwoServers, PairInv, NEW s \in Server, NEW t \in Server, s # t,
           NEW r \in users[s], NEW m, NEW out, NEW k,
           users' = [users EXCEPT ![s] = @ \ {r}], dir' = dir, used' = used,
           Net(s, None, None, out),
           \/ /\ Home[r.uid] = s /\ m = QUIT(r.uid)
              /\ out = IF r.reg THEN ToServers(Up(s), {}, m) ELSE NoOut
           \/ /\ Home[r.uid] = t /\ m = KILL(k, r.uid) /\ out = ToServers(Up(s), {}, m)
              /\ k \in UID /\ Home[k] = s /\ MaxOper # 0 /\ Given(s, k)
    PROVE  PairInv'
  <1>. DEFINE u == r.uid
              N == users[s] \ {r}
              o == out[t]
  <1>0. /\ \A x \in users[s] : /\ x \in UserRec /\ x.uid \in UID
                               /\ Home[x.uid] = s \/ Home[x.uid] = t
                               /\ Home[x.uid] = s => x.uid \in used
                               /\ Home[x.uid] = t => x.reg /\ conn[s][t] = "up"
        /\ \A r1, r2 \in users[s] : r1.uid = r2.uid => r1 = r2
        /\ t # None /\ \A x \in users[t] : x.uid \in UID
    BY UsersHere
  <1>2. users'[s] = N /\ users'[t] = users[t]
    BY DEF IInv, TableInv
  <1>3. /\ m \in Msg /\ m.uid = u /\ u \in UID
        /\ Home[u] = s => m.type = "QUIT"
        /\ Home[u] = t => m.type = "KILL" /\ m.src = k
    BY <1>0, MessageTypes DEF QUIT, KILL
  <1>4. /\ out \in Out /\ Apart(s) /\ Carried(s, None, None, out)
        /\ o = IF r.reg /\ conn[s][t] = "up" THEN <<m>> ELSE <<>>
        /\ o # <<>> => conn[s][t] = "up"
    <2>1. out = NoOut \/ out = ToServers(Up(s), {}, m)
      OBVIOUS
    <2>2. /\ out \in Out /\ Apart(s) /\ Carried(s, None, None, out)
          /\ out = NoOut => out[t] = <<>>
          /\ out = ToServers(Up(s), {}, m) =>
                out[t] = IF conn[s][t] = "up" THEN <<m>> ELSE <<>>
          /\ out[t] # <<>> => conn[s][t] = "up"
      BY <1>3, <2>1, ClientOutput
    <2>. QED
      BY <1>0, <2>2
  <1>5. \A x : ByUID(s, x)' = {y \in N : y.uid = x}
    BY <1>2 DEF ByUID
  <1>6. \A x \in UID : x # u => ByUID(s, x)' = ByUID(s, x)
    BY <1>5 DEF ByUID
  <1>7. ByUID(s, u) = {r} /\ ByUID(s, u)' = {}
    BY <1>0, <1>5 DEF ByUID
  <1>8. \A r1, r2 \in users'[s] : r1.uid = r2.uid => r1 = r2
    BY <1>0, <1>2
  <1>9. Locals(s)'
    BY <1>0, <1>2 DEF Locals
  <1>10. \A i \in 1..Len(o) : Proper(o[i], s)
    <2>1. Proper(m, s)
      BY <1>0, <1>3 DEF Proper
    <2>. QED
      BY <1>4, <2>1, FewMessages, NoMessages
  <1>. HIDE DEF o
  <1>11. \A x \in UID : x # u => ~Doomed(o, x) /\ ~New(o, x) /\ \A i \in 1..Len(o) : ~Speaks(o[i], x)
    <2>1. \A x \in UID : x # u => ~Speaks(m, x) /\ ~Kills(m, x) /\ ~Introduces(m, x)
      BY <1>3 DEF Speaks, Kills, Introduces
    <2>. QED
      BY <1>4, <2>1, FewMessages, NoMessages
  <1>12. \A x \in UID : x # u /\ Mentioned(o, x) => x = k /\ Home[u] = t
    <2>1. \A x \in UID : x # u /\ Mentions(m, x) => x = k /\ Home[u] = t
      BY <1>0, <1>3 DEF Mentions, Speaks
    <2>. QED
      BY <1>4, <2>1, FewMessages, NoMessages
  <1>14. ASSUME NEW x \in UID, Home[x] = t PROVE Reads(s, t, None, o, x)
    <2>1. CASE x # u
      BY <1>6, <1>11, <2>1, ReadsNothing
    <2>2. CASE x = u
      <3>1. o = <<m>> /\ Kills(m, u)
        BY <1>0, <1>3, <1>4, <1>14, <2>2 DEF Kills
      <3>2. Doomed(o, u)
        BY <3>1, FewMessages
      <3>. QED
        BY <1>7, <2>2, <3>2 DEF Reads
    <2>. QED
      BY <2>1, <2>2
  <1>15. ASSUME NEW x \in UID, Home[x] = s PROVE Sends(s, t, None, o, x)
    <2>1. CASE x # u
      <3>1. Regs(s, x)' = Regs(s, x) /\ Given(s, x)' = Given(s, x)
        BY <1>6, <2>1 DEF Regs, Given
      <3>2. Mentioned(o, x) => Given(s, x)'
        BY <1>12, <2>1, <3>1
      <3>. QED
        BY <1>0, <1>11, <2>1, <3>1, <3>2 DEF Sends
    <2>2. CASE x = u /\ ~r.reg
      <3>1. o = <<>> /\ Regs(s, u)' = {} /\ Regs(s, u) = {} /\ ~Given(s, u)
        BY <1>4, <1>7, <2>2 DEF Regs, Given
      <3>. QED
        BY <1>0, <2>2, <3>1, SendsNothing, NoMessages
    <2>3. CASE x = u /\ r.reg
      <3>1. Given(s, u)' /\ Regs(s, u)' = {}
        BY <1>0, <1>7, <1>15, <2>3 DEF Given, Regs
      <3>2. conn[s][t] = "up" => o = <<m>>
        BY <1>4, <2>3
      <3>3. m.type = "QUIT" /\ Speaks(m, u) /\ ~Introduces(m, u)
        BY <1>3, <1>15, <2>3 DEF Speaks, Introduces
      <3>4. ~New(o, u)
        BY <1>4, <3>3, FewMessages, NoMessages
      <3>5. conn[s][t] # "up" \/ (/\ \A i \in 1..Len(o) : Speaks(o[i], u) => o[i].type \in {"QUIT", "KILL"}
                                  /\ \E i \in 1..Len(o) : Speaks(o[i], u))
        BY <3>2, <3>3, FewMessages
      <3>. QED
        BY <2>3, <3>1, <3>4, <3>5 DEF Sends
    <2>. QED
      BY <2>1, <2>2, <2>3
  <1>16. used \subseteq used' /\ \A x \in UID : Home[x] = t /\ x \in used' => x \in used
    OBVIOUS
  <1>. QED
    BY <1>0, <1>2, <1>4, <1>8, <1>9, <1>10, <1>14, <1>15, <1>16, CarryPair DEF IInv, o

\* What clients and operators do but for SQUIT
LEMMA ClientPair ==
    ASSUME IInv, Routed, TwoServers, PairInv, NEW s \in Server, NEW t \in Server, s # t
    PROVE  /\ \A u \in UID, n \in Nick, ts \in TS : NickFirst(s, u, n, ts) => PairInv'
           /\ \A r \in users[s] :
                 /\ Register(s, r) \/ Quit(s, r) => PairInv'
                 /\ \A n \in Nick, ts \in TS : NickChange(s, r, n, ts) => PairInv'
                 /\ \A v \in users[s] : OperKill(s, r, v) => PairInv'
  <1>1. \A u \in UID, n \in Nick, ts \in TS : NickFirst(s, u, n, ts) => PairInv'
    BY NickFirstPair
  <1>2. ASSUME NEW r \in users[s] PROVE Register(s, r) => PairInv'
    BY RegisterPair
  <1>3. ASSUME NEW r \in users[s], Quit(s, r) PROVE PairInv'
    BY <1>3, RemovePair DEF Quit, Local
  <1>4. ASSUME NEW r \in users[s], NEW n \in Nick, NEW ts \in TS, NickChange(s, r, n, ts) PROVE PairInv'
    BY <1>4, NickChangePair
  <1>5. ASSUME NEW k \in users[s], NEW r \in users[s], OperKill(s, k, r) PROVE PairInv'
    <2>. DEFINE m == IF Local(s, r) THEN QUIT(r.uid) ELSE KILL(k.uid, r.uid)
                out == ToServers(Up(s), {}, m)
    <2>1. /\ Home[k.uid] = s /\ k.reg /\ r.reg /\ users' = [users EXCEPT ![s] = @ \ {r}]
          /\ Net(s, None, None, out) /\ dir' = dir /\ used' = used
      BY <1>5 DEF OperKill, Local
    <2>2. MaxOper # 0
      BY <1>5, ConstantsAssumption DEF OperKill, OperInput, IInv, CountInv
    <2>3. k.uid \in UID /\ Given(s, k.uid) /\ (Home[r.uid] = s \/ Home[r.uid] = t)
      <3>1. /\ k.uid \in UID /\ k.uid \in used /\ (Home[r.uid] = s \/ Home[r.uid] = t)
            /\ \A r2 \in users[s] : r2.uid = k.uid => r2 = k
        BY <2>1, UsersHere
      <3>. QED
        BY <2>1, <3>1 DEF Given, ByUID
    <2>4. CASE Home[r.uid] = s
      <3>1. m = QUIT(r.uid) /\ out = IF r.reg THEN ToServers(Up(s), {}, m) ELSE NoOut
        BY <2>1, <2>4 DEF Local
      <3>. HIDE DEF m, out
      <3>. QED
        BY <2>1, <2>4, <3>1, RemovePair
    <2>5. CASE Home[r.uid] = t
      <3>1. m = KILL(k.uid, r.uid) /\ out = ToServers(Up(s), {}, m)
        BY <2>5 DEF Local
      <3>. HIDE DEF m, out
      <3>. QED
        BY <2>1, <2>2, <2>3, <2>5, <3>1, RemovePair
    <2>. QED
      BY <2>3, <2>4, <2>5
  <1>. QED
    BY <1>1, <1>2, <1>3, <1>4, <1>5

-----------------------------------------------------------------------------
(* What messages do *)

\* A message of the other server that is not of a handshake
Arrived(s, t) == s # t /\ chan[t][s] # <<>> /\ ~Opening(Head(chan[t][s]))

\* What is known of it
LEMMA MessageHere ==
    ASSUME IInv, Handshakes, Routed, TwoServers, PairInv, NEW s \in Server, NEW t \in Server, Arrived(s, t)
    PROVE  LET m == Head(chan[t][s])
           IN  /\ conn[s][t] = "up" /\ dir[s][t] = t /\ Up(s) = {t}
               /\ m \in Msg /\ m.type \in {"UID", "NICK", "QUIT", "KILL"} /\ m.uid \in UID
               /\ m.type # "KILL" => Home[m.uid] = t
               /\ m.type = "KILL" => \/ m.src = t
                                     \/ m.src \in UID /\ Home[m.src] = t /\ MaxOper # 0 /\ Home[m.uid] = s
               /\ \A u \in UID : Home[u] = s \/ Home[u] = t
               /\ \A u \in UID : Home[u] = t => Flow(t, s, u)
  <1>. DEFINE m == Head(chan[t][s])
  <1>1. s # t /\ m \in Msg
    BY ReceivedMessage DEF Arrived, IInv
  <1>2. conn[s][t] = "up"
    BY OrdinaryHead DEF Arrived, IInv
  <1>3. dir[s][t] = t /\ Up(s) = {t}
    BY <1>1, <1>2, UsersHere
  <1>4. Proper(m, t)
    <2>1. chan[t][s] \in Seq(Msg)
      BY DEF IInv, LinkInv, Streams
    <2>2. 1 \in 1..Len(chan[t][s]) /\ m = chan[t][s][1]
      BY <2>1 DEF Arrived
    <2>3. \A i \in 1..Len(chan[t][s]) : Proper(chan[t][s][i], t)
      BY <1>1 DEF PairInv, Flows
    <2>. HIDE DEF m
    <2>. QED
      BY <2>2, <2>3
  <1>5. \A u \in UID : Home[u] = s \/ Home[u] = t
    BY <1>1, OtherServer, ConstantsAssumption
  <1>6. \A u \in UID : Home[u] = t => Flow(t, s, u)
    BY <1>1 DEF PairInv, Flows
  <1>7. m.type \in {"UID", "NICK", "QUIT", "KILL"} /\ m.uid \in UID
    <2>1. m.type \notin {"EAUTH", "SERVER", "SID", "SQUIT"}
      BY <1>4 DEF Arrived, Opening, Proper
    <2>2. m.type \in {"EAUTH", "SERVER", "SID", "SQUIT", "UID", "NICK", "QUIT", "KILL"}
      BY <1>1 DEF Msg
    <2>. QED
      BY <1>1, <2>1, <2>2, MessageFields
  <1>8. /\ m.type # "KILL" => Home[m.uid] = t
        /\ m.type = "KILL" => \/ m.src = t
                              \/ m.src \in UID /\ Home[m.src] = t /\ MaxOper # 0 /\ Home[m.uid] = s
    BY <1>4, <1>5, <1>7 DEF Proper
  <1>. HIDE DEF m
  <1>. QED
    BY <1>1, <1>2, <1>3, <1>5, <1>6, <1>7, <1>8 DEF m

\* It is enough to look at what s does to the users of the two servers.
LEMMA MessagePair ==
    ASSUME IInv, Handshakes, Routed, TwoServers, PairInv, NEW s \in Server, NEW t \in Server,
           Arrived(s, t), NEW out \in Out, Net(s, t, None, out), NEW N,
           users' = [users EXCEPT ![s] = N], dir' = dir, used' = used,
           \A r1, r2 \in N : r1.uid = r2.uid => r1 = r2,
           \A r \in N : r \in users[s] \/ (Home[r.uid] = t /\ r.reg),
           \A i \in 1..Len(out[t]) : Proper(out[t][i], s),
           \A u \in UID : Home[u] = t => Reads(s, t, t, out[t], u),
           \A u \in UID : Home[u] = s => Sends(s, t, t, out[t], u)
    PROVE  PairInv'
  <1>1. s # t /\ chan[t][s] # <<>> /\ conn[s][t] = "up" /\ t # None
    BY MessageHere, ConstantsAssumption DEF Arrived
  <1>2. Apart(s) /\ Carried(s, t, None, out)
    <2>1. None # s
      BY ConstantsAssumption
    <2>. QED
      BY <1>1, <2>1, NetEffect DEF IInv
  <1>3. users'[s] = N /\ users'[t] = users[t]
    BY <1>1 DEF IInv, TableInv
  <1>4. Locals(s)'
    <2>1. \A r \in users[s] : IF Home[r.uid] = s THEN r.uid \in used ELSE r.reg
      BY DEF PairInv, Locals
    <2>. QED
      BY <1>1, <1>3, <2>1 DEF Locals
  <1>5. \A r \in users[t] : r.uid \in UID
    BY <1>1, UsersHere
  <1>6. used \subseteq used' /\ \A x \in UID : Home[x] = t /\ x \in used' => x \in used
    OBVIOUS
  <1>. QED
    BY <1>1, <1>2, <1>3, <1>4, <1>5, <1>6, CarryPair DEF IInv

\* A user of t that s does not touch,
LEMMA ReadsOther ==
    ASSUME NEW s, NEW t \in Server, NEW o, NEW u, ~Speaks(Head(chan[t][s]), u), ~Doomed(o, u),
           ByUID(s, u)' = ByUID(s, u)
    PROVE  Reads(s, t, t, o, u)
  <1>1. t # None /\ ~Introduces(Head(chan[t][s]), u)
    BY ConstantsAssumption, MentionKinds
  <1>. QED
    BY <1>1 DEF Reads, Takes, Turn

\* one that takes the message as it is meant,
LEMMA ReadsTurn ==
    ASSUME NEW s, NEW t \in Server, NEW o, NEW u, ~Doomed(o, u),
           Takes(Head(chan[t][s]), u, ByUID(s, u), ByUID(s, u)'),
           Live(t, s) => Turn(Head(chan[t][s]), u, ByUID(s, u), ByUID(s, u)')
    PROVE  Reads(s, t, t, o, u)
  <1>1. t # None
    BY ConstantsAssumption
  <1>. QED
    BY <1>1 DEF Reads

\* and one that s kills
LEMMA ReadsKilled ==
    ASSUME NEW s, NEW t \in Server, NEW o, NEW u, Doomed(o, u), ByUID(s, u)' = {},
           ByUID(s, u) # {} \/ Mentions(Head(chan[t][s]), u)
    PROVE  Reads(s, t, t, o, u)
  BY DEF Reads

\* A user of s that it does not touch,
LEMMA SendsOther ==
    ASSUME NEW s, NEW t \in Server, NEW o, NEW u, ~Mentioned(o, u), used' = used,
           ByUID(s, u)' = ByUID(s, u), Kills(Head(chan[t][s]), u) => MaxOper # 0
    PROVE  Sends(s, t, t, o, u)
  <1>1. Regs(s, u)' = Regs(s, u) /\ Given(s, u)' = Given(s, u)
    BY DEF Regs, Given
  <1>. QED
    BY <1>1, SendsNothing

\* one that loses its nick before it has registered,
LEMMA SendsOverridden ==
    ASSUME NEW s, NEW t \in Server, NEW o, NEW u, ~Mentioned(o, u), used' = used,
           NEW r, ByUID(s, u) = {r}, ~r.reg, ByUID(s, u)' = {}
    PROVE  Sends(s, t, t, o, u)
  <1>1. Regs(s, u)' = {} /\ Regs(s, u) = {} /\ ~Given(s, u)
    BY DEF Regs, Given
  <1>. QED
    BY <1>1, SendsNothing

\* and one that s kills
LEMMA SendsKilled ==
    ASSUME NEW s, NEW t \in Server, NEW o, NEW u, u \in used, used' = used, ByUID(s, u)' = {},
           ~New(o, u), \A i \in 1..Len(o) : Speaks(o[i], u) => o[i].type \in {"QUIT", "KILL"},
           (\E i \in 1..Len(o) : Speaks(o[i], u)) \/ Kills(Head(chan[t][s]), u)
    PROVE  Sends(s, t, t, o, u)
  <1>1. Regs(s, u)' = {} /\ Given(s, u)'
    BY DEF Regs, Given
  <1>. QED
    BY <1>1 DEF Sends

\* What a server kills of its own accord
LEMMA Killings ==
    ASSUME NEW s \in Server, NEW u \in UID
    PROVE  /\ KILL(s, u) \in Msg /\ Proper(KILL(s, u), s) /\ KILL(s, u).type = "KILL"
           /\ Kills(KILL(s, u), u) /\ Speaks(KILL(s, u), u)
           /\ \A x : ~Introduces(KILL(s, u), x)
           /\ \A x \in UID : x # u => ~Mentions(KILL(s, u), x)
  <1>1. s \notin UID /\ KILL(s, u) \in Msg
    BY MessageTypes, ConstantsAssumption
  <1>. QED
    BY <1>1 DEF KILL, Proper, Kills, Speaks, Introduces, Mentions

\* The source of a message is not known.
LEMMA BadSourcePair ==
    ASSUME IInv, Handshakes, Routed, TwoServers, PairInv, NEW s \in Server, NEW t \in Server,
           RecvBadSource(s, t)
    PROVE  PairInv'
  <1>. DEFINE m == Head(chan[t][s])
              src == Source(m)
              out == IF SourceKnown(s, src) THEN NoOut
                     ELSE One(t, IF src \in UID THEN KILL(s, src) ELSE SQUIT(src))
  <1>1. chan[t][s] # <<>> /\ m.type \in {"SID", "UID", "NICK", "QUIT", "KILL"}
        /\ ~(SourceKnown(s, src) /\ Direction(s, src) = t)
    BY DEF RecvBadSource, Accepts, Receives
  <1>2. s # t /\ Arrived(s, t)
    <2>1. s # t
      BY <1>1, ReceivedMessage DEF IInv
    <2>. QED
      BY <1>1, <2>1 DEF Arrived, Opening
  <1>3. /\ conn[s][t] = "up" /\ dir[s][t] = t
        /\ m \in Msg /\ m.type \in {"UID", "NICK", "QUIT", "KILL"} /\ m.uid \in UID
        /\ m.type # "KILL" => Home[m.uid] = t
        /\ m.type = "KILL" => \/ m.src = t
                              \/ m.src \in UID /\ Home[m.src] = t /\ MaxOper # 0 /\ Home[m.uid] = s
        /\ t # None /\ t \notin UID
    BY <1>2, MessageHere, ConstantsAssumption
  <1>4. /\ m.type = "KILL" \/ m.type = "NICK" \/ m.type = "QUIT"
        /\ src \in UID /\ Home[src] = t /\ ByUID(s, src) = {}
        /\ m.type = "KILL" => src = m.src /\ Home[m.uid] = s /\ MaxOper # 0
        /\ m.type # "KILL" => src = m.uid
    BY <1>1, <1>3 DEF Source, SourceKnown, Direction, Hashed, Known
  <1>5. out = One(t, KILL(s, src)) /\ out[t] = <<KILL(s, src)>>
    BY <1>4 DEF SourceKnown, One
  <1>6. /\ Net(s, t, None, out) /\ users' = users /\ dir' = dir /\ used' = used
    BY DEF RecvBadSource, Reply, tables
  <1>. HIDE DEF m, src, out
  <1>7. /\ KILL(s, src) \in Msg /\ Proper(KILL(s, src), s) /\ Kills(KILL(s, src), src)
        /\ \A x \in UID : x # src => ~Mentions(KILL(s, src), x)
    BY <1>4, Killings
  <1>8. out \in Out /\ \A i \in 1..Len(out[t]) : Proper(out[t][i], s)
    BY <1>5, <1>7, OutTypes, FewMessages
  <1>9. Doomed(out[t], src) /\ \A x \in UID : x # src => ~Mentioned(out[t], x)
    BY <1>5, <1>7, FewMessages
  <1>10. \A x : ByUID(s, x)' = ByUID(s, x)
    BY <1>6 DEF ByUID
  <1>11. ASSUME NEW x \in UID, Home[x] = t PROVE Reads(s, t, t, out[t], x)
    <2>1. CASE x = src
      <3>1. Mentions(m, src)
        BY <1>4 DEF Mentions, Speaks
      <3>. QED
        BY <1>4, <1>9, <1>10, <2>1, <3>1, ReadsKilled DEF m
    <2>2. CASE x # src
      <3>1. ~Speaks(m, x) /\ ~Doomed(out[t], x)
        BY <1>2, <1>4, <1>9, <1>11, <2>2, MentionKinds DEF Speaks
      <3>. QED
        BY <1>10, <3>1, ReadsOther DEF m
    <2>. QED
      BY <2>1, <2>2
  <1>12. ASSUME NEW x \in UID, Home[x] = s PROVE Sends(s, t, t, out[t], x)
    <2>1. ~Mentioned(out[t], x)
      BY <1>2, <1>4, <1>9, <1>12
    <2>2. Kills(m, x) => MaxOper # 0
      BY <1>4 DEF Kills
    <2>. QED
      BY <1>6, <1>10, <2>1, <2>2, SendsOther DEF m
  <1>13. users' = [users EXCEPT ![s] = users[s]] /\ \A r1, r2 \in users[s] : r1.uid = r2.uid => r1 = r2
    BY <1>6 DEF IInv, TableInv, PairInv, UIDUnique
  <1>. QED
    BY <1>2, <1>6, <1>8, <1>11, <1>12, <1>13, MessagePair

\* A user of t quits.
LEMMA QuitPair ==
    ASSUME IInv, Handshakes, Routed, TwoServers, PairInv, NEW s \in Server, NEW t \in Server,
           RecvQUIT(s, t)
    PROVE  PairInv'
  <1>. DEFINE m == Head(chan[t][s])
              out == ToServers(Up(s), {t}, m)
              N == users[s] \ ByUID(s, m.uid)
  <1>1. /\ chan[t][s] # <<>> /\ m.type = "QUIT" /\ Net(s, t, None, out)
        /\ users' = [users EXCEPT ![s] = N] /\ dir' = dir /\ used' = used
    BY DEF RecvQUIT, Accepts, Receives
  <1>2. s # t /\ Arrived(s, t) /\ m \in Msg
    BY <1>1, ReceivedMessage DEF IInv, Arrived, Opening
  <1>3. PICK u \in UID : u = m.uid /\ Home[u] = t
    BY <1>1, <1>2, MessageHere
  <1>4. out \in Out /\ out[t] = <<>>
    BY <1>2, OutTypes DEF ToServers
  <1>. HIDE DEF m, out
  <1>5. users'[s] = N
    BY <1>1 DEF IInv, TableInv
  <1>6. ByUID(s, u)' = {} /\ \A x : x # u => ByUID(s, x)' = ByUID(s, x)
    BY <1>3, <1>5 DEF ByUID
  <1>7. \A x : ~Doomed(out[t], x) /\ ~Mentioned(out[t], x)
    BY <1>4, NoMessages
  <1>8. ASSUME NEW x \in UID, Home[x] = t PROVE Reads(s, t, t, out[t], x)
    <2>1. CASE x # u
      <3>1. ~Speaks(m, x)
        BY <1>3, <2>1 DEF Speaks
      <3>. QED
        BY <1>6, <1>7, <2>1, <3>1, ReadsOther DEF m
    <2>2. CASE x = u
      <3>1. Turn(m, u, ByUID(s, u), {})
        BY <1>1, <1>3 DEF Turn, Speaks
      <3>2. Takes(m, u, ByUID(s, u), {})
        BY <3>1, TurnTakes
      <3>3. Takes(m, u, ByUID(s, u), ByUID(s, u)') /\ Turn(m, u, ByUID(s, u), ByUID(s, u)')
        BY <1>6, <3>1, <3>2
      <3>4. /\ Takes(Head(chan[t][s]), x, ByUID(s, x), ByUID(s, x)')
            /\ Turn(Head(chan[t][s]), x, ByUID(s, x), ByUID(s, x)')
        BY <2>2, <3>3 DEF m
      <3>. QED
        BY <1>7, <3>4, ReadsTurn
    <2>. QED
      BY <2>1, <2>2
  <1>9. ASSUME NEW x \in UID, Home[x] = s PROVE Sends(s, t, t, out[t], x)
    <2>1. x # u /\ ~Kills(m, x)
      BY <1>1, <1>2, <1>3, <1>9 DEF Kills
    <2>. QED
      BY <1>1, <1>6, <1>7, <2>1, SendsOther DEF m
  <1>10. \A i \in 1..Len(out[t]) : Proper(out[t][i], s)
    BY <1>4, NoMessages
  <1>11. \A r1, r2 \in N : r1.uid = r2.uid => r1 = r2
    BY DEF PairInv, UIDUnique
  <1>12. \A r \in N : r \in users[s]
    OBVIOUS
  <1>. QED
    BY <1>1, <1>2, <1>4, <1>8, <1>9, <1>10, <1>11, <1>12, MessagePair

\* A KILL is obeyed.
LEMMA KillPair ==
    ASSUME IInv, Handshakes, Routed, TwoServers, PairInv, NEW s \in Server, NEW t \in Server,
           RecvKILL(s, t)
    PROVE  PairInv'
  <1>. DEFINE m == Head(chan[t][s])
              victim == {r \in ByUID(s, m.uid) : r.reg}
              asQuit == Home[m.uid] = s /\ m.src \in Up(s)
              out == IF victim = {} THEN NoOut
                     ELSE IF asQuit THEN ToServers(Up(s), {}, QUIT(m.uid))
                     ELSE ToServers(Up(s), {t}, m)
              N == users[s] \ victim
  <1>1. /\ chan[t][s] # <<>> /\ m.type = "KILL" /\ Net(s, t, None, out)
        /\ users' = [users EXCEPT ![s] = N] /\ dir' = dir /\ used' = used
    BY DEF RecvKILL, Accepts, Receives
  <1>2. s # t /\ Arrived(s, t) /\ m \in Msg
    BY <1>1, ReceivedMessage DEF IInv, Arrived, Opening
  <1>3. PICK u \in UID : u = m.uid
    BY <1>1, <1>2, MessageHere
  <1>a. /\ (Home[u] = s \/ Home[u] = t) /\ Up(s) = {t}
        /\ Home[u] = t => m.src = t
    <2>1. m.type = "KILL" /\ Arrived(s, t)
      BY <1>1, <1>2
    <2>2. \A x \in UID : Home[x] = s \/ Home[x] = t
      BY <2>1, MessageHere
    <2>3. Up(s) = {t} /\ (m.src = t \/ Home[m.uid] = s)
      BY <2>1, MessageHere
    <2>. QED
      BY <1>2, <1>3, <2>2, <2>3
  <1>4. /\ \A x \in users[s] : /\ Home[x.uid] = s => x.uid \in used
                               /\ Home[x.uid] = t => x.reg
        /\ \A r1, r2 \in users[s] : r1.uid = r2.uid => r1 = r2
    BY <1>2, UsersHere
  <1>5. /\ out \in Out
        /\ out[t] = <<>> \/ (out[t] = <<QUIT(u)>> /\ victim # {} /\ Home[u] = s)
    <2>1. QUIT(u) \in Msg
      BY <1>3, MessageTypes
    <2>2. out \in Out
      BY <1>2, <1>3, <2>1, OutTypes
    <2>. QED
      BY <1>3, <1>a, <2>2 DEF ToServers, NoOut
  <1>. HIDE DEF m, out
  <1>6. users'[s] = N
    BY <1>1 DEF IInv, TableInv
  <1>7. ByUID(s, u)' = ByUID(s, u) \ victim /\ \A x : x # u => ByUID(s, x)' = ByUID(s, x)
    BY <1>3, <1>6 DEF ByUID
  <1>8. /\ QUIT(u).type = "QUIT" /\ Home[u] = s => Proper(QUIT(u), s)
        /\ \A x : ~Kills(QUIT(u), x) /\ ~Introduces(QUIT(u), x) /\ (Mentions(QUIT(u), x) => x = u)
    BY DEF QUIT, Proper, Kills, Introduces, Mentions, Speaks
  <1>9. /\ \A x : ~Doomed(out[t], x) /\ ~New(out[t], x) /\ (Mentioned(out[t], x) => x = u /\ victim # {})
        /\ \A i \in 1..Len(out[t]) : Proper(out[t][i], s) /\ out[t][i].type = "QUIT"
    <2>1. CASE out[t] = <<>>
      BY <2>1, NoMessages
    <2>2. CASE out[t] = <<QUIT(u)>> /\ victim # {} /\ Home[u] = s
      <3>1. QUIT(u).type = "QUIT" /\ Proper(QUIT(u), s)
        BY <2>2 DEF QUIT, Proper
      <3>. QED
        BY <1>8, <2>2, <3>1, FewMessages
    <2>. QED
      BY <1>5, <2>1, <2>2
  <1>10. ASSUME NEW x \in UID, Home[x] = t PROVE Reads(s, t, t, out[t], x)
    <2>1. CASE x # u
      <3>1. ~Speaks(m, x)
        BY <1>3, <2>1 DEF Speaks
      <3>. QED
        BY <1>7, <1>9, <2>1, <3>1, ReadsOther DEF m
    <2>2. CASE x = u
      <3>0. ByUID(s, u)' = {}
        BY <1>3, <1>4, <1>7, <1>10, <2>2 DEF ByUID
      <3>1. Turn(m, u, ByUID(s, u), {})
        BY <1>1, <1>3 DEF Turn, Speaks
      <3>2. Takes(m, u, ByUID(s, u), {})
        BY <3>1, TurnTakes
      <3>3. Takes(m, u, ByUID(s, u), ByUID(s, u)') /\ Turn(m, u, ByUID(s, u), ByUID(s, u)')
        BY <3>0, <3>1, <3>2
      <3>4. /\ Takes(Head(chan[t][s]), x, ByUID(s, x), ByUID(s, x)')
            /\ Turn(Head(chan[t][s]), x, ByUID(s, x), ByUID(s, x)')
        BY <2>2, <3>3 DEF m
      <3>. QED
        BY <1>9, <3>4, ReadsTurn
    <2>. QED
      BY <2>1, <2>2
  <1>11. ASSUME NEW x \in UID, Home[x] = s PROVE Sends(s, t, t, out[t], x)
    <2>1. CASE x # u
      <3>1. ~Kills(m, x)
        BY <1>3, <2>1 DEF Kills
      <3>. QED
        BY <1>1, <1>7, <1>9, <2>1, <3>1, SendsOther DEF m
    <2>2. CASE x = u
      <3>1. /\ Regs(s, u)' = {} /\ Kills(m, u)
            /\ \A i \in 1..Len(out[t]) : Speaks(out[t][i], u) => out[t][i].type \in {"QUIT", "KILL"}
        BY <1>1, <1>3, <1>7, <1>9 DEF Regs, Kills
      <3>2. Given(s, u) => Given(s, u)'
        BY <1>1, <1>7 DEF Given
      <3>3. victim # {} => Given(s, u)
        BY <1>3, <1>4, <1>11, <2>2 DEF Given, ByUID
      <3>4. Mentioned(out[t], u) => Given(s, u)'
        BY <1>9, <3>2, <3>3
      <3>. QED
        BY <1>9, <2>2, <3>1, <3>2, <3>4 DEF Sends, m
    <2>. QED
      BY <2>1, <2>2
  <1>12. \A r1, r2 \in N : r1.uid = r2.uid => r1 = r2
    BY <1>4
  <1>13. \A r \in N : r \in users[s]
    OBVIOUS
  <1>14. \A i \in 1..Len(out[t]) : Proper(out[t][i], s)
    BY <1>9
  <1>. QED
    BY <1>1, <1>2, <1>5, <1>10, <1>11, <1>12, <1>13, <1>14, MessagePair

\* A way to a client starts with a NICK that is a real change.
LEMMA RealChange ==
    ASSUME NEW q \in Seq(Msg), q # <<>>, NEW p, NEW u, NEW v, NEW G, Agree(q, p, u, v, G),
           Speaks(Head(q), u), Head(q).type = "NICK", v # {}
    PROVE  \A r \in v : r.nick # Head(q).nick
  <1>1. PICK h \in [0..Len(q) -> SUBSET UserRec] :
           /\ h[0] = v
           /\ \A i \in 1..Len(q) : Turn(q[i], u, h[i - 1], h[i])
    BY DEF Agree, Leads
  <1>2. Len(q) \in Nat /\ Len(q) # 0 /\ Head(q) = q[1] /\ 1 \in 1..Len(q) /\ 1 - 1 = 0
    OBVIOUS
  <1>3. Turn(q[1], u, h[0], h[1])
    BY <1>1, <1>2
  <1>4. Turn(Head(q), u, v, h[1])
    BY <1>1, <1>2, <1>3
  <1>. QED
    BY <1>4 DEF Turn

\* The user u of a UID or NICK and those that s has under it before
LEMMA IntroducedHere ==
    ASSUME IInv, Handshakes, Routed, TwoServers, PairInv, NEW s \in Server, NEW t \in Server,
           Arrived(s, t), Head(chan[t][s]).type \in {"UID", "NICK"}
    PROVE  \E u \in UID :
             LET m == Head(chan[t][s])
             IN  /\ m \in Msg /\ m.uid = u /\ Home[u] = t /\ Client(m) \in UserRec
                 /\ Client(m).uid = u /\ Client(m).reg
                 /\ \A x : Speaks(m, x) <=> x = u
                 /\ \A x : ~Kills(m, x)
                 /\ m.type = "UID" => ByUID(s, u) = {}
                 /\ m.type = "NICK" /\ Live(t, s) => \A r \in ByUID(s, u) : r.nick # m.nick
  <1>. DEFINE m == Head(chan[t][s])
  <1>1. m \in Msg /\ m.uid \in UID /\ Home[m.uid] = t /\ Flow(t, s, m.uid)
    BY MessageHere
  <1>2. m.nick \in Nick /\ m.ts \in TS
    BY <1>1, MessageFields
  <1>3. chan[t][s] \in Seq(Msg) /\ chan[t][s] # <<>>
    BY DEF IInv, LinkInv, Streams, Arrived
  <1>4. m.type \in {"UID", "NICK"}
    OBVIOUS
  <1>5. m.type = "UID" => ByUID(s, m.uid) = {}
    <2>1. SUFFICES ASSUME m.type = "UID" PROVE ByUID(s, m.uid) = {}
      OBVIOUS
    <2>2. 1 \in 1..Len(chan[t][s]) /\ chan[t][s][1] = m
      BY <1>3
    <2>3. New(chan[t][s], m.uid)
      BY <2>1, <2>2 DEF New, Introduces
    <2>. HIDE DEF m
    <2>. QED
      BY <1>1, <2>3 DEF Flow, Fresh
  <1>6. m.type = "NICK" /\ Live(t, s) => \A r \in ByUID(s, m.uid) : r.nick # m.nick
    <2>1. SUFFICES ASSUME m.type = "NICK", Live(t, s), ByUID(s, m.uid) # {}
                   PROVE  \A r \in ByUID(s, m.uid) : r.nick # m.nick
      OBVIOUS
    <2>2. Agree(chan[t][s], chan[s][t], m.uid, ByUID(s, m.uid), Regs(t, m.uid))
      BY <1>1, <2>1 DEF Flow
    <2>3. Speaks(Head(chan[t][s]), m.uid) /\ Head(chan[t][s]).type = "NICK"
      BY <2>1 DEF Speaks
    <2>. QED
      BY <1>3, <2>1, <2>2, <2>3, RealChange
  <1>. HIDE DEF m
  <1>7. Client(m) \in UserRec /\ Client(m).uid = m.uid /\ Client(m).reg
    BY <1>1, <1>2 DEF Client, UserRec
  <1>8. (\A x : Speaks(m, x) <=> x = m.uid) /\ \A x : ~Kills(m, x)
    BY <1>4 DEF Speaks, Kills
  <1>. QED
    BY <1>1, <1>5, <1>6, <1>7, <1>8 DEF m

\* The user of a UID or NICK meets nobody.
LEMMA EnterPair ==
    ASSUME IInv, Handshakes, Routed, TwoServers, PairInv, NEW s \in Server, NEW t \in Server,
           Arrived(s, t), Head(chan[t][s]).type \in {"UID", "NICK"},
           NEW out \in Out, out[t] = <<>>, Net(s, t, None, out),
           LET m == Head(chan[t][s])
           IN  /\ m.type = "NICK" => ByUID(s, m.uid) # {}
               /\ users' = [users EXCEPT ![s] = (users[s] \ ByUID(s, m.uid)) \cup {Client(m)}],
           dir' = dir, used' = used
    PROVE  PairInv'
  <1>. DEFINE m == Head(chan[t][s])
              N == (users[s] \ ByUID(s, m.uid)) \cup {Client(m)}
  <1>1. s # t
    BY DEF Arrived
  <1>2. PICK u \in UID :
          /\ m \in Msg /\ m.uid = u /\ Home[u] = t /\ Client(m) \in UserRec
          /\ Client(m).uid = u /\ Client(m).reg
          /\ \A x : Speaks(m, x) <=> x = u
          /\ \A x : ~Kills(m, x)
          /\ m.type = "UID" => ByUID(s, u) = {}
          /\ m.type = "NICK" /\ Live(t, s) => \A r \in ByUID(s, u) : r.nick # m.nick
    BY IntroducedHere
  <1>3. users'[s] = N /\ m.type \in {"UID", "NICK"} /\ (m.type = "NICK" => ByUID(s, u) # {})
    BY <1>2 DEF IInv, TableInv
  <1>. DEFINE new == Client(m)
  <1>4. users' = [users EXCEPT ![s] = N]
    OBVIOUS
  <1>. HIDE DEF m, new
  <1>5. \A x : x # u => ByUID(s, x)' = ByUID(s, x)
    BY <1>2, <1>3 DEF ByUID, new
  <1>6. ByUID(s, u)' = {new}
    BY <1>2, <1>3 DEF ByUID, new
  <1>7. \A x : ~Doomed(out[t], x) /\ ~Mentioned(out[t], x)
    BY NoMessages
  <1>8. ASSUME NEW x \in UID, Home[x] = t PROVE Reads(s, t, t, out[t], x)
    <2>1. CASE x # u
      BY <1>2, <1>5, <1>7, <2>1, ReadsOther DEF m
    <2>2. CASE x = u
      <3>1. Takes(m, u, ByUID(s, u), {new})
        BY <1>2, <1>3 DEF Takes, Introduces
      <3>2. Live(t, s) => Turn(m, u, ByUID(s, u), {new})
        BY <1>2, <1>3 DEF Turn, new
      <3>3. /\ Takes(Head(chan[t][s]), x, ByUID(s, x), ByUID(s, x)')
            /\ Live(t, s) => Turn(Head(chan[t][s]), x, ByUID(s, x), ByUID(s, x)')
        BY <1>6, <2>2, <3>1, <3>2 DEF m
      <3>. QED
        BY <1>7, <3>3, ReadsTurn
    <2>. QED
      BY <2>1, <2>2
  <1>9. ASSUME NEW x \in UID, Home[x] = s PROVE Sends(s, t, t, out[t], x)
    <2>1. x # u
      BY <1>1, <1>2, <1>9
    <2>. QED
      BY <1>2, <1>5, <1>7, <2>1, SendsOther DEF m
  <1>10. \A r1, r2 \in N : r1.uid = r2.uid => r1 = r2
    <2>1. \A r1, r2 \in users[s] : r1.uid = r2.uid => r1 = r2
      BY DEF PairInv, UIDUnique
    <2>. QED
      BY <1>2, <2>1 DEF ByUID, new
  <1>11. \A r \in N : r \in users[s] \/ (Home[r.uid] = t /\ r.reg)
    BY <1>2
  <1>12. \A i \in 1..Len(out[t]) : Proper(out[t][i], s)
    BY NoMessages
  <1>. HIDE DEF N
  <1>. QED
    BY <1>4, <1>8, <1>9, <1>10, <1>11, <1>12, MessagePair

\* What t gets of a collision: the KILL of u, if it loses, and that of x
Sentence(s, u, x, verdict) ==
    (IF verdict \in {"equal", "existing_won"} THEN <<KILL(s, u)>> ELSE <<>>)
        \o (IF verdict \in {"equal", "new_won"} THEN <<KILL(s, x)>> ELSE <<>>)

\* It is proper, introduces nobody and has to do with the losers only.
LEMMA SentenceMessages ==
    ASSUME NEW s \in Server, NEW u \in UID, NEW x \in UID, NEW verdict
    PROVE  LET o == Sentence(s, u, x, verdict)
           IN  /\ \A i \in 1..Len(o) : Proper(o[i], s) /\ o[i].type = "KILL"
               /\ \A y : ~New(o, y)
               /\ \A y \in UID : (Doomed(o, y) \/ Mentioned(o, y)) =>
                     \/ y = u /\ verdict \in {"equal", "existing_won"}
                     \/ y = x /\ verdict \in {"equal", "new_won"}
               /\ verdict \in {"equal", "existing_won"} => Doomed(o, u)
               /\ verdict \in {"equal", "new_won"} => Doomed(o, x) /\ \E i \in 1..Len(o) : Speaks(o[i], x)
  <1>. DEFINE a == IF verdict \in {"equal", "existing_won"} THEN <<KILL(s, u)>> ELSE <<>>
              b == IF verdict \in {"equal", "new_won"} THEN <<KILL(s, x)>> ELSE <<>>
              o == a \o b
              P(q) == \A i \in 1..Len(q) : Proper(q[i], s) /\ q[i].type = "KILL"
  <1>1. /\ KILL(s, u) \in Msg /\ Proper(KILL(s, u), s) /\ KILL(s, u).type = "KILL" /\ Kills(KILL(s, u), u)
        /\ (\A y : ~Introduces(KILL(s, u), y)) /\ \A y \in UID : y # u => ~Mentions(KILL(s, u), y)
    BY Killings
  <1>2. /\ KILL(s, x) \in Msg /\ Proper(KILL(s, x), s) /\ KILL(s, x).type = "KILL" /\ Kills(KILL(s, x), x)
        /\ (\A y : ~Introduces(KILL(s, x), y)) /\ \A y \in UID : y # x => ~Mentions(KILL(s, x), y)
    BY Killings
  <1>3. /\ a \in Seq(Msg) /\ P(a) /\ (\A y : ~New(a, y))
        /\ \A y \in UID : Mentioned(a, y) => y = u /\ verdict \in {"equal", "existing_won"}
        /\ verdict \in {"equal", "existing_won"} => Doomed(a, u)
    <2>1. CASE verdict \in {"equal", "existing_won"}
      <3>1. a = <<KILL(s, u)>> /\ a \in Seq(Msg)
        BY <1>1, <2>1
      <3>. HIDE DEF a
      <3>. QED
        BY <1>1, <2>1, <3>1, FewMessages
    <2>2. CASE verdict \notin {"equal", "existing_won"}
      <3>1. a = <<>> /\ a \in Seq(Msg)
        BY <2>2
      <3>. HIDE DEF a
      <3>. QED
        BY <2>2, <3>1, NoMessages
    <2>. QED
      BY <2>1, <2>2
  <1>4. /\ b \in Seq(Msg) /\ P(b) /\ (\A y : ~New(b, y))
        /\ \A y \in UID : Mentioned(b, y) => y = x /\ verdict \in {"equal", "new_won"}
        /\ verdict \in {"equal", "new_won"} => Doomed(b, x)
    <2>1. CASE verdict \in {"equal", "new_won"}
      <3>1. b = <<KILL(s, x)>> /\ b \in Seq(Msg)
        BY <1>2, <2>1
      <3>. HIDE DEF b
      <3>. QED
        BY <1>2, <2>1, <3>1, FewMessages
    <2>2. CASE verdict \notin {"equal", "new_won"}
      <3>1. b = <<>> /\ b \in Seq(Msg)
        BY <2>2
      <3>. HIDE DEF b
      <3>. QED
        BY <2>2, <3>1, NoMessages
    <2>. QED
      BY <2>1, <2>2
  <1>5. Sentence(s, u, x, verdict) = o
    BY DEF Sentence
  <1>. HIDE DEF a, b
  <1>6. P(o)
    <2>1. \A i \in 1..Len(o) : \/ i \in 1..Len(a) /\ o[i] = a[i]
                               \/ i - Len(a) \in 1..Len(b) /\ o[i] = b[i - Len(a)]
      BY <1>3, <1>4
    <2>. QED
      BY <1>3, <1>4, <2>1
  <1>7. \A y : /\ New(o, y) <=> New(a, y) \/ New(b, y)
               /\ Doomed(o, y) <=> Doomed(a, y) \/ Doomed(b, y)
               /\ Mentioned(o, y) <=> Mentioned(a, y) \/ Mentioned(b, y)
    BY <1>3, <1>4, ConcatMessages
  <1>. HIDE DEF o, P
  <1>8. \A y : Doomed(o, y) => Mentioned(o, y) /\ \E i \in 1..Len(o) : Speaks(o[i], y)
    BY MentionKinds DEF Doomed, Mentioned
  <1>9. \A i \in 1..Len(o) : Proper(o[i], s) /\ o[i].type = "KILL"
    BY <1>6 DEF P
  <1>10. \A y \in UID : (Doomed(o, y) \/ Mentioned(o, y)) =>
                     \/ y = u /\ verdict \in {"equal", "existing_won"}
                     \/ y = x /\ verdict \in {"equal", "new_won"}
    BY <1>3, <1>4, <1>7, <1>8
  <1>. QED
    BY <1>3, <1>4, <1>5, <1>7, <1>8, <1>9, <1>10

\* The user of a UID or NICK meets ex, which has its nick.
LEMMA CollidePair ==
    ASSUME IInv, Handshakes, Routed, TwoServers, PairInv, NEW s \in Server, NEW t \in Server,
           Arrived(s, t), Head(chan[t][s]).type \in {"UID", "NICK"},
           NEW ex \in users[s], NEW verdict \in {"overridden", "equal", "new_won", "existing_won"},
           verdict = "overridden" <=> Home[ex.uid] = s /\ ~ex.reg,
           NEW out \in Out, Net(s, t, None, out),
           LET m == Head(chan[t][s])
           IN  /\ m.type = "NICK" => ByUID(s, m.uid) # {}
               /\ ex.uid # m.uid
               /\ out[t] = Sentence(s, m.uid, ex.uid, verdict)
               /\ users' = [users EXCEPT ![s] =
                     (users[s] \ (ByUID(s, m.uid) \cup (IF verdict # "existing_won" THEN {ex} ELSE {})))
                       \cup (IF verdict \in {"overridden", "new_won"} THEN {Client(m)} ELSE {})],
           dir' = dir, used' = used
    PROVE  PairInv'
  <1>. DEFINE m == Head(chan[t][s])
              L == IF verdict # "existing_won" THEN {ex} ELSE {}
              E == IF verdict \in {"overridden", "new_won"} THEN {Client(m)} ELSE {}
              N == (users[s] \ (ByUID(s, m.uid) \cup L)) \cup E
              o == out[t]
  <1>1. s # t
    BY DEF Arrived
  <1>2. PICK u \in UID :
          /\ m \in Msg /\ m.uid = u /\ Home[u] = t /\ Client(m) \in UserRec
          /\ Client(m).uid = u /\ Client(m).reg
          /\ \A x : Speaks(m, x) <=> x = u
          /\ \A x : ~Kills(m, x)
          /\ m.type = "UID" => ByUID(s, u) = {}
          /\ m.type = "NICK" /\ Live(t, s) => \A r \in ByUID(s, u) : r.nick # m.nick
    BY IntroducedHere
  <1>3. /\ users' = [users EXCEPT ![s] = N]
        /\ users'[s] = N /\ m.type \in {"UID", "NICK"} /\ (m.type = "NICK" => ByUID(s, u) # {})
    BY <1>2 DEF IInv, TableInv
  <1>4. PICK x \in UID : x = ex.uid /\ x # u
    BY <1>1, <1>2, UsersHere
  <1>5. o = Sentence(s, u, x, verdict)
    BY <1>2, <1>4
  <1>6. /\ \A r \in users[s] : Home[r.uid] = s => r.uid \in used
        /\ \A r1, r2 \in users[s] : r1.uid = r2.uid => r1 = r2
    BY <1>1, UsersHere
  <1>. DEFINE new == Client(m)
  <1>. HIDE DEF m, new, o
  <1>7. /\ \A i \in 1..Len(o) : Proper(o[i], s) /\ o[i].type = "KILL"
        /\ \A y : ~New(o, y)
        /\ \A y \in UID : (Doomed(o, y) \/ Mentioned(o, y)) =>
              \/ y = u /\ verdict \in {"equal", "existing_won"}
              \/ y = x /\ verdict \in {"equal", "new_won"}
        /\ verdict \in {"equal", "existing_won"} => Doomed(o, u)
        /\ verdict \in {"equal", "new_won"} => Doomed(o, x) /\ \E i \in 1..Len(o) : Speaks(o[i], x)
    BY <1>5, SentenceMessages
  <1>8. \A y : y # u /\ y # x => ByUID(s, y)' = ByUID(s, y)
    BY <1>2, <1>3, <1>4 DEF ByUID, new
  <1>9. /\ verdict \in {"overridden", "new_won"} => ByUID(s, u)' = {new}
        /\ verdict \in {"equal", "existing_won"} => ByUID(s, u)' = {}
    BY <1>2, <1>3, <1>4 DEF ByUID, new
  <1>10. /\ ByUID(s, x) = {ex}
         /\ verdict # "existing_won" => ByUID(s, x)' = {}
         /\ verdict = "existing_won" => ByUID(s, x)' = ByUID(s, x)
    BY <1>2, <1>3, <1>4, <1>6 DEF ByUID, new
  <1>11. ASSUME NEW y \in UID, Home[y] = t PROVE Reads(s, t, t, o, y)
    <2>1. CASE y # u /\ y # x
      BY <1>2, <1>7, <1>8, <2>1, ReadsOther DEF m
    <2>2. CASE y = x /\ verdict = "existing_won"
      BY <1>2, <1>4, <1>7, <1>10, <2>2, ReadsOther DEF m
    <2>3. CASE y = x /\ verdict # "existing_won"
      <3>1. verdict \in {"equal", "new_won"}
        BY <1>1, <1>4, <1>11, <2>3
      <3>. QED
        BY <1>7, <1>10, <2>3, <3>1, ReadsKilled
    <2>4. CASE y = u /\ verdict \in {"overridden", "new_won"}
      <3>1. Takes(m, u, ByUID(s, u), {new})
        BY <1>2, <1>3 DEF Takes, Introduces
      <3>2. Live(t, s) => Turn(m, u, ByUID(s, u), {new})
        BY <1>2, <1>3 DEF Turn, new
      <3>3. /\ Takes(Head(chan[t][s]), y, ByUID(s, y), ByUID(s, y)')
            /\ Live(t, s) => Turn(Head(chan[t][s]), y, ByUID(s, y), ByUID(s, y)')
        BY <1>9, <2>4, <3>1, <3>2 DEF m
      <3>4. ~Doomed(o, y)
        BY <1>4, <1>7, <2>4
      <3>. QED
        BY <3>3, <3>4, ReadsTurn
    <2>5. CASE y = u /\ verdict \in {"equal", "existing_won"}
      <3>1. Mentions(m, u)
        BY <1>2, MentionKinds
      <3>. QED
        BY <1>7, <1>9, <2>5, <3>1, ReadsKilled DEF m
    <2>. QED
      BY <2>1, <2>2, <2>3, <2>4, <2>5
  <1>12. ASSUME NEW y \in UID, Home[y] = s PROVE Sends(s, t, t, o, y)
    <2>0. y # u
      BY <1>1, <1>2, <1>12
    <2>1. CASE y # x
      BY <1>2, <1>7, <1>8, <2>0, <2>1, SendsOther DEF m
    <2>2. CASE y = x /\ verdict = "existing_won"
      BY <1>2, <1>7, <1>10, <2>0, <2>2, SendsOther DEF m
    <2>3. CASE y = x /\ verdict = "overridden"
      BY <1>7, <1>10, <2>0, <2>3, SendsOverridden
    <2>4. CASE y = x /\ verdict \in {"equal", "new_won"}
      <3>1. y \in used
        BY <1>4, <1>6, <1>12, <2>4
      <3>2. /\ ~New(o, y) /\ ByUID(s, y)' = {}
            /\ \A i \in 1..Len(o) : Speaks(o[i], y) => o[i].type \in {"QUIT", "KILL"}
            /\ \E i \in 1..Len(o) : Speaks(o[i], y)
        BY <1>7, <1>10, <2>4
      <3>. QED
        BY <3>1, <3>2, SendsKilled
    <2>. QED
      BY <2>1, <2>2, <2>3, <2>4
  <1>13. \A r1, r2 \in N : r1.uid = r2.uid => r1 = r2
    BY <1>2, <1>6 DEF ByUID, new
  <1>14. \A r \in N : r \in users[s] \/ (Home[r.uid] = t /\ r.reg)
    BY <1>2
  <1>15. \A i \in 1..Len(out[t]) : Proper(out[t][i], s)
    BY <1>7 DEF o
  <1>16. /\ \A y \in UID : Home[y] = t => Reads(s, t, t, out[t], y)
         /\ \A y \in UID : Home[y] = s => Sends(s, t, t, out[t], y)
    BY <1>11, <1>12 DEF o
  <1>17. users' = [users EXCEPT ![s] = N]
    BY <1>3
  <1>. HIDE DEF N
  <1>. QED
    BY <1>13, <1>14, <1>15, <1>16, <1>17, MessagePair

\* What nick_collision sends, with 'more' for the other servers
Judgement(s, t, u, x, more, verdict) ==
    Cat(IF verdict \in {"equal", "existing_won"} THEN Cat(One(t, KILL(s, u)), more) ELSE NoOut,
        IF verdict \in {"equal", "new_won"} THEN ToServers(Up(s), {}, KILL(s, x)) ELSE NoOut)

\* Of it the sentence is what t gets.
LEMMA CollisionSentence ==
    ASSUME NEW s \in Server, NEW t \in Server, t \in Up(s), NEW u \in UID, NEW x \in UID,
           NEW more \in Out, more[t] = <<>>, NEW verdict
    PROVE  /\ Judgement(s, t, u, x, more, verdict) \in Out
           /\ Judgement(s, t, u, x, more, verdict)[t] = Sentence(s, u, x, verdict)
  <1>. DEFINE a == IF verdict \in {"equal", "existing_won"} THEN <<KILL(s, u)>> ELSE <<>>
              b == IF verdict \in {"equal", "new_won"} THEN <<KILL(s, x)>> ELSE <<>>
              A == IF verdict \in {"equal", "existing_won"}
                   THEN Cat(One(t, KILL(s, u)), more) ELSE NoOut
              B == IF verdict \in {"equal", "new_won"}
                   THEN ToServers(Up(s), {}, KILL(s, x)) ELSE NoOut
  <1>1. KILL(s, u) \in Msg /\ KILL(s, x) \in Msg /\ <<KILL(s, u)>> \o <<>> = <<KILL(s, u)>>
    BY MessageTypes
  <1>2. A \in Out /\ B \in Out
    BY <1>1, OutTypes
  <1>3. Judgement(s, t, u, x, more, verdict) = Cat(A, B)
    BY DEF Judgement
  <1>4. A[t] = a
    <2>1. Cat(One(t, KILL(s, u)), more)[t] = <<KILL(s, u)>> /\ NoOut[t] = <<>>
      BY <1>1 DEF Cat, One, NoOut
    <2>. QED
      BY <2>1
  <1>5. B[t] = b
    BY DEF ToServers, NoOut
  <1>6. Sentence(s, u, x, verdict) = a \o b
    BY DEF Sentence
  <1>. HIDE DEF A, B, a, b
  <1>7. Cat(A, B) \in Out /\ Cat(A, B)[t] = a \o b
    BY <1>2, <1>4, <1>5, OutTypes DEF Cat
  <1>. QED
    BY <1>3, <1>6, <1>7

\* A message that is passed on is passed on to others than t.
LEMMA ForwardedHere ==
    ASSUME NEW s \in Server, NEW t \in Server, NEW m \in Msg, NEW kills \in Out
    PROVE  /\ Cat(kills, ToServers(Up(s), {t}, m)) \in Out
           /\ Cat(kills, ToServers(Up(s), {t}, m))[t] = kills[t]
           /\ Cat(kills, NoOut) \in Out /\ Cat(kills, NoOut)[t] = kills[t]
  <1>1. ToServers(Up(s), {t}, m) \in Out /\ ToServers(Up(s), {t}, m)[t] = <<>> /\ NoOut \in Out /\ NoOut[t] = <<>>
    BY OutTypes DEF ToServers, NoOut
  <1>2. \A f \in Out : Cat(kills, f) \in Out /\ Cat(kills, f)[t] = kills[t] \o f[t]
    BY OutTypes DEF Cat
  <1>3. kills[t] \o <<>> = kills[t]
    BY DEF Out
  <1>. QED
    BY <1>1, <1>2, <1>3

\* A UID is read.
LEMMA UidPair ==
    ASSUME IInv, Handshakes, Routed, TwoServers, PairInv, NEW s \in Server, NEW t \in Server,
           RecvUID(s, t)
    PROVE  PairInv'
  <1>. DEFINE m == Head(chan[t][s])
              new == [uid |-> m.uid, nick |-> m.nick, ts |-> m.ts, reg |-> TRUE]
              forward == ToServers(Up(s), {t}, m)
  <1>1. chan[t][s] # <<>> /\ m.type = "UID" /\ dir' = dir /\ used' = used
    BY DEF RecvUID, Accepts, Receives
  <1>2. s # t /\ Arrived(s, t) /\ m \in Msg
    BY <1>1, ReceivedMessage DEF IInv, Arrived, Opening
  <1>3. Up(s) = {t} /\ m.uid \in UID /\ new = Client(m) /\ ByUID(s, m.uid) = {}
    <2>1. Up(s) = {t} /\ m.uid \in UID
      BY <1>2, MessageHere
    <2>2. ByUID(s, m.uid) = {}
      BY <1>1, <1>2, IntroducedHere
    <2>. QED
      BY <2>1, <2>2 DEF Client
  <1>4. forward \in Out /\ forward[t] = <<>>
    BY <1>2, OutTypes DEF ToServers
  <1>5. CASE /\ ByNick(s, m.nick) = {}
             /\ users' = [users EXCEPT ![s] = @ \cup {new}]
             /\ Net(s, t, None, forward)
    <2>1. users' = [users EXCEPT ![s] = (users[s] \ ByUID(s, m.uid)) \cup {Client(m)}]
      BY <1>3, <1>5
    <2>. HIDE DEF forward
    <2>. QED
      BY <1>1, <1>2, <1>4, <1>5, <2>1, EnterPair
  <1>6. ASSUME NEW ex \in ByNick(s, m.nick),
               LET verdict == Verdict(s, ex, m.uid, m.ts, Direction(s, ex.uid) = t)
                   enters == verdict \in {"overridden", "new_won"}
               IN  /\ users' = [users EXCEPT ![s] =
                         (@ \ CollisionLosers(s, m.uid, FALSE, ex, verdict))
                             \cup (IF enters THEN {new} ELSE {})]
                   /\ Net(s, t, None, Cat(CollisionOut(s, t, m.uid, FALSE, ex, verdict),
                                          IF enters THEN forward ELSE NoOut))
        PROVE  PairInv'
    <2>. DEFINE verdict == Verdict(s, ex, m.uid, m.ts, Direction(s, ex.uid) = t)
                enters == verdict \in {"overridden", "new_won"}
                more == NoOut
                kills == CollisionOut(s, t, m.uid, FALSE, ex, verdict)
                out == Cat(kills, IF enters THEN forward ELSE NoOut)
    <2>1. ex \in users[s] /\ ex.uid # m.uid /\ ex.uid \in UID
      <3>1. ex \in users[s]
        BY DEF ByNick
      <3>. QED
        BY <1>2, <1>3, <3>1, UsersHere DEF ByUID
    <2>2. /\ verdict \in {"overridden", "equal", "new_won", "existing_won"}
          /\ verdict = "overridden" <=> Home[ex.uid] = s /\ ~ex.reg
      BY DEF Verdict, Local
    <2>3. out \in Out /\ out[t] = Sentence(s, m.uid, ex.uid, verdict)
      <3>1. /\ Cat(kills, forward) \in Out /\ Cat(kills, NoOut) \in Out
            /\ Cat(kills, forward)[t] = Sentence(s, m.uid, ex.uid, verdict)
            /\ Cat(kills, NoOut)[t] = Sentence(s, m.uid, ex.uid, verdict)
        <4>1. kills = Judgement(s, t, m.uid, ex.uid, more, verdict)
          BY DEF CollisionOut, Judgement
        <4>2. t \in Up(s) /\ more \in Out /\ more[t] = <<>> /\ ex.uid \in UID
          BY <1>2, <1>3, <2>1, OutTypes, MessageTypes DEF ToServers, NoOut
        <4>3. kills \in Out /\ kills[t] = Sentence(s, m.uid, ex.uid, verdict)
          <5>. HIDE DEF verdict, m, kills, more
          <5>. QED
            BY <1>3, <4>1, <4>2, CollisionSentence
        <4>. HIDE DEF verdict, m, kills
        <4>. QED
          BY <1>2, <4>3, ForwardedHere
      <3>. HIDE DEF kills, forward, verdict
      <3>. QED
        BY <3>1
    <2>4. Net(s, t, None, out)
      BY <1>6
    <2>5. users' = [users EXCEPT ![s] =
                     (users[s] \ (ByUID(s, m.uid) \cup (IF verdict # "existing_won" THEN {ex} ELSE {})))
                       \cup (IF enters THEN {Client(m)} ELSE {})]
      <3>1. CollisionLosers(s, m.uid, FALSE, ex, verdict) =
               ByUID(s, m.uid) \cup (IF verdict # "existing_won" THEN {ex} ELSE {})
        BY <1>3 DEF CollisionLosers
      <3>2. users' = [users EXCEPT ![s] = (@ \ CollisionLosers(s, m.uid, FALSE, ex, verdict))
                                              \cup (IF enters THEN {new} ELSE {})]
        BY <1>6
      <3>. HIDE DEF verdict, m, new
      <3>. QED
        BY <1>3, <3>1, <3>2
    <2>. HIDE DEF verdict, out
    <2>. QED
      BY <1>1, <1>2, <2>1, <2>2, <2>3, <2>4, <2>5, CollidePair
  <1>. QED
    BY <1>5, <1>6 DEF RecvUID

\* A NICK is read.
LEMMA NickPair ==
    ASSUME IInv, Handshakes, Routed, TwoServers, PairInv, NEW s \in Server, NEW t \in Server,
           RecvNICK(s, t)
    PROVE  PairInv'
  <1>. DEFINE m == Head(chan[t][s])
              forward == ToServers(Up(s), {t}, m)
  <1>1. chan[t][s] # <<>> /\ m.type = "NICK" /\ used' = used
    BY DEF RecvNICK, Accepts, Receives
  <1>2. s # t /\ Arrived(s, t) /\ m \in Msg
    BY <1>1, ReceivedMessage DEF IInv, Arrived, Opening
  <1>3. /\ Up(s) = {t} /\ m.uid \in UID /\ Home[m.uid] = t /\ m.nick \in Nick /\ m.ts \in TS
        /\ Live(t, s) => \A r \in ByUID(s, m.uid) : r.nick # m.nick
    BY <1>1, <1>2, MessageHere, IntroducedHere, MessageFields
  <1>4. forward \in Out /\ forward[t] = <<>> /\ NoOut \in Out /\ NoOut[t] = <<>>
    BY <1>2, OutTypes DEF ToServers, NoOut
  <1>5. PICK r \in ByUID(s, m.uid) :
           LET new == [r EXCEPT !.nick = m.nick, !.ts = m.ts]
           IN  \/ /\ r.nick = m.nick
                  /\ Reply(s, t, NoOut)
               \/ /\ ByNick(s, m.nick) = {}
                  /\ users' = [users EXCEPT ![s] = (@ \ {r}) \cup {new}]
                  /\ Net(s, t, None, forward)
                  /\ UNCHANGED <<uplink, dir>>
               \/ \E ex \in ByNick(s, m.nick) \ {r} :
                  LET verdict == Verdict(s, ex, m.uid, m.ts, FALSE)
                      enters == verdict \in {"overridden", "new_won"}
                  IN  /\ users' = [users EXCEPT ![s] =
                            (@ \ ({r} \cup CollisionLosers(s, m.uid, TRUE, ex, verdict)))
                                \cup (IF enters THEN {new} ELSE {})]
                      /\ Net(s, t, None, Cat(CollisionOut(s, t, m.uid, TRUE, ex, verdict),
                                             IF enters THEN forward ELSE NoOut))
                      /\ UNCHANGED <<uplink, dir>>
    BY DEF RecvNICK
  <1>. DEFINE new == [r EXCEPT !.nick = m.nick, !.ts = m.ts]
  <1>6. r \in users[s] /\ r \in UserRec /\ r.uid = m.uid /\ r.reg /\ ByUID(s, m.uid) = {r}
    <2>1. r \in users[s] /\ r.uid = m.uid
      BY <1>5 DEF ByUID
    <2>2. r \in UserRec /\ r.reg
      BY <1>2, <1>3, <2>1, UsersHere
    <2>3. \A r2 \in users[s] : r2.uid = r.uid => r2 = r
      BY <1>2, <2>1, UsersHere
    <2>. QED
      BY <2>1, <2>2, <2>3 DEF ByUID
  <1>7. new = Client(m)
    <2>. HIDE DEF m
    <2>1. new \in UserRec /\ Client(m) \in UserRec
      BY <1>3, <1>6 DEF UserRec, Client
    <2>2. new.uid = m.uid /\ new.nick = m.nick /\ new.ts = m.ts /\ new.reg = r.reg
      BY <1>6 DEF UserRec
    <2>3. r.reg = TRUE
      BY <1>6 DEF UserRec
    <2>4. new.uid = Client(m).uid /\ new.nick = Client(m).nick /\ new.ts = Client(m).ts /\ new.reg = Client(m).reg
      BY <2>2, <2>3 DEF Client
    <2>. HIDE DEF new
    <2>. QED
      BY <2>1, <2>4 DEF UserRec
  <1>8. CASE r.nick = m.nick /\ Reply(s, t, NoOut)
    <2>1. Net(s, t, None, NoOut) /\ users' = users /\ dir' = dir
      BY <1>8 DEF Reply, tables
    <2>2. ~Live(t, s)
      BY <1>3, <1>5, <1>8
    <2>3. \A x : ByUID(s, x)' = ByUID(s, x) /\ ~Doomed(NoOut[t], x) /\ ~Mentioned(NoOut[t], x)
      BY <1>4, <2>1, NoMessages DEF ByUID
    <2>. HIDE DEF m
    <2>4. ASSUME NEW x \in UID, Home[x] = t PROVE Reads(s, t, t, NoOut[t], x)
      <3>1. Takes(m, x, ByUID(s, x), ByUID(s, x)')
        BY <1>1, <2>3 DEF Takes
      <3>. QED
        BY <2>2, <2>3, <3>1, ReadsTurn DEF m
    <2>5. ASSUME NEW x \in UID, Home[x] = s PROVE Sends(s, t, t, NoOut[t], x)
      <3>1. ~Kills(m, x)
        BY <1>1 DEF Kills
      <3>. QED
        BY <1>1, <2>3, <3>1, SendsOther DEF m
    <2>6. users' = [users EXCEPT ![s] = users[s]] /\ \A r1, r2 \in users[s] : r1.uid = r2.uid => r1 = r2
      BY <2>1 DEF IInv, TableInv, PairInv, UIDUnique
    <2>7. \A i \in 1..Len(NoOut[t]) : Proper(NoOut[t][i], s)
      BY <1>4, NoMessages
    <2>. QED
      BY <1>1, <1>2, <1>4, <2>1, <2>4, <2>5, <2>6, <2>7, MessagePair
  <1>9. CASE /\ ByNick(s, m.nick) = {}
             /\ users' = [users EXCEPT ![s] = (@ \ {r}) \cup {new}]
             /\ Net(s, t, None, forward)
             /\ UNCHANGED <<uplink, dir>>
    <2>1. users' = [users EXCEPT ![s] = (users[s] \ ByUID(s, m.uid)) \cup {Client(m)}]
      BY <1>6, <1>7, <1>9
    <2>2. ByUID(s, m.uid) # {}
      BY <1>6
    <2>. HIDE DEF forward
    <2>. QED
      BY <1>1, <1>2, <1>4, <1>9, <2>1, <2>2, EnterPair
  <1>10. ASSUME NEW ex \in ByNick(s, m.nick) \ {r},
                LET verdict == Verdict(s, ex, m.uid, m.ts, FALSE)
                    enters == verdict \in {"overridden", "new_won"}
                IN  /\ users' = [users EXCEPT ![s] =
                          (@ \ ({r} \cup CollisionLosers(s, m.uid, TRUE, ex, verdict)))
                              \cup (IF enters THEN {new} ELSE {})]
                    /\ Net(s, t, None, Cat(CollisionOut(s, t, m.uid, TRUE, ex, verdict),
                                           IF enters THEN forward ELSE NoOut))
                    /\ UNCHANGED <<uplink, dir>>
         PROVE  PairInv'
    <2>. DEFINE verdict == Verdict(s, ex, m.uid, m.ts, FALSE)
                enters == verdict \in {"overridden", "new_won"}
                more == ToServers(Up(s), {t}, KILL(s, m.uid))
                kills == CollisionOut(s, t, m.uid, TRUE, ex, verdict)
                out == Cat(kills, IF enters THEN forward ELSE NoOut)
    <2>1. ex \in users[s] /\ ex.uid # m.uid /\ ex.uid \in UID
      <3>1. ex \in users[s] /\ ex # r
        BY DEF ByNick
      <3>. QED
        BY <1>2, <1>6, <3>1, UsersHere
    <2>2. /\ verdict \in {"overridden", "equal", "new_won", "existing_won"}
          /\ verdict = "overridden" <=> Home[ex.uid] = s /\ ~ex.reg
      BY DEF Verdict, Local
    <2>3. out \in Out /\ out[t] = Sentence(s, m.uid, ex.uid, verdict)
      <3>1. /\ Cat(kills, forward) \in Out /\ Cat(kills, NoOut) \in Out
            /\ Cat(kills, forward)[t] = Sentence(s, m.uid, ex.uid, verdict)
            /\ Cat(kills, NoOut)[t] = Sentence(s, m.uid, ex.uid, verdict)
        <4>1. kills = Judgement(s, t, m.uid, ex.uid, more, verdict)
          BY DEF CollisionOut, Judgement
        <4>2. t \in Up(s) /\ more \in Out /\ more[t] = <<>> /\ ex.uid \in UID
          BY <1>2, <1>3, <2>1, OutTypes, MessageTypes DEF ToServers, NoOut
        <4>3. kills \in Out /\ kills[t] = Sentence(s, m.uid, ex.uid, verdict)
          <5>. HIDE DEF verdict, m, kills, more
          <5>. QED
            BY <1>3, <4>1, <4>2, CollisionSentence
        <4>. HIDE DEF verdict, m, kills
        <4>. QED
          BY <1>2, <4>3, ForwardedHere
      <3>. HIDE DEF kills, forward, verdict
      <3>. QED
        BY <3>1
    <2>4. Net(s, t, None, out) /\ dir' = dir /\ ByUID(s, m.uid) # {}
      BY <1>6, <1>10
    <2>5. users' = [users EXCEPT ![s] =
                     (users[s] \ (ByUID(s, m.uid) \cup (IF verdict # "existing_won" THEN {ex} ELSE {})))
                       \cup (IF enters THEN {Client(m)} ELSE {})]
      <3>1. {r} \cup CollisionLosers(s, m.uid, TRUE, ex, verdict) =
               ByUID(s, m.uid) \cup (IF verdict # "existing_won" THEN {ex} ELSE {})
        BY <1>6 DEF CollisionLosers
      <3>2. users' = [users EXCEPT ![s] = (@ \ ({r} \cup CollisionLosers(s, m.uid, TRUE, ex, verdict)))
                                              \cup (IF enters THEN {new} ELSE {})]
        BY <1>10
      <3>. HIDE DEF verdict, m, new
      <3>. QED
        BY <1>7, <3>1, <3>2
    <2>. HIDE DEF verdict, out
    <2>. QED
      BY <1>1, <1>2, <2>1, <2>2, <2>3, <2>4, <2>5, CollidePair
  <1>. QED
    BY <1>5, <1>8, <1>9, <1>10
\* Nothing is said of servers: two servers have nobody to tell.
LEMMA NoServerMessages ==
    ASSUME IInv, Handshakes, Routed, TwoServers, PairInv, NEW s \in Server, NEW t \in Server
    PROVE  ~RecvSID(s, t) /\ ~RecvSQUIT(s, t)
  <1>1. SUFFICES ASSUME chan[t][s] # <<>>, Head(chan[t][s]).type \in {"SID", "SQUIT"} PROVE FALSE
    BY DEF RecvSID, RecvSQUIT, Accepts, Receives
  <1>2. Arrived(s, t)
    BY <1>1, ReceivedMessage DEF IInv, Arrived, Opening
  <1>. QED
    BY <1>1, <1>2, MessageHere

-----------------------------------------------------------------------------
(* What connections do *)

\* A stream in which the handshake is all there is
Greets(q) == \A i \in 1..Len(q) : Opening(q[i])

\* It says nothing of users.
LEMMA GreetsNobody ==
    ASSUME NEW q, Greets(q)
    PROVE  /\ \A u : ~Mentioned(q, u) /\ ~Doomed(q, u) /\ ~New(q, u)
           /\ \A t : \A i \in 1..Len(q) : Proper(q[i], t)
  <1>1. \A u : ~Mentioned(q, u)
    BY DEF Greets, Opening, Mentioned, Mentions, Speaks
  <1>2. \A u : ~Doomed(q, u) /\ ~New(q, u)
    BY <1>1, MentionKinds
  <1>3. \A t : \A i \in 1..Len(q) : Proper(q[i], t)
    BY DEF Greets, Opening, Proper
  <1>. QED
    BY <1>1, <1>2, <1>3

\* Streams are kept or cut.
LEMMA CutFlow ==
    ASSUME NEW q, NEW p, NEW q1, NEW p1, NEW u, NEW v, NEW w, Fresh(q, p, u, v),
           q1 = q \/ Greets(q1), p1 = p \/ Greets(p1), w = v \/ w = {}
    PROVE  Fresh(q1, p1, u, w) /\ (Untouched(q, p, u, v) => Untouched(q1, p1, u, w))
  <1>1. q1 = q \/ (~Mentioned(q1, u) /\ ~New(q1, u))
    BY GreetsNobody
  <1>2. p1 = p \/ ~Doomed(p1, u)
    BY GreetsNobody
  <1>3. \A j \in 1..Len(q1) : Introduces(q1[j], u) => \A i \in 1..(j - 1) : ~Mentions(q1[i], u)
    <2>1. CASE q1 = q
      BY <2>1 DEF Fresh
    <2>2. CASE ~New(q1, u)
      BY <2>2 DEF New
    <2>. QED
      BY <1>1, <2>1, <2>2
  <1>4. (New(q1, u) => w = {} /\ ~Doomed(p1, u)) /\ (Doomed(p1, u) => w = {})
    BY <1>1, <1>2 DEF Fresh
  <1>5. Untouched(q, p, u, v) => Untouched(q1, p1, u, w)
    BY <1>1, <1>2 DEF Untouched
  <1>. QED
    BY <1>3, <1>4, <1>5 DEF Fresh

\* s has no link with t after the step: it forgets the users of t, and streams
\* are kept or cut.
LEMMA CutPair ==
    ASSUME IInv, IInv', Handshakes', Routed, TwoServers, PairInv,
           NEW s \in Server, NEW t \in Server, s # t, Apart(s), conn'[s][t] # "up",
           chan'[t][s] = chan[t][s] \/ chan'[t][s] = <<>>,
           chan'[s][t] = chan[s][t] \/ Greets(chan'[s][t]),
           conn'[s][t] \in {"in", "sent"} => chan'[t][s] = <<>> /\ Greets(chan'[s][t]),
           users'[t] = users[t], dir'[t] = dir[t], used' = used,
           \A r : r \in users'[s] <=> r \in users[s] /\ Home[r.uid] = s
    PROVE  PairInv'
  <1>1. \A x \in Server : x = s \/ x = t
    BY OtherServer
  <1>2. conn'[t][s] = conn[t][s]
    BY DEF Apart
  <1>3. Greets(<<>>)
    BY DEF Greets
  <1>4. /\ ~Live(t, s)' /\ ~Live(s, t)'
        /\ conn'[s][t] \in {"in", "sent"} => conn[t][s] # "up"
    <2>. DEFINE da == <<s, t>> \in dead'
                db == <<t, s>> \in dead'
    <2>1. Pair(conn'[s][t], conn'[t][s], chan'[t][s], chan'[s][t], da, db)
      BY DEF Handshakes, Connection
    <2>2. conn'[t][s] = "up" /\ ~db => conn'[s][t] = "sent" /\ chan'[t][s] # <<>>
      BY <2>1 DEF Pair, Phase
    <2>3. db => conn'[s][t] \notin {"in", "sent"}
      BY <2>1 DEF Pair, Phase
    <2>. QED
      BY <1>2, <2>2, <2>3 DEF Live
  <1>5. UIDUnique' /\ Locals(s)' /\ Locals(t)'
    <2>1. UIDUnique'
      BY <1>1 DEF PairInv, UIDUnique
    <2>2. Locals(s)'
      BY DEF PairInv, Locals
    <2>3. Locals(t)'
      BY DEF PairInv, Locals
    <2>. QED
      BY <2>1, <2>2, <2>3
  <1>6. \A u : ByUID(t, u)' = ByUID(t, u)
    BY DEF ByUID
  <1>7. /\ \A u \in UID : Home[u] = t => ByUID(s, u)' = {}
        /\ \A u \in UID : Home[u] = s => ByUID(s, u)' = ByUID(s, u)
    BY DEF ByUID
  <1>8. /\ \A u \in UID : Home[u] = t => (Given(t, u)' <=> Given(t, u))
        /\ \A u \in UID : Home[u] = s => (Given(s, u)' <=> Given(s, u))
    BY <1>6, <1>7 DEF Given
  <1>9. Flows(t, s)'
    <2>a. \A i \in 1..Len(chan'[t][s]) : Proper(chan'[t][s][i], t)
      <3>1. \A i \in 1..Len(chan[t][s]) : Proper(chan[t][s][i], t)
        BY DEF PairInv, Flows
      <3>2. chan'[t][s] = chan[t][s] \/ Greets(chan'[t][s])
        BY <1>3
      <3>. QED
        BY <3>1, <3>2, GreetsNobody
    <2>1. (\A i \in 1..Len(chan[t][s]) : Proper(chan[t][s][i], t))'
      BY <2>a DEF Proper
    <2>2. ASSUME NEW u \in UID, Home[u] = t PROVE Flow(t, s, u)'
      <3>1. Flow(t, s, u)
        BY <2>2 DEF PairInv, Flows
      <3>2. /\ Fresh(chan'[t][s], chan'[s][t], u, {})
            /\ Untouched(chan[t][s], chan[s][t], u, ByUID(s, u)) =>
                  Untouched(chan'[t][s], chan'[s][t], u, {})
        BY <1>3, <3>1, CutFlow DEF Flow
      <3>. QED
        BY <1>2, <1>4, <1>7, <1>8, <2>2, <3>1, <3>2, Zenon DEF Flow
    <2>. QED
      BY <2>1, <2>2 DEF Flows
  <1>10. Flows(s, t)'
    <2>a. \A i \in 1..Len(chan'[s][t]) : Proper(chan'[s][t][i], s)
      <3>1. \A i \in 1..Len(chan[s][t]) : Proper(chan[s][t][i], s)
        BY DEF PairInv, Flows
      <3>2. chan'[s][t] = chan[s][t] \/ Greets(chan'[s][t])
        BY <1>3
      <3>. QED
        BY <3>1, <3>2, GreetsNobody
    <2>1. (\A i \in 1..Len(chan[s][t]) : Proper(chan[s][t][i], s))'
      BY <2>a DEF Proper
    <2>2. ASSUME NEW u \in UID, Home[u] = s PROVE Flow(s, t, u)'
      <3>1. Flow(s, t, u)
        BY <2>2 DEF PairInv, Flows
      <3>2. /\ Fresh(chan'[s][t], chan'[t][s], u, ByUID(t, u))
            /\ Untouched(chan[s][t], chan[t][s], u, ByUID(t, u)) =>
                  Untouched(chan'[s][t], chan'[t][s], u, ByUID(t, u))
        BY <1>3, <3>1, CutFlow DEF Flow
      <3>3. conn'[s][t] \in {"in", "sent"} => Untouched(chan'[s][t], chan'[t][s], u, ByUID(t, u))
        <4>1. conn[t][s] # "up" => ByUID(t, u) = {}
          BY <2>2, UsersHere DEF ByUID
        <4>. QED
          BY <1>3, <1>4, <4>1, GreetsNobody DEF Untouched
      <3>. QED
        BY <1>4, <1>6, <1>8, <2>2, <3>1, <3>2, <3>3, Zenon DEF Flow
    <2>3. conn'[t][s] = "up" => dir'[t][s] = s
      BY <1>2 DEF PairInv, Flows
    <2>. QED
      BY <2>1, <2>2, <2>3 DEF Flows
  <1>11. (\A x \in Server : Locals(x))' /\ (\A x, y \in Server : x # y => Flows(y, x))'
    BY <1>1, <1>5, <1>9, <1>10
  <1>. QED
    BY <1>5, <1>11 DEF PairInv

\* What s has left when it has forgotten t
LEMMA ForgetPair ==
    ASSUME IInv, Routed, TwoServers, PairInv, NEW s \in Server, NEW t \in Server, s # t,
           Forget(s, Behind(s, t)) \/ (UNCHANGED tables /\ conn[s][t] # "up")
    PROVE  /\ users'[t] = users[t] /\ dir'[t] = dir[t]
           /\ \A r : r \in users'[s] <=> r \in users[s] /\ Home[r.uid] = s
  <1>1. \A r \in users[s] : (Home[r.uid] = s \/ Home[r.uid] = t) /\ (Home[r.uid] = t => conn[s][t] = "up")
    BY UsersHere
  <1>2. Behind(s, t) = {t}
    BY BehindProperties, OtherServer DEF IInv
  <1>3. CASE Forget(s, Behind(s, t))
    <2>1. /\ users' = [users EXCEPT ![s] = {r \in @ : Home[r.uid] \notin {t}}]
          /\ dir' = [dir EXCEPT ![s] = [y \in Server |-> IF y \in {t} THEN None ELSE @[y]]]
      BY <1>2, <1>3 DEF Forget
    <2>2. users'[s] = {r \in users[s] : Home[r.uid] \notin {t}} /\ users'[t] = users[t] /\ dir'[t] = dir[t]
      BY <2>1 DEF IInv, TableInv
    <2>. QED
      BY <1>1, <2>2
  <1>4. CASE UNCHANGED tables /\ conn[s][t] # "up"
    BY <1>1, <1>4 DEF tables
  <1>. QED
    BY <1>3, <1>4

\* s closes its connection with t.
LEMMA ClosesPair ==
    ASSUME IInv, IInv', Handshakes', Routed, TwoServers, PairInv,
           NEW s \in Server, NEW t \in Server, s # t,
           NEW from \in {None, t}, from = t => Tail(chan[t][s]) = <<>>,
           NEW out \in Out, Net(s, from, t, out), used' = used,
           Forget(s, Behind(s, t)) \/ (UNCHANGED tables /\ conn[s][t] # "up")
    PROVE  PairInv'
  <1>1. from \in Server \cup {None} /\ from # s /\ None \notin Server
    BY ConstantsAssumption
  <1>2. Apart(s)
    BY <1>1, NetEffect DEF IInv
  <1>3. Greets(<<>>)
    BY DEF Greets
  <1>4. /\ conn'[s][t] = "none"
        /\ chan'[t][s] = chan[t][s] \/ chan'[t][s] = <<>>
        /\ chan'[s][t] = chan[s][t] \/ chan'[s][t] = <<>>
    <2>. DEFINE q == IF t = from THEN Tail(chan[t][s]) ELSE chan[t][s]
    <2>1. q = chan[t][s] \/ q = <<>>
      OBVIOUS
    <2>2. LinkInv
      BY DEF IInv
    <2>3. /\ conn'[s][t] = "none"
          /\ IF <<s, t>> \in dead
             THEN /\ chan'[t][s] = (IF conn[t][s] = "none" THEN <<>> ELSE q)
                  /\ chan'[s][t] = chan[s][t]
             ELSE /\ chan'[t][s] = <<>>
                  /\ chan'[s][t] = (IF conn[t][s] = "none" \/ <<t, s>> \in dead
                                    THEN <<>> ELSE chan[s][t])
      BY <1>1, <2>2, NetCloses
    <2>. HIDE DEF q
    <2>. QED
      BY <2>1, <2>3
  <1>5. /\ users'[t] = users[t] /\ dir'[t] = dir[t]
        /\ \A r : r \in users'[s] <=> r \in users[s] /\ Home[r.uid] = s
    BY ForgetPair
  <1>. QED
    BY <1>2, <1>3, <1>4, <1>5, CutPair

\* A linked server exits.
LEMMA ExitPair ==
    ASSUME IInv, IInv', Handshakes', Routed, TwoServers, PairInv,
           NEW s \in Server, NEW t \in Server, s # t, conn[s][t] = "up",
           NEW origin, ExitServer(s, None, t, origin), used' = used
    PROVE  PairInv'
  <1>. DEFINE out == ToServers(Up(s), {t, origin}, SQUIT(t))
  <1>1. out \in Out /\ Net(s, None, t, out) /\ Forget(s, Behind(s, t)) /\ None # t
    BY OutTypes, MessageTypes, ConstantsAssumption DEF ExitServer
  <1>. HIDE DEF out
  <1>. QED
    BY <1>1, ClosesPair

\* Connections are made and closed.
LEMMA ConnectionPair ==
    ASSUME IInv, IInv', Handshakes', Routed, TwoServers, PairInv,
           NEW s \in Server, NEW t \in Server,
           Connect(s, t) \/ ReadEOF(s, t) \/ LoseLink(s, t)
    PROVE  PairInv'
  <1>1. ASSUME CloseLink(s, t) PROVE PairInv'
    <2>1. s # t /\ used' = used
      BY <1>1 DEF CloseLink, IInv, LinkInv
    <2>2. CASE conn[s][t] = "up"
      BY <1>1, <2>1, <2>2, ExitPair DEF CloseLink
    <2>3. CASE conn[s][t] # "up"
      <3>1. Net(s, None, t, NoOut) /\ UNCHANGED tables /\ NoOut \in Out /\ None # t
        BY <1>1, <2>3, OutTypes, ConstantsAssumption DEF CloseLink
      <3>. QED
        BY <2>1, <2>3, <3>1, ClosesPair
    <2>. QED
      BY <2>2, <2>3
  <1>2. ASSUME Connect(s, t) PROVE PairInv'
    <2>. DEFINE m == EAUTH(Servers(s), FALSE)
    <2>1. /\ s # t /\ conn[s][t] = "none" /\ used' = used /\ UNCHANGED tables
          /\ conn' = [conn EXCEPT ![s][t] = "out"] /\ dead' = dead
          /\ chan' = [chan EXCEPT ![s][t] = <<m>>, ![t][s] = <<>>]
      BY <1>2 DEF Connect
    <2>2. Greets(<<m>>)
      <3>1. Opening(m)
        BY DEF EAUTH, Opening
      <3>. HIDE DEF m
      <3>. QED
        BY <3>1, FewMessages DEF Greets
    <2>. HIDE DEF m
    <2>3. \A x, y \in Server :
             /\ conn'[x][y] = IF x = s /\ y = t THEN "out" ELSE conn[x][y]
             /\ chan'[x][y] = IF x = s /\ y = t THEN <<m>>
                              ELSE IF x = t /\ y = s THEN <<>> ELSE chan[x][y]
      <3>1. /\ conn \in [Server -> [Server -> ConnState]]
            /\ chan \in [Server -> [Server -> Seq(Msg)]]
        BY DEF IInv, LinkInv, Streams
      <3>. QED
        BY <2>1, <3>1, SMTT(30)
    <2>4. Apart(s)
      <3>1. dead' = dead
        BY <2>1
      <3>. QED
        BY <2>3, <3>1 DEF Apart
    <2>5. conn'[s][t] = "out" /\ chan'[s][t] = <<m>> /\ chan'[t][s] = <<>>
      BY <2>1, <2>3
    <2>6. /\ users'[t] = users[t] /\ dir'[t] = dir[t]
          /\ \A r : r \in users'[s] <=> r \in users[s] /\ Home[r.uid] = s
      BY <2>1, ForgetPair
    <2>. QED
      BY <2>1, <2>2, <2>4, <2>5, <2>6, CutPair
  <1>. QED
    BY <1>1, <1>2 DEF ReadEOF, LoseLink

\* An operator SQUITs the other server.
LEMMA SquitPair ==
    ASSUME IInv, IInv', Handshakes', Routed, TwoServers, PairInv,
           NEW s \in Server, NEW x \in Server, NEW k, OperSquit(s, k, x)
    PROVE  PairInv'
  <1>1. x # s /\ Known(s, x) /\ ExitServer(s, None, x, None) /\ used' = used
    BY DEF OperSquit
  <1>2. conn[s][x] = "up"
    BY <1>1, UsersHere DEF Known
  <1>. QED
    BY <1>1, <1>2, ExitPair

\* EAUTH of a new connection is read.
LEMMA EauthPair ==
    ASSUME IInv, IInv', Handshakes, Handshakes', Routed, TwoServers, PairInv,
           NEW s \in Server, NEW t \in Server, RecvEAUTH(s, t)
    PROVE  PairInv'
  <1>. DEFINE old == Known(s, t) /\ dir[s][t] = t
              gone == IF old THEN Behind(s, t) ELSE {}
              hello == EAUTH(Servers(s) \ gone, TRUE)
  <1>1. PICK deny \in BOOLEAN :
            /\ conn' = [conn EXCEPT ![s][t] = IF deny THEN "none" ELSE "in"]
            /\ dead' = (dead \ {<<s, t>>}) \cup (IF deny THEN {<<t, s>>} ELSE {})
            /\ chan' = Deliver(Consume(chan, s, t), s,
                          Cat(ToServers(IF old THEN Up(s) ELSE {}, {t}, SQUIT(t)),
                              IF deny THEN NoOut ELSE One(t, hello)),
                          Alive(s) \cup {t})
    BY DEF RecvEAUTH
  <1>. DEFINE told == ToServers(IF old THEN Up(s) ELSE {}, {t}, SQUIT(t))
              answer == IF deny THEN NoOut ELSE One(t, hello)
              out == Cat(told, answer)
  <1>2. /\ chan[t][s] # <<>> /\ Head(chan[t][s]).type = "EAUTH" /\ ~Head(chan[t][s]).reply /\ t # s
        /\ used' = used /\ Forget(s, gone) /\ None # t
    BY ReceivedMessage, ConstantsAssumption DEF RecvEAUTH, Receives, IInv
  <1>3. hello \in Msg /\ SQUIT(t) \in Msg /\ Opening(hello)
    BY MessageTypes DEF Servers, EAUTH, Opening
  <1>4. /\ users'[t] = users[t] /\ dir'[t] = dir[t]
        /\ \A r : r \in users'[s] <=> r \in users[s] /\ Home[r.uid] = s
    <2>1. CASE old
      BY <1>2, <2>1, ForgetPair
    <2>2. CASE ~old
      <3>1. users'[s] = users[s] /\ users'[t] = users[t] /\ dir'[t] = dir[t]
        BY <1>2, <2>2 DEF Forget, IInv, TableInv
      <3>2. conn[s][t] # "up"
        BY <1>2, <2>2, UsersHere DEF Known
      <3>3. \A r \in users[s] : (Home[r.uid] = s \/ Home[r.uid] = t) /\ (Home[r.uid] = t => conn[s][t] = "up")
        BY <1>2, UsersHere
      <3>. QED
        BY <3>1, <3>2, <3>3
    <2>. QED
      BY <2>1, <2>2
  <1>. HIDE DEF old, gone, hello
  <1>5. out \in Out
    BY <1>3, OutTypes
  <1>6. out[t] = IF deny THEN <<>> ELSE <<hello>>
    <2>1. <<>> \o <<hello>> = <<hello>> /\ <<>> \o <<>> = <<>>
      BY <1>3
    <2>. QED
      BY <2>1 DEF Cat, ToServers, NoOut, One
  <1>7. chan' = Deliver(Consume(chan, s, t), s, out, Alive(s) \cup {t}) /\ Alive(s) \cup {t} \in SUBSET Server
    BY <1>1 DEF Alive
  <1>. HIDE DEF told, answer, out
  <1>8. \A x, y \in Server :
           /\ conn'[x][y] = IF x = s /\ y = t THEN IF deny THEN "none" ELSE "in" ELSE conn[x][y]
           /\ ~(x = s /\ y = t) /\ ~(x = t /\ y = s) => (<<x, y>> \in dead' <=> <<x, y>> \in dead)
    BY <1>1 DEF IInv, LinkInv
  <1>9. Streamed(s, t, out, Alive(s) \cup {t})
    BY <1>2, <1>5, <1>7, DeliverEffect DEF IInv
  <1>10. Apart(s) /\ conn'[s][t] # "up"
    BY <1>8, <1>9 DEF Apart, Streamed
  <1>11. chan[s][t] = <<>> /\ Tail(chan[t][s]) = <<>>
    <2>. DEFINE da == <<s, t>> \in dead
                db == <<t, s>> \in dead
    <2>1. /\ conn[s][t] \in ConnState /\ conn[t][s] \in ConnState
          /\ chan[s][t] \in Seq(Msg) /\ chan[t][s] \in Seq(Msg)
          /\ da \in BOOLEAN /\ db \in BOOLEAN
          /\ Pair(conn[s][t], conn[t][s], chan[t][s], chan[s][t], da, db)
      BY <1>2, ConnectionTypes DEF Handshakes, Connection, IInv
    <2>. HIDE DEF da, db
    <2>. QED
      BY <1>2, <2>1, AskedPair, SMTT(30)
  <1>12. chan'[t][s] = <<>> /\ chan'[s][t] = out[t]
    <2>1. <<>> \o out[t] = out[t]
      BY <1>5 DEF Out
    <2>. QED
      BY <1>2, <1>9, <1>11, <2>1 DEF Streamed
  <1>13. Greets(chan'[s][t])
    BY <1>3, <1>6, <1>12, FewMessages DEF Greets
  <1>. QED
    BY <1>2, <1>4, <1>10, <1>12, <1>13, CutPair

\* The answer to our EAUTH is read.
LEMMA AnswerPair ==
    ASSUME IInv, IInv', Handshakes, Handshakes', Routed, TwoServers, PairInv,
           NEW s \in Server, NEW t \in Server, RecvEAUTHReply(s, t)
    PROVE  PairInv'
  <1>a. chan[t][s] # <<>> /\ Head(chan[t][s]).type = "EAUTH" /\ Head(chan[t][s]).reply
    BY DEF RecvEAUTHReply, Receives
  <1>1. t # s /\ t # None /\ used' = used /\ UNCHANGED tables
    BY <1>a, ReceivedMessage DEF RecvEAUTHReply, IInv
  <1>2. conn[s][t] = "out" /\ chan[s][t] = <<>> /\ Tail(chan[t][s]) = <<>>
    <2>. DEFINE da == <<s, t>> \in dead
                db == <<t, s>> \in dead
                p1 == IF da THEN <<>> ELSE <<SERVER>>
    <2>1. /\ conn[s][t] \in ConnState /\ conn[t][s] \in ConnState
          /\ chan[s][t] \in Seq(Msg) /\ chan[t][s] \in Seq(Msg)
          /\ da \in BOOLEAN /\ db \in BOOLEAN
          /\ Pair(conn[s][t], conn[t][s], chan[t][s], chan[s][t], da, db)
      BY <1>1, ConnectionTypes DEF Handshakes, Connection, IInv
    <2>2. (da => p1 = <<>>) /\ (~da => p1 = <<SERVER>>)
      OBVIOUS
    <2>. HIDE DEF da, db, p1
    <2>3. /\ conn[s][t] = "out" /\ chan[s][t] = <<>> /\ Tail(chan[t][s]) = <<>>
          /\ Pair("sent", conn[t][s], <<>>, p1, da, db)
      BY <1>a, <2>1, <2>2, AnsweredPair, SMTT(30)
    <2>. QED
      BY <2>3
  <1>3. CASE Net(s, t, t, NoOut)
    BY <1>1, <1>2, <1>3, ClosesPair, OutTypes
  <1>4. CASE /\ conn' = [conn EXCEPT ![s][t] = "sent"]
             /\ chan' = Deliver(Consume(chan, s, t), s, One(t, SERVER), Alive(s))
             /\ UNCHANGED dead
    <2>. DEFINE out == One(t, SERVER)
    <2>1. out \in Out /\ out[t] = <<SERVER>> /\ Alive(s) \in SUBSET Server
      BY OutTypes, MessageTypes DEF One, Alive
    <2>2. Streamed(s, t, out, Alive(s))
      BY <1>1, <1>4, <2>1, DeliverEffect DEF IInv
    <2>. HIDE DEF out
    <2>3. \A x, y \in Server :
             /\ conn'[x][y] = IF x = s /\ y = t THEN "sent" ELSE conn[x][y]
             /\ <<x, y>> \in dead' <=> <<x, y>> \in dead
      BY <1>4 DEF IInv, LinkInv
    <2>4. Apart(s) /\ conn'[s][t] # "up"
      BY <2>2, <2>3 DEF Apart, Streamed
    <2>5. chan'[t][s] = <<>> /\ (chan'[s][t] = <<>> \/ chan'[s][t] = <<SERVER>>)
      <3>1. <<>> \o <<SERVER>> = <<SERVER>>
        BY MessageTypes
      <3>. QED
        BY <1>1, <1>2, <2>1, <2>2, <3>1 DEF Streamed
    <2>6. Greets(chan'[s][t])
      <3>1. Opening(SERVER)
        BY DEF SERVER, Opening
      <3>2. Greets(<<>>) /\ Greets(<<SERVER>>)
        BY <3>1, FewMessages DEF Greets
      <3>. QED
        BY <2>5, <3>2
    <2>7. /\ users'[t] = users[t] /\ dir'[t] = dir[t]
          /\ \A r : r \in users'[s] <=> r \in users[s] /\ Home[r.uid] = s
      BY <1>1, <1>2, ForgetPair
    <2>. QED
      BY <1>1, <2>4, <2>5, <2>6, <2>7, CutPair
  <1>. QED
    BY <1>3, <1>4 DEF RecvEAUTHReply
-----------------------------------------------------------------------------
(* The burst *)

\* A stream that introduces u once and says no more of it
LEMMA LeadsIntroduced ==
    ASSUME NEW q \in Seq(Msg), NEW u, NEW k \in 1..Len(q), Introduces(q[k], u),
           \A i \in 1..Len(q) : Speaks(q[i], u) => i = k, Client(q[k]) \in UserRec
    PROVE  Leads(q, u, {}, {Client(q[k])})
  <1>. DEFINE c == {Client(q[k])}
              h == [i \in 0..Len(q) |-> IF i < k THEN {} ELSE c]
  <1>1. Len(q) \in Nat /\ 0 < k /\ c \in SUBSET UserRec
    OBVIOUS
  <1>2. q[k].type = "UID" /\ Speaks(q[k], u)
    BY MentionKinds DEF Introduces
  <1>3. h \in [0..Len(q) -> SUBSET UserRec] /\ h[0] = {} /\ h[Len(q)] = c
    <2>. HIDE DEF c
    <2>. QED
      BY <1>1
  <1>4. ASSUME NEW i \in 1..Len(q) PROVE Turn(q[i], u, h[i - 1], h[i])
    <2>1. CASE i = k
      <3>1. h[i - 1] = {} /\ h[i] = c
        <4>. HIDE DEF c
        <4>. QED
          BY <1>1, <2>1
      <3>. HIDE DEF h
      <3>. QED
        BY <1>2, <2>1, <3>1 DEF Turn
    <2>2. CASE i # k
      <3>1. h[i - 1] = h[i]
        <4>. HIDE DEF c
        <4>. QED
          BY <1>1, <2>2
      <3>2. ~Speaks(q[i], u)
        BY <2>2
      <3>. HIDE DEF h
      <3>. QED
        BY <3>1, <3>2 DEF Turn
    <2>. QED
      BY <2>1, <2>2
  <1>. HIDE DEF h
  <1>. QED
    BY <1>3, <1>4 DEF Leads

\* Every element of a finite set is in every listing of it.
LEMMA ListingComplete ==
    ASSUME NEW S, IsFiniteSet(S), NEW f \in Listings(S)
    PROVE  /\ Cardinality(S) \in Nat /\ f \in [1..Cardinality(S) -> S]
           /\ \A i, j \in 1..Cardinality(S) : f[i] = f[j] => i = j
           /\ \A r \in S : \E i \in 1..Cardinality(S) : f[i] = r
  <1>1. /\ Cardinality(S) \in Nat /\ f \in [1..Cardinality(S) -> S]
        /\ \A i, j \in 1..Cardinality(S) : f[i] = f[j] => i = j
    BY FS_CardinalityType DEF Listings
  <1>2. ASSUME NEW r \in S, \A i \in 1..Cardinality(S) : f[i] # r PROVE FALSE
    <2>1. f \in [1..Cardinality(S) -> S \ {r}]
      BY <1>1, <1>2
    <2>2. IsFiniteSet(S \ {r}) /\ Cardinality(S \ {r}) = Cardinality(S) - 1
      BY FS_RemoveElement
    <2>3. IsFiniteSet(1..Cardinality(S)) /\ Cardinality(1..Cardinality(S)) = Cardinality(S)
      BY <1>1, FS_Interval
    <2>4. Cardinality(S \ {r}) < Cardinality(1..Cardinality(S))
      BY <1>1, <2>2, <2>3
    <2>5. \E x, y \in 1..Cardinality(S) : x # y /\ f[x] = f[y]
      <3>. DEFINE D == 1..Cardinality(S)
                  T == S \ {r}
      <3>1. f \in [D -> T] /\ IsFiniteSet(D) /\ IsFiniteSet(T) /\ Cardinality(T) < Cardinality(D)
        BY <2>1, <2>2, <2>3, <2>4
      <3>. HIDE DEF D, T
      <3>2. \E x, y \in D : x # y /\ f[x] = f[y]
        BY <3>1, FS_PigeonHole
      <3>. QED
        BY <3>2 DEF D
    <2>. QED
      BY <1>1, <2>5
  <1>. QED
    BY <1>1, <1>2

\* What server_sync sends: each registered user once
Burst(q, s) ==
    /\ q \in Seq(Msg)
    /\ \A i \in 1..Len(q) : Opening(q[i]) \/ \E r \in Registered(s) : q[i] = UIDmsg(r)
    /\ \A r \in Registered(s) : \E i \in 1..Len(q) : q[i] = UIDmsg(r)
    /\ \A i, j \in 1..Len(q) : \A r \in Registered(s) : q[i] = UIDmsg(r) /\ q[j] = UIDmsg(r) => i = j

\* It is what server_sync of two servers makes of the lists of s.
LEMMA BurstListed ==
    ASSUME IInv, NEW s \in Server, Servers(s) \ {s} = {},
           NEW sl \in ServerListings(s, Servers(s) \ {s}), NEW ul \in Listings(Registered(s)),
           \A r1, r2 \in users[s] : r1.uid = r2.uid => r1 = r2,
           NEW greeting, greeting = <<SERVER>> \/ greeting = <<>>
    PROVE  Burst(greeting \o [i \in DOMAIN sl |-> SID(uplink[s][sl[i]], sl[i])]
                          \o [i \in DOMAIN ul |-> UIDmsg(ul[i])], s)
  <1>. DEFINE sids == [i \in DOMAIN sl |-> SID(uplink[s][sl[i]], sl[i])]
              uids == [i \in DOMAIN ul |-> UIDmsg(ul[i])]
              n == Cardinality(Registered(s))
              g == Len(greeting)
              q == greeting \o uids
  <1>1. sids = <<>>
    <2>1. sl \in [1..0 -> {}]
      BY FS_EmptySet DEF ServerListings, Listings
    <2>2. DOMAIN sl = 1..0
      BY <2>1
    <2>. QED
      BY <2>2
  <1>2. greeting \in Seq(Msg) /\ Opening(SERVER) /\ greeting \o <<>> = greeting
    <2>1. SERVER \in Msg /\ Opening(SERVER)
      BY MessageTypes DEF SERVER, Opening
    <2>2. <<SERVER>> \in Seq(Msg) /\ <<>> \in Seq(Msg)
      BY <2>1
    <2>3. greeting \in Seq(Msg)
      BY <2>2
    <2>4. greeting \o <<>> = greeting
      BY <2>3
    <2>. QED
      BY <2>1, <2>3, <2>4
  <1>3. g \in Nat /\ \A i \in 1..g : greeting[i] = SERVER
    <2>1. Len(<<SERVER>>) = 1 /\ <<SERVER>>[1] = SERVER /\ Len(<<>>) = 0
      OBVIOUS
    <2>. QED
      BY <2>1
  <1>4. /\ n \in Nat /\ ul \in [1..n -> Registered(s)]
        /\ \A i, j \in 1..n : ul[i] = ul[j] => i = j
        /\ \A r \in Registered(s) : \E i \in 1..n : ul[i] = r
    <2>1. IsFiniteSet(Registered(s))
      BY FS_Subset DEF IInv, TableInv, Registered
    <2>. QED
      BY <2>1, ListingComplete
  <1>. HIDE DEF n
  <1>5. uids \in Seq(Msg) /\ Len(uids) = n /\ \A i \in 1..n : uids[i] = UIDmsg(ul[i])
    <2>1. \A r \in Registered(s) : UIDmsg(r) \in Msg
      BY MessageTypes DEF IInv, TableInv, Registered
    <2>2. DOMAIN ul = 1..n /\ \A i \in 1..n : UIDmsg(ul[i]) \in Msg
      BY <1>4, <2>1
    <2>. QED
      BY <1>4, <2>2
  <1>6. \A r1, r2 \in Registered(s) : UIDmsg(r1) = UIDmsg(r2) => r1 = r2
    <2>1. \A r1, r2 \in Registered(s) : UIDmsg(r1) = UIDmsg(r2) => r1.uid = r2.uid
      BY DEF UIDmsg
    <2>. QED
      BY <2>1 DEF Registered
  <1>. HIDE DEF uids, g
  <1>7. /\ \A i \in 1..n : \E r \in Registered(s) : uids[i] = UIDmsg(r)
        /\ \A r \in Registered(s) : \E i \in 1..n : uids[i] = UIDmsg(r)
        /\ \A i, j \in 1..n : uids[i] = uids[j] => i = j
    <2>1. \A i \in 1..n : ul[i] \in Registered(s)
      BY <1>4
    <2>2. \A i \in 1..n : \E r \in Registered(s) : uids[i] = UIDmsg(r)
      BY <1>5, <2>1
    <2>3. \A r \in Registered(s) : \E i \in 1..n : uids[i] = UIDmsg(r)
      BY <1>4, <1>5
    <2>4. \A i, j \in 1..n : uids[i] = uids[j] => i = j
      BY <1>4, <1>5, <1>6, <2>1
    <2>. QED
      BY <2>2, <2>3, <2>4
  <1>8. /\ q \in Seq(Msg)
        /\ \A i \in 1..g : i \in 1..Len(q) /\ q[i] = greeting[i]
        /\ \A i \in 1..n : i + g \in 1..Len(q) /\ q[i + g] = uids[i]
        /\ \A i \in 1..Len(q) : i \in Int /\ (i \in 1..g \/ (i - g \in 1..n /\ q[i] = uids[i - g]))
    <2>1. g = Len(greeting) /\ n = Len(uids) /\ g \in Nat /\ n \in Nat
      BY <1>3, <1>4, <1>5 DEF g
    <2>2. q \in Seq(Msg) /\ Len(q) = g + n
      BY <1>2, <1>5, <2>1
    <2>3. \A i \in 1..Len(q) : q[i] = IF i <= g THEN greeting[i] ELSE uids[i - g]
      BY <1>2, <1>5, <2>1, <2>2
    <2>. HIDE DEF q
    <2>4. \A i \in 1..g : i \in 1..Len(q) /\ i <= g
      BY <2>1, <2>2
    <2>5. \A i \in 1..n : i + g \in 1..Len(q) /\ ~(i + g <= g) /\ (i + g) - g = i
      BY <2>1, <2>2
    <2>6. \A i \in 1..Len(q) : i \in Int /\ (i \in 1..g \/ (i - g \in 1..n /\ ~(i <= g)))
      BY <2>1, <2>2
    <2>. QED
      BY <2>2, <2>3, <2>4, <2>5, <2>6
  <1>a. \A r : SERVER # UIDmsg(r)
    BY DEF SERVER, UIDmsg
  <1>. HIDE DEF q
  <1>9. Burst(q, s)
    <2>1. \A i \in 1..Len(q) : Opening(q[i]) \/ \E r \in Registered(s) : q[i] = UIDmsg(r)
      <3>1. SUFFICES ASSUME NEW i \in 1..Len(q)
                     PROVE  Opening(q[i]) \/ \E r \in Registered(s) : q[i] = UIDmsg(r)
        OBVIOUS
      <3>2. CASE i \in 1..g
        <4>1. q[i] = SERVER
          BY <1>3, <1>8, <3>2
        <4>. QED
          BY <1>2, <4>1
      <3>3. CASE i - g \in 1..n /\ q[i] = uids[i - g]
        <4>1. \E r \in Registered(s) : uids[i - g] = UIDmsg(r)
          BY <1>7, <3>3
        <4>. QED
          BY <3>3, <4>1
      <3>. QED
        BY <1>8, <3>2, <3>3
    <2>2. \A r \in Registered(s) : \E i \in 1..Len(q) : q[i] = UIDmsg(r)
      <3>1. SUFFICES ASSUME NEW r \in Registered(s) PROVE \E i \in 1..Len(q) : q[i] = UIDmsg(r)
        OBVIOUS
      <3>2. PICK i \in 1..n : uids[i] = UIDmsg(r)
        BY <1>7
      <3>3. i + g \in 1..Len(q) /\ q[i + g] = UIDmsg(r)
        BY <1>8, <3>2
      <3>. QED
        BY <3>3
    <2>3. ASSUME NEW i \in 1..Len(q), NEW j \in 1..Len(q), NEW r \in Registered(s),
                 q[i] = UIDmsg(r), q[j] = UIDmsg(r)
          PROVE  i = j
      <3>1. i - g \in 1..n /\ q[i] = uids[i - g] /\ j - g \in 1..n /\ q[j] = uids[j - g]
        BY <1>3, <1>8, <1>a, <2>3
      <3>2. i - g = j - g
        BY <1>7, <2>3, <3>1
      <3>3. i \in Int /\ j \in Int
        BY <1>8
      <3>. QED
        BY <1>3, <3>2, <3>3
    <2>. QED
      BY <1>8, <2>1, <2>2, <2>3 DEF Burst
  <1>. QED
    BY <1>1, <1>2, <1>9 DEF q, uids

\* What it tells of a user u of s
LEMMA BurstFlow ==
    ASSUME NEW s, NEW q, Burst(q, s), users[s] \subseteq UserRec,
           \A r1, r2 \in users[s] : r1.uid = r2.uid => r1 = r2, NEW u
    PROVE  /\ ~Doomed(q, u)
           /\ Mentioned(q, u) => Regs(s, u) # {}
           /\ \A j \in 1..Len(q) : Introduces(q[j], u) => \A i \in 1..(j - 1) : ~Mentions(q[i], u)
           /\ Leads(q, u, {}, Regs(s, u))
  <1>0. q \in Seq(Msg) /\ Len(q) \in Nat
    BY DEF Burst
  <1>1. \A r : UIDmsg(r).type = "UID" /\ UIDmsg(r).uid = r.uid
    BY DEF UIDmsg
  <1>2. ASSUME NEW i \in 1..Len(q), Mentions(q[i], u)
        PROVE  \E r \in Registered(s) : q[i] = UIDmsg(r) /\ r.uid = u
    <2>1. ~Opening(q[i])
      BY <1>2 DEF Opening, Mentions, Speaks
    <2>2. PICK r \in Registered(s) : q[i] = UIDmsg(r)
      BY <2>1 DEF Burst
    <2>3. r.uid = u
      BY <1>1, <1>2, <2>2 DEF Mentions, Speaks
    <2>. QED
      BY <2>2, <2>3
  <1>3. ~Doomed(q, u)
    BY <1>1, <1>2, MentionKinds DEF Doomed, Kills
  <1>4. \A r \in Registered(s) : r.uid = u => Regs(s, u) = {r}
    BY DEF Registered, Regs, ByUID
  <1>5. Mentioned(q, u) => Regs(s, u) # {}
    BY <1>2, <1>4 DEF Mentioned
  <1>6. \A i, j \in 1..Len(q) : Mentions(q[i], u) /\ Mentions(q[j], u) => i = j
    <2>1. SUFFICES ASSUME NEW i \in 1..Len(q), NEW j \in 1..Len(q), Mentions(q[i], u), Mentions(q[j], u)
                   PROVE  i = j
      OBVIOUS
    <2>2. PICK r1 \in Registered(s) : q[i] = UIDmsg(r1) /\ r1.uid = u
      BY <1>2, <2>1
    <2>3. PICK r2 \in Registered(s) : q[j] = UIDmsg(r2) /\ r2.uid = u
      BY <1>2, <2>1
    <2>4. r1 = r2
      BY <2>2, <2>3 DEF Registered
    <2>. QED
      BY <2>2, <2>3, <2>4 DEF Burst
  <1>7. \A j \in 1..Len(q) : Introduces(q[j], u) => \A i \in 1..(j - 1) : ~Mentions(q[i], u)
    <2>1. \A j \in 1..Len(q) : \A i \in 1..(j - 1) : i \in 1..Len(q) /\ i # j
      BY <1>0
    <2>. QED
      BY <1>6, <2>1, MentionKinds
  <1>8. Leads(q, u, {}, Regs(s, u))
    <2>1. CASE \A r \in Registered(s) : r.uid # u
      <3>1. Regs(s, u) = {}
        BY <2>1 DEF Registered, Regs, ByUID
      <3>2. \A i \in 1..Len(q) : ~Speaks(q[i], u)
        BY <1>2, <2>1, MentionKinds
      <3>3. Leads(q, u, {}, {})
        BY <1>0, <3>2, LeadsIdle
      <3>. QED
        BY <3>1, <3>3
    <2>2. ASSUME NEW r \in Registered(s), r.uid = u PROVE Leads(q, u, {}, Regs(s, u))
      <3>1. PICK k \in 1..Len(q) : q[k] = UIDmsg(r)
        BY DEF Burst
      <3>2. Introduces(q[k], u) /\ Speaks(q[k], u) /\ Mentions(q[k], u)
        BY <1>1, <2>2, <3>1, MentionKinds DEF Introduces
      <3>3. \A i \in 1..Len(q) : Speaks(q[i], u) => i = k
        BY <1>6, <3>2, MentionKinds
      <3>4. Client(q[k]) = r
        <4>1. r \in UserRec /\ r.reg = TRUE
          BY DEF Registered, UserRec
        <4>2. UIDmsg(r).uid = r.uid /\ UIDmsg(r).nick = r.nick /\ UIDmsg(r).ts = r.ts
          BY DEF UIDmsg
        <4>3. Client(q[k]) = [uid |-> r.uid, nick |-> r.nick, ts |-> r.ts, reg |-> TRUE]
          BY <3>1, <4>2 DEF Client
        <4>. QED
          BY <4>1, <4>3 DEF UserRec
      <3>5. Client(q[k]) \in UserRec
        BY <3>4 DEF Registered
      <3>6. Leads(q, u, {}, {Client(q[k])})
        BY <1>0, <3>2, <3>3, <3>5, LeadsIntroduced
      <3>. QED
        BY <1>4, <2>2, <3>4, <3>6
    <2>. QED
      BY <2>1, <2>2
  <1>. QED
    BY <1>3, <1>5, <1>7, <1>8
\* SERVER is read: s is linked and bursts.
LEMMA ServerLinkPair ==
    ASSUME IInv, Handshakes, Routed, TwoServers, PairInv, NEW s \in Server, NEW t \in Server,
           RecvSERVER(s, t)
    PROVE  PairInv'
  <1>1. chan[t][s] # <<>> /\ Head(chan[t][s]).type = "SERVER"
    BY DEF RecvSERVER, Receives
  <1>2. t # s /\ t # None /\ used' = used
    BY <1>1, ReceivedMessage DEF RecvSERVER, IInv
  <1>3. conn[s][t] \in {"in", "sent"} /\ chan[s][t] = <<>>
    <2>. DEFINE da == <<s, t>> \in dead
                db == <<t, s>> \in dead
    <2>1. /\ conn[s][t] \in ConnState /\ conn[t][s] \in ConnState
          /\ chan[s][t] \in Seq(Msg) /\ chan[t][s] \in Seq(Msg)
          /\ da \in BOOLEAN /\ db \in BOOLEAN
          /\ Pair(conn[s][t], conn[t][s], chan[t][s], chan[s][t], da, db)
      BY <1>2, ConnectionTypes DEF Handshakes, Connection, IInv
    <2>. HIDE DEF da, db
    <2>. QED
      BY <1>1, <2>1, GreetedPair
  <1>4. /\ ~Known(s, t) /\ Servers(s) \ {s} = {}
        /\ \A r \in users[s] : r.uid \in UID /\ Home[r.uid] = s /\ r.uid \in used
        /\ \A r1, r2 \in users[s] : r1.uid = r2.uid => r1 = r2
        /\ users[s] \subseteq UserRec
    <2>1. dir[s][t] = None
      BY <1>2, <1>3, UsersHere
    <2>2. \A x \in Server : x = s \/ x = t
      BY <1>2, OtherServer
    <2>3. Servers(s) \ {s} = {}
      BY <2>1, <2>2 DEF Servers, Known
    <2>4. \A r \in users[s] : r.uid \in UID /\ Home[r.uid] = s /\ r.uid \in used
      BY <1>2, <1>3, UsersHere
    <2>5. (\A r1, r2 \in users[s] : r1.uid = r2.uid => r1 = r2) /\ users[s] \subseteq UserRec
      BY <1>2, UsersHere
    <2>. QED
      BY <2>1, <2>3, <2>4, <2>5 DEF Known
  <1>. DEFINE greeting == IF conn[s][t] = "in" THEN <<SERVER>> ELSE <<>>
  <1>5. greeting = <<SERVER>> \/ greeting = <<>>
    OBVIOUS
  <1>6. PICK sl \in ServerListings(s, Servers(s) \ {s}), ul \in Listings(Registered(s)) :
            LET burst == greeting \o [i \in DOMAIN sl |-> SID(uplink[s][sl[i]], sl[i])]
                                  \o [i \in DOMAIN ul |-> UIDmsg(ul[i])]
            IN  /\ conn' = [conn EXCEPT ![s][t] = "up"]
                /\ dir' = [dir EXCEPT ![s][t] = t]
                /\ chan' = Deliver(Consume(chan, s, t), s,
                               Cat(ToServers(Up(s), {t}, SID(s, t)),
                                   [NoOut EXCEPT ![t] = burst]), Alive(s))
                /\ UNCHANGED <<dead, users>>
    BY <1>4 DEF RecvSERVER
  <1>. DEFINE all == greeting \o [i \in DOMAIN sl |-> SID(uplink[s][sl[i]], sl[i])]
                              \o [i \in DOMAIN ul |-> UIDmsg(ul[i])]
              out == Cat(ToServers(Up(s), {t}, SID(s, t)), [NoOut EXCEPT ![t] = all])
  <1>7. Burst(all, s)
    <2>. HIDE DEF greeting
    <2>. QED
      BY <1>4, <1>5, BurstListed
  <1>8. chan' = Deliver(Consume(chan, s, t), s, out, Alive(s))
    BY <1>6
  <1>. HIDE DEF all, greeting
  <1>9. all \in Seq(Msg) /\ <<>> \o all = all
    <2>1. all \in Seq(Msg)
      BY <1>7 DEF Burst
    <2>. QED
      BY <2>1
  <1>10. out \in Out /\ out[t] = all
    <2>1. SID(s, t) \in Msg
      BY MessageTypes
    <2>2. ToServers(Up(s), {t}, SID(s, t)) \in Out /\ [NoOut EXCEPT ![t] = all] \in Out
      BY <1>9, <2>1, OutTypes DEF Out
    <2>3. out \in Out
      BY <2>2, OutTypes
    <2>4. out[t] = all
      BY <1>9 DEF Cat, ToServers, NoOut
    <2>. QED
      BY <2>3, <2>4
  <1>. HIDE DEF out
  <1>11. Streamed(s, t, out, Alive(s))
    <2>1. Alive(s) \in SUBSET Server
      BY DEF Alive
    <2>. QED
      BY <1>2, <1>8, <1>10, <2>1, DeliverEffect DEF IInv
  <1>12. /\ chan'[t][s] = Tail(chan[t][s])
         /\ chan'[s][t] = (IF t \in Alive(s) THEN all ELSE <<>>)
    BY <1>2, <1>3, <1>9, <1>10, <1>11 DEF Streamed
  <1>13. /\ dead' = dead /\ users' = users /\ conn'[s][t] = "up" /\ conn'[t][s] = conn[t][s]
         /\ dir'[s][t] = t /\ dir'[t] = dir[t]
    BY <1>2, <1>6 DEF IInv, LinkInv, TableInv
  <1>14. /\ \A x, u : ByUID(x, u)' = ByUID(x, u) /\ Regs(x, u)' = Regs(x, u)
         /\ \A x, u : Given(x, u)' <=> Given(x, u)
         /\ UIDUnique' /\ (\A x \in Server : Locals(x))'
    <2>1. \A x, u : ByUID(x, u)' = ByUID(x, u) /\ Regs(x, u)' = Regs(x, u)
      BY <1>13 DEF ByUID, Regs
    <2>2. \A x, u : Given(x, u)' <=> Given(x, u)
      BY <1>2, <1>13 DEF ByUID, Given
    <2>3. UIDUnique'
      BY <1>13 DEF PairInv, UIDUnique
    <2>4. (\A x \in Server : Locals(x))'
      BY <1>2, <1>13 DEF PairInv, Locals
    <2>. QED
      BY <2>1, <2>2, <2>3, <2>4
  <1>15. chan[t][s] \in Seq(Msg)
    BY DEF IInv, LinkInv, Streams
  <1>16. Flows(t, s)'
    <2>1. \A i \in 1..Len(chan'[t][s]) : Proper(chan'[t][s][i], t)
      <3>1. \A i \in 1..Len(Tail(chan[t][s])) :
               i + 1 \in 1..Len(chan[t][s]) /\ Tail(chan[t][s])[i] = chan[t][s][i + 1]
        BY <1>1, <1>15
      <3>. QED
        BY <1>2, <1>12, <3>1 DEF PairInv, Flows
    <2>2. (\A i \in 1..Len(chan[t][s]) : Proper(chan[t][s][i], t))'
      BY <2>1 DEF Proper
    <2>3. ASSUME NEW u \in UID, Home[u] = t PROVE Flow(t, s, u)'
      <3>. DEFINE q == chan[t][s]
                  v == ByUID(s, u)
                  p1 == chan'[s][t]
                  G == Regs(t, u)
      <3>1. Flow(t, s, u)
        BY <1>2, <2>3 DEF PairInv, Flows
      <3>2. ~Speaks(Head(q), u)
        BY <1>1 DEF Speaks
      <3>3. Turn(Head(q), u, v, v) /\ Takes(Head(q), u, v, v)
        BY <3>2 DEF Turn, Takes
      <3>4. ~Doomed(all, u)
        BY <1>4, <1>7, BurstFlow
      <3>5. (p1 = <<>> \/ p1 = <<>> \o all) /\ <<>> \in Seq(Msg) /\ chan[s][t] = <<>>
        BY <1>3, <1>9, <1>12
      <3>6. /\ Fresh(q, <<>>, u, v)
            /\ conn[t][s] \in {"in", "sent"} \/ ~Given(t, u) => Untouched(q, <<>>, u, v)
            /\ Live(t, s) => Agree(q, <<>>, u, v, G)
        BY <3>1, <3>5 DEF Flow
      <3>. HIDE DEF q, v, p1, G
      <3>7. q \in Seq(Msg) /\ q # <<>>
        BY <1>1, <1>15 DEF q
      <3>8. Fresh(Tail(q), p1, u, v) /\ (Untouched(q, <<>>, u, v) => Untouched(Tail(q), p1, u, v))
        BY <1>9, <3>3, <3>4, <3>5, <3>6, <3>7, ReadFresh
      <3>9. Live(t, s) => Agree(Tail(q), p1, u, v, G)
        BY <1>9, <3>3, <3>5, <3>6, <3>7, ReadAgree
      <3>10. Live(t, s)' <=> Live(t, s)
        BY <1>13 DEF Live
      <3>11. ByUID(s, u)' = v /\ Regs(t, u)' = G /\ (Given(t, u)' <=> Given(t, u)) /\ chan'[t][s] = Tail(q)
        BY <1>12, <1>14 DEF v, G, q
      <3>12. chan'[s][t] = p1 /\ conn'[t][s] = conn[t][s]
        BY <1>13 DEF p1
      <3>. QED
        BY <3>6, <3>8, <3>9, <3>10, <3>11, <3>12, Zenon DEF Flow
    <2>. QED
      BY <1>13, <2>2, <2>3 DEF Flows
  <1>17. Flows(s, t)'
    <2>1. \A i \in 1..Len(chan'[s][t]) : Proper(chan'[s][t][i], s)
      <3>1. ASSUME NEW i \in 1..Len(all) PROVE Proper(all[i], s)
        <4>1. CASE Opening(all[i])
          BY <4>1 DEF Opening, Proper
        <4>2. ASSUME NEW r \in Registered(s), all[i] = UIDmsg(r) PROVE Proper(all[i], s)
          <5>1. Home[r.uid] = s
            BY <1>4 DEF Registered
          <5>. QED
            BY <4>2, <5>1 DEF UIDmsg, Proper
        <4>. QED
          BY <1>7, <4>1, <4>2 DEF Burst
      <3>2. \A i \in 1..Len(<<>>) : FALSE
        OBVIOUS
      <3>. QED
        BY <1>12, <3>1, <3>2
    <2>2. (\A i \in 1..Len(chan[s][t]) : Proper(chan[s][t][i], s))'
      BY <2>1 DEF Proper
    <2>3. ASSUME NEW u \in UID, Home[u] = s PROVE Flow(s, t, u)'
      <3>. DEFINE p1 == Tail(chan[t][s])
                  q1 == chan'[s][t]
                  G == Regs(s, u)
      <3>1. Flow(s, t, u)
        BY <1>2, <2>3 DEF PairInv, Flows
      <3>2. ByUID(t, u) = {} /\ ~Doomed(chan[t][s], u)
        BY <1>3, <3>1 DEF Flow, Untouched
      <3>3. ~Doomed(p1, u)
        BY <1>1, <1>15, <3>2, TailMessages
      <3>4. /\ ~Doomed(all, u)
            /\ Mentioned(all, u) => G # {}
            /\ \A j \in 1..Len(all) : Introduces(all[j], u) => \A i \in 1..(j - 1) : ~Mentions(all[i], u)
            /\ Leads(all, u, {}, G)
        BY <1>4, <1>7, BurstFlow
      <3>5. G # {} => Given(s, u)
        <4>1. ASSUME NEW r \in G PROVE Given(s, u)
          <5>1. r \in users[s] /\ r.uid = u /\ r.reg
            BY DEF Regs, ByUID
          <5>2. u \in used /\ \A x \in users[s] : x.uid = u => x = r
            BY <1>4, <5>1
          <5>. QED
            BY <5>1, <5>2 DEF Given, ByUID
        <4>. QED
          BY <4>1
      <3>6. G \in SUBSET UserRec
        BY <1>4 DEF Regs, ByUID
      <3>. HIDE DEF p1, q1, G
      <3>7. Fresh(all, p1, u, {}) /\ Fresh(<<>>, p1, u, {})
        <4>1. \A j \in 1..Len(<<>>) : FALSE
          OBVIOUS
        <4>2. ~New(<<>>, u)
          BY NoMessages
        <4>. QED
          BY <3>3, <3>4, <4>1, <4>2 DEF Fresh
      <3>8. q1 = all \/ q1 = <<>>
        BY <1>12 DEF q1
      <3>9. Fresh(q1, p1, u, {})
        BY <3>7, <3>8
      <3>10. ~Given(s, u) => Untouched(q1, p1, u, {})
        BY <3>3, <3>4, <3>5, <3>8, NoMessages DEF Untouched
      <3>11. Agree(all, p1, u, {}, G)
        BY <3>4, <3>6 DEF Agree
      <3>12. Live(s, t)' => q1 = all
        <4>1. Live(s, t)' => t \in Alive(s)
          BY <1>3, <1>13 DEF Live, Alive
        <4>. QED
          BY <1>12, <4>1 DEF q1
      <3>13. /\ ByUID(t, u)' = {} /\ Regs(s, u)' = G /\ (Given(s, u)' <=> Given(s, u))
             /\ chan'[t][s] = p1 /\ chan'[s][t] = q1
        BY <1>12, <1>14, <3>2 DEF p1, q1, G
      <3>14. conn'[s][t] \notin {"in", "sent"}
        BY <1>13
      <3>15. Live(s, t)' => Agree(q1, p1, u, {}, G)
        BY <3>11, <3>12
      <3>. QED
        BY <3>9, <3>10, <3>13, <3>14, <3>15, Zenon DEF Flow
    <2>4. conn'[t][s] = "up" => dir'[t][s] = s
      BY <1>2, <1>13 DEF PairInv, Flows
    <2>. QED
      BY <2>2, <2>3, <2>4 DEF Flows
  <1>18. (\A x, y \in Server : x # y => Flows(y, x))'
    <2>1. \A x \in Server : x = s \/ x = t
      BY <1>2, OtherServer
    <2>. QED
      BY <1>16, <1>17, <2>1
  <1>. QED
    BY <1>14, <1>18 DEF PairInv

-----------------------------------------------------------------------------
(* The theorems about two servers *)

\* The invariant holds initially,
LEMMA PairInvInit == TwoServers /\ Init => PairInv
  <1>. SUFFICES ASSUME TwoServers, Init PROVE PairInv
    OBVIOUS
  <1>1. UIDUnique /\ \A s \in Server : Locals(s)
    BY DEF Init, UIDUnique, Locals
  <1>2. ASSUME NEW s \in Server, NEW t \in Server, s # t PROVE Flows(t, s)
    <2>1. /\ chan[t][s] = <<>> /\ chan[s][t] = <<>> /\ conn[s][t] = "none" /\ conn[t][s] = "none"
          /\ users[s] = {}
      BY DEF Init
    <2>2. \A i \in 1..Len(<<>>) : FALSE
      OBVIOUS
    <2>3. ASSUME NEW u \in UID PROVE Flow(t, s, u)
      <3>1. ByUID(s, u) = {}
        BY <2>1 DEF ByUID
      <3>2. Fresh(<<>>, <<>>, u, {}) /\ Untouched(<<>>, <<>>, u, {})
        BY <2>2, NoMessages DEF Fresh, Untouched
      <3>3. ~Live(t, s)
        BY <2>1 DEF Live
      <3>. QED
        BY <2>1, <3>1, <3>2, <3>3 DEF Flow
    <2>. QED
      BY <2>1, <2>2, <2>3 DEF Flows
  <1>. QED
    BY <1>1, <1>2 DEF PairInv

\* after every step,
LEMMA PairInvNext ==
    ASSUME TwoServers
    PROVE  /\ IInv /\ IInv' /\ Handshakes /\ Handshakes' /\ Routed /\ PairInv /\ [Next]_vars
           => PairInv'
  <1>. SUFFICES ASSUME IInv, IInv', Handshakes, Handshakes', Routed, PairInv, [Next]_vars
                PROVE  PairInv'
    OBVIOUS
  <1>1. CASE UNCHANGED vars
    <2>1. /\ chan' = chan /\ conn' = conn /\ dead' = dead /\ dir' = dir /\ users' = users
          /\ used' = used
      BY <1>1 DEF vars
    <2>2. UIDUnique' /\ (\A s \in Server : Locals(s))'
      BY <2>1 DEF PairInv, UIDUnique, Locals
    <2>3. ASSUME NEW s \in Server, NEW t \in Server, s # t PROVE Flows(t, s)'
      <3>1. Flows(t, s)
        BY <2>3 DEF PairInv
      <3>2. \A u : /\ ByUID(s, u)' = ByUID(s, u) /\ Regs(t, u)' = Regs(t, u)
                   /\ Given(t, u)' <=> Given(t, u)
        BY <2>1 DEF ByUID, Regs, Given
      <3>3. Live(t, s)' <=> Live(t, s)
        BY <2>1 DEF Live
      <3>4. \A u : Flow(t, s, u) => Flow(t, s, u)'
        BY <2>1, <3>2, <3>3, Zenon DEF Flow
      <3>5. (\A i \in 1..Len(chan[t][s]) : Proper(chan[t][s][i], t))'
        BY <2>1, <3>1 DEF Flows, Proper
      <3>. QED
        BY <2>1, <3>1, <3>4, <3>5 DEF Flows
    <2>. QED
      BY <2>2, <2>3 DEF PairInv
  <1>2. CASE Next
    <2>1. PICK s \in Server :
             \/ ClientStep(s)
             \/ \E t \in Server :
                   Connect(s, t) \/ ReadEOF(s, t) \/ LoseLink(s, t) \/ Receive(s, t)
      BY <1>2 DEF Next
    <2>2. PICK y \in Server : y # s
      BY OtherServer
    <2>3. CASE ClientStep(s)
      BY <2>2, <2>3, ClientPair, SquitPair DEF ClientStep
    <2>4. ASSUME NEW t \in Server, Connect(s, t) \/ ReadEOF(s, t) \/ LoseLink(s, t) PROVE PairInv'
      BY <2>4, ConnectionPair
    <2>5. ASSUME NEW t \in Server, Receive(s, t) PROVE PairInv'
      BY <2>5, EauthPair, AnswerPair, ServerLinkPair, NoServerMessages, BadSourcePair,
         UidPair, NickPair, QuitPair, KillPair DEF Receive
    <2>. QED
      BY <2>1, <2>3, <2>4, <2>5
  <1>. QED
    BY <1>1, <1>2

\* and so always.
LEMMA PairInvHolds ==
    ASSUME TwoServers
    PROVE  Spec => []PairInv
  BY PairInvInit, PairInvNext, Invariance, HandshakesHold, RoutedHolds, PTL DEF Spec

\* Between two servers no server ever has two clients with one UID, whatever
\* crosses on the link, is cut off with it or is sent again after it: cmd_uid may
\* add to the id hash table without looking the UID up.
THEOREM UIDUniqueOnPair ==
    ASSUME TwoServers
    PROVE  Spec => []UIDUnique
  <1>1. PairInv => UIDUnique
    BY DEF PairInv
  <1>. QED
    BY <1>1, PairInvHolds, PTL

\* Nothing is in flight: the flow of a user is what both servers have.
LEMMA SyncedFlow ==
    ASSUME IInv, PairInv, NEW s \in Server, NEW t \in Server, Synced(s, t),
           NEW u \in UID, Home[u] = t
    PROVE  /\ ByUID(s, u) \subseteq Regs(t, u)
           /\ MaxOper = 0 => Regs(t, u) \subseteq ByUID(s, u)
  <1>1. s # t /\ chan[t][s] = <<>> /\ chan[s][t] = <<>> /\ Live(t, s)
    BY DEF Synced, Linked, Live, IInv, LinkInv
  <1>2. Agree(<<>>, <<>>, u, ByUID(s, u), Regs(t, u))
    <2>1. Flow(t, s, u)
      BY <1>1 DEF PairInv, Flows
    <2>. QED
      BY <1>1, <2>1 DEF Flow
  <1>3. PICK w \in SUBSET UserRec :
           /\ Leads(<<>>, u, ByUID(s, u), w) /\ w \subseteq Regs(t, u)
           /\ MaxOper = 0 => Doomed(<<>>, u) \/ Regs(t, u) \subseteq w
    BY <1>2 DEF Agree
  <1>4. w = ByUID(s, u)
    <2>1. Len(<<>>) = 0
      OBVIOUS
    <2>. QED
      BY <1>3, <2>1 DEF Leads
  <1>5. ~Doomed(<<>>, u)
    BY NoMessages
  <1>. QED
    BY <1>3, <1>4, <1>5

\* Two linked servers with nothing in flight between them have no ghosts: what
\* one knows behind the other is there, with operators and their KILLs and
\* SQUITs too, whatever collided, crossed or split before (the KILLs of
\* nick_collision and remove_unknown, the exits of exit_client_ex, the burst).
THEOREM NoGhostsOnPair ==
    ASSUME TwoServers
    PROVE  Spec => []NoGhosts
  <1>1. IInv /\ PairInv => NoGhosts
    <2>1. SUFFICES ASSUME IInv, PairInv, NEW s \in Server, NEW t \in Server, Synced(s, t)
                   PROVE  /\ \A r \in Registered(s) :
                                Direction(s, r.uid) = t => r \in Registered(t) /\ Direction(t, r.uid) # s
                          /\ \A x \in Servers(s) : dir[s][x] = t => Known(t, x) /\ dir[t][x] # s
      BY DEF NoGhosts
    <2>2. s # t /\ dir[s][s] = s /\ dir[t][t] = t /\ t # None /\ \A x \in Server : x = s \/ x = t
      BY <2>1, ConstantsAssumption, OtherServer DEF Synced, Linked, IInv, LinkInv, TableInv
    <2>3. ASSUME NEW r \in Registered(s), Direction(s, r.uid) = t
          PROVE  r \in Registered(t) /\ Direction(t, r.uid) # s
      <3>1. r \in users[s] /\ r.uid \in UID /\ Home[r.uid] \in Server
        BY <2>1, ConstantsAssumption DEF Registered, IInv, TableInv, UserRec
      <3>2. Home[r.uid] = t
        BY <2>2, <2>3, <3>1 DEF Direction
      <3>3. r \in Regs(t, r.uid)
        BY <2>1, <3>1, <3>2, SyncedFlow DEF ByUID
      <3>. QED
        <4>1. r \in Registered(t)
          BY <3>3 DEF Regs, ByUID, Registered
        <4>2. Direction(t, r.uid) = t
          BY <2>2, <3>1, <3>2 DEF Direction
        <4>. QED
          BY <2>2, <4>1, <4>2
    <2>4. ASSUME NEW x \in Servers(s), dir[s][x] = t PROVE Known(t, x) /\ dir[t][x] # s
      <3>1. x = t
        BY <2>2, <2>4 DEF Servers
      <3>. QED
        BY <2>2, <3>1 DEF Known
    <2>. QED
      BY <2>3, <2>4
  <1>. QED
    BY <1>1, Invariance, PairInvHolds, PTL

\* Without operators two linked servers with nothing in flight between them have
\* the same registered users, with the same nicks and timestamps, and the same
\* servers: every collision that cmd_uid and cmd_nick_remote resolve on one side
\* is resolved the same way on the other, or undone by the KILLs that cross.
THEOREM LinkAgreementOnPair ==
    ASSUME TwoServers, MaxOper = 0
    PROVE  Spec => []LinkAgreement
  <1>1. IInv /\ PairInv => LinkAgreement
    <2>1. SUFFICES ASSUME IInv, PairInv, NEW s \in Server, NEW t \in Server, Synced(s, t)
                   PROVE  Registered(s) = Registered(t) /\ Servers(s) = Servers(t)
      BY DEF LinkAgreement
    <2>2. Synced(t, s)
      BY <2>1 DEF Synced, Linked
    <2>3. s # t /\ s # None /\ t # None /\ \A x \in Server : x = s \/ x = t
      BY <2>1, ConstantsAssumption, OtherServer DEF Synced, Linked, IInv, LinkInv
    <2>4. ASSUME NEW x \in Server, NEW y \in Server, x # y, Synced(x, y)
          PROVE  Registered(x) \subseteq Registered(y) /\ Servers(x) = Server
      <3>1. \A z \in Server : z = x \/ z = y
        BY <2>4, OtherServer
      <3>2. Servers(x) = Server
        <4>1. dir[x][x] = x /\ dir[x][y] = y /\ x # None /\ y # None
          BY <2>1, <2>4, ConstantsAssumption DEF Synced, Linked, PairInv, Flows, IInv, TableInv
        <4>. QED
          BY <3>1, <4>1 DEF Servers, Known
      <3>3. ASSUME NEW r \in Registered(x) PROVE r \in Registered(y)
        <4>1. r \in users[x] /\ r.reg /\ r.uid \in UID /\ Home[r.uid] \in Server
          BY <2>1, ConstantsAssumption DEF Registered, IInv, TableInv, UserRec
        <4>2. CASE Home[r.uid] = y
          <5>1. ByUID(x, r.uid) \subseteq Regs(y, r.uid)
            BY <2>1, <2>4, <4>1, <4>2, SyncedFlow
          <5>. QED
            BY <4>1, <5>1 DEF Regs, ByUID, Registered
        <4>3. CASE Home[r.uid] = x
          <5>1. Synced(y, x)
            BY <2>4 DEF Synced, Linked
          <5>2. Regs(x, r.uid) \subseteq ByUID(y, r.uid)
            BY <2>1, <4>1, <4>3, <5>1, SyncedFlow
          <5>. QED
            BY <4>1, <5>2 DEF Regs, ByUID, Registered
        <4>. QED
          BY <3>1, <4>1, <4>2, <4>3
      <3>. QED
        BY <3>2, <3>3
    <2>5. Registered(s) \subseteq Registered(t) /\ Servers(s) = Server
      BY <2>1, <2>3, <2>4
    <2>6. Registered(t) \subseteq Registered(s) /\ Servers(t) = Server
      BY <2>2, <2>3, <2>4
    <2>. QED
      BY <2>5, <2>6
  <1>. QED
    BY <1>1, Invariance, PairInvHolds, PTL
=============================================================================
