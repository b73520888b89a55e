-------------------------- MODULE AgreementProofs --------------------------
(***************************************************************************)
(* Proof that two linked servers with nothing in flight have the very same *)
(* channel, on every tree of servers, when users act and links fail only   *)
(* once earlier events have settled: ChannelAgreement of ChannelSync.      *)
(*                                                                         *)
(* The network is always in one of three phases (Phases).  While channels  *)
(* are merged, what a server has and what is on its way to it come to the  *)
(* same at both ends of a link (Even): "to come to" is an algebra of parts *)
(* in which the oldest ones count, and every SJOIN moves a part without    *)
(* changing the sum.  While a channel is created, and while a change or a  *)
(* loss is spread, one end of a link is ahead of the other by exactly the  *)
(* message in flight (BornAhead, WaveAhead).                               *)
(***************************************************************************)
EXTENDS ChannelProofs

-----------------------------------------------------------------------------
(* Parts: what a server has and what is coming to it *)

\* +s counts for more than +p
Level(f) == IF "s" \in f THEN {1, 2} ELSE IF f = {} THEN {} ELSE {1}

\* What a part grants besides membership, as items that are there or not: a
\* limit grants every smaller one.
Items(p) ==
    {<<"o", u>> : u \in p.ops} \cup {<<"b", u>> : u \in p.bans}
        \cup {<<"l", n>> : n \in 1..p.lim} \cup {<<"f", n>> : n \in Level(p.modes)}

\* p is among the oldest of the parts P
Oldest(p, P) == \A q \in P : p.ts <= q.ts

\* The parts Q come to at least what the parts P come to
Covers(Q, P) ==
    \A p \in P :
        /\ \E q \in Q : q.ts <= p.ts
        /\ \A u \in p.members : \E q \in Q : u \in q.members
        /\ Oldest(p, P) => \A k \in Items(p) : \E q \in Q : Oldest(q, Q) /\ k \in Items(q)

Same(P, Q) == Covers(P, Q) /\ Covers(Q, P)

\* The lines of SJOIN in a stream
Lines(q) == {q[i] : i \in {j \in 1..Len(q) : q[j].type = "SJOIN"}}
Ids(q) == UNION {q[i].ids : i \in {j \in 1..Len(q) : q[j].type \in {"SERVER", "SID"}}}

\* A channel as a part, if there is one
Existing(c) == IF Exists(c) THEN {c} ELSE {}
Own(s) == Existing(ch[s])

\* What s has, what t has sent it and what t will still burst to it
Incoming(s, t) ==
    Own(s) \cup Lines(chan[t][s]) \cup (IF conn[t][s] = "out" THEN Own(t) ELSE {})

-----------------------------------------------------------------------------
(* The invariant while channels are merged *)

\* A line is well formed and comes after what it rests on: the servers of its
\* users, and the members that keep the channel alive
LineOK(q, i, c, k) ==
    /\ q[i].ops \subseteq q[i].members /\ ~({"s", "p"} \subseteq q[i].modes)
    /\ q[i].members \cap c.members = {}
    /\ \A u \in q[i].members :
          Home[u] \in k \/ \E j \in 1..i - 1 : q[j].type \in {"SERVER", "SID"} /\ Home[u] \in q[j].ids
    /\ \/ q[i].members # {} \/ Exists(c)
       \/ \E j \in 1..i - 1 : q[j].type = "SJOIN" /\ q[j].members # {}

\* The lines in q, for a reader with channel c that knows the servers k, are about
\* different users, of M
StreamOK(q, c, k, M) ==
    \A i \in 1..Len(q) : q[i].type = "SJOIN" =>
        /\ LineOK(q, i, c, k)
        /\ q[i].members \subseteq M
        /\ \A j \in 1..Len(q) : j # i /\ q[j].type = "SJOIN" => q[i].members \cap q[j].members = {}

\* What s has told t, and what it is telling
Tells(s, t) ==
    conn[s][t] = "up" =>
        /\ known[s] \cap Beyond(t, s) = (known[t] \cap Beyond(t, s)) \cup Ids(chan[s][t])
        /\ \A u \in ch[t].members : Home[u] \in Beyond(t, s) => u \in ch[s].members
        /\ StreamOK(chan[s][t], ch[t], known[t], ch[s].members)

Even(s, t) ==
    /\ conn[s][t] = "none" => conn[t][s] = "none"
    /\ Tells(s, t)
    /\ conn[s][t] # "none" => Same(Incoming(s, t), Incoming(t, s))

MergePhase == Merging /\ Pairs /\ \A s, t \in Server : s # t => Even(s, t)

-----------------------------------------------------------------------------
(* The invariant while a channel is created *)

Born(u, ts) == [NoChannel EXCEPT !.ts = ts, !.members = {u}, !.ops = {u}]
OnJoin == [mode |-> ModesOnJoin, add |-> TRUE, arg |-> None]
BornLine(u, ts) == SJOIN(ts, {u}, {u}, {}, 0, {})
BornMode(ts) == MODE(ts, OnJoin)

\* s is ahead of t
BornAhead(s, t, u, ts) ==
    /\ Home[u] \in Beyond(t, s) /\ chan[t][s] = <<>>
    /\ \/ ch[t] = NoChannel /\ ch[s] = Born(u, ts) /\ chan[s][t] = <<BornLine(u, ts)>>
       \/ /\ ModesOnJoin # None /\ ch[s] = SetMode(Born(u, ts), OnJoin)
          /\ \/ ch[t] = NoChannel /\ chan[s][t] = <<BornLine(u, ts), BornMode(ts)>>
             \/ ch[t] = Born(u, ts) /\ chan[s][t] = <<BornMode(ts)>>

Still(s, t) == chan[s][t] = <<>> /\ chan[t][s] = <<>> /\ ch[s] = ch[t]

BirthLink(s, t, u, ts) ==
    /\ conn[s][t] = "none" => conn[t][s] = "none" /\ chan[s][t] = <<>>
    /\ conn[s][t] # "none" =>
          /\ conn[s][t] = "up" /\ known[s] = known[t]
          /\ Still(s, t) \/ BornAhead(s, t, u, ts) \/ BornAhead(t, s, u, ts)

BirthPhase(u, ts) == Pairs /\ \A s, t \in Server : s # t => BirthLink(s, t, u, ts)

-----------------------------------------------------------------------------
(* The invariant while a change or a loss is spread *)

\* The channel c after t has read m
Read(c, m, t) ==
    IF m.type = "SQUIT" THEN Leave(c, {u \in User : Home[u] \in Beyond(t, m.id)})
    ELSE IF m.type \in {"PART", "KICK"} THEN IF m.user \in c.members THEN Leave(c, {m.user}) ELSE c
    ELSE IF ~Exists(c) THEN c ELSE SetMode(c, m.change)

ReadKnown(k, m, t) == IF m.type = "SQUIT" THEN k \ Beyond(t, m.id) ELSE k

WaveAhead(s, t) ==
    /\ Len(chan[s][t]) = 1 /\ chan[t][s] = <<>>
    /\ LET m == chan[s][t][1]
       IN  /\ m.type \in {"SQUIT", "PART", "KICK", "MODE"}
           /\ m.type = "SQUIT" => m.id \in Beyond(t, s)
           /\ m.type = "MODE" => m.ts = 0
           /\ ch[s] = Read(ch[t], m, t) /\ known[s] = ReadKnown(known[t], m, t)

\* The ends of a link in the wave
WaveLink(s, t) ==
    /\ conn[s][t] # "out"
    /\ conn[s][t] # "none" => {s, t} \in Edge
    /\ conn[t][s] = "none" => chan[s][t] = <<>>
    /\ conn[s][t] = "none" /\ conn[t][s] = "up" => chan[s][t] = <<EOF>>
    /\ conn[s][t] = "up" /\ conn[t][s] = "up" =>
          \/ Still(s, t) /\ known[s] = known[t]
          \/ WaveAhead(s, t) \/ WaveAhead(t, s)
    /\ Severed(s, t)

\* Nothing is in flight where the wave has not been yet
Hush(s, t) == chan[s][t] # <<>> => \A v, w \in Beyond(s, t) : chan[v][w] = <<>>

WavePhase == \A s, t \in Server : s # t => WaveLink(s, t) /\ Hush(s, t)

Phases == MergePhase \/ WavePhase \/ \E u \in User, ts \in TS : BirthPhase(u, ts)

-----------------------------------------------------------------------------
(* The algebra of parts *)

\* Parts that have a timestamp
Dated(P) == \A p \in P : p.ts \in Int

\* Covering is reflexive.
LEMMA CoversRefl ==
    ASSUME NEW P, Dated(P)
    PROVE  Covers(P, P)
  <1>1. \A p \in P : p.ts <= p.ts
    BY DEF Dated
  <1>. QED
    BY <1>1, Zenon DEF Covers

\* Covering is transitive.
LEMMA CoversTrans ==
    ASSUME NEW P, NEW Q, NEW R, Dated(P), Dated(Q), Dated(R), Covers(P, Q), Covers(Q, R)
    PROVE  Covers(P, R)
  <1>1. SUFFICES ASSUME NEW r \in R
                 PROVE  /\ \E p \in P : p.ts <= r.ts
                        /\ \A u \in r.members : \E p \in P : u \in p.members
                        /\ Oldest(r, R) => \A k \in Items(r) :
                              \E p \in P : Oldest(p, P) /\ k \in Items(p)
    BY DEF Covers
  <1>2. \E p \in P : p.ts <= r.ts
    <2>1. PICK q \in Q : q.ts <= r.ts
      BY DEF Covers
    <2>2. PICK p \in P : p.ts <= q.ts
      BY DEF Covers
    <2>. QED
      BY <2>1, <2>2 DEF Dated
  <1>3. \A u \in r.members : \E p \in P : u \in p.members
    BY Zenon DEF Covers
  <1>4. ASSUME Oldest(r, R), NEW k \in Items(r)
        PROVE  \E p \in P : Oldest(p, P) /\ k \in Items(p)
    BY <1>4, Zenon DEF Covers
  <1>. QED
    BY <1>2, <1>3, <1>4

\* Being the same is an equivalence.
LEMMA SameEquiv ==
    ASSUME NEW P, NEW Q, NEW R, Dated(P), Dated(Q), Dated(R)
    PROVE  /\ Same(P, P)
           /\ Same(P, Q) => Same(Q, P)
           /\ Same(P, Q) /\ Same(Q, R) => Same(P, R)
  BY CoversRefl, CoversTrans DEF Same

\* Whatever is added to both sides, they stay the same.
LEMMA CoversAdd ==
    ASSUME NEW P, NEW Q, NEW R, Dated(P), Dated(Q), Dated(R), Same(P, Q)
    PROVE  Covers(Q \cup R, P \cup R)
  <1>1. SUFFICES ASSUME NEW p \in P \cup R
                 PROVE  /\ \E q \in Q \cup R : q.ts <= p.ts
                        /\ \A u \in p.members : \E q \in Q \cup R : u \in q.members
                        /\ Oldest(p, P \cup R) => \A k \in Items(p) :
                              \E q \in Q \cup R : Oldest(q, Q \cup R) /\ k \in Items(q)
    BY DEF Covers
  <1>2. CASE p \in P
    <2>1. \E q \in Q : q.ts <= p.ts
      BY <1>2 DEF Same, Covers
    <2>2. \A u \in p.members : \E q \in Q : u \in q.members
      BY <1>2, Zenon DEF Same, Covers
    <2>3. ASSUME Oldest(p, P \cup R), NEW k \in Items(p)
          PROVE  \E q \in Q \cup R : Oldest(q, Q \cup R) /\ k \in Items(q)
      <3>1. Oldest(p, P) /\ \A r \in R : p.ts <= r.ts
        BY <2>3 DEF Oldest
      <3>2. PICK q \in Q : Oldest(q, Q) /\ k \in Items(q)
        BY <1>2, <2>3, <3>1, Zenon DEF Same, Covers
      <3>3. PICK z \in Q : z.ts <= p.ts
        BY <2>1
      <3>4. q.ts <= z.ts
        BY <3>2 DEF Oldest
      <3>5. \A r \in R : q.ts <= r.ts
        BY <1>2, <3>1, <3>3, <3>4 DEF Dated
      <3>6. Oldest(q, Q \cup R)
        BY <3>2, <3>5 DEF Oldest
      <3>. QED
        BY <3>2, <3>6
    <2>. QED
      BY <2>1, <2>2, <2>3
  <1>3. CASE p \in R
    <2>1. p.ts <= p.ts
      BY <1>3 DEF Dated
    <2>2. ASSUME Oldest(p, P \cup R)
          PROVE  Oldest(p, Q \cup R)
      <3>1. ASSUME NEW q \in Q PROVE p.ts <= q.ts
        <4>1. PICK z \in P : z.ts <= q.ts
          BY DEF Same, Covers
        <4>2. p.ts <= z.ts
          BY <2>2 DEF Oldest
        <4>. QED
          BY <4>1, <4>2, <1>3 DEF Dated
      <3>. QED
        BY <2>2, <3>1 DEF Oldest
    <2>. QED
      BY <1>3, <2>1, <2>2, Zenon
  <1>. QED
    BY <1>2, <1>3

\* Whatever is added to both sides, they stay the same.
LEMMA SameAdd ==
    ASSUME NEW P, NEW Q, NEW R, Dated(P), Dated(Q), Dated(R), Same(P, Q)
    PROVE  Same(P \cup R, Q \cup R) /\ Same(R \cup P, R \cup Q)
  <1>1. Same(Q, P)
    BY SameEquiv
  <1>2. Covers(Q \cup R, P \cup R) /\ Covers(P \cup R, Q \cup R)
    BY <1>1, CoversAdd
  <1>3. R \cup P = P \cup R /\ R \cup Q = Q \cup R
    OBVIOUS
  <1>. QED
    BY <1>2, <1>3 DEF Same

\* A part is determined by its items: each kind of them shows in the set.
LEMMA ItemKinds ==
    ASSUME NEW p
    PROVE  /\ \A u : <<"o", u>> \in Items(p) <=> u \in p.ops
           /\ \A u : <<"b", u>> \in Items(p) <=> u \in p.bans
           /\ \A n : <<"l", n>> \in Items(p) <=> n \in 1..p.lim
           /\ \A n : <<"f", n>> \in Items(p) <=> n \in Level(p.modes)
  BY DEF Items

\* The levels of +s and +p, and those of a merge
LEMMA Levels ==
    ASSUME NEW f \in SUBSET Flag, NEW g \in SUBSET Flag,
           ~({"s", "p"} \subseteq f), ~({"s", "p"} \subseteq g)
    PROVE  /\ Level(MergeFlags(f, g)) = Level(f) \cup Level(g)
           /\ Level(f) = Level(g) => f = g
           /\ Level({}) = {}
  <1>. USE DEF Flag
  <1>1. f \in {{}, {"s"}, {"p"}} /\ g \in {{}, {"s"}, {"p"}}
    OBVIOUS
  <1>2. Level({}) = {} /\ Level({"s"}) = {1, 2} /\ Level({"p"}) = {1}
    BY DEF Level
  <1>3. {1, 2} # {1} /\ {1, 2} # {} /\ {1} # {}
    OBVIOUS
  <1>4. /\ MergeFlags({}, {}) = {} /\ MergeFlags({"s"}, {"s"}) = {"s"} /\ MergeFlags({"p"}, {"p"}) = {"p"}
        /\ MergeFlags({}, {"s"}) = {"s"} /\ MergeFlags({"s"}, {}) = {"s"}
        /\ MergeFlags({}, {"p"}) = {"p"} /\ MergeFlags({"p"}, {}) = {"p"}
        /\ MergeFlags({"s"}, {"p"}) = {"s"} /\ MergeFlags({"p"}, {"s"}) = {"s"}
    BY DEF MergeFlags
  <1>5. Level(f) = Level(g) => f = g
    BY <1>1, <1>2, <1>3
  <1>6. Level(MergeFlags(f, g)) = Level(f) \cup Level(g)
    BY <1>1, <1>2, <1>4
  <1>. QED
    BY <1>2, <1>5, <1>6

\* A part with nothing but members has no items, and the items of two parts are
\* the items of what they are merged to.
LEMMA ItemsUnion ==
    ASSUME NEW a, NEW b, NEW c,
           a.lim \in Nat, b.lim \in Nat, a.modes \in SUBSET Flag, b.modes \in SUBSET Flag,
           ~({"s", "p"} \subseteq a.modes), ~({"s", "p"} \subseteq b.modes),
           c.ops = a.ops \cup b.ops, c.bans = a.bans \cup b.bans,
           c.lim = MergeLimit(a.lim, b.lim), c.modes = MergeFlags(a.modes, b.modes)
    PROVE  Items(c) = Items(a) \cup Items(b)
  <1>1. 1..c.lim = (1..a.lim) \cup (1..b.lim)
    BY DEF MergeLimit
  <1>2. Level(c.modes) = Level(a.modes) \cup Level(b.modes)
    BY Levels
  <1>. DEFINE O(S) == {<<"o", u>> : u \in S}
              B(S) == {<<"b", u>> : u \in S}
              L(S) == {<<"l", n>> : n \in S}
              F(S) == {<<"f", n>> : n \in S}
  <1>3. /\ O(c.ops) = O(a.ops) \cup O(b.ops) /\ B(c.bans) = B(a.bans) \cup B(b.bans)
    OBVIOUS
  <1>4. /\ L(1..c.lim) = L(1..a.lim) \cup L(1..b.lim)
        /\ F(Level(c.modes)) = F(Level(a.modes)) \cup F(Level(b.modes))
    BY <1>1, <1>2, Zenon
  <1>5. \A p : Items(p) = O(p.ops) \cup B(p.bans) \cup L(1..p.lim) \cup F(Level(p.modes))
    BY DEF Items
  <1>. HIDE DEF O, B, L, F
  <1>. QED
    BY <1>3, <1>4, <1>5

\* A part without statuses, bans and modes has no items.
LEMMA ItemsNone ==
    ASSUME NEW p, p.ops = {}, p.bans = {}, p.lim = 0, p.modes = {}
    PROVE  Items(p) = {}
  <1>1. 1..0 = {} /\ Level({}) = {}
    BY DEF Level
  <1>. QED
    BY <1>1 DEF Items

\* Items depend on these fields only.
LEMMA ItemsEqual ==
    ASSUME NEW p, NEW q, p.ops = q.ops, p.bans = q.bans, p.lim = q.lim, p.modes = q.modes
    PROVE  Items(p) = Items(q)
  BY DEF Items

\* What two parts come to, by age
LEMMA SumSame ==
    ASSUME NEW a, NEW b, NEW c, a.ts \in Int, b.ts \in Int, c.ts \in Int,
           c.members = a.members \cup b.members,
           a.ts < b.ts => c.ts = a.ts /\ Items(c) = Items(a),
           b.ts < a.ts => c.ts = b.ts /\ Items(c) = Items(b),
           a.ts = b.ts => c.ts = a.ts /\ Items(c) = Items(a) \cup Items(b)
    PROVE  Same({c}, {a, b})
  <1>1. Oldest(c, {c}) /\ c.ts <= a.ts /\ c.ts <= b.ts
    BY DEF Oldest
  <1>2. /\ Oldest(a, {a, b}) <=> a.ts <= b.ts
        /\ Oldest(b, {a, b}) <=> b.ts <= a.ts
    BY DEF Oldest
  <1>3. a.ts < b.ts \/ b.ts < a.ts \/ a.ts = b.ts
    OBVIOUS
  <1>4. Covers({c}, {a, b})
    <2>1. SUFFICES ASSUME NEW p \in {a, b}
                   PROVE  /\ c.ts <= p.ts /\ p.members \subseteq c.members
                          /\ Oldest(p, {a, b}) => Items(p) \subseteq Items(c)
      BY <1>1, Zenon DEF Covers
    <2>2. Oldest(p, {a, b}) => Items(p) \subseteq Items(c)
      BY <1>2, <1>3
    <2>. QED
      BY <1>1, <2>2
  <1>5. Covers({a, b}, {c})
    <2>1. \E p \in {a, b} : p.ts <= c.ts
      BY <1>3
    <2>2. \A u \in c.members : \E p \in {a, b} : u \in p.members
      OBVIOUS
    <2>3. \A k \in Items(c) : \E p \in {a, b} : Oldest(p, {a, b}) /\ k \in Items(p)
      BY <1>2, <1>3
    <2>. QED
      BY <2>1, <2>2, <2>3, Zenon DEF Covers
  <1>. QED
    BY <1>4, <1>5 DEF Same

\* Two parts that differ in what does not count
LEMMA TwinSame ==
    ASSUME NEW a, NEW b, a.ts \in Int, a.ts = b.ts, a.members = b.members, Items(a) = Items(b)
    PROVE  Same({a}, {b})
  <1>1. Oldest(a, {a}) /\ Oldest(b, {b}) /\ a.ts <= b.ts /\ b.ts <= a.ts
    BY DEF Oldest
  <1>. QED
    BY <1>1, Zenon DEF Same, Covers

\* Channels that come to the same are the same.
LEMMA SameChannel ==
    ASSUME NEW c, NEW d, WellFormed(c), WellFormed(d)
    PROVE  /\ Same({c}, {d}) => c = d
           /\ ~Same({}, {d}) /\ ~Same({c}, {})
  <1>1. ~Same({}, {d}) /\ ~Same({c}, {})
    BY DEF Same, Covers
  <1>2. ASSUME Same({c}, {d}) PROVE c = d
    <2>1. /\ c \in Channel /\ d \in Channel
          /\ ~({"s", "p"} \subseteq c.modes) /\ ~({"s", "p"} \subseteq d.modes)
      BY DEF WellFormed
    <2>2. /\ c.ts \in Int /\ d.ts \in Int /\ c.lim \in Nat /\ d.lim \in Nat
          /\ c.modes \in SUBSET Flag /\ d.modes \in SUBSET Flag
      BY <2>1, ChannelFields
    <2>3. Oldest(c, {c}) /\ Oldest(d, {d})
      BY <2>2 DEF Oldest
    <2>4. /\ c.ts <= d.ts /\ d.ts <= c.ts
          /\ \A u \in c.members : u \in d.members
          /\ \A u \in d.members : u \in c.members
          /\ \A k \in Items(c) : k \in Items(d)
          /\ \A k \in Items(d) : k \in Items(c)
      BY <1>2, <2>3, Zenon DEF Same, Covers
    <2>5. c.ts = d.ts /\ Items(c) = Items(d)
      BY <2>2, <2>4
    <2>6. c.members = d.members
      BY <2>4
    <2>7. /\ \A u : u \in c.ops <=> u \in d.ops
          /\ \A u : u \in c.bans <=> u \in d.bans
          /\ \A n : n \in 1..c.lim <=> n \in 1..d.lim
          /\ \A n : n \in Level(c.modes) <=> n \in Level(d.modes)
      BY <2>5, ItemKinds
    <2>8. c.ops = d.ops /\ c.bans = d.bans /\ Level(c.modes) = Level(d.modes)
      BY <2>7
    <2>9. c.modes = d.modes
      BY <2>1, <2>2, <2>8, Levels
    <2>10. c.lim = d.lim
      <3>1. c.lim \in 1..c.lim \/ c.lim = 0
        BY <2>2
      <3>2. d.lim \in 1..d.lim \/ d.lim = 0
        BY <2>2
      <3>3. (c.lim \in 1..d.lim \/ c.lim = 0) /\ (d.lim \in 1..c.lim \/ d.lim = 0)
        BY <2>7, <3>1, <3>2
      <3>. QED
        BY <2>2, <3>3
    <2>. QED
      BY <2>1, <2>5, <2>6, <2>8, <2>9, <2>10, ChannelFields
  <1>. QED
    BY <1>1, <1>2

\* A line of SJOIN as servers send it
Proper(m) ==
    /\ m \in Msg /\ m.type = "SJOIN"
    /\ m.ops \subseteq m.members /\ ~({"s", "p"} \subseteq m.modes)

\* The fields of a line have their types.
LEMMA ProperFields ==
    ASSUME NEW m, Proper(m)
    PROVE  /\ m.ts \in TS /\ m.ts \in Int /\ m.lim \in Nat /\ m.lim \in Limit \cup {0}
           /\ m.members \in SUBSET User /\ m.ops \in SUBSET User
           /\ m.modes \in SUBSET Flag /\ m.bans \in SUBSET User
  <1>1. (\A x \in TS : x \in Int) /\ (\A x \in Limit \cup {0} : x \in Nat)
    BY ConstantsAssumption
  <1>. QED
    BY <1>1, MessageFields DEF Proper

\* cmd_sjoin makes of our channel and their line what the two come to.
LEMMA SjoinSame ==
    ASSUME NEW c, WellFormed(c), NEW m, Proper(m), m.members \cap c.members = {},
           m.members # {} \/ Exists(c)
    PROVE  /\ WellFormed(Sjoin(c, m, m.members)) /\ Exists(Sjoin(c, m, m.members))
           /\ Same(Existing(Sjoin(c, m, m.members)), Existing(c) \cup {m})
  <1>. DEFINE d == Sjoin(c, m, m.members)
  <1>1. /\ m.ts \in TS /\ m.ts \in Int /\ m.lim \in Nat /\ m.lim \in Limit \cup {0}
        /\ m.members \in SUBSET User /\ m.ops \in SUBSET User
        /\ m.modes \in SUBSET Flag /\ m.bans \in SUBSET User
        /\ m.ops \subseteq m.members /\ ~({"s", "p"} \subseteq m.modes)
    BY ProperFields DEF Proper
  <1>2. /\ c \in Channel /\ c.ops \subseteq c.members /\ ~({"s", "p"} \subseteq c.modes)
        /\ c.ts \in Int /\ c.lim \in Nat /\ c.modes \in SUBSET Flag
    BY ChannelFields DEF WellFormed
  <1>3. WellFormed(d) /\ d.members = c.members \cup m.members
    BY <1>1, SjoinWellFormed
  <1>4. Exists(d)
    BY <1>3 DEF Exists
  <1>5. d.ts \in Int
    BY <1>3, ChannelFields DEF WellFormed
  <1>. DEFINE o == Ours(c, m.ts)
              joined == [o EXCEPT !.members = @ \cup m.members]
              merged == [ts |-> o.ts, members |-> o.members \cup m.members,
                         ops |-> o.ops \cup ((m.ops \cap m.members) \ c.members),
                         modes |-> MergeFlags(o.modes, m.modes),
                         lim |-> MergeLimit(o.lim, m.lim), bans |-> o.bans \cup m.bans]
              r == IF TheirsCount(c, m.ts) THEN merged ELSE joined
  <1>6. d = DestroyIfEmpty(r)
    BY DEF Sjoin
  <1>7. d = r
    <2>1. NoChannel.members = {}
      BY DEF NoChannel
    <2>. HIDE DEF r, d
    <2>. QED
      BY <1>4, <1>6, <2>1 DEF DestroyIfEmpty, Exists
  <1>8. (m.ops \cap m.members) \ c.members = m.ops
    BY <1>1
  <1>. HIDE DEF d
  <1>9. CASE ~Exists(c)
    <2>1. /\ o = [ts |-> m.ts, members |-> {}, ops |-> {}, modes |-> {}, lim |-> 0, bans |-> {}]
          /\ TheirsCount(c, m.ts)
      BY <1>9 DEF Ours, NoChannel, TheirsCount
    <2>2. d.ts = m.ts /\ d.members = m.members /\ d.ops = m.ops /\ d.bans = m.bans
      BY <1>7, <1>8, <2>1
    <2>3. d.modes = m.modes /\ d.lim = m.lim
      <3>1. MergeFlags({}, m.modes) = m.modes /\ MergeLimit(0, m.lim) = m.lim
        BY <1>1 DEF MergeFlags, MergeLimit
      <3>. QED
        BY <1>7, <2>1, <3>1
    <2>4. Same({d}, {m})
      BY <1>1, <2>2, <2>3, ItemsEqual, TwinSame
    <2>5. Existing(c) \cup {m} = {m} /\ Existing(d) = {d}
      BY <1>4, <1>9 DEF Existing
    <2>. QED
      BY <1>3, <1>4, <2>4, <2>5 DEF d
  <1>10. CASE Exists(c)
    <2>1. ASSUME m.ts < c.ts PROVE d.ts = m.ts /\ Items(d) = Items(m)
      <3>1. o = [ts |-> m.ts, members |-> c.members, ops |-> {}, modes |-> {}, lim |-> 0, bans |-> {}]
        BY <1>10, <2>1 DEF Ours, NoChannel
      <3>2. TheirsCount(c, m.ts)
        BY <1>1, <1>2, <2>1 DEF TheirsCount
      <3>3. d.ts = m.ts /\ d.ops = m.ops /\ d.bans = m.bans
        BY <1>7, <1>8, <3>1, <3>2
      <3>4. d.modes = m.modes /\ d.lim = m.lim
        <4>1. MergeFlags({}, m.modes) = m.modes /\ MergeLimit(0, m.lim) = m.lim
          BY <1>1 DEF MergeFlags, MergeLimit
        <4>. QED
          BY <1>7, <3>1, <3>2, <4>1
      <3>. QED
        BY <3>3, <3>4, ItemsEqual
    <2>2. ASSUME c.ts < m.ts PROVE d.ts = c.ts /\ Items(d) = Items(c)
      <3>1. o = c /\ ~TheirsCount(c, m.ts)
        BY <1>1, <1>2, <1>10, <2>2 DEF Ours, TheirsCount
      <3>2. d = [c EXCEPT !.members = @ \cup m.members]
        BY <1>7, <3>1
      <3>3. /\ d.ts = c.ts /\ d.ops = c.ops /\ d.bans = c.bans /\ d.modes = c.modes /\ d.lim = c.lim
        BY <1>2, <3>2 DEF Channel
      <3>. QED
        BY <3>3, ItemsEqual
    <2>3. ASSUME c.ts = m.ts PROVE d.ts = c.ts /\ Items(d) = Items(c) \cup Items(m)
      <3>1. o = c /\ TheirsCount(c, m.ts)
        BY <1>1, <1>2, <1>10, <2>3 DEF Ours, TheirsCount
      <3>2. /\ d.ts = c.ts /\ d.ops = c.ops \cup m.ops /\ d.bans = c.bans \cup m.bans
            /\ d.modes = MergeFlags(c.modes, m.modes) /\ d.lim = MergeLimit(c.lim, m.lim)
        BY <1>7, <1>8, <3>1
      <3>. QED
        BY <1>1, <1>2, <3>2, ItemsUnion
    <2>4. Same({d}, {c, m})
      BY <1>1, <1>2, <1>3, <1>5, <2>1, <2>2, <2>3, SumSame
    <2>5. Existing(c) \cup {m} = {c, m} /\ Existing(d) = {d}
      BY <1>4, <1>10 DEF Existing
    <2>. QED
      BY <1>3, <1>4, <2>4, <2>5 DEF d
  <1>. QED
    BY <1>9, <1>10

\* The line as it is sent on counts for as much, next to our channel.
LEMMA SjoinOnSame ==
    ASSUME NEW c, WellFormed(c), NEW m, Proper(m)
    PROVE  /\ Proper(SjoinOn(c, m, m.members))
           /\ SjoinOn(c, m, m.members).members = m.members
           /\ Same(Existing(c) \cup {SjoinOn(c, m, m.members)}, Existing(c) \cup {m})
  <1>. DEFINE n == SjoinOn(c, m, m.members)
  <1>1. /\ m.ts \in TS /\ m.ts \in Int /\ m.lim \in Nat /\ m.lim \in Limit \cup {0}
        /\ m.members \in SUBSET User /\ m.ops \in SUBSET User
        /\ m.modes \in SUBSET Flag /\ m.bans \in SUBSET User
        /\ m.ops \subseteq m.members /\ ~({"s", "p"} \subseteq m.modes)
    BY ProperFields DEF Proper
  <1>2. m \in [type : {"SJOIN"}, ts : TS, members : SUBSET User, ops : SUBSET User,
               modes : SUBSET Flag, lim : Limit \cup {0}, bans : SUBSET User]
    BY DEF Proper, Msg
  <1>3. n = [m EXCEPT !.members = m.members, !.ops = m.ops \cap m.members,
                      !.bans = IF TheirsCount(c, m.ts) THEN m.bans ELSE {}]
    BY DEF SjoinOn
  <1>. HIDE DEF n
  <1>4. /\ n.type = "SJOIN" /\ n.ts = m.ts /\ n.members = m.members /\ n.ops = m.ops
        /\ n.modes = m.modes /\ n.lim = m.lim
        /\ n.bans = IF TheirsCount(c, m.ts) THEN m.bans ELSE {}
    <2>1. m.ops \cap m.members = m.ops
      BY <1>1
    <2>. QED
      BY <1>2, <1>3, <2>1
  <1>5. n \in Msg
    <2>1. m.ops \cap m.members \in SUBSET User
      BY <1>1
    <2>2. (IF TheirsCount(c, m.ts) THEN m.bans ELSE {}) \in SUBSET User
      BY <1>1
    <2>3. n \in [type : {"SJOIN"}, ts : TS, members : SUBSET User, ops : SUBSET User,
                 modes : SUBSET Flag, lim : Limit \cup {0}, bans : SUBSET User]
      BY <1>1, <1>2, <1>3, <2>1, <2>2
    <2>. QED
      BY <2>3 DEF Msg
  <1>6. Proper(n)
    BY <1>1, <1>4, <1>5 DEF Proper
  <1>7. c.ts \in Int
    BY ChannelFields DEF WellFormed
  <1>8. CASE TheirsCount(c, m.ts)
    <2>1. Items(n) = Items(m)
      BY <1>4, <1>8, ItemsEqual
    <2>2. Same({n}, {m})
      BY <1>1, <1>4, <2>1, TwinSame
    <2>3. Dated(Existing(c)) /\ Dated({n}) /\ Dated({m})
      BY <1>1, <1>4, <1>7 DEF Existing, Dated
    <2>. QED
      BY <1>4, <1>6, <2>2, <2>3, SameAdd DEF n
  <1>9. CASE ~TheirsCount(c, m.ts)
    <2>1. c.ts < m.ts /\ Existing(c) = {c}
      BY <1>1, <1>7, <1>9 DEF TheirsCount, Existing
    <2>2. Oldest(c, {c, n}) /\ Oldest(c, {c, m}) /\ ~Oldest(n, {c, n}) /\ ~Oldest(m, {c, m})
      BY <1>1, <1>4, <1>7, <2>1 DEF Oldest
    <2>3. c.ts <= c.ts /\ m.ts <= m.ts
      BY <1>1, <1>7
    <2>4. Covers({c, n}, {c, m})
      <3>1. ASSUME NEW p \in {c, m}
            PROVE  /\ \E q \in {c, n} : q.ts <= p.ts
                   /\ \A u \in p.members : \E q \in {c, n} : u \in q.members
                   /\ Oldest(p, {c, m}) => \A k \in Items(p) :
                         \E q \in {c, n} : Oldest(q, {c, n}) /\ k \in Items(q)
        BY <1>4, <2>2, <2>3
      <3>. QED
        BY <3>1, Zenon DEF Covers
    <2>5. Covers({c, m}, {c, n})
      <3>1. ASSUME NEW p \in {c, n}
            PROVE  /\ \E q \in {c, m} : q.ts <= p.ts
                   /\ \A u \in p.members : \E q \in {c, m} : u \in q.members
                   /\ Oldest(p, {c, n}) => \A k \in Items(p) :
                         \E q \in {c, m} : Oldest(q, {c, m}) /\ k \in Items(q)
        BY <1>4, <2>2, <2>3
      <3>. QED
        BY <3>1, Zenon DEF Covers
    <2>6. {c} \cup {n} = {c, n} /\ {c} \cup {m} = {c, m}
      OBVIOUS
    <2>. QED
      BY <1>4, <1>6, <2>1, <2>4, <2>5, <2>6 DEF Same, n
  <1>. QED
    BY <1>8, <1>9

-----------------------------------------------------------------------------
(* Streams of lines *)

\* The rest of a stream, and a stream with one message more, by index.
LEMMA StreamIndex ==
    ASSUME NEW q \in Seq(Msg)
    PROVE  /\ q # <<>> => /\ Len(Tail(q)) = Len(q) - 1 /\ Len(q) \in Nat \ {0} /\ q[1] = Head(q)
                          /\ \A i \in 1..Len(q) - 1 : Tail(q)[i] = q[i + 1]
                          /\ Tail(q) \in Seq(Msg) /\ Head(q) \in Msg
           /\ \A m \in Msg : /\ Len(q \o <<m>>) = Len(q) + 1 /\ (q \o <<m>>)[Len(q) + 1] = m
                             /\ \A i \in 1..Len(q) : (q \o <<m>>)[i] = q[i]
                             /\ q \o <<m>> \in Seq(Msg)
           /\ Len(q) \in Nat /\ \A i \in 1..Len(q) : q[i] \in Msg
  <1>1. Len(q) \in Nat /\ \A i \in 1..Len(q) : q[i] \in Msg
    OBVIOUS
  <1>2. ASSUME q # <<>>
        PROVE  /\ Len(Tail(q)) = Len(q) - 1 /\ Len(q) \in Nat \ {0} /\ q[1] = Head(q)
               /\ \A i \in 1..Len(q) - 1 : Tail(q)[i] = q[i + 1]
               /\ Tail(q) \in Seq(Msg) /\ Head(q) \in Msg
    BY <1>2, HeadTailProperties
  <1>3. ASSUME NEW m \in Msg
        PROVE  /\ Len(q \o <<m>>) = Len(q) + 1 /\ (q \o <<m>>)[Len(q) + 1] = m
               /\ \A i \in 1..Len(q) : (q \o <<m>>)[i] = q[i]
               /\ q \o <<m>> \in Seq(Msg)
    <2>1. <<m>> \in Seq(Msg) /\ Len(<<m>>) = 1 /\ <<m>>[1] = m
      OBVIOUS
    <2>2. q \o <<m>> \in Seq(Msg)
      BY <2>1, OutTypes
    <2>. QED
      BY <1>1, <2>1, <2>2
  <1>. QED
    BY <1>1, <1>2, <1>3

\* The lines and the servers in what remains of a stream
LEMMA LinesTail ==
    ASSUME NEW q \in Seq(Msg), q # <<>>
    PROVE  /\ Lines(q) = (IF Head(q).type = "SJOIN" THEN {Head(q)} ELSE {}) \cup Lines(Tail(q))
           /\ Ids(q) = (IF Head(q).type \in {"SERVER", "SID"} THEN Head(q).ids ELSE {}) \cup Ids(Tail(q))
  <1>1. /\ Len(Tail(q)) = Len(q) - 1 /\ Len(q) \in Nat \ {0} /\ q[1] = Head(q)
        /\ \A i \in 1..Len(q) - 1 : Tail(q)[i] = q[i + 1]
    BY StreamIndex
  <1>2. /\ \A i \in 1..Len(q) : i = 1 \/ (i - 1 \in 1..Len(q) - 1 /\ Tail(q)[i - 1] = q[i])
        /\ \A i \in 1..Len(q) - 1 : i + 1 \in 1..Len(q)
        /\ 1 \in 1..Len(q)
    BY <1>1
  <1>3. Lines(q) = (IF Head(q).type = "SJOIN" THEN {Head(q)} ELSE {}) \cup Lines(Tail(q))
    <2>1. ASSUME NEW m \in Lines(q)
          PROVE  (m = Head(q) /\ m.type = "SJOIN") \/ m \in Lines(Tail(q))
      <3>1. PICK i \in 1..Len(q) : q[i] = m /\ m.type = "SJOIN"
        BY DEF Lines
      <3>. QED
        BY <1>1, <1>2, <3>1 DEF Lines
    <2>2. ASSUME NEW m \in Lines(Tail(q)) PROVE m \in Lines(q)
      <3>1. PICK i \in 1..Len(Tail(q)) : Tail(q)[i] = m /\ m.type = "SJOIN"
        BY DEF Lines
      <3>. QED
        BY <1>1, <1>2, <3>1 DEF Lines
    <2>3. Head(q).type = "SJOIN" => Head(q) \in Lines(q)
      BY <1>1, <1>2 DEF Lines
    <2>. QED
      BY <2>1, <2>2, <2>3
  <1>4. Ids(q) = (IF Head(q).type \in {"SERVER", "SID"} THEN Head(q).ids ELSE {}) \cup Ids(Tail(q))
    <2>1. ASSUME NEW x \in Ids(q)
          PROVE  (x \in Head(q).ids /\ Head(q).type \in {"SERVER", "SID"}) \/ x \in Ids(Tail(q))
      <3>1. PICK i \in 1..Len(q) : x \in q[i].ids /\ q[i].type \in {"SERVER", "SID"}
        BY DEF Ids
      <3>. QED
        BY <1>1, <1>2, <3>1, ZenonT(40) DEF Ids
    <2>2. ASSUME NEW x \in Ids(Tail(q)) PROVE x \in Ids(q)
      <3>1. PICK i \in 1..Len(Tail(q)) : x \in Tail(q)[i].ids /\ Tail(q)[i].type \in {"SERVER", "SID"}
        BY DEF Ids
      <3>. QED
        BY <1>1, <1>2, <3>1 DEF Ids
    <2>3. Head(q).type \in {"SERVER", "SID"} => \A x \in Head(q).ids : x \in Ids(q)
      BY <1>1, <1>2 DEF Ids
    <2>. QED
      BY <2>1, <2>2, <2>3
  <1>. QED
    BY <1>3, <1>4

\* The lines and the servers in a stream with one message more
LEMMA LinesAppend ==
    ASSUME NEW q \in Seq(Msg), NEW m \in Msg
    PROVE  /\ Lines(q \o <<m>>) = Lines(q) \cup (IF m.type = "SJOIN" THEN {m} ELSE {})
           /\ Ids(q \o <<m>>) = Ids(q) \cup (IF m.type \in {"SERVER", "SID"} THEN m.ids ELSE {})
  <1>. DEFINE r == q \o <<m>>
  <1>1. Len(r) = Len(q) + 1 /\ r[Len(q) + 1] = m /\ (\A i \in 1..Len(q) : r[i] = q[i]) /\ Len(q) \in Nat
    BY StreamIndex
  <1>2. (\A i \in 1..Len(r) : i = Len(q) + 1 \/ i \in 1..Len(q)) /\ Len(q) + 1 \in 1..Len(r)
        /\ \A i \in 1..Len(q) : i \in 1..Len(r)
    BY <1>1
  <1>. HIDE DEF r
  <1>3. Lines(r) = Lines(q) \cup (IF m.type = "SJOIN" THEN {m} ELSE {})
    <2>1. ASSUME NEW l \in Lines(r)
          PROVE  (l = m /\ m.type = "SJOIN") \/ l \in Lines(q)
      <3>1. PICK i \in 1..Len(r) : r[i] = l /\ l.type = "SJOIN"
        BY DEF Lines
      <3>. QED
        BY <1>1, <1>2, <3>1 DEF Lines
    <2>2. ASSUME NEW l \in Lines(q) PROVE l \in Lines(r)
      <3>1. PICK i \in 1..Len(q) : q[i] = l /\ l.type = "SJOIN"
        BY DEF Lines
      <3>. QED
        BY <1>1, <1>2, <3>1 DEF Lines
    <2>3. m.type = "SJOIN" => m \in Lines(r)
      BY <1>1, <1>2 DEF Lines
    <2>. QED
      BY <2>1, <2>2, <2>3
  <1>4. Ids(r) = Ids(q) \cup (IF m.type \in {"SERVER", "SID"} THEN m.ids ELSE {})
    <2>1. ASSUME NEW x \in Ids(r)
          PROVE  (x \in m.ids /\ m.type \in {"SERVER", "SID"}) \/ x \in Ids(q)
      <3>1. PICK i \in 1..Len(r) : x \in r[i].ids /\ r[i].type \in {"SERVER", "SID"}
        BY DEF Ids
      <3>. QED
        BY <1>1, <1>2, <3>1 DEF Ids
    <2>2. ASSUME NEW x \in Ids(q) PROVE x \in Ids(r)
      <3>1. PICK i \in 1..Len(q) : x \in q[i].ids /\ q[i].type \in {"SERVER", "SID"}
        BY DEF Ids
      <3>. QED
        BY <1>1, <1>2, <3>1 DEF Ids
    <2>3. m.type \in {"SERVER", "SID"} => \A x \in m.ids : x \in Ids(r)
      BY <1>1, <1>2 DEF Ids
    <2>. QED
      BY <2>1, <2>2, <2>3
  <1>. QED
    BY <1>3, <1>4 DEF r

\* Nothing in flight, and one message
LEMMA LinesShort ==
    ASSUME NEW m
    PROVE  /\ Lines(<<>>) = {} /\ Ids(<<>>) = {}
           /\ Lines(<<m>>) = IF m.type = "SJOIN" THEN {m} ELSE {}
           /\ Ids(<<m>>) = IF m.type \in {"SERVER", "SID"} THEN m.ids ELSE {}
  <1>1. Len(<<>>) = 0 /\ 1..0 = {}
    OBVIOUS
  <1>2. Len(<<m>>) = 1 /\ <<m>>[1] = m /\ 1..1 = {1}
    OBVIOUS
  <1>3. Lines(<<>>) = {} /\ Ids(<<>>) = {}
    BY <1>1 DEF Lines, Ids
  <1>4. Lines(<<m>>) = IF m.type = "SJOIN" THEN {m} ELSE {}
    BY <1>2 DEF Lines
  <1>5. Ids(<<m>>) = IF m.type \in {"SERVER", "SID"} THEN m.ids ELSE {}
    BY <1>2 DEF Ids
  <1>. QED
    BY <1>3, <1>4, <1>5

\* Reading a line leaves a proper stream for the reader with the new members.
LEMMA StreamReadLine ==
    ASSUME NEW q \in Seq(Msg), q # <<>>, NEW c, NEW k, NEW M, StreamOK(q, c, k, M),
           Head(q).type = "SJOIN", NEW d, d.members = c.members \cup Head(q).members
    PROVE  /\ Proper(Head(q)) /\ Head(q).members \cap c.members = {}
           /\ \A u \in Head(q).members : Home[u] \in k
           /\ Head(q).members # {} \/ Exists(c)
           /\ Head(q).members \subseteq M
           /\ StreamOK(Tail(q), d, k, M)
  <1>1. /\ Len(Tail(q)) = Len(q) - 1 /\ Len(q) \in Nat \ {0} /\ q[1] = Head(q)
        /\ \A i \in 1..Len(q) - 1 : Tail(q)[i] = q[i + 1]
        /\ Head(q) \in Msg
    BY StreamIndex
  <1>2. LineOK(q, 1, c, k) /\ q[1].members \subseteq M
    BY <1>1 DEF StreamOK
  <1>3. 1..1 - 1 = {}
    OBVIOUS
  <1>4. /\ Proper(Head(q)) /\ Head(q).members \cap c.members = {}
        /\ \A u \in Head(q).members : Home[u] \in k
        /\ Head(q).members # {} \/ Exists(c)
        /\ Head(q).members \subseteq M
    BY <1>1, <1>2, <1>3 DEF LineOK, Proper
  <1>5. ASSUME NEW i \in 1..Len(Tail(q)), Tail(q)[i].type = "SJOIN"
        PROVE  /\ LineOK(Tail(q), i, d, k) /\ Tail(q)[i].members \subseteq M
               /\ \A j \in 1..Len(Tail(q)) : j # i /\ Tail(q)[j].type = "SJOIN" =>
                     Tail(q)[i].members \cap Tail(q)[j].members = {}
    <2>1. /\ i \in 1..Len(q) - 1 /\ i + 1 \in 1..Len(q) /\ i + 1 # 1 /\ Tail(q)[i] = q[i + 1]
      BY <1>1
    <2>2. /\ LineOK(q, i + 1, c, k) /\ q[i + 1].members \subseteq M
          /\ \A j \in 1..Len(q) : j # i + 1 /\ q[j].type = "SJOIN" =>
                q[i + 1].members \cap q[j].members = {}
      BY <1>5, <2>1 DEF StreamOK
    <2>3. q[i + 1].members \cap Head(q).members = {}
      BY <1>1, <2>1, <2>2
    <2>4. \A j \in 1..i : j = 1 \/ (j - 1 \in 1..i - 1 /\ j - 1 \in 1..Len(q) - 1 /\ Tail(q)[j - 1] = q[j])
      BY <1>1, <2>1
    <2>5. LineOK(Tail(q), i, d, k)
      <3>1. /\ q[i + 1].ops \subseteq q[i + 1].members /\ ~({"s", "p"} \subseteq q[i + 1].modes)
            /\ q[i + 1].members \cap c.members = {}
        BY <2>2 DEF LineOK
      <3>2. ASSUME NEW u \in q[i + 1].members
            PROVE  Home[u] \in k \/ \E j \in 1..i - 1 : /\ Tail(q)[j].type \in {"SERVER", "SID"}
                                                        /\ Home[u] \in Tail(q)[j].ids
        <4>1. CASE Home[u] \in k
          BY <4>1
        <4>2. CASE Home[u] \notin k
          <5>1. PICK j \in 1..i + 1 - 1 : q[j].type \in {"SERVER", "SID"} /\ Home[u] \in q[j].ids
            BY <2>2, <4>2 DEF LineOK
          <5>2. j \in 1..i /\ j # 1
            BY <1>1, <5>1, <2>1
          <5>. QED
            BY <2>4, <5>1, <5>2
        <4>. QED
          BY <4>1, <4>2
      <3>3. \/ q[i + 1].members # {} \/ Exists(d)
            \/ \E j \in 1..i - 1 : Tail(q)[j].type = "SJOIN" /\ Tail(q)[j].members # {}
        <4>1. CASE q[i + 1].members = {} /\ ~Exists(c)
          <5>1. PICK j \in 1..i + 1 - 1 : q[j].type = "SJOIN" /\ q[j].members # {}
            BY <2>2, <4>1 DEF LineOK
          <5>2. j \in 1..i
            BY <5>1, <2>1
          <5>3. CASE j = 1
            BY <1>1, <5>1, <5>3 DEF Exists
          <5>4. CASE j # 1
            BY <2>4, <5>1, <5>2, <5>4
          <5>. QED
            BY <5>3, <5>4
        <4>2. CASE Exists(c)
          BY <4>2 DEF Exists
        <4>. QED
          BY <4>1, <4>2
      <3>. QED
        BY <2>1, <2>3, <3>1, <3>2, <3>3 DEF LineOK
    <2>6. \A j \in 1..Len(Tail(q)) : j # i /\ Tail(q)[j].type = "SJOIN" =>
             Tail(q)[i].members \cap Tail(q)[j].members = {}
      <3>1. \A j \in 1..Len(Tail(q)) : j # i => j + 1 \in 1..Len(q) /\ j + 1 # i + 1 /\ Tail(q)[j] = q[j + 1]
        BY <1>1, <2>1
      <3>. QED
        BY <2>1, <2>2, <3>1
    <2>. QED
      BY <2>1, <2>2, <2>5, <2>6
  <1>. QED
    BY <1>4, <1>5 DEF StreamOK

\* Reading SERVER or SID leaves a proper stream for the reader with more servers.
LEMMA StreamReadIds ==
    ASSUME NEW q \in Seq(Msg), q # <<>>, NEW c, NEW k, NEW M, StreamOK(q, c, k, M),
           Head(q).type \in {"SERVER", "SID"}
    PROVE  StreamOK(Tail(q), c, k \cup Head(q).ids, M)
  <1>1. /\ Len(Tail(q)) = Len(q) - 1 /\ Len(q) \in Nat \ {0} /\ q[1] = Head(q)
        /\ \A i \in 1..Len(q) - 1 : Tail(q)[i] = q[i + 1]
    BY StreamIndex
  <1>2. ASSUME NEW i \in 1..Len(Tail(q)), Tail(q)[i].type = "SJOIN"
        PROVE  /\ LineOK(Tail(q), i, c, k \cup Head(q).ids) /\ Tail(q)[i].members \subseteq M
               /\ \A j \in 1..Len(Tail(q)) : j # i /\ Tail(q)[j].type = "SJOIN" =>
                     Tail(q)[i].members \cap Tail(q)[j].members = {}
    <2>1. /\ i \in 1..Len(q) - 1 /\ i + 1 \in 1..Len(q) /\ i + 1 # 1 /\ Tail(q)[i] = q[i + 1]
      BY <1>1
    <2>2. /\ LineOK(q, i + 1, c, k) /\ q[i + 1].members \subseteq M
          /\ \A j \in 1..Len(q) : j # i + 1 /\ q[j].type = "SJOIN" =>
                q[i + 1].members \cap q[j].members = {}
      BY <1>2, <2>1 DEF StreamOK
    <2>4. \A j \in 1..i : j = 1 \/ (j - 1 \in 1..i - 1 /\ j - 1 \in 1..Len(q) - 1 /\ Tail(q)[j - 1] = q[j])
      BY <1>1, <2>1
    <2>5. LineOK(Tail(q), i, c, k \cup Head(q).ids)
      <3>1. /\ q[i + 1].ops \subseteq q[i + 1].members /\ ~({"s", "p"} \subseteq q[i + 1].modes)
            /\ q[i + 1].members \cap c.members = {}
        BY <2>2 DEF LineOK
      <3>2. ASSUME NEW u \in q[i + 1].members
            PROVE  \/ Home[u] \in k \cup Head(q).ids
                   \/ \E j \in 1..i - 1 : /\ Tail(q)[j].type \in {"SERVER", "SID"}
                                          /\ Home[u] \in Tail(q)[j].ids
        <4>1. CASE Home[u] \in k
          BY <4>1
        <4>2. CASE Home[u] \notin k
          <5>1. PICK j \in 1..i + 1 - 1 : q[j].type \in {"SERVER", "SID"} /\ Home[u] \in q[j].ids
            BY <2>2, <4>2 DEF LineOK
          <5>2. j \in 1..i
            BY <5>1, <2>1
          <5>3. CASE j = 1
            BY <1>1, <5>1, <5>3
          <5>4. CASE j # 1
            BY <2>4, <5>1, <5>2, <5>4
          <5>. QED
            BY <5>3, <5>4
        <4>. QED
          BY <4>1, <4>2
      <3>3. \/ q[i + 1].members # {} \/ Exists(c)
            \/ \E j \in 1..i - 1 : Tail(q)[j].type = "SJOIN" /\ Tail(q)[j].members # {}
        <4>1. CASE q[i + 1].members = {} /\ ~Exists(c)
          <5>1. PICK j \in 1..i + 1 - 1 : q[j].type = "SJOIN" /\ q[j].members # {}
            BY <2>2, <4>1 DEF LineOK
          <5>2. j \in 1..i /\ j # 1
            BY <1>1, <5>1, <2>1
          <5>. QED
            BY <2>4, <5>1, <5>2
        <4>. QED
          BY <4>1
      <3>. QED
        BY <2>1, <3>1, <3>2, <3>3 DEF LineOK
    <2>6. \A j \in 1..Len(Tail(q)) : j # i /\ Tail(q)[j].type = "SJOIN" =>
             Tail(q)[i].members \cap Tail(q)[j].members = {}
      <3>1. \A j \in 1..Len(Tail(q)) : j # i => j + 1 \in 1..Len(q) /\ j + 1 # i + 1 /\ Tail(q)[j] = q[j + 1]
        BY <1>1, <2>1
      <3>. QED
        BY <2>1, <2>2, <3>1
    <2>. QED
      BY <2>1, <2>2, <2>5, <2>6
  <1>. QED
    BY <1>2 DEF StreamOK

\* A line may be sent about users that are new to the sender.
LEMMA StreamAppend ==
    ASSUME NEW q \in Seq(Msg), NEW c, NEW k, NEW M, StreamOK(q, c, k, M), NEW m \in Msg,
           m.type = "SJOIN" =>
              /\ Proper(m) /\ m.members \cap c.members = {} /\ m.members \cap M = {}
              /\ \A u \in m.members : Home[u] \in k \cup Ids(q)
              /\ m.members # {} \/ Exists(c) \/ \E l \in Lines(q) : l.members # {}
    PROVE  StreamOK(q \o <<m>>, c, k, IF m.type = "SJOIN" THEN M \cup m.members ELSE M)
  <1>. DEFINE r == q \o <<m>>
              n == Len(q) + 1
              N == IF m.type = "SJOIN" THEN M \cup m.members ELSE M
  <1>1. Len(r) = n /\ r[n] = m /\ (\A i \in 1..Len(q) : r[i] = q[i]) /\ Len(q) \in Nat
    BY StreamIndex
  <1>2. (\A i \in 1..Len(r) : i = n \/ i \in 1..Len(q)) /\ \A i \in 1..Len(q) : i # n
    BY <1>1
  <1>3. ASSUME m.type = "SJOIN", NEW i \in 1..Len(q), q[i].type = "SJOIN"
        PROVE  q[i].members \cap m.members = {}
    BY <1>3 DEF StreamOK
  <1>. HIDE DEF r
  <1>4. ASSUME NEW i \in 1..Len(q), q[i].type = "SJOIN"
        PROVE  /\ LineOK(r, i, c, k) /\ r[i].members \subseteq N
               /\ \A j \in 1..Len(r) : j # i /\ r[j].type = "SJOIN" => r[i].members \cap r[j].members = {}
    <2>1. /\ LineOK(q, i, c, k) /\ q[i].members \subseteq M /\ r[i] = q[i]
          /\ \A j \in 1..Len(q) : j # i /\ q[j].type = "SJOIN" => q[i].members \cap q[j].members = {}
      BY <1>1, <1>4 DEF StreamOK
    <2>2. \A j \in 1..i - 1 : r[j] = q[j]
      BY <1>1
    <2>3. LineOK(r, i, c, k)
      BY <2>1, <2>2 DEF LineOK
    <2>4. \A j \in 1..Len(r) : j # i /\ r[j].type = "SJOIN" => r[i].members \cap r[j].members = {}
      BY <1>1, <1>2, <1>3, <1>4, <2>1
    <2>. QED
      BY <2>1, <2>3, <2>4
  <1>5. ASSUME m.type = "SJOIN"
        PROVE  /\ LineOK(r, n, c, k) /\ r[n].members \subseteq N
               /\ \A j \in 1..Len(r) : j # n /\ r[j].type = "SJOIN" => r[n].members \cap r[j].members = {}
    <2>1. n - 1 = Len(q) /\ \A j \in 1..n - 1 : r[j] = q[j]
      BY <1>1
    <2>2. ASSUME NEW u \in m.members
          PROVE  Home[u] \in k \/ \E j \in 1..n - 1 : r[j].type \in {"SERVER", "SID"} /\ Home[u] \in r[j].ids
      BY <1>5, <2>1 DEF Ids
    <2>3. m.members # {} \/ Exists(c) \/ \E j \in 1..n - 1 : r[j].type = "SJOIN" /\ r[j].members # {}
      BY <1>5, <2>1 DEF Lines
    <2>4. LineOK(r, n, c, k)
      <3>1. m.ops \subseteq m.members /\ ~({"s", "p"} \subseteq m.modes) /\ m.members \cap c.members = {}
        BY <1>5 DEF Proper
      <3>. QED
        BY <1>1, <2>2, <2>3, <3>1 DEF LineOK
    <2>5. \A j \in 1..Len(r) : j # n /\ r[j].type = "SJOIN" => r[n].members \cap r[j].members = {}
      BY <1>1, <1>2, <1>3, <1>5
    <2>. QED
      BY <1>1, <1>5, <2>4, <2>5
  <1>6. ASSUME NEW i \in 1..Len(r), r[i].type = "SJOIN"
        PROVE  /\ LineOK(r, i, c, k) /\ r[i].members \subseteq N
               /\ \A j \in 1..Len(r) : j # i /\ r[j].type = "SJOIN" => r[i].members \cap r[j].members = {}
    <2>1. CASE i = n
      BY <1>1, <1>5, <1>6, <2>1
    <2>2. CASE i \in 1..Len(q)
      BY <1>1, <1>4, <1>6, <2>2
    <2>. QED
      BY <1>2, <2>1, <2>2
  <1>. QED
    BY <1>6 DEF StreamOK, r

\* A stream suits a reader that knows more, with members of other servers.
LEMMA StreamMore ==
    ASSUME NEW q, NEW c, NEW d, NEW k, NEW K, NEW M, NEW N, StreamOK(q, c, k, M),
           k \subseteq K, M \subseteq N, c.members \subseteq d.members,
           \A l \in Lines(q) : l.members \cap d.members = {}
    PROVE  StreamOK(q, d, K, N)
  <1>1. ASSUME NEW i \in 1..Len(q), q[i].type = "SJOIN"
        PROVE  LineOK(q, i, d, K) /\ q[i].members \subseteq N
    <2>1. LineOK(q, i, c, k) /\ q[i].members \subseteq M /\ q[i] \in Lines(q)
      BY <1>1 DEF StreamOK, Lines
    <2>2. Exists(c) => Exists(d)
      BY DEF Exists
    <2>. QED
      BY <2>1, <2>2 DEF LineOK
  <1>. QED
    BY <1>1 DEF StreamOK

\* A short stream is proper.
LEMMA StreamShort ==
    ASSUME NEW c, NEW k, NEW M, NEW m, m.type # "SJOIN"
    PROVE  StreamOK(<<>>, c, k, M) /\ StreamOK(<<m>>, c, k, M)
  <1>1. Len(<<>>) = 0 /\ 1..0 = {} /\ Len(<<m>>) = 1 /\ 1..1 = {1} /\ <<m>>[1] = m
    OBVIOUS
  <1>. QED
    BY <1>1 DEF StreamOK

\* Three messages in a row.
LEMMA ThreeInARow ==
    ASSUME NEW a \in Msg, NEW b \in Msg, NEW c \in Msg
    PROVE  <<a>> \o <<b, c>> = (<<a>> \o <<b>>) \o <<c>>
  <1>1. <<a>> \in Seq(Msg) /\ <<b>> \in Seq(Msg) /\ <<c>> \in Seq(Msg) /\ <<b, c>> \in Seq(Msg)
    BY OutTypes
  <1>2. <<b, c>> = <<b>> \o <<c>>
    <2>. DEFINE r == <<b>> \o <<c>>
                p == <<b, c>>
    <2>1. /\ r \in Seq(Msg) /\ Len(r) = 2
          /\ \A i \in 1..2 : r[i] = IF i <= 1 THEN <<b>>[i] ELSE <<c>>[i - 1]
      BY <1>1, ConcatProperties
    <2>2. p \in Seq(Msg) /\ Len(p) = 2 /\ p[1] = b /\ p[2] = c
      OBVIOUS
    <2>3. \A i \in 1..2 : r[i] = p[i]
      BY <2>1, <2>2
    <2>. HIDE DEF r, p
    <2>4. r = p
      BY <2>1, <2>2, <2>3, SeqEqual
    <2>. QED
      BY <2>4 DEF r, p
  <1>3. <<a>> \o (<<b>> \o <<c>>) = (<<a>> \o <<b>>) \o <<c>>
    BY <1>1, ConcatAssociative
  <1>. QED
    BY <1>2, <1>3

\* The stream q opens with S and goes on with what channel e comes to, for a
\* reader with channel c that knows the servers k
BurstsTo(q, S, e, c, k) ==
    /\ q \in Seq(Msg)
    /\ Same(Lines(q), Existing(e)) /\ Dated(Lines(q)) /\ Ids(q) = S.ids
    /\ StreamOK(q, c, k, e.members)
    /\ Len(q) > 0 /\ q[1] = S
    /\ \A i \in 2..Len(q) : q[i].type = "SJOIN"

\* A burst is what the channel comes to, and a proper end of a stream.
LEMMA BurstStream ==
    ASSUME NEW e, WellFormed(e), NEW burst \in Bursts(e),
           NEW S \in Msg, S.type \in {"SERVER", "SID"}, NEW c, NEW k,
           e.members \cap c.members = {}, \A u \in e.members : Home[u] \in S.ids
    PROVE  BurstsTo(<<S>> \o burst, S, e, c, k)
  <1>1. /\ e \in Channel /\ (Exists(e) => e.ts \in TS) /\ e.ops \subseteq e.members
        /\ ~({"s", "p"} \subseteq e.modes) /\ e.ts \in Int /\ e.lim \in Nat
        /\ e.members \in SUBSET User /\ e.ops \in SUBSET User /\ e.modes \in SUBSET Flag
        /\ e.lim \in Limit \cup {0} /\ e.bans \in SUBSET User
    BY ChannelFields DEF WellFormed, Channel
  <1>2. /\ <<S>> \in Seq(Msg) /\ Lines(<<S>>) = {} /\ Ids(<<S>>) = S.ids
        /\ Len(<<S>>) = 1 /\ <<S>>[1] = S /\ \A M : StreamOK(<<S>>, c, k, M)
    <2>1. S.type # "SJOIN"
      OBVIOUS
    <2>2. <<S>> \in Seq(Msg)
      BY OutTypes
    <2>3. Lines(<<S>>) = {} /\ Ids(<<S>>) = S.ids
      BY <2>1, LinesShort
    <2>4. Len(<<S>>) = 1 /\ <<S>>[1] = S
      OBVIOUS
    <2>5. \A M : StreamOK(<<S>>, c, k, M)
      BY <2>1, StreamShort
    <2>. QED
      BY <2>2, <2>3, <2>4, <2>5
  <1>3. CASE ~Exists(e)
    <2>1. burst = <<>> /\ Existing(e) = {}
      BY <1>3 DEF Bursts, Existing
    <2>2. <<S>> \o <<>> = <<S>>
      BY <1>2, ConcatEmptySeq
    <2>3. Same({}, {}) /\ Dated({}) /\ 2..1 = {} /\ 1 > 0
      BY DEF Same, Covers, Dated
    <2>4. <<S>> \o burst = <<S>>
      BY <2>1, <2>2
    <2>. QED
      BY <1>2, <2>1, <2>3, <2>4 DEF BurstsTo
  <1>4. CASE Exists(e) /\ burst = <<SJOIN(e.ts, e.members, e.ops, e.modes, e.lim, e.bans)>>
    <2>. DEFINE m == SJOIN(e.ts, e.members, e.ops, e.modes, e.lim, e.bans)
    <2>1. /\ m.type = "SJOIN" /\ m.ts = e.ts /\ m.members = e.members /\ m.ops = e.ops
          /\ m.modes = e.modes /\ m.lim = e.lim /\ m.bans = e.bans
      BY DEF SJOIN
    <2>2. m \in Msg
      BY <1>1, <1>4, MessageTypes
    <2>3. Existing(e) = {e} /\ e.members # {}
      BY <1>4 DEF Existing, Exists
    <2>. HIDE DEF m
    <2>4. Proper(m)
      BY <1>1, <2>1, <2>2 DEF Proper
    <2>5. Same({m}, {e})
      BY <1>1, <2>1, ItemsEqual, TwinSame
    <2>6. StreamOK(<<S>> \o <<m>>, c, k, {} \cup m.members)
      BY <1>2, <2>1, <2>2, <2>3, <2>4, StreamAppend
    <2>7. Lines(<<S>> \o <<m>>) = {m} /\ Ids(<<S>> \o <<m>>) = S.ids
      BY <1>2, <2>1, <2>2, LinesAppend, ZenonT(40)
    <2>8. /\ <<S>> \o <<m>> \in Seq(Msg) /\ Len(<<S>> \o <<m>>) = 2
          /\ (<<S>> \o <<m>>)[2] = m /\ (<<S>> \o <<m>>)[1] = S
      BY <1>2, <2>2, StreamIndex
    <2>9. Dated({m}) /\ {} \cup m.members = e.members /\ 2..2 = {2} /\ 2 > 0
      BY <1>1, <2>1 DEF Dated
    <2>. QED
      BY <1>4, <2>1, <2>3, <2>5, <2>6, <2>7, <2>8, <2>9 DEF m, BurstsTo
  <1>5. ASSUME Exists(e), NEW first \in SUBSET e.members, first # {},
               burst = <<SJOIN(e.ts, first, e.ops \cap first, e.modes, e.lim, {}),
                         SJOIN(e.ts, e.members \ first, e.ops \ first, {}, 0, e.bans)>>
        PROVE  BurstsTo(<<S>> \o burst, S, e, c, k)
    <2>. DEFINE m == SJOIN(e.ts, first, e.ops \cap first, e.modes, e.lim, {})
                n == SJOIN(e.ts, e.members \ first, e.ops \ first, {}, 0, e.bans)
    <2>1. /\ m.type = "SJOIN" /\ m.ts = e.ts /\ m.members = first /\ m.ops = e.ops \cap first
          /\ m.modes = e.modes /\ m.lim = e.lim /\ m.bans = {}
          /\ n.type = "SJOIN" /\ n.ts = e.ts /\ n.members = e.members \ first
          /\ n.ops = e.ops \ first /\ n.modes = {} /\ n.lim = 0 /\ n.bans = e.bans
      BY DEF SJOIN
    <2>2. m \in Msg /\ n \in Msg
      <3>1. first \in SUBSET User /\ e.ops \cap first \in SUBSET User /\ {} \in SUBSET User
        BY <1>1
      <3>2. e.members \ first \in SUBSET User /\ e.ops \ first \in SUBSET User
            /\ {} \in SUBSET Flag /\ 0 \in Limit \cup {0}
        BY <1>1
      <3>. QED
        BY <1>1, <1>5, <3>1, <3>2, MessageTypes
    <2>3. Existing(e) = {e}
      BY <1>5 DEF Existing
    <2>4. <<S>> \o burst = (<<S>> \o <<m>>) \o <<n>>
      <3>1. burst = <<m, n>>
        BY <1>5
      <3>. HIDE DEF m, n
      <3>. QED
        BY <2>2, <3>1, ThreeInARow
    <2>. HIDE DEF m, n
    <2>5. Proper(m) /\ Proper(n)
      BY <1>1, <2>1, <2>2 DEF Proper
    <2>6. Same({m, n}, {e})
      <3>1. MergeFlags(e.modes, {}) = e.modes /\ MergeLimit(e.lim, 0) = e.lim
        BY <1>1, MergeFlagsAlgebra, MergeLimitAlgebra
      <3>2. Items(e) = Items(m) \cup Items(n)
        <4>1. /\ e.ops = m.ops \cup n.ops /\ e.bans = m.bans \cup n.bans
              /\ e.modes = MergeFlags(m.modes, n.modes) /\ e.lim = MergeLimit(m.lim, n.lim)
          BY <1>1, <2>1, <3>1
        <4>2. /\ m.lim \in Nat /\ n.lim \in Nat /\ m.modes \in SUBSET Flag /\ n.modes \in SUBSET Flag
              /\ ~({"s", "p"} \subseteq m.modes) /\ ~({"s", "p"} \subseteq n.modes)
          BY <1>1, <2>1
        <4>. QED
          BY <4>1, <4>2, ItemsUnion
      <3>3. Same({e}, {m, n})
        <4>1. e.members = m.members \cup n.members
          BY <1>5, <2>1
        <4>2. m.ts = n.ts /\ e.ts = m.ts /\ m.ts \in Int
          BY <1>1, <2>1
        <4>. QED
          BY <3>2, <4>1, <4>2, SumSame
      <3>. QED
        BY <3>3 DEF Same
    <2>7. StreamOK(<<S>> \o <<m>>, c, k, {} \cup m.members)
      <3>1. /\ m.members \cap c.members = {} /\ m.members \cap {} = {} /\ m.members # {}
            /\ \A u \in m.members : Home[u] \in k \cup Ids(<<S>>)
        BY <1>2, <1>5, <2>1
      <3>2. StreamOK(<<S>>, c, k, {}) /\ <<S>> \in Seq(Msg) /\ m.type = "SJOIN"
        BY <1>2, <2>1
      <3>. QED
        BY <2>2, <2>5, <3>1, <3>2, StreamAppend
    <2>8. Lines(<<S>> \o <<m>>) = {m} /\ Ids(<<S>> \o <<m>>) = S.ids
      <3>1. /\ Lines(<<S>>) = {} /\ Ids(<<S>>) = S.ids /\ <<S>> \in Seq(Msg) /\ m.type = "SJOIN"
        BY <1>2, <2>1
      <3>2. /\ Lines(<<S>> \o <<m>>) = {} \cup {m} /\ Ids(<<S>> \o <<m>>) = S.ids \cup {}
        BY <2>2, <3>1, LinesAppend
      <3>. QED
        BY <3>2
    <2>9. /\ <<S>> \o <<m>> \in Seq(Msg) /\ Len(<<S>> \o <<m>>) = 2
          /\ (<<S>> \o <<m>>)[2] = m /\ (<<S>> \o <<m>>)[1] = S
      BY <1>2, <2>2, StreamIndex
    <2>. DEFINE r == <<S>> \o <<m>>
    <2>. HIDE DEF r
    <2>10. StreamOK(r \o <<n>>, c, k, ({} \cup m.members) \cup n.members)
      <3>1. /\ n.members \cap c.members = {} /\ n.members \cap ({} \cup m.members) = {}
            /\ \A u \in n.members : Home[u] \in k \cup Ids(r)
        BY <1>5, <2>1, <2>8 DEF r
      <3>2. \E l \in Lines(r) : l.members # {}
        BY <1>5, <2>1, <2>8 DEF r
      <3>3. r \in Seq(Msg) /\ StreamOK(r, c, k, {} \cup m.members)
        BY <2>7, <2>9 DEF r
      <3>. QED
        BY <2>1, <2>2, <2>5, <3>1, <3>2, <3>3, StreamAppend
    <2>11. Lines(r \o <<n>>) = {m, n} /\ Ids(r \o <<n>>) = S.ids
      <3>1. /\ Lines(r) = {m} /\ Ids(r) = S.ids /\ r \in Seq(Msg) /\ n.type = "SJOIN"
        BY <2>1, <2>8, <2>9 DEF r
      <3>2. /\ Lines(r \o <<n>>) = {m} \cup {n} /\ Ids(r \o <<n>>) = S.ids \cup {}
        BY <2>2, <3>1, LinesAppend
      <3>. QED
        BY <3>2
    <2>12. /\ r \o <<n>> \in Seq(Msg) /\ Len(r \o <<n>>) = 3
           /\ (r \o <<n>>)[3] = n /\ (r \o <<n>>)[2] = m /\ (r \o <<n>>)[1] = S
      BY <2>2, <2>9, StreamIndex DEF r
    <2>13. ({} \cup m.members) \cup n.members = e.members /\ Dated({m, n}) /\ 2..3 = {2, 3} /\ 3 > 0
      BY <1>1, <1>5, <2>1 DEF Dated
    <2>14. <<S>> \o burst = r \o <<n>>
      BY <2>4 DEF r
    <2>. QED
      <3>1. \A i \in 2..3 : i = 2 \/ i = 3
        OBVIOUS
      <3>2. \A i \in 2..3 : (r \o <<n>>)[i].type = "SJOIN"
        BY <2>1, <2>12, <3>1
      <3>. DEFINE R == r \o <<n>>
      <3>3. /\ R \in Seq(Msg) /\ Lines(R) = {m, n} /\ Ids(R) = S.ids /\ Len(R) = 3 /\ R[1] = S
            /\ StreamOK(R, c, k, e.members) /\ \A i \in 2..3 : R[i].type = "SJOIN"
        BY <2>10, <2>11, <2>12, <2>13, <3>2
      <3>4. <<S>> \o burst = R
        BY <2>14
      <3>. HIDE DEF R
      <3>. QED
        BY <2>3, <2>6, <2>13, <3>3, <3>4 DEF BurstsTo
  <1>. QED
    BY <1>3, <1>4, <1>5 DEF Bursts

-----------------------------------------------------------------------------
(* Steps while channels are merged *)

\* What the invariant says of two servers after a step.
LEMMA EvenNext ==
    ASSUME NEW s \in Server, NEW t \in Server,
           conn'[s][t] = "none" => conn'[t][s] = "none",
           conn'[s][t] = "up" =>
              /\ known'[s] \cap Beyond(t, s) = (known'[t] \cap Beyond(t, s)) \cup Ids(chan'[s][t])
              /\ \A u \in ch'[t].members : Home[u] \in Beyond(t, s) => u \in ch'[s].members
              /\ StreamOK(chan'[s][t], ch'[t], known'[t], ch'[s].members),
           conn'[s][t] # "none" =>
              Same(Existing(ch'[s]) \cup Lines(chan'[t][s])
                      \cup (IF conn'[t][s] = "out" THEN Existing(ch'[t]) ELSE {}),
                   Existing(ch'[t]) \cup Lines(chan'[s][t])
                      \cup (IF conn'[s][t] = "out" THEN Existing(ch'[s]) ELSE {}))
    PROVE  Even(s, t)'
  <1>1. Tells(s, t)'
    BY DEF Tells, StreamOK, LineOK, Ids, Beyond, Exists
  <1>2. conn'[s][t] # "none" => Same(Incoming(s, t), Incoming(t, s))'
    BY DEF Incoming, Own, Existing, Exists, Lines, Same, Covers, Oldest, Items, Level
  <1>. QED
    BY <1>1, <1>2 DEF Even

\* The same, for a link that is up.
LEMMA EvenUp ==
    ASSUME NEW s \in Server, NEW t \in Server, conn'[s][t] = "up", conn'[t][s] = "up",
           known'[s] \cap Beyond(t, s) = (known'[t] \cap Beyond(t, s)) \cup Ids(chan'[s][t]),
           \A u \in ch'[t].members : Home[u] \in Beyond(t, s) => u \in ch'[s].members,
           StreamOK(chan'[s][t], ch'[t], known'[t], ch'[s].members),
           Same(Existing(ch'[s]) \cup Lines(chan'[t][s]), Existing(ch'[t]) \cup Lines(chan'[s][t]))
    PROVE  Even(s, t)'
  <1>1. /\ Existing(ch'[s]) \cup Lines(chan'[t][s]) \cup {} = Existing(ch'[s]) \cup Lines(chan'[t][s])
        /\ Existing(ch'[t]) \cup Lines(chan'[s][t]) \cup {} = Existing(ch'[t]) \cup Lines(chan'[s][t])
    OBVIOUS
  <1>. QED
    BY <1>1, EvenNext

\* Nothing changes for two servers.
LEMMA IdleEven ==
    ASSUME NEW a \in Server, NEW b \in Server, Even(a, b),
           conn'[a][b] = conn[a][b], conn'[b][a] = conn[b][a],
           chan'[a][b] = chan[a][b], chan'[b][a] = chan[b][a],
           known'[a] = known[a], known'[b] = known[b], ch'[a] = ch[a], ch'[b] = ch[b]
    PROVE  Even(a, b)'
  BY EvenNext DEF Even, Tells, Incoming, Own

\* Channels and lines have a timestamp.
LEMMA AllDated ==
    ASSUME IInv
    PROVE  /\ \A s \in Server : Dated(Own(s)) /\ Dated(Existing(ch[s]))
           /\ \A s, t \in Server : Dated(Lines(chan[s][t])) /\ Dated(Incoming(s, t))
           /\ \A P, Q : Dated(P) /\ Dated(Q) => Dated(P \cup Q)
           /\ Dated({})
  <1>1. \A P, Q : Dated(P) /\ Dated(Q) => Dated(P \cup Q)
    BY DEF Dated
  <1>2. Dated({})
    BY DEF Dated
  <1>3. ASSUME NEW s \in Server PROVE Dated(Existing(ch[s])) /\ Dated(Own(s))
    <2>1. ch[s].ts \in Int
      BY ChannelFields DEF IInv, ChannelInv
    <2>. QED
      BY <2>1 DEF Own, Existing, Dated
  <1>4. ASSUME NEW s \in Server, NEW t \in Server PROVE Dated(Lines(chan[s][t]))
    <2>1. \A x \in TS : x \in Int
      BY ConstantsAssumption
    <2>2. \A i \in 1..Len(chan[s][t]) : chan[s][t][i] \in Msg
      <3>1. chan[s][t] \in Seq(Msg)
        BY DEF IInv, LinkInv, Streams
      <3>. QED
        BY <3>1, StreamIndex
    <2>3. ASSUME NEW l \in Lines(chan[s][t]) PROVE l.ts \in Int
      <3>1. PICK i \in 1..Len(chan[s][t]) : l = chan[s][t][i] /\ l.type = "SJOIN"
        BY DEF Lines
      <3>. QED
        BY <2>1, <2>2, <3>1, MessageFields
    <2>. QED
      BY <2>3 DEF Dated
  <1>5. ASSUME NEW s \in Server, NEW t \in Server PROVE Dated(Incoming(s, t))
    <2>1. Dated(Own(s) \cup Lines(chan[t][s]))
      BY <1>1, <1>3, <1>4
    <2>2. Dated(IF conn[t][s] = "out" THEN Own(t) ELSE {})
      BY <1>2, <1>3
    <2>. QED
      BY <1>1, <2>1, <2>2 DEF Incoming
  <1>. QED
    BY <1>1, <1>2, <1>3, <1>4, <1>5

\* What is gained on one side of a link is sent to the other ...
LEMMA SpreadSent ==
    ASSUME NEW A, NEW B, NEW G, NEW R, NEW P, Dated(A), Dated(B), Dated(G), Dated(R), Dated(P),
           Same(A \cup R, P), Same(B, A \cup G)
    PROVE  Same(B \cup R, P \cup G)
  <1>1. Dated(A \cup G) /\ Dated(A \cup R) /\ Dated(B \cup R) /\ Dated(P \cup G) /\ Dated((A \cup G) \cup R)
    BY DEF Dated
  <1>2. Same(B \cup R, (A \cup G) \cup R)
    BY <1>1, SameAdd
  <1>3. Same((A \cup R) \cup G, P \cup G)
    BY <1>1, SameAdd
  <1>4. (A \cup R) \cup G = (A \cup G) \cup R
    OBVIOUS
  <1>. QED
    BY <1>1, <1>2, <1>3, <1>4, SameEquiv

\* ... or will be, with the rest.
LEMMA SpreadHeld ==
    ASSUME NEW A, NEW B, NEW G, NEW R, NEW P, Dated(A), Dated(B), Dated(G), Dated(R), Dated(P),
           Same(A \cup R, P \cup A), Same(B, A \cup G)
    PROVE  Same(B \cup R, P \cup B)
  <1>1. /\ Dated(A \cup G) /\ Dated(A \cup R) /\ Dated(P \cup A) /\ Dated(B \cup R) /\ Dated(P \cup B)
        /\ Dated((P \cup A) \cup G) /\ Dated(P \cup (A \cup G))
    BY DEF Dated
  <1>2. Same(B \cup R, (P \cup A) \cup G)
    BY <1>1, SpreadSent
  <1>3. Same(A \cup G, B)
    BY <1>1, SameEquiv
  <1>4. Same(P \cup (A \cup G), P \cup B)
    BY <1>1, <1>3, SameAdd
  <1>5. P \cup (A \cup G) = (P \cup A) \cup G
    OBVIOUS
  <1>. QED
    BY <1>1, <1>2, <1>4, <1>5, SameEquiv

\* A message while channels are merged, and the lines in it
Carries(m) == IF m.type = "SJOIN" THEN {m} ELSE {}
Names(m) == IF m.type = "SJOIN" THEN {} ELSE m.ids
Brings(m) == IF m.type = "SJOIN" THEN m.members ELSE {}

\* s gains what message 'on' says, about servers of S
Gains(s, S, on) ==
    /\ on \in Msg /\ on.type \in {"SID", "SJOIN"}
    /\ known'[s] = known[s] \cup Names(on) /\ Names(on) \subseteq S
    /\ ch'[s].members = ch[s].members \cup Brings(on)
    /\ \A u \in Brings(on) : Home[u] \in S
    /\ Dated(Existing(ch'[s])) /\ Same(Existing(ch'[s]), Own(s) \cup Carries(on))
    /\ on.type = "SJOIN" =>
          /\ Proper(on) /\ on.members \cap ch[s].members = {}
          /\ \A u \in on.members : Home[u] \in known[s]
          /\ on.members # {} \/ Exists(ch[s])

\* A link that s does not gain anything from: what comes in over it
LEMMA StillTold ==
    ASSUME IInv, NEW s \in Server, NEW x \in Server, s # x, {s, x} \in Edge,
           Pair(x, s), Tells(x, s), conn[x][s] = "up",
           NEW S, S \subseteq Beyond(x, s), NEW on, Gains(s, S, on)
    PROVE  /\ known[x] \cap Beyond(s, x) = (known'[s] \cap Beyond(s, x)) \cup Ids(chan[x][s])
           /\ \A u \in ch'[s].members : Home[u] \in Beyond(s, x) => u \in ch[x].members
           /\ StreamOK(chan[x][s], ch'[s], known'[s], ch[x].members)
  <1>1. S \cap Beyond(s, x) = {}
    BY Sides
  <1>2. /\ known[x] \cap Beyond(s, x) = (known[s] \cap Beyond(s, x)) \cup Ids(chan[x][s])
        /\ \A u \in ch[s].members : Home[u] \in Beyond(s, x) => u \in ch[x].members
        /\ StreamOK(chan[x][s], ch[s], known[s], ch[x].members)
    BY DEF Tells
  <1>3. /\ known'[s] = known[s] \cup Names(on) /\ Names(on) \subseteq S
        /\ ch'[s].members = ch[s].members \cup Brings(on)
        /\ \A u \in Brings(on) : Home[u] \in S
    BY DEF Gains
  <1>4. known'[s] \cap Beyond(s, x) = known[s] \cap Beyond(s, x)
    BY <1>1, <1>3
  <1>5. \A u \in ch'[s].members : Home[u] \in Beyond(s, x) => u \in ch[x].members
    BY <1>1, <1>2, <1>3
  <1>6. ASSUME NEW l \in Lines(chan[x][s]) PROVE l.members \cap ch'[s].members = {}
    <2>1. PICK i \in 1..Len(chan[x][s]) : l = chan[x][s][i] /\ l.type = "SJOIN"
      BY DEF Lines
    <2>2. About(l, Beyond(s, x))
      BY <2>1 DEF Pair, Located
    <2>3. l.members \cap ch[s].members = {}
      BY <1>2, <2>1 DEF StreamOK, LineOK
    <2>. QED
      BY <1>1, <1>3, <2>1, <2>2, <2>3 DEF About
  <1>7. StreamOK(chan[x][s], ch'[s], known'[s], ch[x].members)
    BY <1>2, <1>3, <1>6, StreamMore
  <1>. QED
    BY <1>2, <1>4, <1>5, <1>7

\* What s tells x when it gains something: one message more
LEMMA ToldMore ==
    ASSUME IInv, NEW s \in Server, NEW x \in Server, s # x, {s, x} \in Edge,
           Pair(s, x), Tells(s, x), conn[s][x] = "up", Same(Incoming(s, x), Incoming(x, s)),
           NEW S, S \subseteq Beyond(x, s), NEW on, Gains(s, S, on)
    PROVE  /\ known'[s] \cap Beyond(x, s) = (known[x] \cap Beyond(x, s)) \cup Ids(chan[s][x] \o <<on>>)
           /\ \A u \in ch[x].members : Home[u] \in Beyond(x, s) => u \in ch'[s].members
           /\ StreamOK(chan[s][x] \o <<on>>, ch[x], known[x], ch'[s].members)
           /\ Lines(chan[s][x] \o <<on>>) = Lines(chan[s][x]) \cup Carries(on)
  <1>. DEFINE q == chan[s][x]
              B == Beyond(x, s)
  <1>1. q \in Seq(Msg)
    BY DEF IInv, LinkInv, Streams
  <1>2. /\ known[s] \cap B = (known[x] \cap B) \cup Ids(q)
        /\ \A u \in ch[x].members : Home[u] \in B => u \in ch[s].members
        /\ StreamOK(q, ch[x], known[x], ch[s].members)
    BY DEF Tells
  <1>3. /\ on \in Msg /\ on.type \in {"SID", "SJOIN"}
        /\ known'[s] = known[s] \cup Names(on) /\ Names(on) \subseteq B
        /\ ch'[s].members = ch[s].members \cup Brings(on)
        /\ \A u \in Brings(on) : Home[u] \in B
        /\ on.type = "SJOIN" =>
              /\ Proper(on) /\ on.members \cap ch[s].members = {}
              /\ \A u \in on.members : Home[u] \in known[s]
              /\ on.members # {} \/ Exists(ch[s])
    BY DEF Gains
  <1>4. Lines(q \o <<on>>) = Lines(q) \cup Carries(on) /\ Ids(q \o <<on>>) = Ids(q) \cup Names(on)
    BY <1>1, <1>3, LinesAppend DEF Carries, Names
  <1>. HIDE DEF B, q
  <1>5. known'[s] \cap B = (known[x] \cap B) \cup Ids(q \o <<on>>)
    BY <1>2, <1>3, <1>4
  <1>6. \A u \in ch[x].members : Home[u] \in B => u \in ch'[s].members
    BY <1>2, <1>3
  <1>7. ASSUME on.type = "SJOIN"
        PROVE  /\ Proper(on) /\ on.members \cap ch[x].members = {} /\ on.members \cap ch[s].members = {}
               /\ \A u \in on.members : Home[u] \in known[x] \cup Ids(q)
               /\ on.members # {} \/ Exists(ch[x]) \/ \E l \in Lines(q) : l.members # {}
    <2>1. Brings(on) = on.members
      BY <1>7 DEF Brings
    <2>2. \A u \in on.members : Home[u] \in known[x] \cup Ids(q)
      BY <1>2, <1>3, <1>7, <2>1
    <2>3. on.members \cap ch[x].members = {}
      BY <1>2, <1>3, <1>7, <2>1
    <2>4. ASSUME on.members = {} PROVE Exists(ch[x]) \/ \E l \in Lines(q) : l.members # {}
      <3>1. Exists(ch[s])
        BY <1>3, <1>7, <2>4
      <3>2. PICK u : u \in ch[s].members
        BY <3>1 DEF Exists
      <3>3. ch[s] \in Incoming(s, x)
        BY <3>1 DEF Incoming, Own, Existing
      <3>4. PICK p \in Incoming(x, s) : u \in p.members
        BY <3>2, <3>3, Zenon DEF Same, Covers
      <3>5. p \in Existing(ch[x]) \cup Lines(q)
        BY <3>4 DEF Incoming, Own, q
      <3>. QED
        BY <3>4, <3>5 DEF Existing
    <2>. QED
      BY <1>3, <1>7, <2>2, <2>3, <2>4
  <1>8. StreamOK(q \o <<on>>, ch[x], known[x], IF on.type = "SJOIN" THEN ch[s].members \cup on.members
                                               ELSE ch[s].members)
    BY <1>1, <1>2, <1>3, <1>7, StreamAppend
  <1>9. (IF on.type = "SJOIN" THEN ch[s].members \cup on.members ELSE ch[s].members) = ch'[s].members
    BY <1>3 DEF Brings
  <1>. QED
    BY <1>4, <1>5, <1>6, <1>8, <1>9 DEF q, B

\* The link of s with another neighbour x
LEMMA RestEven ==
    ASSUME IInv, NEW s \in Server, NEW x \in Server, s # x, Pair(s, x), Pair(x, s),
           Even(s, x), Even(x, s), NEW S, {s, x} \in Edge => S \subseteq Beyond(x, s),
           NEW on, Gains(s, S, on),
           conn'[s][x] = conn[s][x], conn'[x][s] = conn[x][s],
           known'[x] = known[x], ch'[x] = ch[x], chan'[x][s] = chan[x][s],
           chan'[s][x] = IF x \in Up(s) /\ conn[x][s] # "none" THEN chan[s][x] \o <<on>>
                         ELSE chan[s][x]
    PROVE  Even(s, x)' /\ Even(x, s)'
  <1>1. /\ conn[s][x] = "none" <=> conn[x][s] = "none"
        /\ conn[s][x] \in ConnState /\ conn[x][s] \in ConnState
    BY DEF Even, IInv, LinkInv
  <1>2. conn[s][x] # "none" => {s, x} \in Edge
    BY DEF Pair, Ends
  <1>3. /\ Dated(Own(s)) /\ Dated(Existing(ch'[s])) /\ Dated(Carries(on))
        /\ Same(Existing(ch'[s]), Own(s) \cup Carries(on))
    <2>1. Dated(Carries(on))
      BY ProperFields DEF Gains, Carries, Dated
    <2>. QED
      BY <2>1, AllDated DEF Gains
  <1>4. /\ Dated(Own(x)) /\ Dated(Lines(chan[x][s])) /\ Dated(Lines(chan[s][x]))
        /\ Dated(Own(x) \cup Lines(chan[s][x])) /\ Dated(Lines(chan[x][s]) \cup Own(x))
    BY AllDated
  <1>5. CASE conn[s][x] = "none"
    BY <1>1, <1>5, EvenNext
  <1>6. CASE conn[s][x] = "out"
    <2>1. conn[x][s] = "up" /\ chan[s][x] = <<>> /\ {s, x} \in Edge
      BY <1>1, <1>2, <1>6 DEF Pair, Ends, ConnState
    <2>2. chan'[s][x] = <<>> /\ Lines(<<>>) = {}
      BY <1>6, <2>1, LinesShort DEF Up
    <2>3. Same(Own(s) \cup Lines(chan[x][s]), Own(x) \cup Own(s))
      <3>1. Incoming(s, x) = Own(s) \cup Lines(chan[x][s]) /\ Incoming(x, s) = Own(x) \cup Own(s)
        BY <1>6, <2>1, <2>2 DEF Incoming
      <3>. QED
        BY <1>6, <3>1 DEF Even
    <2>. DEFINE P == Existing(ch'[s]) \cup Lines(chan[x][s])
                Q == Own(x) \cup Existing(ch'[s])
    <2>4. Same(P, Q)
      BY <1>3, <1>4, <2>3, SpreadHeld
    <2>5. Same(Q, P)
      BY <2>4 DEF Same
    <2>6. /\ known[x] \cap Beyond(s, x) = (known'[s] \cap Beyond(s, x)) \cup Ids(chan[x][s])
          /\ \A u \in ch'[s].members : Home[u] \in Beyond(s, x) => u \in ch[x].members
          /\ StreamOK(chan[x][s], ch'[s], known'[s], ch[x].members)
      BY <2>1, StillTold DEF Even
    <2>7. /\ P = Existing(ch'[s]) \cup Lines(chan'[x][s]) \cup {}
          /\ Q = Existing(ch'[x]) \cup Lines(chan'[s][x]) \cup Existing(ch'[s])
      BY <2>2 DEF Own
    <2>. HIDE DEF P, Q
    <2>8. Even(s, x)'
      BY <1>6, <2>1, <2>4, <2>7, EvenNext
    <2>9. Even(x, s)'
      BY <1>6, <2>1, <2>5, <2>6, <2>7, EvenNext
    <2>. QED
      BY <2>8, <2>9
  <1>7. CASE conn[s][x] = "up"
    <2>1. conn[x][s] # "none" /\ {s, x} \in Edge /\ chan'[s][x] = chan[s][x] \o <<on>>
      BY <1>1, <1>2, <1>7 DEF Up
    <2>2. /\ known'[s] \cap Beyond(x, s) = (known[x] \cap Beyond(x, s)) \cup Ids(chan'[s][x])
          /\ \A u \in ch[x].members : Home[u] \in Beyond(x, s) => u \in ch'[s].members
          /\ StreamOK(chan'[s][x], ch[x], known[x], ch'[s].members)
          /\ Lines(chan'[s][x]) = Lines(chan[s][x]) \cup Carries(on)
      <3>. DEFINE r == chan[s][x] \o <<on>>
      <3>1. /\ known'[s] \cap Beyond(x, s) = (known[x] \cap Beyond(x, s)) \cup Ids(r)
            /\ \A u \in ch[x].members : Home[u] \in Beyond(x, s) => u \in ch'[s].members
            /\ StreamOK(r, ch[x], known[x], ch'[s].members)
            /\ Lines(r) = Lines(chan[s][x]) \cup Carries(on)
        BY <1>7, <2>1, ToldMore DEF Even
      <3>2. chan'[s][x] = r
        BY <2>1
      <3>. HIDE DEF r
      <3>. QED
        BY <3>1, <3>2
    <2>. DEFINE X == IF conn[x][s] = "out" THEN Own(x) ELSE {}
                R == Lines(chan[x][s]) \cup X
                P == Own(x) \cup Lines(chan[s][x])
    <2>3. Dated(R) /\ Dated(P)
      BY <1>4, AllDated
    <2>4. Same(Own(s) \cup R, P)
      <3>1. Incoming(s, x) = Own(s) \cup R /\ Incoming(x, s) = P
        BY <1>7 DEF Incoming
      <3>. QED
        BY <1>7, <3>1 DEF Even
    <2>. HIDE DEF R, P
    <2>5. Same(Existing(ch'[s]) \cup R, P \cup Carries(on))
      BY <1>3, <2>3, <2>4, SpreadSent
    <2>6. Same(P \cup Carries(on), Existing(ch'[s]) \cup R)
      BY <2>5 DEF Same
    <2>. DEFINE V == Existing(ch'[s]) \cup R
                W == P \cup Carries(on)
    <2>7. /\ V = Existing(ch'[s]) \cup Lines(chan'[x][s]) \cup
                    (IF conn'[x][s] = "out" THEN Existing(ch'[x]) ELSE {})
          /\ W = Existing(ch'[x]) \cup Lines(chan'[s][x]) \cup {}
      <3>1. X = IF conn'[x][s] = "out" THEN Existing(ch'[x]) ELSE {}
        BY DEF Own
      <3>2. P = Existing(ch'[x]) \cup Lines(chan[s][x])
        BY DEF P, Own
      <3>. HIDE DEF X
      <3>. QED
        BY <2>2, <3>1, <3>2 DEF R
    <2>8. conn[x][s] = "up" =>
             /\ known[x] \cap Beyond(s, x) = (known'[s] \cap Beyond(s, x)) \cup Ids(chan[x][s])
             /\ \A u \in ch'[s].members : Home[u] \in Beyond(s, x) => u \in ch[x].members
             /\ StreamOK(chan[x][s], ch'[s], known'[s], ch[x].members)
      BY <2>1, StillTold DEF Even
    <2>9. Same(V, W) /\ Same(W, V)
      BY <2>5, <2>6
    <2>. HIDE DEF V, W, X
    <2>10. Even(s, x)'
      BY <1>7, <2>1, <2>2, <2>7, <2>9, EvenNext
    <2>11. Even(x, s)'
      BY <1>7, <2>1, <2>7, <2>8, <2>9, EvenNext
    <2>. QED
      BY <2>10, <2>11
  <1>. QED
    BY <1>1, <1>5, <1>6, <1>7 DEF ConnState

\* Streams of burst messages only
Tame(q) == \A i \in 1..Len(q) : q[i].type \in {"SERVER", "SID", "SJOIN"}

\* Merging is about all streams, before and after a step.
LEMMA MergingTame ==
    /\ IInv => (Merging <=> \A s, t \in Server : Tame(chan[s][t]))
    /\ IInv' => (Merging' <=> \A s, t \in Server : Tame(chan'[s][t]))
  <1>1. ASSUME IInv PROVE Merging <=> \A s, t \in Server : Tame(chan[s][t])
    <2>1. \A s, t \in Server : DOMAIN chan[s][t] = 1..Len(chan[s][t])
      BY <1>1 DEF IInv, LinkInv, Streams
    <2>. QED
      BY <2>1 DEF Merging, Tame
  <1>2. ASSUME IInv' PROVE Merging' <=> \A s, t \in Server : Tame(chan'[s][t])
    <2>0. chan' \in [Server -> [Server -> Seq(Msg)]]
      BY <1>2 DEF IInv, LinkInv, Streams
    <2>1. \A s, t \in Server : DOMAIN chan'[s][t] = 1..Len(chan'[s][t])
      BY <2>0
    <2>. QED
      BY <2>1 DEF Merging, Tame
  <1>. QED
    BY <1>1, <1>2

\* Reading and sending
LEMMA TameStreams ==
    ASSUME NEW q \in Seq(Msg), Tame(q)
    PROVE  /\ q # <<>> => Tame(Tail(q)) /\ Head(q).type \in {"SERVER", "SID", "SJOIN"}
           /\ \A m \in Msg : m.type \in {"SERVER", "SID", "SJOIN"} => Tame(q \o <<m>>)
  <1>1. ASSUME q # <<>> PROVE Tame(Tail(q)) /\ Head(q).type \in {"SERVER", "SID", "SJOIN"}
    <2>1. /\ Len(Tail(q)) = Len(q) - 1 /\ Len(q) \in Nat \ {0} /\ q[1] = Head(q)
          /\ \A i \in 1..Len(q) - 1 : Tail(q)[i] = q[i + 1]
      BY <1>1, StreamIndex
    <2>2. \A i \in 1..Len(Tail(q)) : i + 1 \in 1..Len(q) /\ Tail(q)[i] = q[i + 1]
      BY <2>1
    <2>. QED
      BY <2>1, <2>2 DEF Tame
  <1>2. ASSUME NEW m \in Msg, m.type \in {"SERVER", "SID", "SJOIN"} PROVE Tame(q \o <<m>>)
    <2>. DEFINE r == q \o <<m>>
    <2>1. Len(r) = Len(q) + 1 /\ r[Len(q) + 1] = m /\ (\A i \in 1..Len(q) : r[i] = q[i]) /\ Len(q) \in Nat
      BY StreamIndex
    <2>. HIDE DEF r
    <2>2. \A i \in 1..Len(r) : i = Len(q) + 1 \/ i \in 1..Len(q)
      BY <2>1
    <2>3. Tame(r)
      BY <1>2, <2>1, <2>2 DEF Tame
    <2>. QED
      BY <2>3 DEF r
  <1>. QED
    BY <1>1, <1>2

\* A step that gains something and tells the other neighbours leaves the
\* invariant to the link it works on.
LEMMA MergeGlue ==
    ASSUME IInv, IInv', MergePhase, Pairs', NEW s \in Server, NEW t \in Server, NEW S, NEW on,
           Gains(s, S, on), Elsewhere(s, t, <<on>>),
           \A x \in Server \ {s, t} : {s, x} \in Edge => S \subseteq Beyond(x, s),
           s # t => Even(s, t)' /\ Even(t, s)' /\ Tame(chan'[s][t]) /\ Tame(chan'[t][s])
    PROVE  MergePhase'
  <1>0. Pairs /\ (\A a, b \in Server : a # b => Even(a, b)) /\ (\A a, b \in Server : Tame(chan[a][b]))
    BY MergingTame DEF MergePhase
  <1>1. ASSUME NEW x \in Server \ {s, t}
        PROVE  Even(s, x)' /\ Even(x, s)' /\ Tame(chan'[s][x]) /\ Tame(chan'[x][s])
    <2>1. Pair(s, x) /\ Pair(x, s) /\ Even(s, x) /\ Even(x, s)
      BY <1>0 DEF Pairs
    <2>2. {<<s, x>>, <<x, s>>} \cap {<<s, t>>, <<t, s>>} = {}
      OBVIOUS
    <2>3. /\ conn'[s][x] = conn[s][x] /\ conn'[x][s] = conn[x][s]
          /\ known'[x] = known[x] /\ ch'[x] = ch[x]
          /\ chan'[x][s] = chan[x][s]
      BY <2>2 DEF Elsewhere
    <2>4. chan'[s][x] = IF x \in Up(s) /\ conn[x][s] # "none" THEN chan[s][x] \o <<on>>
                        ELSE chan[s][x]
      BY DEF Elsewhere
    <2>5. Even(s, x)' /\ Even(x, s)'
      BY <2>1, <2>3, <2>4, RestEven
    <2>6. chan[s][x] \in Seq(Msg) /\ on \in Msg /\ on.type \in {"SERVER", "SID", "SJOIN"}
      BY DEF IInv, LinkInv, Streams, Gains
    <2>7. Tame(chan[s][x] \o <<on>>)
      BY <1>0, <2>6, TameStreams
    <2>. QED
      BY <1>0, <2>3, <2>4, <2>5, <2>7
  <1>2. ASSUME NEW a \in Server \ {s}, NEW b \in Server \ {s}
        PROVE  (a # b => Even(a, b)') /\ Tame(chan'[a][b])
    <2>2. {<<a, b>>, <<b, a>>} \cap {<<s, t>>, <<t, s>>} = {}
      OBVIOUS
    <2>3. /\ conn'[a][b] = conn[a][b] /\ conn'[b][a] = conn[b][a]
          /\ chan'[a][b] = chan[a][b] /\ chan'[b][a] = chan[b][a]
          /\ known'[a] = known[a] /\ known'[b] = known[b] /\ ch'[a] = ch[a] /\ ch'[b] = ch[b]
      BY <2>2 DEF Elsewhere
    <2>. QED
      BY <1>0, <2>3, IdleEven
  <1>3. \A a, b \in Server : a # b => Even(a, b)'
    BY <1>1, <1>2
  <1>4. Tame(chan'[s][s])
    <2>1. chan'[s][s] = <<>>
      BY DEF IInv, LinkInv, Streams
    <2>. QED
      BY <2>1 DEF Tame
  <1>5. \A a, b \in Server : Tame(chan'[a][b])
    BY <1>1, <1>2, <1>4
  <1>6. Merging'
    BY <1>5, MergingTame
  <1>. QED
    BY <1>3, <1>6 DEF MergePhase

\* Who reads something other than SERVER has a link that is up at both ends.
LEMMA ReadUp ==
    ASSUME IInv, MergePhase, NEW s \in Server, NEW t \in Server, NEW type, Receives(s, t, type)
    PROVE  /\ s # t /\ {s, t} \in Edge /\ chan[t][s] # <<>> /\ chan[t][s] \in Seq(Msg)
           /\ Head(chan[t][s]) \in Msg /\ Head(chan[t][s]).type = type
           /\ About(Head(chan[t][s]), Beyond(s, t))
           /\ Pairs /\ Pair(s, t) /\ Pair(t, s) /\ Even(s, t) /\ Even(t, s)
           /\ conn[t][s] = "up"
           /\ type # "SERVER" => conn[s][t] = "up"
           /\ type = "SERVER" => conn[s][t] = "out"
           /\ Tame(chan[s][t]) /\ Tame(Tail(chan[t][s]))
  <1>1. /\ s # t /\ {s, t} \in Edge /\ chan[t][s] # <<>>
        /\ Head(chan[t][s]) \in Msg /\ Head(chan[t][s]).type = type
        /\ About(Head(chan[t][s]), Beyond(s, t))
    BY ReadFacts DEF MergePhase
  <1>2. Pairs /\ Pair(s, t) /\ Pair(t, s) /\ Even(s, t) /\ Even(t, s)
    BY <1>1 DEF MergePhase, Pairs
  <1>3. chan[t][s] \in Seq(Msg) /\ conn[s][t] \in ConnState /\ conn[t][s] \in ConnState
    BY DEF IInv, LinkInv, Streams
  <1>4. conn[s][t] # "none" /\ conn[t][s] # "out"
    BY <1>1, <1>2 DEF Pair, Ends
  <1>5. conn[t][s] = "up"
    BY <1>2, <1>3, <1>4 DEF Even, ConnState
  <1>6. conn[s][t] = "out" <=> type = "SERVER"
    <2>1. 1 \in 1..Len(chan[t][s]) /\ chan[t][s][1] = Head(chan[t][s])
      BY <1>1, <1>3, StreamIndex
    <2>. QED
      BY <1>1, <1>2, <1>3, <1>4, <2>1 DEF Pair, Ends, ConnState
  <1>7. Tame(chan[s][t]) /\ Tame(Tail(chan[t][s]))
    <2>1. Tame(chan[s][t]) /\ Tame(chan[t][s])
      BY MergingTame DEF MergePhase
    <2>. QED
      BY <1>1, <1>3, <2>1, TameStreams
  <1>. QED
    BY <1>1, <1>2, <1>3, <1>4, <1>5, <1>6, <1>7 DEF ConnState

\* Reading a message and passing it on changes nothing elsewhere.
LEMMA PassesElsewhere ==
    ASSUME IInv, NEW s \in Server, NEW t \in Server, s # t, NEW ms \in Seq(Msg),
           chan[t][s] # <<>>, Passes(s, t, ms), conn' = conn,
           \A x \in Server \ {s} : known'[x] = known[x] /\ ch'[x] = ch[x]
    PROVE  /\ Elsewhere(s, t, ms) /\ chan'[t][s] = Tail(chan[t][s]) /\ chan'[s][t] = chan[s][t]
  <1>1. /\ chan'[t][s] = Tail(chan[t][s]) /\ chan'[s][t] = chan[s][t]
        /\ \A a, b \in Server \ {s} : chan'[a][b] = chan[a][b]
        /\ \A x \in Server \ {s, t} : chan'[x][s] = chan[x][s]
        /\ \A x \in Server \ {s, t} :
              chan'[s][x] = IF x \in Up(s) /\ conn[x][s] # "none" THEN chan[s][x] \o ms
                            ELSE chan[s][x]
    BY PassesStreams
  <1>2. Elsewhere(s, t, ms)
    BY <1>1, Zenon DEF Elsewhere
  <1>. QED
    BY <1>1, <1>2

\* SID
LEMMA RecvSIDMerge ==
    ASSUME IInv, IInv', MergePhase, NEW s \in Server, NEW t \in Server, RecvSID(s, t)
    PROVE  MergePhase'
  <1>. DEFINE q == chan[t][s]
              m == Head(q)
              on == SID(m.ids)
  <1>1. Receives(s, t, "SID")
    BY DEF RecvSID
  <1>2. /\ s # t /\ {s, t} \in Edge /\ q # <<>> /\ q \in Seq(Msg) /\ m \in Msg /\ m.type = "SID"
        /\ About(m, Beyond(s, t)) /\ Pairs /\ Even(s, t) /\ Even(t, s)
        /\ conn[t][s] = "up" /\ conn[s][t] = "up" /\ Tame(chan[s][t]) /\ Tame(Tail(q))
    BY <1>1, ReadUp
  <1>3. Pairs'
    BY <1>2, RecvSIDPairs
  <1>4. m.ids \in SUBSET Server /\ m.ids \subseteq Beyond(s, t)
    BY <1>2, MessageFields DEF About
  <1>5. /\ known' = [known EXCEPT ![s] = @ \cup m.ids] /\ ch' = ch /\ conn' = conn
        /\ Passes(s, t, <<on>>)
    BY DEF RecvSID, ToOthers, Passes
  <1>. HIDE DEF m
  <1>6. on \in Msg /\ on.type = "SID" /\ on.ids = m.ids /\ <<on>> \in Seq(Msg)
    BY <1>4, MessageTypes, OutTypes DEF SID
  <1>. HIDE DEF on
  <1>7. known'[s] = known[s] \cup m.ids /\ \A x \in Server \ {s} : known'[x] = known[x] /\ ch'[x] = ch[x]
    BY <1>5 DEF IInv, ChannelInv
  <1>8. /\ Elsewhere(s, t, <<on>>) /\ chan'[t][s] = Tail(q) /\ chan'[s][t] = chan[s][t]
    BY <1>2, <1>5, <1>6, <1>7, PassesElsewhere
  <1>9. Gains(s, Beyond(s, t), on)
    <2>1. Carries(on) = {} /\ Names(on) = m.ids /\ Brings(on) = {} /\ ch'[s] = ch[s]
      BY <1>5, <1>6 DEF Carries, Names, Brings
    <2>2. Dated(Own(s)) /\ Own(s) \cup {} = Own(s)
      BY AllDated
    <2>3. Same(Own(s), Own(s))
      BY <2>2, SameEquiv
    <2>. QED
      BY <1>4, <1>6, <1>7, <2>1, <2>2, <2>3 DEF Gains, Own
  <1>10. \A x \in Server \ {s, t} : {s, x} \in Edge => Beyond(s, t) \subseteq Beyond(x, s)
    BY <1>2, Branches
  <1>11. Beyond(t, s) = Server \ Beyond(s, t)
    BY <1>2, Sides
  <1>12. Lines(Tail(q)) = Lines(q) /\ Ids(q) = m.ids \cup Ids(Tail(q))
    BY <1>2, LinesTail DEF m
  <1>13. /\ Same(Own(s) \cup Lines(q), Own(t) \cup Lines(chan[s][t]))
         /\ Same(Own(t) \cup Lines(chan[s][t]), Own(s) \cup Lines(q))
    <2>1. Incoming(s, t) = Own(s) \cup Lines(q) /\ Incoming(t, s) = Own(t) \cup Lines(chan[s][t])
      BY <1>2 DEF Incoming
    <2>. QED
      BY <1>2, <2>1 DEF Even
  <1>14. /\ known[t] \cap Beyond(s, t) = (known[s] \cap Beyond(s, t)) \cup Ids(q)
         /\ \A u \in ch[s].members : Home[u] \in Beyond(s, t) => u \in ch[t].members
         /\ StreamOK(q, ch[s], known[s], ch[t].members)
         /\ known[s] \cap Beyond(t, s) = (known[t] \cap Beyond(t, s)) \cup Ids(chan[s][t])
         /\ \A u \in ch[t].members : Home[u] \in Beyond(t, s) => u \in ch[s].members
         /\ StreamOK(chan[s][t], ch[t], known[t], ch[s].members)
    BY <1>2 DEF Even, Tells
  <1>15. StreamOK(Tail(q), ch[s], known'[s], ch[t].members)
    BY <1>2, <1>7, <1>14, StreamReadIds DEF m
  <1>. HIDE DEF q
  <1>16. Even(t, s)'
    <2>1. known[t] \cap Beyond(s, t) = (known'[s] \cap Beyond(s, t)) \cup Ids(Tail(q))
      BY <1>4, <1>7, <1>12, <1>14
    <2>2. /\ conn'[t][s] = "up" /\ conn'[s][t] = "up" /\ ch'[s] = ch[s] /\ ch'[t] = ch[t]
          /\ known'[t] = known[t]
      BY <1>2, <1>5, <1>7
    <2>. QED
      BY <1>8, <1>12, <1>13, <1>14, <1>15, <2>1, <2>2, EvenUp DEF Own
  <1>17. Even(s, t)'
    <2>1. known'[s] \cap Beyond(t, s) = (known[t] \cap Beyond(t, s)) \cup Ids(chan[s][t])
      BY <1>4, <1>7, <1>11, <1>14
    <2>2. /\ conn'[t][s] = "up" /\ conn'[s][t] = "up" /\ ch'[s] = ch[s] /\ ch'[t] = ch[t]
          /\ known'[t] = known[t]
      BY <1>2, <1>5, <1>7
    <2>. QED
      BY <1>8, <1>12, <1>13, <1>14, <2>1, <2>2, EvenUp DEF Own
  <1>. QED
    BY <1>2, <1>3, <1>8, <1>9, <1>10, <1>16, <1>17, MergeGlue

\* SJOIN
LEMMA RecvSJOINMerge ==
    ASSUME IInv, IInv', MergePhase, NEW s \in Server, NEW t \in Server, RecvSJOIN(s, t)
    PROVE  MergePhase'
  <1>. DEFINE q == chan[t][s]
              m == Head(q)
              c == ch[s]
              d == Sjoin(c, m, m.members)
              on == SjoinOn(c, m, m.members)
  <1>1. Receives(s, t, "SJOIN")
    BY DEF RecvSJOIN
  <1>2. /\ s # t /\ {s, t} \in Edge /\ q # <<>> /\ q \in Seq(Msg) /\ m \in Msg /\ m.type = "SJOIN"
        /\ About(m, Beyond(s, t)) /\ Pairs /\ Even(s, t) /\ Even(t, s)
        /\ conn[t][s] = "up" /\ conn[s][t] = "up" /\ Tame(chan[s][t]) /\ Tame(Tail(q))
    <2>1. "SJOIN" # "SERVER"
      OBVIOUS
    <2>. QED
      BY <1>1, <2>1, ReadUp
  <1>3. Pairs'
    BY <1>2, RecvSJOINPairs
  <1>4. /\ known[t] \cap Beyond(s, t) = (known[s] \cap Beyond(s, t)) \cup Ids(q)
        /\ \A u \in ch[s].members : Home[u] \in Beyond(s, t) => u \in ch[t].members
        /\ StreamOK(q, ch[s], known[s], ch[t].members)
        /\ known[s] \cap Beyond(t, s) = (known[t] \cap Beyond(t, s)) \cup Ids(chan[s][t])
        /\ \A u \in ch[t].members : Home[u] \in Beyond(t, s) => u \in ch[s].members
        /\ StreamOK(chan[s][t], ch[t], known[t], ch[s].members)
    BY <1>2 DEF Even, Tells
  <1>5. WellFormed(c)
    BY MemberTypes DEF IInv
  <1>6. /\ Proper(m) /\ m.members \cap c.members = {}
        /\ \A u \in m.members : Home[u] \in known[s]
        /\ m.members # {} \/ Exists(c)
        /\ m.members \subseteq ch[t].members
        /\ \A e : e.members = c.members \cup m.members => StreamOK(Tail(q), e, known[s], ch[t].members)
    <2>1. ASSUME NEW e, e.members = c.members \cup m.members
          PROVE  /\ Proper(m) /\ m.members \cap c.members = {}
                 /\ \A u \in m.members : Home[u] \in known[s]
                 /\ m.members # {} \/ Exists(c)
                 /\ m.members \subseteq ch[t].members
                 /\ StreamOK(Tail(q), e, known[s], ch[t].members)
      BY <1>2, <1>4, <2>1, StreamReadLine
    <2>. DEFINE e == [members |-> c.members \cup m.members]
    <2>2. e.members = c.members \cup m.members
      OBVIOUS
    <2>. HIDE DEF e
    <2>. QED
      BY <2>1, <2>2
  <1>7. m.members \cap KnownUsers(s) = m.members
    BY <1>6, ProperFields DEF KnownUsers
  <1>8. Handle(s, t, d, <<on>>)
    <2>1. Handle(s, t, Sjoin(c, m, m.members \cap KnownUsers(s)),
                 <<SjoinOn(c, m, m.members \cap KnownUsers(s))>>)
      BY DEF RecvSJOIN
    <2>. QED
      BY <1>7, <2>1
  <1>. HIDE DEF m
  <1>9. WellFormed(d) /\ Exists(d) /\ Same(Existing(d), Existing(c) \cup {m})
    BY <1>5, <1>6, SjoinSame
  <1>10. Proper(on) /\ on.members = m.members /\ Same(Existing(c) \cup {on}, Existing(c) \cup {m})
    BY <1>5, <1>6, SjoinOnSame
  <1>11. d.members = c.members \cup m.members
    BY <1>5, <1>6, ProperFields, SjoinWellFormed
  <1>. HIDE DEF d, on
  <1>12. ch' = [ch EXCEPT ![s] = d] /\ known' = known /\ conn' = conn /\ Passes(s, t, <<on>>)
    BY <1>8 DEF Handle, Passes
  <1>13. ch'[s] = d /\ \A x \in Server \ {s} : known'[x] = known[x] /\ ch'[x] = ch[x]
    BY <1>12 DEF IInv, ChannelInv
  <1>14. on \in Msg /\ on.type = "SJOIN" /\ <<on>> \in Seq(Msg)
    BY <1>10, OutTypes DEF Proper
  <1>15. /\ Elsewhere(s, t, <<on>>) /\ chan'[t][s] = Tail(q) /\ chan'[s][t] = chan[s][t]
    BY <1>2, <1>12, <1>13, <1>14, PassesElsewhere
  <1>16. Dated(Existing(d)) /\ Dated(Existing(c)) /\ Dated({m}) /\ Dated({on}) /\ Dated(Own(t))
         /\ Dated(Lines(q)) /\ Dated(Lines(chan[s][t])) /\ Dated(Lines(Tail(q)))
         /\ Dated(Existing(c) \cup {m}) /\ Dated(Existing(c) \cup {on})
    <2>1. Dated(Existing(d))
      <3>1. d.ts \in Int
        BY <1>9, ChannelFields DEF WellFormed
      <3>. QED
        BY <3>1 DEF Existing, Dated
    <2>2. Dated({m}) /\ Dated({on})
      BY <1>6, <1>10, ProperFields DEF Dated
    <2>3. Dated(Existing(c)) /\ Dated(Own(t)) /\ Dated(Lines(q)) /\ Dated(Lines(chan[s][t]))
      BY AllDated
    <2>4. Lines(Tail(q)) \subseteq Lines(q)
      BY <1>2, LinesTail
    <2>. QED
      BY <2>1, <2>2, <2>3, <2>4, AllDated DEF Dated
  <1>17. Gains(s, Beyond(s, t), on)
    <2>1. Carries(on) = {on} /\ Names(on) = {} /\ Brings(on) = m.members
      BY <1>10, <1>14 DEF Carries, Names, Brings
    <2>2. Same(Existing(d), Existing(c) \cup {on})
      BY <1>9, <1>10, <1>16, SameEquiv
    <2>3. \A u \in m.members : Home[u] \in Beyond(s, t)
      BY <1>2 DEF About
    <2>. QED
      BY <1>6, <1>10, <1>11, <1>12, <1>13, <1>14, <1>16, <2>1, <2>2, <2>3 DEF Gains, Own
  <1>18. \A x \in Server \ {s, t} : {s, x} \in Edge => Beyond(s, t) \subseteq Beyond(x, s)
    BY <1>2, Branches
  <1>19. Lines(q) = {m} \cup Lines(Tail(q)) /\ Ids(q) = Ids(Tail(q))
    BY <1>2, LinesTail DEF m
  <1>20. Same(Existing(c) \cup Lines(q), Own(t) \cup Lines(chan[s][t]))
    <2>1. Incoming(s, t) = Own(s) \cup Lines(q) /\ Incoming(t, s) = Own(t) \cup Lines(chan[s][t])
      BY <1>2 DEF Incoming
    <2>. QED
      BY <1>2, <2>1 DEF Even, Own
  <1>. HIDE DEF q
  <1>21. /\ Same(Existing(d) \cup Lines(Tail(q)), Own(t) \cup Lines(chan[s][t]))
         /\ Same(Own(t) \cup Lines(chan[s][t]), Existing(d) \cup Lines(Tail(q)))
    <2>1. Same(Existing(d) \cup Lines(Tail(q)), (Existing(c) \cup {m}) \cup Lines(Tail(q)))
      BY <1>9, <1>16, SameAdd
    <2>2. (Existing(c) \cup {m}) \cup Lines(Tail(q)) = Existing(c) \cup Lines(q)
      BY <1>19
    <2>3. /\ Dated(Existing(d) \cup Lines(Tail(q))) /\ Dated(Existing(c) \cup Lines(q))
          /\ Dated(Own(t) \cup Lines(chan[s][t]))
      BY <1>16, AllDated
    <2>4. Same(Existing(d) \cup Lines(Tail(q)), Own(t) \cup Lines(chan[s][t]))
      BY <1>20, <2>1, <2>2, <2>3, SameEquiv
    <2>. QED
      BY <2>3, <2>4, SameEquiv
  <1>22. /\ conn'[t][s] = "up" /\ conn'[s][t] = "up" /\ ch'[s] = d /\ ch'[t] = ch[t]
         /\ known'[t] = known[t] /\ known'[s] = known[s]
    BY <1>2, <1>12, <1>13
  <1>23. Even(t, s)'
    <2>1. \A u \in d.members : Home[u] \in Beyond(s, t) => u \in ch[t].members
      BY <1>4, <1>6, <1>11
    <2>2. StreamOK(Tail(q), d, known[s], ch[t].members)
      BY <1>6, <1>11
    <2>3. known[t] \cap Beyond(s, t) = (known[s] \cap Beyond(s, t)) \cup Ids(Tail(q))
      BY <1>4, <1>19
    <2>. QED
      BY <1>15, <1>21, <1>22, <2>1, <2>2, <2>3, EvenUp DEF Own
  <1>24. Even(s, t)'
    <2>1. c.members \subseteq d.members
      BY <1>11
    <2>2. StreamOK(chan[s][t], ch[t], known[t], d.members)
      <3>1. \A l \in Lines(chan[s][t]) : l.members \cap ch[t].members = {}
        BY <1>4 DEF Lines, StreamOK, LineOK
      <3>. QED
        BY <1>4, <2>1, <3>1, StreamMore
    <2>3. \A u \in ch[t].members : Home[u] \in Beyond(t, s) => u \in d.members
      BY <1>4, <2>1
    <2>. QED
      BY <1>4, <1>15, <1>21, <1>22, <2>2, <2>3, EvenUp DEF Own
  <1>. QED
    BY <1>2, <1>3, <1>15, <1>17, <1>18, <1>23, <1>24, MergeGlue

\* What s bursts to t, which knows nobody on the side of s but s itself.
LEMMA BurstTold ==
    ASSUME IInv, NEW s \in Server, NEW t \in Server, s # t, {s, t} \in Edge,
           known[s] \subseteq Beyond(t, s), known[t] \cap Beyond(t, s) \subseteq {s},
           \A u \in ch[t].members : Home[u] \notin Beyond(t, s),
           NEW burst \in Bursts(ch[s]), NEW m \in Msg, m.type \in {"SERVER", "SID"}, m.ids = known[s],
           NEW k, k \cap Beyond(t, s) = known[s]
    PROVE  /\ k \cap Beyond(t, s) = (known[t] \cap Beyond(t, s)) \cup Ids(<<m>> \o burst)
           /\ \A u \in ch[t].members : Home[u] \in Beyond(t, s) => u \in ch[s].members
           /\ StreamOK(<<m>> \o burst, ch[t], known[t], ch[s].members)
           /\ Same(Lines(<<m>> \o burst), Own(s)) /\ Dated(Lines(<<m>> \o burst))
           /\ <<m>> \o burst \in Seq(Msg) /\ Tame(<<m>> \o burst)
  <1>. DEFINE r == <<m>> \o burst
  <1>1. WellFormed(ch[s]) /\ (\A u \in ch[s].members : Home[u] \in known[s]) /\ s \in known[s]
    BY MemberTypes DEF IInv, ChannelInv
  <1>2. ch[s].members \cap ch[t].members = {} /\ \A u \in ch[s].members : Home[u] \in m.ids
    BY <1>1
  <1>3. /\ r \in Seq(Msg) /\ Same(Lines(r), Existing(ch[s])) /\ Dated(Lines(r)) /\ Ids(r) = m.ids
        /\ StreamOK(r, ch[t], known[t], ch[s].members) /\ Len(r) > 0 /\ r[1] = m
        /\ \A i \in 2..Len(r) : r[i].type = "SJOIN"
    <2>1. BurstsTo(r, m, ch[s], ch[t], known[t])
      BY <1>1, <1>2, BurstStream
    <2>. HIDE DEF r
    <2>. QED
      BY <2>1 DEF BurstsTo
  <1>. HIDE DEF r
  <1>4. Tame(r)
    <2>1. \A i \in 1..Len(r) : i = 1 \/ i \in 2..Len(r)
      BY <1>3
    <2>. QED
      BY <1>3, <2>1 DEF Tame
  <1>5. k \cap Beyond(t, s) = (known[t] \cap Beyond(t, s)) \cup Ids(r)
    BY <1>1, <1>3
  <1>. QED
    BY <1>3, <1>4, <1>5 DEF r, Own

\* s learns of servers beyond t: nothing else changes for it.
LEMMA GainsServers ==
    ASSUME IInv, NEW s \in Server, NEW ids \in SUBSET Server, NEW S, ids \subseteq S,
           known'[s] = known[s] \cup ids, ch'[s] = ch[s]
    PROVE  Gains(s, S, SID(ids)) /\ SID(ids) \in Msg
  <1>. DEFINE on == SID(ids)
  <1>1. on \in Msg /\ on.type = "SID" /\ on.ids = ids
    BY MessageTypes DEF SID
  <1>. HIDE DEF on
  <1>2. Carries(on) = {} /\ Names(on) = ids /\ Brings(on) = {}
    BY <1>1 DEF Carries, Names, Brings
  <1>3. Dated(Own(s)) /\ Own(s) \cup {} = Own(s)
    BY AllDated
  <1>4. Same(Own(s), Own(s))
    BY <1>3, SameEquiv
  <1>5. Gains(s, S, on)
    BY <1>1, <1>2, <1>3, <1>4 DEF Gains, Own
  <1>. QED
    BY <1>1, <1>5 DEF on

\* Link: s runs server_sync, t has yet to do so
LEMMA LinkMerge ==
    ASSUME IInv, IInv', MergePhase, NEW s \in Server, NEW t \in Server, Link(s, t)
    PROVE  MergePhase'
  <1>. DEFINE on == SID({t})
              m == SERVER(known[s])
              out == ToOthers(s, t, on)
              D == Deliver(chan, s, out)
  <1>1. /\ s # t /\ {s, t} \in Edge /\ conn[s][t] = "none" /\ conn[t][s] = "none"
        /\ conn' = [conn EXCEPT ![s][t] = "up", ![t][s] = "out"]
        /\ known' = [known EXCEPT ![s] = @ \cup {t}] /\ ch' = ch
        /\ chan[t][s] = <<>>
    BY DEF Link
  <1>2. PICK burst \in Bursts(ch[s]) : chan' = [D EXCEPT ![s][t] = <<m>> \o burst]
    BY DEF Link
  <1>3. Pairs /\ Pairs'
    BY LinkPairs DEF MergePhase
  <1>4. /\ {t, s} \in Edge /\ Beyond(t, s) = Server \ Beyond(s, t) /\ t \in Beyond(s, t)
    BY <1>1, Sides
  <1>5. known[s] \subseteq Beyond(t, s) /\ known[t] \cap Beyond(t, s) = {}
    <2>1. Pair(s, t) /\ Pair(t, s)
      BY <1>1, <1>3 DEF Pairs
    <2>. QED
      BY <1>1, <1>4, <2>1 DEF Pair, Severed, IInv, ChannelInv
  <1>6. /\ conn'[s][t] = "up" /\ conn'[t][s] = "out" /\ known'[s] = known[s] \cup {t}
        /\ \A x \in Server \ {s} : known'[x] = known[x] /\ ch'[x] = ch[x]
        /\ ch'[s] = ch[s]
        /\ \A a, b \in Server : <<a, b>> \notin {<<s, t>>, <<t, s>>} => conn'[a][b] = conn[a][b]
    <2>1. \A a, b \in Server : <<a, b>> \notin {<<s, t>>, <<t, s>>} => conn'[a][b] = conn[a][b]
      BY <1>1 DEF IInv, LinkInv
    <2>2. conn'[s][t] = "up" /\ conn'[t][s] = "out"
      BY <1>1 DEF IInv, LinkInv
    <2>3. known'[s] = known[s] \cup {t} /\ \A x \in Server \ {s} : known'[x] = known[x]
      BY <1>1 DEF IInv, ChannelInv
    <2>. QED
      BY <1>1, <2>1, <2>2, <2>3
  <1>7. m \in Msg /\ m.type = "SERVER" /\ m.ids = known[s]
    <2>1. known[s] \in SUBSET Server
      BY DEF IInv, ChannelInv
    <2>. QED
      BY <2>1, MessageTypes DEF SERVER
  <1>8. Gains(s, Beyond(s, t), on) /\ on \in Msg
    <2>1. {t} \in SUBSET Server /\ {t} \subseteq Beyond(s, t)
      BY <1>4
    <2>. QED
      BY <1>6, <2>1, GainsServers
  <1>. DEFINE r == <<m>> \o burst
  <1>. HIDE DEF m
  <1>9. /\ known'[s] \cap Beyond(t, s) = (known[t] \cap Beyond(t, s)) \cup Ids(r)
        /\ \A u \in ch[t].members : Home[u] \in Beyond(t, s) => u \in ch[s].members
        /\ StreamOK(r, ch[t], known[t], ch[s].members)
        /\ Same(Lines(r), Own(s)) /\ Dated(Lines(r))
        /\ r \in Seq(Msg) /\ Tame(r)
    <2>1. \A u \in ch[t].members : Home[u] \notin Beyond(t, s)
      BY <1>5, MemberTypes DEF IInv
    <2>2. known'[s] \cap Beyond(t, s) = known[s]
      BY <1>4, <1>5, <1>6
    <2>. QED
      BY <1>1, <1>5, <1>7, <2>1, <2>2, BurstTold, ZenonT(40)
  <1>. HIDE DEF r, on
  <1>10. out \in Out /\ \A x \in Server \ {s, t} : out[x] = IF x \in Up(s) THEN <<on>> ELSE <<>>
    BY <1>8, OutTypes DEF ToOthers
  <1>11. chan \in Streams
    BY DEF IInv, LinkInv
  <1>. HIDE DEF out
  <1>12. D \in Streams
    BY <1>10, <1>11, DeliverStreams DEF IInv
  <1>13. /\ \A a \in Server \ {s}, b \in Server : D[a][b] = chan[a][b]
         /\ \A x \in Server : conn[x][s] = "none" => D[s][x] = chan[s][x]
         /\ \A x \in Server : conn[x][s] # "none" => D[s][x] = chan[s][x] \o out[x]
         /\ \A x \in Server : chan[s][x] \o <<>> = chan[s][x]
    BY <1>10, <1>11, DeliverTo
  <1>. HIDE DEF D
  <1>14. chan'[s][t] = r /\ \A a, b \in Server : <<a, b>> # <<s, t>> => chan'[a][b] = D[a][b]
    BY <1>1, <1>2, <1>12 DEF Streams, r
  <1>15. Elsewhere(s, t, <<on>>) /\ chan'[t][s] = <<>>
    <2>1. \A a, b \in Server \ {s} : chan'[a][b] = chan[a][b]
      BY <1>13, <1>14
    <2>2. ASSUME NEW x \in Server \ {s, t}
          PROVE  /\ chan'[x][s] = chan[x][s]
                 /\ chan'[s][x] = IF x \in Up(s) /\ conn[x][s] # "none" THEN chan[s][x] \o <<on>>
                                  ELSE chan[s][x]
      <3>1. chan'[s][x] = D[s][x] /\ chan'[x][s] = chan[x][s]
        BY <1>13, <1>14
      <3>. QED
        BY <1>10, <1>13, <3>1
    <2>3. chan'[t][s] = <<>>
      BY <1>1, <1>13, <1>14
    <2>. QED
      BY <1>6, <2>1, <2>2, <2>3 DEF Elsewhere
  <1>16. \A x \in Server \ {s, t} : {s, x} \in Edge => Beyond(s, t) \subseteq Beyond(x, s)
    BY <1>1, Branches
  <1>17. /\ Same(Own(s) \cup {} \cup Own(t), Own(t) \cup Lines(r) \cup {})
         /\ Same(Own(t) \cup Lines(r) \cup {}, Own(s) \cup {} \cup Own(t))
    <2>1. Dated(Own(s)) /\ Dated(Own(t))
      BY AllDated
    <2>2. Same(Own(t) \cup Lines(r), Own(t) \cup Own(s))
      BY <1>9, <2>1, SameAdd
    <2>3. /\ Own(t) \cup Own(s) = Own(s) \cup {} \cup Own(t)
          /\ Own(t) \cup Lines(r) = Own(t) \cup Lines(r) \cup {}
      OBVIOUS
    <2>. QED
      BY <2>2, <2>3 DEF Same
  <1>18. Lines(<<>>) = {} /\ Tame(<<>>)
    <2>1. Len(<<>>) = 0 /\ 1..0 = {}
      OBVIOUS
    <2>2. Tame(<<>>)
      BY <2>1 DEF Tame
    <2>. QED
      BY <2>2, LinesShort
  <1>19. Even(s, t)'
    <2>1. "up" # "none" /\ "up" # "out"
      OBVIOUS
    <2>. QED
      BY <1>6, <1>9, <1>14, <1>15, <1>17, <1>18, <2>1, EvenNext DEF Own
  <1>20. Even(t, s)'
    <2>1. "up" # "none" /\ "up" # "out" /\ "out" # "none"
      OBVIOUS
    <2>. QED
      BY <1>6, <1>14, <1>15, <1>17, <1>18, <2>1, EvenNext DEF Own
  <1>. QED
    BY <1>1, <1>3, <1>8, <1>9, <1>14, <1>15, <1>16, <1>18, <1>19, <1>20, MergeGlue

\* SERVER: the end that connected runs server_sync in turn
LEMMA RecvSERVERMerge ==
    ASSUME IInv, IInv', MergePhase, NEW s \in Server, NEW t \in Server, RecvSERVER(s, t)
    PROVE  MergePhase'
  <1>. DEFINE q == chan[t][s]
              m == Head(q)
              on == SID(m.ids)
              mine == SID(known[s])
              c == Consume(s, t)
  <1>1. Receives(s, t, "SERVER") /\ ch' = ch /\ conn' = [conn EXCEPT ![s][t] = "up"]
        /\ known' = [known EXCEPT ![s] = @ \cup m.ids]
    BY DEF RecvSERVER
  <1>2. PICK burst \in Bursts(ch[s]) :
            chan' = Deliver(c, s, [ToOthers(s, t, on) EXCEPT ![t] = <<mine>> \o burst])
    BY DEF RecvSERVER
  <1>3. /\ s # t /\ {s, t} \in Edge /\ q # <<>> /\ q \in Seq(Msg) /\ m \in Msg /\ m.type = "SERVER"
        /\ About(m, Beyond(s, t)) /\ Pairs /\ Pair(s, t) /\ Pair(t, s) /\ Even(s, t) /\ Even(t, s)
        /\ conn[t][s] = "up" /\ conn[s][t] = "out" /\ Tame(Tail(q))
    BY <1>1, ReadUp
  <1>4. Pairs'
    BY <1>3, RecvSERVERPairs
  <1>5. c \in Streams
    BY <1>1, ConsumeStreams DEF IInv
  <1>6. chan[s][t] = <<>>
    BY <1>3 DEF Pair, Ends
  <1>7. Beyond(t, s) = Server \ Beyond(s, t) /\ {t, s} \in Edge
    BY <1>3, Sides
  <1>8. /\ known[s] \subseteq Beyond(t, s) /\ m.ids \subseteq Beyond(s, t) /\ m.ids \in SUBSET Server
        /\ known[s] \in SUBSET Server
    <2>1. known[s] \cap Beyond(s, t) = {} /\ known[s] \subseteq Server
      <3>1. "out" # "up"
        OBVIOUS
      <3>. QED
        BY <1>3, <3>1 DEF Pair, Severed, IInv, ChannelInv
    <2>. QED
      BY <1>3, <1>7, <2>1, MessageFields DEF About
  <1>. HIDE DEF m, c
  <1>9. /\ conn'[s][t] = "up" /\ conn'[t][s] = "up" /\ known'[s] = known[s] \cup m.ids
        /\ \A a, b \in Server : <<a, b>> \notin {<<s, t>>, <<t, s>>} => conn'[a][b] = conn[a][b]
        /\ \A x \in Server \ {s} : known'[x] = known[x] /\ ch'[x] = ch[x]
        /\ ch'[s] = ch[s]
    <2>1. \A a, b \in Server : <<a, b>> \notin {<<s, t>>, <<t, s>>} => conn'[a][b] = conn[a][b]
      BY <1>1 DEF IInv, LinkInv
    <2>2. conn'[s][t] = "up" /\ conn'[t][s] = "up"
      BY <1>1, <1>3 DEF IInv, LinkInv
    <2>3. known'[s] = known[s] \cup m.ids /\ \A x \in Server \ {s} : known'[x] = known[x]
      BY <1>1 DEF IInv, ChannelInv
    <2>. QED
      BY <1>1, <2>1, <2>2, <2>3
  <1>10. Gains(s, Beyond(s, t), on) /\ on \in Msg
    BY <1>8, <1>9, GainsServers
  <1>11. mine \in Msg /\ mine.type = "SID" /\ mine.ids = known[s]
    BY <1>8, MessageTypes DEF SID
  <1>. DEFINE r == <<mine>> \o burst
              out == [ToOthers(s, t, on) EXCEPT ![t] = r]
  <1>. HIDE DEF mine
  <1>12. /\ known'[s] \cap Beyond(t, s) = (known[t] \cap Beyond(t, s)) \cup Ids(r)
         /\ \A u \in ch[t].members : Home[u] \in Beyond(t, s) => u \in ch[s].members
         /\ StreamOK(r, ch[t], known[t], ch[s].members)
         /\ Same(Lines(r), Own(s)) /\ Dated(Lines(r))
         /\ r \in Seq(Msg) /\ Tame(r)
    <2>1. known[t] \cap Beyond(t, s) \subseteq {s} /\ \A u \in ch[t].members : Home[u] \notin Beyond(t, s)
      BY <1>3 DEF Pair, Unanswered
    <2>2. known'[s] \cap Beyond(t, s) = known[s]
      BY <1>7, <1>8, <1>9
    <2>. QED
      BY <1>3, <1>8, <1>11, <2>1, <2>2, BurstTold
  <1>. HIDE DEF on
  <1>13. /\ out \in Out /\ out[t] = r
         /\ \A x \in Server \ {s, t} : out[x] = IF x \in Up(s) THEN <<on>> ELSE <<>>
    <2>1. ToOthers(s, t, on) \in Out /\ r \in Seq(Msg)
      BY <1>10, <1>12, OutTypes
    <2>. HIDE DEF r
    <2>2. out \in Out /\ out[t] = r
      BY <2>1 DEF Out
    <2>3. \A x \in Server \ {s, t} : out[x] = ToOthers(s, t, on)[x]
      BY <2>1 DEF Out
    <2>. HIDE DEF out
    <2>4. \A x \in Server \ {s, t} : out[x] = IF x \in Up(s) THEN <<on>> ELSE <<>>
      BY <2>3 DEF ToOthers
    <2>. QED
      BY <2>2, <2>4
  <1>14. chan' = Deliver(c, s, out)
    BY <1>2
  <1>. HIDE DEF r, out
  <1>15. /\ c[t][s] = Tail(q)
         /\ \A a, b \in Server : <<a, b>> # <<t, s>> => c[a][b] = chan[a][b]
    BY DEF c, Consume, IInv, LinkInv, Streams
  <1>16. /\ \A a \in Server \ {s}, b \in Server : chan'[a][b] = c[a][b]
         /\ \A x \in Server : conn[x][s] = "none" => chan'[s][x] = c[s][x]
         /\ \A x \in Server : conn[x][s] # "none" => chan'[s][x] = c[s][x] \o out[x]
         /\ \A x \in Server : c[s][x] \o <<>> = c[s][x]
    <2>. DEFINE D == Deliver(c, s, out)
    <2>1. /\ \A a \in Server \ {s}, b \in Server : D[a][b] = c[a][b]
          /\ \A x \in Server : conn[x][s] = "none" => D[s][x] = c[s][x]
          /\ \A x \in Server : conn[x][s] # "none" => D[s][x] = c[s][x] \o out[x]
          /\ \A x \in Server : c[s][x] \o <<>> = c[s][x]
      BY <1>5, <1>13, DeliverTo
    <2>. HIDE DEF D
    <2>2. chan' = D
      BY <1>14 DEF D
    <2>. QED
      BY <2>1, <2>2
  <1>17. chan'[t][s] = Tail(q) /\ chan'[s][t] = r
    <2>1. c[s][t] = <<>> /\ out[t] = r /\ r \in Seq(Msg) /\ <<>> \o r = r
      BY <1>3, <1>6, <1>12, <1>13, <1>15, ConcatEmptySeq
    <2>2. chan'[s][t] = <<>> \o r
      BY <1>3, <1>16, <2>1
    <2>. QED
      BY <1>3, <1>15, <1>16, <2>1, <2>2
  <1>18. Elsewhere(s, t, <<on>>)
    <2>2. \A a, b \in Server \ {s} : chan'[a][b] = chan[a][b]
      BY <1>15, <1>16
    <2>3. ASSUME NEW x \in Server \ {s, t}
          PROVE  /\ chan'[x][s] = chan[x][s]
                 /\ chan'[s][x] = IF x \in Up(s) /\ conn[x][s] # "none" THEN chan[s][x] \o <<on>>
                                  ELSE chan[s][x]
      <3>1. c[s][x] = chan[s][x] /\ c[x][s] = chan[x][s]
        BY <1>3, <1>15
      <3>2. out[x] = IF x \in Up(s) THEN <<on>> ELSE <<>>
        BY <1>13
      <3>3. /\ conn[x][s] = "none" => chan'[s][x] = c[s][x]
            /\ conn[x][s] # "none" => chan'[s][x] = c[s][x] \o out[x]
            /\ c[s][x] \o <<>> = c[s][x]
        BY <1>16
      <3>4. chan'[x][s] = chan[x][s]
        BY <1>16, <3>1
      <3>. QED
        BY <3>1, <3>2, <3>3, <3>4
    <2>. QED
      BY <1>9, <2>2, <2>3 DEF Elsewhere
  <1>19. \A x \in Server \ {s, t} : {s, x} \in Edge => Beyond(s, t) \subseteq Beyond(x, s)
    BY <1>3, Branches
  <1>20. Lines(Tail(q)) = Lines(q) /\ Ids(q) = m.ids \cup Ids(Tail(q))
    BY <1>3, LinesTail DEF m
  <1>21. /\ known[t] \cap Beyond(s, t) = (known[s] \cap Beyond(s, t)) \cup Ids(q)
         /\ \A u \in ch[s].members : Home[u] \in Beyond(s, t) => u \in ch[t].members
         /\ StreamOK(q, ch[s], known[s], ch[t].members)
    BY <1>3 DEF Even, Tells
  <1>22. StreamOK(Tail(q), ch[s], known'[s], ch[t].members)
    BY <1>3, <1>9, <1>21, StreamReadIds DEF m
  <1>23. Same(Own(s) \cup Lines(q), Own(t) \cup Own(s))
    <2>1. Lines(<<>>) = {} /\ "out" # "none" /\ "up" # "out"
      BY LinesShort
    <2>2. Incoming(s, t) = Own(s) \cup Lines(q) /\ Incoming(t, s) = Own(t) \cup Own(s)
      BY <1>3, <1>6, <2>1 DEF Incoming
    <2>. QED
      BY <1>3, <2>1, <2>2 DEF Even
  <1>. HIDE DEF q
  <1>24. /\ Same(Own(s) \cup Lines(q), Own(t) \cup Lines(r))
         /\ Same(Own(t) \cup Lines(r), Own(s) \cup Lines(q))
    <2>1. /\ Dated(Own(s)) /\ Dated(Own(t)) /\ Dated(Own(t) \cup Own(s)) /\ Dated(Own(t) \cup Lines(r))
          /\ Dated(Own(s) \cup Lines(q))
      BY <1>12, AllDated DEF q
    <2>2. Same(Own(t) \cup Lines(r), Own(t) \cup Own(s))
      BY <1>12, <2>1, SameAdd
    <2>3. Same(Own(t) \cup Own(s), Own(t) \cup Lines(r))
      BY <2>2 DEF Same
    <2>4. Same(Own(s) \cup Lines(q), Own(t) \cup Lines(r))
      BY <1>23, <2>1, <2>3, SameEquiv
    <2>. QED
      BY <2>4 DEF Same
  <1>25. Even(t, s)'
    <2>1. known[t] \cap Beyond(s, t) = (known'[s] \cap Beyond(s, t)) \cup Ids(Tail(q))
      BY <1>8, <1>9, <1>20, <1>21
    <2>. QED
      BY <1>3, <1>9, <1>17, <1>20, <1>21, <1>22, <1>24, <2>1, EvenUp DEF Own
  <1>26. Even(s, t)'
    BY <1>3, <1>9, <1>12, <1>17, <1>20, <1>24, EvenUp DEF Own
  <1>. QED
    BY <1>3, <1>4, <1>10, <1>12, <1>17, <1>18, <1>19, <1>25, <1>26, MergeGlue

\* A change of a local user is sent over every link, and nothing else happens.
LEMMA UpdateElsewhere ==
    ASSUME IInv, NEW s \in Server, NEW c, NEW ms \in Seq(Msg),
           Update(s, c, ms), conn' = conn, known' = known
    PROVE  Elsewhere(s, s, ms) /\ ch'[s] = c
  <1>. DEFINE out == [x \in Server |-> IF x \in Up(s) THEN ms ELSE <<>>]
  <1>1. chan' = [chan EXCEPT ![s] = [x \in Server |->
                    IF conn[x][s] # "none" THEN chan[s][x] \o out[x] ELSE chan[s][x]]]
        /\ chan \in [Server -> [Server -> Seq(Msg)]]
    BY DEF Update, Deliver, IInv, LinkInv, Streams
  <1>2. out = [x \in Server |-> IF x \in Up(s) THEN ms ELSE <<>>]
    OBVIOUS
  <1>3. \A p \in Seq(Msg) : p \o <<>> = p
    BY ConcatEmptySeq
  <1>. HIDE DEF out
  <1>4. \A a \in Server \ {s}, b \in Server : chan'[a][b] = chan[a][b]
    BY <1>1
  <1>5. ASSUME NEW x \in Server
        PROVE  chan'[s][x] = IF x \in Up(s) /\ conn[x][s] # "none" THEN chan[s][x] \o ms
                             ELSE chan[s][x]
    <2>1. chan[s][x] \o <<>> = chan[s][x]
      BY <1>1, <1>3
    <2>2. out[x] = IF x \in Up(s) THEN ms ELSE <<>>
      BY <1>2
    <2>3. chan'[s][x] = IF conn[x][s] # "none" THEN chan[s][x] \o out[x] ELSE chan[s][x]
      BY <1>1
    <2>. QED
      BY <2>1, <2>2, <2>3
  <1>6. ch'[s] = c /\ \A x \in Server \ {s} : known'[x] = known[x] /\ ch'[x] = ch[x]
    BY DEF Update, IInv, ChannelInv
  <1>. QED
    BY <1>4, <1>5, <1>6 DEF Elsewhere

\* JOIN of an existing channel
LEMMA JoinExistingMerge ==
    ASSUME IInv, IInv', MergePhase, NEW u \in User, JoinExisting(u)
    PROVE  MergePhase'
  <1>0. Home[u] \in Server
    BY ConstantsAssumption
  <1>1. PICK s \in Server : s = Home[u]
    BY <1>0
  <1>. DEFINE c == ch[s]
              d == [c EXCEPT !.members = @ \cup {u}]
              line == SJOIN(c.ts, {u}, {}, {}, 0, {})
              any == MODE(0, Nothing)
  <1>2. /\ Exists(c) /\ u \notin c.members /\ Update(s, d, <<line>>) /\ conn' = conn /\ known' = known
    BY <1>1 DEF JoinExisting, Acts
  <1>3. WellFormed(c) /\ c \in Channel /\ c.ts \in TS /\ c.ts \in Int /\ s \in known[s]
    BY <1>2, MemberTypes, ChannelFields DEF IInv, ChannelInv, WellFormed
  <1>4. /\ d.ts = c.ts /\ d.members = c.members \cup {u} /\ d.ops = c.ops /\ d.modes = c.modes
        /\ d.lim = c.lim /\ d.bans = c.bans
    BY <1>3 DEF Channel
  <1>5. /\ line.type = "SJOIN" /\ line.ts = c.ts /\ line.members = {u} /\ line.ops = {}
        /\ line.modes = {} /\ line.lim = 0 /\ line.bans = {}
    BY DEF SJOIN
  <1>6. line \in Msg /\ <<line>> \in Seq(Msg)
    <2>1. {u} \in SUBSET User /\ {} \in SUBSET User /\ {} \in SUBSET Flag /\ 0 \in Limit \cup {0}
      OBVIOUS
    <2>. QED
      BY <1>3, <2>1, MessageTypes, OutTypes
  <1>7. any \in Msg /\ any.type = "MODE"
    <2>1. Nothing \in Change /\ 0 \in TS \cup {0}
      BY DEF Nothing, Change
    <2>. QED
      BY <2>1, MessageTypes DEF MODE
  <1>. HIDE DEF c, d, line, any
  <1>8. Proper(line)
    BY <1>5, <1>6 DEF Proper
  <1>9. Pairs /\ Pairs'
    <2>1. Update(Home[u], d, <<line>>) /\ d.members = ch[Home[u]].members \cup {u}
      BY <1>1, <1>2, <1>4 DEF c
    <2>2. Pairs
      BY DEF MergePhase
    <2>. QED
      BY <1>2, <1>5, <1>6, <1>7, <2>1, <2>2, JoinPairs
  <1>10. Elsewhere(s, s, <<line>>) /\ ch'[s] = d
    BY <1>2, <1>6, UpdateElsewhere
  <1>11. Same({d}, {c, line})
    <2>1. Items(line) = {}
      BY <1>5, ItemsNone
    <2>2. Items(d) = Items(c)
      BY <1>4, ItemsEqual
    <2>3. d.members = c.members \cup line.members /\ d.ts = c.ts /\ line.ts = c.ts /\ d.ts \in Int
      BY <1>3, <1>4, <1>5
    <2>4. Items(d) = Items(c) \cup Items(line)
      BY <2>1, <2>2
    <2>. QED
      BY <2>3, <2>4, SumSame
  <1>12. Existing(d) = {d} /\ Own(s) = {c} /\ Carries(line) = {line} /\ Names(line) = {}
         /\ Brings(line) = {u} /\ {c} \cup {line} = {c, line}
    BY <1>2, <1>4, <1>5 DEF Existing, Exists, Own, Carries, Names, Brings, c
  <1>13. Gains(s, {s}, line)
    <2>1. Dated({d})
      BY <1>3, <1>4 DEF Dated
    <2>2. Exists(ch[s]) /\ line.members \cap ch[s].members = {}
          /\ \A w \in line.members : Home[w] \in known[s]
      BY <1>1, <1>2, <1>3, <1>5 DEF c
    <2>3. ch'[s].members = ch[s].members \cup {u}
      BY <1>4, <1>10 DEF c
    <2>4. Dated(Existing(ch'[s])) /\ Same(Existing(ch'[s]), Own(s) \cup Carries(line))
      BY <1>10, <1>11, <1>12, <2>1
    <2>5. known'[s] = known[s] \cup Names(line) /\ Names(line) \subseteq {s}
      BY <1>2, <1>12
    <2>. QED
      BY <1>1, <1>5, <1>6, <1>8, <1>12, <2>2, <2>3, <2>4, <2>5 DEF Gains
  <1>14. \A x \in Server \ {s} : {s, x} \in Edge => {s} \subseteq Beyond(x, s)
    BY Sides
  <1>. QED
    BY <1>9, <1>10, <1>13, <1>14, MergeGlue

-----------------------------------------------------------------------------
(* Between the phases *)

\* Nothing is in flight, and linked servers have the same tables
Settled ==
    /\ Quiet
    /\ \A s, t \in Server : s # t =>
          /\ conn[s][t] # "out" /\ conn[s][t] = conn[t][s]
          /\ conn[s][t] = "up" => {s, t} \in Edge /\ ch[s] = ch[t] /\ known[s] = known[t]
          /\ Severed(s, t)

\* Well-formed channels that come to the same are the same.
LEMMA SameExisting ==
    ASSUME NEW c, NEW d, WellFormed(c), WellFormed(d), Same(Existing(c), Existing(d))
    PROVE  c = d
  <1>1. CASE Exists(c) /\ Exists(d)
    BY <1>1, SameChannel DEF Existing
  <1>2. CASE ~Exists(c) /\ ~Exists(d)
    BY <1>2 DEF WellFormed
  <1>3. CASE Exists(c) /\ ~Exists(d)
    BY <1>3, SameChannel DEF Existing
  <1>4. CASE ~Exists(c) /\ Exists(d)
    BY <1>4, SameChannel DEF Existing
  <1>. QED
    BY <1>1, <1>2, <1>3, <1>4

\* Channels have been merged.
LEMMA MergeSettled ==
    ASSUME IInv, MergePhase, Quiet
    PROVE  Settled
  <1>1. ASSUME NEW s \in Server, NEW t \in Server, s # t
        PROVE  /\ conn[s][t] # "out" /\ conn[s][t] = conn[t][s]
               /\ conn[s][t] = "up" => {s, t} \in Edge /\ ch[s] = ch[t] /\ known[s] = known[t]
               /\ Severed(s, t)
    <2>1. Pair(s, t) /\ Pair(t, s) /\ Even(s, t) /\ Even(t, s)
      BY <1>1 DEF MergePhase, Pairs
    <2>2. chan[s][t] = <<>> /\ chan[t][s] = <<>>
      BY DEF Quiet
    <2>3. conn[s][t] # "out" /\ conn[t][s] # "out" /\ conn[s][t] \in ConnState /\ conn[t][s] \in ConnState
      BY <2>1, <2>2 DEF Pair, Ends, IInv, LinkInv
    <2>4. conn[s][t] = conn[t][s]
      BY <2>1, <2>3 DEF Even, ConnState
    <2>5. ASSUME conn[s][t] = "up" PROVE {s, t} \in Edge /\ ch[s] = ch[t] /\ known[s] = known[t]
      <3>0. "up" # "none" /\ "up" # "out"
        OBVIOUS
      <3>1. {s, t} \in Edge
        BY <2>1, <2>5, <3>0 DEF Pair, Ends
      <3>2. Ids(<<>>) = {} /\ Lines(<<>>) = {}
        BY LinesShort
      <3>3. /\ known[s] \cap Beyond(t, s) = known[t] \cap Beyond(t, s)
            /\ known[s] \cap Beyond(s, t) = known[t] \cap Beyond(s, t)
        BY <2>1, <2>2, <2>4, <2>5, <3>2 DEF Even, Tells
      <3>4. known[s] = known[t]
        <4>1. Beyond(t, s) = Server \ Beyond(s, t)
          BY <1>1, <3>1, Sides
        <4>2. known[s] \subseteq Server /\ known[t] \subseteq Server
          BY DEF IInv, ChannelInv
        <4>. QED
          BY <3>3, <4>1, <4>2
      <3>5. Incoming(s, t) = Own(s) /\ Incoming(t, s) = Own(t)
        BY <2>2, <2>3, <3>2 DEF Incoming
      <3>6. Same(Existing(ch[s]), Existing(ch[t]))
        BY <2>1, <2>5, <3>0, <3>5 DEF Even, Own
      <3>7. WellFormed(ch[s]) /\ WellFormed(ch[t])
        BY MemberTypes DEF IInv
      <3>8. ch[s] = ch[t]
        BY <3>6, <3>7, SameExisting
      <3>. QED
        BY <3>1, <3>4, <3>8
    <2>. QED
      BY <2>1, <2>3, <2>4, <2>5 DEF Pair
  <1>. QED
    BY <1>1 DEF Settled

\* A change or a loss has been spread.
LEMMA WaveSettled ==
    ASSUME IInv, WavePhase, Quiet
    PROVE  Settled
  <1>1. ASSUME NEW s \in Server, NEW t \in Server, s # t
        PROVE  /\ conn[s][t] # "out" /\ conn[s][t] = conn[t][s]
               /\ conn[s][t] = "up" => {s, t} \in Edge /\ ch[s] = ch[t] /\ known[s] = known[t]
               /\ Severed(s, t)
    <2>1. WaveLink(s, t) /\ WaveLink(t, s) /\ chan[s][t] = <<>> /\ chan[t][s] = <<>>
      BY <1>1 DEF WavePhase, Quiet
    <2>2. <<EOF>> # <<>> /\ Len(<<>>) # 1 /\ "up" # "none"
      OBVIOUS
    <2>3. ~WaveAhead(s, t) /\ ~WaveAhead(t, s)
      BY <2>1, <2>2 DEF WaveAhead
    <2>4. conn[s][t] \in ConnState /\ conn[t][s] \in ConnState
      BY DEF IInv, LinkInv
    <2>5. conn[s][t] = conn[t][s]
      BY <2>1, <2>2, <2>4 DEF WaveLink, ConnState
    <2>. QED
      BY <2>1, <2>2, <2>3, <2>5 DEF WaveLink, Still
  <1>. QED
    BY <1>1 DEF Settled

\* Linked servers with nothing in flight and the same tables
LEMMA StillPair ==
    ASSUME IInv, NEW s \in Server, NEW t \in Server, s # t,
           conn[s][t] = "up", conn[t][s] = "up", chan[s][t] = <<>>, chan[t][s] = <<>>,
           {s, t} \in Edge, ch[s] = ch[t], known[s] = known[t]
    PROVE  Pair(s, t) /\ Even(s, t)
  <1>0. "up" # "none" /\ "up" # "out" /\ Len(<<>>) = 0 /\ 1..0 = {} /\ 2..0 = {}
    OBVIOUS
  <1>1. Ends(s, t) /\ Located(s, t) /\ Severed(s, t) /\ Unanswered(s, t)
    BY <1>0 DEF Ends, Located, Severed, Unanswered
  <1>2. Follows(s, t)
    <2>1. \A u \in User : View(t, u) = View(s, u)
      BY DEF View
    <2>. QED
      BY <2>1, ViewTypes, CourseEmpty DEF Follows
  <1>3. Ids(<<>>) = {} /\ Lines(<<>>) = {} /\ StreamOK(<<>>, ch[t], known[t], ch[s].members)
    <2>1. StreamOK(<<>>, ch[t], known[t], ch[s].members)
      BY <1>0 DEF StreamOK
    <2>. QED
      BY <2>1, LinesShort
  <1>4. Tells(s, t)
    BY <1>3 DEF Tells
  <1>5. Incoming(s, t) = Own(s) /\ Incoming(t, s) = Own(s)
    BY <1>0, <1>3 DEF Incoming, Own
  <1>6. Same(Own(s), Own(s))
    BY AllDated, SameEquiv
  <1>7. Even(s, t)
    BY <1>0, <1>4, <1>5, <1>6 DEF Even
  <1>. QED
    BY <1>1, <1>2, <1>7 DEF Pair

\* Servers that are not linked
LEMMA ApartPair ==
    ASSUME IInv, NEW s \in Server, NEW t \in Server, s # t,
           conn[s][t] = "none", conn[t][s] = "none", chan[s][t] = <<>>, chan[t][s] = <<>>, Severed(s, t)
    PROVE  Pair(s, t) /\ Even(s, t)
  <1>0. "up" # "none" /\ "none" # "out" /\ Len(<<>>) = 0 /\ 1..0 = {} /\ 2..0 = {}
    OBVIOUS
  <1>1. Ends(s, t) /\ Located(s, t) /\ Unanswered(s, t) /\ Follows(s, t)
    BY <1>0 DEF Ends, Located, Unanswered, Follows
  <1>2. Even(s, t)
    BY <1>0 DEF Even, Tells
  <1>. QED
    BY <1>1, <1>2 DEF Pair

\* What has settled may be merged with more.
LEMMA SettledMerge ==
    ASSUME IInv, Settled
    PROVE  MergePhase
  <1>1. ASSUME NEW s \in Server, NEW t \in Server, s # t
        PROVE  Pair(s, t) /\ Even(s, t)
    <2>1. /\ conn[s][t] # "out" /\ conn[s][t] = conn[t][s]
          /\ conn[s][t] = "up" => {s, t} \in Edge /\ ch[s] = ch[t] /\ known[s] = known[t]
          /\ Severed(s, t)
      BY <1>1 DEF Settled
    <2>2. chan[s][t] = <<>> /\ chan[t][s] = <<>>
      BY DEF Settled, Quiet
    <2>3. conn[s][t] = "none" \/ conn[s][t] = "up"
      BY <2>1 DEF IInv, LinkInv, ConnState
    <2>. QED
      BY <1>1, <2>1, <2>2, <2>3, StillPair, ApartPair
  <1>2. Merging
    <2>1. \A s, t \in Server : chan[s][t] = <<>>
      BY DEF Settled, Quiet
    <2>2. Len(<<>>) = 0 /\ 1..0 = {}
      OBVIOUS
    <2>3. \A s, t \in Server : Tame(chan[s][t])
      BY <2>1, <2>2 DEF Tame
    <2>. QED
      BY <2>3, MergingTame
  <1>. QED
    BY <1>1, <1>2 DEF MergePhase, Pairs

-----------------------------------------------------------------------------
(* Steps while a channel is created *)

\* The new channel and the line about it
LEMMA BornFields ==
    ASSUME NEW u \in User, NEW ts \in TS
    PROVE  /\ Born(u, ts).ts = ts /\ Born(u, ts).members = {u} /\ Born(u, ts).ops = {u}
           /\ Born(u, ts).modes = {} /\ Born(u, ts).lim = 0 /\ Born(u, ts).bans = {}
           /\ WellFormed(Born(u, ts)) /\ Exists(Born(u, ts)) /\ Born(u, ts) # NoChannel
           /\ BornLine(u, ts) \in Msg /\ BornLine(u, ts).type = "SJOIN" /\ BornLine(u, ts).ts = ts
           /\ BornLine(u, ts).members = {u} /\ BornLine(u, ts).ops = {u}
           /\ BornLine(u, ts).modes = {} /\ BornLine(u, ts).lim = 0 /\ BornLine(u, ts).bans = {}
           /\ Proper(BornLine(u, ts)) /\ ts \in Int /\ ts # 0
  <1>. DEFINE c == Born(u, ts)
              l == BornLine(u, ts)
  <1>1. NoChannel \in Channel /\ NoChannel.modes = {} /\ NoChannel.lim = 0 /\ NoChannel.bans = {}
    BY DEF Channel, NoChannel
  <1>2. /\ c.ts = ts /\ c.members = {u} /\ c.ops = {u} /\ c.modes = {} /\ c.lim = 0 /\ c.bans = {}
        /\ c \in Channel
    BY <1>1 DEF Channel, Born
  <1>3. /\ l.type = "SJOIN" /\ l.ts = ts /\ l.members = {u} /\ l.ops = {u}
        /\ l.modes = {} /\ l.lim = 0 /\ l.bans = {}
    BY DEF BornLine, SJOIN
  <1>4. l \in Msg
    <2>1. {u} \in SUBSET User /\ {} \in SUBSET User /\ {} \in SUBSET Flag /\ 0 \in Limit \cup {0}
      OBVIOUS
    <2>. QED
      BY <2>1, MessageTypes DEF BornLine
  <1>5. ts \in Int /\ ts # 0
    BY ConstantsAssumption
  <1>6. NoChannel.ts = 0
    BY DEF NoChannel
  <1>. HIDE DEF c, l
  <1>7. WellFormed(c) /\ Exists(c) /\ c # NoChannel
    BY <1>2, <1>5, <1>6 DEF WellFormed, Exists
  <1>8. Proper(l)
    BY <1>3, <1>4 DEF Proper
  <1>. QED
    BY <1>2, <1>3, <1>4, <1>5, <1>7, <1>8 DEF c, l

\* ... and what set::modes-on-join makes of it
LEMMA BornModes ==
    ASSUME NEW u \in User, NEW ts \in TS, ModesOnJoin # None
    PROVE  /\ SetMode(Born(u, ts), OnJoin).members = {u}
           /\ SetMode(Born(u, ts), OnJoin) # Born(u, ts) /\ SetMode(Born(u, ts), OnJoin) # NoChannel
           /\ BornMode(ts) \in Msg /\ BornMode(ts).type = "MODE" /\ BornMode(ts).ts = ts
           /\ BornMode(ts).change = OnJoin
  <1>. DEFINE c == Born(u, ts)
              d == SetMode(c, OnJoin)
  <1>1. ModesOnJoin \in Flag
    BY ConstantsAssumption DEF Flag
  <1>2. OnJoin \in Change /\ OnJoin.mode = ModesOnJoin /\ OnJoin.add = TRUE
    BY <1>1 DEF OnJoin, Change
  <1>3. /\ c \in Channel /\ c.members = {u} /\ c.modes = {}
        /\ WellFormed(c) /\ Exists(c)
    BY BornFields DEF WellFormed
  <1>. HIDE DEF c
  <1>4. d = [c EXCEPT !.modes = {ModesOnJoin}]
    <2>1. "s" # "o" /\ "s" # "b" /\ "s" # "l" /\ "p" # "o" /\ "p" # "b" /\ "p" # "l"
      OBVIOUS
    <2>2. OnJoin.mode # "o" /\ OnJoin.mode # "b" /\ OnJoin.mode # "l" /\ OnJoin.mode \in Flag
      BY <1>1, <1>2, <2>1 DEF Flag
    <2>3. d = [c EXCEPT !.modes = Toggle({}, OnJoin, OnJoin.mode)]
      BY <1>2, <2>2 DEF SetMode
    <2>4. Toggle({}, OnJoin, OnJoin.mode) = {ModesOnJoin}
      BY <1>2 DEF Toggle
    <2>. QED
      BY <2>3, <2>4
  <1>5. d.modes = {ModesOnJoin} /\ d.members = {u}
    BY <1>3, <1>4 DEF Channel
  <1>6. d # c /\ d # NoChannel
    BY <1>3, <1>5 DEF NoChannel
  <1>7. /\ BornMode(ts) \in Msg /\ BornMode(ts).type = "MODE"
        /\ BornMode(ts).ts = ts /\ BornMode(ts).change = OnJoin
    BY <1>2, MessageTypes DEF BornMode, MODE
  <1>. QED
    BY <1>5, <1>6, <1>7 DEF c

\* One line about the new channel is on its way: the usual merge.
LEMMA BornEven ==
    ASSUME IInv, NEW s \in Server, NEW t \in Server, s # t, {s, t} \in Edge,
           NEW u \in User, NEW ts \in TS, Home[u] \in Beyond(t, s),
           conn[s][t] = "up", conn[t][s] = "up", known[s] = known[t],
           chan[t][s] = <<>>, chan[s][t] = <<BornLine(u, ts)>>,
           ch[t] = NoChannel, ch[s] = Born(u, ts)
    PROVE  Even(s, t) /\ Even(t, s)
  <1>. DEFINE c == Born(u, ts)
              l == BornLine(u, ts)
  <1>1. /\ c.ts = ts /\ c.members = {u} /\ c.ops = {u} /\ c.modes = {} /\ c.lim = 0 /\ c.bans = {}
        /\ Exists(c)
        /\ l \in Msg /\ l.type = "SJOIN" /\ l.ts = ts /\ l.members = {u} /\ l.ops = {u}
        /\ l.modes = {} /\ l.lim = 0 /\ l.bans = {} /\ Proper(l) /\ ts \in Int
    BY BornFields
  <1>2. ch[t].members = {} /\ ~Exists(ch[t]) /\ ch[s] = c /\ chan[s][t] = <<l>>
    BY DEF NoChannel, Exists
  <1>. HIDE DEF c, l
  <1>3. Home[u] \in known[t]
    <2>1. u \in ch[s].members
      BY <1>1, <1>2
    <2>. QED
      BY <2>1, MemberTypes DEF IInv
  <1>4. Lines(<<>>) = {} /\ Ids(<<>>) = {} /\ Lines(<<l>>) = {l} /\ Ids(<<l>>) = {}
    <2>1. "SJOIN" \notin {"SERVER", "SID"}
      OBVIOUS
    <2>. QED
      BY <1>1, <2>1, LinesShort
  <1>5. StreamOK(<<>>, ch[s], known[s], ch[t].members) /\ StreamOK(<<l>>, ch[t], known[t], ch[s].members)
    <2>1. Len(<<>>) = 0 /\ 1..0 = {} /\ Len(<<l>>) = 1 /\ (\A i \in 1..1 : i = 1) /\ <<l>>[1] = l
      OBVIOUS
    <2>2. LineOK(<<l>>, 1, ch[t], known[t])
      BY <1>1, <1>2, <1>3, <2>1 DEF LineOK
    <2>3. l.members \subseteq ch[s].members
      BY <1>1, <1>2
    <2>4. StreamOK(<<l>>, ch[t], known[t], ch[s].members)
      BY <2>1, <2>2, <2>3 DEF StreamOK
    <2>. QED
      BY <2>1, <2>4 DEF StreamOK
  <1>6. "up" # "none" /\ "up" # "out"
    OBVIOUS
  <1>7. Tells(s, t) /\ Tells(t, s)
    <2>1. \A w \in ch[s].members : Home[w] \in Beyond(s, t) => w \in ch[t].members
      <3>1. Home[u] \notin Beyond(s, t)
        BY Sides
      <3>. QED
        BY <1>1, <1>2, <3>1
    <2>. QED
      BY <1>2, <1>4, <1>5, <2>1 DEF Tells
  <1>8. Incoming(s, t) = {c} /\ Incoming(t, s) = {l}
    BY <1>1, <1>2, <1>4, <1>6 DEF Incoming, Own, Existing
  <1>9. Same({c}, {l}) /\ Same({l}, {c})
    BY <1>1, ItemsEqual, TwinSame
  <1>. QED
    BY <1>6, <1>7, <1>8, <1>9 DEF Even

\* A new channel without modes of its own, as seen by the rest: the usual merge.
LEMMA BirthMerge ==
    ASSUME IInv, NEW u \in User, NEW ts \in TS, BirthPhase(u, ts), Merging
    PROVE  MergePhase
  <1>1. ASSUME NEW s \in Server, NEW t \in Server, s # t, BornAhead(s, t, u, ts),
               conn[s][t] = "up", conn[t][s] = "up", known[s] = known[t], {s, t} \in Edge
        PROVE  Even(s, t) /\ Even(t, s)
    <2>1. Tame(chan[s][t])
      BY MergingTame
    <2>2. "MODE" \notin {"SERVER", "SID", "SJOIN"}
      OBVIOUS
    <2>3. ASSUME ModesOnJoin # None, chan[s][t] = <<BornLine(u, ts), BornMode(ts)>> PROVE FALSE
      <3>. DEFINE a == BornLine(u, ts)
                  b == BornMode(ts)
      <3>1. b.type = "MODE"
        BY <2>3, BornModes
      <3>. HIDE DEF a, b
      <3>2. Len(<<a, b>>) = 2 /\ 2 \in 1..2 /\ <<a, b>>[2] = b
        OBVIOUS
      <3>3. chan[s][t] = <<a, b>>
        BY <2>3 DEF a, b
      <3>. QED
        BY <2>1, <2>2, <3>1, <3>2, <3>3 DEF Tame
    <2>4. ASSUME ModesOnJoin # None, chan[s][t] = <<BornMode(ts)>> PROVE FALSE
      <3>. DEFINE b == BornMode(ts)
      <3>1. b.type = "MODE"
        BY <2>4, BornModes
      <3>. HIDE DEF b
      <3>2. Len(<<b>>) = 1 /\ 1 \in 1..1 /\ <<b>>[1] = b
        OBVIOUS
      <3>3. chan[s][t] = <<b>>
        BY <2>4 DEF b
      <3>. QED
        BY <2>1, <2>2, <3>1, <3>2, <3>3 DEF Tame
    <2>5. /\ Home[u] \in Beyond(t, s) /\ chan[t][s] = <<>>
          /\ ch[t] = NoChannel /\ ch[s] = Born(u, ts) /\ chan[s][t] = <<BornLine(u, ts)>>
      BY <1>1, <2>3, <2>4, Zenon DEF BornAhead
    <2>. QED
      BY <1>1, <2>5, BornEven
  <1>2. ASSUME NEW s \in Server, NEW t \in Server, s # t PROVE Even(s, t)
    <2>1. BirthLink(s, t, u, ts) /\ BirthLink(t, s, u, ts) /\ Pair(s, t)
      BY <1>2 DEF BirthPhase, Pairs
    <2>2. CASE conn[s][t] = "none"
      <3>1. conn[t][s] = "none" /\ "none" # "up"
        BY <2>1, <2>2 DEF BirthLink
      <3>. QED
        BY <2>2, <3>1 DEF Even, Tells
    <2>3. CASE conn[s][t] # "none"
      <3>1. /\ conn[s][t] = "up" /\ conn[t][s] = "up" /\ known[s] = known[t] /\ {s, t} \in Edge
            /\ Still(s, t) \/ BornAhead(s, t, u, ts) \/ BornAhead(t, s, u, ts)
        BY <2>1, <2>3 DEF BirthLink, Pair, Ends
      <3>2. {t, s} \in Edge
        BY <1>2, <3>1, Sides
      <3>3. CASE Still(s, t)
        BY <1>2, <3>1, <3>3, StillPair DEF Still
      <3>. QED
        BY <1>1, <1>2, <3>1, <3>2, <3>3
    <2>. QED
      BY <2>2, <2>3
  <1>. QED
    BY <1>2 DEF MergePhase, BirthPhase

\* A step of s in which it gets ahead of its neighbours other than t, and maybe
\* catches up with t
LEMMA BirthGlue ==
    ASSUME IInv, Pairs', NEW u, NEW ts,
           \A a, b \in Server : a # b => BirthLink(a, b, u, ts),
           NEW s \in Server, NEW t \in Server, NEW ms, Elsewhere(s, t, ms),
           conn' = conn, known' = known,
           \A x \in Server \ {s, t} : conn[s][x] # "none" => BornAhead(s, x, u, ts)',
           s # t => /\ conn[s][t] = "up" /\ conn[t][s] = "up"
                    /\ Still(s, t)' \/ BornAhead(t, s, u, ts)'
    PROVE  BirthPhase(u, ts)'
  <1>0. "up" # "none"
    OBVIOUS
  <1>1. ASSUME NEW x \in Server \ {s, t} PROVE BirthLink(s, x, u, ts)' /\ BirthLink(x, s, u, ts)'
    <2>1. BirthLink(s, x, u, ts) /\ BirthLink(x, s, u, ts)
      OBVIOUS
    <2>2. CASE conn[s][x] = "none"
      <3>1. conn[x][s] = "none" /\ chan[s][x] = <<>> /\ chan[x][s] = <<>>
        BY <2>1, <2>2 DEF BirthLink
      <3>2. chan'[s][x] = <<>> /\ chan'[x][s] = <<>>
        BY <1>0, <2>2, <3>1 DEF Elsewhere, Up
      <3>. QED
        BY <2>2, <3>1, <3>2 DEF BirthLink
    <2>3. CASE conn[s][x] # "none"
      <3>1. conn[s][x] = "up" /\ conn[x][s] = "up" /\ known[s] = known[x]
        BY <2>1, <2>3 DEF BirthLink
      <3>2. BornAhead(s, x, u, ts)'
        BY <2>3
      <3>. QED
        BY <1>0, <3>1, <3>2 DEF BirthLink
    <2>. QED
      BY <2>2, <2>3
  <1>2. ASSUME s # t PROVE BirthLink(s, t, u, ts)' /\ BirthLink(t, s, u, ts)'
    <2>1. BirthLink(s, t, u, ts) /\ BirthLink(t, s, u, ts)
      BY <1>2
    <2>2. /\ conn[s][t] = "up" /\ conn[t][s] = "up" /\ known[s] = known[t]
          /\ Still(s, t)' \/ BornAhead(t, s, u, ts)'
      BY <1>0, <1>2, <2>1 DEF BirthLink
    <2>3. Still(s, t)' => Still(t, s)'
      BY DEF Still
    <2>. QED
      BY <1>0, <2>2, <2>3 DEF BirthLink
  <1>3. ASSUME NEW a \in Server \ {s}, NEW b \in Server \ {s}, a # b PROVE BirthLink(a, b, u, ts)'
    <2>1. BirthLink(a, b, u, ts)
      BY <1>3
    <2>2. /\ chan'[a][b] = chan[a][b] /\ chan'[b][a] = chan[b][a]
          /\ ch'[a] = ch[a] /\ ch'[b] = ch[b]
      BY DEF Elsewhere
    <2>3. /\ Still(a, b) => Still(a, b)'
          /\ BornAhead(a, b, u, ts) => BornAhead(a, b, u, ts)'
          /\ BornAhead(b, a, u, ts) => BornAhead(b, a, u, ts)'
      BY <2>2 DEF Still, BornAhead, Beyond
    <2>. QED
      BY <2>1, <2>2, <2>3 DEF BirthLink
  <1>4. \A a, b \in Server : a # b => BirthLink(a, b, u, ts)'
    BY <1>1, <1>2, <1>3
  <1>. QED
    BY <1>4 DEF BirthPhase

\* The forms in which s is ahead of t after a step
LEMMA AheadNext ==
    ASSUME NEW s, NEW t, NEW u, NEW ts, Home[u] \in Beyond(t, s), chan'[t][s] = <<>>,
           \/ ch'[t] = NoChannel /\ ch'[s] = Born(u, ts) /\ chan'[s][t] = <<BornLine(u, ts)>>
           \/ /\ ModesOnJoin # None /\ ch'[s] = SetMode(Born(u, ts), OnJoin)
              /\ \/ ch'[t] = NoChannel /\ chan'[s][t] = <<BornLine(u, ts), BornMode(ts)>>
                 \/ ch'[t] = Born(u, ts) /\ chan'[s][t] = <<BornMode(ts)>>
    PROVE  BornAhead(s, t, u, ts)'
  BY DEF BornAhead, Beyond

\* JOIN of a channel that does not exist
LEMMA JoinNewBirth ==
    ASSUME IInv, IInv', Settled, NEW u \in User, NEW ts \in TS, JoinNew(u, ts)
    PROVE  BirthPhase(u, ts)'
  <1>0. Home[u] \in Server
    BY ConstantsAssumption
  <1>1. PICK s \in Server : s = Home[u]
    BY <1>0
  <1>. DEFINE line == BornLine(u, ts)
              mode == BornMode(ts)
              c == IF ModesOnJoin = None THEN Born(u, ts) ELSE SetMode(Born(u, ts), OnJoin)
              ms == IF ModesOnJoin = None THEN <<line>> ELSE <<line, mode>>
              any == MODE(0, Nothing)
  <1>2. conn' = conn /\ known' = known /\ ~Exists(ch[s])
    BY <1>1 DEF JoinNew, Acts
  <1>3. Update(s, c, ms)
    BY <1>1 DEF JoinNew, Born, BornLine, BornMode, OnJoin
  <1>4. /\ line \in Msg /\ line.type = "SJOIN" /\ line.members = {u}
        /\ ModesOnJoin # None => mode \in Msg /\ mode.type = "MODE"
        /\ c.members = {u}
    BY BornFields, BornModes
  <1>5. any \in Msg /\ any.type = "MODE"
    <2>1. Nothing \in Change /\ 0 \in TS \cup {0}
      BY DEF Nothing, Change
    <2>. QED
      BY <2>1, MessageTypes DEF MODE
  <1>6. ms \in Seq(Msg)
    BY <1>4, OutTypes
  <1>7. ch[s] = NoChannel /\ ch[s].members = {}
    <2>1. WellFormed(ch[s])
      BY MemberTypes DEF IInv
    <2>. QED
      BY <1>2, <2>1 DEF WellFormed, Exists
  <1>8. Pairs
    BY SettledMerge DEF MergePhase
  <1>. HIDE DEF line, mode, any
  <1>9. Pairs'
    <2>1. c.members = ch[Home[u]].members \cup {u}
      BY <1>1, <1>4, <1>7
    <2>2. CASE ModesOnJoin = None
      <3>1. Update(Home[u], c, <<line>>)
        BY <1>1, <1>3, <2>2
      <3>. HIDE DEF c
      <3>. QED
        BY <1>2, <1>4, <1>5, <1>8, <2>1, <3>1, JoinPairs
    <2>3. CASE ModesOnJoin # None
      <3>1. Update(Home[u], c, <<line, mode>>)
        BY <1>1, <1>3, <2>3
      <3>. HIDE DEF c
      <3>. QED
        BY <1>2, <1>4, <1>8, <2>1, <2>3, <3>1, JoinPairs
    <2>. QED
      BY <2>2, <2>3
  <1>. HIDE DEF c, ms
  <1>10. Elsewhere(s, s, ms) /\ ch'[s] = c
    BY <1>2, <1>3, <1>6, UpdateElsewhere
  <1>11. ASSUME NEW a \in Server, NEW b \in Server, a # b PROVE BirthLink(a, b, u, ts)
    <2>1. /\ conn[a][b] # "out" /\ conn[a][b] = conn[b][a] /\ conn[a][b] \in ConnState
          /\ conn[a][b] = "up" => ch[a] = ch[b] /\ known[a] = known[b]
          /\ chan[a][b] = <<>> /\ chan[b][a] = <<>>
      BY <1>11 DEF Settled, Quiet, IInv, LinkInv
    <2>. QED
      BY <2>1 DEF BirthLink, Still, ConnState
  <1>12. ASSUME NEW x \in Server \ {s, s}, conn[s][x] # "none" PROVE BornAhead(s, x, u, ts)'
    <2>1. conn[s][x] \in ConnState /\ conn[s][x] # "out" /\ conn[x][s] = conn[s][x]
      BY DEF Settled, IInv, LinkInv
    <2>2. conn[s][x] = "up" /\ conn[x][s] # "none"
      BY <1>12, <2>1 DEF ConnState
    <2>3. {s, x} \in Edge /\ ch[x] = NoChannel
      BY <1>7, <2>2 DEF Settled
    <2>4. Home[u] \in Beyond(x, s)
      BY <1>1, <2>3, Sides
    <2>5. chan[s][x] = <<>> /\ chan[x][s] = <<>> /\ <<>> \o ms = ms
      BY <1>6, ConcatEmptySeq DEF Settled, Quiet
    <2>6. chan'[s][x] = ms /\ chan'[x][s] = <<>> /\ ch'[x] = NoChannel
      <3>1. chan'[s][x] = IF x \in Up(s) /\ conn[x][s] # "none" THEN chan[s][x] \o ms
                          ELSE chan[s][x]
        BY <1>10 DEF Elsewhere
      <3>2. chan'[x][s] = chan[x][s] /\ ch'[x] = ch[x]
        BY <1>10 DEF Elsewhere
      <3>. QED
        BY <2>2, <2>3, <2>5, <3>1, <3>2 DEF Up
    <2>. QED
      BY <1>10, <2>4, <2>6, AheadNext DEF c, ms, line, mode
  <1>. QED
    BY <1>2, <1>9, <1>10, <1>11, <1>12, BirthGlue

\* s is next to read the line about the new channel ...
ReadsLine(s, t, u, ts) ==
    /\ ch[s] = NoChannel /\ Head(chan[t][s]) = BornLine(u, ts)
    /\ \/ ch[t] = Born(u, ts) /\ Tail(chan[t][s]) = <<>>
       \/ /\ ModesOnJoin # None /\ ch[t] = SetMode(Born(u, ts), OnJoin)
          /\ Tail(chan[t][s]) = <<BornMode(ts)>>

\* ... or about its modes
ReadsMode(s, t, u, ts) ==
    /\ ch[s] = Born(u, ts) /\ Head(chan[t][s]) = BornMode(ts) /\ Tail(chan[t][s]) = <<>>
    /\ ModesOnJoin # None /\ ch[t] = SetMode(Born(u, ts), OnJoin)

\* Who reads something while a channel is created is behind.
LEMMA BirthRead ==
    ASSUME IInv, NEW u \in User, NEW ts \in TS, BirthPhase(u, ts),
           NEW s \in Server, NEW t \in Server, NEW type, Receives(s, t, type)
    PROVE  /\ s # t /\ {s, t} \in Edge /\ Pairs /\ chan[t][s] # <<>>
           /\ conn[s][t] = "up" /\ conn[t][s] = "up" /\ known[s] = known[t] /\ BornAhead(t, s, u, ts)
           /\ type \in {"SJOIN", "MODE"}
           /\ type = "SJOIN" => ReadsLine(s, t, u, ts)
           /\ type = "MODE" => ReadsMode(s, t, u, ts)
  <1>0. Pairs
    BY DEF BirthPhase
  <1>1. s # t /\ {s, t} \in Edge /\ chan[t][s] # <<>> /\ Head(chan[t][s]).type = type
    BY <1>0, ReadFacts
  <1>2. BirthLink(s, t, u, ts) /\ BirthLink(t, s, u, ts)
    BY <1>1 DEF BirthPhase
  <1>3. conn[s][t] = "up" /\ conn[t][s] = "up" /\ known[s] = known[t]
    BY <1>1, <1>2 DEF BirthLink
  <1>4. BornAhead(t, s, u, ts)
    BY <1>1, <1>2 DEF BirthLink, Still, BornAhead
  <1>. DEFINE a == BornLine(u, ts)
              b == BornMode(ts)
  <1>5. a.type = "SJOIN" /\ (ModesOnJoin # None => b.type = "MODE")
    BY BornFields, BornModes
  <1>6. "SJOIN" # "MODE"
    OBVIOUS
  <1>7. \/ ch[s] = NoChannel /\ ch[t] = Born(u, ts) /\ chan[t][s] = <<a>>
        \/ /\ ModesOnJoin # None /\ ch[t] = SetMode(Born(u, ts), OnJoin)
           /\ \/ ch[s] = NoChannel /\ chan[t][s] = <<a, b>>
              \/ ch[s] = Born(u, ts) /\ chan[t][s] = <<b>>
    BY <1>4, Zenon DEF BornAhead
  <1>. HIDE DEF a, b
  <1>8. /\ Head(<<a>>) = a /\ Tail(<<a>>) = <<>> /\ Head(<<b>>) = b /\ Tail(<<b>>) = <<>>
        /\ Head(<<a, b>>) = a /\ Tail(<<a, b>>) = <<b>>
    OBVIOUS
  <1>9. CASE ch[s] = NoChannel /\ ch[t] = Born(u, ts) /\ chan[t][s] = <<a>>
    BY <1>0, <1>1, <1>3, <1>4, <1>5, <1>6, <1>8, <1>9 DEF a, ReadsLine
  <1>10. CASE /\ ModesOnJoin # None /\ ch[t] = SetMode(Born(u, ts), OnJoin)
              /\ ch[s] = NoChannel /\ chan[t][s] = <<a, b>>
    BY <1>0, <1>1, <1>3, <1>4, <1>5, <1>6, <1>8, <1>10 DEF a, b, ReadsLine
  <1>11. CASE /\ ModesOnJoin # None /\ ch[t] = SetMode(Born(u, ts), OnJoin)
              /\ ch[s] = Born(u, ts) /\ chan[t][s] = <<b>>
    BY <1>0, <1>1, <1>3, <1>4, <1>5, <1>6, <1>8, <1>11 DEF b, ReadsMode
  <1>. QED
    BY <1>7, <1>9, <1>10, <1>11

\* SJOIN on a channel that does not exist: it is created as it was.
LEMMA SjoinBorn ==
    ASSUME NEW u \in User, NEW ts \in TS
    PROVE  /\ Sjoin(NoChannel, BornLine(u, ts), {u}) = Born(u, ts)
           /\ SjoinOn(NoChannel, BornLine(u, ts), {u}) = BornLine(u, ts)
  <1>. DEFINE l == BornLine(u, ts)
              c == Born(u, ts)
              o == Ours(NoChannel, ts)
  <1>1. /\ l.type = "SJOIN" /\ l.ts = ts /\ l.members = {u} /\ l.ops = {u}
        /\ l.modes = {} /\ l.lim = 0 /\ l.bans = {} /\ ts \in Int
        /\ c.ts = ts /\ c.members = {u} /\ c.ops = {u} /\ c.modes = {} /\ c.lim = 0 /\ c.bans = {}
        /\ WellFormed(c) /\ Exists(c) /\ l \in Msg
    BY BornFields
  <1>2. c = [ts |-> ts, members |-> {u}, ops |-> {u}, modes |-> {}, lim |-> 0, bans |-> {}]
    <2>1. c \in Channel
      BY <1>1 DEF WellFormed
    <2>2. c = [ts |-> c.ts, members |-> c.members, ops |-> c.ops,
               modes |-> c.modes, lim |-> c.lim, bans |-> c.bans]
      BY <2>1, ChannelFields
    <2>. HIDE DEF c
    <2>. QED
      BY <1>1, <2>2
  <1>3. ~Exists(NoChannel) /\ NoChannel.members = {}
    BY DEF Exists, NoChannel
  <1>4. /\ o.ts = ts /\ o.members = {} /\ o.ops = {} /\ o.modes = {} /\ o.lim = 0 /\ o.bans = {}
    BY <1>3 DEF Ours, NoChannel
  <1>5. l = [type |-> "SJOIN", ts |-> ts, members |-> {u}, ops |-> {u}, modes |-> {}, lim |-> 0, bans |-> {}]
    BY DEF BornLine, SJOIN
  <1>. HIDE DEF l, c, o
  <1>6. TheirsCount(NoChannel, ts)
    BY <1>3 DEF TheirsCount
  <1>. DEFINE merged == [ts |-> o.ts,
                         members |-> o.members \cup {u},
                         ops |-> o.ops \cup ((l.ops \cap {u}) \ NoChannel.members),
                         modes |-> MergeFlags(o.modes, l.modes),
                         lim |-> MergeLimit(o.lim, l.lim),
                         bans |-> o.bans \cup l.bans]
  <1>7. MergeFlags({}, {}) = {} /\ MergeLimit(0, 0) = 0
    BY DEF MergeFlags, MergeLimit
  <1>8. merged = c
    <2>1. /\ o.members \cup {u} = {u} /\ o.ops \cup ((l.ops \cap {u}) \ NoChannel.members) = {u}
          /\ o.bans \cup l.bans = {}
      BY <1>1, <1>3, <1>4
    <2>. QED
      BY <1>1, <1>2, <1>4, <1>7, <2>1
  <1>9. Sjoin(NoChannel, l, {u}) = c
    <2>1. Sjoin(NoChannel, l, {u}) = DestroyIfEmpty(merged)
      BY <1>1, <1>6 DEF Sjoin, o
    <2>. HIDE DEF merged
    <2>. QED
      BY <1>1, <1>8, <2>1 DEF DestroyIfEmpty
  <1>10. SjoinOn(NoChannel, l, {u}) = l
    <2>1. SjoinOn(NoChannel, l, {u}) = [l EXCEPT !.members = {u}, !.ops = {u}, !.bans = {}]
      <3>1. l.ops \cap {u} = {u}
        BY <1>1
      <3>. QED
        BY <1>1, <1>6, <3>1 DEF SjoinOn
    <2>. QED
      BY <1>1, <1>5, <2>1
  <1>. QED
    BY <1>9, <1>10 DEF l, c

\* Two messages in a row.
LEMMA TwoInARow ==
    ASSUME NEW a \in Msg, NEW b \in Msg
    PROVE  <<a>> \o <<b>> = <<a, b>>
  <1>. DEFINE r == <<a>> \o <<b>>
              p == <<a, b>>
  <1>1. /\ r \in Seq(Msg) /\ Len(r) = 2
        /\ \A i \in 1..2 : r[i] = IF i <= 1 THEN <<a>>[i] ELSE <<b>>[i - 1]
    BY OutTypes, ConcatProperties
  <1>2. p \in Seq(Msg) /\ Len(p) = 2 /\ p[1] = a /\ p[2] = b
    OBVIOUS
  <1>3. \A i \in 1..2 : r[i] = p[i]
    BY <1>1, <1>2
  <1>. HIDE DEF r, p
  <1>4. r = p
    BY <1>1, <1>2, <1>3, SeqEqual
  <1>. QED
    BY <1>4 DEF r, p

\* SJOIN
LEMMA RecvSJOINBirth ==
    ASSUME IInv, IInv', NEW u \in User, NEW ts \in TS, BirthPhase(u, ts),
           NEW s \in Server, NEW t \in Server, RecvSJOIN(s, t)
    PROVE  BirthPhase(u, ts)'
  <1>. DEFINE l == BornLine(u, ts)
              c == Born(u, ts)
              q == chan[t][s]
  <1>1. Receives(s, t, "SJOIN")
    BY DEF RecvSJOIN
  <1>2. /\ s # t /\ {s, t} \in Edge /\ Pairs /\ q # <<>>
        /\ conn[s][t] = "up" /\ conn[t][s] = "up" /\ known[s] = known[t] /\ BornAhead(t, s, u, ts)
        /\ ch[s] = NoChannel /\ Head(q) = l
        /\ \/ ch[t] = c /\ Tail(q) = <<>>
           \/ /\ ModesOnJoin # None /\ ch[t] = SetMode(c, OnJoin)
              /\ Tail(q) = <<BornMode(ts)>>
    <2>1. /\ s # t /\ {s, t} \in Edge /\ Pairs /\ q # <<>>
          /\ conn[s][t] = "up" /\ conn[t][s] = "up" /\ known[s] = known[t] /\ BornAhead(t, s, u, ts)
          /\ ReadsLine(s, t, u, ts)
      BY <1>1, BirthRead, ZenonT(40)
    <2>. QED
      BY <2>1 DEF ReadsLine
  <1>3. Home[u] \in Beyond(s, t) /\ chan[s][t] = <<>>
    BY <1>2 DEF BornAhead
  <1>4. /\ l.members = {u} /\ l \in Msg /\ <<l>> \in Seq(Msg) /\ c # NoChannel /\ c.members = {u}
        /\ ModesOnJoin # None => SetMode(c, OnJoin) # NoChannel /\ SetMode(c, OnJoin).members = {u}
    BY BornFields, BornModes, OutTypes
  <1>5. Home[u] \in known[s]
    <2>1. u \in ch[t].members
      BY <1>2, <1>4
    <2>. QED
      BY <1>2, <2>1, MemberTypes DEF IInv
  <1>6. Handle(s, t, c, <<l>>)
    <2>1. l.members \cap KnownUsers(s) = {u}
      BY <1>4, <1>5 DEF KnownUsers
    <2>2. Handle(s, t, Sjoin(NoChannel, l, {u}), <<SjoinOn(NoChannel, l, {u})>>)
      BY <1>2, <2>1 DEF RecvSJOIN
    <2>. QED
      BY <2>2, SjoinBorn
  <1>7. ch' = [ch EXCEPT ![s] = c] /\ known' = known /\ conn' = conn /\ Passes(s, t, <<l>>)
    BY <1>6 DEF Handle, Passes
  <1>8. Pairs'
    BY <1>2, RecvSJOINPairs
  <1>. HIDE DEF l, c
  <1>9. ch'[s] = c /\ \A x \in Server \ {s} : known'[x] = known[x] /\ ch'[x] = ch[x]
    BY <1>7 DEF IInv, ChannelInv
  <1>10. Elsewhere(s, t, <<l>>) /\ chan'[t][s] = Tail(q) /\ chan'[s][t] = <<>>
    BY <1>2, <1>3, <1>4, <1>7, <1>9, PassesElsewhere
  <1>11. Still(s, t)' \/ BornAhead(t, s, u, ts)'
    <2>1. ch'[t] = ch[t]
      BY <1>2, <1>9
    <2>2. CASE ch[t] = c /\ Tail(q) = <<>>
      BY <1>9, <1>10, <2>1, <2>2 DEF Still
    <2>3. CASE ModesOnJoin # None /\ ch[t] = SetMode(c, OnJoin) /\ Tail(q) = <<BornMode(ts)>>
      BY <1>3, <1>9, <1>10, <2>1, <2>3, AheadNext DEF c
    <2>. QED
      BY <1>2, <2>2, <2>3
  <1>12. ASSUME NEW x \in Server \ {s, t}, conn[s][x] # "none" PROVE BornAhead(s, x, u, ts)'
    <2>1. BirthLink(s, x, u, ts) /\ BirthLink(x, s, u, ts) /\ Pair(s, x)
      BY <1>2 DEF BirthPhase, Pairs
    <2>2. /\ conn[s][x] = "up" /\ conn[x][s] = "up" /\ {s, x} \in Edge
          /\ Still(s, x) \/ BornAhead(s, x, u, ts) \/ BornAhead(x, s, u, ts)
      BY <1>12, <2>1 DEF BirthLink, Pair, Ends
    <2>3. Beyond(s, t) \cap Beyond(s, x) = {} /\ Beyond(s, t) \subseteq Beyond(x, s)
      BY <1>2, <2>2, Branches
    <2>4. ~BornAhead(x, s, u, ts)
      BY <1>3, <2>3 DEF BornAhead
    <2>5. ~BornAhead(s, x, u, ts)
      BY <1>2, <1>4 DEF BornAhead, c
    <2>6. chan[s][x] = <<>> /\ chan[x][s] = <<>> /\ ch[x] = NoChannel
      BY <1>2, <2>2, <2>4, <2>5 DEF Still
    <2>7. <<>> \o <<l>> = <<l>> /\ "up" # "none"
      BY <1>4, ConcatEmptySeq
    <2>8. chan'[s][x] = <<l>> /\ chan'[x][s] = <<>> /\ ch'[x] = NoChannel
      <3>1. chan'[s][x] = IF x \in Up(s) /\ conn[x][s] # "none" THEN chan[s][x] \o <<l>>
                          ELSE chan[s][x]
        BY <1>10 DEF Elsewhere
      <3>2. chan'[x][s] = chan[x][s] /\ ch'[x] = ch[x]
        BY <1>10 DEF Elsewhere
      <3>. QED
        BY <2>2, <2>6, <2>7, <3>1, <3>2 DEF Up
    <2>. QED
      BY <1>3, <1>9, <2>3, <2>8, AheadNext DEF c, l
  <1>. QED
    BY <1>2, <1>7, <1>8, <1>10, <1>11, <1>12, BirthGlue DEF BirthPhase

\* MODE of set::modes-on-join
LEMMA RecvMODEBirth ==
    ASSUME IInv, IInv', NEW u \in User, NEW ts \in TS, BirthPhase(u, ts),
           NEW s \in Server, NEW t \in Server, RecvMODE(s, t)
    PROVE  BirthPhase(u, ts)'
  <1>. DEFINE b == BornMode(ts)
              l == BornLine(u, ts)
              c == Born(u, ts)
              d == SetMode(c, OnJoin)
              q == chan[t][s]
  <1>1. Receives(s, t, "MODE")
    BY DEF RecvMODE
  <1>2. /\ s # t /\ {s, t} \in Edge /\ Pairs /\ q # <<>>
        /\ conn[s][t] = "up" /\ conn[t][s] = "up" /\ known[s] = known[t] /\ BornAhead(t, s, u, ts)
        /\ ch[s] = c /\ Head(q) = b /\ Tail(q) = <<>> /\ ModesOnJoin # None /\ ch[t] = d
    <2>1. /\ s # t /\ {s, t} \in Edge /\ Pairs /\ q # <<>>
          /\ conn[s][t] = "up" /\ conn[t][s] = "up" /\ known[s] = known[t] /\ BornAhead(t, s, u, ts)
          /\ ReadsMode(s, t, u, ts)
      BY <1>1, BirthRead, ZenonT(40)
    <2>. QED
      BY <2>1 DEF ReadsMode
  <1>3. Home[u] \in Beyond(s, t) /\ chan[s][t] = <<>>
    BY <1>2 DEF BornAhead
  <1>4. /\ c.ts = ts /\ c \in Channel /\ Exists(c) /\ c # NoChannel /\ d # c /\ l \in Msg
        /\ b \in Msg /\ b.ts = ts /\ b.change = OnJoin /\ <<b>> \in Seq(Msg) /\ ts \in Int
    <2>1. c.ts = ts /\ WellFormed(c) /\ Exists(c) /\ c # NoChannel /\ ts \in Int /\ l \in Msg
      BY BornFields
    <2>2. d # c /\ b \in Msg /\ b.ts = ts /\ b.change = OnJoin
      BY <1>2, BornModes
    <2>. QED
      BY <2>1, <2>2, OutTypes DEF WellFormed
  <1>. HIDE DEF c, b, l
  <1>5. ModeTs(c, ts) = c
    <2>1. [c EXCEPT !.ts = c.ts] = c
      BY <1>4 DEF Channel
    <2>2. (IF ts < c.ts THEN ts ELSE c.ts) = c.ts
      BY <1>4
    <2>. QED
      BY <1>4, <2>1, <2>2 DEF ModeTs
  <1>6. Handle(s, t, d, <<b>>)
    <2>1. ~(~Exists(c) \/ ts > c.ts \/ d = c)
      BY <1>4
    <2>2. IF ~Exists(c) \/ ts > c.ts \/ d = c THEN Handle(s, t, c, <<>>)
          ELSE Handle(s, t, d, <<IF d = c THEN MODE(ts, Nothing) ELSE b>>)
      BY <1>2, <1>4, <1>5 DEF RecvMODE
    <2>. QED
      BY <1>4, <2>1, <2>2
  <1>7. ch' = [ch EXCEPT ![s] = d] /\ known' = known /\ conn' = conn /\ Passes(s, t, <<b>>)
    BY <1>6 DEF Handle, Passes
  <1>8. Pairs'
    BY <1>2, RecvMODEPairs
  <1>. HIDE DEF d
  <1>9. ch'[s] = d /\ \A x \in Server \ {s} : known'[x] = known[x] /\ ch'[x] = ch[x]
    BY <1>7 DEF IInv, ChannelInv
  <1>10. Elsewhere(s, t, <<b>>) /\ chan'[t][s] = <<>> /\ chan'[s][t] = <<>>
    BY <1>2, <1>3, <1>4, <1>7, <1>9, PassesElsewhere
  <1>11. Still(s, t)'
    BY <1>2, <1>9, <1>10 DEF Still
  <1>12. ASSUME NEW x \in Server \ {s, t}, conn[s][x] # "none" PROVE BornAhead(s, x, u, ts)'
    <2>1. BirthLink(s, x, u, ts) /\ BirthLink(x, s, u, ts) /\ Pair(s, x)
      BY <1>2 DEF BirthPhase, Pairs
    <2>2. /\ conn[s][x] = "up" /\ conn[x][s] = "up" /\ {s, x} \in Edge
          /\ Still(s, x) \/ BornAhead(s, x, u, ts) \/ BornAhead(x, s, u, ts)
      BY <1>12, <2>1 DEF BirthLink, Pair, Ends
    <2>3. Beyond(s, t) \cap Beyond(s, x) = {} /\ Beyond(s, t) \subseteq Beyond(x, s)
      BY <1>2, <2>2, Branches
    <2>4. ~BornAhead(x, s, u, ts)
      BY <1>3, <2>3 DEF BornAhead
    <2>5. \/ chan[s][x] = <<>> /\ chan[x][s] = <<>> /\ ch[x] = c
          \/ chan[s][x] = <<l>> /\ chan[x][s] = <<>> /\ ch[x] = NoChannel
      <3>1. CASE Still(s, x)
        BY <1>2, <3>1 DEF Still
      <3>2. CASE BornAhead(s, x, u, ts)
        BY <1>2, <1>4, <3>2 DEF BornAhead, c, d, l
      <3>. QED
        BY <2>2, <2>4, <3>1, <3>2
    <2>6. <<>> \o <<b>> = <<b>> /\ <<l>> \o <<b>> = <<l, b>> /\ "up" # "none"
      BY <1>4, ConcatEmptySeq, TwoInARow
    <2>7. chan'[s][x] = chan[s][x] \o <<b>> /\ chan'[x][s] = <<>> /\ ch'[x] = ch[x]
      <3>1. chan'[s][x] = IF x \in Up(s) /\ conn[x][s] # "none" THEN chan[s][x] \o <<b>>
                          ELSE chan[s][x]
        BY <1>10 DEF Elsewhere
      <3>2. chan'[x][s] = chan[x][s] /\ ch'[x] = ch[x]
        BY <1>10 DEF Elsewhere
      <3>. QED
        BY <2>2, <2>5, <2>6, <3>1, <3>2 DEF Up
    <2>8. Home[u] \in Beyond(x, s)
      BY <1>3, <2>3
    <2>9. CASE chan[s][x] = <<>> /\ ch[x] = c
      BY <1>2, <1>9, <2>6, <2>7, <2>8, <2>9, AheadNext DEF c, d, b
    <2>10. CASE chan[s][x] = <<l>> /\ ch[x] = NoChannel
      BY <1>2, <1>9, <2>6, <2>7, <2>8, <2>10, AheadNext DEF c, d, b, l
    <2>. QED
      BY <2>5, <2>9, <2>10
  <1>. QED
    BY <1>2, <1>7, <1>8, <1>10, <1>11, <1>12, BirthGlue DEF BirthPhase

-----------------------------------------------------------------------------
(* Steps while a change or a loss is spread *)

\* A link from one part of the network to another is the link between them.
LEMMA Crossing ==
    ASSUME NEW x \in Server, NEW y \in Server, {x, y} \in Edge, x # y,
           NEW v \in Server, NEW w \in Server, {v, w} \in Edge, v # w,
           y \in Beyond(v, w), x \notin Beyond(v, w)
    PROVE  x = v /\ y = w
  <1>1. {y, x} \in Edge /\ {w, v} \in Edge
    BY Sides
  <1>2. y \in Across(v, w) /\ x \in Across(w, v)
    <2>1. Beyond(v, w) = Across(v, w) /\ Across(w, v) = Server \ Across(v, w)
      BY BeyondAcross, TreeAssumption
    <2>. QED
      BY <2>1
  <1>3. /\ x \in Across(y, x) /\ y \in Across(x, y) /\ Across(x, y) = Server \ Across(y, x)
        /\ v \in Across(w, v) /\ w \in Across(v, w)
    BY <1>1, TreeAssumption
  <1>4. Hop[y][x] = x /\ Hop[x][y] = y /\ Hop[w][x] = v /\ Hop[v][y] = w
    BY <1>2, <1>3 DEF Across
  <1>5. ASSUME y # w, x # v PROVE FALSE
    <2>1. Hop[y][x] = Hop[y][w] /\ Hop[y][v] = Hop[y][w]
      <3>1. y \in Across(v, w) \ {w}
        BY <1>2, <1>5
      <3>2. \A a \in Across(v, w) \ {w}, b \in Across(w, v) : Hop[a][b] = Hop[a][w]
        BY TreeAssumption
      <3>. QED
        BY <1>2, <1>3, <3>1, <3>2
    <2>2. Hop[x][y] = Hop[x][v]
      <3>1. x \in Across(w, v) \ {v}
        BY <1>2, <1>5
      <3>2. \A a \in Across(w, v) \ {v}, b \in Across(v, w) : Hop[a][b] = Hop[a][v]
        BY <1>1, TreeAssumption
      <3>. QED
        BY <1>2, <3>1, <3>2
    <2>3. v # y
      BY <1>2 DEF Across
    <2>4. v \in Across(y, x)
      BY <1>4, <2>1, <2>3 DEF Across
    <2>5. v \in Across(x, y)
      BY <1>4, <1>5, <2>2 DEF Across
    <2>. QED
      BY <1>3, <2>4, <2>5
  <1>. QED
    BY <1>4, <1>5

\* Nothing is in flight between s and x, and they know the same if they are linked
Alike(s, x) ==
    /\ conn[s][x] # "out" /\ conn[s][x] = conn[x][s]
    /\ chan[s][x] = <<>> /\ chan[x][s] = <<>>
    /\ conn[s][x] = "up" => {s, x} \in Edge /\ ch[s] = ch[x] /\ known[s] = known[x]
    /\ Severed(s, x) /\ Severed(x, s)

\* s is next in the way of the change, which it is about to read from t
IsNext(s, t, type) ==
    /\ s # t /\ {s, t} \in Edge /\ chan[t][s] # <<>> /\ Tail(chan[t][s]) = <<>>
    /\ chan[s][t] = <<>> /\ conn[s][t] = "up"
    /\ Head(chan[t][s]) \in Msg /\ Head(chan[t][s]).type = type
    /\ \/ conn[t][s] = "none" /\ type = "EOF"
       \/ conn[t][s] = "up" /\ WaveAhead(t, s) /\ type \in {"SQUIT", "PART", "KICK", "MODE"}
    /\ \A x \in Server \ {s, t} : Alike(s, x)

\* Who reads something while a change is spread is next in its way.
LEMMA WaveRead ==
    ASSUME IInv, WavePhase, NEW s \in Server, NEW t \in Server, NEW type, Receives(s, t, type)
    PROVE  IsNext(s, t, type)
  <1>1. /\ s # t /\ Head(chan[t][s]) \in Msg /\ Head(chan[t][s]).type = type
        /\ chan[t][s] \in Seq(Msg) /\ chan[t][s] # <<>>
    BY ConsumeStreams DEF IInv, LinkInv, Streams, Receives
  <1>2. WaveLink(s, t) /\ WaveLink(t, s) /\ Hush(t, s)
    BY <1>1 DEF WavePhase
  <1>3. conn[s][t] \in ConnState /\ conn[t][s] \in ConnState /\ "up" # "none"
    BY DEF IInv, LinkInv
  <1>4. conn[s][t] = "up" /\ {s, t} \in Edge
    BY <1>1, <1>2, <1>3 DEF WaveLink, ConnState
  <1>5. \A x \in Server \ {s, t} : Alike(s, x)
    <2>1. SUFFICES ASSUME NEW x \in Server \ {s, t} PROVE Alike(s, x)
      OBVIOUS
    <2>2. WaveLink(s, x) /\ WaveLink(x, s) /\ conn[s][x] \in ConnState /\ conn[x][s] \in ConnState
      BY DEF WavePhase, IInv, LinkInv
    <2>3. conn[s][x] # "out" /\ conn[x][s] # "out" /\ Severed(s, x) /\ Severed(x, s)
      BY <2>2 DEF WaveLink
    <2>4. ASSUME {s, x} \in Edge PROVE chan[s][x] = <<>> /\ chan[x][s] = <<>>
      <3>1. s \in Beyond(t, s)
        BY <1>1, <1>4, Sides
      <3>2. x \in Beyond(t, s)
        <4>1. Beyond(s, x) \subseteq Beyond(t, s) /\ x \in Beyond(s, x)
          BY <1>1, <1>4, <2>4, Sides, Branches
        <4>. QED
          BY <4>1
      <3>. QED
        BY <1>1, <1>2, <3>1, <3>2 DEF Hush
    <2>5. CASE conn[s][x] = "none" /\ conn[x][s] = "none"
      <3>1. chan[s][x] = <<>> /\ chan[x][s] = <<>>
        BY <2>2, <2>5 DEF WaveLink
      <3>. QED
        BY <1>3, <2>3, <2>5, <3>1 DEF Alike
    <2>6. CASE conn[s][x] # "none" \/ conn[x][s] # "none"
      <3>1. {s, x} \in Edge
        <4>1. {s, x} \in Edge \/ {x, s} \in Edge
          BY <2>2, <2>6 DEF WaveLink
        <4>2. {x, s} = {s, x}
          OBVIOUS
        <4>. QED
          BY <4>1, <4>2
      <3>2. <<EOF>> # <<>> /\ Len(<<>>) # 1
        OBVIOUS
      <3>3. chan[s][x] = <<>> /\ chan[x][s] = <<>>
        BY <2>4, <3>1
      <3>4. conn[s][x] = "up" /\ conn[x][s] = "up"
        BY <2>2, <2>3, <2>6, <3>2, <3>3 DEF WaveLink, ConnState
      <3>5. ~WaveAhead(s, x) /\ ~WaveAhead(x, s)
        BY <3>2, <3>3 DEF WaveAhead
      <3>6. ch[s] = ch[x] /\ known[s] = known[x]
        BY <2>2, <3>4, <3>5 DEF WaveLink, Still
      <3>. QED
        BY <2>3, <3>1, <3>3, <3>4, <3>6 DEF Alike
    <2>. QED
      BY <2>5, <2>6
  <1>6. CASE conn[t][s] = "none"
    <2>. DEFINE e == EOF
    <2>1. e.type = "EOF"
      BY DEF EOF
    <2>2. chan[t][s] = <<e>> /\ chan[s][t] = <<>>
      BY <1>2, <1>4, <1>6 DEF WaveLink
    <2>. HIDE DEF e
    <2>3. Head(<<e>>) = e /\ Tail(<<e>>) = <<>>
      OBVIOUS
    <2>4. Tail(chan[t][s]) = <<>> /\ type = "EOF"
      BY <1>1, <2>1, <2>2, <2>3
    <2>. QED
      BY <1>1, <1>4, <1>6, <1>5, <2>2, <2>4 DEF IsNext
  <1>7. CASE conn[t][s] = "up"
    <2>1. WaveAhead(t, s)
      BY <1>1, <1>2, <1>4, <1>7 DEF WaveLink, Still, WaveAhead
    <2>2. Len(chan[t][s]) = 1 /\ chan[s][t] = <<>>
      BY <2>1 DEF WaveAhead
    <2>3. Tail(chan[t][s]) = <<>> /\ Head(chan[t][s]) = chan[t][s][1]
      <3>1. /\ Len(Tail(chan[t][s])) = Len(chan[t][s]) - 1 /\ chan[t][s][1] = Head(chan[t][s])
            /\ Tail(chan[t][s]) \in Seq(Msg)
        BY <1>1, StreamIndex, HeadTailProperties
      <3>2. Len(Tail(chan[t][s])) = 0
        BY <2>2, <3>1
      <3>. QED
        BY <3>1, <3>2, EmptySeq
    <2>4. type \in {"SQUIT", "PART", "KICK", "MODE"}
      BY <1>1, <2>1, <2>3 DEF WaveAhead
    <2>. QED
      BY <1>1, <1>4, <1>7, <1>5, <2>1, <2>2, <2>3, <2>4 DEF IsNext
  <1>. QED
    BY <1>2, <1>3, <1>6, <1>7 DEF WaveLink, ConnState

\* s makes the change that m tells of; a loss is one beyond t
Spreads(s, t, m) ==
    /\ m \in Msg /\ m.type \in {"SQUIT", "PART", "KICK", "MODE"}
    /\ m.type = "SQUIT" => s # t /\ m.id \in Beyond(s, t)
    /\ m.type = "MODE" => m.ts = 0
    /\ ch'[s] = Read(ch[s], m, s) /\ known'[s] = ReadKnown(known[s], m, s)

\* A message makes of the tables of x what it has made of the tables of s.
LEMMA SpreadRead ==
    ASSUME NEW s \in Server, NEW t \in Server, s # t => {s, t} \in Edge, NEW m, Spreads(s, t, m),
           NEW x \in Server \ {s, t}, {s, x} \in Edge
    PROVE  /\ m.type = "SQUIT" => m.id \in Beyond(x, s)
           /\ Read(ch[s], m, x) = Read(ch[s], m, s)
           /\ ReadKnown(known[s], m, x) = ReadKnown(known[s], m, s)
           /\ known'[s] \subseteq known[s]
  <1>1. known'[s] \subseteq known[s]
    BY DEF Spreads, ReadKnown
  <1>2. CASE m.type = "SQUIT"
    <2>1. s # t /\ {s, t} \in Edge /\ m.id \in Beyond(s, t)
      BY <1>2 DEF Spreads
    <2>2. Beyond(x, m.id) = Beyond(s, m.id)
      BY <2>1, Loss
    <2>3. Beyond(s, t) \subseteq Beyond(x, s)
      BY <2>1, Branches
    <2>. QED
      BY <1>1, <2>1, <2>2, <2>3 DEF Read, ReadKnown
  <1>3. CASE m.type # "SQUIT"
    BY <1>1, <1>3 DEF Read, ReadKnown
  <1>. QED
    BY <1>2, <1>3

\* The other neighbours of s are told of the change.
LEMMA SpreadLink ==
    ASSUME IInv, NEW s \in Server, NEW t \in Server, s # t => {s, t} \in Edge,
           NEW m, Spreads(s, t, m), Elsewhere(s, t, <<m>>),
           NEW x \in Server \ {s, t}, Alike(s, x)
    PROVE  WaveLink(s, x)' /\ WaveLink(x, s)'
  <1>0. "up" # "none" /\ "up" # "out" /\ conn[s][x] \in ConnState
    BY DEF IInv, LinkInv
  <1>1. /\ conn'[s][x] = conn[s][x] /\ conn'[x][s] = conn[s][x] /\ conn[x][s] = conn[s][x]
        /\ known'[x] = known[x] /\ ch'[x] = ch[x] /\ chan'[x][s] = <<>> /\ chan[s][x] = <<>>
        /\ chan'[s][x] = IF x \in Up(s) /\ conn[x][s] # "none" THEN chan[s][x] \o <<m>> ELSE chan[s][x]
    BY DEF Elsewhere, Alike
  <1>2. \A a, b : Beyond(a, b)' = Beyond(a, b)
    BY DEF Beyond
  <1>3. CASE conn[s][x] = "up"
    <2>1. {s, x} \in Edge /\ {x, s} \in Edge /\ ch[s] = ch[x] /\ known[s] = known[x] /\ x \in Up(s)
      BY <1>3, Sides DEF Alike, Up
    <2>2. chan'[s][x] = <<m>>
      <3>1. <<>> \o <<m>> = <<m>>
        BY OutTypes, ConcatEmptySeq DEF Spreads
      <3>. QED
        BY <1>0, <1>1, <1>3, <2>1, <3>1
    <2>3. /\ m.type = "SQUIT" => m.id \in Beyond(x, s)
          /\ ch'[s] = Read(ch[x], m, x) /\ known'[s] = ReadKnown(known[x], m, x)
      <3>1. /\ m.type = "SQUIT" => m.id \in Beyond(x, s)
            /\ Read(ch[s], m, x) = Read(ch[s], m, s)
            /\ ReadKnown(known[s], m, x) = ReadKnown(known[s], m, s)
        BY <2>1, SpreadRead
      <3>2. ch'[s] = Read(ch[s], m, s) /\ known'[s] = ReadKnown(known[s], m, s)
        BY DEF Spreads
      <3>. QED
        BY <2>1, <3>1, <3>2
    <2>4. WaveAhead(s, x)'
      <3>1. Len(<<m>>) = 1 /\ <<m>>[1] = m
        OBVIOUS
      <3>2. /\ Len(chan'[s][x]) = 1 /\ chan'[s][x][1] = m
        BY <2>2, <3>1
      <3>3. /\ m.type = "SQUIT" => m.id \in Beyond(x, s)'
            /\ (ch[s] = Read(ch[x], m, x))' /\ (known[s] = ReadKnown(known[x], m, x))'
        <4>1. ch'[s] = Read(ch'[x], m, x) /\ known'[s] = ReadKnown(known'[x], m, x)
          BY <1>1, <2>3
        <4>. QED
          BY <2>3, <4>1 DEF Beyond, Read, ReadKnown
      <3>4. m.type \in {"SQUIT", "PART", "KICK", "MODE"} /\ (m.type = "MODE" => m.ts = 0)
        BY DEF Spreads
      <3>. QED
        BY <1>1, <3>2, <3>3, <3>4 DEF WaveAhead
    <2>5. Severed(s, x)' /\ Severed(x, s)'
      BY <1>1, <1>3 DEF Severed
    <2>. QED
      BY <1>0, <1>1, <1>3, <2>1, <2>4, <2>5 DEF WaveLink
  <1>4. CASE conn[s][x] = "none"
    <2>1. chan'[s][x] = <<>>
      BY <1>0, <1>1, <1>4
    <2>2. ASSUME {s, x} \in Edge PROVE known'[s] \cap Beyond(s, x) = {} /\ known'[x] \cap Beyond(x, s) = {}
      <3>1. {x, s} \in Edge
        BY <2>2, Sides
      <3>2. known[s] \cap Beyond(s, x) = {} /\ known[x] \cap Beyond(x, s) = {}
        BY <1>0, <1>1, <1>4, <2>2, <3>1 DEF Alike, Severed
      <3>3. known'[s] \subseteq known[s]
        BY <2>2, SpreadRead
      <3>. QED
        BY <1>1, <3>2, <3>3
    <2>3. Severed(s, x)' /\ Severed(x, s)'
      <3>1. {x, s} \in Edge => {s, x} \in Edge
        BY Zenon
      <3>. QED
        BY <1>2, <2>2, <3>1 DEF Severed
    <2>. QED
      BY <1>0, <1>1, <1>4, <2>1, <2>3 DEF WaveLink
  <1>. QED
    BY <1>0, <1>3, <1>4 DEF ConnState, Alike

\* Nothing changes for them if nothing changes at s.
LEMMA RestLink ==
    ASSUME IInv, NEW s \in Server, NEW t \in Server, ch'[s] = ch[s], known'[s] = known[s],
           Elsewhere(s, t, <<>>), NEW x \in Server \ {s, t}, Alike(s, x)
    PROVE  WaveLink(s, x)' /\ WaveLink(x, s)'
  <1>0. "up" # "none" /\ "up" # "out" /\ "none" # "out" /\ conn[s][x] \in ConnState
    BY DEF IInv, LinkInv
  <1>1. /\ conn'[s][x] = conn[s][x] /\ conn'[x][s] = conn[s][x] /\ conn[x][s] = conn[s][x]
        /\ known'[x] = known[x] /\ ch'[x] = ch[x] /\ chan'[x][s] = <<>> /\ chan[s][x] = <<>>
        /\ chan'[s][x] = IF x \in Up(s) /\ conn[x][s] # "none" THEN chan[s][x] \o <<>> ELSE chan[s][x]
    BY DEF Elsewhere, Alike
  <1>2. <<>> \o <<>> = <<>>
    BY OutTypes, ConcatEmptySeq
  <1>3. chan'[s][x] = <<>>
    BY <1>1, <1>2
  <1>4. conn[s][x] = "up" => {s, x} \in Edge /\ {x, s} \in Edge /\ ch[s] = ch[x] /\ known[s] = known[x]
    BY Sides DEF Alike
  <1>5. Severed(s, x)' /\ Severed(x, s)'
    BY <1>1 DEF Alike, Severed, Beyond
  <1>6. (Still(s, x) /\ Still(x, s))' \/ conn[s][x] # "up"
    BY <1>1, <1>3, <1>4 DEF Still
  <1>7. conn[s][x] = "up" \/ conn[s][x] = "none"
    BY <1>0 DEF ConnState, Alike
  <1>. QED
    BY <1>0, <1>1, <1>3, <1>4, <1>5, <1>6, <1>7 DEF WaveLink

\* What s makes of it and sends on: a change, or nothing
Changes(s, t, ms) ==
    \/ \E m : ms = <<m>> /\ Spreads(s, t, m)
    \/ ms = <<>> /\ ch'[s] = ch[s] /\ known'[s] = known[s]

\* Nothing changes for two servers of which one is ahead.
LEMMA IdleAhead ==
    ASSUME NEW a \in Server, NEW b \in Server, WaveAhead(a, b),
           chan'[a][b] = chan[a][b], chan'[b][a] = chan[b][a],
           known'[a] = known[a], known'[b] = known[b], ch'[a] = ch[a], ch'[b] = ch[b]
    PROVE  WaveAhead(a, b)'
  <1>1. PICK m : m = chan[a][b][1]
    OBVIOUS
  <1>2. /\ Len(chan[a][b]) = 1 /\ chan[b][a] = <<>>
        /\ m.type \in {"SQUIT", "PART", "KICK", "MODE"}
        /\ m.type = "SQUIT" => m.id \in Beyond(b, a)
        /\ m.type = "MODE" => m.ts = 0
        /\ ch[a] = Read(ch[b], m, b) /\ known[a] = ReadKnown(known[b], m, b)
    BY <1>1 DEF WaveAhead
  <1>3. ch'[a] = Read(ch'[b], m, b) /\ known'[a] = ReadKnown(known'[b], m, b) /\ chan'[a][b][1] = m
    BY <1>1, <1>2
  <1>4. /\ m.type = "SQUIT" => m.id \in Beyond(b, a)'
        /\ (ch[a] = Read(ch[b], m, b))' /\ (known[a] = ReadKnown(known[b], m, b))'
    BY <1>2, <1>3 DEF Beyond, Read, ReadKnown
  <1>. QED
    BY <1>2, <1>3, <1>4 DEF WaveAhead

\* Nothing changes for two servers.
LEMMA IdleLink ==
    ASSUME NEW a \in Server, NEW b \in Server, WaveLink(a, b),
           conn'[a][b] = conn[a][b], conn'[b][a] = conn[b][a],
           chan'[a][b] = chan[a][b], chan'[b][a] = chan[b][a],
           known'[a] = known[a], known'[b] = known[b], ch'[a] = ch[a], ch'[b] = ch[b]
    PROVE  WaveLink(a, b)'
  <1>1. Severed(a, b)'
    BY DEF WaveLink, Severed, Beyond
  <1>2. (WaveAhead(a, b) => WaveAhead(a, b)') /\ (WaveAhead(b, a) => WaveAhead(b, a)')
    BY IdleAhead
  <1>3. Still(a, b) => Still(a, b)'
    BY DEF Still
  <1>. QED
    BY <1>1, <1>2, <1>3 DEF WaveLink

\* A step of s: what is left to show is the link with t, and where nothing is in flight.
LEMMA WaveGlue ==
    ASSUME IInv, NEW s \in Server, NEW t \in Server, s # t => {s, t} \in Edge,
           NEW ms, Changes(s, t, ms), Elsewhere(s, t, ms),
           \A a, b \in Server \ {s} : a # b => WaveLink(a, b),
           \A x \in Server \ {s, t} : Alike(s, x),
           s # t => WaveLink(s, t)' /\ WaveLink(t, s)',
           \A a, b \in Server : a # b => Hush(a, b)'
    PROVE  WavePhase'
  <1>1. ASSUME NEW x \in Server \ {s, t} PROVE WaveLink(s, x)' /\ WaveLink(x, s)'
    <2>1. Alike(s, x)
      BY <1>1
    <2>2. ASSUME NEW m, ms = <<m>>, Spreads(s, t, m) PROVE WaveLink(s, x)' /\ WaveLink(x, s)'
      BY <2>1, <2>2, SpreadLink
    <2>3. ASSUME ms = <<>>, ch'[s] = ch[s], known'[s] = known[s] PROVE WaveLink(s, x)' /\ WaveLink(x, s)'
      BY <2>1, <2>3, RestLink
    <2>. QED
      BY <2>2, <2>3, Zenon DEF Changes
  <1>2. ASSUME NEW a \in Server \ {s}, NEW b \in Server \ {s}, a # b PROVE WaveLink(a, b)'
    BY <1>2, IdleLink DEF Elsewhere
  <1>3. ASSUME NEW a \in Server, NEW b \in Server, a # b PROVE WaveLink(a, b)'
    <2>1. CASE a # s /\ b # s
      BY <1>2, <1>3, <2>1
    <2>2. CASE a = s
      BY <1>1, <1>3, <2>2
    <2>3. CASE b = s
      BY <1>1, <1>3, <2>3
    <2>. QED
      BY <2>1, <2>2, <2>3
  <1>. QED
    BY <1>3 DEF WavePhase

\* s begins to spread a change.
LEMMA HushSettled ==
    ASSUME IInv', NEW s \in Server, NEW t \in Server, NEW ms, Quiet, Elsewhere(s, t, ms),
           chan'[t][s] = <<>>,
           \A x \in Server \ {s} : chan'[s][x] # <<>> => {s, x} \in Edge
    PROVE  \A a, b \in Server : a # b => Hush(a, b)'
  <1>1. ASSUME NEW v \in Server \ {s}, NEW w \in Server PROVE chan'[v][w] = <<>>
    <2>1. CASE w # s
      BY <2>1 DEF Elsewhere, Quiet
    <2>2. CASE w = s /\ v # t
      BY <2>2 DEF Elsewhere, Quiet
    <2>3. CASE w = s /\ v = t
      BY <2>3
    <2>. QED
      BY <2>1, <2>2, <2>3
  <1>2. ASSUME NEW a \in Server, NEW b \in Server, a # b, chan'[a][b] # <<>>,
               NEW v \in Beyond(a, b), NEW w \in Beyond(a, b)
        PROVE  chan'[v][w] = <<>>
    <2>1. a = s /\ {s, b} \in Edge
      BY <1>1, <1>2
    <2>2. v # s /\ v \in Server /\ w \in Server
      BY <1>2, <2>1, Sides
    <2>. QED
      BY <1>1, <2>2
  <1>. QED
    BY <1>2 DEF Hush, Beyond

\* s passes a change on.
LEMMA HushWave ==
    ASSUME IInv, WavePhase, NEW s \in Server, NEW t \in Server, s # t, {s, t} \in Edge, NEW ms,
           chan[t][s] # <<>>, Elsewhere(s, t, ms), chan'[t][s] = <<>>, chan'[s][t] = <<>>,
           \A x \in Server \ {s, t} : chan'[s][x] # <<>> => {s, x} \in Edge
    PROVE  \A a, b \in Server : a # b => Hush(a, b)'
  <1>1. ASSUME NEW v \in Server \ {s}, NEW w \in Server, chan'[v][w] # <<>>
        PROVE  chan[v][w] # <<>>
    <2>1. CASE w # s
      BY <1>1, <2>1 DEF Elsewhere
    <2>2. CASE w = s /\ v # t
      BY <1>1, <2>2 DEF Elsewhere
    <2>3. CASE w = s /\ v = t
      BY <1>1, <2>3
    <2>. QED
      BY <2>1, <2>2, <2>3
  <1>2. ASSUME NEW a \in Server, NEW b \in Server, a # b, chan'[a][b] # <<>>,
               NEW v \in Beyond(a, b), NEW w \in Beyond(a, b), chan'[v][w] # <<>>
        PROVE  FALSE
    <2>0. v \in Server /\ w \in Server
      BY DEF Beyond
    <2>1. CASE a = s
      <3>1. b # t /\ {s, b} \in Edge
        BY <1>2, <2>1
      <3>2. v # s /\ Beyond(s, b) \subseteq Beyond(t, s)
        BY <1>2, <2>1, <3>1, Sides, Branches
      <3>3. chan[v][w] # <<>> /\ Hush(t, s)
        BY <1>1, <1>2, <2>0, <3>2 DEF WavePhase
      <3>. QED
        BY <2>1, <3>2, <3>3 DEF Hush
    <2>2. CASE a # s /\ v # s
      <3>1. chan[v][w] # <<>> /\ chan[a][b] # <<>> /\ Hush(a, b)
        BY <1>1, <1>2, <2>0, <2>2 DEF WavePhase
      <3>. QED
        BY <3>1 DEF Hush
    <2>3. CASE a # s /\ v = s
      <3>1. chan[a][b] # <<>> /\ Hush(a, b) /\ WaveLink(a, b) /\ WaveLink(b, a)
        BY <1>1, <1>2, <2>3 DEF WavePhase
      <3>2. t \notin Beyond(a, b)
        BY <2>3, <3>1 DEF Hush
      <3>3. {a, b} \in Edge
        <4>1. {b, a} \in Edge
          BY <3>1 DEF WaveLink
        <4>2. {b, a} = {a, b}
          OBVIOUS
        <4>. QED
          BY <4>1, <4>2
      <3>4. {t, s} \in Edge
        BY Sides
      <3>5. t = a /\ s = b
        BY <1>2, <2>3, <3>2, <3>3, <3>4, Crossing
      <3>. QED
        BY <1>2, <3>5
    <2>. QED
      BY <2>1, <2>2, <2>3
  <1>. QED
    BY <1>2 DEF Hush, Beyond

\* What has settled is a wave that has come to its end.
LEMMA SettledAlike ==
    ASSUME IInv, Settled, NEW s \in Server, NEW x \in Server, s # x
    PROVE  Alike(s, x) /\ WaveLink(s, x)
  <1>1. /\ conn[s][x] # "out" /\ conn[s][x] = conn[x][s] /\ Severed(s, x) /\ Severed(x, s)
        /\ conn[s][x] = "up" => {s, x} \in Edge /\ ch[s] = ch[x] /\ known[s] = known[x]
    BY DEF Settled
  <1>2. chan[s][x] = <<>> /\ chan[x][s] = <<>>
    BY DEF Settled, Quiet
  <1>3. "up" # "none" /\ conn[s][x] \in ConnState
    BY DEF IInv, LinkInv
  <1>. QED
    BY <1>1, <1>2, <1>3 DEF Alike, WaveLink, Still, ConnState

\* Only linked neighbours are sent something.
LEMMA SentAlong ==
    ASSUME IInv, NEW s \in Server, NEW t \in Server, NEW ms, Elsewhere(s, t, ms),
           NEW x \in Server \ {s, t}, Alike(s, x), chan'[s][x] # <<>>
    PROVE  {s, x} \in Edge
  BY DEF Elsewhere, Alike, Up

\* A local user changes the channel, and every neighbour is told.
LEMMA UpdateWave ==
    ASSUME IInv, IInv', Settled, NEW s \in Server, NEW m \in Msg, m.type \in {"PART", "KICK", "MODE"},
           m.type = "MODE" => m.ts = 0,
           Update(s, Read(ch[s], m, s), <<m>>), conn' = conn, known' = known
    PROVE  WavePhase'
  <1>1. Elsewhere(s, s, <<m>>) /\ ch'[s] = Read(ch[s], m, s)
    BY OutTypes, UpdateElsewhere
  <1>2. Spreads(s, s, m)
    BY <1>1 DEF Spreads, ReadKnown
  <1>3. Changes(s, s, <<m>>)
    BY <1>2, Zenon DEF Changes
  <1>4. (\A a, b \in Server \ {s} : a # b => WaveLink(a, b)) /\ \A x \in Server \ {s} : Alike(s, x)
    BY SettledAlike
  <1>5. \A x \in Server \ {s} : chan'[s][x] # <<>> => {s, x} \in Edge
    BY <1>1, <1>4, SentAlong
  <1>6. Quiet /\ chan'[s][s] = <<>>
    BY DEF Settled, IInv, LinkInv, Streams
  <1>7. \A a, b \in Server : a # b => Hush(a, b)'
    BY <1>1, <1>5, <1>6, HushSettled
  <1>. QED
    BY <1>1, <1>3, <1>4, <1>7, WaveGlue

\* PART
LEMMA PartWave ==
    ASSUME IInv, IInv', Settled, NEW u \in User, Part(u)
    PROVE  WavePhase'
  <1>. DEFINE s == Home[u]
              m == PART(u)
  <1>1. s \in Server /\ conn' = conn /\ known' = known /\ u \in ch[s].members
        /\ Update(s, Leave(ch[s], {u}), <<m>>)
    BY ConstantsAssumption DEF Part, Acts
  <1>2. m \in Msg /\ m.type = "PART" /\ m.user = u
    BY MessageTypes DEF PART
  <1>. HIDE DEF s, m
  <1>3. Read(ch[s], m, s) = Leave(ch[s], {u})
    BY <1>1, <1>2 DEF Read
  <1>. QED
    BY <1>1, <1>2, <1>3, UpdateWave

\* KICK
LEMMA KickWave ==
    ASSUME IInv, IInv', Settled, NEW u \in User, NEW v \in User, Kick(u, v)
    PROVE  WavePhase'
  <1>. DEFINE s == Home[u]
              m == KICK(v)
  <1>1. s \in Server /\ conn' = conn /\ known' = known /\ v \in ch[s].members
        /\ Update(s, Leave(ch[s], {v}), <<m>>)
    BY ConstantsAssumption DEF Kick, Acts
  <1>2. m \in Msg /\ m.type = "KICK" /\ m.user = v
    BY MessageTypes DEF KICK
  <1>. HIDE DEF s, m
  <1>3. Read(ch[s], m, s) = Leave(ch[s], {v})
    BY <1>1, <1>2 DEF Read
  <1>. QED
    BY <1>1, <1>2, <1>3, UpdateWave

\* MODE
LEMMA ChangeModeWave ==
    ASSUME IInv, IInv', Settled, NEW u \in User, NEW d \in Change, ChangeMode(u, d)
    PROVE  WavePhase'
  <1>. DEFINE s == Home[u]
              m == MODE(0, d)
  <1>1. s \in Server /\ conn' = conn /\ known' = known /\ u \in ch[s].ops
        /\ Update(s, SetMode(ch[s], d), <<m>>)
    BY ConstantsAssumption DEF ChangeMode, Acts
  <1>2. m \in Msg /\ m.type = "MODE" /\ m.ts = 0 /\ m.change = d
    BY MessageTypes DEF MODE
  <1>. HIDE DEF s, m
  <1>3. Exists(ch[s])
    BY <1>1, MemberTypes DEF IInv, WellFormed, Exists
  <1>4. Read(ch[s], m, s) = SetMode(ch[s], d)
    BY <1>2, <1>3 DEF Read
  <1>. QED
    BY <1>1, <1>2, <1>4, UpdateWave

\* A link goes down at s: what s forgets, what it tells its other neighbours, and
\* what is left in flight between s and t.
LEMMA CloseStreams ==
    ASSUME IInv, NEW s \in Server, NEW t \in Server, s # t, {s, t} \in Edge, conn[s][t] = "up",
           CloseLink(s, t)
    PROVE  /\ conn'[s][t] = "none" /\ conn'[t][s] = conn[t][s]
           /\ Spreads(s, t, SQUIT(t)) /\ Elsewhere(s, t, <<SQUIT(t)>>)
           /\ known'[s] \cap Beyond(s, t) = {}
           /\ chan'[t][s] = <<>>
           /\ conn[t][s] = "none" => chan'[s][t] = <<>>
           /\ conn[t][s] # "none" /\ chan[s][t] = <<>> => chan'[s][t] = <<EOF>>
  <1>. DEFINE gone == Beyond(s, t)
              on == SQUIT(t)
              out == ToOthers(s, t, on)
              D == Deliver(chan, s, out)
              lost == {u \in User : Home[u] \in gone}
  <1>1. /\ conn' = [conn EXCEPT ![s][t] = "none"]
        /\ known' = [known EXCEPT ![s] = @ \ gone]
        /\ ch' = [ch EXCEPT ![s] = Leave(@, lost)]
        /\ chan' = [D EXCEPT ![t][s] = <<>>,
                             ![s][t] = IF conn[t][s] # "none" THEN Append(@, EOF) ELSE <<>>]
    BY DEF CloseLink, Forget
  <1>2. t \in Beyond(s, t) /\ chan \in Streams
    BY Sides DEF IInv, LinkInv
  <1>3. on \in Msg /\ on.type = "SQUIT" /\ on.id = t
    BY MessageTypes DEF SQUIT
  <1>. HIDE DEF on
  <1>4. /\ out \in Out /\ out[t] = <<>>
        /\ \A x \in Server \ {s, t} : out[x] = IF x \in Up(s) THEN <<on>> ELSE <<>>
    <2>1. ToOthers(s, t, on) \in Out
      BY <1>3, OutTypes
    <2>. QED
      BY <2>1 DEF ToOthers
  <1>. HIDE DEF out
  <1>5. /\ \A a \in Server \ {s}, b \in Server : D[a][b] = chan[a][b]
        /\ \A x \in Server : conn[x][s] = "none" => D[s][x] = chan[s][x]
        /\ \A x \in Server : conn[x][s] # "none" => D[s][x] = chan[s][x] \o out[x]
        /\ \A x \in Server : chan[s][x] \o <<>> = chan[s][x]
    BY <1>2, <1>4, DeliverTo
  <1>6. D \in Streams
    BY <1>2, <1>4, DeliverStreams DEF IInv
  <1>. HIDE DEF D
  <1>7. /\ conn'[s][t] = "none" /\ conn'[t][s] = conn[t][s]
        /\ \A a, b \in Server : <<a, b>> \notin {<<s, t>>, <<t, s>>} => conn'[a][b] = conn[a][b]
    <2>1. conn'[s][t] = "none" /\ conn'[t][s] = conn[t][s]
      BY <1>1 DEF IInv, LinkInv
    <2>2. \A a, b \in Server : <<a, b>> \notin {<<s, t>>, <<t, s>>} => conn'[a][b] = conn[a][b]
      BY <1>1 DEF IInv, LinkInv
    <2>. QED
      BY <2>1, <2>2
  <1>8. known'[s] = known[s] \ gone /\ ch'[s] = Leave(ch[s], lost)
        /\ \A x \in Server \ {s} : known'[x] = known[x] /\ ch'[x] = ch[x]
    BY <1>1 DEF IInv, ChannelInv
  <1>9. Spreads(s, t, on)
    BY <1>2, <1>3, <1>8 DEF Spreads, Read, ReadKnown
  <1>10. /\ chan'[t][s] = <<>>
         /\ conn[t][s] = "none" => chan'[s][t] = <<>>
         /\ conn[t][s] # "none" /\ chan[s][t] = <<>> => chan'[s][t] = <<EOF>>
    <2>. DEFINE q == chan[s][t]
                e == IF conn[t][s] # "none" THEN Append(q, EOF) ELSE <<>>
    <2>1. D \in [Server -> [Server -> Seq(Msg)]]
      BY <1>6 DEF Streams
    <2>2. D[s][t] = q
      BY <1>4, <1>5
    <2>3. chan' = [D EXCEPT ![t][s] = <<>>, ![s][t] = e]
      BY <1>1, <2>1, <2>2
    <2>4. (conn[t][s] # "none" /\ q = <<>> => e = <<EOF>>) /\ (conn[t][s] = "none" => e = <<>>)
      <3>1. Append(<<>>, EOF) = <<>> \o <<EOF>> /\ <<>> \o <<EOF>> = <<EOF>>
        BY MessageTypes, OutTypes, AppendIsConcat, ConcatEmptySeq
      <3>. QED
        BY <3>1
    <2>. HIDE DEF e, q
    <2>5. chan'[s][t] = e /\ chan'[t][s] = <<>>
      BY <2>1, <2>3
    <2>. QED
      BY <2>4, <2>5 DEF q
  <1>11. \A a, b \in Server : <<a, b>> \notin {<<s, t>>, <<t, s>>} => chan'[a][b] = D[a][b]
    BY <1>1, <1>6 DEF Streams
  <1>12. Elsewhere(s, t, <<on>>)
    <2>1. \A a, b \in Server \ {s} : chan'[a][b] = chan[a][b]
      BY <1>5, <1>11
    <2>2. ASSUME NEW x \in Server \ {s, t}
          PROVE  /\ chan'[x][s] = chan[x][s]
                 /\ chan'[s][x] = IF x \in Up(s) /\ conn[x][s] # "none" THEN chan[s][x] \o <<on>>
                                  ELSE chan[s][x]
      <3>1. chan'[s][x] = D[s][x] /\ chan'[x][s] = D[x][s] /\ D[x][s] = chan[x][s]
        BY <1>5, <1>11
      <3>2. out[x] = IF x \in Up(s) THEN <<on>> ELSE <<>>
        BY <1>4
      <3>3. /\ conn[x][s] = "none" => D[s][x] = chan[s][x]
            /\ conn[x][s] # "none" => D[s][x] = chan[s][x] \o out[x]
            /\ chan[s][x] \o <<>> = chan[s][x]
        BY <1>5
      <3>. QED
        BY <3>1, <3>2, <3>3
    <2>. QED
      BY <1>7, <1>8, <2>1, <2>2 DEF Elsewhere
  <1>13. known'[s] \cap Beyond(s, t) = {}
    BY <1>8
  <1>. QED
    BY <1>7, <1>9, <1>10, <1>12, <1>13 DEF on

\* A link fails.
LEMMA LoseLinkWave ==
    ASSUME IInv, IInv', Settled, NEW s \in Server, NEW t \in Server, LoseLink(s, t)
    PROVE  WavePhase'
  <1>. DEFINE m == SQUIT(t)
  <1>0. "up" # "none" /\ "up" # "out" /\ "none" # "out" /\ conn[s][t] \in ConnState
    BY DEF IInv, LinkInv
  <1>1. s # t /\ conn[s][t] # "none" /\ CloseLink(s, t)
    BY DEF LoseLink, IInv, LinkInv
  <1>2. /\ conn[s][t] = "up" /\ conn[t][s] = "up" /\ {s, t} \in Edge /\ {t, s} \in Edge
        /\ chan[s][t] = <<>>
    <2>1. conn[s][t] # "out" /\ conn[s][t] = conn[t][s] /\ (conn[s][t] = "up" => {s, t} \in Edge)
          /\ chan[s][t] = <<>>
      BY <1>1 DEF Settled, Quiet
    <2>2. conn[s][t] = "up"
      BY <1>0, <1>1, <2>1 DEF ConnState
    <2>. QED
      BY <1>1, <2>1, <2>2, Sides
  <1>3. /\ conn'[s][t] = "none" /\ conn'[t][s] = "up"
        /\ Spreads(s, t, m) /\ Elsewhere(s, t, <<m>>)
        /\ known'[s] \cap Beyond(s, t) = {}
        /\ chan'[t][s] = <<>> /\ chan'[s][t] = <<EOF>>
    BY <1>0, <1>1, <1>2, CloseStreams
  <1>. HIDE DEF m
  <1>4. Changes(s, t, <<m>>)
    BY <1>3, Zenon DEF Changes
  <1>5. (\A a, b \in Server \ {s} : a # b => WaveLink(a, b)) /\ \A x \in Server \ {s} : Alike(s, x)
    BY SettledAlike
  <1>6. \A x \in Server \ {s} : chan'[s][x] # <<>> => {s, x} \in Edge
    BY <1>2, <1>3, <1>5, SentAlong
  <1>7. Quiet
    BY DEF Settled
  <1>8. \A a, b \in Server : a # b => Hush(a, b)'
    BY <1>3, <1>6, <1>7, HushSettled
  <1>9. Severed(s, t)' /\ Severed(t, s)'
    BY <1>3 DEF Severed, Beyond
  <1>10. WaveLink(s, t)' /\ WaveLink(t, s)'
    BY <1>0, <1>2, <1>3, <1>9 DEF WaveLink
  <1>. QED
    BY <1>2, <1>3, <1>4, <1>5, <1>8, <1>10, WaveGlue

\* What is read is what the sender is ahead by.
LEMMA WaveHead ==
    ASSUME IInv, WavePhase, NEW s \in Server, NEW t \in Server, NEW type, Receives(s, t, type),
           type # "EOF", NEW m, m = Head(chan[t][s])
    PROVE  /\ conn[s][t] = "up" /\ conn[t][s] = "up" /\ type \in {"SQUIT", "PART", "KICK", "MODE"}
           /\ m \in Msg /\ m.type = type
           /\ m.type = "SQUIT" => m.id \in Beyond(s, t) /\ m.id # s
           /\ m.type = "MODE" => m.ts = 0
           /\ ch[t] = Read(ch[s], m, s) /\ known[t] = ReadKnown(known[s], m, s)
  <1>1. /\ s # t /\ {s, t} \in Edge /\ chan[t][s] # <<>> /\ conn[s][t] = "up" /\ conn[t][s] = "up"
        /\ m \in Msg /\ m.type = type
        /\ WaveAhead(t, s) /\ type \in {"SQUIT", "PART", "KICK", "MODE"}
    <2>1. IsNext(s, t, type)
      BY WaveRead
    <2>. QED
      BY <2>1 DEF IsNext
  <1>2. m = chan[t][s][1]
    BY <1>1, HeadTailProperties DEF IInv, LinkInv, Streams
  <1>3. /\ m.type = "SQUIT" => m.id \in Beyond(s, t)
        /\ m.type = "MODE" => m.ts = 0
        /\ ch[t] = Read(ch[s], m, s) /\ known[t] = ReadKnown(known[s], m, s)
    BY <1>1, <1>2 DEF WaveAhead
  <1>. QED
    BY <1>1, <1>3, Sides

\* s reads of a change, makes it, and passes it on.
LEMMA RelayWave ==
    ASSUME IInv, IInv', WavePhase, NEW s \in Server, NEW t \in Server, NEW type,
           Receives(s, t, type), type # "EOF", NEW m, m = Head(chan[t][s]),
           NEW ms \in Seq(Msg), Passes(s, t, ms), conn' = conn,
           \A x \in Server \ {s} : known'[x] = known[x] /\ ch'[x] = ch[x],
           ch'[s] = Read(ch[s], m, s), known'[s] = ReadKnown(known[s], m, s), Changes(s, t, ms)
    PROVE  WavePhase'
  <1>0. "up" # "none" /\ "up" # "out"
    OBVIOUS
  <1>1. /\ s # t /\ {s, t} \in Edge /\ chan[t][s] # <<>> /\ Tail(chan[t][s]) = <<>>
        /\ chan[s][t] = <<>> /\ \A x \in Server \ {s, t} : Alike(s, x)
    <2>1. IsNext(s, t, type)
      BY WaveRead
    <2>. QED
      BY <2>1 DEF IsNext
  <1>2. /\ conn[s][t] = "up" /\ conn[t][s] = "up"
        /\ ch[t] = Read(ch[s], m, s) /\ known[t] = ReadKnown(known[s], m, s)
    BY WaveHead
  <1>3. chan'[t][s] = <<>> /\ chan'[s][t] = <<>>
    BY <1>1, PassesStreams
  <1>4. Elsewhere(s, t, ms)
    BY <1>1, PassesStreams DEF Elsewhere
  <1>5. \A x \in Server \ {s, t} : chan'[s][x] # <<>> => {s, x} \in Edge
    BY <1>1, <1>4, SentAlong
  <1>6. \A a, b \in Server : a # b => Hush(a, b)'
    BY <1>1, <1>3, <1>4, <1>5, HushWave
  <1>7. ch'[s] = ch'[t] /\ known'[s] = known'[t]
    BY <1>1, <1>2
  <1>8. Still(s, t)' /\ Still(t, s)' /\ Severed(s, t)' /\ Severed(t, s)' /\ {t, s} \in Edge
    BY <1>1, <1>2, <1>3, <1>7, Sides DEF Still, Severed
  <1>9. WaveLink(s, t)' /\ WaveLink(t, s)'
    BY <1>0, <1>1, <1>2, <1>7, <1>8 DEF WaveLink
  <1>10. \A a, b \in Server \ {s} : a # b => WaveLink(a, b)
    BY DEF WavePhase
  <1>. QED
    BY <1>1, <1>4, <1>6, <1>9, <1>10, WaveGlue

\* SQUIT
LEMMA RecvSQUITWave ==
    ASSUME IInv, IInv', WavePhase, NEW s \in Server, NEW t \in Server, RecvSQUIT(s, t)
    PROVE  WavePhase'
  <1>. DEFINE m == Head(chan[t][s])
              on == SQUIT(m.id)
              gone == Beyond(s, m.id)
  <1>1. Receives(s, t, "SQUIT") /\ "SQUIT" # "EOF"
    BY DEF RecvSQUIT
  <1>2. m \in Msg /\ m.type = "SQUIT" /\ m.id \in Beyond(s, t) /\ m.id # s /\ s # t
    <2>1. s # t
      BY <1>1, ConsumeStreams DEF IInv
    <2>2. m \in Msg /\ m.type = "SQUIT" /\ (m.type = "SQUIT" => m.id \in Beyond(s, t) /\ m.id # s)
      BY <1>1, WaveHead
    <2>. QED
      BY <2>1, <2>2
  <1>3. Forget(s, gone) /\ conn' = conn /\ Passes(s, t, <<on>>)
    BY <1>2 DEF RecvSQUIT, ToOthers, Passes
  <1>. HIDE DEF m
  <1>4. on \in Msg /\ on.type = "SQUIT" /\ on.id = m.id
    BY <1>2, MessageFields, MessageTypes DEF SQUIT
  <1>5. /\ known'[s] = known[s] \ gone
        /\ ch'[s] = Leave(ch[s], {u \in User : Home[u] \in gone})
        /\ \A x \in Server \ {s} : known'[x] = known[x] /\ ch'[x] = ch[x]
    BY <1>3 DEF Forget, IInv, ChannelInv
  <1>. HIDE DEF on
  <1>6. ch'[s] = Read(ch[s], m, s) /\ known'[s] = ReadKnown(known[s], m, s)
    BY <1>2, <1>5 DEF Read, ReadKnown
  <1>7. ch'[s] = Read(ch[s], on, s) /\ known'[s] = ReadKnown(known[s], on, s)
    BY <1>4, <1>5 DEF Read, ReadKnown
  <1>8. Spreads(s, t, on)
    BY <1>2, <1>4, <1>7 DEF Spreads
  <1>9. Changes(s, t, <<on>>)
    BY <1>8, Zenon DEF Changes
  <1>10. <<on>> \in Seq(Msg)
    BY <1>4, OutTypes
  <1>. QED
    BY <1>1, <1>3, <1>5, <1>6, <1>9, <1>10, RelayWave DEF m

\* A message about the channel changes it, and is passed on, or it changes nothing.
LEMMA HandleWave ==
    ASSUME IInv, IInv', WavePhase, NEW s \in Server, NEW t \in Server, NEW type,
           Receives(s, t, type), type \in {"PART", "KICK", "MODE"}, NEW m, m = Head(chan[t][s]),
           NEW ms \in Seq(Msg), Handle(s, t, Read(ch[s], m, s), ms),
           ms = <<m>> \/ (ms = <<>> /\ Read(ch[s], m, s) = ch[s])
    PROVE  WavePhase'
  <1>1. conn' = conn /\ known' = known /\ Passes(s, t, ms) /\ ch' = [ch EXCEPT ![s] = Read(ch[s], m, s)]
    BY DEF Handle, Passes
  <1>2. ch'[s] = Read(ch[s], m, s) /\ \A x \in Server \ {s} : known'[x] = known[x] /\ ch'[x] = ch[x]
    BY <1>1 DEF IInv, ChannelInv
  <1>3. type # "EOF" /\ type # "SQUIT"
    OBVIOUS
  <1>4. m \in Msg /\ m.type = type /\ (m.type = "MODE" => m.ts = 0)
    BY <1>3, WaveHead
  <1>5. known'[s] = ReadKnown(known[s], m, s)
    BY <1>1, <1>3, <1>4 DEF ReadKnown
  <1>6. Spreads(s, t, m)
    BY <1>2, <1>3, <1>4, <1>5 DEF Spreads
  <1>7. Changes(s, t, ms)
    BY <1>1, <1>2, <1>6, Zenon DEF Changes
  <1>. QED
    BY <1>1, <1>2, <1>3, <1>5, <1>7, RelayWave

\* PART and KICK
LEMMA RecvLeaveWave ==
    ASSUME IInv, IInv', WavePhase, NEW s \in Server, NEW t \in Server, RecvLeave(s, t)
    PROVE  WavePhase'
  <1>. DEFINE m == Head(chan[t][s])
              r == Read(ch[s], m, s)
  <1>1. PICK type \in {"PART", "KICK"} : Receives(s, t, type)
    BY DEF RecvLeave
  <1>2. m \in Msg /\ m.type = type
    BY <1>1, ConsumeStreams DEF IInv
  <1>3. IF m.user \in ch[s].members THEN Handle(s, t, Leave(ch[s], {m.user}), <<m>>)
        ELSE Handle(s, t, ch[s], <<>>)
    BY DEF RecvLeave
  <1>. HIDE DEF m
  <1>4. r = IF m.user \in ch[s].members THEN Leave(ch[s], {m.user}) ELSE ch[s]
    BY <1>1, <1>2 DEF Read
  <1>5. <<m>> \in Seq(Msg) /\ <<>> \in Seq(Msg)
    BY <1>2, OutTypes
  <1>. HIDE DEF r
  <1>6. Handle(s, t, r, <<m>>) \/ (Handle(s, t, r, <<>>) /\ r = ch[s])
    BY <1>3, <1>4
  <1>. QED
    BY <1>1, <1>5, <1>6, HandleWave DEF m, r

\* MODE
LEMMA RecvMODEWave ==
    ASSUME IInv, IInv', WavePhase, NEW s \in Server, NEW t \in Server, RecvMODE(s, t)
    PROVE  WavePhase'
  <1>. DEFINE m == Head(chan[t][s])
              c == ch[s]
              dated == ModeTs(c, m.ts)
              new == SetMode(dated, m.change)
              r == Read(c, m, s)
  <1>1. Receives(s, t, "MODE")
    BY DEF RecvMODE
  <1>2. m \in Msg /\ m.type = "MODE" /\ m.ts = 0
    <2>1. "MODE" # "EOF"
      OBVIOUS
    <2>. QED
      BY <1>1, <2>1, WaveHead
  <1>3. IF ~Exists(c) \/ m.ts > c.ts \/ new = c THEN Handle(s, t, c, <<>>)
        ELSE Handle(s, t, new, <<IF new = dated THEN MODE(m.ts, Nothing) ELSE m>>)
    BY DEF RecvMODE
  <1>. HIDE DEF m
  <1>4. dated = c
    BY <1>2 DEF ModeTs
  <1>5. new = SetMode(c, m.change)
    BY <1>4
  <1>6. ~(m.ts > c.ts)
    <2>1. c.ts \in TS \cup {0} /\ \A x \in TS \cup {0} : ~(0 > x)
      BY ConstantsAssumption DEF IInv, ChannelInv, Channel
    <2>. QED
      BY <1>2, <2>1
  <1>. HIDE DEF dated, new
  <1>7. r = IF ~Exists(c) THEN c ELSE new
    BY <1>2, <1>5 DEF Read
  <1>8. <<m>> \in Seq(Msg) /\ <<>> \in Seq(Msg)
    BY <1>2, OutTypes
  <1>. HIDE DEF r, c
  <1>9. CASE ~Exists(c) \/ new = c
    <2>1. Handle(s, t, r, <<>>) /\ r = c
      BY <1>3, <1>7, <1>9
    <2>. QED
      BY <1>1, <1>8, <2>1, HandleWave DEF m, r, c
  <1>10. CASE Exists(c) /\ new # c
    <2>1. Handle(s, t, new, <<m>>)
      BY <1>3, <1>4, <1>6, <1>10
    <2>2. Handle(s, t, r, <<m>>)
      BY <1>7, <1>10, <2>1
    <2>. QED
      BY <1>1, <1>8, <2>2, HandleWave DEF m, r, c
  <1>. QED
    BY <1>9, <1>10

\* The other end reads that the connection is closed.
LEMMA ReadEOFWave ==
    ASSUME IInv, IInv', WavePhase, NEW s \in Server, NEW t \in Server, ReadEOF(s, t)
    PROVE  WavePhase'
  <1>. DEFINE m == SQUIT(t)
  <1>0. "up" # "none" /\ "up" # "out" /\ "none" # "out"
    OBVIOUS
  <1>1. Receives(s, t, "EOF") /\ CloseLink(s, t)
    BY DEF ReadEOF
  <1>2. /\ s # t /\ {s, t} \in Edge /\ {t, s} \in Edge /\ chan[t][s] # <<>> /\ conn[s][t] = "up"
        /\ conn[t][s] = "none" /\ \A x \in Server \ {s, t} : Alike(s, x)
    <2>1. "EOF" \notin {"SQUIT", "PART", "KICK", "MODE"}
      OBVIOUS
    <2>2. IsNext(s, t, "EOF")
      BY <1>1, WaveRead
    <2>. QED
      BY <2>1, <2>2, Sides DEF IsNext
  <1>3. /\ conn'[s][t] = "none" /\ conn'[t][s] = "none"
        /\ Spreads(s, t, m) /\ Elsewhere(s, t, <<m>>)
        /\ known'[s] \cap Beyond(s, t) = {}
        /\ chan'[t][s] = <<>> /\ chan'[s][t] = <<>>
    BY <1>1, <1>2, CloseStreams
  <1>. HIDE DEF m
  <1>4. Changes(s, t, <<m>>)
    BY <1>3, Zenon DEF Changes
  <1>5. \A a, b \in Server \ {s} : a # b => WaveLink(a, b)
    BY DEF WavePhase
  <1>6. \A x \in Server \ {s, t} : chan'[s][x] # <<>> => {s, x} \in Edge
    BY <1>2, <1>3, SentAlong
  <1>7. \A a, b \in Server : a # b => Hush(a, b)'
    BY <1>2, <1>3, <1>6, HushWave
  <1>8. Severed(s, t)'
    BY <1>3 DEF Severed, Beyond
  <1>9. Severed(t, s)'
    <2>1. Severed(t, s) /\ known'[t] = known[t]
      BY <1>2, <1>3 DEF WavePhase, WaveLink, Elsewhere
    <2>. QED
      BY <1>0, <1>2, <2>1 DEF Severed, Beyond
  <1>10. WaveLink(s, t)' /\ WaveLink(t, s)'
    BY <1>0, <1>3, <1>8, <1>9 DEF WaveLink
  <1>. QED
    BY <1>2, <1>3, <1>4, <1>5, <1>7, <1>10, WaveGlue

\* Nothing that a burst is made of is in flight while a change is spread.
LEMMA WaveQuiet ==
    ASSUME IInv, WavePhase, Merging
    PROVE  Quiet
  <1>1. ASSUME NEW s \in Server, NEW t \in Server, chan[t][s] # <<>> PROVE FALSE
    <2>1. Receives(s, t, Head(chan[t][s]).type)
      BY <1>1 DEF Receives
    <2>. DEFINE type == Head(chan[t][s]).type
    <2>2. type \in {"EOF", "SQUIT", "PART", "KICK", "MODE"}
      <3>. HIDE DEF type
      <3>1. IsNext(s, t, type)
        BY <2>1, WaveRead DEF type
      <3>. QED
        BY <3>1 DEF IsNext
    <2>3. Tame(chan[t][s])
      BY MergingTame
    <2>4. 1 \in 1..Len(chan[t][s]) /\ Head(chan[t][s]) = chan[t][s][1]
      BY <1>1, HeadTailProperties DEF IInv, LinkInv, Streams
    <2>. QED
      BY <2>2, <2>3, <2>4 DEF Tame
  <1>. QED
    BY <1>1 DEF Quiet

-----------------------------------------------------------------------------
(* The theorem *)

\* Once nothing is in flight, linked servers have the same tables.
LEMMA PhaseSettled ==
    ASSUME IInv, Phases, Quiet
    PROVE  Settled
  <1>1. Merging
    <2>1. DOMAIN <<>> = {}
      OBVIOUS
    <2>. QED
      BY <2>1 DEF Merging, Quiet
  <1>2. ASSUME NEW u \in User, NEW ts \in TS, BirthPhase(u, ts) PROVE Settled
    BY <1>1, <1>2, BirthMerge, MergeSettled
  <1>. QED
    BY <1>2, MergeSettled, WaveSettled DEF Phases

\* Whatever came before, channels may be merged when only bursts are in flight.
LEMMA PhaseMerging ==
    ASSUME IInv, Phases, Merging
    PROVE  MergePhase
  <1>1. ASSUME NEW u \in User, NEW ts \in TS, BirthPhase(u, ts) PROVE MergePhase
    BY <1>1, BirthMerge
  <1>2. WavePhase => MergePhase
    BY WaveQuiet, WaveSettled, SettledMerge
  <1>. QED
    BY <1>1, <1>2 DEF Phases

\* What local users do
LEMMA UserStepPhases ==
    ASSUME "users" \in Calm, IInv, IInv', Phases, UserStep
    PROVE  Phases'
  <1>1. PICK u \in User : \/ \E ts \in TS : JoinNew(u, ts)
                          \/ JoinExisting(u)
                          \/ Part(u)
                          \/ \E v \in User : Kick(u, v)
                          \/ \E d \in Change : ChangeMode(u, d)
    BY Zenon DEF UserStep
  <1>2. Quiet
    BY <1>1 DEF JoinNew, JoinExisting, Part, Kick, ChangeMode, Acts
  <1>3. Settled /\ MergePhase
    BY <1>2, PhaseSettled, SettledMerge
  <1>4. ASSUME NEW ts \in TS, JoinNew(u, ts) PROVE Phases'
    <2>1. BirthPhase(u, ts)'
      BY <1>3, <1>4, JoinNewBirth
    <2>. QED
      BY <2>1, Zenon DEF Phases
  <1>5. CASE JoinExisting(u)
    <2>1. MergePhase'
      BY <1>3, <1>5, JoinExistingMerge
    <2>. QED
      BY <2>1, Zenon DEF Phases
  <1>6. ASSUME Part(u) \/ (\E v \in User : Kick(u, v)) \/ \E d \in Change : ChangeMode(u, d)
        PROVE  Phases'
    <2>1. WavePhase'
      BY <1>3, <1>6, PartWave, KickWave, ChangeModeWave
    <2>. QED
      BY <2>1, Zenon DEF Phases
  <1>. QED
    BY <1>1, <1>4, <1>5, <1>6, Zenon

\* What is read while channels are merged
LEMMA MergeReceive ==
    ASSUME IInv, IInv', MergePhase, NEW s \in Server, NEW t \in Server, Receive(s, t)
    PROVE  MergePhase'
  <1>1. ASSUME NEW type, Receives(s, t, type) PROVE type \in {"SERVER", "SID", "SJOIN"}
    <2>1. chan[t][s] \in Seq(Msg) /\ chan[t][s] # <<>> /\ Head(chan[t][s]).type = type
      BY <1>1 DEF Receives, IInv, LinkInv, Streams
    <2>2. Tame(chan[t][s])
      BY MergingTame DEF MergePhase
    <2>. QED
      BY <2>1, <2>2, TameStreams
  <1>2. ~RecvSQUIT(s, t) /\ ~ReadEOF(s, t) /\ ~RecvLeave(s, t) /\ ~RecvMODE(s, t)
    <2>1. /\ RecvSQUIT(s, t) => Receives(s, t, "SQUIT")
          /\ ReadEOF(s, t) => Receives(s, t, "EOF")
          /\ RecvLeave(s, t) => Receives(s, t, "PART") \/ Receives(s, t, "KICK")
          /\ RecvMODE(s, t) => Receives(s, t, "MODE")
      BY Zenon DEF RecvSQUIT, ReadEOF, RecvLeave, RecvMODE
    <2>2. /\ ~Receives(s, t, "SQUIT") /\ ~Receives(s, t, "EOF") /\ ~Receives(s, t, "PART")
          /\ ~Receives(s, t, "KICK") /\ ~Receives(s, t, "MODE")
      BY <1>1
    <2>. QED
      BY <2>1, <2>2
  <1>. QED
    BY <1>2, RecvSERVERMerge, RecvSIDMerge, RecvSJOINMerge DEF Receive

\* What is read while a channel is created
LEMMA BirthReceive ==
    ASSUME IInv, IInv', NEW u \in User, NEW ts \in TS, BirthPhase(u, ts),
           NEW s \in Server, NEW t \in Server, Receive(s, t)
    PROVE  BirthPhase(u, ts)'
  <1>1. ASSUME NEW type, Receives(s, t, type) PROVE type \in {"SJOIN", "MODE"}
    BY <1>1, BirthRead
  <1>2. /\ ~RecvSERVER(s, t) /\ ~RecvSID(s, t) /\ ~RecvSQUIT(s, t) /\ ~ReadEOF(s, t)
        /\ ~RecvLeave(s, t)
    <2>1. /\ RecvSERVER(s, t) => Receives(s, t, "SERVER")
          /\ RecvSID(s, t) => Receives(s, t, "SID")
          /\ RecvSQUIT(s, t) => Receives(s, t, "SQUIT")
          /\ ReadEOF(s, t) => Receives(s, t, "EOF")
          /\ RecvLeave(s, t) => Receives(s, t, "PART") \/ Receives(s, t, "KICK")
      BY Zenon DEF RecvSERVER, RecvSID, RecvSQUIT, ReadEOF, RecvLeave
    <2>2. /\ ~Receives(s, t, "SQUIT") /\ ~Receives(s, t, "EOF") /\ ~Receives(s, t, "PART")
          /\ ~Receives(s, t, "KICK") /\ ~Receives(s, t, "SERVER") /\ ~Receives(s, t, "SID")
      BY <1>1
    <2>. QED
      BY <2>1, <2>2
  <1>. QED
    BY <1>2, RecvSJOINBirth, RecvMODEBirth DEF Receive

\* What is read while a change or a loss is spread
LEMMA WaveReceive ==
    ASSUME IInv, IInv', WavePhase, NEW s \in Server, NEW t \in Server, Receive(s, t)
    PROVE  WavePhase'
  <1>1. ASSUME NEW type, Receives(s, t, type) PROVE type \notin {"SERVER", "SID", "SJOIN"}
    <2>1. IsNext(s, t, type)
      BY <1>1, WaveRead
    <2>. QED
      BY <2>1 DEF IsNext
  <1>2. ~RecvSERVER(s, t) /\ ~RecvSID(s, t) /\ ~RecvSJOIN(s, t)
    <2>1. /\ RecvSERVER(s, t) => Receives(s, t, "SERVER")
          /\ RecvSID(s, t) => Receives(s, t, "SID")
          /\ RecvSJOIN(s, t) => Receives(s, t, "SJOIN")
      BY Zenon DEF RecvSERVER, RecvSID, RecvSJOIN
    <2>2. ~Receives(s, t, "SERVER") /\ ~Receives(s, t, "SID") /\ ~Receives(s, t, "SJOIN")
      BY <1>1
    <2>. QED
      BY <2>1, <2>2
  <1>. QED
    BY <1>2, RecvSQUITWave, ReadEOFWave, RecvLeaveWave, RecvMODEWave DEF Receive

\* Nothing changes.
LEMMA IdlePhases ==
    ASSUME Phases, UNCHANGED vars
    PROVE  Phases'
  <1>0. conn' = conn /\ known' = known /\ chan' = chan /\ ch' = ch
    BY DEF vars
  <1>1. Pairs => Pairs'
    <2>1. Pairs => \A s, t \in Server : s # t => Pair(s, t)'
      BY <1>0, IdlePair DEF Pairs
    <2>. QED
      BY <2>1 DEF Pairs
  <1>2. MergePhase => MergePhase'
    <2>1. Merging => Merging'
      BY <1>0 DEF Merging
    <2>2. ASSUME NEW s \in Server, NEW t \in Server, Even(s, t) PROVE Even(s, t)'
      BY <1>0, <2>2, IdleEven
    <2>. QED
      BY <1>1, <2>1, <2>2 DEF MergePhase
  <1>3. WavePhase => WavePhase'
    <2>1. ASSUME NEW s \in Server, NEW t \in Server, WaveLink(s, t), Hush(s, t)
          PROVE  WaveLink(s, t)' /\ Hush(s, t)'
      <3>1. WaveLink(s, t)'
        BY <1>0, <2>1, IdleLink
      <3>. QED
        BY <1>0, <2>1, <3>1 DEF Hush, Beyond
    <2>. QED
      BY <2>1 DEF WavePhase
  <1>4. ASSUME NEW u \in User, NEW ts \in TS, BirthPhase(u, ts) PROVE BirthPhase(u, ts)'
    <2>1. ASSUME NEW s \in Server, NEW t \in Server, BirthLink(s, t, u, ts) PROVE BirthLink(s, t, u, ts)'
      <3>1. /\ BornAhead(s, t, u, ts) => BornAhead(s, t, u, ts)'
            /\ BornAhead(t, s, u, ts) => BornAhead(t, s, u, ts)'
        BY <1>0 DEF BornAhead, Beyond
      <3>. QED
        BY <1>0, <2>1, <3>1 DEF BirthLink, Still
    <2>. QED
      BY <1>1, <1>4, <2>1 DEF BirthPhase
  <1>. QED
    BY <1>2, <1>3, <1>4, Zenon DEF Phases

\* Every step keeps to the phases.
LEMMA NextPhases ==
    ASSUME "users" \in Calm, "links" \in Calm, IInv, IInv', Phases, [Next]_vars
    PROVE  Phases'
  <1>1. CASE UserStep
    BY <1>1, UserStepPhases
  <1>2. ASSUME NEW s \in Server, NEW t \in Server, Link(s, t) PROVE Phases'
    <2>1. Merging
      BY <1>2 DEF Link
    <2>2. MergePhase'
      BY <1>2, <2>1, PhaseMerging, LinkMerge
    <2>. QED
      BY <2>2, Zenon DEF Phases
  <1>3. ASSUME NEW s \in Server, NEW t \in Server, LoseLink(s, t) PROVE Phases'
    <2>1. Quiet
      BY <1>3 DEF LoseLink
    <2>2. WavePhase'
      BY <1>3, <2>1, PhaseSettled, LoseLinkWave
    <2>. QED
      BY <2>2, Zenon DEF Phases
  <1>4. ASSUME NEW s \in Server, NEW t \in Server, Receive(s, t) PROVE Phases'
    <2>1. ASSUME NEW u \in User, NEW ts \in TS, BirthPhase(u, ts) PROVE Phases'
      <3>1. BirthPhase(u, ts)'
        BY <1>4, <2>1, BirthReceive
      <3>. QED
        BY <3>1, Zenon DEF Phases
    <2>2. CASE MergePhase
      <3>1. MergePhase'
        BY <1>4, <2>2, MergeReceive
      <3>. QED
        BY <3>1, Zenon DEF Phases
    <2>3. CASE WavePhase
      <3>1. WavePhase'
        BY <1>4, <2>3, WaveReceive
      <3>. QED
        BY <3>1, Zenon DEF Phases
    <2>. QED
      BY <2>1, <2>2, <2>3, Zenon DEF Phases
  <1>5. CASE UNCHANGED vars
    BY <1>5, IdlePhases
  <1>. QED
    BY <1>1, <1>2, <1>3, <1>4, <1>5 DEF Next

\* If users act and links fail only once earlier events have settled, the network
\* is always in one of three phases: channels are being merged, a channel is being
\* created, or a change or a loss is being spread.
THEOREM PhasesHold == ASSUME "users" \in Calm, "links" \in Calm PROVE Spec => []Phases
  <1>1. Init /\ IInv => Phases
    <2>1. SUFFICES ASSUME Init, IInv PROVE Phases
      OBVIOUS
    <2>2. \A s, t \in Server : conn[s][t] = "none" /\ chan[s][t] = <<>> /\ known[s] = {s}
      BY <2>1 DEF Init
    <2>3. ASSUME NEW s \in Server, NEW t \in Server, s # t PROVE Severed(s, t)
      BY <2>2, <2>3, Sides DEF Severed
    <2>4. Settled
      <3>1. "none" # "out" /\ "none" # "up"
        OBVIOUS
      <3>. QED
        BY <2>2, <2>3, <3>1 DEF Settled, Quiet
    <2>. QED
      BY <2>1, <2>4, SettledMerge DEF Phases
  <1>2. IInv /\ Phases /\ [Next]_vars => Phases'
    BY NextStep, NextPhases
  <1>. QED
    BY <1>1, <1>2, Invariance, PTL DEF Spec

\* Two linked servers with nothing in flight have the very same channel: creation
\* time, members, operators, modes, limit and bans.  On every tree of servers, for
\* every set of users and whatever links come up during the bursts of others, if
\* users act and links fail only once earlier events have settled.
THEOREM ChannelAgreementHolds ==
    ASSUME "users" \in Calm, "links" \in Calm
    PROVE  Spec => []ChannelAgreement
  <1>1. IInv /\ Phases => ChannelAgreement
    <2>1. SUFFICES ASSUME IInv, Phases, NEW s \in Server, NEW t \in Server, Synced(s, t), s # t
                   PROVE  ch[s] = ch[t]
      BY DEF ChannelAgreement
    <2>2. conn[s][t] = "up" /\ conn[t][s] = "up" /\ chan[s][t] = <<>> /\ chan[t][s] = <<>>
      BY <2>1 DEF Synced, Linked
    <2>3. CASE MergePhase
      <3>0. "up" # "none" /\ "up" # "out" /\ Lines(<<>>) = {}
        BY LinesShort
      <3>1. Even(s, t)
        BY <2>1, <2>3 DEF MergePhase
      <3>2. Incoming(s, t) = Own(s) /\ Incoming(t, s) = Own(t)
        BY <2>2, <3>0 DEF Incoming
      <3>3. Same(Existing(ch[s]), Existing(ch[t]))
        BY <2>2, <3>0, <3>1, <3>2 DEF Even, Own
      <3>4. WellFormed(ch[s]) /\ WellFormed(ch[t])
        BY <2>1, MemberTypes DEF IInv
      <3>. QED
        BY <3>3, <3>4, SameExisting
    <2>4. ASSUME NEW u \in User, NEW ts \in TS, BirthPhase(u, ts) PROVE ch[s] = ch[t]
      <3>1. BirthLink(s, t, u, ts)
        BY <2>1, <2>4 DEF BirthPhase
      <3>. DEFINE l == BornLine(u, ts)
                  m == BornMode(ts)
      <3>. HIDE DEF l, m
      <3>2. <<l>> # <<>> /\ <<m>> # <<>> /\ <<l, m>> # <<>> /\ "up" # "none"
        OBVIOUS
      <3>3. ~BornAhead(s, t, u, ts) /\ ~BornAhead(t, s, u, ts)
        BY <2>2, <3>2 DEF BornAhead, l, m
      <3>. QED
        BY <2>2, <3>1, <3>2, <3>3 DEF BirthLink, Still
    <2>5. CASE WavePhase
      <3>1. WaveLink(s, t) /\ Len(<<>>) # 1
        BY <2>1, <2>5 DEF WavePhase
      <3>2. ~WaveAhead(s, t) /\ ~WaveAhead(t, s)
        BY <2>2, <3>1 DEF WaveAhead
      <3>. QED
        BY <2>2, <3>1, <3>2 DEF WaveLink, Still
    <2>. QED
      BY <2>1, <2>3, <2>4, <2>5, Zenon DEF Phases
  <1>. QED
    BY <1>1, Invariance, PhasesHold, PTL
=============================================================================
