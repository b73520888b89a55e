---------------------------- MODULE ChannelProofs ----------------------------
(***************************************************************************)
(* Proofs about ChannelSync for every tree of servers, every set of users, *)
(* timestamps and limits, and every bound: the algebra of the timestamp    *)
(* merge of cmd_sjoin, invariants of the specification, and the agreement  *)
(* of linked servers on the members of the channel.                        *)
(***************************************************************************)
EXTENDS ChannelSync, TLAPS, SequenceTheorems

\* The one line in which send_channel_modes_sjoin3 bursts a small channel
Line(d) == SJOIN(d.ts, d.members, d.ops, d.modes, d.lim, d.bans)

\* Channel c after the burst of d from a server whose users it knows
Merge(c, d) == IF Exists(d) THEN Sjoin(c, Line(d), d.members) ELSE c

\* What the merge of two channels with different members comes to, by age
Combine(c, d, e) ==
    [ts |-> e.ts, members |-> c.members \cup d.members,
     ops |-> e.ops, modes |-> e.modes, lim |-> e.lim, bans |-> e.bans]

Both(c, d) ==
    [ts |-> c.ts, members |-> c.members \cup d.members, ops |-> c.ops \cup d.ops,
     modes |-> MergeFlags(c.modes, d.modes), lim |-> MergeLimit(c.lim, d.lim),
     bans |-> c.bans \cup d.bans]

\* A record of channel shape is determined by its fields.
LEMMA ChannelFields ==
    ASSUME NEW c \in Channel
    PROVE  /\ c = [ts |-> c.ts, members |-> c.members, ops |-> c.ops,
                   modes |-> c.modes, lim |-> c.lim, bans |-> c.bans]
           /\ c.ts \in Int /\ c.lim \in Nat
           /\ c.members \in SUBSET User /\ c.ops \in SUBSET User
           /\ c.modes \in SUBSET Flag /\ c.bans \in SUBSET User
  <1>1. c = [ts |-> c.ts, members |-> c.members, ops |-> c.ops,
             modes |-> c.modes, lim |-> c.lim, bans |-> c.bans]
    BY DEF Channel
  <1>2. /\ c.ts \in TS \cup {0} /\ c.lim \in Limit \cup {0}
        /\ c.members \in SUBSET User /\ c.ops \in SUBSET User
        /\ c.modes \in SUBSET Flag /\ c.bans \in SUBSET User
    BY DEF Channel
  <1>3. (\A x \in TS \cup {0} : x \in Int) /\ (\A x \in Limit \cup {0} : x \in Nat)
    BY ConstantsAssumption
  <1>4. c.ts \in Int /\ c.lim \in Nat
    BY <1>2, <1>3
  <1>. QED
    BY <1>1, <1>2, <1>4

\* MergeFlags is commutative, associative, and has a unit; +s and +p never meet.
LEMMA MergeFlagsAlgebra ==
    ASSUME NEW f \in SUBSET Flag, NEW g \in SUBSET Flag, NEW h \in SUBSET Flag
    PROVE  /\ MergeFlags(f, g) = MergeFlags(g, f)
           /\ MergeFlags(MergeFlags(f, g), h) = MergeFlags(f, MergeFlags(g, h))
           /\ ~({"s", "p"} \subseteq f) => MergeFlags({}, f) = f
           /\ ~({"s", "p"} \subseteq MergeFlags(f, g))
           /\ MergeFlags(f, g) \in SUBSET Flag
  BY DEF MergeFlags, Flag

\* MergeLimit is commutative and associative, and no limit (0) is its unit.
LEMMA MergeLimitAlgebra ==
    ASSUME NEW k \in Nat, NEW l \in Nat, NEW n \in Nat
    PROVE  /\ MergeLimit(k, l) = MergeLimit(l, k)
           /\ MergeLimit(MergeLimit(k, l), n) = MergeLimit(k, MergeLimit(l, n))
           /\ MergeLimit(0, k) = k
           /\ MergeLimit(k, l) \in {k, l}
  BY DEF MergeLimit

\* The merge of two existing channels, by age: the older one decides all but
\* the members, at equal age everything is united.
LEMMA MergeByAge ==
    ASSUME NEW c, NEW d, WellFormed(c), WellFormed(d), Exists(c), Exists(d),
           c.members \cap d.members = {}
    PROVE  /\ c.ts < d.ts => Merge(c, d) = Combine(c, d, c)
           /\ d.ts < c.ts => Merge(c, d) = Combine(c, d, d)
           /\ c.ts = d.ts => Merge(c, d) = Both(c, d)
  <1>1. c \in Channel /\ d \in Channel /\ c.ops \subseteq c.members /\ d.ops \subseteq d.members
        /\ ~({"s", "p"} \subseteq d.modes)
    BY DEF WellFormed
  <1>2. /\ c.ts \in Int /\ c.lim \in Nat /\ d.ts \in Int /\ d.lim \in Nat
        /\ d.modes \in SUBSET Flag
    BY <1>1, ChannelFields
  <1>3. (d.ops \cap d.members) \ c.members = d.ops
    BY <1>1
  <1>4. MergeFlags({}, d.modes) = d.modes /\ MergeLimit(0, d.lim) = d.lim
    BY <1>1, <1>2, MergeFlagsAlgebra, MergeLimitAlgebra
  <1>5. c.members \cup d.members # {}
    BY DEF Exists
  <1>6. CASE c.ts < d.ts
    <2>1. ~TheirsCount(c, d.ts) /\ Ours(c, d.ts) = c
      BY <1>2, <1>6 DEF TheirsCount, Ours
    <2>2. Merge(c, d) = DestroyIfEmpty([c EXCEPT !.members = @ \cup d.members])
      BY <2>1 DEF Merge, Sjoin, Line, SJOIN
    <2>3. [c EXCEPT !.members = @ \cup d.members] = Combine(c, d, c)
      BY <1>1 DEF Combine, Channel
    <2>. QED
      BY <1>2, <1>5, <1>6, <2>2, <2>3 DEF DestroyIfEmpty, Exists, Combine
  <1>7. CASE d.ts < c.ts
    <2>0. TheirsCount(c, d.ts)
      BY <1>2, <1>7 DEF TheirsCount
    <2>1. Ours(c, d.ts) =
            [ts |-> d.ts, members |-> c.members, ops |-> {}, modes |-> {}, lim |-> 0, bans |-> {}]
      BY <1>2, <1>7 DEF Ours, NoChannel
    <2>2. Merge(c, d) = DestroyIfEmpty(
            [ts |-> d.ts, members |-> c.members \cup d.members,
             ops |-> {} \cup ((d.ops \cap d.members) \ c.members),
             modes |-> MergeFlags({}, d.modes), lim |-> MergeLimit(0, d.lim),
             bans |-> {} \cup d.bans])
      BY <2>0, <2>1 DEF Merge, Sjoin, Line, SJOIN
    <2>3. Merge(c, d) = DestroyIfEmpty(Combine(c, d, d))
      BY <1>3, <1>4, <2>2 DEF Combine
    <2>. QED
      BY <1>2, <1>5, <1>7, <2>3 DEF DestroyIfEmpty, Exists, Combine
  <1>8. CASE c.ts = d.ts
    <2>1. TheirsCount(c, d.ts) /\ Ours(c, d.ts) = c
      BY <1>2, <1>8 DEF TheirsCount, Ours
    <2>2. c = [ts |-> c.ts, members |-> c.members, ops |-> c.ops,
               modes |-> c.modes, lim |-> c.lim, bans |-> c.bans]
      BY <1>1, ChannelFields
    <2>3. Merge(c, d) = DestroyIfEmpty(
            [ts |-> c.ts, members |-> c.members \cup d.members,
             ops |-> c.ops \cup ((d.ops \cap d.members) \ c.members),
             modes |-> MergeFlags(c.modes, d.modes), lim |-> MergeLimit(c.lim, d.lim),
             bans |-> c.bans \cup d.bans])
      BY <2>1, <2>2 DEF Merge, Sjoin, Line, SJOIN
    <2>4. Merge(c, d) = DestroyIfEmpty(Both(c, d))
      BY <1>3, <2>3 DEF Both
    <2>. QED
      BY <1>2, <1>5, <1>8, <2>4 DEF DestroyIfEmpty, Exists, Both
  <1>. QED
    BY <1>6, <1>7, <1>8

\* A channel that only one side has comes over unchanged.
LEMMA MergeNew ==
    ASSUME NEW d, WellFormed(d)
    PROVE  Merge(NoChannel, d) = d /\ Merge(d, NoChannel) = d
  <1>0. ~Exists(NoChannel) /\ NoChannel.members = {}
    BY DEF Exists, NoChannel
  <1>1. CASE ~Exists(d)
    BY <1>0, <1>1 DEF Merge, WellFormed
  <1>2. CASE Exists(d)
    <2>1. d \in Channel /\ d.ops \subseteq d.members /\ ~({"s", "p"} \subseteq d.modes)
      BY DEF WellFormed
    <2>2. d.lim \in Nat /\ d.modes \in SUBSET Flag /\
          d = [ts |-> d.ts, members |-> d.members, ops |-> d.ops,
               modes |-> d.modes, lim |-> d.lim, bans |-> d.bans]
      BY <2>1, ChannelFields
    <2>3. MergeFlags({}, d.modes) = d.modes /\ MergeLimit(0, d.lim) = d.lim
      BY <2>1, <2>2, MergeFlagsAlgebra, MergeLimitAlgebra
    <2>4. TheirsCount(NoChannel, d.ts)
      BY <1>0 DEF TheirsCount
    <2>5. Ours(NoChannel, d.ts) =
            [ts |-> d.ts, members |-> {}, ops |-> {}, modes |-> {}, lim |-> 0, bans |-> {}]
      BY <1>0 DEF Ours, NoChannel
    <2>6. Merge(NoChannel, d) = DestroyIfEmpty(
            [ts |-> d.ts, members |-> {} \cup d.members,
             ops |-> {} \cup ((d.ops \cap d.members) \ {}),
             modes |-> MergeFlags({}, d.modes), lim |-> MergeLimit(0, d.lim),
             bans |-> {} \cup d.bans])
      BY <1>0, <1>2, <2>4, <2>5, SMTT(30) DEF Merge, Sjoin, Line, SJOIN
    <2>7. (d.ops \cap d.members) \ {} = d.ops
      BY <2>1
    <2>8. Merge(NoChannel, d) = DestroyIfEmpty(d)
      BY <2>2, <2>3, <2>6, <2>7
    <2>. QED
      BY <1>0, <1>2, <2>8 DEF DestroyIfEmpty, Merge
  <1>. QED
    BY <1>1, <1>2

\* The merge of two well-formed channels is one, with the members of both.
LEMMA MergeWellFormed ==
    ASSUME NEW c, NEW d, WellFormed(c), WellFormed(d), Exists(c), Exists(d),
           c.members \cap d.members = {}
    PROVE  /\ WellFormed(Merge(c, d)) /\ Exists(Merge(c, d))
           /\ Merge(c, d).members = c.members \cup d.members
  <1>1. c \in Channel /\ d \in Channel /\ c.ops \subseteq c.members /\ d.ops \subseteq d.members
        /\ ~({"s", "p"} \subseteq c.modes) /\ ~({"s", "p"} \subseteq d.modes)
        /\ c.ts \in TS /\ d.ts \in TS
    BY DEF WellFormed
  <1>2. /\ c.ts \in Int /\ c.lim \in Nat /\ d.ts \in Int /\ d.lim \in Nat
        /\ d.modes \in SUBSET Flag /\ c.modes \in SUBSET Flag
    BY <1>1, ChannelFields
  <1>3. c.lim \in Limit \cup {0} /\ d.lim \in Limit \cup {0}
    BY <1>1 DEF Channel
  <1>4. /\ MergeFlags(c.modes, d.modes) \in SUBSET Flag
        /\ ~({"s", "p"} \subseteq MergeFlags(c.modes, d.modes))
        /\ MergeLimit(c.lim, d.lim) \in Limit \cup {0}
    BY <1>2, <1>3, MergeFlagsAlgebra, MergeLimitAlgebra
  <1>5. c.members \cup d.members # {}
    BY DEF Exists
  <1>6. ASSUME NEW e \in {c, d}
        PROVE  WellFormed(Combine(c, d, e)) /\ Exists(Combine(c, d, e))
    BY <1>1, <1>5 DEF WellFormed, Exists, Combine, Channel
  <1>7. c.ts = d.ts => WellFormed(Both(c, d)) /\ Exists(Both(c, d))
    BY <1>1, <1>4, <1>5 DEF WellFormed, Exists, Both, Channel
  <1>8. Combine(c, d, c).members = c.members \cup d.members
        /\ Combine(c, d, d).members = c.members \cup d.members
        /\ Both(c, d).members = c.members \cup d.members
    BY DEF Combine, Both
  <1>9. c.ts < d.ts \/ d.ts < c.ts \/ c.ts = d.ts
    BY <1>2
  <1>. QED
    BY <1>6, <1>7, <1>8, <1>9, MergeByAge

\* It does not matter which side of a new link reads the other's burst: both
\* ends arrive at the same channel (cmd_sjoin on send_channel_modes_sjoin3).
THEOREM MergeCommutes ==
    ASSUME NEW c, NEW d, WellFormed(c), WellFormed(d), c.members \cap d.members = {}
    PROVE  Merge(c, d) = Merge(d, c)
  <1>1. CASE ~Exists(c) \/ ~Exists(d)
    BY <1>1, MergeNew DEF WellFormed
  <1>2. CASE Exists(c) /\ Exists(d)
    <2>1. /\ c.ts \in Int /\ c.lim \in Nat /\ d.ts \in Int /\ d.lim \in Nat
          /\ d.modes \in SUBSET Flag /\ c.modes \in SUBSET Flag
      BY ChannelFields DEF WellFormed
    <2>2. /\ Combine(c, d, c) = Combine(d, c, c)
          /\ Combine(c, d, d) = Combine(d, c, d)
      BY DEF Combine
    <2>3. MergeFlags(c.modes, d.modes) = MergeFlags(d.modes, c.modes)
          /\ MergeLimit(c.lim, d.lim) = MergeLimit(d.lim, c.lim)
      BY <2>1, MergeFlagsAlgebra, MergeLimitAlgebra
    <2>4. c.ts = d.ts => Both(c, d) = Both(d, c)
      BY <2>3 DEF Both
    <2>5. c.ts < d.ts \/ d.ts < c.ts \/ c.ts = d.ts
      BY <2>1
    <2>. QED
      BY <1>2, <2>2, <2>4, <2>5, MergeByAge
  <1>. QED
    BY <1>1, <1>2

\* It does not matter in which order the bursts of three parts of a network
\* are merged: all servers arrive at the same channel, whatever the ages.
THEOREM MergeAssociates ==
    ASSUME NEW c, NEW d, NEW e, WellFormed(c), WellFormed(d), WellFormed(e),
           c.members \cap d.members = {}, c.members \cap e.members = {},
           d.members \cap e.members = {}
    PROVE  Merge(Merge(c, d), e) = Merge(c, Merge(d, e))
  <1>1. CASE ~Exists(c) \/ ~Exists(e)
    <2>1. WellFormed(NoChannel)
      BY ConstantsAssumption DEF WellFormed, NoChannel, Channel, Exists
    <2>2. WellFormed(Merge(c, d)) /\ WellFormed(Merge(d, e))
      <3>1. CASE Exists(c) /\ Exists(d)
        BY <1>1, <3>1, MergeNew, MergeWellFormed DEF WellFormed
      <3>2. CASE Exists(d) /\ Exists(e)
        BY <1>1, <3>2, MergeNew, MergeWellFormed DEF WellFormed
      <3>3. CASE ~Exists(d) \/ (~Exists(c) /\ ~Exists(e))
        BY <3>3, MergeNew DEF WellFormed
      <3>. QED
        BY <1>1, <3>1, <3>2, <3>3
    <2>3. (~Exists(c) => c = NoChannel) /\ (~Exists(e) => e = NoChannel)
      BY DEF WellFormed
    <2>. QED
      BY <1>1, <2>2, <2>3, MergeNew
  <1>2. CASE ~Exists(d)
    <2>1. d = NoChannel
      BY <1>2 DEF WellFormed
    <2>. QED
      BY <2>1, MergeNew
  <1>3. CASE Exists(c) /\ Exists(d) /\ Exists(e)
    <2>. DEFINE m == Merge(c, d)
                n == Merge(d, e)
    <2>1. /\ WellFormed(m) /\ Exists(m) /\ m.members \cap e.members = {}
          /\ WellFormed(n) /\ Exists(n) /\ c.members \cap n.members = {}
      BY <1>3, MergeWellFormed
    <2>2. /\ c.ts \in Int /\ c.lim \in Nat /\ c.modes \in SUBSET Flag
          /\ d.ts \in Int /\ d.lim \in Nat /\ d.modes \in SUBSET Flag
          /\ e.ts \in Int /\ e.lim \in Nat /\ e.modes \in SUBSET Flag
      BY ChannelFields DEF WellFormed
    <2>3. /\ c.ts < d.ts => m = Combine(c, d, c)
          /\ d.ts < c.ts => m = Combine(c, d, d)
          /\ c.ts = d.ts => m = Both(c, d)
          /\ d.ts < e.ts => n = Combine(d, e, d)
          /\ e.ts < d.ts => n = Combine(d, e, e)
          /\ d.ts = e.ts => n = Both(d, e)
      BY <1>3, MergeByAge
    <2>4. /\ m.ts < e.ts => Merge(m, e) = Combine(m, e, m)
          /\ e.ts < m.ts => Merge(m, e) = Combine(m, e, e)
          /\ m.ts = e.ts => Merge(m, e) = Both(m, e)
          /\ c.ts < n.ts => Merge(c, n) = Combine(c, n, c)
          /\ n.ts < c.ts => Merge(c, n) = Combine(c, n, n)
          /\ c.ts = n.ts => Merge(c, n) = Both(c, n)
      BY <1>3, <2>1, MergeByAge
    <2>5. /\ MergeFlags(MergeFlags(c.modes, d.modes), e.modes)
               = MergeFlags(c.modes, MergeFlags(d.modes, e.modes))
          /\ MergeLimit(MergeLimit(c.lim, d.lim), e.lim)
               = MergeLimit(c.lim, MergeLimit(d.lim, e.lim))
      BY <2>2, MergeFlagsAlgebra, MergeLimitAlgebra
    <2>. HIDE DEF m, n
    <2>6. ASSUME c.ts = d.ts /\ d.ts = e.ts
          PROVE  Merge(m, e) = Merge(c, n)
      <3>1. m = Both(c, d) /\ n = Both(d, e)
        BY <2>2, <2>3, <2>6
      <3>2. m.ts = c.ts /\ n.ts = d.ts
        BY <3>1 DEF Combine, Both
      <3>3. Merge(m, e) = Both(m, e) /\ Merge(c, n) = Both(c, n)
        BY <2>2, <2>4, <2>6, <3>2
      <3>. QED
        BY <2>5, <2>6, <3>1, <3>3 DEF Combine, Both
    <2>7. ASSUME c.ts = d.ts /\ d.ts < e.ts
          PROVE  Merge(m, e) = Merge(c, n)
      <3>1. m = Both(c, d) /\ n = Combine(d, e, d)
        BY <2>2, <2>3, <2>7
      <3>2. m.ts = c.ts /\ n.ts = d.ts
        BY <3>1 DEF Combine, Both
      <3>3. Merge(m, e) = Combine(m, e, m) /\ Merge(c, n) = Both(c, n)
        BY <2>2, <2>4, <2>7, <3>2
      <3>. QED
        BY <2>5, <2>7, <3>1, <3>3 DEF Combine, Both
    <2>8. ASSUME c.ts < d.ts /\ e.ts < d.ts /\ c.ts = e.ts
          PROVE  Merge(m, e) = Merge(c, n)
      <3>1. m = Combine(c, d, c) /\ n = Combine(d, e, e)
        BY <2>2, <2>3, <2>8
      <3>2. m.ts = c.ts /\ n.ts = e.ts
        BY <3>1 DEF Combine, Both
      <3>3. Merge(m, e) = Both(m, e) /\ Merge(c, n) = Both(c, n)
        BY <2>2, <2>4, <2>8, <3>2
      <3>. QED
        BY <2>5, <2>8, <3>1, <3>3 DEF Combine, Both
    <2>9. ASSUME c.ts < d.ts /\ d.ts = e.ts
          PROVE  Merge(m, e) = Merge(c, n)
      <3>1. m = Combine(c, d, c) /\ n = Both(d, e)
        BY <2>2, <2>3, <2>9
      <3>2. m.ts = c.ts /\ n.ts = d.ts
        BY <3>1 DEF Combine, Both
      <3>3. Merge(m, e) = Combine(m, e, m) /\ Merge(c, n) = Combine(c, n, c)
        BY <2>2, <2>4, <2>9, <3>2
      <3>. QED
        BY <2>5, <2>9, <3>1, <3>3 DEF Combine, Both
    <2>10. ASSUME c.ts < d.ts /\ d.ts < e.ts
          PROVE  Merge(m, e) = Merge(c, n)
      <3>1. m = Combine(c, d, c) /\ n = Combine(d, e, d)
        BY <2>2, <2>3, <2>10
      <3>2. m.ts = c.ts /\ n.ts = d.ts
        BY <3>1 DEF Combine, Both
      <3>3. Merge(m, e) = Combine(m, e, m) /\ Merge(c, n) = Combine(c, n, c)
        BY <2>2, <2>4, <2>10, <3>2
      <3>. QED
        BY <2>5, <2>10, <3>1, <3>3 DEF Combine, Both
    <2>11. ASSUME c.ts < d.ts /\ e.ts < d.ts /\ c.ts < e.ts
          PROVE  Merge(m, e) = Merge(c, n)
      <3>1. m = Combine(c, d, c) /\ n = Combine(d, e, e)
        BY <2>2, <2>3, <2>11
      <3>2. m.ts = c.ts /\ n.ts = e.ts
        BY <3>1 DEF Combine, Both
      <3>3. Merge(m, e) = Combine(m, e, m) /\ Merge(c, n) = Combine(c, n, c)
        BY <2>2, <2>4, <2>11, <3>2
      <3>. QED
        BY <2>5, <2>11, <3>1, <3>3 DEF Combine, Both
    <2>12. ASSUME d.ts < c.ts /\ d.ts = e.ts
          PROVE  Merge(m, e) = Merge(c, n)
      <3>1. m = Combine(c, d, d) /\ n = Both(d, e)
        BY <2>2, <2>3, <2>12
      <3>2. m.ts = d.ts /\ n.ts = d.ts
        BY <3>1 DEF Combine, Both
      <3>3. Merge(m, e) = Both(m, e) /\ Merge(c, n) = Combine(c, n, n)
        BY <2>2, <2>4, <2>12, <3>2
      <3>. QED
        BY <2>5, <2>12, <3>1, <3>3 DEF Combine, Both
    <2>13. ASSUME d.ts < c.ts /\ d.ts < e.ts /\ c.ts = e.ts
          PROVE  Merge(m, e) = Merge(c, n)
      <3>1. m = Combine(c, d, d) /\ n = Combine(d, e, d)
        BY <2>2, <2>3, <2>13
      <3>2. m.ts = d.ts /\ n.ts = d.ts
        BY <3>1 DEF Combine, Both
      <3>3. Merge(m, e) = Combine(m, e, m) /\ Merge(c, n) = Combine(c, n, n)
        BY <2>2, <2>4, <2>13, <3>2
      <3>. QED
        BY <2>5, <2>13, <3>1, <3>3 DEF Combine, Both
    <2>14. ASSUME d.ts < c.ts /\ d.ts < e.ts /\ c.ts < e.ts
          PROVE  Merge(m, e) = Merge(c, n)
      <3>1. m = Combine(c, d, d) /\ n = Combine(d, e, d)
        BY <2>2, <2>3, <2>14
      <3>2. m.ts = d.ts /\ n.ts = d.ts
        BY <3>1 DEF Combine, Both
      <3>3. Merge(m, e) = Combine(m, e, m) /\ Merge(c, n) = Combine(c, n, n)
        BY <2>2, <2>4, <2>14, <3>2
      <3>. QED
        BY <2>5, <2>14, <3>1, <3>3 DEF Combine, Both
    <2>15. ASSUME c.ts = d.ts /\ e.ts < d.ts
          PROVE  Merge(m, e) = Merge(c, n)
      <3>1. m = Both(c, d) /\ n = Combine(d, e, e)
        BY <2>2, <2>3, <2>15
      <3>2. m.ts = c.ts /\ n.ts = e.ts
        BY <3>1 DEF Combine, Both
      <3>3. Merge(m, e) = Combine(m, e, e) /\ Merge(c, n) = Combine(c, n, n)
        BY <2>2, <2>4, <2>15, <3>2
      <3>. QED
        BY <2>5, <2>15, <3>1, <3>3 DEF Combine, Both
    <2>16. ASSUME c.ts < d.ts /\ e.ts < d.ts /\ e.ts < c.ts
          PROVE  Merge(m, e) = Merge(c, n)
      <3>1. m = Combine(c, d, c) /\ n = Combine(d, e, e)
        BY <2>2, <2>3, <2>16
      <3>2. m.ts = c.ts /\ n.ts = e.ts
        BY <3>1 DEF Combine, Both
      <3>3. Merge(m, e) = Combine(m, e, e) /\ Merge(c, n) = Combine(c, n, n)
        BY <2>2, <2>4, <2>16, <3>2
      <3>. QED
        BY <2>5, <2>16, <3>1, <3>3 DEF Combine, Both
    <2>17. ASSUME d.ts < c.ts /\ d.ts < e.ts /\ e.ts < c.ts
          PROVE  Merge(m, e) = Merge(c, n)
      <3>1. m = Combine(c, d, d) /\ n = Combine(d, e, d)
        BY <2>2, <2>3, <2>17
      <3>2. m.ts = d.ts /\ n.ts = d.ts
        BY <3>1 DEF Combine, Both
      <3>3. Merge(m, e) = Combine(m, e, m) /\ Merge(c, n) = Combine(c, n, n)
        BY <2>2, <2>4, <2>17, <3>2
      <3>. QED
        BY <2>5, <2>17, <3>1, <3>3 DEF Combine, Both
    <2>18. ASSUME d.ts < c.ts /\ e.ts < d.ts
          PROVE  Merge(m, e) = Merge(c, n)
      <3>1. m = Combine(c, d, d) /\ n = Combine(d, e, e)
        BY <2>2, <2>3, <2>18
      <3>2. m.ts = d.ts /\ n.ts = e.ts
        BY <3>1 DEF Combine, Both
      <3>3. Merge(m, e) = Combine(m, e, e) /\ Merge(c, n) = Combine(c, n, n)
        BY <2>2, <2>4, <2>18, <3>2
      <3>. QED
        BY <2>5, <2>18, <3>1, <3>3 DEF Combine, Both
    <2>19. Merge(m, e) = Merge(c, n)
      BY <2>2, <2>6, <2>7, <2>8, <2>9, <2>10, <2>11, <2>12, <2>13, <2>14, <2>15, <2>16, <2>17, <2>18
    <2>. QED
      BY <2>19 DEF m, n
  <1>. QED
    BY <1>1, <1>2, <1>3
-----------------------------------------------------------------------------
(* What the operations on a channel preserve *)

\* The last member takes the channel with it; whoever leaves is no operator.
LEMMA LeaveWellFormed ==
    ASSUME NEW c, WellFormed(c), NEW S
    PROVE  /\ WellFormed(Leave(c, S))
           /\ Leave(c, S).members = c.members \ S
           /\ Exists(Leave(c, S)) => Leave(c, S).ts = c.ts
  <1>. DEFINE d == [c EXCEPT !.members = @ \ S, !.ops = @ \ S]
  <1>1. c \in Channel
    BY DEF WellFormed
  <1>2. d \in Channel
    BY <1>1 DEF Channel
  <1>3. d.members = c.members \ S /\ d.ops = c.ops \ S /\ d.ts = c.ts /\ d.modes = c.modes
    BY <1>1 DEF Channel
  <1>4. Leave(c, S) = DestroyIfEmpty(d)
    BY DEF Leave
  <1>5. d.ops \subseteq d.members /\ ~({"s", "p"} \subseteq d.modes)
    BY <1>3 DEF WellFormed
  <1>6. WellFormed(NoChannel) /\ NoChannel.members = {}
    BY DEF WellFormed, NoChannel, Exists, Channel
  <1>7. d.members # {} => d.ts \in TS
    BY <1>3 DEF WellFormed, Exists
  <1>. HIDE DEF d
  <1>8. CASE Exists(d)
    BY <1>2, <1>3, <1>4, <1>5, <1>7, <1>8 DEF DestroyIfEmpty, WellFormed, Exists
  <1>9. CASE ~Exists(d)
    BY <1>3, <1>4, <1>6, <1>9 DEF DestroyIfEmpty, Exists
  <1>. QED
    BY <1>8, <1>9

\* A mode change keeps the channel well-formed and touches neither the
\* members nor the creation time.
LEMMA SetModeWellFormed ==
    ASSUME NEW c, WellFormed(c), Exists(c), NEW d \in Change
    PROVE  /\ WellFormed(SetMode(c, d))
           /\ SetMode(c, d).members = c.members
           /\ SetMode(c, d).ts = c.ts
  <1>1. c \in Channel /\ c.ops \subseteq c.members /\ ~({"s", "p"} \subseteq c.modes)
        /\ c.ts \in TS
    BY DEF WellFormed
  <1>2. d.mode \in {"o", "b"} => d.arg \in User
    BY DEF Change, Flag
  <1>3. d.mode = "l" => (IF d.add THEN d.arg ELSE 0) \in Limit \cup {0}
    BY DEF Change, Flag
  <1>4. CASE d.mode = "o"
    <2>1. CASE d.arg \notin c.members
      BY <1>4, <2>1 DEF SetMode
    <2>2. CASE d.arg \in c.members
      <3>1. SetMode(c, d) = [c EXCEPT !.ops = Toggle(@, d, d.arg)]
        BY <1>4, <2>2 DEF SetMode
      <3>2. Toggle(c.ops, d, d.arg) \in SUBSET User
            /\ Toggle(c.ops, d, d.arg) \subseteq c.members
        BY <1>1, <2>2 DEF Toggle, Channel
      <3>. QED
        BY <1>1, <3>1, <3>2 DEF WellFormed, Exists, Channel
    <2>. QED
      BY <2>1, <2>2
  <1>5. CASE d.mode = "b"
    <2>1. SetMode(c, d) = [c EXCEPT !.bans = Toggle(@, d, d.arg)]
      BY <1>5 DEF SetMode
    <2>2. Toggle(c.bans, d, d.arg) \in SUBSET User
      BY <1>1, <1>2, <1>5 DEF Toggle, Channel
    <2>. QED
      BY <1>1, <2>1, <2>2 DEF WellFormed, Exists, Channel
  <1>6. CASE d.mode = "l"
    <2>1. SetMode(c, d) = [c EXCEPT !.lim = IF d.add THEN d.arg ELSE 0]
      BY <1>6 DEF SetMode
    <2>. QED
      BY <1>1, <1>3, <1>6, <2>1 DEF WellFormed, Exists, Channel
  <1>7. CASE d.mode \in Flag
    <2>1. SetMode(c, d) = [c EXCEPT !.modes = Toggle(IF d.add THEN {} ELSE @, d, d.mode)]
      BY <1>7 DEF SetMode, Flag
    <2>2. Toggle(IF d.add THEN {} ELSE c.modes, d, d.mode) \in SUBSET Flag
          /\ ~({"s", "p"} \subseteq Toggle(IF d.add THEN {} ELSE c.modes, d, d.mode))
      BY <1>1, <1>7 DEF Toggle, Channel, Flag
    <2>. QED
      BY <1>1, <2>1, <2>2 DEF WellFormed, Exists, Channel
  <1>8. CASE d.mode \notin {"o", "b", "l"} \cup Flag
    BY <1>8 DEF SetMode
  <1>. QED
    BY <1>4, <1>5, <1>6, <1>7, <1>8

\* Whatever a server's SJOIN carries, the merge is well-formed, its members
\* are ours and the newcomers, and its creation time is at most ours.
LEMMA SjoinWellFormed ==
    ASSUME NEW c, WellFormed(c), NEW m, NEW new \in SUBSET User,
           m.ts \in TS, m.ops \in SUBSET User, m.modes \in SUBSET Flag,
           m.lim \in Limit \cup {0}, m.bans \in SUBSET User
    PROVE  /\ WellFormed(Sjoin(c, m, new))
           /\ Sjoin(c, m, new).members = c.members \cup new
           /\ Exists(c) => Sjoin(c, m, new).ts <= c.ts
  <1>1. c \in Channel /\ c.ops \subseteq c.members /\ ~({"s", "p"} \subseteq c.modes)
        /\ (Exists(c) => c.ts \in TS)
    BY DEF WellFormed
  <1>2. c.ts \in Int /\ c.lim \in Nat /\ m.ts \in Int /\ m.lim \in Nat
        /\ c.lim \in Limit \cup {0}
    <2>1. (\A x \in TS : x \in Int) /\ (\A x \in Limit \cup {0} : x \in Nat)
      BY ConstantsAssumption
    <2>2. c.lim \in Limit \cup {0}
      BY <1>1 DEF Channel
    <2>. QED
      BY <1>1, <2>1, <2>2, ChannelFields
  <1>. DEFINE o == Ours(c, m.ts)
  <1>3. /\ o \in Channel /\ o.ops \subseteq o.members /\ ~({"s", "p"} \subseteq o.modes)
        /\ o.members = c.members /\ o.ts \in TS
        /\ Exists(c) => o.ts <= c.ts
    <2>1. CASE ~Exists(c)
      <3>1. o = [ts |-> m.ts, members |-> {}, ops |-> {}, modes |-> {}, lim |-> 0, bans |-> {}]
        BY <2>1 DEF Ours, NoChannel
      <3>. QED
        BY <2>1, <3>1 DEF Channel, Exists
    <2>2. CASE Exists(c) /\ m.ts < c.ts
      <3>1. o = [ts |-> m.ts, members |-> c.members, ops |-> {}, modes |-> {},
                 lim |-> 0, bans |-> {}]
        BY <2>2 DEF Ours, NoChannel
      <3>2. o.members = c.members /\ o.ts = m.ts /\ o.ops = {} /\ o.modes = {}
        BY <3>1
      <3>3. o \in Channel
        BY <1>1, <3>1 DEF Channel
      <3>. QED
        BY <1>2, <2>2, <3>2, <3>3
    <2>3. CASE Exists(c) /\ ~(m.ts < c.ts)
      BY <1>1, <1>2, <2>3 DEF Ours
    <2>. QED
      BY <2>1, <2>2, <2>3
  <1>4. o.lim \in Nat /\ o.lim \in Limit \cup {0} /\ o.modes \in SUBSET Flag
    BY <1>3, ChannelFields DEF Channel
  <1>. DEFINE joined == [o EXCEPT !.members = @ \cup new]
              merged == [ts |-> o.ts, members |-> o.members \cup new,
                         ops |-> o.ops \cup ((m.ops \cap new) \ c.members),
                         modes |-> MergeFlags(o.modes, m.modes),
                         lim |-> MergeLimit(o.lim, m.lim), bans |-> o.bans \cup m.bans]
              r == IF TheirsCount(c, m.ts) THEN merged ELSE joined
  <1>5. Sjoin(c, m, new) = DestroyIfEmpty(r)
    BY DEF Sjoin
  <1>. HIDE DEF o
  <1>6. joined \in Channel /\ joined.ops \subseteq joined.members
        /\ ~({"s", "p"} \subseteq joined.modes)
        /\ joined.members = c.members \cup new /\ joined.ts = o.ts
    BY <1>3 DEF Channel
  <1>7. /\ MergeFlags(o.modes, m.modes) \in SUBSET Flag
        /\ ~({"s", "p"} \subseteq MergeFlags(o.modes, m.modes))
        /\ MergeLimit(o.lim, m.lim) \in Limit \cup {0}
    BY <1>2, <1>4, MergeFlagsAlgebra, MergeLimitAlgebra
  <1>8. merged \in Channel /\ merged.ops \subseteq merged.members
        /\ ~({"s", "p"} \subseteq merged.modes)
        /\ merged.members = c.members \cup new /\ merged.ts = o.ts
    BY <1>3, <1>7 DEF Channel
  <1>9. r \in Channel /\ r.ops \subseteq r.members /\ ~({"s", "p"} \subseteq r.modes)
        /\ r.members = c.members \cup new /\ r.ts = o.ts
    BY <1>6, <1>8
  <1>. HIDE DEF r
  <1>10. CASE Exists(r)
    BY <1>3, <1>5, <1>9, <1>10 DEF DestroyIfEmpty, WellFormed, Exists
  <1>11. CASE ~Exists(r)
    <2>1. WellFormed(NoChannel) /\ NoChannel.members = {}
      BY DEF WellFormed, NoChannel, Exists, Channel
    <2>. QED
      BY <1>5, <1>9, <1>11, <2>1 DEF DestroyIfEmpty, Exists
  <1>. QED
    BY <1>10, <1>11

-----------------------------------------------------------------------------
(* The inductive invariant *)

\* Outputs of a handler, and the streams of a network: nobody talks to itself
Out == [Server -> Seq(Msg)]
Streams == {c \in [Server -> [Server -> Seq(Msg)]] : \A x \in Server : c[x][x] = <<>>}

\* The part about connections and streams
LinkInv ==
    /\ conn \in [Server -> [Server -> ConnState]]
    /\ \A s \in Server : conn[s][s] = "none"
    /\ chan \in Streams

\* The part about the tables: a server never forgets itself, and the members
\* of its channel are users it knows
ChannelInv ==
    /\ known \in [Server -> SUBSET Server]
    /\ \A s \in Server : s \in known[s]
    /\ ch \in [Server -> Channel]
    /\ \A s \in Server : WellFormed(ch[s])
    /\ MembersKnown

\* The part about the bounds
CountInv == /\ nop \in 0..MaxOp /\ nkick \in 0..MaxKick
            /\ nmode \in 0..MaxMode /\ nlink \in 0..MaxLink

IInv == LinkInv /\ ChannelInv /\ CountInv

\* What a step may do to the creation times
TsStep == \A s \in Server : Exists(ch[s]) /\ Exists(ch'[s]) => ch'[s].ts <= ch[s].ts

-----------------------------------------------------------------------------
(* Messages and streams *)

\* The message constructors build messages.
LEMMA MessageTypes ==
    /\ \A ids \in SUBSET Server : SERVER(ids) \in Msg /\ SID(ids) \in Msg
    /\ \A x \in Server : SQUIT(x) \in Msg
    /\ EOF \in Msg
    /\ \A u \in User : PART(u) \in Msg /\ KICK(u) \in Msg
    /\ \A ts \in TS \cup {0}, d \in Change : MODE(ts, d) \in Msg
    /\ \A ts \in TS, m, o, b \in SUBSET User, f \in SUBSET Flag, l \in Limit \cup {0} :
          SJOIN(ts, m, o, f, l, b) \in Msg
  BY DEF Msg, SERVER, SID, SQUIT, EOF, PART, KICK, MODE, SJOIN

\* The type of a message determines its fields.
LEMMA MessageFields ==
    ASSUME NEW m \in Msg
    PROVE  /\ m.type \in {"SERVER", "SID"} => m.ids \in SUBSET Server
           /\ m.type = "SQUIT" => m.id \in Server
           /\ m.type \in {"PART", "KICK"} => m.user \in User
           /\ m.type = "MODE" => m.ts \in TS \cup {0} /\ m.change \in Change
           /\ m.type = "SJOIN" => /\ m.ts \in TS /\ m.members \in SUBSET User
                                  /\ m.ops \in SUBSET User /\ m.modes \in SUBSET Flag
                                  /\ m.lim \in Limit \cup {0} /\ m.bans \in SUBSET User
  BY DEF Msg

\* Sequences of messages, and outputs made of them.
LEMMA OutTypes ==
    /\ <<>> \in Seq(Msg)
    /\ \A m \in Msg : <<m>> \in Seq(Msg)
    /\ \A m1, m2 \in Msg : <<m1, m2>> \in Seq(Msg)
    /\ \A q1, q2 \in Seq(Msg) : q1 \o q2 \in Seq(Msg)
    /\ \A s, t \in Server, m \in Msg : ToOthers(s, t, m) \in Out
  <1>1. <<>> \in Seq(Msg) /\ \A m \in Msg : <<m>> \in Seq(Msg)
    OBVIOUS
  <1>2. \A m1, m2 \in Msg : <<m1, m2>> \in Seq(Msg)
    OBVIOUS
  <1>3. \A q1, q2 \in Seq(Msg) : q1 \o q2 \in Seq(Msg)
    BY ConcatProperties
  <1>4. \A s, t \in Server, m \in Msg : ToOthers(s, t, m) \in Out
    BY <1>1 DEF ToOthers, Out
  <1>. QED
    BY <1>1, <1>2, <1>3, <1>4

\* Sending appends to the streams of open connections, which are with others.
LEMMA DeliverStreams ==
    ASSUME LinkInv, NEW c \in Streams, NEW s \in Server, NEW out \in Out
    PROVE  Deliver(c, s, out) \in Streams
  BY OutTypes, ZenonT(40) DEF LinkInv, Streams, Deliver, Out

\* Reading takes a message off the stream of another server.
LEMMA ConsumeStreams ==
    ASSUME LinkInv, NEW s \in Server, NEW t \in Server, NEW type, Receives(s, t, type)
    PROVE  /\ Consume(s, t) \in Streams
           /\ Head(chan[t][s]) \in Msg
           /\ Head(chan[t][s]).type = type
           /\ s # t
  <1>1. chan[t][s] \in Seq(Msg) /\ chan[t][s] # <<>> /\ s # t
    BY DEF LinkInv, Streams, Receives
  <1>2. Head(chan[t][s]) \in Msg /\ Tail(chan[t][s]) \in Seq(Msg)
    BY <1>1, HeadTailProperties
  <1>3. Consume(s, t) \in Streams
    BY <1>1, <1>2 DEF LinkInv, Streams, Consume
  <1>. QED
    BY <1>1, <1>2, <1>3 DEF Receives

\* A burst of a well-formed channel is a sequence of messages.
LEMMA BurstTypes ==
    ASSUME NEW c, WellFormed(c), NEW burst \in Bursts(c)
    PROVE  burst \in Seq(Msg)
  <1>1. c \in Channel /\ (Exists(c) => c.ts \in TS)
    BY DEF WellFormed
  <1>2. /\ c.members \in SUBSET User /\ c.ops \in SUBSET User /\ c.modes \in SUBSET Flag
        /\ c.lim \in Limit \cup {0} /\ c.bans \in SUBSET User
    BY <1>1 DEF Channel
  <1>3. CASE ~Exists(c)
    BY <1>3, OutTypes DEF Bursts
  <1>4. CASE Exists(c) /\ burst = <<SJOIN(c.ts, c.members, c.ops, c.modes, c.lim, c.bans)>>
    BY <1>1, <1>2, <1>4, MessageTypes, OutTypes
  <1>5. ASSUME Exists(c), NEW first \in SUBSET c.members,
               burst = <<SJOIN(c.ts, first, c.ops \cap first, c.modes, c.lim, {}),
                         SJOIN(c.ts, c.members \ first, c.ops \ first, {}, 0, c.bans)>>
        PROVE  burst \in Seq(Msg)
    <2>1. SJOIN(c.ts, first, c.ops \cap first, c.modes, c.lim, {}) \in Msg
      <3>1. first \in SUBSET User /\ c.ops \cap first \in SUBSET User /\ {} \in SUBSET User
        BY <1>2
      <3>. QED
        BY <1>1, <1>2, <1>5, <3>1, MessageTypes
    <2>2. SJOIN(c.ts, c.members \ first, c.ops \ first, {}, 0, c.bans) \in Msg
      <3>1. c.members \ first \in SUBSET User /\ c.ops \ first \in SUBSET User
            /\ {} \in SUBSET Flag /\ 0 \in Limit \cup {0}
        BY <1>2
      <3>. QED
        BY <1>1, <1>2, <1>5, <3>1, MessageTypes
    <2>. QED
      BY <1>5, <2>1, <2>2, OutTypes
  <1>. QED
    BY <1>3, <1>4, <1>5 DEF Bursts

-----------------------------------------------------------------------------
(* What the shared parts of the actions preserve *)

\* Replacing one server's channel by a well-formed one of known users.
LEMMA ChannelStep ==
    ASSUME ChannelInv, NEW s \in Server, NEW c, WellFormed(c), c.members \subseteq KnownUsers(s),
           Exists(ch[s]) /\ Exists(c) => c.ts <= ch[s].ts,
           ch' = [ch EXCEPT ![s] = c], known' = known
    PROVE  ChannelInv' /\ TsStep
  <1>1. c \in Channel
    BY DEF WellFormed
  <1>2. ch' \in [Server -> Channel] /\ ch'[s] = c
        /\ \A x \in Server \ {s} : ch'[x] = ch[x]
    BY <1>1 DEF ChannelInv
  <1>3. \A x \in Server : WellFormed(ch'[x])
    BY <1>2 DEF ChannelInv
  <1>4. \A x \in Server : ch'[x].members \subseteq KnownUsers(x)
    BY <1>2 DEF ChannelInv, MembersKnown
  <1>5. MembersKnown'
    BY <1>4 DEF MembersKnown, KnownUsers
  <1>6. \A x \in Server : ch[x].ts <= ch[x].ts
    BY ChannelFields DEF ChannelInv
  <1>7. TsStep
    BY <1>2, <1>6 DEF TsStep
  <1>. QED
    BY <1>2, <1>3, <1>5, <1>7 DEF ChannelInv

\* A handler of a channel message.
LEMMA HandleStep ==
    ASSUME IInv, NEW s \in Server, NEW t \in Server, NEW type, Receives(s, t, type),
           NEW c, WellFormed(c), c.members \subseteq KnownUsers(s),
           Exists(ch[s]) /\ Exists(c) => c.ts <= ch[s].ts,
           NEW msgs \in Seq(Msg), Handle(s, t, c, msgs)
    PROVE  IInv' /\ TsStep
  <1>1. ChannelInv' /\ TsStep
    BY ChannelStep DEF IInv, Handle
  <1>2. [x \in Server |-> IF x \in Up(s) \ {t} THEN msgs ELSE <<>>] \in Out
    BY OutTypes DEF Out
  <1>3. chan' \in Streams
    BY <1>2, DeliverStreams, ConsumeStreams DEF IInv, Handle
  <1>4. LinkInv'
    BY <1>3 DEF IInv, LinkInv, Handle, Streams
  <1>5. CountInv'
    BY DEF IInv, CountInv, Handle, counters
  <1>. QED
    BY <1>1, <1>4, <1>5 DEF IInv

\* An action of a local user.
LEMMA UpdateStep ==
    ASSUME IInv, NEW s \in Server, NEW c, WellFormed(c), c.members \subseteq KnownUsers(s),
           Exists(ch[s]) /\ Exists(c) => c.ts <= ch[s].ts,
           NEW msgs \in Seq(Msg), Update(s, c, msgs), UNCHANGED <<conn, known>>
    PROVE  LinkInv' /\ ChannelInv' /\ TsStep
  <1>1. ChannelInv' /\ TsStep
    BY ChannelStep DEF IInv, Update
  <1>2. [x \in Server |-> IF x \in Up(s) THEN msgs ELSE <<>>] \in Out
    BY OutTypes DEF Out
  <1>3. chan' \in Streams
    BY <1>2, DeliverStreams DEF IInv, LinkInv, Update
  <1>4. LinkInv'
    BY <1>3 DEF IInv, LinkInv, Update, Streams
  <1>. QED
    BY <1>1, <1>4

\* Learning about servers.
LEMMA LearnStep ==
    ASSUME ChannelInv, NEW s \in Server, NEW ids \in SUBSET Server,
           known' = [known EXCEPT ![s] = @ \cup ids], ch' = ch
    PROVE  ChannelInv' /\ TsStep
  <1>1. known' \in [Server -> SUBSET Server]
        /\ \A x \in Server : known[x] \subseteq known'[x]
    BY DEF ChannelInv
  <1>2. MembersKnown'
    BY <1>1 DEF ChannelInv, MembersKnown, KnownUsers
  <1>3. \A x \in Server : ch[x].ts <= ch[x].ts
    BY ChannelFields DEF ChannelInv
  <1>. QED
    BY <1>1, <1>2, <1>3 DEF ChannelInv, TsStep

\* Forgetting other servers: their users leave.
LEMMA ForgetStep ==
    ASSUME ChannelInv, NEW s \in Server, NEW gone \in SUBSET Server, s \notin gone,
           Forget(s, gone)
    PROVE  ChannelInv' /\ TsStep
  <1>. DEFINE L == {u \in User : Home[u] \in gone}
              c == Leave(ch[s], L)
  <1>1. WellFormed(ch[s])
    BY DEF ChannelInv
  <1>2. /\ WellFormed(c) /\ c.members = ch[s].members \ L
        /\ Exists(c) => c.ts = ch[s].ts
    BY <1>1, LeaveWellFormed
  <1>3. /\ ch' = [ch EXCEPT ![s] = c]
        /\ known' = [known EXCEPT ![s] = @ \ gone]
    BY DEF Forget
  <1>. HIDE DEF c
  <1>4. c \in Channel
    BY <1>2 DEF WellFormed
  <1>5. ch' \in [Server -> Channel] /\ ch'[s] = c /\ \A x \in Server \ {s} : ch'[x] = ch[x]
    BY <1>3, <1>4 DEF ChannelInv
  <1>6. /\ known' \in [Server -> SUBSET Server] /\ \A x \in Server : x \in known'[x]
        /\ known'[s] = known[s] \ gone
        /\ \A x \in Server \ {s} : known'[x] = known[x]
    BY <1>3 DEF ChannelInv
  <1>7. \A x \in Server : WellFormed(ch'[x])
    BY <1>2, <1>5 DEF ChannelInv
  <1>8. ch[s].members \subseteq User
    BY ChannelFields DEF ChannelInv
  <1>9. MembersKnown'
    BY <1>2, <1>5, <1>6, <1>8 DEF ChannelInv, MembersKnown, KnownUsers
  <1>10. \A x \in Server : ch[x].ts <= ch[x].ts
    BY ChannelFields DEF ChannelInv
  <1>11. TsStep
    BY <1>2, <1>5, <1>10 DEF TsStep
  <1>. QED
    BY <1>5, <1>6, <1>7, <1>9, <1>11 DEF ChannelInv

-----------------------------------------------------------------------------
(* Every action preserves the invariant and never raises a creation time *)

\* Link: one end runs server_sync
LEMMA LinkStep ==
    ASSUME IInv, NEW s \in Server, NEW t \in Server, Link(s, t)
    PROVE  IInv' /\ TsStep
  <1>1. s # t
    BY DEF Link
  <1>2. ChannelInv' /\ TsStep
    <2>1. known' = [known EXCEPT ![s] = @ \cup {t}] /\ ch' = ch
      BY DEF Link
    <2>2. {t} \in SUBSET Server
      OBVIOUS
    <2>. QED
      BY <2>1, <2>2, LearnStep DEF IInv
  <1>3. known[s] \in SUBSET Server /\ WellFormed(ch[s])
    BY DEF IInv, ChannelInv
  <1>. DEFINE D == Deliver(chan, s, ToOthers(s, t, SID({t})))
  <1>4. D \in Streams
    <2>1. SID({t}) \in Msg
      BY MessageTypes
    <2>. QED
      BY <2>1, OutTypes, DeliverStreams DEF IInv, LinkInv
  <1>5. PICK burst \in Bursts(ch[s]) :
           chan' = [D EXCEPT ![s][t] = <<SERVER(known[s])>> \o burst]
    BY DEF Link
  <1>6. <<SERVER(known[s])>> \o burst \in Seq(Msg)
    <2>1. burst \in Seq(Msg) /\ SERVER(known[s]) \in Msg
      BY <1>3, BurstTypes, MessageTypes
    <2>. QED
      BY <2>1, OutTypes
  <1>. HIDE DEF D
  <1>7. chan' \in Streams
    BY <1>1, <1>4, <1>5, <1>6 DEF Streams
  <1>8. conn' \in [Server -> [Server -> ConnState]] /\ \A x \in Server : conn'[x][x] = "none"
    BY <1>1 DEF Link, IInv, LinkInv, ConnState
  <1>9. CountInv'
    BY ConstantsAssumption DEF Link, IInv, CountInv
  <1>. QED
    BY <1>2, <1>7, <1>8, <1>9 DEF IInv, LinkInv, Streams

\* SERVER: the other end runs server_sync
LEMMA RecvSERVERStep ==
    ASSUME IInv, NEW s \in Server, NEW t \in Server, RecvSERVER(s, t)
    PROVE  IInv' /\ TsStep
  <1>. DEFINE ids == Head(chan[t][s]).ids
              out(burst) == [ToOthers(s, t, SID(ids)) EXCEPT ![t] = <<SID(known[s])>> \o burst]
  <1>1. s # t /\ Consume(s, t) \in Streams /\ ids \in SUBSET Server
    BY ConsumeStreams, MessageFields DEF IInv, RecvSERVER
  <1>2. known[s] \in SUBSET Server /\ WellFormed(ch[s])
    BY DEF IInv, ChannelInv
  <1>3. ChannelInv' /\ TsStep
    <2>1. known' = [known EXCEPT ![s] = @ \cup ids] /\ ch' = ch
      BY DEF RecvSERVER
    <2>. HIDE DEF ids
    <2>. QED
      BY <1>1, <2>1, LearnStep DEF IInv
  <1>4. PICK burst \in Bursts(ch[s]) : chan' = Deliver(Consume(s, t), s, out(burst))
    BY DEF RecvSERVER
  <1>5. out(burst) \in Out
    <2>. HIDE DEF ids
    <2>1. burst \in Seq(Msg) /\ SID(known[s]) \in Msg /\ SID(ids) \in Msg
      BY <1>1, <1>2, BurstTypes, MessageTypes
    <2>2. <<SID(known[s])>> \o burst \in Seq(Msg) /\ ToOthers(s, t, SID(ids)) \in Out
      BY <2>1, OutTypes
    <2>. QED
      BY <2>2 DEF Out
  <1>. HIDE DEF out
  <1>6. chan' \in Streams
    BY <1>1, <1>4, <1>5, DeliverStreams DEF IInv
  <1>7. conn' \in [Server -> [Server -> ConnState]] /\ \A x \in Server : conn'[x][x] = "none"
    BY <1>1 DEF RecvSERVER, IInv, LinkInv, ConnState
  <1>8. CountInv'
    BY DEF RecvSERVER, IInv, CountInv, counters
  <1>. QED
    BY <1>3, <1>6, <1>7, <1>8 DEF IInv, LinkInv, Streams

\* SID
LEMMA RecvSIDStep ==
    ASSUME IInv, NEW s \in Server, NEW t \in Server, RecvSID(s, t)
    PROVE  IInv' /\ TsStep
  <1>. DEFINE ids == Head(chan[t][s]).ids
  <1>1. Consume(s, t) \in Streams /\ ids \in SUBSET Server
    BY ConsumeStreams, MessageFields DEF IInv, RecvSID
  <1>2. /\ known' = [known EXCEPT ![s] = @ \cup ids] /\ ch' = ch /\ conn' = conn
        /\ chan' = Deliver(Consume(s, t), s, ToOthers(s, t, SID(ids)))
    BY DEF RecvSID
  <1>3. CountInv'
    BY DEF RecvSID, IInv, CountInv, counters
  <1>. HIDE DEF ids
  <1>4. ChannelInv' /\ TsStep
    BY <1>1, <1>2, LearnStep DEF IInv
  <1>5. ToOthers(s, t, SID(ids)) \in Out
    BY <1>1, MessageTypes, OutTypes
  <1>6. chan' \in Streams
    BY <1>1, <1>2, <1>5, DeliverStreams DEF IInv
  <1>. QED
    BY <1>2, <1>3, <1>4, <1>6 DEF IInv, LinkInv, Streams

\* SQUIT
LEMMA RecvSQUITStep ==
    ASSUME IInv, NEW s \in Server, NEW t \in Server, RecvSQUIT(s, t)
    PROVE  IInv' /\ TsStep
  <1>. DEFINE id == Head(chan[t][s]).id
              target == IF id = s THEN t ELSE id
  <1>1. s # t /\ Consume(s, t) \in Streams /\ id \in Server
    BY ConsumeStreams, MessageFields DEF IInv, RecvSQUIT
  <1>2. target \in Server /\ target # s
    BY <1>1
  <1>3. /\ Forget(s, Beyond(s, target)) /\ conn' = conn
        /\ chan' = Deliver(Consume(s, t), s, ToOthers(s, t, SQUIT(target)))
    BY DEF RecvSQUIT
  <1>4. CountInv'
    BY DEF RecvSQUIT, IInv, CountInv, counters
  <1>. HIDE DEF target
  <1>5. Beyond(s, target) \in SUBSET Server /\ s \notin Beyond(s, target)
    BY <1>2 DEF Beyond
  <1>6. ChannelInv' /\ TsStep
    BY <1>3, <1>5, ForgetStep DEF IInv
  <1>7. ToOthers(s, t, SQUIT(target)) \in Out
    BY <1>2, MessageTypes, OutTypes
  <1>8. chan' \in Streams
    BY <1>1, <1>3, <1>7, DeliverStreams DEF IInv
  <1>. QED
    BY <1>3, <1>4, <1>6, <1>8 DEF IInv, LinkInv, Streams

\* A link goes down at one end
LEMMA CloseLinkStep ==
    ASSUME IInv, NEW s \in Server, NEW t \in Server, s # t, CloseLink(s, t)
    PROVE  IInv' /\ TsStep
  <1>. DEFINE gone == IF conn[s][t] = "up" THEN Beyond(s, t) ELSE {}
              out == IF conn[s][t] = "up" THEN ToOthers(s, t, SQUIT(t)) ELSE [x \in Server |-> <<>>]
              D == Deliver(chan, s, out)
  <1>1. gone \in SUBSET Server /\ s \notin gone
    BY DEF Beyond
  <1>2. Forget(s, gone)
    BY DEF CloseLink
  <1>3. out \in Out
    <2>1. ToOthers(s, t, SQUIT(t)) \in Out
      BY MessageTypes, OutTypes
    <2>2. [x \in Server |-> <<>>] \in Out
      BY OutTypes DEF Out
    <2>. QED
      BY <2>1, <2>2
  <1>4. chan' = [D EXCEPT ![t][s] = <<>>,
                          ![s][t] = IF conn[t][s] # "none" THEN Append(@, EOF) ELSE <<>>]
    BY DEF CloseLink
  <1>. HIDE DEF gone, out
  <1>5. ChannelInv' /\ TsStep
    BY <1>1, <1>2, ForgetStep DEF IInv
  <1>6. D \in Streams
    BY <1>3, DeliverStreams DEF IInv, LinkInv
  <1>. HIDE DEF D
  <1>7. chan' \in Streams
    <2>1. D[s][t] \in Seq(Msg) /\ EOF \in Msg
      BY <1>6, MessageTypes DEF Streams
    <2>2. Append(D[s][t], EOF) \in Seq(Msg)
      BY <2>1, AppendProperties
    <2>3. chan' = [D EXCEPT ![t][s] = <<>>,
                            ![s][t] = IF conn[t][s] # "none" THEN Append(D[s][t], EOF) ELSE <<>>]
      BY <1>4, <1>6 DEF Streams
    <2>. QED
      BY <1>6, <2>2, <2>3, OutTypes DEF Streams
  <1>8. conn' \in [Server -> [Server -> ConnState]] /\ \A x \in Server : conn'[x][x] = "none"
    BY DEF CloseLink, IInv, LinkInv, ConnState
  <1>9. CountInv'
    BY DEF CloseLink, IInv, CountInv, counters
  <1>. QED
    BY <1>5, <1>7, <1>8, <1>9 DEF IInv, LinkInv, Streams

\* SJOIN: a user's JOIN, or a line of a burst
LEMMA RecvSJOINStep ==
    ASSUME IInv, NEW s \in Server, NEW t \in Server, RecvSJOIN(s, t)
    PROVE  IInv' /\ TsStep
  <1>. DEFINE m == Head(chan[t][s])
              new == m.members \cap KnownUsers(s)
              c == Sjoin(ch[s], m, new)
  <1>1. m \in Msg /\ m.type = "SJOIN"
    BY ConsumeStreams DEF IInv, RecvSJOIN
  <1>2. /\ m.ts \in TS /\ m.members \in SUBSET User /\ m.ops \in SUBSET User
        /\ m.modes \in SUBSET Flag /\ m.lim \in Limit \cup {0} /\ m.bans \in SUBSET User
    BY <1>1, MessageFields
  <1>3. Receives(s, t, "SJOIN") /\ Handle(s, t, c, <<SjoinOn(ch[s], m, new)>>)
    BY DEF RecvSJOIN
  <1>4. WellFormed(ch[s]) /\ ch[s].members \subseteq KnownUsers(s)
    BY DEF IInv, ChannelInv, MembersKnown
  <1>5. new \in SUBSET User /\ new \subseteq KnownUsers(s)
    BY <1>2
  <1>. HIDE DEF m, new
  <1>6. /\ WellFormed(c) /\ c.members = ch[s].members \cup new
        /\ Exists(ch[s]) => c.ts <= ch[s].ts
    BY <1>2, <1>4, <1>5, SjoinWellFormed
  <1>7. <<SjoinOn(ch[s], m, new)>> \in Seq(Msg)
    <2>1. m \in [type : {"SJOIN"}, ts : TS, members : SUBSET User, ops : SUBSET User,
                 modes : SUBSET Flag, lim : Limit \cup {0}, bans : SUBSET User]
      BY <1>1 DEF Msg
    <2>2. SjoinOn(ch[s], m, new) \in
              [type : {"SJOIN"}, ts : TS, members : SUBSET User, ops : SUBSET User,
               modes : SUBSET Flag, lim : Limit \cup {0}, bans : SUBSET User]
      BY <1>5, <2>1 DEF SjoinOn
    <2>3. SjoinOn(ch[s], m, new) \in Msg
      BY <2>2 DEF Msg
    <2>. QED
      BY <2>3, OutTypes
  <1>. HIDE DEF c
  <1>. QED
    BY <1>3, <1>4, <1>5, <1>6, <1>7, HandleStep

\* PART and KICK
LEMMA RecvLeaveStep ==
    ASSUME IInv, NEW s \in Server, NEW t \in Server, RecvLeave(s, t)
    PROVE  IInv' /\ TsStep
  <1>. DEFINE m == Head(chan[t][s])
              c == Leave(ch[s], {m.user})
  <1>1. PICK type : Receives(s, t, type)
    BY DEF RecvLeave
  <1>2. m \in Msg
    BY <1>1, ConsumeStreams DEF IInv
  <1>3. WellFormed(ch[s]) /\ ch[s].members \subseteq KnownUsers(s) /\ ch[s].ts \in Int
    BY ChannelFields DEF IInv, ChannelInv, MembersKnown
  <1>4. Handle(s, t, c, <<m>>) \/ Handle(s, t, ch[s], <<>>)
    BY DEF RecvLeave
  <1>5. /\ WellFormed(c) /\ c.members \subseteq KnownUsers(s)
        /\ Exists(c) => c.ts <= ch[s].ts
    <2>. HIDE DEF m
    <2>1. /\ WellFormed(c) /\ c.members = ch[s].members \ {m.user}
          /\ Exists(c) => c.ts = ch[s].ts
      BY <1>3, LeaveWellFormed
    <2>. QED
      BY <1>3, <2>1
  <1>6. <<m>> \in Seq(Msg) /\ <<>> \in Seq(Msg)
    BY <1>2, OutTypes
  <1>7. ch[s].ts <= ch[s].ts
    BY <1>3
  <1>. HIDE DEF m, c
  <1>. QED
    BY <1>1, <1>3, <1>4, <1>5, <1>6, <1>7, HandleStep

\* A server's MODE may lower the creation time, nothing else.
LEMMA ModeTsWellFormed ==
    ASSUME NEW c, WellFormed(c), Exists(c), NEW ts \in TS \cup {0}
    PROVE  /\ WellFormed(ModeTs(c, ts)) /\ ModeTs(c, ts).members = c.members
           /\ ModeTs(c, ts).ts <= c.ts
  <1>1. c \in Channel /\ c.ts \in TS
    BY DEF WellFormed
  <1>2. c.ts \in Int /\ ts \in Int /\ (ts # 0 => ts \in TS)
    <2>1. \A x \in TS \cup {0} : x \in Int
      BY ConstantsAssumption
    <2>. QED
      BY <1>1, <2>1
  <1>3. CASE ts = 0
    BY <1>2, <1>3 DEF ModeTs
  <1>4. CASE ts # 0
    <2>. DEFINE low == IF ts < c.ts THEN ts ELSE c.ts
    <2>1. low \in TS /\ low <= c.ts
      BY <1>1, <1>2, <1>4
    <2>2. ModeTs(c, ts) = [c EXCEPT !.ts = low]
      BY <1>1, <1>4 DEF ModeTs, Channel
    <2>. HIDE DEF low
    <2>3. /\ ModeTs(c, ts) \in Channel /\ ModeTs(c, ts).ts = low
          /\ ModeTs(c, ts).members = c.members /\ ModeTs(c, ts).ops = c.ops
          /\ ModeTs(c, ts).modes = c.modes
      BY <1>1, <2>1, <2>2 DEF Channel
    <2>. QED
      BY <2>1, <2>3 DEF WellFormed, Exists
  <1>. QED
    BY <1>3, <1>4

\* MODE
LEMMA RecvMODEStep ==
    ASSUME IInv, NEW s \in Server, NEW t \in Server, RecvMODE(s, t)
    PROVE  IInv' /\ TsStep
  <1>. DEFINE m == Head(chan[t][s])
              c == ch[s]
              dated == ModeTs(c, m.ts)
              new == SetMode(dated, m.change)
              on == IF new = dated THEN MODE(m.ts, Nothing) ELSE m
  <1>1. m \in Msg /\ m.ts \in TS \cup {0} /\ m.change \in Change
    BY ConsumeStreams, MessageFields DEF IInv, RecvMODE
  <1>2. Receives(s, t, "MODE")
    BY DEF RecvMODE
  <1>3. WellFormed(c) /\ c.members \subseteq KnownUsers(s) /\ c.ts \in Int
    BY ChannelFields DEF IInv, ChannelInv, MembersKnown
  <1>4. Handle(s, t, c, <<>>) \/ (Exists(c) /\ Handle(s, t, new, <<on>>))
    BY DEF RecvMODE
  <1>5. <<on>> \in Seq(Msg) /\ <<>> \in Seq(Msg)
    <2>1. Nothing \in Change
      BY DEF Nothing, Change
    <2>2. MODE(m.ts, Nothing) \in Msg
      BY <1>1, <2>1, MessageTypes
    <2>. HIDE DEF m, new, dated
    <2>. QED
      BY <1>1, <2>2, OutTypes
  <1>6. c.ts <= c.ts
    BY <1>3
  <1>. HIDE DEF m, on
  <1>7. Exists(c) => WellFormed(new) /\ new.members = c.members /\ new.ts <= c.ts
    <2>1. SUFFICES ASSUME Exists(c)
                   PROVE  WellFormed(new) /\ new.members = c.members /\ new.ts <= c.ts
      OBVIOUS
    <2>2. WellFormed(dated) /\ dated.members = c.members /\ dated.ts <= c.ts
      BY <1>1, <1>3, <2>1, ModeTsWellFormed
    <2>3. Exists(dated)
      BY <2>1, <2>2 DEF Exists
    <2>. HIDE DEF dated, c
    <2>. QED
      BY <1>1, <2>2, <2>3, SetModeWellFormed
  <1>. HIDE DEF new
  <1>. QED
    BY <1>2, <1>3, <1>4, <1>5, <1>6, <1>7, HandleStep

\* JOIN, PART, KICK and MODE of local users
LEMMA UserStepStep ==
    ASSUME IInv, UserStep
    PROVE  IInv' /\ TsStep
  <1>1. PICK u \in User :
            \/ \E ts \in TS : JoinNew(u, ts)
            \/ JoinExisting(u)
            \/ Part(u)
            \/ \E v \in User : Kick(u, v)
            \/ \E d \in Change : ChangeMode(u, d)
    BY DEF UserStep
  <1>. DEFINE s == Home[u]
              c == ch[s]
  <1>2. s \in Server
    BY ConstantsAssumption
  <1>3. /\ WellFormed(c) /\ c \in Channel /\ c.members \subseteq KnownUsers(s)
        /\ c.ts \in Int /\ u \in KnownUsers(s)
    BY <1>2, ChannelFields DEF IInv, ChannelInv, MembersKnown, KnownUsers
  <1>4. Acts(u) => nop' \in 0..MaxOp /\ nlink' \in 0..MaxLink /\ UNCHANGED <<conn, known>>
    BY ConstantsAssumption DEF Acts, IInv, CountInv
  <1>5. nkick' = nkick => nkick' \in 0..MaxKick
    BY DEF IInv, CountInv
  <1>6. nmode' = nmode => nmode' \in 0..MaxMode
    BY DEF IInv, CountInv
  <1>7. ASSUME NEW ts \in TS, JoinNew(u, ts)
        PROVE  IInv' /\ TsStep
    <2>. DEFINE d == [mode |-> ModesOnJoin, add |-> TRUE, arg |-> None]
                new == [NoChannel EXCEPT !.ts = ts, !.members = {u}, !.ops = {u}]
                line == SJOIN(ts, {u}, {u}, {}, 0, {})
    <2>1. /\ Acts(u) /\ ~Exists(c) /\ nkick' = nkick /\ nmode' = nmode
          /\ \/ Update(s, new, <<line>>)
             \/ /\ ModesOnJoin # None
                /\ Update(s, SetMode(new, d), <<line, MODE(ts, d)>>)
      BY <1>7 DEF JoinNew
    <2>2. /\ new \in Channel /\ new.ts = ts /\ new.modes = {}
          /\ new.members = {u} /\ new.ops = {u}
      <3>1. NoChannel \in Channel /\ NoChannel.modes = {}
        BY DEF NoChannel, Channel
      <3>. QED
        BY <3>1 DEF Channel
    <2>3. WellFormed(new) /\ new.members = {u} /\ Exists(new)
      <3>. HIDE DEF new
      <3>. QED
        BY <2>2 DEF WellFormed, Exists
    <2>4. line \in Msg
      <3>1. {u} \in SUBSET User /\ {} \in SUBSET User /\ {} \in SUBSET Flag /\ 0 \in Limit \cup {0}
        OBVIOUS
      <3>. QED
        BY <3>1, MessageTypes
    <2>5. ModesOnJoin # None => d \in Change
      BY ConstantsAssumption DEF Change, Flag
    <2>6. ModesOnJoin # None => MODE(ts, d) \in Msg
      BY <2>5, MessageTypes
    <2>. HIDE DEF d, new, line
    <2>7. ModesOnJoin # None => WellFormed(SetMode(new, d)) /\ SetMode(new, d).members = {u}
      BY <2>3, <2>5, SetModeWellFormed
    <2>8. <<line>> \in Seq(Msg) /\ (ModesOnJoin # None => <<line, MODE(ts, d)>> \in Seq(Msg))
      BY <2>4, <2>6, OutTypes
    <2>9. LinkInv' /\ ChannelInv' /\ TsStep
      <3>1. UNCHANGED <<conn, known>> /\ {u} \subseteq KnownUsers(s)
        BY <1>3, <1>4, <2>1
      <3>2. CASE Update(s, new, <<line>>)
        BY <1>2, <2>1, <2>3, <2>8, <3>1, <3>2, UpdateStep
      <3>3. CASE ModesOnJoin # None /\ Update(s, SetMode(new, d), <<line, MODE(ts, d)>>)
        <4>. DEFINE e == SetMode(new, d)
                    q == <<line, MODE(ts, d)>>
        <4>1. WellFormed(e) /\ e.members \subseteq KnownUsers(s) /\ q \in Seq(Msg) /\ Update(s, e, q)
          BY <2>7, <2>8, <3>1, <3>3
        <4>. HIDE DEF e, q
        <4>. QED
          BY <1>2, <2>1, <3>1, <4>1, UpdateStep
      <3>. QED
        BY <2>1, <3>2, <3>3
    <2>. QED
      BY <1>4, <1>5, <1>6, <2>1, <2>9 DEF IInv, CountInv
  <1>8. ASSUME JoinExisting(u)
        PROVE  IInv' /\ TsStep
    <2>. DEFINE new == [c EXCEPT !.members = @ \cup {u}]
                line == SJOIN(c.ts, {u}, {}, {}, 0, {})
    <2>1. Acts(u) /\ Exists(c) /\ nkick' = nkick /\ nmode' = nmode /\ Update(s, new, <<line>>)
      BY <1>8 DEF JoinExisting
    <2>2. WellFormed(new) /\ new.members = c.members \cup {u} /\ new.ts = c.ts
      BY <1>3, <2>1 DEF WellFormed, Channel, Exists
    <2>3. line \in Msg
      <3>1. {u} \in SUBSET User /\ {} \in SUBSET User /\ {} \in SUBSET Flag /\ 0 \in Limit \cup {0}
            /\ c.ts \in TS
        BY <1>3, <2>1 DEF WellFormed
      <3>. QED
        BY <3>1, MessageTypes
    <2>4. <<line>> \in Seq(Msg) /\ UNCHANGED <<conn, known>>
      BY <1>4, <2>1, <2>3, OutTypes
    <2>5. new.members \subseteq KnownUsers(s) /\ new.ts <= c.ts
      BY <1>3, <2>2
    <2>. HIDE DEF new, line
    <2>6. LinkInv' /\ ChannelInv' /\ TsStep
      BY <1>2, <2>1, <2>2, <2>4, <2>5, UpdateStep
    <2>. QED
      BY <1>4, <1>5, <1>6, <2>1, <2>6 DEF IInv, CountInv
  <1>9. ASSUME NEW v \in User, NEW m \in Msg, Acts(u), Update(s, Leave(c, {v}), <<m>>)
        PROVE  LinkInv' /\ ChannelInv' /\ TsStep
    <2>. DEFINE new == Leave(c, {v})
    <2>1. WellFormed(new) /\ new.members = c.members \ {v} /\ (Exists(new) => new.ts = c.ts)
      BY <1>3, LeaveWellFormed
    <2>2. new.members \subseteq KnownUsers(s) /\ (Exists(new) => new.ts <= c.ts)
      BY <1>3, <2>1
    <2>3. <<m>> \in Seq(Msg) /\ UNCHANGED <<conn, known>> /\ Update(s, new, <<m>>)
      BY <1>4, <1>9, OutTypes
    <2>. HIDE DEF new
    <2>. QED
      BY <1>2, <2>1, <2>2, <2>3, UpdateStep
  <1>10. ASSUME Part(u)
         PROVE  IInv' /\ TsStep
    <2>1. Acts(u) /\ Update(s, Leave(c, {u}), <<PART(u)>>) /\ nkick' = nkick /\ nmode' = nmode
      BY <1>10 DEF Part
    <2>2. LinkInv' /\ ChannelInv' /\ TsStep
      BY <1>9, <2>1, MessageTypes
    <2>. QED
      BY <1>4, <1>5, <1>6, <2>1, <2>2 DEF IInv, CountInv
  <1>11. ASSUME NEW v \in User, Kick(u, v)
         PROVE  IInv' /\ TsStep
    <2>1. Acts(u) /\ Update(s, Leave(c, {v}), <<KICK(v)>>) /\ nmode' = nmode
      BY <1>11 DEF Kick
    <2>2. nkick' \in 0..MaxKick
      BY <1>11, ConstantsAssumption DEF Kick, IInv, CountInv
    <2>3. LinkInv' /\ ChannelInv' /\ TsStep
      BY <1>9, <2>1, MessageTypes
    <2>. QED
      BY <1>4, <1>6, <2>1, <2>2, <2>3 DEF IInv, CountInv
  <1>12. ASSUME NEW d \in Change, ChangeMode(u, d)
         PROVE  IInv' /\ TsStep
    <2>. DEFINE new == SetMode(c, d)
    <2>1. Acts(u) /\ u \in c.ops /\ Update(s, new, <<MODE(0, d)>>) /\ nkick' = nkick
      BY <1>12 DEF ChangeMode
    <2>2. Exists(c)
      BY <1>3, <2>1 DEF WellFormed, Exists
    <2>3. WellFormed(new) /\ new.members = c.members /\ new.ts = c.ts
      BY <1>3, <2>2, SetModeWellFormed
    <2>4. MODE(0, d) \in Msg
      <3>1. 0 \in TS \cup {0}
        OBVIOUS
      <3>. QED
        BY <3>1, MessageTypes
    <2>5. <<MODE(0, d)>> \in Seq(Msg) /\ UNCHANGED <<conn, known>>
      BY <1>4, <2>1, <2>4, OutTypes
    <2>6. new.members \subseteq KnownUsers(s) /\ new.ts <= c.ts
      BY <1>3, <2>3
    <2>. HIDE DEF new
    <2>7. LinkInv' /\ ChannelInv' /\ TsStep
      BY <1>2, <2>1, <2>3, <2>5, <2>6, UpdateStep
    <2>8. nmode' \in 0..MaxMode
      BY <1>12, ConstantsAssumption DEF ChangeMode, IInv, CountInv
    <2>. QED
      BY <1>4, <1>5, <2>1, <2>7, <2>8 DEF IInv, CountInv
  <1>. QED
    BY <1>1, <1>7, <1>8, <1>10, <1>11, <1>12

\* Every step preserves the invariant and lets no creation time rise.
LEMMA NextStep ==
    ASSUME IInv, [Next]_vars
    PROVE  IInv' /\ TsStep
  <1>1. CASE UserStep
    BY <1>1, UserStepStep
  <1>2. ASSUME NEW s \in Server, NEW t \in Server, Link(s, t) \/ LoseLink(s, t) \/ Receive(s, t)
        PROVE  IInv' /\ TsStep
    <2>1. LoseLink(s, t) => s # t /\ CloseLink(s, t)
      BY DEF LoseLink, IInv, LinkInv
    <2>2. ReadEOF(s, t) => s # t /\ CloseLink(s, t)
      BY ConsumeStreams DEF ReadEOF, IInv
    <2>. QED
      BY <1>2, <2>1, <2>2, LinkStep, CloseLinkStep, RecvSERVERStep, RecvSIDStep, RecvSQUITStep,
         RecvSJOINStep, RecvLeaveStep, RecvMODEStep DEF Receive
  <1>3. CASE UNCHANGED vars
    <2>1. \A x \in Server : ch[x].ts <= ch[x].ts
      BY ChannelFields DEF IInv, ChannelInv
    <2>2. TsStep
      BY <1>3, <2>1 DEF vars, TsStep
    <2>3. LinkInv' /\ CountInv'
      BY <1>3 DEF vars, IInv, LinkInv, CountInv, Streams
    <2>4. ChannelInv'
      BY <1>3 DEF vars, IInv, ChannelInv, MembersKnown, KnownUsers
    <2>. QED
      BY <2>2, <2>3, <2>4 DEF IInv
  <1>. QED
    BY <1>1, <1>2, <1>3 DEF Next

\* The invariant holds in every reachable state.
THEOREM Invariance == Spec => []IInv
  <1>1. Init => IInv
    <2>. SUFFICES ASSUME Init PROVE IInv
      OBVIOUS
    <2>1. WellFormed(NoChannel) /\ NoChannel \in Channel /\ NoChannel.members = {}
      BY DEF WellFormed, NoChannel, Exists, Channel
    <2>2. ChannelInv
      BY <2>1 DEF Init, ChannelInv, MembersKnown
    <2>3. LinkInv
      BY OutTypes DEF Init, LinkInv, ConnState, Streams
    <2>4. CountInv
      BY ConstantsAssumption DEF Init, CountInv
    <2>. QED
      BY <2>2, <2>3, <2>4 DEF IInv
  <1>2. IInv /\ [Next]_vars => IInv'
    BY NextStep
  <1>. QED
    BY <1>1, <1>2, PTL DEF Spec

\* On every server the channel stays well-formed and disappears with its last
\* member, whatever JOIN, PART, KICK, MODE, SJOIN or netsplit does to it.
THEOREM TypeCorrect == Spec => []TypeOK
  <1>1. IInv => TypeOK
    BY DEF IInv, LinkInv, ChannelInv, CountInv, Streams, TypeOK
  <1>. QED
    BY <1>1, Invariance, PTL

\* A server never has a channel member it does not know as a user: a split
\* removes them all, and a late SJOIN cannot bring one back.
THEOREM MembersKnownHolds == Spec => []MembersKnown
  <1>1. IInv => MembersKnown
    BY DEF IInv, ChannelInv
  <1>. QED
    BY <1>1, Invariance, PTL

\* The creation time of a channel never rises while the channel exists.
THEOREM TsOnlyFallsHolds == Spec => TsOnlyFalls
  <1>1. IInv /\ [Next]_vars => [TsStep]_vars
    BY NextStep
  <1>2. []IInv /\ [][Next]_vars => [][TsStep]_vars
    BY <1>1, PTL
  <1>. QED
    BY <1>2, Invariance, PTL DEF Spec, TsOnlyFalls, TsStep

-----------------------------------------------------------------------------
(***************************************************************************)
(* Two linked servers with nothing in flight agree on the members of the   *)
(* channel, for every tree of servers, as long as users leave only by      *)
(* themselves or with their server (no KICK): MembersAgree of ChannelSync. *)
(*                                                                         *)
(* What one server thinks of a user on the far side of a link runs behind  *)
(* what its neighbour thinks: the messages in flight between them, read in *)
(* order, lead from the one view to the other (Follows).  Reading takes    *)
(* the first step of that way, sending adds one at its end.                *)
(***************************************************************************)
Views == {"away", "known", "member"}

\* What s thinks of user u
View(s, u) ==
    IF u \in ch[s].members THEN "member"
    ELSE IF Home[u] \in known[s] THEN "known"
    ELSE "away"

\* What message m makes of the view v of u at its reader s
After(v, m, s, u) ==
    IF m.type \in {"SERVER", "SID"} THEN IF v = "away" /\ Home[u] \in m.ids THEN "known" ELSE v
    ELSE IF m.type = "SQUIT" THEN IF Home[u] \in Beyond(s, m.id) THEN "away" ELSE v
    ELSE IF m.type = "SJOIN" THEN IF v # "away" /\ u \in m.members THEN "member" ELSE v
    ELSE IF m.type \in {"PART", "KICK"} THEN IF v = "member" /\ u = m.user THEN "known" ELSE v
    ELSE v

\* The messages q, read by s in order, lead from view v of u to view w
Course(q, v, w, s, u) ==
    \E f \in [0..Len(q) -> Views] :
        /\ f[0] = v /\ f[Len(q)] = w
        /\ \A i \in 1..Len(q) : f[i] = After(f[i - 1], q[i], s, u)

\* Message m is about servers of S and their users only
About(m, S) ==
    /\ m.type \in {"SERVER", "SID"} => m.ids \subseteq S
    /\ m.type = "SQUIT" => m.id \in S
    /\ m.type = "SJOIN" => \A u \in m.members : Home[u] \in S
    /\ m.type \in {"PART", "KICK"} => Home[m.user] \in S

\* The messages of q are about servers of S, and none of them opens a link
Plain(q, S) == \A i \in 1..Len(q) : q[i].type # "SERVER" /\ About(q[i], S)

\* The ends of a connection: who has not answered yet has sent nothing and
\* finds SERVER first in its stream; SERVER is nowhere else.
Ends(s, t) ==
    /\ conn[s][t] # "none" => {s, t} \in Edge
    /\ conn[t][s] = "none" => chan[s][t] = <<>>
    /\ conn[t][s] = "out" => chan[s][t] # <<>> /\ Head(chan[s][t]).type = "SERVER"
    /\ conn[t][s] = "up" => \A i \in 1..Len(chan[s][t]) : chan[s][t][i].type # "SERVER"
    /\ \A i \in 2..Len(chan[s][t]) : chan[s][t][i].type # "SERVER"
    /\ conn[s][t] = "out" => chan[s][t] = <<>> /\ conn[t][s] # "out"

\* What s tells t is about servers on the side of s
Located(s, t) ==
    \A i \in 1..Len(chan[s][t]) : About(chan[s][t][i], Beyond(t, s))

\* Without a link to t, s knows nobody over there ...
Severed(s, t) ==
    {s, t} \in Edge /\ conn[s][t] # "up" => known[s] \cap Beyond(s, t) = {}

\* ... and as long as t has not answered, only t itself.
Unanswered(s, t) ==
    conn[s][t] = "up" /\ conn[t][s] = "out" =>
        /\ known[s] \cap Beyond(s, t) \subseteq {t}
        /\ \A u \in ch[s].members : Home[u] \notin Beyond(s, t)

\* t's view of the users on the side of s follows the view of s
Follows(s, t) ==
    conn[s][t] = "up" /\ conn[t][s] # "none" =>
        \A u \in User : Home[u] \in Beyond(t, s) => Course(chan[s][t], View(t, u), View(s, u), t, u)

Pair(s, t) ==
    Ends(s, t) /\ Located(s, t) /\ Severed(s, t) /\ Unanswered(s, t) /\ Follows(s, t)

Pairs == \A s, t \in Server : s # t => Pair(s, t)

-----------------------------------------------------------------------------
(* The tree *)

\* What lies beyond a neighbour is what is reached through it.
LEMMA BeyondAcross ==
    ASSUME NEW s \in Server, NEW t \in Server, {s, t} \in Edge, s # t
    PROVE  Beyond(s, t) = Across(s, t)
  <1>1. s \in Across(t, s) /\ Across(s, t) = Server \ Across(t, s)
    <2>1. {t, s} \in Edge
      BY Zenon
    <2>. QED
      BY <2>1, TreeAssumption
  <1>2. Hop[t][s] = s
    BY <1>1 DEF Across
  <1>. QED
    BY <1>1, <1>2 DEF Beyond, Across

\* A link cuts the network in two.
LEMMA Sides ==
    ASSUME NEW s \in Server, NEW t \in Server, {s, t} \in Edge, s # t
    PROVE  /\ {t, s} \in Edge
           /\ Beyond(t, s) = Server \ Beyond(s, t)
           /\ s \in Beyond(t, s) /\ t \in Beyond(s, t)
           /\ s \notin Beyond(s, t) /\ t \notin Beyond(t, s)
           /\ Beyond(s, t) \in SUBSET Server
  <1>1. {t, s} \in Edge
    BY Zenon
  <1>2. Beyond(s, t) = Across(s, t) /\ Beyond(t, s) = Across(t, s)
    BY <1>1, BeyondAcross
  <1>3. Across(t, s) = Server \ Across(s, t) /\ t \in Across(s, t) /\ s \in Across(t, s)
    BY <1>1, TreeAssumption
  <1>4. \A x \in Across(s, t) : x \in Server
    BY DEF Across
  <1>. QED
    BY <1>1, <1>2, <1>3, <1>4

\* Seen from s, what lies beyond different neighbours is different, and beyond
\* s seen from the one lies all that is beyond the other.
LEMMA Branches ==
    ASSUME NEW s \in Server, NEW t \in Server, NEW v \in Server,
           {s, t} \in Edge, s # t, {s, v} \in Edge, s # v, v # t
    PROVE  /\ Beyond(s, t) \cap Beyond(s, v) = {}
           /\ Beyond(s, t) \subseteq Beyond(v, s)
  <1>1. Beyond(s, t) = Across(s, t) /\ Beyond(s, v) = Across(s, v)
    BY BeyondAcross
  <1>2. Beyond(s, t) \cap Beyond(s, v) = {}
    BY <1>1 DEF Across
  <1>3. Beyond(v, s) = Server \ Beyond(s, v) /\ Beyond(s, t) \in SUBSET Server
    BY Sides
  <1>. QED
    BY <1>2, <1>3

\* A server lost beyond t takes only servers beyond t along, and the same ones
\* seen from any other neighbour.
LEMMA Loss ==
    ASSUME NEW s \in Server, NEW t \in Server, {s, t} \in Edge, s # t,
           NEW id \in Beyond(s, t)
    PROVE  /\ Beyond(s, id) \subseteq Beyond(s, t)
           /\ \A v \in Server : {s, v} \in Edge /\ s # v /\ v # t => Beyond(v, id) = Beyond(s, id)
  <1>1. {t, s} \in Edge /\ Beyond(t, s) = Server \ Beyond(s, t) /\ s \in Beyond(t, s)
    BY Sides
  <1>2. Beyond(s, t) = Across(s, t) /\ Beyond(t, s) = Across(t, s)
    BY <1>1, BeyondAcross
  <1>3. \A x \in Across(s, t) \ {t}, y \in Across(t, s) : Hop[x][y] = Hop[x][t]
    BY TreeAssumption
  <1>4. \A y \in Beyond(t, s) : Hop[id][y] = Hop[id][s]
    <2>1. CASE id = t
      BY <1>1, <1>2, <2>1 DEF Across
    <2>2. CASE id # t
      BY <1>1, <1>2, <1>3, <2>2
    <2>. QED
      BY <2>1, <2>2
  <1>5. Beyond(s, id) \subseteq Beyond(s, t)
    BY <1>1, <1>4 DEF Beyond
  <1>6. ASSUME NEW v \in Server, {s, v} \in Edge, s # v, v # t
        PROVE  Beyond(v, id) = Beyond(s, id)
    <2>1. v \in Beyond(t, s)
      <3>1. v \in Beyond(s, v) /\ Beyond(s, t) \cap Beyond(s, v) = {}
        BY <1>6, Sides, Branches
      <3>. QED
        BY <1>1, <3>1
    <2>2. Hop[id][v] = Hop[id][s]
      BY <1>4, <2>1
    <2>. QED
      BY <2>2 DEF Beyond
  <1>. QED
    BY <1>5, <1>6

-----------------------------------------------------------------------------
(* Courses *)

\* A message takes a view to a view.
LEMMA AfterViews ==
    ASSUME NEW v \in Views, NEW m, NEW s, NEW u
    PROVE  After(v, m, s, u) \in Views
  BY DEF After, Views

\* Nothing in flight: the views are the same.
LEMMA CourseEmpty ==
    ASSUME NEW v, NEW w, NEW s, NEW u
    PROVE  /\ Course(<<>>, v, w, s, u) => v = w
           /\ v \in Views => Course(<<>>, v, v, s, u)
  <1>1. Len(<<>>) = 0 /\ 0..0 = {0} /\ 1..0 = {}
    OBVIOUS
  <1>2. ASSUME v \in Views PROVE Course(<<>>, v, v, s, u)
    <2>. DEFINE f == [i \in 0..0 |-> v]
    <2>1. f \in [0..0 -> Views] /\ f[0] = v
      BY <1>1, <1>2
    <2>. QED
      BY <1>1, <2>1 DEF Course
  <1>3. Course(<<>>, v, w, s, u) => v = w
    BY <1>1 DEF Course
  <1>. QED
    BY <1>2, <1>3

\* One message.
LEMMA CourseOne ==
    ASSUME NEW v \in Views, NEW m, NEW s, NEW u
    PROVE  Course(<<m>>, v, After(v, m, s, u), s, u)
  <1>. DEFINE w == After(v, m, s, u)
              f == [i \in 0..1 |-> IF i = 0 THEN v ELSE w]
  <1>1. Len(<<m>>) = 1 /\ <<m>>[1] = m
    OBVIOUS
  <1>2. w \in Views
    BY AfterViews
  <1>3. f \in [0..1 -> Views] /\ f[0] = v /\ f[1] = w
    BY <1>2
  <1>4. \A i \in 1..1 : f[i] = After(f[i - 1], <<m>>[i], s, u)
    <2>1. \A i \in 1..1 : i = 1 /\ i - 1 = 0
      OBVIOUS
    <2>. HIDE DEF f
    <2>. QED
      BY <1>1, <1>3, <2>1
  <1>. HIDE DEF f, w
  <1>5. Course(<<m>>, v, w, s, u)
    BY <1>1, <1>3, <1>4 DEF Course
  <1>. QED
    BY <1>5 DEF w

\* Reading the first message is the first step.
LEMMA CourseHead ==
    ASSUME NEW q \in Seq(Msg), q # <<>>, NEW v, NEW w, NEW s, NEW u, Course(q, v, w, s, u)
    PROVE  Course(Tail(q), After(v, Head(q), s, u), w, s, u)
  <1>1. PICK f \in [0..Len(q) -> Views] :
            /\ f[0] = v /\ f[Len(q)] = w
            /\ \A i \in 1..Len(q) : f[i] = After(f[i - 1], q[i], s, u)
    BY DEF Course
  <1>2. /\ Len(q) \in Nat /\ Len(q) >= 1 /\ Len(Tail(q)) = Len(q) - 1 /\ Head(q) = q[1]
        /\ \A i \in 1..Len(q) - 1 : Tail(q)[i] = q[i + 1]
    BY HeadTailProperties
  <1>. DEFINE g == [i \in 0..Len(q) - 1 |-> f[i + 1]]
              n == Len(q)
  <1>3. g \in [0..n - 1 -> Views] /\ g[0] = f[1] /\ g[n - 1] = f[n]
        /\ \A i \in 1..n - 1 : g[i] = f[i + 1] /\ g[i - 1] = f[i] /\ i + 1 \in 1..n
    BY <1>2
  <1>4. f[1] = After(v, Head(q), s, u)
    <2>1. 1 \in 1..n /\ 1 - 1 = 0
      BY <1>2
    <2>. QED
      BY <1>1, <1>2, <2>1
  <1>5. \A i \in 1..n - 1 : g[i] = After(g[i - 1], Tail(q)[i], s, u)
    <2>1. SUFFICES ASSUME NEW i \in 1..n - 1 PROVE g[i] = After(g[i - 1], Tail(q)[i], s, u)
      OBVIOUS
    <2>2. i + 1 \in 1..n /\ (i + 1) - 1 = i
      BY <1>3
    <2>3. f[i + 1] = After(f[(i + 1) - 1], q[i + 1], s, u)
      BY <1>1, <2>2
    <2>. HIDE DEF g, n
    <2>4. f[i + 1] = After(f[i], q[i + 1], s, u)
      BY <2>2, <2>3
    <2>. QED
      BY <1>2, <1>3, <2>4 DEF n
  <1>. HIDE DEF g
  <1>. QED
    BY <1>1, <1>2, <1>3, <1>4, <1>5 DEF Course

\* Sending more adds its course at the end.
LEMMA CourseConcat ==
    ASSUME NEW q \in Seq(Msg), NEW p \in Seq(Msg), NEW v, NEW w, NEW z, NEW s, NEW u,
           Course(q, v, w, s, u), Course(p, w, z, s, u)
    PROVE  Course(q \o p, v, z, s, u)
  <1>. DEFINE n == Len(q)
              k == Len(p)
              r == q \o p
  <1>1. PICK f \in [0..n -> Views] :
            /\ f[0] = v /\ f[n] = w
            /\ \A i \in 1..n : f[i] = After(f[i - 1], q[i], s, u)
    BY DEF Course
  <1>2. PICK g \in [0..k -> Views] :
            /\ g[0] = w /\ g[k] = z
            /\ \A i \in 1..k : g[i] = After(g[i - 1], p[i], s, u)
    BY DEF Course
  <1>3. /\ n \in Nat /\ k \in Nat /\ Len(r) = n + k
        /\ \A i \in 1..n + k : r[i] = IF i <= n THEN q[i] ELSE p[i - n]
    BY ConcatProperties
  <1>. DEFINE h == [i \in 0..n + k |-> IF i <= n THEN f[i] ELSE g[i - n]]
  <1>. HIDE DEF n, k, r
  <1>4. h \in [0..n + k -> Views]
    <2>1. \A i \in 0..n + k : (i <= n => i \in 0..n) /\ (~(i <= n) => i - n \in 0..k)
      BY <1>3
    <2>. QED
      BY <2>1
  <1>5. h[0] = v /\ h[n + k] = z
    <2>1. h[0] = v
      BY <1>1, <1>3
    <2>2. CASE k = 0
      BY <1>1, <1>2, <1>3, <2>2
    <2>3. CASE k # 0
      <3>1. n + k \in 0..n + k /\ ~(n + k <= n) /\ (n + k) - n = k
        BY <1>3, <2>3
      <3>2. h[n + k] = g[k]
        BY <1>3, <3>1
      <3>. QED
        BY <1>2, <2>1, <3>2
    <2>. QED
      BY <2>1, <2>2, <2>3
  <1>6. ASSUME NEW i \in 1..n + k
        PROVE  h[i] = After(h[i - 1], r[i], s, u)
    <2>0. i \in Int /\ i - 1 \in 0..n + k /\ i \in 0..n + k
      BY <1>3
    <2>1. CASE i <= n
      <3>1. i \in 1..n /\ i - 1 <= n
        BY <1>3, <2>0, <2>1
      <3>2. h[i] = f[i] /\ h[i - 1] = f[i - 1] /\ r[i] = q[i]
        BY <1>3, <2>0, <2>1, <3>1
      <3>. QED
        BY <1>1, <3>1, <3>2
    <2>2. CASE ~(i <= n)
      <3>1. i - n \in 1..k
        BY <1>3, <2>2
      <3>2. h[i] = g[i - n] /\ r[i] = p[i - n]
        BY <1>3, <2>0, <2>2
      <3>3. h[i - 1] = g[(i - n) - 1]
        <4>1. CASE i - 1 = n
          <5>1. (i - n) - 1 = 0 /\ i - 1 <= n
            BY <1>3, <2>0, <4>1
          <5>. QED
            BY <1>1, <1>2, <2>0, <4>1, <5>1
        <4>2. CASE i - 1 # n
          <5>1. ~(i - 1 <= n) /\ (i - 1) - n = (i - n) - 1
            BY <1>3, <2>0, <2>2, <4>2
          <5>. QED
            BY <2>0, <5>1
        <4>. QED
          BY <4>1, <4>2
      <3>. QED
        BY <1>2, <3>1, <3>2, <3>3
    <2>. QED
      BY <2>1, <2>2
  <1>. HIDE DEF h
  <1>7. Course(r, v, z, s, u)
    BY <1>3, <1>4, <1>5, <1>6 DEF Course
  <1>. QED
    BY <1>7 DEF r

\* Two messages.
LEMMA CourseTwo ==
    ASSUME NEW v \in Views, NEW m1 \in Msg, NEW m2 \in Msg, NEW s, NEW u
    PROVE  Course(<<m1, m2>>, v, After(After(v, m1, s, u), m2, s, u), s, u)
  <1>. DEFINE w == After(v, m1, s, u)
              z == After(w, m2, s, u)
              r == <<m1>> \o <<m2>>
              p == <<m1, m2>>
  <1>1. w \in Views /\ <<m1>> \in Seq(Msg) /\ <<m2>> \in Seq(Msg)
    BY AfterViews, OutTypes
  <1>2. r = p
    <2>1. /\ r \in Seq(Msg) /\ Len(r) = 2
          /\ \A i \in 1..2 : r[i] = IF i <= 1 THEN <<m1>>[i] ELSE <<m2>>[i - 1]
      BY ConcatProperties
    <2>2. p \in Seq(Msg) /\ Len(p) = 2 /\ p[1] = m1 /\ p[2] = m2
      OBVIOUS
    <2>3. \A i \in 1..2 : r[i] = p[i]
      BY <2>1, <2>2
    <2>. HIDE DEF r, p
    <2>. QED
      BY <2>1, <2>2, <2>3, SeqEqual
  <1>3. Course(<<m1>>, v, w, s, u)
    BY CourseOne
  <1>. HIDE DEF w
  <1>4. Course(<<m2>>, w, z, s, u)
    BY <1>1, CourseOne
  <1>. HIDE DEF z
  <1>5. Course(r, v, z, s, u)
    BY <1>1, <1>3, <1>4, CourseConcat
  <1>. HIDE DEF r
  <1>. QED
    BY <1>2, <1>5 DEF p, z, w

\* One plain message.
LEMMA PlainOne ==
    ASSUME NEW m, NEW S, m.type # "SERVER", About(m, S)
    PROVE  Plain(<<m>>, S)
  <1>1. Len(<<m>>) = 1 /\ <<m>>[1] = m /\ \A i \in 1..1 : i = 1
    OBVIOUS
  <1>. QED
    BY <1>1 DEF Plain

\* Two plain messages in a row.
LEMMA PlainTwo ==
    ASSUME NEW m1, NEW m2, NEW S, m1.type # "SERVER", m2.type # "SERVER",
           About(m1, S), About(m2, S)
    PROVE  Plain(<<m1, m2>>, S)
  <1>1. /\ Len(<<m1, m2>>) = 2 /\ <<m1, m2>>[1] = m1 /\ <<m1, m2>>[2] = m2
        /\ \A i \in 1..2 : i = 1 \/ i = 2
    OBVIOUS
  <1>. QED
    BY <1>1 DEF Plain

-----------------------------------------------------------------------------
(* What a step of s leaves alone *)

\* The tables of s about the servers beyond x, and its view of their users
Untouched(s, x) ==
    /\ known'[s] \cap Beyond(s, x) \subseteq known[s]
    /\ \A u \in User : Home[u] \in Beyond(s, x) => View(s, u)' = View(s, u)

\* The neighbour x is told of what changes at s by the messages ms
Informs(s, x, ms) ==
    /\ Untouched(s, x)
    /\ Plain(ms, Beyond(x, s))
    /\ \A u \in User : Home[u] \in Beyond(x, s) => Course(ms, View(s, u), View(s, u)', x, u)

\* Only s and its link with t change, and s sends ms over its other links
Elsewhere(s, t, ms) ==
    /\ \A a, b \in Server : <<a, b>> \notin {<<s, t>>, <<t, s>>} => conn'[a][b] = conn[a][b]
    /\ \A x \in Server \ {s} : known'[x] = known[x] /\ ch'[x] = ch[x]
    /\ \A a, b \in Server \ {s} : chan'[a][b] = chan[a][b]
    /\ \A x \in Server \ {s, t} :
          /\ chan'[x][s] = chan[x][s]
          /\ chan'[s][x] = IF x \in Up(s) /\ conn[x][s] # "none" THEN chan[s][x] \o ms
                           ELSE chan[s][x]

\* Views are views, and membership can be read off them.
LEMMA ViewTypes ==
    ASSUME NEW s, NEW u
    PROVE  /\ View(s, u) \in Views
           /\ View(s, u) = "member" <=> u \in ch[s].members
  BY DEF View, Views

\* Nothing changes for two servers: neither does what the invariant says.
LEMMA IdlePair ==
    ASSUME NEW a \in Server, NEW b \in Server, Pair(a, b),
           conn'[a][b] = conn[a][b], conn'[b][a] = conn[b][a], chan'[a][b] = chan[a][b],
           known'[a] = known[a], known'[b] = known[b], ch'[a] = ch[a], ch'[b] = ch[b]
    PROVE  Pair(a, b)'
  <1>1. Ends(a, b)' /\ Located(a, b)'
    BY DEF Pair, Ends, Located, Beyond
  <1>2. Severed(a, b)' /\ Unanswered(a, b)'
    BY DEF Pair, Severed, Unanswered, Beyond
  <1>3. \A u : View(a, u)' = View(a, u) /\ View(b, u)' = View(b, u)
    BY DEF View
  <1>4. Follows(a, b)'
    <2>1. SUFFICES ASSUME conn'[a][b] = "up", conn'[b][a] # "none",
                          NEW u \in User, Home[u] \in Beyond(b, a)
                   PROVE  Course(chan'[a][b], View(b, u)', View(a, u)', b, u)
      BY DEF Follows, Course, Beyond, After
    <2>2. Course(chan[a][b], View(b, u), View(a, u), b, u)
      BY <2>1 DEF Pair, Follows
    <2>. QED
      BY <1>3, <2>2
  <1>. QED
    BY <1>1, <1>2, <1>4 DEF Pair

\* Messages appended to a stream: the first one stays, the new ones are plain.
LEMMA Appended ==
    ASSUME NEW q \in Seq(Msg), NEW ms \in Seq(Msg), NEW S, Plain(ms, S)
    PROVE  /\ q \o ms \in Seq(Msg)
           /\ q # <<>> => q \o ms # <<>> /\ Head(q \o ms) = Head(q)
           /\ \A i \in 1..Len(q \o ms) :
                 \/ i \in 1..Len(q) /\ (q \o ms)[i] = q[i]
                 \/ (q \o ms)[i].type # "SERVER" /\ About((q \o ms)[i], S)
  <1>. DEFINE r == q \o ms
  <1>1. /\ r \in Seq(Msg) /\ Len(r) = Len(q) + Len(ms) /\ Len(q) \in Nat /\ Len(ms) \in Nat
        /\ \A i \in 1..Len(q) + Len(ms) : r[i] = IF i <= Len(q) THEN q[i] ELSE ms[i - Len(q)]
    BY ConcatProperties
  <1>2. ASSUME NEW i \in 1..Len(r)
        PROVE  \/ i \in 1..Len(q) /\ r[i] = q[i]
               \/ r[i].type # "SERVER" /\ About(r[i], S)
    <2>. HIDE DEF r
    <2>1. CASE i <= Len(q)
      BY <1>1, <2>1
    <2>2. CASE ~(i <= Len(q))
      <3>1. i - Len(q) \in 1..Len(ms) /\ r[i] = ms[i - Len(q)]
        BY <1>1, <2>2
      <3>. QED
        BY <3>1 DEF Plain
    <2>. QED
      BY <2>1, <2>2
  <1>3. ASSUME q # <<>> PROVE r # <<>> /\ Head(r) = Head(q)
    <2>1. Len(q) >= 1 /\ Head(q) = q[1]
      BY <1>3, HeadTailProperties
    <2>. HIDE DEF r
    <2>2. Len(r) >= 1 /\ r[1] = q[1]
      BY <1>1, <2>1
    <2>3. r # <<>>
      BY <2>2
    <2>. QED
      BY <1>1, <2>1, <2>2, <2>3, HeadTailProperties
  <1>. QED
    BY <1>1, <1>2, <1>3

\* The link of s with another neighbour x, when x is told what changes at s.
LEMMA RestPair ==
    ASSUME IInv, NEW s \in Server, NEW x \in Server, s # x, Pair(s, x), Pair(x, s),
           NEW ms \in Seq(Msg), {s, x} \in Edge => Informs(s, x, ms),
           conn'[s][x] = conn[s][x], conn'[x][s] = conn[x][s],
           known'[x] = known[x], ch'[x] = ch[x], ch'[s].members \subseteq User,
           chan'[x][s] = chan[x][s],
           chan'[s][x] = IF x \in Up(s) /\ conn[x][s] # "none" THEN chan[s][x] \o ms
                         ELSE chan[s][x]
    PROVE  Pair(s, x)' /\ Pair(x, s)'
  <1>0. /\ chan[s][x] \in Seq(Msg) /\ chan[x][s] \in Seq(Msg) /\ {x, s} = {s, x}
        /\ conn[s][x] \in ConnState /\ conn[x][s] \in ConnState
    BY DEF IInv, LinkInv, Streams
  <1>1. conn[s][x] # "none" \/ conn[x][s] # "none" => {s, x} \in Edge
    BY <1>0 DEF Pair, Ends
  <1>2. \A u : View(x, u)' = View(x, u)
    BY DEF View
  <1>3. \A a, b : Beyond(a, b)' = Beyond(a, b)
    BY DEF Beyond
  <1>4. Severed(x, s)' /\ Unanswered(x, s)'
    BY <1>3 DEF Pair, Severed, Unanswered
  <1>5. Ends(x, s)' /\ Located(x, s)'
    BY <1>3 DEF Pair, Ends, Located
  <1>6. Severed(s, x)'
    BY <1>3 DEF Pair, Severed, Informs, Untouched
  <1>7. Unanswered(s, x)'
    <2>1. SUFFICES ASSUME conn[s][x] = "up", conn[x][s] = "out"
                   PROVE  /\ known'[s] \cap Beyond(s, x) \subseteq {x}
                          /\ \A u \in ch'[s].members : Home[u] \notin Beyond(s, x)
      BY <1>3 DEF Unanswered
    <2>2. Untouched(s, x)
      BY <1>1, <2>1 DEF Informs
    <2>3. known[s] \cap Beyond(s, x) \subseteq {x} /\ \A u \in ch[s].members : Home[u] \notin Beyond(s, x)
      BY <2>1 DEF Pair, Unanswered
    <2>4. ASSUME NEW u \in ch'[s].members, Home[u] \in Beyond(s, x) PROVE FALSE
      <3>1. View(s, u)' = "member" /\ u \in User
        BY <2>4 DEF View
      <3>2. View(s, u) = "member"
        BY <2>2, <2>4, <3>1 DEF Untouched
      <3>. QED
        BY <2>3, <2>4, <3>2, ViewTypes
    <2>. QED
      BY <2>2, <2>3, <2>4 DEF Untouched
  <1>8. Follows(x, s)'
    <2>1. SUFFICES ASSUME conn[x][s] = "up", conn[s][x] # "none",
                          NEW u \in User, Home[u] \in Beyond(s, x)
                   PROVE  Course(chan[x][s], View(s, u)', View(x, u)', s, u)
      BY <1>3 DEF Follows, Course, After
    <2>2. Course(chan[x][s], View(s, u), View(x, u), s, u)
      BY <2>1 DEF Pair, Follows
    <2>3. View(s, u)' = View(s, u)
      BY <1>1, <2>1 DEF Informs, Untouched
    <2>. QED
      BY <1>2, <2>2, <2>3
  <1>9. CASE ~(x \in Up(s) /\ conn[x][s] # "none")
    <2>1. chan'[s][x] = chan[s][x] /\ (conn[s][x] # "up" \/ conn[x][s] = "none")
      BY <1>9 DEF Up
    <2>2. Ends(s, x)' /\ Located(s, x)' /\ Follows(s, x)'
      BY <1>3, <2>1 DEF Pair, Ends, Located, Follows
    <2>. QED
      BY <1>4, <1>5, <1>6, <1>7, <1>8, <2>2 DEF Pair
  <1>10. CASE x \in Up(s) /\ conn[x][s] # "none"
    <2>. DEFINE q == chan[s][x]
                r == q \o ms
    <2>1. conn[s][x] = "up" /\ chan'[s][x] = r /\ {s, x} \in Edge
      BY <1>1, <1>10 DEF Up
    <2>2. /\ q # <<>> => r # <<>> /\ Head(r) = Head(q)
          /\ \A i \in 1..Len(r) : \/ i \in 1..Len(q) /\ r[i] = q[i]
                                  \/ r[i].type # "SERVER" /\ About(r[i], Beyond(x, s))
          /\ r \in Seq(Msg)
      BY <1>0, <2>1, Appended DEF Informs
    <2>3. \A u \in User : Home[u] \in Beyond(x, s) => Course(r, View(x, u), View(s, u)', x, u)
      <3>1. SUFFICES ASSUME NEW u \in User, Home[u] \in Beyond(x, s)
                     PROVE  Course(r, View(x, u), View(s, u)', x, u)
        OBVIOUS
      <3>2. Course(q, View(x, u), View(s, u), x, u)
        BY <1>10, <2>1, <3>1 DEF Pair, Follows
      <3>3. Course(ms, View(s, u), View(s, u)', x, u)
        BY <2>1, <3>1 DEF Informs
      <3>. QED
        BY <1>0, <3>2, <3>3, CourseConcat
    <2>4. \A i \in 2..Len(r) : i \in 1..Len(r) /\ (i \in 1..Len(q) => i \in 2..Len(q))
      BY <1>0, <2>2
    <2>. HIDE DEF r, q
    <2>5. Ends(s, x)'
      <3>1. Ends(s, x)
        BY DEF Pair
      <3>2. /\ conn[x][s] = "out" => r # <<>> /\ Head(r).type = "SERVER"
            /\ conn[x][s] = "up" => \A i \in 1..Len(r) : r[i].type # "SERVER"
            /\ \A i \in 2..Len(r) : r[i].type # "SERVER"
        BY <2>2, <2>4, <3>1 DEF Ends, q
      <3>. QED
        BY <1>10, <2>1, <3>2 DEF Ends
    <2>6. Located(s, x)'
      <3>1. \A i \in 1..Len(q) : About(q[i], Beyond(x, s))
        BY DEF Pair, Located, q
      <3>2. \A i \in 1..Len(r) : About(r[i], Beyond(x, s))
        BY <2>2, <3>1
      <3>. QED
        BY <1>3, <2>1, <3>2 DEF Located, About
    <2>7. Follows(s, x)'
      <3>1. \A u \in User : Home[u] \in Beyond(x, s)' => Course(chan'[s][x], View(x, u)', View(s, u)', x, u)
        BY <1>2, <1>3, <2>1, <2>3
      <3>. QED
        BY <3>1 DEF Follows, Course, After, Beyond
    <2>. QED
      BY <1>4, <1>5, <1>6, <1>7, <1>8, <2>5, <2>6, <2>7 DEF Pair
  <1>. QED
    BY <1>9, <1>10

\* A step that tells the other neighbours leaves the invariant to the link it
\* works on.
LEMMA Glue ==
    ASSUME IInv, Pairs, NEW s \in Server, NEW t \in Server, NEW ms \in Seq(Msg),
           Elsewhere(s, t, ms), ch'[s].members \subseteq User,
           \A x \in Server \ {s, t} : {s, x} \in Edge => Informs(s, x, ms),
           s # t => Pair(s, t)' /\ Pair(t, s)'
    PROVE  Pairs'
  <1>1. ASSUME NEW x \in Server \ {s, t}
        PROVE  Pair(s, x)' /\ Pair(x, s)'
    <2>1. Pair(s, x) /\ Pair(x, s)
      BY DEF Pairs
    <2>2. {<<s, x>>, <<x, s>>} \cap {<<s, t>>, <<t, s>>} = {}
      OBVIOUS
    <2>3. /\ conn'[s][x] = conn[s][x] /\ conn'[x][s] = conn[x][s]
          /\ known'[x] = known[x] /\ ch'[x] = ch[x]
          /\ chan'[x][s] = chan[x][s]
      BY <2>2 DEF Elsewhere
    <2>4. chan'[s][x] = IF x \in Up(s) /\ conn[x][s] # "none" THEN chan[s][x] \o ms
                        ELSE chan[s][x]
      BY DEF Elsewhere
    <2>. QED
      BY <2>1, <2>3, <2>4, RestPair
  <1>2. ASSUME NEW a \in Server \ {s}, NEW b \in Server \ {s}, a # b
        PROVE  Pair(a, b)'
    <2>1. Pair(a, b)
      BY <1>2 DEF Pairs
    <2>2. {<<a, b>>, <<b, a>>} \cap {<<s, t>>, <<t, s>>} = {}
      OBVIOUS
    <2>3. /\ conn'[a][b] = conn[a][b] /\ conn'[b][a] = conn[b][a] /\ chan'[a][b] = chan[a][b]
          /\ known'[a] = known[a] /\ known'[b] = known[b] /\ ch'[a] = ch[a] /\ ch'[b] = ch[b]
      BY <2>2 DEF Elsewhere
    <2>. QED
      BY <2>1, <2>3, IdlePair
  <1>3. \A a, b \in Server : a # b => Pair(a, b)'
    BY <1>1, <1>2
  <1>. QED
    BY <1>3 DEF Pairs

-----------------------------------------------------------------------------
(* Reading a message and passing it on *)

\* A message about servers of S is about servers of every larger set.
LEMMA AboutMore ==
    ASSUME NEW m, NEW S, NEW T, S \subseteq T, About(m, S)
    PROVE  About(m, T)
  BY DEF About

\* A message about what lies beyond t does nothing to the view of other users
\* and the same thing at every other neighbour.
LEMMA AfterRelay ==
    ASSUME NEW s \in Server, NEW t \in Server, {s, t} \in Edge, s # t,
           NEW m \in Msg, About(m, Beyond(s, t)), NEW v, NEW u \in User
    PROVE  /\ Home[u] \notin Beyond(s, t) => After(v, m, s, u) = v
           /\ \A x \in Server : {s, x} \in Edge /\ s # x /\ x # t =>
                 After(v, m, x, u) = After(v, m, s, u)
  <1>1. CASE m.type = "SQUIT"
    <2>1. m.id \in Beyond(s, t)
      BY <1>1 DEF About
    <2>2. /\ Beyond(s, m.id) \subseteq Beyond(s, t)
          /\ \A x \in Server : {s, x} \in Edge /\ s # x /\ x # t => Beyond(x, m.id) = Beyond(s, m.id)
      BY <2>1, Loss
    <2>. QED
      BY <1>1, <2>2 DEF After
  <1>2. CASE m.type # "SQUIT"
    <2>1. \A x \in Server : After(v, m, x, u) = After(v, m, s, u)
      BY <1>2 DEF After
    <2>2. Home[u] \notin Beyond(s, t) => After(v, m, s, u) = v
      BY <1>2 DEF After, About
    <2>. QED
      BY <2>1, <2>2
  <1>. QED
    BY <1>1, <1>2

\* The messages ms have the effect of the step at s, by being none or one
Conveys(s, t, ms) ==
    \/ ms = <<>> /\ \A u \in User : View(s, u)' = View(s, u)
    \/ \E m \in Msg : /\ ms = <<m>> /\ m.type # "SERVER" /\ About(m, Beyond(s, t))
                      /\ \A u \in User : View(s, u)' = After(View(s, u), m, s, u)

\* Passing on what was learned over the link with t informs the others.
LEMMA ConveyInforms ==
    ASSUME NEW s \in Server, NEW t \in Server, {s, t} \in Edge, s # t,
           known'[s] \subseteq known[s] \cup Beyond(s, t),
           NEW ms, Conveys(s, t, ms),
           NEW x \in Server \ {s, t}, {s, x} \in Edge
    PROVE  Informs(s, x, ms)
  <1>1. /\ Beyond(s, t) \cap Beyond(s, x) = {} /\ Beyond(s, t) \subseteq Beyond(x, s)
    BY Branches
  <1>2. known'[s] \cap Beyond(s, x) \subseteq known[s]
    BY <1>1
  <1>3. CASE ms = <<>> /\ \A u \in User : View(s, u)' = View(s, u)
    <2>1. Plain(ms, Beyond(x, s))
      BY <1>3 DEF Plain
    <2>2. \A u \in User : Course(ms, View(s, u), View(s, u)', x, u)
      BY <1>3, CourseEmpty, ViewTypes
    <2>. QED
      BY <1>2, <1>3, <2>1, <2>2 DEF Informs, Untouched
  <1>4. ASSUME NEW m \in Msg, ms = <<m>>, m.type # "SERVER", About(m, Beyond(s, t)),
               \A u \in User : View(s, u)' = After(View(s, u), m, s, u)
        PROVE  Informs(s, x, ms)
    <2>0. About(m, Beyond(s, t))
      BY <1>4
    <2>1. Plain(ms, Beyond(x, s))
      BY <1>1, <1>4, AboutMore, PlainOne
    <2>2. ASSUME NEW u \in User
          PROVE  Course(ms, View(s, u), View(s, u)', x, u)
      <3>. DEFINE v == View(s, u)
      <3>1. View(s, u)' = After(v, m, s, u) /\ v \in Views
        BY <1>4, ViewTypes
      <3>. HIDE DEF v
      <3>2. After(v, m, x, u) = After(v, m, s, u)
        BY <2>0, AfterRelay
      <3>3. Course(<<m>>, v, After(v, m, x, u), x, u)
        BY <3>1, CourseOne
      <3>. QED
        BY <1>4, <3>1, <3>2, <3>3 DEF v
    <2>3. ASSUME NEW u \in User, Home[u] \in Beyond(s, x)
          PROVE  View(s, u)' = View(s, u)
      <3>1. Home[u] \notin Beyond(s, t)
        BY <1>1, <2>3
      <3>. DEFINE v == View(s, u)
      <3>2. View(s, u)' = After(v, m, s, u)
        BY <1>4
      <3>. HIDE DEF v
      <3>3. After(v, m, s, u) = v
        BY <2>0, <3>1, AfterRelay
      <3>. QED
        BY <3>2, <3>3 DEF v
    <2>. QED
      BY <1>2, <2>1, <2>2, <2>3 DEF Informs, Untouched
  <1>. QED
    BY <1>3, <1>4 DEF Conveys

\* s takes the first message of t off the stream and sends ms to the others
Passes(s, t, ms) ==
    chan' = Deliver(Consume(s, t), s,
                    [x \in Server |-> IF x \in Up(s) \ {t} THEN ms ELSE <<>>])

\* The streams after that.
LEMMA PassesStreams ==
    ASSUME IInv, NEW s \in Server, NEW t \in Server, s # t, NEW ms \in Seq(Msg),
           chan[t][s] # <<>>, Passes(s, t, ms)
    PROVE  /\ chan'[t][s] = Tail(chan[t][s]) /\ chan'[s][t] = chan[s][t]
           /\ \A a, b \in Server \ {s} : chan'[a][b] = chan[a][b]
           /\ \A x \in Server \ {s, t} : chan'[x][s] = chan[x][s]
           /\ \A x \in Server \ {s, t} :
                 chan'[s][x] = IF x \in Up(s) /\ conn[x][s] # "none" THEN chan[s][x] \o ms
                               ELSE chan[s][x]
  <1>. DEFINE q == chan[t][s]
              c == Consume(s, t)
              out == [x \in Server |-> IF x \in Up(s) \ {t} THEN ms ELSE <<>>]
  <1>1. /\ c \in [Server -> [Server -> Seq(Msg)]]
        /\ c[t][s] = Tail(q)
        /\ \A a, b \in Server : ~(a = t /\ b = s) => c[a][b] = chan[a][b]
    <2>1. chan \in [Server -> [Server -> Seq(Msg)]] /\ Tail(q) \in Seq(Msg)
      BY HeadTailProperties DEF IInv, LinkInv, Streams
    <2>. HIDE DEF q
    <2>2. c = [chan EXCEPT ![t][s] = Tail(q)]
      BY <2>1 DEF Consume, q
    <2>. QED
      BY <2>1, <2>2
  <1>2. chan' = [c EXCEPT ![s] = [x \in Server |->
                    IF conn[x][s] # "none" THEN c[s][x] \o out[x] ELSE c[s][x]]]
    BY <1>1 DEF Passes, Deliver
  <1>3. out = [x \in Server |-> IF x \in Up(s) \ {t} THEN ms ELSE <<>>]
    OBVIOUS
  <1>4. \A p \in Seq(Msg) : p \o <<>> = p
    BY ConcatEmptySeq
  <1>. HIDE DEF c, out
  <1>5. \A a \in Server \ {s}, b \in Server : chan'[a][b] = c[a][b]
    BY <1>1, <1>2
  <1>6. \A x \in Server : chan'[s][x] = IF conn[x][s] # "none" THEN c[s][x] \o out[x] ELSE c[s][x]
    BY <1>1, <1>2
  <1>7. ASSUME NEW x \in Server \ {s, t}
        PROVE  chan'[s][x] = IF x \in Up(s) /\ conn[x][s] # "none" THEN chan[s][x] \o ms
                             ELSE chan[s][x]
    <2>1. c[s][x] = chan[s][x] /\ c[s][x] \o <<>> = c[s][x]
      BY <1>1, <1>4
    <2>2. out[x] = IF x \in Up(s) THEN ms ELSE <<>>
      BY <1>3
    <2>3. chan'[s][x] = IF conn[x][s] # "none" THEN c[s][x] \o out[x] ELSE c[s][x]
      BY <1>6
    <2>. QED
      BY <2>1, <2>2, <2>3
  <1>8. chan'[s][t] = chan[s][t]
    <2>1. c[s][t] = chan[s][t] /\ c[s][t] \o <<>> = c[s][t] /\ out[t] = <<>>
      BY <1>1, <1>3, <1>4
    <2>2. chan'[s][t] = IF conn[t][s] # "none" THEN c[s][t] \o out[t] ELSE c[s][t]
      BY <1>6
    <2>. QED
      BY <2>1, <2>2
  <1>. QED
    BY <1>1, <1>5, <1>7, <1>8

\* s reads a message of t, other than SERVER, and passes it on.
LEMMA RelayStep ==
    ASSUME IInv, Pairs, NEW s \in Server, NEW t \in Server, NEW type, Receives(s, t, type),
           type # "SERVER", NEW ms \in Seq(Msg), Conveys(s, t, ms),
           conn' = conn, ch'[s].members \subseteq User,
           Passes(s, t, ms),
           \A x \in Server \ {s} : known'[x] = known[x] /\ ch'[x] = ch[x],
           known'[s] \subseteq known[s] \cup Beyond(s, t),
           \A u \in User : View(s, u)' = After(View(s, u), Head(chan[t][s]), s, u)
    PROVE  Pairs'
  <1>. DEFINE q == chan[t][s]
  <1>1. /\ Head(q) \in Msg /\ Head(q).type = type /\ s # t
        /\ q \in Seq(Msg) /\ q # <<>>
    BY ConsumeStreams DEF IInv, LinkInv, Streams, Receives
  <1>2. Pair(t, s) /\ Pair(s, t)
    BY <1>1 DEF Pairs
  <1>3. /\ conn[s][t] = "up" /\ {s, t} \in Edge /\ conn[t][s] # "out"
    <2>1. conn[s][t] \in ConnState /\ conn[s][t] # "none" /\ conn[s][t] # "out" /\ conn[t][s] # "out"
      BY <1>1, <1>2 DEF Pair, Ends, IInv, LinkInv
    <2>. QED
      BY <1>2, <2>1 DEF ConnState, Pair, Ends
  <1>7. Elsewhere(s, t, ms)
    BY <1>1, PassesStreams DEF Elsewhere
  <1>8. chan'[t][s] = Tail(q) /\ chan'[s][t] = chan[s][t]
    BY <1>1, PassesStreams
  <1>9. \A x \in Server \ {s, t} : {s, x} \in Edge => Informs(s, x, ms)
    BY <1>1, <1>3, ConveyInforms
  <1>10. \A u : View(t, u)' = View(t, u)
    BY <1>1 DEF View
  <1>11. \A a, b : Beyond(a, b)' = Beyond(a, b)
    BY DEF Beyond
  <1>12. Pair(t, s)'
    <2>1. /\ Len(Tail(q)) = Len(q) - 1 /\ Len(q) \in Nat /\ Len(q) >= 1
          /\ \A i \in 1..Len(q) - 1 : Tail(q)[i] = q[i + 1]
      BY <1>1, HeadTailProperties
    <2>2. \A i \in 1..Len(Tail(q)) : i + 1 \in 1..Len(q) /\ Tail(q)[i] = q[i + 1]
      BY <2>1
    <2>3. \A i \in 1..Len(q) : q[i].type # "SERVER" /\ About(q[i], Beyond(s, t))
      BY <1>2, <1>3 DEF Pair, Ends, Located
    <2>4. \A i \in 1..Len(Tail(q)) : Tail(q)[i].type # "SERVER" /\ About(Tail(q)[i], Beyond(s, t))
      BY <2>2, <2>3
    <2>5. Ends(t, s)'
      <3>1. \A i \in 2..Len(Tail(q)) : i \in 1..Len(Tail(q))
        BY <2>1
      <3>. QED
        BY <1>2, <1>3, <1>8, <2>4, <3>1 DEF Pair, Ends
    <2>6. Located(t, s)'
      BY <1>8, <1>11, <2>4 DEF Located, About
    <2>7. Severed(t, s)' /\ Unanswered(t, s)'
      BY <1>1, <1>2, <1>11 DEF Pair, Severed, Unanswered
    <2>8. Follows(t, s)'
      <3>1. SUFFICES ASSUME conn[t][s] = "up", NEW u \in User, Home[u] \in Beyond(s, t)
                     PROVE  Course(chan'[t][s], View(s, u)', View(t, u)', s, u)
        BY <1>3, <1>11 DEF Follows, Course, After
      <3>2. Course(q, View(s, u), View(t, u), s, u)
        BY <1>2, <1>3, <3>1 DEF Pair, Follows
      <3>3. Course(Tail(q), After(View(s, u), Head(q), s, u), View(t, u), s, u)
        BY <1>1, <3>2, CourseHead
      <3>. QED
        BY <1>8, <1>10, <3>3
    <2>. QED
      BY <2>5, <2>6, <2>7, <2>8 DEF Pair
  <1>13. Pair(s, t)'
    <2>1. Ends(s, t)' /\ Located(s, t)'
      BY <1>2, <1>8, <1>11 DEF Pair, Ends, Located
    <2>2. Severed(s, t)' /\ Unanswered(s, t)'
      BY <1>3 DEF Severed, Unanswered
    <2>3. Follows(s, t)'
      <3>1. SUFFICES ASSUME conn[t][s] # "none", NEW u \in User, Home[u] \in Beyond(t, s)
                     PROVE  Course(chan[s][t], View(t, u)', View(s, u)', t, u)
        BY <1>3, <1>8, <1>11 DEF Follows, Course, After
      <3>2. Home[u] \notin Beyond(s, t)
        BY <1>1, <1>3, <3>1, Sides
      <3>3. About(Head(q), Beyond(s, t))
        <4>1. 1 \in 1..Len(q) /\ Head(q) = q[1]
          BY <1>1, HeadTailProperties
        <4>. QED
          BY <1>2, <4>1 DEF Pair, Located
      <3>4. View(s, u)' = View(s, u)
        BY <1>1, <1>3, <3>2, <3>3, AfterRelay
      <3>. QED
        BY <1>2, <1>3, <1>10, <3>1, <3>4 DEF Pair, Follows
    <2>. QED
      BY <2>1, <2>2, <2>3 DEF Pair
  <1>. QED
    BY <1>7, <1>9, <1>12, <1>13, Glue

\* What is known of a message that s reads from t.
LEMMA ReadFacts ==
    ASSUME IInv, Pairs, NEW s \in Server, NEW t \in Server, NEW type, Receives(s, t, type)
    PROVE  /\ s # t /\ {s, t} \in Edge /\ chan[t][s] # <<>>
           /\ Head(chan[t][s]) \in Msg /\ Head(chan[t][s]).type = type
           /\ About(Head(chan[t][s]), Beyond(s, t))
  <1>1. /\ s # t /\ Head(chan[t][s]) \in Msg /\ Head(chan[t][s]).type = type
        /\ chan[t][s] \in Seq(Msg) /\ chan[t][s] # <<>>
    BY ConsumeStreams DEF IInv, LinkInv, Streams, Receives
  <1>2. Pair(t, s) /\ Pair(s, t)
    BY <1>1 DEF Pairs
  <1>3. {s, t} \in Edge
    BY <1>1, <1>2 DEF Pair, Ends
  <1>4. 1 \in 1..Len(chan[t][s]) /\ Head(chan[t][s]) = chan[t][s][1]
    BY <1>1, HeadTailProperties
  <1>. QED
    BY <1>1, <1>2, <1>3, <1>4 DEF Pair, Located

\* The channel of a server has users for members, and only known ones.
LEMMA MemberTypes ==
    ASSUME ChannelInv, NEW s \in Server
    PROVE  /\ WellFormed(ch[s]) /\ ch[s].members \subseteq User
           /\ \A u \in ch[s].members : Home[u] \in known[s]
  BY ChannelFields DEF ChannelInv, MembersKnown, KnownUsers

\* That the members are users holds after a step as well.
LEMMA NewMembers ==
    ASSUME IInv', NEW s \in Server
    PROVE  ch'[s].members \subseteq User
  <1>1. ch'[s] \in Channel
    BY DEF IInv, ChannelInv
  <1>. QED
    BY <1>1, ChannelFields

\* One message is a sequence of messages.
LEMMA Single ==
    ASSUME NEW s, NEW t, NEW m \in Msg, m.type # "SERVER", About(m, Beyond(s, t)),
           \A u \in User : View(s, u)' = After(View(s, u), m, s, u)
    PROVE  <<m>> \in Seq(Msg) /\ Conveys(s, t, <<m>>)
  BY OutTypes DEF Conveys

\* SID
LEMMA RecvSIDPairs ==
    ASSUME IInv, Pairs, IInv', NEW s \in Server, NEW t \in Server, RecvSID(s, t)
    PROVE  Pairs'
  <1>. DEFINE m == Head(chan[t][s])
              on == SID(m.ids)
  <1>1. Receives(s, t, "SID")
    BY DEF RecvSID
  <1>2. m \in Msg /\ m.type = "SID" /\ About(m, Beyond(s, t)) /\ s # t
    BY <1>1, ReadFacts
  <1>3. m.ids \in SUBSET Server /\ m.ids \subseteq Beyond(s, t)
    BY <1>2, MessageFields DEF About
  <1>4. /\ known' = [known EXCEPT ![s] = @ \cup m.ids] /\ ch' = ch /\ conn' = conn
        /\ Passes(s, t, <<on>>)
    BY DEF RecvSID, ToOthers, Passes
  <1>5. ch'[s].members \subseteq User
    BY <1>4, MemberTypes DEF IInv
  <1>. HIDE DEF m
  <1>6. on \in Msg /\ on.type = "SID" /\ on.ids = m.ids /\ About(on, Beyond(s, t))
    BY <1>3, MessageTypes DEF SID, About
  <1>7. known'[s] = known[s] \cup m.ids /\ \A x \in Server \ {s} : known'[x] = known[x] /\ ch'[x] = ch[x]
    BY <1>4 DEF IInv, ChannelInv
  <1>. HIDE DEF on
  <1>8. \A u \in User : /\ View(s, u)' = After(View(s, u), m, s, u)
                        /\ View(s, u)' = After(View(s, u), on, s, u)
    BY <1>2, <1>4, <1>6, <1>7 DEF View, After
  <1>9. <<on>> \in Seq(Msg) /\ Conveys(s, t, <<on>>)
    BY <1>6, <1>8, Single
  <1>10. known'[s] \subseteq known[s] \cup Beyond(s, t)
    BY <1>3, <1>7
  <1>. QED
    BY <1>1, <1>4, <1>5, <1>7, <1>8, <1>9, <1>10, RelayStep DEF m

\* SQUIT
LEMMA RecvSQUITPairs ==
    ASSUME IInv, Pairs, IInv', NEW s \in Server, NEW t \in Server, RecvSQUIT(s, t)
    PROVE  Pairs'
  <1>. DEFINE m == Head(chan[t][s])
              on == SQUIT(m.id)
              gone == Beyond(s, m.id)
  <1>1. Receives(s, t, "SQUIT")
    BY DEF RecvSQUIT
  <1>2. m \in Msg /\ m.type = "SQUIT" /\ About(m, Beyond(s, t)) /\ s # t /\ {s, t} \in Edge
    BY <1>1, ReadFacts
  <1>3. m.id \in Server /\ m.id \in Beyond(s, t) /\ m.id # s
    BY <1>2, MessageFields, Sides DEF About
  <1>4. Forget(s, gone) /\ conn' = conn /\ Passes(s, t, <<on>>)
    BY <1>3 DEF RecvSQUIT, ToOthers, Passes
  <1>5. ch'[s].members \subseteq User
    BY NewMembers
  <1>. HIDE DEF m
  <1>6. on \in Msg /\ on.type = "SQUIT" /\ on.id = m.id /\ About(on, Beyond(s, t))
    BY <1>3, MessageTypes DEF SQUIT, About
  <1>7. /\ known'[s] = known[s] \ gone
        /\ ch'[s] = Leave(ch[s], {u \in User : Home[u] \in gone})
        /\ \A x \in Server \ {s} : known'[x] = known[x] /\ ch'[x] = ch[x]
    BY <1>4 DEF Forget, IInv, ChannelInv
  <1>8. ch'[s].members = ch[s].members \ {u \in User : Home[u] \in gone}
    BY <1>7, MemberTypes, LeaveWellFormed DEF IInv
  <1>. HIDE DEF on
  <1>9. \A u \in User : View(s, u)' = IF Home[u] \in gone THEN "away" ELSE View(s, u)
    BY <1>7, <1>8 DEF View
  <1>10. \A u \in User : /\ View(s, u)' = After(View(s, u), m, s, u)
                         /\ View(s, u)' = After(View(s, u), on, s, u)
    BY <1>2, <1>6, <1>9 DEF After
  <1>11. <<on>> \in Seq(Msg) /\ Conveys(s, t, <<on>>)
    BY <1>6, <1>10, Single
  <1>12. known'[s] \subseteq known[s] \cup Beyond(s, t)
    BY <1>7
  <1>. QED
    BY <1>1, <1>4, <1>5, <1>7, <1>10, <1>11, <1>12, RelayStep DEF m

\* Reading a message about the channel: what a handler has to show.
LEMMA HandlePairs ==
    ASSUME IInv, Pairs, IInv', NEW s \in Server, NEW t \in Server, NEW type,
           Receives(s, t, type), type # "SERVER",
           NEW c, NEW ms \in Seq(Msg), Handle(s, t, c, ms),
           (ch' = [ch EXCEPT ![s] = c] /\ known' = known) =>
              /\ Conveys(s, t, ms)
              /\ \A u \in User : View(s, u)' = After(View(s, u), Head(chan[t][s]), s, u)
    PROVE  Pairs'
  <1>1. ch' = [ch EXCEPT ![s] = c] /\ known' = known /\ conn' = conn /\ Passes(s, t, ms)
    BY DEF Handle, Passes
  <1>2. ch'[s].members \subseteq User
    BY NewMembers
  <1>3. \A x \in Server \ {s} : known'[x] = known[x] /\ ch'[x] = ch[x]
    BY <1>1 DEF IInv, ChannelInv
  <1>4. known'[s] \subseteq known[s] \cup Beyond(s, t)
    BY <1>1
  <1>5. /\ Conveys(s, t, ms)
        /\ \A u \in User : View(s, u)' = After(View(s, u), Head(chan[t][s]), s, u)
    BY <1>1
  <1>. QED
    BY <1>1, <1>2, <1>3, <1>4, <1>5, RelayStep

\* The view of a user after a step that changes only the members.
LEMMA ViewByMembers ==
    ASSUME ChannelInv, NEW s \in Server, NEW c, ch' = [ch EXCEPT ![s] = c], known' = known,
           NEW u
    PROVE  View(s, u)' = IF u \in c.members THEN "member"
                         ELSE IF View(s, u) = "away" THEN "away"
                         ELSE "known"
  <1>1. ch'[s] = c
    BY DEF ChannelInv
  <1>2. u \in ch[s].members => Home[u] \in known[s]
    BY MemberTypes
  <1>. QED
    BY <1>1, <1>2 DEF View

\* SJOIN
LEMMA RecvSJOINPairs ==
    ASSUME IInv, Pairs, IInv', NEW s \in Server, NEW t \in Server, RecvSJOIN(s, t)
    PROVE  Pairs'
  <1>. DEFINE m == Head(chan[t][s])
              new == m.members \cap KnownUsers(s)
              c == Sjoin(ch[s], m, new)
              on == SjoinOn(ch[s], m, new)
  <1>1. Receives(s, t, "SJOIN") /\ Handle(s, t, c, <<on>>)
    BY DEF RecvSJOIN
  <1>2. m \in Msg /\ m.type = "SJOIN" /\ About(m, Beyond(s, t))
    BY <1>1, ReadFacts
  <1>3. /\ m.ts \in TS /\ m.members \in SUBSET User /\ m.ops \in SUBSET User
        /\ m.modes \in SUBSET Flag /\ m.lim \in Limit \cup {0} /\ m.bans \in SUBSET User
    BY <1>2, MessageFields
  <1>4. /\ WellFormed(ch[s]) /\ ch[s].members \subseteq User
        /\ \A u \in ch[s].members : Home[u] \in known[s]
    BY MemberTypes DEF IInv
  <1>. HIDE DEF m
  <1>5. /\ new \in SUBSET User
        /\ \A u \in User : u \in new <=> u \in m.members /\ Home[u] \in known[s]
    BY <1>3 DEF KnownUsers
  <1>6. on \in Msg /\ on.type = "SJOIN" /\ on.members = new
    <2>. DEFINE SjoinMsg == [type : {"SJOIN"}, ts : TS, members : SUBSET User, ops : SUBSET User,
                             modes : SUBSET Flag, lim : Limit \cup {0}, bans : SUBSET User]
    <2>1. m \in SjoinMsg
      BY <1>2 DEF Msg
    <2>. HIDE DEF new
    <2>2. on \in SjoinMsg /\ on.members = new
      BY <1>5, <2>1 DEF SjoinOn
    <2>3. on \in Msg
      BY <2>2 DEF Msg
    <2>. QED
      BY <2>2, <2>3
  <1>. HIDE DEF new
  <1>7. c.members = ch[s].members \cup new
    BY <1>3, <1>4, <1>5, SjoinWellFormed
  <1>. HIDE DEF on, c
  <1>8. About(on, Beyond(s, t))
    BY <1>2, <1>3, <1>5, <1>6 DEF About
  <1>9. ASSUME ch' = [ch EXCEPT ![s] = c], known' = known
        PROVE  /\ Conveys(s, t, <<on>>)
               /\ \A u \in User : View(s, u)' = After(View(s, u), m, s, u)
    <2>1. ASSUME NEW u \in User
          PROVE  /\ View(s, u)' = After(View(s, u), m, s, u)
                 /\ View(s, u)' = After(View(s, u), on, s, u)
      <3>1. View(s, u)' = IF u \in c.members THEN "member"
                          ELSE IF View(s, u) = "away" THEN "away"
                          ELSE "known"
        BY <1>9, ViewByMembers DEF IInv
      <3>2. /\ View(s, u) = "member" <=> u \in ch[s].members
            /\ View(s, u) # "away" <=> Home[u] \in known[s]
            /\ View(s, u) \in {"away", "known", "member"}
        BY <1>4 DEF View
      <3>3. u \in c.members <=> u \in ch[s].members \/ (u \in m.members /\ Home[u] \in known[s])
        BY <1>5, <1>7
      <3>. QED
        BY <1>2, <1>5, <1>6, <3>1, <3>2, <3>3 DEF After
    <2>. QED
      BY <1>6, <1>8, <2>1, Single
  <1>10. <<on>> \in Seq(Msg)
    BY <1>6, OutTypes
  <1>. QED
    BY <1>1, <1>9, <1>10, HandlePairs DEF m

\* PART and KICK
LEMMA RecvLeavePairs ==
    ASSUME IInv, Pairs, IInv', NEW s \in Server, NEW t \in Server, RecvLeave(s, t)
    PROVE  Pairs'
  <1>. DEFINE m == Head(chan[t][s])
              c == Leave(ch[s], {m.user})
  <1>1. PICK type \in {"PART", "KICK"} : Receives(s, t, type)
    BY DEF RecvLeave
  <1>2. m \in Msg /\ m.type = type /\ About(m, Beyond(s, t))
    BY <1>1, ReadFacts
  <1>3. \/ m.user \in ch[s].members /\ Handle(s, t, c, <<m>>)
        \/ m.user \notin ch[s].members /\ Handle(s, t, ch[s], <<>>)
    BY DEF RecvLeave
  <1>4. /\ WellFormed(ch[s]) /\ ch[s].members \subseteq User
        /\ \A u \in ch[s].members : Home[u] \in known[s]
    BY MemberTypes DEF IInv
  <1>5. <<m>> \in Seq(Msg) /\ <<>> \in Seq(Msg)
    BY <1>2, OutTypes
  <1>. HIDE DEF m
  <1>6. c.members = ch[s].members \ {m.user}
    BY <1>4, LeaveWellFormed
  <1>. HIDE DEF c
  <1>7. \A u : /\ View(s, u) = "member" <=> u \in ch[s].members
               /\ View(s, u) \in {"away", "known", "member"}
    BY DEF View
  <1>8. ASSUME m.user \in ch[s].members, ch' = [ch EXCEPT ![s] = c], known' = known
        PROVE  /\ Conveys(s, t, <<m>>)
               /\ \A u \in User : View(s, u)' = After(View(s, u), m, s, u)
    <2>1. ASSUME NEW u \in User
          PROVE  View(s, u)' = After(View(s, u), m, s, u)
      <3>1. View(s, u)' = IF u \in c.members THEN "member"
                          ELSE IF View(s, u) = "away" THEN "away"
                          ELSE "known"
        BY <1>8, ViewByMembers DEF IInv
      <3>. QED
        BY <1>2, <1>6, <1>7, <3>1 DEF After
    <2>. QED
      BY <1>1, <1>2, <2>1, Single
  <1>9. ASSUME m.user \notin ch[s].members, ch' = [ch EXCEPT ![s] = ch[s]], known' = known
        PROVE  /\ Conveys(s, t, <<>>)
               /\ \A u \in User : View(s, u)' = After(View(s, u), m, s, u)
    <2>1. \A u \in User : View(s, u)' = View(s, u)
      BY <1>9 DEF View, IInv, ChannelInv
    <2>2. \A u \in User : After(View(s, u), m, s, u) = View(s, u)
      BY <1>2, <1>7, <1>9 DEF After
    <2>. QED
      BY <2>1, <2>2 DEF Conveys
  <1>10. CASE m.user \in ch[s].members /\ Handle(s, t, c, <<m>>)
    BY <1>1, <1>5, <1>8, <1>10, HandlePairs DEF m
  <1>11. CASE m.user \notin ch[s].members /\ Handle(s, t, ch[s], <<>>)
    BY <1>1, <1>5, <1>9, <1>11, HandlePairs DEF m
  <1>. QED
    BY <1>3, <1>10, <1>11

\* MODE
LEMMA RecvMODEPairs ==
    ASSUME IInv, Pairs, IInv', NEW s \in Server, NEW t \in Server, RecvMODE(s, t)
    PROVE  Pairs'
  <1>. DEFINE m == Head(chan[t][s])
              c == ch[s]
              dated == ModeTs(c, m.ts)
              new == SetMode(dated, m.change)
              on == IF new = dated THEN MODE(m.ts, Nothing) ELSE m
  <1>1. Receives(s, t, "MODE")
    BY DEF RecvMODE
  <1>2. m \in Msg /\ m.type = "MODE" /\ About(m, Beyond(s, t))
    BY <1>1, ReadFacts
  <1>3. m.ts \in TS \cup {0} /\ m.change \in Change
    BY <1>2, MessageFields
  <1>4. Handle(s, t, c, <<>>) \/ (Exists(c) /\ Handle(s, t, new, <<on>>))
    BY DEF RecvMODE
  <1>5. WellFormed(c)
    BY MemberTypes DEF IInv
  <1>. HIDE DEF m
  <1>6. on \in Msg /\ on.type = "MODE" /\ About(on, Beyond(s, t))
    <2>1. Nothing \in Change
      BY DEF Nothing, Change
    <2>2. MODE(m.ts, Nothing) \in Msg /\ MODE(m.ts, Nothing).type = "MODE"
      BY <1>3, <2>1, MessageTypes DEF MODE
    <2>. HIDE DEF new, dated
    <2>. QED
      BY <1>2, <2>2 DEF About
  <1>7. Exists(c) => new.members = c.members
    <2>1. SUFFICES ASSUME Exists(c) PROVE new.members = c.members
      OBVIOUS
    <2>2. WellFormed(dated) /\ dated.members = c.members
      BY <1>3, <1>5, <2>1, ModeTsWellFormed
    <2>3. Exists(dated)
      BY <2>1, <2>2 DEF Exists
    <2>. HIDE DEF dated, c
    <2>. QED
      BY <1>3, <2>2, <2>3, SetModeWellFormed
  <1>. HIDE DEF on, new
  <1>8. \A u : /\ After(View(s, u), m, s, u) = View(s, u)
               /\ After(View(s, u), on, s, u) = View(s, u)
    BY <1>2, <1>6 DEF After
  <1>9. ASSUME NEW d, d.members = c.members, ch' = [ch EXCEPT ![s] = d], known' = known
        PROVE  \A u \in User : View(s, u)' = View(s, u)
    <2>1. ch'[s] = d
      BY <1>9 DEF IInv, ChannelInv
    <2>. QED
      BY <1>9, <2>1 DEF View
  <1>10. <<on>> \in Seq(Msg) /\ <<>> \in Seq(Msg)
    BY <1>6, OutTypes
  <1>11. CASE Handle(s, t, c, <<>>)
    <2>1. ASSUME ch' = [ch EXCEPT ![s] = c], known' = known
          PROVE  /\ Conveys(s, t, <<>>)
                 /\ \A u \in User : View(s, u)' = After(View(s, u), m, s, u)
      BY <1>8, <1>9, <2>1 DEF Conveys
    <2>. QED
      BY <1>1, <1>10, <1>11, <2>1, HandlePairs DEF m
  <1>12. CASE Exists(c) /\ Handle(s, t, new, <<on>>)
    <2>1. ASSUME ch' = [ch EXCEPT ![s] = new], known' = known
          PROVE  /\ Conveys(s, t, <<on>>)
                 /\ \A u \in User : View(s, u)' = After(View(s, u), m, s, u)
      <3>1. \A u \in User : View(s, u)' = View(s, u)
        BY <1>7, <1>9, <1>12, <2>1
      <3>2. Conveys(s, t, <<on>>)
        BY <1>6, <1>8, <3>1, Single
      <3>. QED
        BY <1>8, <3>1, <3>2
    <2>. QED
      BY <1>1, <1>10, <1>12, <2>1, HandlePairs DEF m
  <1>. QED
    BY <1>4, <1>11, <1>12

-----------------------------------------------------------------------------
(* Local users *)

\* s changes its channel and tells all neighbours, about users of its own.
LEMMA UpdatePairs ==
    ASSUME IInv, Pairs, IInv', NEW s \in Server, NEW c, NEW ms \in Seq(Msg),
           Update(s, c, ms), conn' = conn, known' = known, Plain(ms, {s}),
           \A u \in User : Home[u] # s => View(s, u)' = View(s, u),
           \A x \in Server, u \in User : Course(ms, View(s, u), View(s, u)', x, u)
    PROVE  Pairs'
  <1>. DEFINE out == [x \in Server |-> IF x \in Up(s) THEN ms ELSE <<>>]
  <1>1. chan' = [chan EXCEPT ![s] = [x \in Server |->
                    IF conn[x][s] # "none" THEN chan[s][x] \o out[x] ELSE chan[s][x]]]
        /\ chan \in [Server -> [Server -> Seq(Msg)]]
    BY DEF Update, Deliver, IInv, LinkInv, Streams
  <1>2. out = [x \in Server |-> IF x \in Up(s) THEN ms ELSE <<>>]
    OBVIOUS
  <1>3. \A p \in Seq(Msg) : p \o <<>> = p
    BY ConcatEmptySeq
  <1>. HIDE DEF out
  <1>4. \A a \in Server \ {s}, b \in Server : chan'[a][b] = chan[a][b]
    BY <1>1
  <1>5. ASSUME NEW x \in Server
        PROVE  chan'[s][x] = IF x \in Up(s) /\ conn[x][s] # "none" THEN chan[s][x] \o ms
                             ELSE chan[s][x]
    <2>1. chan[s][x] \o <<>> = chan[s][x]
      BY <1>1, <1>3
    <2>2. out[x] = IF x \in Up(s) THEN ms ELSE <<>>
      BY <1>2
    <2>3. chan'[s][x] = IF conn[x][s] # "none" THEN chan[s][x] \o out[x] ELSE chan[s][x]
      BY <1>1
    <2>. QED
      BY <2>1, <2>2, <2>3
  <1>6. \A x \in Server \ {s} : known'[x] = known[x] /\ ch'[x] = ch[x]
    BY DEF Update, IInv, ChannelInv
  <1>7. Elsewhere(s, s, ms)
    BY <1>4, <1>5, <1>6 DEF Elsewhere
  <1>8. ASSUME NEW x \in Server \ {s}, {s, x} \in Edge
        PROVE  Informs(s, x, ms)
    <2>1. s \in Beyond(x, s) /\ s \notin Beyond(s, x)
      BY <1>8, Sides
    <2>2. Plain(ms, Beyond(x, s))
      <3>1. {s} \subseteq Beyond(x, s)
        BY <2>1
      <3>. QED
        BY <3>1, AboutMore DEF Plain
    <2>3. Untouched(s, x)
      BY <2>1 DEF Untouched
    <2>. QED
      BY <2>2, <2>3 DEF Informs
  <1>9. ch'[s].members \subseteq User
    BY NewMembers
  <1>. QED
    BY <1>7, <1>8, <1>9, Glue

\* The same, for one message with the effect of the step at every reader.
LEMMA SingleUpdate ==
    ASSUME IInv, Pairs, IInv', NEW s \in Server, NEW c, NEW m \in Msg,
           Update(s, c, <<m>>), conn' = conn, known' = known,
           m.type # "SERVER", About(m, {s}),
           \A u \in User : Home[u] # s => View(s, u)' = View(s, u),
           \A x \in Server, u \in User : View(s, u)' = After(View(s, u), m, x, u)
    PROVE  Pairs'
  <1>1. <<m>> \in Seq(Msg)
    BY OutTypes
  <1>2. Plain(<<m>>, {s})
    BY PlainOne
  <1>3. \A x \in Server, u \in User : Course(<<m>>, View(s, u), View(s, u)', x, u)
    BY ViewTypes, CourseOne
  <1>. QED
    BY <1>1, <1>2, <1>3, UpdatePairs

\* A user's own JOIN, in one line or with the MODE of set::modes-on-join
LEMMA JoinPairs ==
    ASSUME IInv, Pairs, IInv', NEW u \in User, NEW c, c.members = ch[Home[u]].members \cup {u},
           NEW line \in Msg, line.type = "SJOIN", line.members = {u},
           NEW mode \in Msg, mode.type = "MODE",
           conn' = conn, known' = known,
           Update(Home[u], c, <<line>>) \/ Update(Home[u], c, <<line, mode>>)
    PROVE  Pairs'
  <1>0. Home[u] \in Server
    BY ConstantsAssumption
  <1>1. PICK s \in Server : s = Home[u]
    BY <1>0
  <1>2. ch' = [ch EXCEPT ![s] = c]
    BY <1>1 DEF Update
  <1>3. s \in known[s]
    BY DEF IInv, ChannelInv
  <1>4. ASSUME NEW w \in User
        PROVE  /\ View(s, w)' = IF w = u THEN "member" ELSE View(s, w)
               /\ w = u => View(s, w) # "away"
    <2>1. View(s, w)' = IF w \in c.members THEN "member"
                        ELSE IF View(s, w) = "away" THEN "away"
                        ELSE "known"
      BY <1>2, ViewByMembers DEF IInv
    <2>2. /\ View(s, w) = "member" <=> w \in ch[s].members
          /\ View(s, w) \in {"away", "known", "member"}
      BY DEF View
    <2>3. w = u => View(s, w) # "away"
      BY <1>1, <1>3 DEF View
    <2>4. w \in c.members <=> w \in ch[s].members \/ w = u
      BY <1>1
    <2>. QED
      BY <2>1, <2>2, <2>3, <2>4
  <1>5. \A x \in Server, w \in User : View(s, w)' = After(View(s, w), line, x, w)
    BY <1>4 DEF After
  <1>6. \A w \in User : Home[w] # s => View(s, w)' = View(s, w)
    BY <1>1, <1>4
  <1>7. About(line, {s}) /\ About(mode, {s})
    BY <1>1 DEF About
  <1>8. CASE Update(Home[u], c, <<line>>)
    <2>1. Update(s, c, <<line>>)
      BY <1>1, <1>8
    <2>. QED
      BY <1>5, <1>6, <1>7, <2>1, SingleUpdate
  <1>9. CASE Update(Home[u], c, <<line, mode>>)
    <2>0. Update(s, c, <<line, mode>>)
      BY <1>1, <1>9
    <2>1. <<line, mode>> \in Seq(Msg) /\ Plain(<<line, mode>>, {s})
      BY <1>7, OutTypes, PlainTwo
    <2>2. ASSUME NEW x \in Server, NEW w \in User
          PROVE  Course(<<line, mode>>, View(s, w), View(s, w)', x, w)
      <3>. DEFINE v == View(s, w)
                  z == After(v, line, x, w)
      <3>1. v \in Views /\ View(s, w)' = z
        BY <1>5, ViewTypes
      <3>2. After(z, mode, x, w) = z
        BY DEF After
      <3>. HIDE DEF v
      <3>3. Course(<<line, mode>>, v, After(z, mode, x, w), x, w)
        BY <3>1, CourseTwo
      <3>. HIDE DEF z
      <3>. QED
        BY <3>1, <3>2, <3>3 DEF v
    <2>. QED
      BY <1>6, <2>0, <2>1, <2>2, UpdatePairs
  <1>. QED
    BY <1>8, <1>9

\* JOIN, PART and MODE of local users; a bound of 0 leaves no KICK.
LEMMA UserStepPairs ==
    ASSUME MaxKick = 0, IInv, Pairs, IInv', UserStep
    PROVE  Pairs'
  <1>1. PICK u \in User :
            \/ \E ts \in TS : JoinNew(u, ts)
            \/ JoinExisting(u)
            \/ Part(u)
            \/ \E v \in User : Kick(u, v)
            \/ \E d \in Change : ChangeMode(u, d)
    BY DEF UserStep
  <1>0. Home[u] \in Server
    BY ConstantsAssumption
  <1>2. PICK s \in Server : s = Home[u]
    BY <1>0
  <1>3. /\ WellFormed(ch[s]) /\ ch[s] \in Channel /\ ch[s].members \subseteq User
        /\ \A w \in ch[s].members : Home[w] \in known[s]
    BY MemberTypes DEF IInv, ChannelInv
  <1>4. Acts(u) => conn' = conn /\ known' = known
    BY DEF Acts
  <1>5. MODE(0, Nothing) \in Msg /\ MODE(0, Nothing).type = "MODE"
    <2>1. Nothing \in Change /\ 0 \in TS \cup {0}
      BY DEF Nothing, Change
    <2>. QED
      BY <2>1, MessageTypes DEF MODE
  <1>6. ASSUME NEW ts \in TS, JoinNew(u, ts)
        PROVE  Pairs'
    <2>. DEFINE d == [mode |-> ModesOnJoin, add |-> TRUE, arg |-> None]
                new == [NoChannel EXCEPT !.ts = ts, !.members = {u}, !.ops = {u}]
                line == SJOIN(ts, {u}, {u}, {}, 0, {})
    <2>1. /\ Acts(u) /\ ~Exists(ch[s])
          /\ \/ Update(s, new, <<line>>)
             \/ /\ ModesOnJoin # None
                /\ Update(s, SetMode(new, d), <<line, MODE(ts, d)>>)
      BY <1>2, <1>6 DEF JoinNew
    <2>2. /\ new \in Channel /\ new.ts = ts /\ new.modes = {}
          /\ new.members = {u} /\ new.ops = {u}
      <3>1. NoChannel \in Channel /\ NoChannel.modes = {}
        BY DEF NoChannel, Channel
      <3>. QED
        BY <3>1 DEF Channel
    <2>3. WellFormed(new) /\ new.members = ch[s].members \cup {u} /\ Exists(new)
      <3>. HIDE DEF new
      <3>. QED
        BY <2>1, <2>2 DEF WellFormed, Exists
    <2>4. line \in Msg /\ line.type = "SJOIN" /\ line.members = {u}
      <3>1. {u} \in SUBSET User /\ {} \in SUBSET User /\ {} \in SUBSET Flag /\ 0 \in Limit \cup {0}
        OBVIOUS
      <3>. QED
        BY <3>1, MessageTypes DEF SJOIN
    <2>5. ModesOnJoin # None => d \in Change
      BY ConstantsAssumption DEF Change, Flag
    <2>6. ModesOnJoin # None => MODE(ts, d) \in Msg /\ MODE(ts, d).type = "MODE"
      BY <2>5, MessageTypes DEF MODE
    <2>. HIDE DEF d, new, line
    <2>7. ModesOnJoin # None => SetMode(new, d).members = new.members
      BY <2>3, <2>5, SetModeWellFormed
    <2>8. CASE Update(s, new, <<line>>)
      BY <1>2, <1>4, <1>5, <2>1, <2>3, <2>4, <2>8, JoinPairs
    <2>9. CASE ModesOnJoin # None /\ Update(s, SetMode(new, d), <<line, MODE(ts, d)>>)
      <3>. DEFINE e == SetMode(new, d)
                  mode == MODE(ts, d)
      <3>1. /\ e.members = ch[s].members \cup {u} /\ Update(s, e, <<line, mode>>)
            /\ mode \in Msg /\ mode.type = "MODE"
        BY <2>3, <2>6, <2>7, <2>9
      <3>. HIDE DEF e, mode
      <3>. QED
        BY <1>2, <1>4, <2>1, <2>4, <3>1, JoinPairs
    <2>. QED
      BY <2>1, <2>8, <2>9
  <1>7. ASSUME JoinExisting(u)
        PROVE  Pairs'
    <2>. DEFINE new == [ch[s] EXCEPT !.members = @ \cup {u}]
                line == SJOIN(ch[s].ts, {u}, {}, {}, 0, {})
    <2>1. Acts(u) /\ Exists(ch[s]) /\ Update(s, new, <<line>>)
      BY <1>2, <1>7 DEF JoinExisting
    <2>2. new.members = ch[s].members \cup {u}
      BY <1>3 DEF Channel
    <2>3. line \in Msg /\ line.type = "SJOIN" /\ line.members = {u}
      <3>1. {u} \in SUBSET User /\ {} \in SUBSET User /\ {} \in SUBSET Flag /\ 0 \in Limit \cup {0}
            /\ ch[s].ts \in TS
        BY <1>3, <2>1 DEF WellFormed
      <3>. QED
        BY <3>1, MessageTypes DEF SJOIN
    <2>. HIDE DEF new, line
    <2>. QED
      BY <1>2, <1>4, <1>5, <2>1, <2>2, <2>3, JoinPairs
  <1>8. ASSUME Part(u)
        PROVE  Pairs'
    <2>. DEFINE new == Leave(ch[s], {u})
                m == PART(u)
    <2>1. Acts(u) /\ u \in ch[s].members /\ Update(s, new, <<m>>)
      BY <1>2, <1>8 DEF Part
    <2>2. m \in Msg /\ m.type = "PART" /\ m.user = u
      BY MessageTypes DEF PART
    <2>3. new.members = ch[s].members \ {u}
      BY <1>3, LeaveWellFormed
    <2>. HIDE DEF new, m
    <2>4. ch' = [ch EXCEPT ![s] = new] /\ known' = known /\ conn' = conn
      BY <1>4, <2>1 DEF Update
    <2>5. ASSUME NEW w \in User
          PROVE  View(s, w)' = IF w = u THEN "known" ELSE View(s, w)
      <3>1. View(s, w)' = IF w \in new.members THEN "member"
                          ELSE IF View(s, w) = "away" THEN "away"
                          ELSE "known"
        BY <2>4, ViewByMembers DEF IInv
      <3>2. /\ View(s, w) = "member" <=> w \in ch[s].members
            /\ View(s, w) \in {"away", "known", "member"}
        BY DEF View
      <3>. QED
        BY <2>1, <2>3, <3>1, <3>2
    <2>6. View(s, u) = "member"
      BY <2>1 DEF View
    <2>7. \A x \in Server, w \in User : View(s, w)' = After(View(s, w), m, x, w)
      BY <2>2, <2>5, <2>6 DEF After
    <2>8. \A w \in User : Home[w] # s => View(s, w)' = View(s, w)
      BY <1>2, <2>5
    <2>9. About(m, {s})
      BY <1>2, <2>2 DEF About
    <2>. QED
      BY <2>1, <2>2, <2>4, <2>7, <2>8, <2>9, SingleUpdate
  <1>9. ASSUME NEW v \in User, Kick(u, v)
        PROVE  FALSE
    <2>1. nkick \in 0..0 /\ nkick < 0
      BY <1>9 DEF Kick, IInv, CountInv
    <2>. QED
      BY <2>1
  <1>10. ASSUME NEW d \in Change, ChangeMode(u, d)
         PROVE  Pairs'
    <2>. DEFINE new == SetMode(ch[s], d)
                m == MODE(0, d)
    <2>1. Acts(u) /\ u \in ch[s].ops /\ Update(s, new, <<m>>)
      BY <1>2, <1>10 DEF ChangeMode
    <2>2. Exists(ch[s])
      BY <1>3, <2>1 DEF WellFormed, Exists
    <2>3. new.members = ch[s].members
      BY <1>3, <2>2, SetModeWellFormed
    <2>4. m \in Msg /\ m.type = "MODE"
      <3>1. 0 \in TS \cup {0}
        OBVIOUS
      <3>. QED
        BY <3>1, MessageTypes DEF MODE
    <2>. HIDE DEF new, m
    <2>5. ch'[s] = new /\ known' = known /\ conn' = conn
      BY <1>4, <2>1 DEF Update, IInv, ChannelInv
    <2>6. \A w \in User : View(s, w)' = View(s, w)
      BY <2>3, <2>5 DEF View
    <2>7. \A x \in Server, w \in User : View(s, w)' = After(View(s, w), m, x, w)
      BY <2>4, <2>6 DEF After
    <2>8. About(m, {s})
      BY <2>4 DEF About
    <2>. QED
      BY <2>1, <2>4, <2>5, <2>6, <2>7, <2>8, SingleUpdate
  <1>. QED
    BY <1>1, <1>6, <1>7, <1>8, <1>9, <1>10

-----------------------------------------------------------------------------
(* Links *)

\* A burst makes members of the users that its reader knows, and is about the
\* members alone.
LEMMA BurstCourse ==
    ASSUME NEW c, WellFormed(c), NEW burst \in Bursts(c), NEW v \in Views, NEW s, NEW u, NEW S,
           \A w \in c.members : Home[w] \in S
    PROVE  /\ Course(burst, v, IF v # "away" /\ u \in c.members THEN "member" ELSE v, s, u)
           /\ Plain(burst, S)
  <1>. DEFINE z == IF v # "away" /\ u \in c.members THEN "member" ELSE v
  <1>1. c \in Channel /\ (Exists(c) => c.ts \in TS)
    BY DEF WellFormed
  <1>2. /\ c.members \in SUBSET User /\ c.ops \in SUBSET User /\ c.modes \in SUBSET Flag
        /\ c.lim \in Limit \cup {0} /\ c.bans \in SUBSET User
    BY <1>1 DEF Channel
  <1>3. CASE ~Exists(c)
    <2>1. burst = <<>> /\ z = v
      BY <1>3 DEF Bursts, Exists
    <2>2. Plain(<<>>, S)
      BY DEF Plain
    <2>. QED
      BY <2>1, <2>2, CourseEmpty
  <1>4. CASE Exists(c) /\ burst = <<SJOIN(c.ts, c.members, c.ops, c.modes, c.lim, c.bans)>>
    <2>. DEFINE m == SJOIN(c.ts, c.members, c.ops, c.modes, c.lim, c.bans)
    <2>1. m.type = "SJOIN" /\ m.members = c.members
      BY DEF SJOIN
    <2>2. After(v, m, s, u) = z
      BY <2>1 DEF After
    <2>3. About(m, S)
      BY <2>1 DEF About
    <2>. HIDE DEF m, z
    <2>4. Course(<<m>>, v, z, s, u)
      BY <2>2, CourseOne
    <2>5. Plain(<<m>>, S)
      BY <2>1, <2>3, PlainOne
    <2>. QED
      BY <1>4, <2>4, <2>5 DEF m, z
  <1>5. ASSUME Exists(c), NEW first \in SUBSET c.members,
               burst = <<SJOIN(c.ts, first, c.ops \cap first, c.modes, c.lim, {}),
                         SJOIN(c.ts, c.members \ first, c.ops \ first, {}, 0, c.bans)>>
        PROVE  Course(burst, v, z, s, u) /\ Plain(burst, S)
    <2>. DEFINE m1 == SJOIN(c.ts, first, c.ops \cap first, c.modes, c.lim, {})
                m2 == SJOIN(c.ts, c.members \ first, c.ops \ first, {}, 0, c.bans)
    <2>1. m1.type = "SJOIN" /\ m1.members = first /\ m2.type = "SJOIN" /\ m2.members = c.members \ first
      BY DEF SJOIN
    <2>2. m1 \in Msg
      <3>1. first \in SUBSET User /\ c.ops \cap first \in SUBSET User /\ {} \in SUBSET User
        BY <1>2
      <3>. QED
        BY <1>1, <1>2, <1>5, <3>1, MessageTypes
    <2>3. m2 \in Msg
      <3>1. c.members \ first \in SUBSET User /\ c.ops \ first \in SUBSET User
            /\ {} \in SUBSET Flag /\ 0 \in Limit \cup {0}
        BY <1>2
      <3>. QED
        BY <1>1, <1>2, <1>5, <3>1, MessageTypes
    <2>. HIDE DEF m1, m2
    <2>4. After(After(v, m1, s, u), m2, s, u) = z
      BY <1>5, <2>1 DEF After
    <2>5. About(m1, S) /\ About(m2, S)
      BY <1>5, <2>1 DEF About
    <2>. HIDE DEF z
    <2>6. Course(<<m1, m2>>, v, z, s, u)
      BY <2>2, <2>3, <2>4, CourseTwo
    <2>7. Plain(<<m1, m2>>, S)
      BY <2>1, <2>5, PlainTwo
    <2>. QED
      BY <1>5, <2>6, <2>7 DEF m1, m2
  <1>. QED
    BY <1>3, <1>4, <1>5 DEF Bursts

\* The introduction that opens a burst, and the burst: the reader, who thinks
\* of u as away or known, comes to the view of the server that bursts.
LEMMA OpeningCourse ==
    ASSUME IInv, NEW s \in Server, NEW m \in Msg, m.type \in {"SERVER", "SID"}, m.ids = known[s],
           NEW burst \in Bursts(ch[s]), NEW t, NEW u \in User, NEW v \in {"away", "known"},
           v = "known" => Home[u] \in known[s]
    PROVE  Course(<<m>> \o burst, v, View(s, u), t, u)
  <1>1. WellFormed(ch[s]) /\ \A w \in ch[s].members : Home[w] \in known[s]
    BY MemberTypes DEF IInv
  <1>. DEFINE w == IF Home[u] \in known[s] THEN "known" ELSE "away"
              z == IF w # "away" /\ u \in ch[s].members THEN "member" ELSE w
  <1>2. After(v, m, t, u) = w
    BY DEF After
  <1>3. v \in Views /\ w \in Views
    BY DEF Views
  <1>4. Course(<<m>>, v, w, t, u)
    <2>. HIDE DEF w
    <2>. QED
      BY <1>2, <1>3, CourseOne
  <1>5. View(s, u) = z
    BY <1>1 DEF View
  <1>6. Course(burst, w, z, t, u)
    <2>. HIDE DEF w
    <2>. QED
      BY <1>1, <1>3, BurstCourse
  <1>7. <<m>> \in Seq(Msg) /\ burst \in Seq(Msg)
    BY <1>1, OutTypes, BurstTypes
  <1>. HIDE DEF w, z
  <1>8. Course(<<m>> \o burst, v, z, t, u)
    BY <1>4, <1>6, <1>7, CourseConcat
  <1>. QED
    BY <1>5, <1>8

\* The stream r is opened by m: only that message may be SERVER, and all are
\* about servers of S.
Opens(r, m, S) ==
    /\ r \in Seq(Msg) /\ r # <<>> /\ Head(r) = m
    /\ \A i \in 1..Len(r) : About(r[i], S)
    /\ \A i \in 2..Len(r) : r[i].type # "SERVER"
    /\ m.type = "SID" => \A i \in 1..Len(r) : r[i].type # "SERVER"

\* An introduction and the burst behind it are about what s knows.
LEMMA OpeningPlain ==
    ASSUME IInv, NEW s \in Server, NEW m \in Msg, m.type \in {"SERVER", "SID"},
           NEW burst \in Bursts(ch[s]), NEW S, m.ids \subseteq S, known[s] \subseteq S
    PROVE  Opens(<<m>> \o burst, m, S)
  <1>. DEFINE r == <<m>> \o burst
  <1>1. WellFormed(ch[s]) /\ \A w \in ch[s].members : Home[w] \in S
    BY MemberTypes DEF IInv
  <1>2. <<m>> \in Seq(Msg) /\ burst \in Seq(Msg) /\ About(m, S)
    BY <1>1, OutTypes, BurstTypes DEF About
  <1>3. Plain(burst, S)
    <2>1. "away" \in Views
      BY DEF Views
    <2>. QED
      BY <1>1, <2>1, BurstCourse
  <1>4. <<m>> # <<>> /\ Head(<<m>>) = m /\ Len(<<m>>) = 1 /\ <<m>>[1] = m
    OBVIOUS
  <1>5. /\ r \in Seq(Msg) /\ r # <<>> /\ Head(r) = m
        /\ \A i \in 1..Len(r) : \/ i \in 1..1 /\ r[i] = <<m>>[i]
                                \/ r[i].type # "SERVER" /\ About(r[i], S)
    BY <1>2, <1>3, <1>4, Appended
  <1>. HIDE DEF r
  <1>6. \A i \in 1..Len(r) : \/ i = 1 /\ r[i] = m
                             \/ r[i].type # "SERVER" /\ About(r[i], S)
    BY <1>4, <1>5
  <1>7. \A i \in 2..Len(r) : i \in 1..Len(r) /\ i # 1
    BY <1>5
  <1>8. /\ \A i \in 1..Len(r) : About(r[i], S)
        /\ \A i \in 2..Len(r) : r[i].type # "SERVER"
        /\ m.type = "SID" => \A i \in 1..Len(r) : r[i].type # "SERVER"
    BY <1>2, <1>6, <1>7
  <1>. QED
    BY <1>5, <1>8 DEF r, Opens

\* Link: s runs server_sync
LEMMA LinkPairs ==
    ASSUME IInv, Pairs, IInv', NEW s \in Server, NEW t \in Server, Link(s, t)
    PROVE  Pairs'
  <1>. DEFINE on == SID({t})
              m == SERVER(known[s])
              D == Deliver(chan, s, ToOthers(s, t, on))
  <1>1. /\ s # t /\ {s, t} \in Edge /\ conn[s][t] = "none" /\ conn[t][s] = "none"
        /\ chan[t][s] = <<>> /\ chan[s][t] = <<>>
        /\ conn' = [conn EXCEPT ![s][t] = "up", ![t][s] = "out"]
        /\ known' = [known EXCEPT ![s] = @ \cup {t}] /\ ch' = ch
    BY DEF Link
  <1>2. PICK burst \in Bursts(ch[s]) : chan' = [D EXCEPT ![s][t] = <<m>> \o burst]
    BY DEF Link
  <1>3. /\ on \in Msg /\ on.type = "SID" /\ on.ids = {t}
        /\ m \in Msg /\ m.type = "SERVER" /\ m.ids = known[s]
    <2>1. known[s] \in SUBSET Server /\ {t} \in SUBSET Server
      BY DEF IInv, ChannelInv
    <2>. QED
      BY <2>1, MessageTypes DEF SID, SERVER
  <1>4. /\ {t, s} \in Edge /\ Beyond(t, s) = Server \ Beyond(s, t) /\ t \in Beyond(s, t)
        /\ t \notin Beyond(t, s) /\ s \notin Beyond(s, t)
    BY <1>1, Sides
  <1>5. Pair(s, t) /\ Pair(t, s)
    BY <1>1 DEF Pairs
  <1>6. known[s] \subseteq Beyond(t, s) /\ known[s] \cap Beyond(s, t) = {} /\ known[t] \cap Beyond(t, s) = {}
    BY <1>1, <1>4, <1>5 DEF Pair, Severed, IInv, ChannelInv
  <1>7. /\ conn'[s][t] = "up" /\ conn'[t][s] = "out"
        /\ known'[s] = known[s] \cup {t}
        /\ \A x \in Server \ {s} : known'[x] = known[x]
    BY <1>1 DEF IInv, LinkInv, ChannelInv
  <1>8. /\ \A a \in Server \ {s}, b \in Server : D[a][b] = chan[a][b]
        /\ \A x \in Server \ {s, t} : D[s][x] =
              IF x \in Up(s) /\ conn[x][s] # "none" THEN chan[s][x] \o <<on>> ELSE chan[s][x]
        /\ D \in [Server -> [Server -> Seq(Msg)]]
    <2>1. chan \in [Server -> [Server -> Seq(Msg)]]
      BY DEF IInv, LinkInv, Streams
    <2>2. \A p \in Seq(Msg) : p \o <<>> = p
      BY ConcatEmptySeq
    <2>. DEFINE out == ToOthers(s, t, on)
    <2>3. out \in Out
      BY <1>3, OutTypes
    <2>4. D \in Streams
      BY <2>3, DeliverStreams DEF IInv, LinkInv
    <2>5. \A x \in Server \ {s, t} : out[x] = IF x \in Up(s) THEN <<on>> ELSE <<>>
      BY DEF ToOthers
    <2>. HIDE DEF out, on
    <2>6. D = [chan EXCEPT ![s] = [x \in Server |->
                  IF conn[x][s] # "none" THEN chan[s][x] \o out[x] ELSE chan[s][x]]]
      BY <2>1 DEF Deliver, out
    <2>. HIDE DEF D
    <2>7. \A a \in Server \ {s}, b \in Server : D[a][b] = chan[a][b]
      BY <2>1, <2>6
    <2>8. ASSUME NEW x \in Server \ {s, t}
          PROVE  D[s][x] = IF x \in Up(s) /\ conn[x][s] # "none" THEN chan[s][x] \o <<on>>
                           ELSE chan[s][x]
      <3>1. D[s][x] = IF conn[x][s] # "none" THEN chan[s][x] \o out[x] ELSE chan[s][x]
        BY <2>1, <2>6
      <3>2. chan[s][x] \o <<>> = chan[s][x]
        BY <2>1, <2>2
      <3>. QED
        BY <2>5, <3>1, <3>2
    <2>. QED
      BY <2>4, <2>7, <2>8 DEF Streams
  <1>. HIDE DEF D, on, m
  <1>9. /\ chan'[s][t] = <<m>> \o burst /\ chan'[t][s] = <<>>
        /\ \A a \in Server \ {s}, b \in Server : chan'[a][b] = chan[a][b]
        /\ \A x \in Server \ {s, t} : chan'[s][x] = D[s][x]
    BY <1>1, <1>2, <1>8
  <1>10. Elsewhere(s, t, <<on>>)
    <2>1. \A a, b \in Server : <<a, b>> \notin {<<s, t>>, <<t, s>>} => conn'[a][b] = conn[a][b]
      BY <1>1 DEF IInv, LinkInv
    <2>2. \A x \in Server \ {s} : known'[x] = known[x] /\ ch'[x] = ch[x]
      BY <1>1, <1>7
    <2>3. \A a, b \in Server \ {s} : chan'[a][b] = chan[a][b]
      BY <1>9
    <2>4. ASSUME NEW x \in Server \ {s, t}
          PROVE  /\ chan'[x][s] = chan[x][s]
                 /\ chan'[s][x] = IF x \in Up(s) /\ conn[x][s] # "none" THEN chan[s][x] \o <<on>>
                                  ELSE chan[s][x]
      BY <1>8, <1>9
    <2>. QED
      BY <2>1, <2>2, <2>3, <2>4 DEF Elsewhere
  <1>11. \A u \in User : View(s, u)' = IF View(s, u) = "away" /\ Home[u] = t THEN "known" ELSE View(s, u)
    BY <1>1, <1>7 DEF View
  <1>12. <<on>> \in Seq(Msg) /\ Conveys(s, t, <<on>>)
    <2>1. About(on, Beyond(s, t))
      BY <1>3, <1>4 DEF About
    <2>2. \A u \in User : View(s, u)' = After(View(s, u), on, s, u)
      BY <1>3, <1>11 DEF After
    <2>. QED
      BY <1>3, <2>1, <2>2, Single
  <1>13. known'[s] \subseteq known[s] \cup Beyond(s, t)
    BY <1>4, <1>7
  <1>14. \A x \in Server \ {s, t} : {s, x} \in Edge => Informs(s, x, <<on>>)
    BY <1>1, <1>12, <1>13, ConveyInforms
  <1>15. \A a, b : Beyond(a, b)' = Beyond(a, b)
    BY DEF Beyond
  <1>. DEFINE r == <<m>> \o burst
  <1>16. Opens(r, m, Beyond(t, s))
    BY <1>3, <1>6, OpeningPlain
  <1>17. \A u \in ch[t].members : Home[u] \in known[t]
    BY MemberTypes DEF IInv
  <1>18. ASSUME NEW u \in User, Home[u] \in Beyond(t, s)
         PROVE  Course(r, View(t, u)', View(s, u)', t, u)
    <2>1. View(t, u)' = "away"
      BY <1>1, <1>6, <1>7, <1>17, <1>18 DEF View
    <2>2. View(s, u)' = View(s, u)
      BY <1>4, <1>11, <1>18
    <2>3. Course(r, "away", View(s, u), t, u)
      BY <1>3, OpeningCourse
    <2>. QED
      BY <2>1, <2>2, <2>3
  <1>19. \A u \in ch[s].members : Home[u] \in known[s]
    BY MemberTypes DEF IInv
  <1>. HIDE DEF r
  <1>20. chan'[s][t] = r
    BY <1>9 DEF r
  <1>21. Pair(s, t)'
    <2>1. Ends(s, t)'
      BY <1>1, <1>3, <1>7, <1>16, <1>20 DEF Ends, Opens
    <2>2. Located(s, t)'
      BY <1>15, <1>16, <1>20 DEF Located, Opens, About
    <2>3. Severed(s, t)'
      BY <1>7 DEF Severed
    <2>4. Unanswered(s, t)'
      BY <1>1, <1>6, <1>7, <1>15, <1>19 DEF Unanswered
    <2>5. Follows(s, t)'
      BY <1>15, <1>18, <1>20 DEF Follows, Course, After
    <2>. QED
      BY <2>1, <2>2, <2>3, <2>4, <2>5 DEF Pair
  <1>22. Pair(t, s)'
    <2>1. Ends(t, s)' /\ Located(t, s)'
      BY <1>4, <1>7, <1>9 DEF Ends, Located
    <2>2. Severed(t, s)'
      BY <1>1, <1>6, <1>7, <1>15 DEF Severed
    <2>3. Unanswered(t, s)' /\ Follows(t, s)'
      BY <1>7 DEF Unanswered, Follows
    <2>. QED
      BY <2>1, <2>2, <2>3 DEF Pair
  <1>23. ch'[s].members \subseteq User
    BY NewMembers
  <1>. QED
    BY <1>10, <1>12, <1>14, <1>21, <1>22, <1>23, Glue

\* Where and what a delivery appends.
LEMMA DeliverTo ==
    ASSUME NEW c \in Streams, NEW s \in Server, NEW out \in Out
    PROVE  /\ \A a \in Server \ {s}, b \in Server : Deliver(c, s, out)[a][b] = c[a][b]
           /\ \A x \in Server : conn[x][s] = "none" => Deliver(c, s, out)[s][x] = c[s][x]
           /\ \A x \in Server : conn[x][s] # "none" => Deliver(c, s, out)[s][x] = c[s][x] \o out[x]
           /\ \A x \in Server : c[s][x] \o <<>> = c[s][x]
  <1>. DEFINE D == Deliver(c, s, out)
  <1>1. c \in [Server -> [Server -> Seq(Msg)]]
    BY DEF Streams
  <1>2. D = [c EXCEPT ![s] = [x \in Server |->
                IF conn[x][s] # "none" THEN c[s][x] \o out[x] ELSE c[s][x]]]
    BY <1>1 DEF Deliver
  <1>. HIDE DEF D
  <1>3. \A a \in Server \ {s}, b \in Server : D[a][b] = c[a][b]
    BY <1>1, <1>2
  <1>4. \A x \in Server : D[s][x] = IF conn[x][s] # "none" THEN c[s][x] \o out[x] ELSE c[s][x]
    BY <1>1, <1>2
  <1>5. \A x \in Server : c[s][x] \o <<>> = c[s][x]
    BY <1>1, ConcatEmptySeq
  <1>. QED
    BY <1>3, <1>4, <1>5 DEF D

\* SERVER: the end that connected runs server_sync in turn
LEMMA RecvSERVERPairs ==
    ASSUME IInv, Pairs, IInv', NEW s \in Server, NEW t \in Server, RecvSERVER(s, t)
    PROVE  Pairs'
  <1>. DEFINE q == chan[t][s]
              m == Head(q)
              on == SID(m.ids)
              mine == SID(known[s])
              c == Consume(s, t)
  <1>1. Receives(s, t, "SERVER") /\ ch' = ch /\ conn' = [conn EXCEPT ![s][t] = "up"]
        /\ known' = [known EXCEPT ![s] = @ \cup m.ids]
    BY DEF RecvSERVER
  <1>2. PICK burst \in Bursts(ch[s]) :
            chan' = Deliver(c, s, [ToOthers(s, t, on) EXCEPT ![t] = <<mine>> \o burst])
    BY DEF RecvSERVER
  <1>3. /\ s # t /\ {s, t} \in Edge /\ q # <<>> /\ m \in Msg /\ m.type = "SERVER"
        /\ About(m, Beyond(s, t)) /\ q \in Seq(Msg) /\ c \in Streams
    <2>1. /\ s # t /\ {s, t} \in Edge /\ q # <<>> /\ m \in Msg /\ m.type = "SERVER"
          /\ About(m, Beyond(s, t))
      BY <1>1, ReadFacts
    <2>2. q \in Seq(Msg)
      BY DEF IInv, LinkInv, Streams
    <2>3. c \in Streams
      BY <1>1, ConsumeStreams DEF IInv
    <2>. QED
      BY <2>1, <2>2, <2>3
  <1>4. Pair(s, t) /\ Pair(t, s) /\ conn[s][t] \in ConnState /\ conn[t][s] \in ConnState
    BY <1>3 DEF Pairs, IInv, LinkInv
  <1>5. /\ Len(q) \in Nat /\ Len(q) >= 1 /\ m = q[1] /\ Len(Tail(q)) = Len(q) - 1
        /\ \A i \in 1..Len(q) - 1 : Tail(q)[i] = q[i + 1]
    BY <1>3, HeadTailProperties
  <1>6. conn[s][t] = "out" /\ chan[s][t] = <<>> /\ (conn[t][s] = "none" \/ conn[t][s] = "up")
    <2>1. 1 \in 1..Len(q)
      BY <1>5
    <2>. QED
      BY <1>3, <1>4, <1>5, <2>1 DEF Pair, Ends, ConnState
  <1>7. /\ {t, s} \in Edge /\ Beyond(t, s) = Server \ Beyond(s, t)
        /\ s \in Beyond(t, s) /\ t \notin Beyond(t, s)
    BY <1>3, Sides
  <1>8. known[s] \subseteq Beyond(t, s) /\ m.ids \subseteq Beyond(s, t) /\ m.ids \in SUBSET Server
    <2>1. known[s] \cap Beyond(s, t) = {} /\ known[s] \subseteq Server
      BY <1>3, <1>4, <1>6 DEF Pair, Severed, IInv, ChannelInv
    <2>. QED
      BY <1>3, <1>7, <2>1, MessageFields DEF About
  <1>. DEFINE r == <<mine>> \o burst
              out == [ToOthers(s, t, on) EXCEPT ![t] = r]
  <1>. HIDE DEF m, c
  <1>9. /\ on \in Msg /\ on.type = "SID" /\ on.ids = m.ids
        /\ mine \in Msg /\ mine.type = "SID" /\ mine.ids = known[s]
    <2>1. known[s] \in SUBSET Server
      BY DEF IInv, ChannelInv
    <2>. QED
      BY <1>8, <2>1, MessageTypes DEF SID
  <1>. HIDE DEF on, mine
  <1>10. Opens(r, mine, Beyond(t, s))
    BY <1>8, <1>9, OpeningPlain
  <1>11. /\ out \in Out /\ out[t] = r
         /\ \A x \in Server \ {s, t} : out[x] = IF x \in Up(s) THEN <<on>> ELSE <<>>
    <2>1. ToOthers(s, t, on) \in Out /\ r \in Seq(Msg)
      BY <1>9, <1>10, OutTypes DEF Opens
    <2>. HIDE DEF r
    <2>2. out \in Out /\ out[t] = r
      BY <2>1 DEF Out
    <2>3. \A x \in Server \ {s, t} : out[x] = ToOthers(s, t, on)[x]
      BY <2>1 DEF Out
    <2>. HIDE DEF out
    <2>4. \A x \in Server \ {s, t} : out[x] = IF x \in Up(s) THEN <<on>> ELSE <<>>
      BY <2>3 DEF ToOthers
    <2>. QED
      BY <2>2, <2>4
  <1>12. chan' = Deliver(c, s, out)
    BY <1>2
  <1>. HIDE DEF r, out
  <1>13. /\ c[t][s] = Tail(q)
         /\ \A a, b \in Server : <<a, b>> # <<t, s>> => c[a][b] = chan[a][b]
    BY DEF c, Consume, IInv, LinkInv, Streams
  <1>14. /\ \A a \in Server \ {s}, b \in Server : chan'[a][b] = c[a][b]
         /\ \A x \in Server : conn[x][s] = "none" => chan'[s][x] = c[s][x]
         /\ \A x \in Server : conn[x][s] # "none" => chan'[s][x] = c[s][x] \o out[x]
         /\ \A x \in Server : c[s][x] \o <<>> = c[s][x]
    <2>. DEFINE D == Deliver(c, s, out)
    <2>1. c \in Streams /\ out \in Out
      BY <1>3, <1>11
    <2>2. /\ \A a \in Server \ {s}, b \in Server : D[a][b] = c[a][b]
          /\ \A x \in Server : conn[x][s] = "none" => D[s][x] = c[s][x]
          /\ \A x \in Server : conn[x][s] # "none" => D[s][x] = c[s][x] \o out[x]
          /\ \A x \in Server : c[s][x] \o <<>> = c[s][x]
      BY <2>1, DeliverTo
    <2>. HIDE DEF D
    <2>3. chan' = D
      BY <1>12 DEF D
    <2>. QED
      BY <2>2, <2>3
  <1>15. /\ chan'[t][s] = Tail(q)
         /\ conn[t][s] = "none" => chan'[s][t] = <<>>
         /\ conn[t][s] = "up" => chan'[s][t] = r
    <2>1. c[s][t] = <<>> /\ out[t] = r /\ r \in Seq(Msg)
      BY <1>3, <1>6, <1>10, <1>11, <1>13 DEF Opens
    <2>2. <<>> \o r = r
      BY <2>1, ConcatEmptySeq
    <2>3. conn[t][s] = "up" => chan'[s][t] = <<>> \o r
      BY <1>14, <2>1
    <2>. QED
      BY <1>3, <1>13, <1>14, <2>1, <2>2, <2>3
  <1>16. /\ conn'[s][t] = "up" /\ conn'[t][s] = conn[t][s]
         /\ known'[s] = known[s] \cup m.ids
         /\ \A x \in Server \ {s} : known'[x] = known[x]
    BY <1>1, <1>3 DEF IInv, LinkInv, ChannelInv
  <1>17. Elsewhere(s, t, <<on>>)
    <2>1. \A a, b \in Server : <<a, b>> \notin {<<s, t>>, <<t, s>>} => conn'[a][b] = conn[a][b]
      BY <1>1 DEF IInv, LinkInv
    <2>2. \A a, b \in Server \ {s} : chan'[a][b] = chan[a][b]
      BY <1>13, <1>14
    <2>3. ASSUME NEW x \in Server \ {s, t}
          PROVE  /\ chan'[x][s] = chan[x][s]
                 /\ chan'[s][x] = IF x \in Up(s) /\ conn[x][s] # "none" THEN chan[s][x] \o <<on>>
                                  ELSE chan[s][x]
      <3>1. c[s][x] = chan[s][x] /\ c[x][s] = chan[x][s]
        BY <1>3, <1>13
      <3>2. out[x] = IF x \in Up(s) THEN <<on>> ELSE <<>>
        BY <1>11
      <3>3. /\ conn[x][s] = "none" => chan'[s][x] = c[s][x]
            /\ conn[x][s] # "none" => chan'[s][x] = c[s][x] \o out[x]
            /\ c[s][x] \o <<>> = c[s][x]
        BY <1>14
      <3>4. chan'[x][s] = chan[x][s]
        BY <1>14, <3>1
      <3>. QED
        BY <3>1, <3>2, <3>3, <3>4
    <2>. QED
      BY <1>1, <1>16, <2>1, <2>2, <2>3 DEF Elsewhere
  <1>18. \A u \in User : View(s, u)' = IF View(s, u) = "away" /\ Home[u] \in m.ids THEN "known"
                                       ELSE View(s, u)
    BY <1>1, <1>16 DEF View
  <1>19. \A u \in User : View(s, u)' = After(View(s, u), m, s, u)
    BY <1>3, <1>18 DEF After
  <1>20. <<on>> \in Seq(Msg) /\ Conveys(s, t, <<on>>)
    <2>1. About(on, Beyond(s, t))
      BY <1>8, <1>9 DEF About
    <2>2. \A u \in User : View(s, u)' = After(View(s, u), on, s, u)
      BY <1>9, <1>18 DEF After
    <2>. QED
      BY <1>9, <2>1, <2>2, Single
  <1>21. known'[s] \subseteq known[s] \cup Beyond(s, t)
    BY <1>8, <1>16
  <1>22. \A x \in Server \ {s, t} : {s, x} \in Edge => Informs(s, x, <<on>>)
    BY <1>3, <1>20, <1>21, ConveyInforms
  <1>23. \A a, b : Beyond(a, b)' = Beyond(a, b)
    BY DEF Beyond
  <1>24. \A u : View(t, u)' = View(t, u)
    BY <1>1, <1>3, <1>16 DEF View
  <1>25. ASSUME conn[t][s] = "up", NEW u \in User, Home[u] \in Beyond(t, s)
         PROVE  Course(r, View(t, u)', View(s, u)', t, u)
    <2>1. known[t] \cap Beyond(t, s) \subseteq {s} /\ \A w \in ch[t].members : Home[w] \notin Beyond(t, s)
      BY <1>4, <1>6, <1>25 DEF Pair, Unanswered
    <2>2. s \in known[s]
      BY DEF IInv, ChannelInv
    <2>3. View(t, u) \in {"away", "known"} /\ (View(t, u) = "known" => Home[u] \in known[s])
      BY <1>25, <2>1, <2>2 DEF View
    <2>4. View(s, u)' = View(s, u)
      BY <1>7, <1>8, <1>18, <1>25
    <2>. DEFINE v == View(t, u)
    <2>. HIDE DEF v
    <2>5. Course(r, v, View(s, u), t, u)
      BY <1>9, <2>3, OpeningCourse DEF r, v
    <2>. QED
      BY <1>24, <2>4, <2>5 DEF v
  <1>26. Pair(s, t)'
    <2>1. Ends(s, t)'
      <3>1. conn[t][s] = "up" => \A i \in 1..Len(r) : r[i].type # "SERVER"
        BY <1>9, <1>10 DEF Opens
      <3>2. conn[t][s] = "up" => \A i \in 2..Len(r) : r[i].type # "SERVER"
        BY <1>10 DEF Opens
      <3>3. Len(<<>>) = 0 /\ 2..0 = {}
        OBVIOUS
      <3>. QED
        BY <1>3, <1>6, <1>15, <1>16, <3>1, <3>2, <3>3 DEF Ends
    <2>2. Located(s, t)'
      <3>1. \A i \in 1..Len(chan'[s][t]) : About(chan'[s][t][i], Beyond(t, s))
        <4>1. CASE conn[t][s] = "none"
          BY <1>15, <4>1
        <4>2. CASE conn[t][s] = "up"
          BY <1>10, <1>15, <4>2 DEF Opens
        <4>. QED
          BY <1>6, <4>1, <4>2
      <3>. QED
        BY <1>23, <3>1 DEF Located, About
    <2>3. Severed(s, t)' /\ Unanswered(s, t)'
      BY <1>6, <1>16 DEF Severed, Unanswered
    <2>4. Follows(s, t)'
      <3>1. CASE conn[t][s] = "none"
        BY <1>16, <3>1 DEF Follows
      <3>2. CASE conn[t][s] = "up"
        <4>1. \A u \in User : Home[u] \in Beyond(t, s)' =>
                 Course(chan'[s][t], View(t, u)', View(s, u)', t, u)
          BY <1>15, <1>23, <1>25, <3>2
        <4>. QED
          BY <4>1 DEF Follows, Course, After, Beyond
      <3>. QED
        BY <1>6, <3>1, <3>2
    <2>. QED
      BY <2>1, <2>2, <2>3, <2>4 DEF Pair
  <1>27. Pair(t, s)'
    <2>1. \A i \in 1..Len(Tail(q)) : i + 1 \in 2..Len(q) /\ i + 1 \in 1..Len(q) /\ Tail(q)[i] = q[i + 1]
      BY <1>5
    <2>2. /\ \A i \in 1..Len(q) : About(q[i], Beyond(s, t))
          /\ \A i \in 2..Len(q) : q[i].type # "SERVER"
      BY <1>4 DEF Pair, Ends, Located
    <2>3. \A i \in 1..Len(Tail(q)) : Tail(q)[i].type # "SERVER" /\ About(Tail(q)[i], Beyond(s, t))
      BY <2>1, <2>2
    <2>4. Ends(t, s)'
      <3>1. \A i \in 2..Len(Tail(q)) : i \in 1..Len(Tail(q))
        BY <1>5
      <3>. QED
        BY <1>4, <1>6, <1>7, <1>15, <1>16, <2>3, <3>1 DEF Pair, Ends
    <2>5. Located(t, s)'
      BY <1>15, <1>23, <2>3 DEF Located, About
    <2>6. Severed(t, s)'
      BY <1>3, <1>4, <1>16, <1>23 DEF Pair, Severed
    <2>7. Unanswered(t, s)'
      BY <1>16 DEF Unanswered
    <2>8. Follows(t, s)'
      <3>1. ASSUME conn[t][s] = "up", NEW u \in User, Home[u] \in Beyond(s, t)
            PROVE  Course(chan'[t][s], View(s, u)', View(t, u)', s, u)
        <4>1. Course(q, View(s, u), View(t, u), s, u)
          BY <1>4, <1>6, <3>1 DEF Pair, Follows
        <4>2. Course(Tail(q), After(View(s, u), m, s, u), View(t, u), s, u)
          BY <1>3, <4>1, CourseHead DEF m
        <4>3. View(s, u)' = After(View(s, u), m, s, u) /\ View(t, u)' = View(t, u)
          BY <1>19, <1>24
        <4>. QED
          BY <1>15, <4>2, <4>3
      <3>. QED
        BY <1>16, <1>23, <3>1 DEF Follows, Course, After
    <2>. QED
      BY <2>4, <2>5, <2>6, <2>7, <2>8 DEF Pair
  <1>28. ch'[s].members \subseteq User
    BY NewMembers
  <1>. QED
    BY <1>17, <1>20, <1>22, <1>26, <1>27, <1>28, Glue

\* A link goes down at one end
LEMMA CloseLinkPairs ==
    ASSUME IInv, Pairs, IInv', NEW s \in Server, NEW t \in Server, s # t,
           conn[s][t] # "none", CloseLink(s, t)
    PROVE  Pairs'
  <1>. DEFINE up == conn[s][t] = "up"
              gone == IF up THEN Beyond(s, t) ELSE {}
              on == SQUIT(t)
              ms == IF up THEN <<on>> ELSE <<>>
              out == IF up THEN ToOthers(s, t, on) ELSE [x \in Server |-> <<>>]
              D == Deliver(chan, s, out)
              lost == {u \in User : Home[u] \in gone}
  <1>1. /\ conn' = [conn EXCEPT ![s][t] = "none"]
        /\ known' = [known EXCEPT ![s] = @ \ gone]
        /\ ch' = [ch EXCEPT ![s] = Leave(@, lost)]
        /\ chan' = [D EXCEPT ![t][s] = <<>>,
                             ![s][t] = IF conn[t][s] # "none" THEN Append(@, EOF) ELSE <<>>]
    BY DEF CloseLink, Forget
  <1>2. Pair(s, t) /\ Pair(t, s) /\ chan \in Streams
    BY DEF Pairs, IInv, LinkInv
  <1>3. {s, t} \in Edge
    BY <1>2 DEF Pair, Ends
  <1>4. {t, s} \in Edge /\ t \in Beyond(s, t) /\ Beyond(s, t) \in SUBSET Server
    BY <1>3, Sides
  <1>5. on \in Msg /\ on.type = "SQUIT" /\ on.id = t /\ About(on, Beyond(s, t))
    BY <1>4, MessageTypes DEF SQUIT, About
  <1>. HIDE DEF on
  <1>6. ms \in Seq(Msg) /\ (up => ms = <<on>>) /\ (~up => ms = <<>>)
    BY <1>5, OutTypes
  <1>7. /\ out \in Out /\ out[t] = <<>>
        /\ \A x \in Server \ {s, t} : out[x] = IF x \in Up(s) THEN ms ELSE <<>>
    <2>1. CASE up
      <3>1. ToOthers(s, t, on) \in Out
        BY <1>5, OutTypes
      <3>. QED
        BY <2>1, <3>1 DEF ToOthers
    <2>2. CASE ~up
      <3>1. [x \in Server |-> <<>>] \in Out
        BY OutTypes DEF Out
      <3>. QED
        BY <2>2, <3>1
    <2>. QED
      BY <2>1, <2>2
  <1>8. /\ (up => gone = Beyond(s, t)) /\ (~up => gone = {})
    OBVIOUS
  <1>. HIDE DEF ms, out, gone, up
  <1>9. /\ \A a \in Server \ {s}, b \in Server : D[a][b] = chan[a][b]
        /\ \A x \in Server : conn[x][s] = "none" => D[s][x] = chan[s][x]
        /\ \A x \in Server : conn[x][s] # "none" => D[s][x] = chan[s][x] \o out[x]
        /\ \A x \in Server : chan[s][x] \o <<>> = chan[s][x]
    BY <1>2, <1>7, DeliverTo
  <1>10. D \in Streams
    BY <1>2, <1>7, DeliverStreams DEF IInv
  <1>. HIDE DEF D
  <1>. DEFINE q == chan[s][t]
  <1>11. /\ chan'[t][s] = <<>> /\ q \in Seq(Msg)
         /\ conn[t][s] = "none" => chan'[s][t] = <<>>
         /\ conn[t][s] # "none" => chan'[s][t] = q \o <<EOF>>
    <2>1. D \in [Server -> [Server -> Seq(Msg)]] /\ q \in Seq(Msg)
      BY <1>2, <1>10 DEF Streams
    <2>2. D[s][t] = q
      BY <1>7, <1>9
    <2>3. Append(q, EOF) = q \o <<EOF>>
      BY <2>1, MessageTypes, AppendIsConcat
    <2>. DEFINE e == IF conn[t][s] # "none" THEN Append(q, EOF) ELSE <<>>
    <2>4. chan' = [D EXCEPT ![t][s] = <<>>, ![s][t] = e]
      BY <1>1, <2>1, <2>2
    <2>5. (conn[t][s] # "none" => e = q \o <<EOF>>) /\ (conn[t][s] = "none" => e = <<>>)
      BY <2>3
    <2>. HIDE DEF e, q
    <2>6. chan'[s][t] = e /\ chan'[t][s] = <<>>
      BY <2>1, <2>4
    <2>. QED
      BY <2>1, <2>5, <2>6
  <1>12. /\ \A a, b \in Server : <<a, b>> \notin {<<s, t>>, <<t, s>>} => chan'[a][b] = D[a][b]
    BY <1>1, <1>10 DEF Streams
  <1>13. /\ conn'[s][t] = "none" /\ conn'[t][s] = conn[t][s]
         /\ known'[s] = known[s] \ gone
         /\ \A x \in Server \ {s} : known'[x] = known[x] /\ ch'[x] = ch[x]
         /\ ch'[s].members = ch[s].members \ lost
    <2>1. ch'[s] = Leave(ch[s], lost)
      BY <1>1 DEF IInv, ChannelInv
    <2>2. Leave(ch[s], lost).members = ch[s].members \ lost
      BY MemberTypes, LeaveWellFormed DEF IInv
    <2>3. conn'[s][t] = "none" /\ conn'[t][s] = conn[t][s]
      BY <1>1 DEF IInv, LinkInv
    <2>4. known'[s] = known[s] \ gone
      BY <1>1 DEF IInv, ChannelInv
    <2>5. \A x \in Server \ {s} : known'[x] = known[x] /\ ch'[x] = ch[x]
      BY <1>1 DEF IInv, ChannelInv
    <2>. QED
      BY <2>1, <2>2, <2>3, <2>4, <2>5
  <1>14. Elsewhere(s, t, ms)
    <2>1. \A a, b \in Server : <<a, b>> \notin {<<s, t>>, <<t, s>>} => conn'[a][b] = conn[a][b]
      BY <1>1 DEF IInv, LinkInv
    <2>2. \A a, b \in Server \ {s} : chan'[a][b] = chan[a][b]
      BY <1>9, <1>12
    <2>3. ASSUME NEW x \in Server \ {s, t}
          PROVE  /\ chan'[x][s] = chan[x][s]
                 /\ chan'[s][x] = IF x \in Up(s) /\ conn[x][s] # "none" THEN chan[s][x] \o ms
                                  ELSE chan[s][x]
      <3>1. chan'[s][x] = D[s][x] /\ chan'[x][s] = D[x][s] /\ D[x][s] = chan[x][s]
        BY <1>9, <1>12
      <3>2. out[x] = IF x \in Up(s) THEN ms ELSE <<>>
        BY <1>7
      <3>3. /\ conn[x][s] = "none" => D[s][x] = chan[s][x]
            /\ conn[x][s] # "none" => D[s][x] = chan[s][x] \o out[x]
            /\ chan[s][x] \o <<>> = chan[s][x]
        BY <1>9
      <3>. QED
        BY <3>1, <3>2, <3>3
    <2>. QED
      BY <1>13, <2>1, <2>2, <2>3 DEF Elsewhere
  <1>15. \A u \in User : View(s, u)' = IF Home[u] \in gone THEN "away" ELSE View(s, u)
    BY <1>13 DEF View, lost
  <1>16. Conveys(s, t, ms)
    <2>1. CASE up
      <3>1. \A u \in User : View(s, u)' = After(View(s, u), on, s, u)
        BY <1>5, <1>8, <1>15, <2>1 DEF After
      <3>. QED
        BY <1>5, <1>6, <2>1, <3>1, Single
    <2>2. CASE ~up
      <3>1. \A u \in User : View(s, u)' = View(s, u)
        BY <1>8, <1>15, <2>2
      <3>. QED
        BY <1>6, <2>2, <3>1 DEF Conveys
    <2>. QED
      BY <2>1, <2>2
  <1>17. known'[s] \subseteq known[s] \cup Beyond(s, t)
    BY <1>13
  <1>18. \A x \in Server \ {s, t} : {s, x} \in Edge => Informs(s, x, ms)
    BY <1>3, <1>16, <1>17, ConveyInforms
  <1>19. \A a, b : Beyond(a, b)' = Beyond(a, b)
    BY DEF Beyond
  <1>20. Pair(s, t)'
    <2>. DEFINE r == q \o <<EOF>>
    <2>1. Plain(<<EOF>>, Beyond(t, s))
      <3>1. EOF.type = "EOF"
        BY DEF EOF
      <3>2. About(EOF, Beyond(t, s))
        BY <3>1 DEF About
      <3>. QED
        BY <3>1, <3>2, PlainOne
    <2>2. /\ r \in Seq(Msg)
          /\ q # <<>> => r # <<>> /\ Head(r) = Head(q)
          /\ \A i \in 1..Len(r) : \/ i \in 1..Len(q) /\ r[i] = q[i]
                                  \/ r[i].type # "SERVER" /\ About(r[i], Beyond(t, s))
      BY <1>11, <2>1, MessageTypes, OutTypes, Appended
    <2>. HIDE DEF r
    <2>3. \A i \in 2..Len(r) : i \in 1..Len(r) /\ (i \in 1..Len(q) => i \in 2..Len(q))
      BY <1>11, <2>2
    <2>4. conn[t][s] # "none" => chan'[s][t] = r
      BY <1>11 DEF r
    <2>5. Ends(s, t)'
      <3>1. Ends(s, t)
        BY <1>2 DEF Pair
      <3>2. /\ conn[t][s] = "out" => r # <<>> /\ Head(r).type = "SERVER"
            /\ conn[t][s] = "up" => \A i \in 1..Len(r) : r[i].type # "SERVER"
            /\ \A i \in 2..Len(r) : r[i].type # "SERVER"
        BY <2>2, <2>3, <3>1 DEF Ends
      <3>3. CASE conn[t][s] = "none"
        <4>1. Len(<<>>) = 0 /\ 2..0 = {}
          OBVIOUS
        <4>. QED
          BY <1>11, <1>13, <3>3, <4>1 DEF Ends
      <3>4. CASE conn[t][s] # "none"
        BY <1>13, <2>4, <3>2, <3>4 DEF Ends
      <3>. QED
        BY <3>3, <3>4
    <2>6. Located(s, t)'
      <3>1. \A i \in 1..Len(q) : About(q[i], Beyond(t, s))
        BY <1>2 DEF Pair, Located
      <3>2. \A i \in 1..Len(r) : About(r[i], Beyond(t, s))
        BY <2>2, <3>1
      <3>3. \A i \in 1..Len(chan'[s][t]) : About(chan'[s][t][i], Beyond(t, s))
        <4>1. CASE conn[t][s] = "none"
          BY <1>11, <4>1
        <4>2. CASE conn[t][s] # "none"
          BY <2>4, <3>2, <4>2
        <4>. QED
          BY <4>1, <4>2
      <3>. QED
        BY <1>19, <3>3 DEF Located, About
    <2>7. Severed(s, t)'
      <3>1. known'[s] \cap Beyond(s, t) = {}
        <4>1. CASE up
          BY <1>8, <1>13, <4>1
        <4>2. CASE ~up
          <5>1. known[s] \cap Beyond(s, t) = {}
            BY <1>2, <1>3, <4>2 DEF up, Pair, Severed
          <5>. QED
            BY <1>8, <1>13, <4>2, <5>1
        <4>. QED
          BY <4>1, <4>2
      <3>. QED
        BY <1>19, <3>1 DEF Severed
    <2>8. Unanswered(s, t)' /\ Follows(s, t)'
      BY <1>13 DEF Unanswered, Follows
    <2>. QED
      BY <2>5, <2>6, <2>7, <2>8 DEF Pair
  <1>21. Pair(t, s)'
    <2>1. Ends(t, s)'
      <3>1. Len(<<>>) = 0 /\ 2..0 = {}
        OBVIOUS
      <3>. QED
        BY <1>4, <1>11, <1>13, <3>1 DEF Ends
    <2>2. Located(t, s)'
      BY <1>11 DEF Located
    <2>3. Severed(t, s)'
      BY <1>2, <1>13, <1>19 DEF Pair, Severed
    <2>4. Unanswered(t, s)' /\ Follows(t, s)'
      BY <1>13 DEF Unanswered, Follows
    <2>. QED
      BY <2>1, <2>2, <2>3, <2>4 DEF Pair
  <1>22. ch'[s].members \subseteq User
    BY NewMembers
  <1>. QED
    BY <1>6, <1>14, <1>18, <1>20, <1>21, <1>22, Glue

-----------------------------------------------------------------------------
(* The theorem *)

\* Every step preserves the invariant, as long as no KICK is among them.
LEMMA NextPairs ==
    ASSUME MaxKick = 0, IInv, Pairs, IInv', [Next]_vars
    PROVE  Pairs'
  <1>1. CASE UserStep
    BY <1>1, UserStepPairs
  <1>2. ASSUME NEW s \in Server, NEW t \in Server, Link(s, t) \/ LoseLink(s, t) \/ Receive(s, t)
        PROVE  Pairs'
    <2>1. LoseLink(s, t) => s # t /\ conn[s][t] # "none" /\ CloseLink(s, t)
      BY DEF LoseLink, IInv, LinkInv
    <2>2. ReadEOF(s, t) => s # t /\ conn[s][t] # "none" /\ CloseLink(s, t)
      <3>1. SUFFICES ASSUME ReadEOF(s, t)
                     PROVE  s # t /\ conn[s][t] # "none" /\ CloseLink(s, t)
        OBVIOUS
      <3>2. Receives(s, t, "EOF") /\ CloseLink(s, t)
        BY <3>1 DEF ReadEOF
      <3>3. s # t /\ chan[t][s] # <<>>
        BY <3>2, ReadFacts
      <3>4. Pair(t, s)
        BY <3>3 DEF Pairs
      <3>. QED
        BY <3>2, <3>3, <3>4 DEF Pair, Ends
    <2>. QED
      BY <1>2, <2>1, <2>2, LinkPairs, CloseLinkPairs, RecvSERVERPairs, RecvSIDPairs,
         RecvSQUITPairs, RecvSJOINPairs, RecvLeavePairs, RecvMODEPairs DEF Receive
  <1>3. CASE UNCHANGED vars
    <2>1. \A s, t \in Server : s # t => Pair(s, t)'
      BY <1>3, IdlePair DEF vars, Pairs
    <2>. QED
      BY <2>1 DEF Pairs
  <1>. QED
    BY <1>1, <1>2, <1>3 DEF Next

\* On a tree of servers, and as long as users leave on their own or with their
\* server, what one end of a link thinks of a user on the other side is always
\* on its way to what the other end thinks.
THEOREM ViewsFollow == ASSUME MaxKick = 0 PROVE Spec => []Pairs
  <1>1. Init => Pairs
    <2>. SUFFICES ASSUME Init PROVE Pairs
      OBVIOUS
    <2>1. SUFFICES ASSUME NEW s \in Server, NEW t \in Server, s # t PROVE Pair(s, t)
      BY DEF Pairs
    <2>2. /\ conn[s][t] = "none" /\ conn[t][s] = "none" /\ chan[s][t] = <<>>
          /\ known[s] = {s}
      BY DEF Init
    <2>3. Len(<<>>) = 0 /\ 2..0 = {} /\ 1..0 = {}
      OBVIOUS
    <2>4. Ends(s, t) /\ Located(s, t)
      BY <2>2, <2>3 DEF Ends, Located
    <2>5. Severed(s, t)
      BY <2>1, <2>2, Sides DEF Severed
    <2>6. Unanswered(s, t) /\ Follows(s, t)
      BY <2>2 DEF Unanswered, Follows
    <2>. QED
      BY <2>4, <2>5, <2>6 DEF Pair
  <1>2. IInv /\ Pairs /\ [Next]_vars => Pairs'
    BY NextStep, NextPairs
  <1>. QED
    BY <1>1, <1>2, Invariance, PTL DEF Spec

\* Two linked servers with nothing in flight have the same members, on every
\* tree of servers, whatever JOINs, PARTs, MODEs, bursts and splits crossed
\* before, as long as nobody is kicked.
THEOREM MembersAgreeHolds == ASSUME MaxKick = 0 PROVE Spec => []MembersAgree
  <1>1. IInv /\ Pairs => MembersAgree
    <2>1. SUFFICES ASSUME IInv, Pairs, NEW s \in Server, NEW t \in Server, Synced(s, t)
                   PROVE  ch[s].members = ch[t].members
      BY DEF MembersAgree
    <2>2. CASE s = t
      BY <2>2
    <2>3. CASE s # t
      <3>1. Pair(s, t) /\ Pair(t, s)
        BY <2>1, <2>3 DEF Pairs
      <3>2. conn[s][t] = "up" /\ conn[t][s] = "up" /\ chan[s][t] = <<>> /\ chan[t][s] = <<>>
        BY <2>1 DEF Synced, Linked
      <3>3. {s, t} \in Edge
        BY <3>1, <3>2 DEF Pair, Ends
      <3>4. Beyond(t, s) = Server \ Beyond(s, t)
        BY <2>3, <3>3, Sides
      <3>5. ASSUME NEW u \in User
            PROVE  u \in ch[s].members <=> u \in ch[t].members
        <4>1. Home[u] \in Server
          BY ConstantsAssumption
        <4>2. CASE Home[u] \in Beyond(t, s)
          <5>1. Course(<<>>, View(t, u), View(s, u), t, u)
            BY <3>1, <3>2, <4>2 DEF Pair, Follows
          <5>2. View(t, u) = View(s, u)
            BY <5>1, CourseEmpty
          <5>. QED
            BY <5>2, ViewTypes
        <4>3. CASE Home[u] \in Beyond(s, t)
          <5>1. Course(<<>>, View(s, u), View(t, u), s, u)
            BY <3>1, <3>2, <4>3 DEF Pair, Follows
          <5>2. View(t, u) = View(s, u)
            BY <5>1, CourseEmpty
          <5>. QED
            BY <5>2, ViewTypes
        <4>. QED
          BY <3>4, <4>1, <4>2, <4>3
      <3>6. ch[s].members \subseteq User /\ ch[t].members \subseteq User
        BY <2>1, MemberTypes DEF IInv
      <3>. QED
        BY <3>5, <3>6
    <2>. QED
      BY <2>2, <2>3
  <1>. QED
    BY <1>1, Invariance, ViewsFollow, PTL
=============================================================================
