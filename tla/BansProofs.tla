----------------------------- MODULE BansProofs -----------------------------
(***************************************************************************)
(* Module Bans for any network, any bans and any clocks: how two entries   *)
(* for one ban are merged, the types, which users are banned and shunned,  *)
(* what a crash can lose, and that linked servers agree on their bans.     *)
(*                                                                         *)
(* Shape is an invariant by itself; Fresh (the database) and Agreement     *)
(* (what is under way between two servers) rest on it.                     *)
(***************************************************************************)
EXTENDS Bans, SequenceTheorems, FiniteSetTheorems, FunctionTheorems, WellFoundedInduction, TLAPS

History ==
    [removed : BOOLEAN, expired : BOOLEAN, lapsed : [Server -> BOOLEAN],
     misread : [Server -> BOOLEAN], failed : [Server -> BOOLEAN],
     changed : [Server -> [Key -> Nat]]]

\* Types, those of hist too; only servers that run and have users have one.
Shape ==
    /\ TypeOK
    /\ hist \in History
    /\ \A s \in Server : user[s] # "none" => s \in running \cap Host

\* The next save is never late nor further away than the longest interval, and
\* what the database lacks was changed no longer ago than that.
Fresh ==
    \A s \in Tkldb \cap running :
        /\ Clock(s) <= due[s] /\ due[s] <= Clock(s) + SaveEvery + SaveDelta
        /\ \A k \in Key : db[s][k] = tkl[s][k] \/ hist.failed[s]
                          \/ due[s] <= hist.changed[s][k] + SaveEvery + SaveDelta

-----------------------------------------------------------------------------
(* Two entries of one ban are compared in three respects, and each is a     *)
(* total order: which is older, which lasts longer, whose setter comes last *)

Respect == {"age", "end", "setter"}

\* In respect r, a merge of x with y would keep what x has
Covers(x, y, r) ==
    CASE r = "age" -> x.set_at < y.set_at \/ (x.set_at = y.set_at /\ x.id <= y.id)
      [] r = "end" -> x.expire_at = 0 \/ (y.expire_at # 0 /\ y.expire_at <= x.expire_at)
      [] OTHER -> y.set_by <= x.set_by

\* Some clock says at this time that the entry has expired
Dead(e, time) == \E s \in Server : Expired(e, time + Skew[s])

\* Whether servers must agree on e in respect r: on its end as long as it is in
\* force anywhere, on the rest only if no server let an entry expire
Counts(e, r, time, expired) == IF r = "end" THEN ~Dead(e, time) ELSE ~expired

\* The entries for k in the messages q
Entries(q, k) == {q[i].entry : i \in {j \in DOMAIN q : q[j].op = "+" /\ q[j].key = k}}

\* The entries for k that are on their way from s to t
Sent(s, t, k) == Entries(wire[s][t], k)

\* The entries for k that t has or is going to read from s
Coming(s, t, k) == Sent(s, t, k) \cup ({tkl[t][k]} \ {None})

\* What a has, b has or is going to read; what a has sent to b it still has, or
\* something that covers it
ToldOn(a, b, k, r) ==
    tkl[a][k] # None /\ Counts(tkl[a][k], r, now, hist.expired) =>
        \E x \in Coming(a, b, k) : Covers(x, tkl[a][k], r)

BehindOn(a, b, k, r) ==
    \A e \in Sent(a, b, k) :
        Counts(e, r, now, hist.expired) => tkl[a][k] # None /\ Covers(tkl[a][k], e, r)

Told ==
    \A a, b \in Server, k \in Key, r \in Respect : <<a, b>> \in linked => ToldOn(a, b, k, r)

Behind == \A a, b \in Server, k \in Key, r \in Respect : BehindOn(a, b, k, r)

\* The introduction is read before anything is sent the other way
HelloFirst(w, l) ==
    \A s, t \in Server : \A i \in DOMAIN w[s][t] :
        w[s][t][i] = Hello => i = 1 /\ <<t, s>> \notin l

Agreement == HelloFirst(wire, linked) /\ (~hist.removed => Told /\ Behind)

-----------------------------------------------------------------------------
(* Merging: what cmd_tkl_add keeps of two entries is their least upper      *)
(* bound, so neither the order of arrival nor repetition matters            *)

\* Setters and ids are numbers; entries are not None.
LEMMA EntryTypes ==
    ASSUME NEW x \in Entry
    PROVE  /\ x.set_at \in Nat /\ x.expire_at \in Nat /\ x.set_by \in Nat /\ x.id \in Nat
           /\ x # None
  BY BansAssumption DEF Entry

\* The merge of two entries is an entry.
LEMMA MergeType ==
    ASSUME NEW x \in Entry, NEW y \in Entry
    PROVE  Merge(x, y) \in Entry
  <1>1. /\ x.set_by \in {Mark[s][1] : s \in Server} /\ y.set_by \in {Mark[s][1] : s \in Server}
        /\ x.id \in {Mark[s][2] : s \in Server} /\ y.id \in {Mark[s][2] : s \in Server}
    BY DEF Entry
  <1>2. /\ Min2(x.set_at, y.set_at) \in Nat /\ Longest(x.expire_at, y.expire_at) \in Nat
        /\ Max2(x.set_by, y.set_by) \in {x.set_by, y.set_by}
    BY EntryTypes DEF Min2, Max2, Longest
  <1>3. QED
    BY <1>1, <1>2 DEF Merge, Entry

\* An entry is not changed by itself.
THEOREM MergeIdempotent ==
    ASSUME NEW x \in Entry
    PROVE  Merge(x, x) = x
  BY EntryTypes DEF Merge, Min2, Max2, Longest, NewIdWins, Entry

\* Two servers that exchange their entries end with the same one.
THEOREM MergeCommutes ==
    ASSUME NEW x \in Entry, NEW y \in Entry
    PROVE  Merge(x, y) = Merge(y, x)
  BY EntryTypes DEF Merge, Min2, Max2, Longest, NewIdWins

\* Entries of three servers may be merged in any grouping.
THEOREM MergeAssociates ==
    ASSUME NEW x \in Entry, NEW y \in Entry, NEW z \in Entry
    PROVE  Merge(Merge(x, y), z) = Merge(x, Merge(y, z))
  <1>1. /\ x.set_at \in Nat /\ x.expire_at \in Nat /\ x.set_by \in Nat /\ x.id \in Nat
        /\ y.set_at \in Nat /\ y.expire_at \in Nat /\ y.set_by \in Nat /\ y.id \in Nat
        /\ z.set_at \in Nat /\ z.expire_at \in Nat /\ z.set_by \in Nat /\ z.id \in Nat
    BY EntryTypes
  <1>2. /\ Merge(Merge(x, y), z).set_at = Merge(x, Merge(y, z)).set_at
        /\ Merge(Merge(x, y), z).set_by = Merge(x, Merge(y, z)).set_by
    BY <1>1 DEF Merge, Min2, Max2
  <1>3. Merge(Merge(x, y), z).expire_at = Merge(x, Merge(y, z)).expire_at
    BY <1>1 DEF Merge, Longest, Max2
  <1>4. Merge(Merge(x, y), z).id = Merge(x, Merge(y, z)).id
    BY <1>1 DEF Merge, Min2, NewIdWins
  <1>5. QED
    BY <1>2, <1>3, <1>4 DEF Merge

\* A message that cmd_tkl_add ignores would not have changed the entry.
THEOREM IgnoredIsCovered ==
    ASSUME NEW x \in Entry, NEW y \in Entry, ~Differs(x, y)
    PROVE  Merge(x, y) = x
  BY EntryTypes DEF Differs, Merge, Min2, Max2, Longest, NewIdWins, Entry

\* In each respect entries are totally ordered, and entries that cover each
\* other in all of them are equal.
LEMMA CoversOrder ==
    ASSUME NEW x \in Entry, NEW y \in Entry
    PROVE  /\ \A r \in Respect : Covers(x, x, r) /\ (Covers(x, y, r) \/ Covers(y, x, r))
           /\ \A z \in Entry, r \in Respect : Covers(x, y, r) /\ Covers(y, z, r) => Covers(x, z, r)
           /\ (\A r \in Respect : Covers(x, y, r) /\ Covers(y, x, r)) => x = y
           /\ Covers(x, y, "end") /\ Covers(y, x, "end") => x.expire_at = y.expire_at
  <1>1. \A r \in Respect : Covers(x, x, r) /\ (Covers(x, y, r) \/ Covers(y, x, r))
    BY EntryTypes DEF Respect, Covers
  <1>2. \A z \in Entry, r \in Respect : Covers(x, y, r) /\ Covers(y, z, r) => Covers(x, z, r)
    <2>1. SUFFICES ASSUME NEW z \in Entry, NEW r \in Respect, Covers(x, y, r), Covers(y, z, r)
                   PROVE  Covers(x, z, r)
      OBVIOUS
    <2>2. /\ x.set_at \in Nat /\ x.expire_at \in Nat /\ x.set_by \in Nat /\ x.id \in Nat
          /\ y.set_at \in Nat /\ y.expire_at \in Nat /\ y.set_by \in Nat /\ y.id \in Nat
          /\ z.set_at \in Nat /\ z.expire_at \in Nat /\ z.set_by \in Nat /\ z.id \in Nat
      BY EntryTypes
    <2>3. QED
      BY <2>1, <2>2 DEF Respect, Covers
  <1>3. Covers(x, y, "end") /\ Covers(y, x, "end") => x.expire_at = y.expire_at
    BY EntryTypes DEF Covers
  <1>4. ASSUME \A r \in Respect : Covers(x, y, r) /\ Covers(y, x, r) PROVE x = y
    <2>1. x.expire_at = y.expire_at
      BY <1>3, <1>4 DEF Respect
    <2>2. x.set_at = y.set_at /\ x.id = y.id
      BY <1>4, EntryTypes DEF Respect, Covers
    <2>3. x.set_by = y.set_by
      BY <1>4, EntryTypes DEF Respect, Covers
    <2>4. QED
      BY <2>1, <2>2, <2>3 DEF Entry
  <1>5. QED
    BY <1>1, <1>2, <1>3, <1>4

\* A merge covers both entries, and in each respect one of them covers it.
LEMMA MergeCovers ==
    ASSUME NEW x \in Entry, NEW y \in Entry, NEW r \in Respect
    PROVE  /\ Covers(Merge(x, y), x, r) /\ Covers(Merge(x, y), y, r)
           /\ Covers(x, Merge(x, y), r) \/ Covers(y, Merge(x, y), r)
  BY EntryTypes DEF Respect, Covers, Merge, Min2, Max2, Longest, NewIdWins

-----------------------------------------------------------------------------
(* tkl_sync sends every entry *)

\* The least element of a set of numbers.
LEMMA LeastNumber ==
    ASSUME NEW T \in SUBSET Nat, T # {}
    PROVE  \E n \in T : \A m \in T : n <= m
  <1>1. PICK n \in T : \A m \in T : ~(<<m, n>> \in OpToRel(<, Nat))
    BY NatLessThanWellFounded, WFMin
  <1>2. \A m \in T : ~(m < n)
    BY <1>1 DEF OpToRel
  <1>3. QED
    BY <1>2

\* A finite set of numbers can be put in ascending order.
LEMMA AscendingExists ==
    ASSUME NEW S \in SUBSET Nat, IsFiniteSet(S)
    PROVE  \E q \in [1..Cardinality(S) -> S] : \A i, j \in DOMAIN q : i < j => q[i] < q[j]
  <1> DEFINE Sorted(T) ==
        \E q \in [1..Cardinality(T) -> T] : \A i, j \in DOMAIN q : i < j => q[i] < q[j]
  <1> DEFINE bad == {n \in Nat : \E T \in SUBSET Nat : IsFiniteSet(T) /\ Cardinality(T) = n /\ ~Sorted(T)}
  <1>1. ASSUME bad # {} PROVE FALSE
    <2>1. PICK n \in bad : \A m \in bad : n <= m
      BY <1>1, LeastNumber
    <2>2. PICK T \in SUBSET Nat : IsFiniteSet(T) /\ Cardinality(T) = n /\ ~Sorted(T)
      BY <2>1
    <2>3. T # {}
      <3>1. ASSUME T = {} PROVE Sorted(T)
        <4>1. Cardinality(T) = 0
          BY <3>1, FS_EmptySet
        <4> DEFINE q == [i \in 1..Cardinality(T) |-> i]
        <4>2. q \in [1..Cardinality(T) -> T] /\ \A i, j \in DOMAIN q : i < j => q[i] < q[j]
          BY <4>1
        <4>3. QED
          BY <4>2
      <3>2. QED
        BY <3>1, <2>2
    <2>4. PICK a \in T : \A m \in T : a <= m
      BY <2>3, LeastNumber
    <2> DEFINE R == T \ {a}
    <2>5. IsFiniteSet(R) /\ Cardinality(R) = n - 1 /\ n \in Nat /\ n - 1 \in Nat
      <3>1. IsFiniteSet(R) /\ Cardinality(R) = n - 1 /\ n \in Nat
        BY <2>2, <2>1, FS_RemoveElement
      <3>2. QED
        BY <3>1, FS_CardinalityType
    <2>6. Sorted(R)
      <3>1. n - 1 \notin bad
        BY <2>1, <2>5
      <3>2. QED
        BY <3>1, <2>5
    <2>7. PICK q \in [1..(n - 1) -> R] : \A i, j \in 1..(n - 1) : i < j => q[i] < q[j]
      BY <2>5, <2>6
    <2> DEFINE p == [i \in 1..n |-> IF i = 1 THEN a ELSE q[i - 1]]
    <2>8. p \in [1..n -> T]
      BY <2>5, <2>7
    <2>9. ASSUME NEW i \in 1..n, NEW j \in 1..n, i < j PROVE p[i] < p[j]
      <3>1. j # 1 /\ j - 1 \in 1..(n - 1) /\ p[j] = q[j - 1] /\ q[j - 1] \in R
        BY <2>9, <2>5, <2>7
      <3>2. CASE i = 1
        <4>1. a \in Nat /\ q[j - 1] \in Nat /\ a <= q[j - 1] /\ a # q[j - 1]
          BY <3>1, <2>4
        <4>2. QED
          BY <3>1, <3>2, <4>1
      <3>3. CASE i # 1
        <4>1. i - 1 \in 1..(n - 1) /\ i - 1 < j - 1 /\ p[i] = q[i - 1]
          BY <3>3, <2>9, <2>5
        <4>2. QED
          BY <3>1, <4>1, <2>7
      <3>4. QED
        BY <3>2, <3>3
    <2>10. Sorted(T)
      BY <2>2, <2>8, <2>9
    <2>11. QED
      BY <2>10, <2>2
  <1>2. Cardinality(S) \in Nat
    BY FS_CardinalityType
  <1>3. QED
    BY <1>1, <1>2

\* Ascending lists exactly the numbers of a finite set.
LEMMA AscendingFacts ==
    ASSUME NEW S \in SUBSET Nat, IsFiniteSet(S)
    PROVE  /\ Ascending(S) \in [1..Cardinality(S) -> S]
           /\ \A x \in S : \E i \in 1..Cardinality(S) : Ascending(S)[i] = x
  <1> DEFINE n == Cardinality(S)
  <1> DEFINE q == Ascending(S)
  <1>1. q \in [1..n -> S] /\ \A i, j \in DOMAIN q : i < j => q[i] < q[j]
    BY AscendingExists DEF Ascending
  <1>2. n \in Nat /\ IsFiniteSet(1..n) /\ Cardinality(1..n) = n
    BY FS_CardinalityType, FS_Interval
  <1> HIDE DEF n, q
  <1>3. \A i, j \in 1..n : q[i] = q[j] => i = j
    <2>1. SUFFICES ASSUME NEW i \in 1..n, NEW j \in 1..n, i # j
                   PROVE  q[i] # q[j]
      OBVIOUS
    <2>2. i < j \/ j < i
      BY <2>1, <1>2
    <2>3. q[i] < q[j] \/ q[j] < q[i]
      BY <1>1, <2>2
    <2>4. q[i] \in Nat /\ q[j] \in Nat
      BY <1>1
    <2>5. QED
      BY <2>3, <2>4
  <1>4. q \in Injection(1..n, S)
    BY <1>1, <1>3, Fun_IsInj
  <1>5. q \in Surjection(1..n, S)
    <2>1. Cardinality(1..n) = Cardinality(S)
      BY <1>2 DEF n
    <2>2. QED
      BY <2>1, <1>4, FS_Injection
  <1>6. \A x \in S : \E i \in 1..n : q[i] = x
    BY <1>5 DEF Surjection
  <1>7. QED
    BY <1>1, <1>6 DEF n, q

\* tkl_sync sends each entry once, as it is.
LEMMA SyncFacts ==
    ASSUME Shape, NEW s \in Server
    PROVE  /\ Sync(s) \in Seq(Message)
           /\ \A i \in DOMAIN Sync(s) : \E k \in Key :
                 tkl[s][k] # None /\ Sync(s)[i] = Add(k, tkl[s][k])
           /\ \A k \in Key : tkl[s][k] # None =>
                 \E i \in DOMAIN Sync(s) : Sync(s)[i] = Add(k, tkl[s][k])
  <1> DEFINE held == {i \in DOMAIN KeyOrder : tkl[s][KeyOrder[i]] # None}
  <1> DEFINE walk == Ascending(held)
  <1> DEFINE n == Cardinality(held)
  <1>1. KeyOrder \in Seq(Key) /\ Len(KeyOrder) \in Nat /\ DOMAIN KeyOrder = 1..Len(KeyOrder)
    BY BansAssumption
  <1>2. held \in SUBSET Nat /\ IsFiniteSet(held) /\ n \in Nat
    <2>1. held \subseteq 1..Len(KeyOrder) /\ IsFiniteSet(1..Len(KeyOrder))
      BY <1>1, FS_Interval
    <2>2. IsFiniteSet(held)
      BY <2>1, FS_Subset
    <2>3. QED
      BY <2>1, <2>2, FS_CardinalityType
  <1>3. walk \in [1..n -> held] /\ \A x \in held : \E i \in 1..n : walk[i] = x
    BY <1>2, AscendingFacts
  <1>4. \A x \in held : /\ KeyOrder[x] \in Key /\ tkl[s][KeyOrder[x]] # None
                        /\ tkl[s][KeyOrder[x]] \in Entry
    BY <1>1 DEF Shape, History, TypeOK
  <1> HIDE DEF walk, n
  <1>5. Sync(s) = [i \in 1..n |-> Add(KeyOrder[walk[i]], tkl[s][KeyOrder[walk[i]]])]
    BY <1>3 DEF Sync, walk, n
  <1> HIDE DEF held
  <1>6. \A i \in 1..n : walk[i] \in held
    BY <1>3
  <1>7. \A i \in 1..n : Add(KeyOrder[walk[i]], tkl[s][KeyOrder[walk[i]]]) \in Message
    BY <1>6, <1>4 DEF Add, Message
  <1>8. Sync(s) \in [1..n -> Message]
    BY <1>5, <1>7
  <1>9. \A k \in Key : tkl[s][k] # None =>
             \E i \in DOMAIN Sync(s) : Sync(s)[i] = Add(k, tkl[s][k])
    <2>1. SUFFICES ASSUME NEW k \in Key, tkl[s][k] # None
                   PROVE  \E i \in DOMAIN Sync(s) : Sync(s)[i] = Add(k, tkl[s][k])
      OBVIOUS
    <2>2. PICK x \in DOMAIN KeyOrder : KeyOrder[x] = k
      BY BansAssumption
    <2>3. x \in held
      BY <2>1, <2>2 DEF held
    <2>4. PICK i \in 1..n : walk[i] = x
      BY <2>3, <1>3
    <2>5. QED
      BY <2>2, <2>4, <1>5
  <1>10. Sync(s) \in Seq(Message)
    BY <1>2, <1>8, IsASeq
  <1>11. \A i \in 1..n : \E k \in Key :
            tkl[s][k] # None /\ Sync(s)[i] = Add(k, tkl[s][k])
    BY <1>4, <1>5, <1>6
  <1>12. QED
    BY <1>8, <1>9, <1>10, <1>11

-----------------------------------------------------------------------------
(* Shape is invariant *)

Wires == [Server -> [Server -> Seq(Message)]]

\* Wires w that carry something only along the links of l
Wired(w, l) == w \in Wires /\ \A s, t \in Server : w[s][t] # <<>> => <<s, t>> \in l

\* A broadcast adds one message on every link of its sender but one.
LEMMA BroadcastFacts ==
    ASSUME Shape, NEW w, Wired(w, linked), NEW s \in Server, NEW skip, NEW msg \in Message
    PROVE  /\ Wired(Broadcast(w, s, skip, msg), linked)
           /\ \A a, b \in Server : Broadcast(w, s, skip, msg)[a][b] =
                 IF a = s /\ <<s, b>> \in linked /\ b # skip THEN Append(w[a][b], msg) ELSE w[a][b]
  <1>1. w \in Wires /\ \A a, b \in Server : w[a][b] \in Seq(Message)
    BY DEF Wired, Wires
  <1>2. \A a, b \in Server : Broadcast(w, s, skip, msg)[a][b] =
            IF a = s /\ <<s, b>> \in linked /\ b # skip THEN Append(w[a][b], msg) ELSE w[a][b]
    BY <1>1 DEF Broadcast, Neighbours, Wires
  <1>3. \A b \in Server :
           (IF b \in Neighbours(s) \ {skip} THEN Append(w[s][b], msg) ELSE w[s][b]) \in Seq(Message)
    BY <1>1
  <1>4. Broadcast(w, s, skip, msg) \in Wires
    BY <1>1, <1>3 DEF Broadcast, Wires
  <1>5. QED
    BY <1>2, <1>4 DEF Wired

\* Reading a message leaves wires.
LEMMA TailWired ==
    ASSUME Shape, NEW s \in Server, NEW t \in Server, wire[t][s] # <<>>
    PROVE  /\ Head(wire[t][s]) \in Message /\ <<t, s>> \in linked
           /\ Wired([wire EXCEPT ![t][s] = Tail(@)], linked)
  BY SMTT(30) DEF Shape, History, TypeOK, Wired, Wires

\* cmd_tkl_add keeps the types.
LEMMA TklAddShape ==
    ASSUME Shape, NEW s \in Server, NEW from, NEW w, Wired(w, linked), NEW k \in Key,
           NEW e \in Entry, TklAdd(s, from, w, k, e)
    PROVE  /\ tkl' \in [Server -> [Key -> Entry \cup {None}]]
           /\ Wired(wire', linked)
           /\ bancheck' \in [Server -> BOOLEAN]
           /\ hist' \in History
  <1>1. When(s) \in Nat
    BY BansAssumption, SMTT(30) DEF When, Clock, Shape, History, TypeOK
  <1>2. ASSUME NEW x \in Entry, Store(s, k, x)
        PROVE  /\ tkl' \in [Server -> [Key -> Entry \cup {None}]]
               /\ hist' \in History
    BY <1>1, <1>2 DEF Store, Shape, History, TypeOK
  <1>3. \A x \in Entry : Add(k, x) \in Message
    BY DEF Add, Message
  <1>4. CASE tkl[s][k] = None
    <2>1. Store(s, k, e) /\ TklAdded(s, from, w, k, e)
      BY <1>4 DEF TklAdd
    <2>2. bancheck' \in [Server -> BOOLEAN]
      BY <2>1 DEF TklAdded, Shape, History, TypeOK
    <2>3. Wired(wire', linked)
      BY <2>1, <1>3, BroadcastFacts DEF TklAdded
    <2>4. QED
      BY <2>1, <2>2, <2>3, <1>2
  <1>5. CASE tkl[s][k] # None
    <2>1. tkl[s][k] \in Entry /\ Merge(tkl[s][k], e) \in Entry
      BY <1>5, MergeType DEF Shape, History, TypeOK
    <2>2. bancheck' \in [Server -> BOOLEAN]
      BY <1>5 DEF TklAdd, Shape, History, TypeOK
    <2>3. CASE Differs(tkl[s][k], e)
      <3>1. /\ Store(s, k, Merge(tkl[s][k], e))
            /\ wire' = Broadcast(w, s, from, Add(k, Merge(tkl[s][k], e)))
        BY <1>5, <2>3 DEF TklAdd
      <3>2. Wired(wire', linked)
        BY <3>1, <2>1, <1>3, BroadcastFacts
      <3>3. QED
        BY <3>1, <3>2, <2>1, <2>2, <1>2
    <2>4. CASE ~Differs(tkl[s][k], e)
      <3>1. wire' = w /\ tkl' = tkl /\ hist' = hist
        BY <1>5, <2>4 DEF TklAdd
      <3>2. QED
        BY <3>1, <2>2 DEF Shape, History, TypeOK
    <2>5. QED
      BY <2>3, <2>4
  <1>6. QED
    BY <1>4, <1>5

\* cmd_tkl_del keeps the types, and nobody becomes a user by it.
LEMMA TklDelShape ==
    ASSUME Shape, NEW s \in Server, NEW from, NEW w, Wired(w, linked), NEW k \in Key,
           TklDel(s, from, w, k)
    PROVE  /\ tkl' \in [Server -> [Key -> Entry \cup {None}]]
           /\ Wired(wire', linked)
           /\ bancheck' \in [Server -> BOOLEAN]
           /\ hist' \in History
           /\ user' \in [Server -> {"none", "user", "shunned"}]
           /\ \A a \in Server : user'[a] # "none" => user[a] # "none"
  <1>1. When(s) \in Nat
    BY BansAssumption, SMTT(30) DEF When, Clock, Shape, History, TypeOK
  <1>2. Del(k) \in Message
    BY DEF Del, Message
  <1>3. CASE tkl[s][k] = None
    <2>1. wire' = w /\ UNCHANGED <<tkl, hist, user, bancheck>>
      BY <1>3 DEF TklDel
    <2>2. QED
      BY <2>1 DEF Shape, History, TypeOK
  <1>4. CASE tkl[s][k] # None
    <2>1. /\ user' = [user EXCEPT ![s] = Unshunned(@, {k}, tkl[s])]
          /\ wire' = Broadcast(w, s, from, Del(k))
          /\ bancheck' = [bancheck EXCEPT ![s] = @ \/ (s \in Host /\ k \in Exception)]
          /\ tkl' = [tkl EXCEPT ![s][k] = None]
          /\ hist' = [hist EXCEPT !.changed[s][k] = When(s), !.removed = TRUE,
                         !.misread[s] = @ \/ Misread(user[s], {k}, tkl[s])]
      BY <1>4 DEF TklDel
    <2>2. Wired(wire', linked)
      BY <2>1, <1>2, BroadcastFacts
    <2>3. /\ tkl' \in [Server -> [Key -> Entry \cup {None}]]
          /\ hist' \in History
      BY <2>1, <1>1 DEF Shape, History, TypeOK
    <2>4. bancheck' \in [Server -> BOOLEAN]
      BY <2>1 DEF Shape, History, TypeOK
    <2>5. /\ user' \in [Server -> {"none", "user", "shunned"}]
          /\ \A a \in Server : user'[a] # "none" => user[a] # "none"
      BY <2>1 DEF Shape, History, TypeOK, Unshunned
    <2>6. QED
      BY <2>2, <2>3, <2>4, <2>5
  <1>5. QED
    BY <1>3, <1>4

\* What an operator sets, and what a message carries, is an entry.
LEMMA SetEntry ==
    ASSUME Shape, NEW s \in Server, NEW d \in Nat
    PROVE  [set_at |-> Clock(s), expire_at |-> IF d = 0 THEN 0 ELSE Clock(s) + d,
            set_by |-> Mark[s][1], id |-> Mark[s][2]] \in Entry
  <1>1. Clock(s) \in Nat
    BY BansAssumption DEF Clock, Shape, History, TypeOK
  <1>2. QED
    BY <1>1 DEF Entry

\* What a message holds, by its kind.
LEMMA MessageTypes ==
    ASSUME NEW m \in Message
    PROVE  /\ m.op = "+" => m.key \in Key /\ m.entry \in Entry
           /\ m.op = "-" => m.key \in Key
           /\ m.op = "SERVER" <=> m = Hello
  BY DEF Message, Hello

\* The links that break carry nothing any more; the others are untouched.
LEMMA CutShape ==
    ASSUME Shape, NEW gone, \A s, t \in Server : <<s, t>> \in gone => <<t, s>> \in gone, Cut(gone)
    PROVE  /\ linked' = linked \ gone /\ Wired(wire', linked')
           /\ \A s, t \in Server :
                 wire'[s][t] = IF <<s, t>> \in gone THEN <<>> ELSE wire[s][t]
  <1>1. /\ linked' = linked \ gone
        /\ wire' = [s \in Server |-> [t \in Server |->
                      IF <<s, t>> \in gone \/ <<t, s>> \in gone THEN <<>> ELSE wire[s][t]]]
    BY DEF Cut
  <1>2. Wired(wire, linked)
    BY DEF Shape, History, TypeOK, Wired, Wires
  <1>3. \A s, t \in Server : wire'[s][t] = IF <<s, t>> \in gone THEN <<>> ELSE wire[s][t]
    BY <1>1
  <1>4. \A s, t \in Server : wire'[s][t] \in Seq(Message)
    <2>1. <<>> \in Seq(Message) /\ \A s, t \in Server : wire[s][t] \in Seq(Message)
      BY <1>2 DEF Wired, Wires
    <2>2. QED
      BY <1>3, <2>1
  <1>5. wire' \in Wires
    BY <1>1, <1>4 DEF Wires
  <1>6. QED
    BY <1>1, <1>2, <1>3, <1>5 DEF Wired

\* A new link is one more between neighbours that run.
LEMMA LinkAdded ==
    ASSUME Shape, NEW s \in running, NEW t \in running, <<s, t>> \in Pairs
    PROVE  \A p \in linked \cup {<<s, t>>} : p \in Pairs /\ p[1] \in running /\ p[2] \in running
  <1>1. \A p \in linked : p \in Pairs /\ p[1] \in running /\ p[2] \in running
    BY DEF Shape, History, TypeOK
  <1>2. <<s, t>>[1] = s /\ <<s, t>>[2] = t
    OBVIOUS
  <1>3. QED
    BY <1>1, <1>2

\* At first there are no bans, no links and no users.
LEMMA ShapeInit == Init => Shape
  <1> SUFFICES ASSUME Init PROVE Shape
    OBVIOUS
  <1>1. /\ tkl \in [Server -> [Key -> Entry \cup {None}]] /\ db \in [Server -> [Key -> Entry \cup {None}]]
        /\ user \in [Server -> {"none", "user", "shunned"}] /\ \A s \in Server : user[s] = "none"
        /\ bancheck \in [Server -> BOOLEAN] /\ exempt \in [Server -> BOOLEAN]
        /\ linked = {} /\ running = Server /\ now = 0
    BY DEF Init
  <1>2. due \in [Server -> Nat]
    BY BansAssumption DEF Init
  <1>3. /\ wire \in [Server -> [Server -> Seq(Message)]]
        /\ \A s, t \in Server : wire[s][t] = <<>>
    <2>1. <<>> \in Seq(Message)
      OBVIOUS
    <2>2. QED
      BY <2>1 DEF Init
  <1>4. hist \in History
    BY DEF Init, History
  <1>5. QED
    BY <1>1, <1>2, <1>3, <1>4 DEF Shape, History, TypeOK

\* Every step keeps Shape.
LEMMA ShapeStep ==
    ASSUME Shape, [Next]_vars
    PROVE  Shape'
  <1>1. ASSUME NEW s \in Server, NEW k \in Key, SetBan(s, k) \/ SetException(s, k)
        PROVE  Shape'
    <2>1. PICK d \in Nat : Set(s, k, d)
      BY <1>1, BansAssumption DEF SetBan, SetException
    <2>2. Wired(wire, linked)
      BY DEF Shape, History, TypeOK, Wired, Wires
    <2>3. PICK e \in Entry : TklAdd(s, s, wire, k, e)
      BY <2>1, SetEntry DEF Set
    <2>4. UNCHANGED <<linked, user, exempt, db, running, due, now>>
      BY <2>1 DEF Set
    <2>5. QED
      BY <2>2, <2>3, <2>4, TklAddShape DEF Shape, History, TypeOK, Wired, Wires
  <1>2. ASSUME NEW s \in Server, NEW k \in Key, RemoveBan(s, k)
        PROVE  Shape'
    <2>1. Wired(wire, linked)
      BY DEF Shape, History, TypeOK, Wired, Wires
    <2>2. TklDel(s, s, wire, k) /\ UNCHANGED <<linked, exempt, db, running, due, now>>
      BY <1>2 DEF RemoveBan
    <2>3. QED
      BY <2>1, <2>2, TklDelShape DEF Shape, History, TypeOK, Wired, Wires
  <1>3. ASSUME NEW s \in Server, NEW t \in Server, Recv(s, t)
        PROVE  Shape'
    <2> DEFINE m == Head(wire[t][s])
    <2> DEFINE w == [wire EXCEPT ![t][s] = Tail(@)]
    <2>1. wire[t][s] # <<>> /\ UNCHANGED <<exempt, db, running, due, now, spent>>
      BY <1>3 DEF Recv
    <2>2. m \in Message /\ <<t, s>> \in linked /\ Wired(w, linked)
      BY <2>1, TailWired
    <2> HIDE DEF m, w
    <2>3. CASE m.op = "SERVER"
      <3>1. /\ linked' = linked \cup {<<s, t>>} /\ wire' = [w EXCEPT ![s][t] = Sync(s)]
            /\ UNCHANGED <<tkl, user, bancheck, hist>>
        BY <1>3, <2>3 DEF Recv, m, w
      <3>2. <<s, t>> \in Pairs /\ s \in running /\ t \in running
        <4>1. <<t, s>> \in Pairs /\ {s, t} = {t, s}
          BY <2>2 DEF Shape, History, TypeOK
        <4>2. s \in running /\ t \in running
          BY <2>2 DEF Shape, History, TypeOK
        <4>3. QED
          BY <4>1, <4>2 DEF Pairs
      <3>3. Wired(wire', linked')
        BY <2>2, <3>1, SyncFacts DEF Wired, Wires
      <3>4. linked' \subseteq Pairs /\ \A p \in linked' : p[1] \in running' /\ p[2] \in running'
        BY <2>1, <3>1, <3>2, LinkAdded
      <3>5. QED
        BY <2>1, <3>1, <3>3, <3>4 DEF Shape, History, TypeOK, Wired, Wires
    <2>4. CASE m.op = "+"
      <3>1. TklAdd(s, t, w, m.key, m.entry) /\ UNCHANGED <<linked, user>>
        BY <1>3, <2>4 DEF Recv, m, w
      <3>2. m.key \in Key /\ m.entry \in Entry
        BY <2>2, <2>4, MessageTypes
      <3>3. QED
        BY <2>1, <2>2, <3>1, <3>2, TklAddShape DEF Shape, History, TypeOK, Wired, Wires
    <2>5. CASE m.op = "-"
      <3>1. TklDel(s, t, w, m.key) /\ UNCHANGED linked
        BY <1>3, <2>5 DEF Recv, m, w
      <3>2. m.key \in Key
        BY <2>2, <2>5, MessageTypes
      <3>3. QED
        BY <2>1, <2>2, <3>1, <3>2, TklDelShape DEF Shape, History, TypeOK, Wired, Wires
    <2>6. QED
      BY <1>3, <2>3, <2>4, <2>5 DEF Recv, m
  <1>4. ASSUME NEW s \in Server, NEW t \in Server, Connect(s, t)
        PROVE  Shape'
    <2>1. /\ linked' = linked \cup {<<t, s>>}
          /\ wire' = [wire EXCEPT ![t][s] = <<Hello>> \o Sync(t)]
          /\ {s, t} \in Edge /\ s \in running /\ t \in running
          /\ UNCHANGED <<tkl, user, bancheck, exempt, db, running, due, now, hist>>
      BY <1>4 DEF Connect
    <2>2. Hello \in Message /\ Sync(t) \in Seq(Message)
      BY SyncFacts DEF Message
    <2>3. <<Hello>> \o Sync(t) \in Seq(Message)
      BY <2>2
    <2>4. Wired(wire', linked')
      BY <2>1, <2>3 DEF Wired, Wires, Shape, History, TypeOK
    <2>5. <<t, s>> \in Pairs
      <3>1. {t, s} = {s, t}
        OBVIOUS
      <3>2. QED
        BY <2>1, <3>1 DEF Pairs
    <2>6. linked' \subseteq Pairs /\ \A p \in linked' : p[1] \in running' /\ p[2] \in running'
      BY <2>1, <2>5, LinkAdded
    <2>7. QED
      BY <2>1, <2>4, <2>6 DEF Shape, History, TypeOK, Wired, Wires
  <1>5. ASSUME NEW s \in Server, NEW t \in Server, Break(s, t)
        PROVE  Shape'
    <2>1. /\ Cut({<<s, t>>, <<t, s>>})
          /\ UNCHANGED <<tkl, user, bancheck, exempt, db, running, due, now, hist>>
      BY <1>5 DEF Break
    <2>2. linked' = linked \ {<<s, t>>, <<t, s>>} /\ Wired(wire', linked')
      BY <2>1, CutShape
    <2>3. QED
      BY <2>1, <2>2 DEF Shape, History, TypeOK, Wired, Wires
  <1>6. ASSUME NEW s \in Server, CheckExpire(s)
        PROVE  Shape'
    <2> DEFINE gone == {k \in Key : tkl[s][k] # None /\ Expired(tkl[s][k], Clock(s))}
    <2>1. /\ tkl' = [tkl EXCEPT ![s] = [k \in Key |-> IF k \in gone THEN None ELSE tkl[s][k]]]
          /\ user' = [user EXCEPT ![s] = Unshunned(@, gone, tkl[s])]
          /\ hist' = [hist EXCEPT !.expired = TRUE,
                       !.lapsed[s] = @ \/ (s \in Host /\ gone \cap Exception # {}),
                       !.misread[s] = @ \/ Misread(user[s], gone, tkl[s]),
                       !.changed[s] = [k \in Key |-> IF k \in gone THEN When(s) ELSE @[k]]]
          /\ UNCHANGED <<linked, wire, bancheck, exempt, db, running, due, now, spent>>
      BY <1>6 DEF CheckExpire
    <2>2. When(s) \in Nat
      BY BansAssumption DEF When, Clock, Shape, History, TypeOK
    <2> HIDE DEF gone
    <2>3. tkl' \in [Server -> [Key -> Entry \cup {None}]]
      BY <2>1 DEF Shape, History, TypeOK
    <2>4. /\ user' \in [Server -> {"none", "user", "shunned"}]
          /\ \A a \in Server : user'[a] # "none" => user[a] # "none"
      BY <2>1 DEF Shape, History, TypeOK, Unshunned
    <2>5. hist' \in History
      <3> DEFINE lapsed == hist.lapsed[s] \/ (s \in Host /\ gone \cap Exception # {})
      <3> DEFINE changed == [k \in Key |-> IF k \in gone THEN When(s) ELSE hist.changed[s][k]]
      <3> DEFINE misread == hist.misread[s] \/ Misread(user[s], gone, tkl[s])
      <3>1. hist' = [hist EXCEPT !.expired = TRUE, !.lapsed[s] = lapsed, !.misread[s] = misread,
                                 !.changed[s] = changed]
        BY <2>1
      <3>4. misread \in BOOLEAN
        BY Zenon
      <3>2. lapsed \in BOOLEAN /\ changed \in [Key -> Nat]
        BY <2>2 DEF Shape, History
      <3> HIDE DEF lapsed, misread, changed
      <3>3. QED
        BY <3>1, <3>2, <3>4 DEF Shape, History
    <2>7. UNCHANGED <<linked, wire, bancheck, exempt, db, running, due, now, spent>>
      BY <2>1
    <2>6. QED
      BY <2>3, <2>4, <2>5, <2>7 DEF Shape, TypeOK
  <1>7. ASSUME NEW s \in Server, CheckPings(s)
        PROVE  Shape'
    <2>1. /\ bancheck' = [bancheck EXCEPT ![s] = FALSE]
          /\ user' = [user EXCEPT ![s] =
                        IF @ = "none" \/ Killed(tkl[s], s) THEN "none"
                        ELSE IF Shunned(tkl[s], s) THEN "shunned" ELSE @]
          /\ hist' = [hist EXCEPT !.lapsed[s] = FALSE, !.misread[s] = @ /\ ~Shunned(tkl[s], s)]
          /\ UNCHANGED <<tkl, linked, wire, exempt, db, running, due, now, spent>>
      BY <1>7 DEF CheckPings
    <2>2. /\ user' \in [Server -> {"none", "user", "shunned"}]
          /\ \A a \in Server : user'[a] # "none" => user[a] # "none"
      BY <2>1 DEF Shape, History, TypeOK
    <2>3. QED
      BY <2>1, <2>2 DEF Shape, History, TypeOK
  <1>8. ASSUME NEW s \in Server, Save(s)
        PROVE  Shape'
    <2>1. /\ due' = [due EXCEPT ![s] = Clock(s) + SaveEvery]
          /\ db' = [db EXCEPT ![s] = tkl[s]] \/ db' = db
          /\ UNCHANGED <<tkl, linked, wire, user, bancheck, exempt, running, now>>
      BY <1>8 DEF Save
    <2>2. PICK b \in BOOLEAN : hist' = [hist EXCEPT !.failed[s] = b]
      BY <1>8 DEF Save
    <2>3. Clock(s) + SaveEvery \in Nat
      BY BansAssumption DEF Clock, Shape, History, TypeOK
    <2>4. QED
      BY <2>1, <2>2, <2>3, ZenonT(40) DEF Shape, History, TypeOK
  <1>9. ASSUME NEW s \in Server, Stop(s) \/ Crash(s)
        PROVE  Shape'
    <2> DEFINE gone == {p \in Pairs : s \in {p[1], p[2]}}
    <2>1. /\ Cut(gone)
          /\ db' = [db EXCEPT ![s] = tkl[s]] \/ db' = db
          /\ tkl' = [tkl EXCEPT ![s] = [k \in Key |-> None]]
          /\ user' = [user EXCEPT ![s] = "none"]
          /\ bancheck' = [bancheck EXCEPT ![s] = FALSE]
          /\ running' = running \ {s}
          /\ UNCHANGED <<exempt, due, now, hist>>
      BY <1>9 DEF Stop, Crash, Down
    <2>2. \A a, b \in Server : <<a, b>> \in gone => <<b, a>> \in gone
      <3>1. \A a, b \in Server : {a, b} = {b, a}
        OBVIOUS
      <3>2. QED
        BY <3>1 DEF Pairs
    <2>3. linked' = linked \ gone /\ Wired(wire', linked')
      BY <2>1, <2>2, CutShape
    <2>4. \A p \in linked' : p \in Pairs /\ p[1] \in running' /\ p[2] \in running'
      BY <2>1, <2>3 DEF Shape, History, TypeOK
    <2>5. \A a \in Server : user'[a] # "none" => a \in running' \cap Host
      BY <2>1 DEF Shape, History, TypeOK
    <2>6. /\ tkl' \in [Server -> [Key -> Entry \cup {None}]]
          /\ db' \in [Server -> [Key -> Entry \cup {None}]]
      BY <2>1, ZenonT(40) DEF Shape, History, TypeOK
    <2>7. QED
      BY <2>1, <2>3, <2>4, <2>5, <2>6 DEF Shape, History, TypeOK, Wired, Wires
  <1>10. ASSUME NEW s \in Server, Boot(s)
         PROVE  Shape'
    <2>1. /\ tkl' = [tkl EXCEPT ![s] = ReadTkldb(s)]
          /\ running' = running \cup {s}
          /\ due' = [due EXCEPT ![s] = Clock(s) + SaveEvery + SaveDelta]
          /\ hist' = [hist EXCEPT !.failed[s] = FALSE, !.changed[s] = [k \in Key |-> When(s)]]
          /\ UNCHANGED <<linked, wire, user, bancheck, exempt, db, now, spent>>
      BY <1>10 DEF Boot
    <2>2. When(s) \in Nat /\ Clock(s) + SaveEvery + SaveDelta \in Nat
      BY BansAssumption, SMTT(30) DEF When, Clock, Shape, History, TypeOK
    <2>3. ReadTkldb(s) \in [Key -> Entry \cup {None}]
      BY DEF ReadTkldb, Shape, History, TypeOK
    <2>4. hist' \in History
      BY <2>1, <2>2 DEF Shape, History
    <2>5. QED
      BY <2>1, <2>2, <2>3, <2>4 DEF Shape, History, TypeOK
  <1>11. ASSUME NEW s \in Server, Rehash(s)
         PROVE  Shape'
    BY <1>11 DEF Rehash, Shape, History, TypeOK
  <1>12. ASSUME NEW s \in Server, Register(s)
         PROVE  Shape'
    BY <1>12 DEF Register, Shape, History, TypeOK
  <1>13. ASSUME Tick
         PROVE  Shape'
    BY <1>13 DEF Tick, Shape, History, TypeOK
  <1>14. ASSUME UNCHANGED vars
         PROVE  Shape'
    BY <1>14 DEF vars, Shape, History, TypeOK
  <1>15. QED
    BY <1>1, <1>2, <1>3, <1>4, <1>5, <1>6, <1>7, <1>8, <1>9, <1>10, <1>11, <1>12, <1>13, <1>14
       DEF Next

\* Entries never hold anything but times, a setter and an id, messages are on
\* links only, and links are between servers that run.
THEOREM TypeCorrect == Spec => []TypeOK
  <1>1. Spec => []Shape
    BY ShapeInit, ShapeStep, PTL DEF Spec
  <1>2. Shape => TypeOK
    BY DEF Shape, History
  <1>3. QED
    BY <1>1, <1>2, PTL

-----------------------------------------------------------------------------
(* Users: bans are enforced and shuns are justified *)

\* The two properties, for server a
EnforcedAt(a) ==
    ~bancheck[a] /\ ~hist.lapsed[a] =>
        /\ user[a] # "none" => ~Killed(tkl[a], a)
        /\ user[a] = "user" /\ ~hist.misread[a] => ~Shunned(tkl[a], a)

JustifiedAt(a) ==
    user[a] = "shunned" /\ ~hist.misread[a] => \E k \in MatchUser : tkl[a][k] # None

Right == \A a \in Server : EnforcedAt(a) /\ JustifiedAt(a)

\* Nothing that matters to the user of a has changed
Untouched(a) ==
    /\ tkl'[a] = tkl[a] /\ user'[a] = user[a] /\ bancheck'[a] = bancheck[a]
    /\ exempt'[a] = exempt[a] /\ hist'.lapsed[a] = hist.lapsed[a]
    /\ hist'.misread[a] = hist.misread[a]

\* A server that no step touches stays right about its user.
LEMMA UntouchedRight ==
    ASSUME NEW a \in Server, EnforcedAt(a), JustifiedAt(a), Untouched(a)
    PROVE  EnforcedAt(a)' /\ JustifiedAt(a)'
  BY DEF EnforcedAt, JustifiedAt, Untouched, Killed, Shunned, Excepted

\* After cmd_tkl_add the user is as right as before: either the same keys have
\* entries, or the check of the users is asked for.
LEMMA TklAddRight ==
    ASSUME Shape, Right, NEW s \in Server, NEW from, NEW w, NEW k \in Key, NEW e \in Entry,
           TklAdd(s, from, w, k, e), UNCHANGED <<user, exempt>>
    PROVE  Right'
  <1>0. /\ Kill \subseteq Key /\ Exception \subseteq Key
        /\ MatchUser \subseteq Key /\ MatchSimple \subseteq Key
    BY BansAssumption DEF Key
  <1>1. \A a \in Server \ {s} : Untouched(a)
    BY DEF TklAdd, Store, TklAdded, Untouched, Shape, History, TypeOK
  <1>2. /\ hist'.lapsed[s] = hist.lapsed[s] /\ hist'.misread[s] = hist.misread[s]
        /\ user'[s] = user[s] /\ exempt'[s] = exempt[s]
    BY DEF TklAdd, Store, TklAdded, Shape, History, TypeOK
  <1>3. EnforcedAt(s) /\ JustifiedAt(s)
    BY DEF Right
  <1>4. CASE tkl[s][k] = None
    <2>1. /\ bancheck'[s] = (s \in Host)
          /\ tkl'[s] = [tkl[s] EXCEPT ![k] = e]
      BY <1>4 DEF TklAdd, Store, TklAdded, Shape, History, TypeOK
    <2>2. user[s] = "none" \/ s \in Host
      BY DEF Shape, History
    <2>3. \A j \in Key : tkl[s][j] # None => tkl'[s][j] # None
      BY <2>1, <1>4 DEF Shape, History, TypeOK
    <2>4. EnforcedAt(s)' /\ JustifiedAt(s)'
      BY <1>0, <1>2, <1>3, <2>1, <2>2, <2>3 DEF EnforcedAt, JustifiedAt
    <2>5. QED
      BY <1>1, <2>4, UntouchedRight DEF Right
  <1>5. CASE tkl[s][k] # None
    <2>1. tkl[s][k] \in Entry /\ Merge(tkl[s][k], e) \in Entry /\ Merge(tkl[s][k], e) # None
      BY <1>5, MergeType, EntryTypes DEF Shape, History, TypeOK
    <2>2. bancheck' = bancheck
      BY <1>5 DEF TklAdd
    <2>3. tkl' = tkl \/ tkl' = [tkl EXCEPT ![s][k] = Merge(tkl[s][k], e)]
      BY <1>5 DEF TklAdd, Store
    <2>4. \A j \in Key : tkl[s][j] = None <=> tkl'[s][j] = None
      BY <2>1, <2>3, <1>5 DEF Shape, History, TypeOK
    <2>5. /\ Killed(tkl[s], s) <=> Killed(tkl[s], s)'
          /\ Shunned(tkl[s], s) <=> Shunned(tkl[s], s)'
      BY <1>0, <2>4, <1>2 DEF Killed, Shunned, Excepted
    <2>6. EnforcedAt(s)' /\ JustifiedAt(s)'
      BY <1>0, <1>2, <1>3, <2>2, <2>4, <2>5 DEF EnforcedAt, JustifiedAt
    <2>7. QED
      BY <1>1, <2>6, UntouchedRight DEF Right
  <1>6. QED
    BY <1>4, <1>5

\* Entries that go take the shun along when no other one is left.
LEMMA UnshunnedRight ==
    ASSUME Shape, NEW s \in Server, EnforcedAt(s), JustifiedAt(s), NEW gone \in SUBSET Key,
           tkl'[s] = [k \in Key |-> IF k \in gone THEN None ELSE tkl[s][k]],
           user'[s] = Unshunned(user[s], gone, tkl[s]), exempt'[s] = exempt[s],
           bancheck[s] => bancheck'[s], hist.lapsed[s] => hist'.lapsed[s],
           gone \cap Exception = {} \/ s \notin Host \/ bancheck'[s] \/ hist'.lapsed[s],
           hist.misread[s] \/ Misread(user[s], gone, tkl[s]) => hist'.misread[s]
    PROVE  EnforcedAt(s)' /\ JustifiedAt(s)'
  <1>1. /\ Kill \subseteq Key /\ Exception \subseteq Key
        /\ MatchUser \subseteq Key /\ MatchSimple \subseteq Key
    BY BansAssumption DEF Key
  <1>2. JustifiedAt(s)'
    <2>1. SUFFICES ASSUME user'[s] = "shunned", ~hist'.misread[s]
                   PROVE  \E k \in MatchUser : tkl'[s][k] # None
      BY DEF JustifiedAt
    <2>2. user[s] = "shunned" /\ ~hist.misread[s] /\ ~Misread(user[s], gone, tkl[s])
      BY <2>1 DEF Unshunned
    <2>3. PICK k \in MatchUser : tkl[s][k] # None
      BY <2>2 DEF JustifiedAt
    <2>4. CASE gone \cap (MatchUser \cup MatchSimple) = {}
      BY <1>1, <2>3, <2>4
    <2>5. CASE \A j \in Disputed : tkl[s][j] = None
      <3>1. k \in MatchSimple
        BY <2>3, <2>5 DEF Disputed
      <3>2. CASE gone \cap MatchSimple = {}
        BY <1>1, <2>3, <3>1, <3>2
      <3>3. CASE gone \cap MatchSimple # {}
        <4>1. PICK j \in MatchSimple \ gone : tkl[s][j] # None
          BY <2>1, <2>2, <3>3 DEF Unshunned
        <4>2. j \in MatchUser
          BY <2>5, <4>1 DEF Disputed
        <4>3. QED
          BY <1>1, <4>1, <4>2
      <3>4. QED
        BY <3>2, <3>3
    <2>6. QED
      BY <2>2, <2>4, <2>5 DEF Misread
  <1>3. ASSUME ~bancheck'[s], ~hist'.lapsed[s], user'[s] # "none"
        PROVE  /\ ~Killed(tkl[s], s)'
               /\ user'[s] = "user" /\ ~hist'.misread[s] => ~Shunned(tkl[s], s)'
    <2>1. user[s] # "none" /\ s \in Host
      BY <1>3 DEF Unshunned, Shape, History
    <2>2. gone \cap Exception = {}
      BY <1>3, <2>1
    <2>3. /\ ~Killed(tkl[s], s)
          /\ user[s] = "user" /\ ~hist.misread[s] => ~Shunned(tkl[s], s)
      BY <1>3, <2>1 DEF EnforcedAt
    <2>4. /\ Excepted(tkl[s], s) => Excepted(tkl[s], s)'
          /\ Killed(tkl[s], s)' => Killed(tkl[s], s)
          /\ Shunned(tkl[s], s)' => Shunned(tkl[s], s)
      BY <1>1, <2>2 DEF Killed, Shunned, Excepted
    <2>5. CASE user[s] = "user"
      <3>1. hist.misread[s] => hist'.misread[s]
        OBVIOUS
      <3>2. QED
        BY <2>3, <2>4, <2>5, <3>1
    <2>6. CASE user[s] # "user"
      <3>1. SUFFICES ASSUME user'[s] = "user", ~hist'.misread[s], NEW k \in MatchUser
                     PROVE  tkl'[s][k] = None
        BY <2>3, <2>4 DEF Shunned
      <3>2. /\ user[s] = "shunned" /\ gone \cap MatchSimple # {}
            /\ \A j \in MatchSimple \ gone : tkl[s][j] = None
        BY <2>6, <3>1 DEF Unshunned
      <3>3. \A j \in Disputed : tkl[s][j] = None
        BY <3>1, <3>2 DEF Misread
      <3>4. QED
        BY <1>1, <3>2, <3>3 DEF Disputed
    <2>7. QED
      BY <2>5, <2>6
  <1>4. QED
    BY <1>2, <1>3 DEF EnforcedAt

\* cmd_tkl_del keeps the servers right about their users.
LEMMA TklDelRight ==
    ASSUME Shape, Right, NEW s \in Server, NEW from, NEW w, NEW k \in Key,
           TklDel(s, from, w, k), UNCHANGED exempt
    PROVE  Right'
  <1>0. ASSUME tkl[s][k] # None
        PROVE  /\ hist'.lapsed = hist.lapsed
               /\ hist'.misread = [hist.misread EXCEPT ![s] = @ \/ Misread(user[s], {k}, tkl[s])]
    <2> DEFINE b == Misread(user[s], {k}, tkl[s])
    <2>1. hist' = [hist EXCEPT !.changed[s][k] = When(s), !.removed = TRUE, !.misread[s] = @ \/ b]
      BY <1>0 DEF TklDel
    <2> HIDE DEF b
    <2>2. hist'.lapsed = hist.lapsed /\ hist'.misread = [hist.misread EXCEPT ![s] = @ \/ b]
      BY <2>1 DEF Shape, History
    <2>3. QED
      BY <2>2 DEF b
  <1>1. \A a \in Server \ {s} : Untouched(a)
    BY <1>0 DEF TklDel, Untouched, Shape, History, TypeOK
  <1>2. CASE tkl[s][k] = None
    <2>1. Untouched(s)
      BY <1>2 DEF TklDel, Untouched
    <2>2. QED
      BY <1>1, <2>1, UntouchedRight DEF Right
  <1>3. CASE tkl[s][k] # None
    <2>1. /\ user'[s] = Unshunned(user[s], {k}, tkl[s])
          /\ tkl'[s] = [j \in Key |-> IF j \in {k} THEN None ELSE tkl[s][j]]
          /\ hist'.lapsed[s] = hist.lapsed[s]
          /\ hist'.misread[s] = (hist.misread[s] \/ Misread(user[s], {k}, tkl[s]))
      <3>1. /\ user'[s] = Unshunned(user[s], {k}, tkl[s]) /\ hist'.lapsed[s] = hist.lapsed[s]
            /\ hist'.misread[s] = (hist.misread[s] \/ Misread(user[s], {k}, tkl[s]))
        BY <1>0, <1>3 DEF TklDel, Shape, History, TypeOK
      <3>2. tkl'[s] = [tkl[s] EXCEPT ![k] = None] /\ tkl[s] \in [Key -> Entry \cup {None}]
        BY <1>3 DEF TklDel, Shape, History, TypeOK
      <3>3. QED
        BY <3>1, <3>2
    <2>2. bancheck'[s] = (bancheck[s] \/ (s \in Host /\ k \in Exception))
      BY <1>3 DEF TklDel, Shape, History, TypeOK
    <2>3. EnforcedAt(s)' /\ JustifiedAt(s)'
      BY <2>1, <2>2, UnshunnedRight, ZenonT(40) DEF Right
    <2>4. QED
      BY <1>1, <2>3, UntouchedRight DEF Right
  <1>4. QED
    BY <1>2, <1>3

\* Every step leaves every user right.
LEMMA RightStep ==
    ASSUME Shape, Right, [Next]_vars
    PROVE  Right'
  <1> USE UntouchedRight
  <1>1. ASSUME NEW s \in Server, NEW k \in Key, SetBan(s, k) \/ SetException(s, k)
        PROVE  Right'
    <2>1. PICK d \in Nat : Set(s, k, d)
      BY <1>1, BansAssumption DEF SetBan, SetException
    <2>2. PICK e \in Entry : TklAdd(s, s, wire, k, e) /\ UNCHANGED <<user, exempt>>
      BY <2>1, SetEntry DEF Set
    <2>3. QED
      BY <2>2, TklAddRight
  <1>2. ASSUME NEW s \in Server, NEW k \in Key, RemoveBan(s, k)
        PROVE  Right'
    BY <1>2, TklDelRight DEF RemoveBan
  <1>3. ASSUME NEW s \in Server, NEW t \in Server, Recv(s, t)
        PROVE  Right'
    <2> DEFINE m == Head(wire[t][s])
    <2> DEFINE w == [wire EXCEPT ![t][s] = Tail(@)]
    <2>1. wire[t][s] # <<>> /\ UNCHANGED exempt
      BY <1>3 DEF Recv
    <2>2. m \in Message
      BY <2>1, TailWired
    <2> HIDE DEF m, w
    <2>3. CASE m.op = "SERVER"
      <3>1. UNCHANGED <<tkl, user, bancheck, hist, exempt>>
        BY <1>3, <2>1, <2>3 DEF Recv, m, w
      <3>2. QED
        BY <3>1 DEF Right, Untouched
    <2>4. CASE m.op = "+"
      <3>1. TklAdd(s, t, w, m.key, m.entry) /\ UNCHANGED user
        BY <1>3, <2>4 DEF Recv, m, w
      <3>2. m.key \in Key /\ m.entry \in Entry
        BY <2>2, <2>4, MessageTypes
      <3>3. QED
        BY <2>1, <3>1, <3>2, TklAddRight
    <2>5. CASE m.op = "-"
      <3>1. TklDel(s, t, w, m.key)
        BY <1>3, <2>5 DEF Recv, m, w
      <3>2. m.key \in Key
        BY <2>2, <2>5, MessageTypes
      <3>3. QED
        BY <2>1, <3>1, <3>2, TklDelRight
    <2>6. QED
      BY <1>3, <2>3, <2>4, <2>5 DEF Recv, m
  <1>4. ASSUME NEW s \in Server, CheckExpire(s)
        PROVE  Right'
    <2> DEFINE gone == {k \in Key : tkl[s][k] # None /\ Expired(tkl[s][k], Clock(s))}
    <2>1. /\ tkl' = [tkl EXCEPT ![s] = [k \in Key |-> IF k \in gone THEN None ELSE tkl[s][k]]]
          /\ user' = [user EXCEPT ![s] = Unshunned(@, gone, tkl[s])]
          /\ hist' = [hist EXCEPT !.expired = TRUE,
                       !.lapsed[s] = @ \/ (s \in Host /\ gone \cap Exception # {}),
                       !.misread[s] = @ \/ Misread(user[s], gone, tkl[s]),
                       !.changed[s] = [k \in Key |-> IF k \in gone THEN When(s) ELSE @[k]]]
          /\ bancheck' = bancheck /\ exempt' = exempt /\ gone \in SUBSET Key
      BY <1>4 DEF CheckExpire
    <2> HIDE DEF gone
    <2>2. hist'.lapsed = [hist.lapsed EXCEPT ![s] = @ \/ (s \in Host /\ gone \cap Exception # {})]
      BY <2>1 DEF Shape, History
    <2>3. hist'.lapsed[s] = (hist.lapsed[s] \/ (s \in Host /\ gone \cap Exception # {}))
      BY <2>2 DEF Shape, History
    <2>8. hist'.misread = [hist.misread EXCEPT ![s] = @ \/ Misread(user[s], gone, tkl[s])]
      BY <2>1 DEF Shape, History
    <2>9. hist'.misread[s] = (hist.misread[s] \/ Misread(user[s], gone, tkl[s]))
      BY <2>8 DEF Shape, History
    <2>4. \A a \in Server \ {s} : Untouched(a)
      BY <2>1, <2>2, <2>8 DEF Untouched, Shape, History, TypeOK
    <2>5. /\ tkl'[s] = [k \in Key |-> IF k \in gone THEN None ELSE tkl[s][k]]
          /\ user'[s] = Unshunned(user[s], gone, tkl[s])
      BY <2>1 DEF Shape, History, TypeOK
    <2>6. EnforcedAt(s)' /\ JustifiedAt(s)'
      BY <2>1, <2>3, <2>5, <2>9, UnshunnedRight DEF Right
    <2>7. QED
      BY <2>4, <2>6 DEF Right
  <1>5. ASSUME NEW s \in Server, CheckPings(s)
        PROVE  Right'
    <2>1. /\ bancheck' = [bancheck EXCEPT ![s] = FALSE]
          /\ user' = [user EXCEPT ![s] =
                        IF @ = "none" \/ Killed(tkl[s], s) THEN "none"
                        ELSE IF Shunned(tkl[s], s) THEN "shunned" ELSE @]
          /\ hist' = [hist EXCEPT !.lapsed[s] = FALSE, !.misread[s] = @ /\ ~Shunned(tkl[s], s)]
          /\ tkl' = tkl /\ exempt' = exempt
      BY <1>5 DEF CheckPings
    <2>2. \A a \in Server \ {s} : Untouched(a)
      BY <2>1 DEF Untouched, Shape, History, TypeOK
    <2>3. Killed(tkl[s], s)' = Killed(tkl[s], s) /\ Shunned(tkl[s], s)' = Shunned(tkl[s], s)
      BY <2>1 DEF Killed, Shunned, Excepted
    <2>4. user'[s] = IF user[s] = "none" \/ Killed(tkl[s], s) THEN "none"
                     ELSE IF Shunned(tkl[s], s) THEN "shunned" ELSE user[s]
      BY <2>1 DEF Shape, History, TypeOK
    <2>5. EnforcedAt(s)'
      BY <2>3, <2>4 DEF EnforcedAt
    <2>6. JustifiedAt(s)'
      <3>1. ~Shunned(tkl[s], s) => (hist.misread[s] => hist'.misread[s])
        BY <2>1 DEF Shape, History
      <3>2. CASE Shunned(tkl[s], s)
        BY <2>1, <3>2 DEF JustifiedAt, Shunned
      <3>3. CASE ~Shunned(tkl[s], s)
        BY <2>1, <2>4, <3>1, <3>3 DEF JustifiedAt, Right
      <3>4. QED
        BY <3>2, <3>3
    <2>7. QED
      BY <2>2, <2>5, <2>6 DEF Right
  <1>6. ASSUME NEW s \in Server, Stop(s) \/ Crash(s)
        PROVE  Right'
    <2>1. /\ tkl' = [tkl EXCEPT ![s] = [k \in Key |-> None]]
          /\ user' = [user EXCEPT ![s] = "none"]
          /\ bancheck' = [bancheck EXCEPT ![s] = FALSE]
          /\ UNCHANGED <<exempt, hist>>
      BY <1>6 DEF Stop, Crash, Down
    <2>2. \A a \in Server \ {s} : Untouched(a)
      BY <2>1 DEF Untouched, Shape, History, TypeOK
    <2>3. user'[s] = "none"
      BY <2>1 DEF Shape, History, TypeOK
    <2>4. QED
      BY <2>2, <2>3 DEF Right, EnforcedAt, JustifiedAt
  <1>7. ASSUME NEW s \in Server, Boot(s)
        PROVE  Right'
    <2>1. /\ tkl' = [tkl EXCEPT ![s] = ReadTkldb(s)] /\ s \notin running
          /\ hist' = [hist EXCEPT !.failed[s] = FALSE, !.changed[s] = [k \in Key |-> When(s)]]
          /\ UNCHANGED <<user, bancheck, exempt>>
      BY <1>7 DEF Boot
    <2>2. \A a \in Server \ {s} : Untouched(a)
      BY <2>1 DEF Untouched, Shape, History, TypeOK
    <2>3. user'[s] = "none"
      BY <2>1 DEF Shape, History
    <2>4. QED
      BY <2>2, <2>3 DEF Right, EnforcedAt, JustifiedAt
  <1>8. ASSUME NEW s \in Server, Rehash(s)
        PROVE  Right'
    <2>1. s \in Host /\ bancheck' = [bancheck EXCEPT ![s] = s \in Host]
          /\ exempt' = [exempt EXCEPT ![s] = ~@] /\ UNCHANGED <<tkl, user, hist>>
      BY <1>8 DEF Rehash
    <2>2. \A a \in Server \ {s} : Untouched(a)
      BY <2>1 DEF Untouched, Shape, History, TypeOK
    <2>3. bancheck'[s]
      BY <2>1 DEF Shape, History, TypeOK
    <2>4. EnforcedAt(s)' /\ JustifiedAt(s)'
      BY <2>1, <2>3 DEF EnforcedAt, JustifiedAt, Right
    <2>5. QED
      BY <2>2, <2>4 DEF Right
  <1>9. ASSUME NEW s \in Server, Register(s)
        PROVE  Right'
    <2>1. /\ ~Killed(tkl[s], s)
          /\ user' = [user EXCEPT ![s] = IF Shunned(tkl[s], s) THEN "shunned" ELSE "user"]
          /\ hist' = [hist EXCEPT !.misread[s] = FALSE]
          /\ UNCHANGED <<tkl, bancheck, exempt>>
      BY <1>9 DEF Register
    <2>2. \A a \in Server \ {s} : Untouched(a)
      BY <2>1 DEF Untouched, Shape, History, TypeOK
    <2>3. Killed(tkl[s], s)' = Killed(tkl[s], s) /\ Shunned(tkl[s], s)' = Shunned(tkl[s], s)
      BY <2>1 DEF Killed, Shunned, Excepted
    <2>4. user'[s] = IF Shunned(tkl[s], s) THEN "shunned" ELSE "user"
      BY <2>1 DEF Shape, History, TypeOK
    <2>5. EnforcedAt(s)'
      BY <2>1, <2>3, <2>4 DEF EnforcedAt
    <2>6. JustifiedAt(s)'
      BY <2>1, <2>4 DEF JustifiedAt, Shunned
    <2>7. QED
      BY <2>2, <2>5, <2>6 DEF Right
  <1>10. ASSUME NEW s \in Server, Save(s) PROVE Right'
    <2>1. \A a \in Server : Untouched(a)
      BY <1>10 DEF Save, Untouched, Shape, History
    <2>2. QED
      BY <2>1 DEF Right
  <1>11. ASSUME \/ \E s, t \in Server : Connect(s, t) \/ Break(s, t)
                \/ Tick \/ UNCHANGED vars
         PROVE  Right'
    <2>1. \A a \in Server : Untouched(a)
      BY <1>11 DEF Connect, Break, Tick, vars, Untouched
    <2>2. QED
      BY <2>1 DEF Right
  <1>12. QED
    BY <1>1, <1>2, <1>3, <1>4, <1>5, <1>6, <1>7, <1>8, <1>9, <1>10, <1>11 DEF Next

\* Every server is right about its user at all times.
LEMMA RightAlways == Spec => [](Shape /\ Right)
  <1>1. Init => Right
    BY DEF Init, Right, EnforcedAt, JustifiedAt
  <1>2. Spec => []Shape
    BY ShapeInit, ShapeStep, PTL DEF Spec
  <1>3. QED
    BY <1>1, <1>2, RightStep, PTL DEF Spec

\* A user whom a ban matches, and no exception, is gone or shunned, or the next
\* check_pings will look; only the expiry of an E-line forgets to ask for it, and
\* only an entry that match_simple does not match is overlooked when a shun goes.
THEOREM BansEnforced == Spec => []Enforced
  <1>1. Right => Enforced
    BY DEF Right, EnforcedAt, Enforced
  <1>2. QED
    BY <1>1, RightAlways, PTL

\* Whatever masks the shuns have, whoever is shunned is so by a shun that is still
\* there, or match_user and match_simple disagreed about an entry that was there
\* when one went.
THEOREM ShunsJustified == Spec => []ShunJustified
  <1>1. Right => ShunJustified
    BY DEF Right, JustifiedAt, ShunJustified
  <1>2. QED
    BY <1>1, RightAlways, PTL

-----------------------------------------------------------------------------
(* The database *)

\* Fresh, for server s
FreshAt(s) ==
    /\ Clock(s) <= due[s] /\ due[s] <= Clock(s) + SaveEvery + SaveDelta
    /\ \A k \in Key : db[s][k] = tkl[s][k] \/ hist.failed[s]
                      \/ due[s] <= hist.changed[s][k] + SaveEvery + SaveDelta

\* A step that stores or drops entries notes the time, so it is fresh still.
LEMMA ChangedFresh ==
    ASSUME Shape, NEW s \in Server, s \in Tkldb => FreshAt(s), s \in Tkldb,
           due'[s] = due[s], now' = now, db'[s] = db[s], hist'.failed[s] = hist.failed[s],
           \A k \in Key : \/ tkl'[s][k] = tkl[s][k] /\ hist'.changed[s][k] = hist.changed[s][k]
                          \/ hist'.changed[s][k] = When(s)
    PROVE  FreshAt(s)'
  <1>1. When(s) = Clock(s) /\ Clock(s)' = Clock(s)
    BY DEF When, Clock
  <1>2. FreshAt(s)
    OBVIOUS
  <1>3. QED
    BY <1>1, <1>2 DEF FreshAt

\* What cmd_tkl_add and cmd_tkl_del change of the entries is noted.
LEMMA StoresNoted ==
    ASSUME Shape, NEW s \in Server, NEW from, NEW w, NEW k \in Key,
           \/ \E e \in Entry : TklAdd(s, from, w, k, e)
           \/ TklDel(s, from, w, k)
    PROVE  \A a \in Server :
              /\ hist'.failed[a] = hist.failed[a]
              /\ \A j \in Key : \/ tkl'[a][j] = tkl[a][j] /\ hist'.changed[a][j] = hist.changed[a][j]
                                \/ hist'.changed[a][j] = When(a)
  <1>1. \/ tkl' = tkl /\ hist' = hist
        \/ \E x : /\ tkl' = [tkl EXCEPT ![s][k] = x]
                  /\ \/ hist' = [hist EXCEPT !.changed[s][k] = When(s)]
                     \/ \E b : hist' = [hist EXCEPT !.changed[s][k] = When(s), !.removed = TRUE,
                                         !.misread[s] = b]
    BY DEF TklAdd, TklDel, Store
  <1>2. CASE tkl' = tkl /\ hist' = hist
    BY <1>2
  <1>3. ASSUME NEW x, tkl' = [tkl EXCEPT ![s][k] = x],
               \/ hist' = [hist EXCEPT !.changed[s][k] = When(s)]
               \/ \E b : hist' = [hist EXCEPT !.changed[s][k] = When(s), !.removed = TRUE,
                                   !.misread[s] = b]
        PROVE  \A a \in Server :
              /\ hist'.failed[a] = hist.failed[a]
              /\ \A j \in Key : \/ tkl'[a][j] = tkl[a][j] /\ hist'.changed[a][j] = hist.changed[a][j]
                                \/ hist'.changed[a][j] = When(a)
    <2>1. hist'.failed = hist.failed /\ hist'.changed = [hist.changed EXCEPT ![s][k] = When(s)]
      <3>1. CASE hist' = [hist EXCEPT !.changed[s][k] = When(s)]
        BY <3>1 DEF Shape, History
      <3>2. ASSUME NEW b, hist' = [hist EXCEPT !.changed[s][k] = When(s), !.removed = TRUE,
                                      !.misread[s] = b]
            PROVE  /\ hist'.failed = hist.failed
                   /\ hist'.changed = [hist.changed EXCEPT ![s][k] = When(s)]
        BY <3>2 DEF Shape, History
      <3>3. QED
        BY <1>3, <3>1, <3>2
    <2>2. tkl' = [tkl EXCEPT ![s][k] = x]
      BY <1>3
    <2>3. hist.changed \in [Server -> [Key -> Nat]] /\ tkl \in [Server -> [Key -> Entry \cup {None}]]
      BY DEF Shape, History, TypeOK
    <2>4. QED
      BY <2>1, <2>2, <2>3
  <1>4. QED
    BY <1>1, <1>2, <1>3

\* Every step keeps what the database lacks fresh.
LEMMA FreshStep ==
    ASSUME Shape, Fresh, [Next]_vars
    PROVE  Fresh'
  <1>1. \A s \in Server : s \in Tkldb \cap running => FreshAt(s)
    BY DEF Fresh, FreshAt
  <1>2. SUFFICES ASSUME NEW a \in Tkldb \cap running' PROVE FreshAt(a)'
    BY DEF Fresh, FreshAt
  <1>3. a \in Server
    BY BansAssumption
  <1>4. Clock(a) \in Nat /\ due[a] \in Nat /\ SaveEvery \in Nat /\ SaveDelta \in Nat
        /\ \A k \in Key : hist.changed[a][k] \in Nat
    BY <1>3, BansAssumption DEF Clock, Shape, History, TypeOK
  <1>5. ASSUME NEW s \in Server, NEW k \in Key, SetBan(s, k) \/ SetException(s, k)
        PROVE  FreshAt(a)'
    <2>1. PICK d \in Nat : Set(s, k, d)
      BY <1>5, BansAssumption DEF SetBan, SetException
    <2>2. PICK e \in Entry : TklAdd(s, s, wire, k, e) /\ UNCHANGED <<db, running, due, now>>
      BY <2>1, SetEntry DEF Set
    <2>3. QED
      BY <2>2, <1>1, <1>3, StoresNoted, ChangedFresh
  <1>6. ASSUME NEW s \in Server, NEW k \in Key, RemoveBan(s, k)
        PROVE  FreshAt(a)'
    <2>1. TklDel(s, s, wire, k) /\ UNCHANGED <<db, running, due, now>>
      BY <1>6 DEF RemoveBan
    <2>2. QED
      BY <2>1, <1>1, <1>3, StoresNoted, ChangedFresh
  <1>7. ASSUME NEW s \in Server, NEW t \in Server, Recv(s, t)
        PROVE  FreshAt(a)'
    <2> DEFINE m == Head(wire[t][s])
    <2> DEFINE w == [wire EXCEPT ![t][s] = Tail(@)]
    <2>1. wire[t][s] # <<>> /\ UNCHANGED <<db, running, due, now>>
      BY <1>7 DEF Recv
    <2>2. m \in Message
      BY <2>1, TailWired
    <2> HIDE DEF m, w
    <2>3. CASE m.op = "SERVER"
      <3>1. UNCHANGED <<tkl, hist>>
        BY <1>7, <2>1, <2>3 DEF Recv, m, w
      <3>2. QED
        BY <2>1, <3>1, <1>1, <1>3, ChangedFresh
    <2>4. CASE m.op = "+"
      <3>1. TklAdd(s, t, w, m.key, m.entry) /\ m.key \in Key /\ m.entry \in Entry
        BY <1>7, <2>2, <2>4, MessageTypes DEF Recv, m, w
      <3>2. QED
        BY <2>1, <3>1, <1>1, <1>3, StoresNoted, ChangedFresh
    <2>5. CASE m.op = "-"
      <3>1. TklDel(s, t, w, m.key) /\ m.key \in Key
        BY <1>7, <2>2, <2>5, MessageTypes DEF Recv, m, w
      <3>2. QED
        BY <2>1, <3>1, <1>1, <1>3, StoresNoted, ChangedFresh
    <2>6. QED
      BY <1>7, <2>3, <2>4, <2>5 DEF Recv, m
  <1>8. ASSUME NEW s \in Server, CheckExpire(s)
        PROVE  FreshAt(a)'
    <2> DEFINE gone == {k \in Key : tkl[s][k] # None /\ Expired(tkl[s][k], Clock(s))}
    <2>1. /\ tkl' = [tkl EXCEPT ![s] = [k \in Key |-> IF k \in gone THEN None ELSE tkl[s][k]]]
          /\ hist' = [hist EXCEPT !.expired = TRUE,
                       !.lapsed[s] = @ \/ (s \in Host /\ gone \cap Exception # {}),
                       !.misread[s] = @ \/ Misread(user[s], gone, tkl[s]),
                       !.changed[s] = [k \in Key |-> IF k \in gone THEN When(s) ELSE @[k]]]
          /\ UNCHANGED <<db, running, due, now>>
      BY <1>8 DEF CheckExpire
    <2> HIDE DEF gone
    <2>2. /\ hist'.failed = hist.failed
          /\ hist'.changed = [hist.changed EXCEPT ![s] = [k \in Key |-> IF k \in gone THEN When(s) ELSE @[k]]]
      BY <2>1 DEF Shape, History
    <2>3. \A k \in Key : \/ tkl'[a][k] = tkl[a][k] /\ hist'.changed[a][k] = hist.changed[a][k]
                         \/ hist'.changed[a][k] = When(a)
      BY <2>1, <2>2, <1>3 DEF Shape, History, TypeOK
    <2>4. QED
      BY <2>1, <2>2, <2>3, <1>1, <1>3, ChangedFresh
  <1>9. ASSUME NEW s \in Server, Save(s)
        PROVE  FreshAt(a)'
    <2>1. /\ due' = [due EXCEPT ![s] = Clock(s) + SaveEvery] /\ UNCHANGED <<tkl, running, now>>
          /\ \/ db' = [db EXCEPT ![s] = tkl[s]] /\ hist' = [hist EXCEPT !.failed[s] = FALSE]
             \/ db' = db /\ hist' = [hist EXCEPT !.failed[s] = TRUE]
      BY <1>9 DEF Save
    <2>2. CASE a = s
      <3>1. due'[a] = Clock(a) + SaveEvery /\ Clock(a)' = Clock(a)
        BY <2>1, <2>2 DEF Shape, History, TypeOK, Clock
      <3>2. \A k \in Key : db'[a][k] = tkl'[a][k] \/ hist'.failed[a]
        BY <2>1, <2>2 DEF Shape, History, TypeOK
      <3>3. QED
        BY <1>4, <3>1, <3>2 DEF FreshAt
    <2>3. CASE a # s
      <3>1. /\ due'[a] = due[a] /\ db'[a] = db[a] /\ hist'.failed[a] = hist.failed[a]
            /\ hist'.changed = hist.changed
        BY <2>1, <2>3, <1>3 DEF Shape, History, TypeOK
      <3>2. QED
        BY <2>1, <3>1, <1>1, <1>3, ChangedFresh
    <2>4. QED
      BY <2>2, <2>3
  <1>10. ASSUME NEW s \in Server, Stop(s) \/ Crash(s)
         PROVE  FreshAt(a)'
    <2>1. /\ db' = [db EXCEPT ![s] = tkl[s]] \/ db' = db
          /\ tkl' = [tkl EXCEPT ![s] = [k \in Key |-> None]]
          /\ running' = running \ {s} /\ UNCHANGED <<due, now, hist>>
      BY <1>10 DEF Stop, Crash, Down
    <2>2. a # s /\ a \in running /\ db'[a] = db[a] /\ tkl'[a] = tkl[a]
      BY <2>1, <1>3 DEF Shape, History, TypeOK
    <2>3. QED
      BY <2>1, <2>2, <1>1, <1>3, ChangedFresh
  <1>11. ASSUME NEW s \in Server, Boot(s)
         PROVE  FreshAt(a)'
    <2>1. /\ tkl' = [tkl EXCEPT ![s] = ReadTkldb(s)] /\ running' = running \cup {s}
          /\ due' = [due EXCEPT ![s] = Clock(s) + SaveEvery + SaveDelta]
          /\ hist' = [hist EXCEPT !.failed[s] = FALSE, !.changed[s] = [k \in Key |-> When(s)]]
          /\ UNCHANGED <<db, now>>
      BY <1>11 DEF Boot
    <2>2. CASE a = s
      <3>1. due'[a] = Clock(a) + SaveEvery + SaveDelta /\ Clock(a)' = Clock(a)
        BY <2>1, <2>2 DEF Shape, History, TypeOK, Clock
      <3>2. \A k \in Key : hist'.changed[a][k] = Clock(a)
        BY <2>1, <2>2 DEF Shape, History, TypeOK, When
      <3>3. QED
        BY <1>4, <3>1, <3>2 DEF FreshAt
    <2>3. CASE a # s
      <3>1. /\ due'[a] = due[a] /\ tkl'[a] = tkl[a] /\ hist'.failed[a] = hist.failed[a]
            /\ hist'.changed[a] = hist.changed[a] /\ a \in running
        BY <2>1, <2>3, <1>3 DEF Shape, History, TypeOK
      <3>2. QED
        BY <2>1, <3>1, <1>1, <1>3, ChangedFresh
    <2>4. QED
      BY <2>2, <2>3
  <1>12. ASSUME Tick
         PROVE  FreshAt(a)'
    <2>1. /\ due[a] > Clock(a) /\ now' = now + 1 /\ UNCHANGED <<tkl, db, running, due, hist>>
      BY <1>12 DEF Tick
    <2>2. Clock(a)' = Clock(a) + 1
      BY <2>1, <1>3, BansAssumption DEF Clock, Shape, History, TypeOK
    <2>3. FreshAt(a)
      BY <1>1, <1>3, <2>1
    <2>4. QED
      BY <1>4, <2>1, <2>2, <2>3 DEF FreshAt
  <1>13. ASSUME \/ \E s, t \in Server : Connect(s, t) \/ Break(s, t)
                \/ \E s \in Server : Rehash(s)
                \/ UNCHANGED vars
         PROVE  FreshAt(a)'
    <2>1. UNCHANGED <<tkl, db, running, due, now, hist>>
      BY <1>13 DEF Connect, Break, Rehash, vars
    <2>2. QED
      BY <2>1, <1>1, <1>3, ChangedFresh
  <1>14. ASSUME NEW s \in Server, CheckPings(s) \/ Register(s)
         PROVE  FreshAt(a)'
    <2>1. /\ \/ hist' = [hist EXCEPT !.lapsed[s] = FALSE, !.misread[s] = @ /\ ~Shunned(tkl[s], s)]
             \/ hist' = [hist EXCEPT !.misread[s] = FALSE]
          /\ UNCHANGED <<tkl, db, running, due, now>>
      BY <1>14 DEF CheckPings, Register
    <2>2. hist'.failed = hist.failed /\ hist'.changed = hist.changed
      BY <2>1 DEF Shape, History
    <2>3. QED
      BY <2>1, <2>2, <1>1, <1>3, ChangedFresh
  <1>15. QED
    BY <1>5, <1>6, <1>7, <1>8, <1>9, <1>10, <1>11, <1>12, <1>13, <1>14 DEF Next

\* What a server holds unchanged for longer than the time between two saves is
\* in its database, if the last save did not fail: a crash loses no more, and a
\* ban removed that long ago does not come back.
THEOREM SavesInTime == Spec => []SavedInTime
  <1>1. Init => Fresh
    <2>1. ASSUME Init, NEW s \in Tkldb PROVE FreshAt(s)
      <3>1. s \in Server
        BY BansAssumption
      <3>2. due[s] = Clock(s) + SaveEvery + SaveDelta /\ Clock(s) \in Nat
        BY <2>1, <3>1, BansAssumption DEF Init, Clock
      <3>3. \A k \in Key : db[s][k] = tkl[s][k]
        BY <2>1, <3>1 DEF Init
      <3>4. QED
        BY <3>2, <3>3, BansAssumption DEF FreshAt
    <2>2. QED
      BY <2>1 DEF Fresh, FreshAt
  <1>2. Spec => []Shape
    BY ShapeInit, ShapeStep, PTL DEF Spec
  <1>3. ASSUME Shape, Fresh PROVE SavedInTime
    <2>1. SUFFICES ASSUME NEW s \in Tkldb, NEW k \in Key, s \in running, ~hist.failed[s],
                          Clock(s) - hist.changed[s][k] > SaveEvery + SaveDelta
                   PROVE  db[s][k] = tkl[s][k]
      BY DEF SavedInTime
    <2>2. s \in Server
      BY BansAssumption
    <2>3. Clock(s) \in Nat /\ due[s] \in Nat /\ SaveEvery \in Nat /\ SaveDelta \in Nat
          /\ hist.changed[s][k] \in Nat
      BY <1>3, <2>2, BansAssumption, SMTT(30) DEF Clock, Shape, History, TypeOK
    <2>4. FreshAt(s)
      BY <1>3, <2>1 DEF Fresh, FreshAt
    <2>5. QED
      BY <2>1, <2>3, <2>4 DEF FreshAt
  <1>4. QED
    BY <1>1, <1>2, <1>3, FreshStep, PTL DEF Spec

-----------------------------------------------------------------------------
(* Agreement: what is in the messages *)

\* What a message adds to the entries for k
Carries(m, k) == IF m.op = "+" /\ m.key = k THEN {m.entry} ELSE {}

\* The entries in a sequence of messages, one message more or less.
LEMMA EntriesFacts ==
    ASSUME NEW q \in Seq(Message), NEW m \in Message, NEW k \in Key
    PROVE  /\ Entries(<<>>, k) = {}
           /\ Entries(q, k) \subseteq Entry
           /\ Entries(Append(q, m), k) = Entries(q, k) \cup Carries(m, k)
           /\ q # <<>> => Entries(q, k) = Carries(Head(q), k) \cup Entries(Tail(q), k)
  <1>1. Entries(<<>>, k) = {}
    BY DEF Entries
  <1>2. Entries(q, k) \subseteq Entry
    <2>1. \A i \in DOMAIN q : q[i] \in Message
      OBVIOUS
    <2>2. QED
      BY <2>1, MessageTypes DEF Entries
  <1>3. Entries(Append(q, m), k) = Entries(q, k) \cup Carries(m, k)
    <2>1. /\ Len(q) \in Nat /\ DOMAIN q = 1..Len(q) /\ DOMAIN Append(q, m) = 1..(Len(q) + 1)
          /\ \A i \in 1..Len(q) : Append(q, m)[i] = q[i]
          /\ Append(q, m)[Len(q) + 1] = m
      BY AppendProperties
    <2>2. \A x : x \in Entries(Append(q, m), k) <=> x \in Entries(q, k) \cup Carries(m, k)
      BY <2>1 DEF Entries, Carries
    <2>3. QED
      BY <2>2
  <1>4. ASSUME q # <<>> PROVE Entries(q, k) = Carries(Head(q), k) \cup Entries(Tail(q), k)
    <2>1. /\ Len(q) \in Nat \ {0} /\ DOMAIN q = 1..Len(q) /\ DOMAIN Tail(q) = 1..(Len(q) - 1)
          /\ Head(q) = q[1] /\ \A i \in 1..(Len(q) - 1) : Tail(q)[i] = q[i + 1]
      BY <1>4, HeadTailProperties
    <2>2. \A i \in 1..Len(q) : i = 1 \/ (i - 1 \in 1..(Len(q) - 1) /\ q[i] = Tail(q)[i - 1])
      BY <2>1
    <2>3. \A i \in 1..(Len(q) - 1) : i + 1 \in 1..Len(q) /\ 1 \in 1..Len(q)
      BY <2>1
    <2>4. Entries(q, k) \subseteq Carries(Head(q), k) \cup Entries(Tail(q), k)
      <3>1. SUFFICES ASSUME NEW x \in Entries(q, k)
                     PROVE  x \in Carries(Head(q), k) \cup Entries(Tail(q), k)
        OBVIOUS
      <3>2. PICK i \in 1..Len(q) : q[i].op = "+" /\ q[i].key = k /\ q[i].entry = x
        BY <2>1, <3>1 DEF Entries
      <3>3. CASE i = 1
        BY <3>2, <3>3, <2>1 DEF Carries
      <3>4. CASE i # 1
        <4>1. i - 1 \in DOMAIN Tail(q) /\ Tail(q)[i - 1] = q[i]
          BY <2>1, <2>2, <3>4
        <4>2. QED
          BY <3>2, <4>1 DEF Entries
      <3>5. QED
        BY <3>3, <3>4
    <2>5. Carries(Head(q), k) \cup Entries(Tail(q), k) \subseteq Entries(q, k)
      BY <2>1, <2>3 DEF Entries, Carries
    <2>6. QED
      BY <2>4, <2>5
  <1>5. QED
    BY <1>1, <1>2, <1>3, <1>4

\* tkl_sync sends the entry for every key, with or without the introduction.
LEMMA SyncEntries ==
    ASSUME Shape, NEW s \in Server, NEW k \in Key
    PROVE  /\ Entries(Sync(s), k) = {tkl[s][k]} \ {None}
           /\ Entries(<<Hello>> \o Sync(s), k) = {tkl[s][k]} \ {None}
           /\ \A i \in DOMAIN Sync(s) : Sync(s)[i] # Hello
  <1>1. Entries(Sync(s), k) = {tkl[s][k]} \ {None}
    <2>1. Entries(Sync(s), k) \subseteq {tkl[s][k]} \ {None}
      BY SyncFacts DEF Entries, Add
    <2>2. ASSUME tkl[s][k] # None PROVE tkl[s][k] \in Entries(Sync(s), k)
      BY <2>2, SyncFacts DEF Entries, Add
    <2>3. QED
      BY <2>1, <2>2
  <1>2. Entries(<<Hello>> \o Sync(s), k) = Entries(Sync(s), k)
    <2> DEFINE q == <<Hello>> \o Sync(s)
    <2>1. Sync(s) \in Seq(Message) /\ Hello \in Message
      BY SyncFacts DEF Message
    <2>2. q \in Seq(Message) /\ q # <<>> /\ Head(q) = Hello /\ Tail(q) = Sync(s)
      BY <2>1
    <2> HIDE DEF q
    <2>3. Entries(q, k) = Carries(Head(q), k) \cup Entries(Tail(q), k)
      BY <2>1, <2>2, EntriesFacts
    <2>4. Carries(Hello, k) = {}
      BY DEF Carries, Hello
    <2>5. QED
      BY <2>2, <2>3, <2>4 DEF q
  <1>3. \A i \in DOMAIN Sync(s) : Sync(s)[i] # Hello
    BY SyncFacts DEF Add, Hello
  <1>4. QED
    BY <1>1, <1>2, <1>3

\* The effect of a broadcast on the entries under way.
LEMMA BroadcastEntries ==
    ASSUME Shape, NEW w, Wired(w, linked), NEW s \in Server, NEW skip, NEW msg \in Message,
           NEW a \in Server, NEW b \in Server, NEW k \in Key, NEW x
    PROVE  x \in Entries(Broadcast(w, s, skip, msg)[a][b], k) <=>
              \/ x \in Entries(w[a][b], k)
              \/ a = s /\ <<s, b>> \in linked /\ b # skip /\ x \in Carries(msg, k)
  <1>1. w[a][b] \in Seq(Message)
    BY DEF Wired, Wires
  <1>2. Broadcast(w, s, skip, msg)[a][b] =
           IF a = s /\ <<s, b>> \in linked /\ b # skip THEN Append(w[a][b], msg) ELSE w[a][b]
    BY BroadcastFacts
  <1>3. Entries(Append(w[a][b], msg), k) = Entries(w[a][b], k) \cup Carries(msg, k)
    BY <1>1, EntriesFacts
  <1>4. CASE a = s /\ <<s, b>> \in linked /\ b # skip
    BY <1>2, <1>3, <1>4
  <1>5. CASE ~(a = s /\ <<s, b>> \in linked /\ b # skip)
    <2>1. Broadcast(w, s, skip, msg)[a][b] = w[a][b]
      BY <1>2, <1>5
    <2>2. QED
      BY <2>1, <1>5
  <1>6. QED
    BY <1>4, <1>5

\* A broadcast is no introduction.
LEMMA BroadcastHello ==
    ASSUME Shape, NEW w, Wired(w, linked), HelloFirst(w, linked), NEW s \in Server, NEW skip,
           NEW msg \in Message, msg # Hello
    PROVE  HelloFirst(Broadcast(w, s, skip, msg), linked)
  <1>1. SUFFICES ASSUME NEW a \in Server, NEW b \in Server,
                        NEW i \in DOMAIN Broadcast(w, s, skip, msg)[a][b],
                        Broadcast(w, s, skip, msg)[a][b][i] = Hello
                 PROVE  i = 1 /\ <<b, a>> \notin linked
    BY DEF HelloFirst
  <1>2. w[a][b] \in Seq(Message)
    BY DEF Wired, Wires
  <1>3. i \in DOMAIN w[a][b] /\ w[a][b][i] = Hello
    <2>1. Broadcast(w, s, skip, msg)[a][b] =
             IF a = s /\ <<s, b>> \in linked /\ b # skip THEN Append(w[a][b], msg) ELSE w[a][b]
      BY BroadcastFacts
    <2>2. /\ DOMAIN w[a][b] = 1..Len(w[a][b]) /\ Len(w[a][b]) \in Nat
          /\ DOMAIN Append(w[a][b], msg) = 1..(Len(w[a][b]) + 1)
          /\ \A j \in 1..Len(w[a][b]) : Append(w[a][b], msg)[j] = w[a][b][j]
          /\ Append(w[a][b], msg)[Len(w[a][b]) + 1] = msg
      BY <1>2, AppendProperties
    <2>3. QED
      BY <1>1, <2>1, <2>2
  <1>4. QED
    BY <1>3 DEF HelloFirst

\* Reading a message: what is left, and no introduction among it.
LEMMA TailEntries ==
    ASSUME Shape, HelloFirst(wire, linked), NEW s \in Server, NEW t \in Server, wire[t][s] # <<>>
    PROVE  LET m == Head(wire[t][s])
               w == [wire EXCEPT ![t][s] = Tail(@)]
           IN  /\ HelloFirst(w, linked)
               /\ \A i \in DOMAIN w[t][s] : w[t][s][i] # Hello
               /\ \A a, b \in Server, k \in Key :
                     Sent(a, b, k) = Entries(w[a][b], k)
                                     \cup (IF a = t /\ b = s THEN Carries(m, k) ELSE {})
  <1> DEFINE m == Head(wire[t][s])
  <1> DEFINE w == [wire EXCEPT ![t][s] = Tail(@)]
  <1>1. /\ \A a, b \in Server : wire[a][b] \in Seq(Message)
        /\ w[t][s] = Tail(wire[t][s])
        /\ \A a, b \in Server : ~(a = t /\ b = s) => w[a][b] = wire[a][b]
    BY DEF Shape, History, TypeOK
  <1>2. m \in Message
    BY TailWired
  <1>3. \A i \in DOMAIN w[t][s] : w[t][s][i] # Hello
    <2>1. SUFFICES ASSUME NEW i \in DOMAIN Tail(wire[t][s]), Tail(wire[t][s])[i] = Hello
                   PROVE  FALSE
      BY <1>1
    <2>2. i + 1 \in DOMAIN wire[t][s] /\ wire[t][s][i + 1] = Hello /\ i + 1 # 1
      BY <1>1, <2>1, HeadTailProperties
    <2>3. QED
      BY <2>2 DEF HelloFirst
  <1>4. HelloFirst(w, linked)
    BY <1>1, <1>3 DEF HelloFirst
  <1>5. \A a, b \in Server, k \in Key :
           Sent(a, b, k) = Entries(w[a][b], k) \cup (IF a = t /\ b = s THEN Carries(m, k) ELSE {})
    BY <1>1, <1>2, EntriesFacts DEF Sent
  <1>6. QED
    BY <1>3, <1>4, <1>5

-----------------------------------------------------------------------------
(* Agreement is invariant *)

\* What covers an entry that is in force is in force.
LEMMA CountsUp ==
    ASSUME NEW x \in Entry, NEW y \in Entry, NEW r \in Respect, NEW time \in Nat, NEW expired,
           Covers(x, y, r), Counts(y, r, time, expired)
    PROVE  Counts(x, r, time, expired)
  <1>1. CASE r = "end"
    <2>1. Covers(x, y, "end")
      BY <1>1
    <2>2. \A s \in Server : Expired(x, time + Skew[s]) => Expired(y, time + Skew[s])
      BY <2>1, EntryTypes, BansAssumption DEF Covers, Expired
    <2>3. QED
      BY <1>1, <2>2 DEF Counts, Dead
  <1>2. CASE r # "end"
    BY <1>2 DEF Counts
  <1>3. QED
    BY <1>1, <1>2

\* No link leads from a server to itself.
LEMMA EdgeEnds ==
    ASSUME NEW a \in Server, NEW b \in Server, {a, b} \in Edge
    PROVE  a # b
  <1>1. Cardinality({a, b}) = 2
    BY BansAssumption
  <1>2. ASSUME a = b PROVE FALSE
    <2>1. {a, b} = {a} /\ Cardinality({a}) = 1
      BY <1>2, FS_Singleton
    <2>2. QED
      BY <1>1, <2>1
  <1>3. QED
    BY <1>2

\* Everything under way is an entry, no server is linked to itself.
LEMMA SentTypes ==
    ASSUME Shape, NEW a \in Server, NEW b \in Server, NEW k \in Key
    PROVE  /\ Sent(a, b, k) \subseteq Entry /\ Coming(a, b, k) \subseteq Entry
           /\ <<a, b>> \in linked => a # b
           /\ <<a, b>> \notin linked => Sent(a, b, k) = {}
  <1>1. wire[a][b] \in Seq(Message) /\ tkl[a][k] \in Entry \cup {None} /\ tkl[b][k] \in Entry \cup {None}
    BY DEF Shape, History, TypeOK
  <1>2. Hello \in Message
    BY DEF Message
  <1>3. Sent(a, b, k) \subseteq Entry
    BY <1>1, <1>2, EntriesFacts DEF Sent
  <1>4. ASSUME <<a, b>> \in linked PROVE a # b
    BY <1>4, EdgeEnds DEF Shape, History, TypeOK, Pairs
  <1>5. ASSUME <<a, b>> \notin linked PROVE Sent(a, b, k) = {}
    <2>1. wire[a][b] = <<>>
      BY <1>5 DEF Shape, History, TypeOK
    <2>2. QED
      BY <2>1 DEF Sent, Entries
  <1>6. QED
    BY <1>1, <1>3, <1>4, <1>5 DEF Coming

\* s takes over m for what it had and for e, which came from f (or from its own
\* operator, f = s), and tells everyone but f of it, or had m before.
MergeStep(s, f, k, e, m) ==
    /\ f # s => e \in Sent(f, s, k)
    /\ \A a, b \in Server, j \in Key : \A x \in Sent(a, b, j) :
          x \in Entries(wire'[a][b], j) \/ (a = f /\ b = s /\ j = k /\ x = e)
    /\ \A a, b \in Server, j \in Key : \A x \in Entries(wire'[a][b], j) :
          x \in Sent(a, b, j) \/ (a = s /\ j = k /\ x = m)
    /\ tkl[s][k] # m =>
          \A b \in Server : <<s, b>> \in linked /\ b # f => m \in Entries(wire'[s][b], k)
    /\ tkl' = [tkl EXCEPT ![s][k] = m]
    /\ \A r \in Respect :
          /\ Covers(m, e, r) /\ (tkl[s][k] # None => Covers(m, tkl[s][k], r))
          /\ Covers(e, m, r) \/ (tkl[s][k] # None /\ Covers(tkl[s][k], m, r))
    /\ linked' = linked /\ now' = now /\ hist'.expired = hist.expired

\* Such a step keeps what the servers have told each other, and are behind.
LEMMA MergedAgree ==
    ASSUME Shape, Shape', Told, Behind,
           NEW s \in Server, NEW f \in Server, NEW k \in Key, NEW e \in Entry, NEW m \in Entry,
           MergeStep(s, f, k, e, m)
    PROVE  Told' /\ Behind'
  <1> USE DEF MergeStep
  <1>1. \A a, b \in Server, j \in Key, r \in Respect :
           (<<a, b>> \in linked => ToldOn(a, b, j, r)) /\ BehindOn(a, b, j, r)
    BY DEF Told, Behind
  <1>2. /\ tkl'[s][k] = m /\ m # None
        /\ \A a \in Server, j \in Key : ~(a = s /\ j = k) => tkl'[a][j] = tkl[a][j]
        /\ \A a \in Server, j \in Key : tkl[a][j] \in Entry \cup {None}
        /\ now \in Nat
    BY EntryTypes, SMTT(30) DEF Shape, History, TypeOK
  <1>3. ASSUME NEW a \in Server, NEW b \in Server, NEW j \in Key, NEW r \in Respect, <<a, b>> \in linked
        PROVE  ToldOn(a, b, j, r)'
    <2>1. SUFFICES ASSUME tkl'[a][j] # None, Counts(tkl'[a][j], r, now, hist.expired)
                   PROVE  \E x \in Coming(a, b, j)' : Covers(x, tkl'[a][j], r)
      BY DEF ToldOn
    <2>2. a # b
      BY <1>3, SentTypes
    <2>3. Coming(a, b, j)' = Entries(wire'[a][b], j) \cup ({tkl'[b][j]} \ {None})
      BY DEF Coming, Sent
    <2>4. CASE j # k \/ (a # s /\ b # s)
      <3>1. tkl'[a][j] = tkl[a][j] /\ tkl'[b][j] = tkl[b][j]
        BY <2>4, <1>2
      <3>2. PICK x \in Coming(a, b, j) : Covers(x, tkl[a][j], r)
        BY <1>1, <1>3, <2>1, <3>1 DEF ToldOn
      <3>3. Sent(a, b, j) \subseteq Entries(wire'[a][b], j)
        BY <2>4
      <3>4. x \in Coming(a, b, j)'
        BY <2>3, <3>1, <3>2, <3>3 DEF Coming
      <3>5. QED
        BY <3>1, <3>2, <3>4
    <2>5. CASE j = k /\ a = s
      <3>1. tkl'[b][j] = tkl[b][j] /\ Sent(a, b, j) \subseteq Entries(wire'[a][b], j)
        BY <2>2, <2>5, <1>2
      <3>2. Coming(a, b, j) \subseteq Coming(a, b, j)'
        BY <2>3, <3>1 DEF Coming
      <3>3. CASE tkl[s][k] # m /\ b # f
        <4>1. m \in Coming(a, b, j)' /\ Covers(m, m, r)
          BY <2>3, <2>5, <3>3, <1>3, CoversOrder
        <4>2. QED
          BY <4>1, <2>5, <1>2
      <3>4. CASE tkl[s][k] = m
        <4>1. ToldOn(a, b, j, r)
          BY <1>1, <1>3
        <4>2. QED
          BY <4>1, <3>2, <3>4, <2>1, <2>5, <1>2 DEF ToldOn
      <3>5. CASE b = f
        <4>1. f # s /\ e \in Sent(f, s, k) /\ BehindOn(f, s, k, r) /\ ToldOn(s, f, k, r)
          BY <3>5, <2>2, <2>5, <1>1, <1>3
        <4>2. Counts(m, r, now, hist.expired)
          BY <2>1, <2>5, <1>2
        <4>3. CASE Covers(e, m, r)
          <5>1. Counts(e, r, now, hist.expired)
            BY <4>2, <4>3, <1>2, CountsUp
          <5>2. tkl[f][k] # None /\ Covers(tkl[f][k], e, r)
            BY <5>1, <4>1 DEF BehindOn
          <5>3. tkl[f][k] \in Entry /\ Covers(tkl[f][k], m, r)
            BY <5>2, <4>3, <1>2, CoversOrder
          <5>4. tkl[f][k] \in Coming(a, b, j)'
            BY <5>2, <3>1, <3>5, <2>5, <2>3
          <5>5. QED
            BY <5>3, <5>4, <2>5, <1>2
        <4>4. CASE tkl[s][k] # None /\ Covers(tkl[s][k], m, r)
          <5>1. tkl[s][k] \in Entry
            BY <4>4, <1>2
          <5>2. Counts(tkl[s][k], r, now, hist.expired)
            BY <4>2, <4>4, <5>1, <1>2, CountsUp
          <5>3. PICK x \in Coming(s, f, k) : Covers(x, tkl[s][k], r)
            BY <4>1, <4>4, <5>2 DEF ToldOn
          <5>4. x \in Entry
            BY <5>3, SentTypes
          <5>5. Covers(x, m, r)
            BY <5>1, <5>3, <5>4, <4>4, CoversOrder
          <5>6. QED
            BY <5>3, <5>5, <3>2, <3>5, <2>5, <1>2
        <4>5. QED
          BY <4>3, <4>4
      <3>6. QED
        BY <3>3, <3>4, <3>5
    <2>6. CASE j = k /\ b = s
      <3>1. tkl'[a][j] = tkl[a][j] /\ tkl'[b][j] = m
        BY <2>2, <2>6, <1>2
      <3>2. PICK x \in Coming(a, b, j) : Covers(x, tkl[a][j], r)
        BY <1>1, <1>3, <2>1, <3>1 DEF ToldOn
      <3>3. m \in Coming(a, b, j)' /\ tkl[a][j] \in Entry /\ x \in Entry
        <4>1. m \in Coming(a, b, j)'
          BY <2>3, <3>1, <1>2
        <4>2. tkl[a][j] \in Entry
          BY <2>1, <3>1, <1>2
        <4>3. QED
          BY <4>1, <4>2, <3>2, SentTypes
      <3>4. CASE x \in Entries(wire'[a][b], j)
        <4>1. x \in Coming(a, b, j)'
          BY <2>3, <3>4
        <4>2. QED
          BY <3>1, <3>2, <4>1
      <3>5. CASE x \notin Entries(wire'[a][b], j)
        <4>1. x = e \/ (x = tkl[s][k] /\ tkl[s][k] # None)
          BY <3>2, <3>5, <2>6 DEF Coming
        <4>2. Covers(m, x, r)
          BY <4>1
        <4>3. Covers(m, tkl[a][j], r)
          BY <4>2, <3>2, <3>3, CoversOrder
        <4>4. QED
          BY <4>3, <3>1, <3>3
      <3>6. QED
        BY <3>4, <3>5
    <2>7. QED
      BY <2>4, <2>5, <2>6
  <1>4. ASSUME NEW a \in Server, NEW b \in Server, NEW j \in Key, NEW r \in Respect
        PROVE  BehindOn(a, b, j, r)'
    <2>1. SUFFICES ASSUME NEW x \in Entries(wire'[a][b], j), Counts(x, r, now, hist.expired)
                   PROVE  tkl'[a][j] # None /\ Covers(tkl'[a][j], x, r)
      BY DEF BehindOn, Sent
    <2>2. CASE x \in Sent(a, b, j)
      <3>1. x \in Entry
        BY <2>2, SentTypes
      <3>2. BehindOn(a, b, j, r)
        BY <1>1
      <3>3. tkl[a][j] # None /\ Covers(tkl[a][j], x, r) /\ tkl[a][j] \in Entry
        BY <2>2, <3>1, <3>2, <2>1, <1>2 DEF BehindOn
      <3>4. CASE a = s /\ j = k
        <4>1. Covers(m, tkl[a][j], r)
          BY <3>3, <3>4
        <4>2. Covers(m, x, r)
          BY <4>1, <3>1, <3>3, CoversOrder
        <4>3. QED
          BY <4>2, <3>4, <1>2
      <3>5. CASE ~(a = s /\ j = k)
        BY <3>3, <3>5, <1>2
      <3>6. QED
        BY <3>4, <3>5
    <2>3. CASE x \notin Sent(a, b, j)
      <3>1. a = s /\ j = k /\ x = m
        BY <2>1, <2>3
      <3>2. QED
        BY <3>1, <1>2, CoversOrder
    <2>4. QED
      BY <2>2, <2>3
  <1>5. QED
    BY <1>3, <1>4 DEF Told, Behind

\* cmd_tkl_add keeps the agreement: a new entry, a merge, or an entry that was
\* known already.
LEMMA TklAddAgree ==
    ASSUME Shape, Shape', Agreement, NEW s \in Server, NEW f \in Server, NEW k \in Key,
           NEW e \in Entry, NEW w, Wired(w, linked), HelloFirst(w, linked),
           TklAdd(s, f, w, k, e),
           f # s => e \in Sent(f, s, k),
           \A a, b \in Server, j \in Key : \A x \in Sent(a, b, j) :
               x \in Entries(w[a][b], j) \/ (a = f /\ b = s /\ j = k /\ x = e),
           \A a, b \in Server, j \in Key : Entries(w[a][b], j) \subseteq Sent(a, b, j),
           linked' = linked, now' = now
    PROVE  Agreement'
  <1> DEFINE old == tkl[s][k]
  <1> DEFINE m == IF old = None THEN e ELSE Merge(old, e)
  <1> DEFINE told == old = None \/ Differs(old, e)
  <1>1. old \in Entry \cup {None} /\ m \in Entry
    BY MergeType, SMTT(30) DEF Shape, History, TypeOK
  <1>2. Add(k, m) \in Message /\ Add(k, m) # Hello
        /\ \A j \in Key : Carries(Add(k, m), j) = IF j = k THEN {m} ELSE {}
    BY <1>1 DEF Add, Message, Hello, Carries
  <1>3. hist'.expired = hist.expired /\ hist'.removed = hist.removed
    BY DEF TklAdd, Store, Shape, History
  <1>4. wire' = IF told THEN Broadcast(w, s, f, Add(k, m)) ELSE w
    BY DEF TklAdd, TklAdded
  <1>5. tkl' = [tkl EXCEPT ![s][k] = m] /\ (told \/ old = m)
    <2>1. CASE told
      BY <2>1 DEF TklAdd, Store
    <2>2. CASE ~told
      <3>1. old \in Entry /\ m = old
        BY <2>2, <1>1, IgnoredIsCovered
      <3>2. tkl' = tkl
        BY <2>2 DEF TklAdd
      <3>3. QED
        BY <3>1, <3>2, SMTT(30) DEF Shape, History, TypeOK
    <2>3. QED
      BY <2>1, <2>2
  <1>6. \A r \in Respect :
           /\ Covers(m, e, r) /\ (old # None => Covers(m, old, r))
           /\ Covers(e, m, r) \/ (old # None /\ Covers(old, m, r))
    BY <1>1, MergeCovers, CoversOrder
  <1> HIDE DEF m, told
  <1>7. /\ \A a, b \in Server, j \in Key : \A x \in Sent(a, b, j) :
               x \in Entries(wire'[a][b], j) \/ (a = f /\ b = s /\ j = k /\ x = e)
        /\ \A a, b \in Server, j \in Key : \A x \in Entries(wire'[a][b], j) :
               x \in Sent(a, b, j) \/ (a = s /\ j = k /\ x = m)
        /\ old # m => \A b \in Server : <<s, b>> \in linked /\ b # f => m \in Entries(wire'[s][b], k)
    <2>1. CASE told
      <3>1. wire' = Broadcast(w, s, f, Add(k, m))
        BY <2>1, <1>4
      <3>2. ASSUME NEW a \in Server, NEW b \in Server, NEW j \in Key, NEW x
            PROVE  x \in Entries(wire'[a][b], j) <=>
                     \/ x \in Entries(w[a][b], j)
                     \/ a = s /\ <<s, b>> \in linked /\ b # f /\ x \in Carries(Add(k, m), j)
        BY <3>1, <1>2, BroadcastEntries
      <3>3. \A j \in Key : \A x : x \in Carries(Add(k, m), j) <=> j = k /\ x = m
        BY <1>2
      <3>4. \A a, b \in Server, j \in Key : \A x \in Sent(a, b, j) :
               x \in Entries(wire'[a][b], j) \/ (a = f /\ b = s /\ j = k /\ x = e)
        BY <3>2
      <3>5. \A a, b \in Server, j \in Key : \A x \in Entries(wire'[a][b], j) :
               x \in Sent(a, b, j) \/ (a = s /\ j = k /\ x = m)
        <4>1. SUFFICES ASSUME NEW a \in Server, NEW b \in Server, NEW j \in Key,
                              NEW x \in Entries(wire'[a][b], j)
                       PROVE  x \in Sent(a, b, j) \/ (a = s /\ j = k /\ x = m)
          OBVIOUS
        <4>2. x \in Entries(w[a][b], j) \/ (a = s /\ x \in Carries(Add(k, m), j))
          BY <3>2
        <4>3. QED
          BY <4>2, <3>3
      <3>6. \A b \in Server : <<s, b>> \in linked /\ b # f => m \in Entries(wire'[s][b], k)
        BY <3>2, <3>3
      <3>7. QED
        BY <3>4, <3>5, <3>6
    <2>2. CASE ~told
      BY <2>2, <1>4, <1>5
    <2>3. QED
      BY <2>1, <2>2
  <1>8. HelloFirst(wire', linked')
    <2>1. CASE told
      BY <2>1, <1>2, <1>4, BroadcastHello
    <2>2. CASE ~told
      BY <2>2, <1>4
    <2>3. QED
      BY <2>1, <2>2
  <1>9. ASSUME ~hist.removed PROVE Told' /\ Behind'
    <2>1. Told /\ Behind
      BY <1>9 DEF Agreement
    <2>2. MergeStep(s, f, k, e, m)
      BY <1>3, <1>5, <1>6, <1>7 DEF MergeStep
    <2>3. QED
      BY <2>1, <2>2, <1>1, MergedAgree
  <1>10. QED
    BY <1>3, <1>8, <1>9 DEF Agreement

\* cmd_tkl_del keeps it too: what it did not find it does not change, and after
\* a removal nothing is claimed.
LEMMA TklDelAgree ==
    ASSUME Shape, Shape', Agreement, NEW s \in Server, NEW f, NEW k \in Key,
           NEW w, Wired(w, linked), HelloFirst(w, linked),
           TklDel(s, f, w, k),
           \A a, b \in Server, j \in Key : Entries(w[a][b], j) = Sent(a, b, j),
           linked' = linked, now' = now
    PROVE  Agreement'
  <1>1. CASE tkl[s][k] = None
    <2>1. wire' = w /\ tkl' = tkl /\ hist' = hist
      BY <1>1 DEF TklDel
    <2>2. \A a, b \in Server, j \in Key : Entries(wire'[a][b], j) = Entries(wire[a][b], j)
      BY <2>1 DEF Sent
    <2>3. ASSUME Told PROVE Told'
      BY <2>1, <2>2, <2>3 DEF Told, ToldOn, Coming, Sent
    <2>4. ASSUME Behind PROVE Behind'
      BY <2>1, <2>2, <2>4 DEF Behind, BehindOn, Sent
    <2>5. QED
      BY <2>1, <2>3, <2>4 DEF Agreement
  <1>2. CASE tkl[s][k] # None
    <2>1. hist'.removed /\ wire' = Broadcast(w, s, f, Del(k))
      BY <1>2 DEF TklDel, Shape, History
    <2>2. Del(k) \in Message /\ Del(k) # Hello
      BY DEF Del, Message, Hello
    <2>3. HelloFirst(wire', linked')
      BY <2>1, <2>2, BroadcastHello
    <2>4. QED
      BY <2>1, <2>3 DEF Agreement
  <1>3. QED
    BY <1>1, <1>2

\* A step that changes neither entries nor messages, nor the clocks.
LEMMA SameAgree ==
    ASSUME Agreement, UNCHANGED <<tkl, wire, linked, now>>,
           hist'.expired = hist.expired, hist'.removed = hist.removed
    PROVE  Agreement'
  <1>1. HelloFirst(wire', linked')
    BY DEF Agreement
  <1>2. ASSUME Told PROVE Told'
    BY <1>2 DEF Told, ToldOn, Coming, Sent
  <1>3. ASSUME Behind PROVE Behind'
    BY <1>3 DEF Behind, BehindOn, Sent
  <1>4. QED
    BY <1>1, <1>2, <1>3 DEF Agreement

\* Links break, servers stop or start: what stays linked is as it was, and
\* nothing is under way where there is no link.
LEMMA CutAgree ==
    ASSUME Told, Behind, linked' \subseteq linked, now' = now, hist'.expired = hist.expired,
           \A a, b \in Server :
               IF <<a, b>> \in linked'
               THEN wire'[a][b] = wire[a][b] /\ tkl'[a] = tkl[a] /\ tkl'[b] = tkl[b]
               ELSE wire'[a][b] = <<>>
    PROVE  Told' /\ Behind'
  <1>1. ASSUME NEW a \in Server, NEW b \in Server, NEW k \in Key, NEW r \in Respect, <<a, b>> \in linked'
        PROVE  ToldOn(a, b, k, r)' /\ BehindOn(a, b, k, r)'
    <2>1. ToldOn(a, b, k, r) /\ BehindOn(a, b, k, r)
      BY <1>1 DEF Told, Behind
    <2>2. wire'[a][b] = wire[a][b] /\ tkl'[a][k] = tkl[a][k] /\ tkl'[b][k] = tkl[b][k]
      BY <1>1
    <2>3. QED
      BY <2>1, <2>2 DEF ToldOn, BehindOn, Coming, Sent
  <1>2. ASSUME NEW a \in Server, NEW b \in Server, NEW k \in Key, NEW r \in Respect, <<a, b>> \notin linked'
        PROVE  BehindOn(a, b, k, r)'
    <2>1. wire'[a][b] = <<>>
      BY <1>2
    <2>2. QED
      BY <2>1 DEF BehindOn, Sent, Entries
  <1>3. QED
    BY <1>1, <1>2 DEF Told, Behind

\* a0 sends all its entries to b0 and adds it to its links.
LEMMA LinkAgree ==
    ASSUME Shape, Told, Behind, NEW a0 \in Server, NEW b0 \in Server,
           linked' = linked \cup {<<a0, b0>>}, UNCHANGED <<tkl, now, hist>>,
           \A a, b \in Server, k \in Key :
               Entries(wire'[a][b], k) = IF a = a0 /\ b = b0 THEN {tkl[a0][k]} \ {None} ELSE Sent(a, b, k)
    PROVE  Told' /\ Behind'
  <1>1. ASSUME NEW a \in Server, NEW b \in Server, NEW k \in Key, NEW r \in Respect, a = a0 /\ b = b0
        PROVE  ToldOn(a, b, k, r)' /\ BehindOn(a, b, k, r)'
    <2>1. Entries(wire'[a][b], k) = {tkl[a][k]} \ {None}
      BY <1>1
    <2>2. tkl[a][k] \in Entry \cup {None}
      BY DEF Shape, History, TypeOK
    <2>3. tkl[a][k] # None => Covers(tkl[a][k], tkl[a][k], r)
      BY <2>2, CoversOrder
    <2>4. QED
      BY <2>1, <2>3 DEF ToldOn, BehindOn, Coming, Sent
  <1>2. ASSUME NEW a \in Server, NEW b \in Server, NEW k \in Key, NEW r \in Respect, ~(a = a0 /\ b = b0)
        PROVE  (<<a, b>> \in linked' => ToldOn(a, b, k, r)') /\ BehindOn(a, b, k, r)'
    <2>1. Entries(wire'[a][b], k) = Entries(wire[a][b], k)
      BY <1>2 DEF Sent
    <2>2. <<a, b>> \in linked' => <<a, b>> \in linked
      BY <1>2
    <2>3. (<<a, b>> \in linked => ToldOn(a, b, k, r)) /\ BehindOn(a, b, k, r)
      BY DEF Told, Behind
    <2>4. QED
      BY <2>1, <2>2, <2>3 DEF ToldOn, BehindOn, Coming, Sent
  <1>3. QED
    BY <1>1, <1>2 DEF Told, Behind

\* Entries cease to count, and those that do not count any more may go.
LEMMA FadeAgree ==
    ASSUME Shape, Told, Behind, UNCHANGED <<linked, wire>>, now' \in Nat,
           \A e \in Entry, r \in Respect :
               Counts(e, r, now', hist'.expired) => Counts(e, r, now, hist.expired),
           \A a \in Server, k \in Key :
               \/ tkl'[a][k] = tkl[a][k]
               \/ tkl'[a][k] = None
                  /\ \A r \in Respect : ~Counts(tkl[a][k], r, now', hist'.expired)
    PROVE  Told' /\ Behind'
  <1>1. \A a \in Server, k \in Key : tkl[a][k] \in Entry \cup {None}
    BY DEF Shape, History, TypeOK
  <1>2. ASSUME NEW a \in Server, NEW b \in Server, NEW k \in Key, NEW r \in Respect, <<a, b>> \in linked'
        PROVE  ToldOn(a, b, k, r)'
    <2>1. SUFFICES ASSUME tkl'[a][k] # None, Counts(tkl'[a][k], r, now', hist'.expired)
                   PROVE  \E x \in Coming(a, b, k)' : Covers(x, tkl'[a][k], r)
      BY DEF ToldOn
    <2>2. tkl'[a][k] = tkl[a][k] /\ tkl[a][k] \in Entry /\ tkl[a][k] # None
      BY <2>1, <1>1
    <2>3. ToldOn(a, b, k, r)
      BY <1>2 DEF Told
    <2>4. PICK x \in Coming(a, b, k) : Covers(x, tkl[a][k], r)
      BY <2>1, <2>2, <2>3 DEF ToldOn
    <2>5. x \in Entry
      BY <2>4, SentTypes
    <2>6. Counts(x, r, now', hist'.expired)
      BY <2>1, <2>2, <2>4, <2>5, CountsUp
    <2>7. x \in Coming(a, b, k)'
      BY <2>4, <2>6 DEF Coming, Sent
    <2>8. QED
      BY <2>2, <2>4, <2>7
  <1>3. ASSUME NEW a \in Server, NEW b \in Server, NEW k \in Key, NEW r \in Respect
        PROVE  BehindOn(a, b, k, r)'
    <2>1. SUFFICES ASSUME NEW e \in Sent(a, b, k), Counts(e, r, now', hist'.expired)
                   PROVE  tkl'[a][k] # None /\ Covers(tkl'[a][k], e, r)
      BY DEF BehindOn, Sent
    <2>2. e \in Entry /\ BehindOn(a, b, k, r)
      BY SentTypes DEF Behind
    <2>3. tkl[a][k] # None /\ Covers(tkl[a][k], e, r)
      BY <2>1, <2>2 DEF BehindOn
    <2>4. Counts(tkl[a][k], r, now', hist'.expired)
      BY <2>1, <2>2, <2>3, <1>1, CountsUp
    <2>5. QED
      BY <2>3, <2>4
  <1>4. QED
    BY <1>2, <1>3 DEF Told, Behind

\* What a server sends on a new link holds no introduction.
LEMMA SyncHello ==
    ASSUME Shape, NEW s \in Server
    PROVE  \A i \in DOMAIN Sync(s) : Sync(s)[i] # Hello
  BY SyncFacts DEF Add, Hello

\* The links in gone break, and only servers without a link lose entries.
LEMMA GoneAgree ==
    ASSUME Shape, Agreement, NEW gone, \A a, b \in Server : <<a, b>> \in gone => <<b, a>> \in gone,
           Cut(gone), UNCHANGED <<now, hist>>,
           \A a, b \in Server : <<a, b>> \in linked \ gone => tkl'[a] = tkl[a] /\ tkl'[b] = tkl[b]
    PROVE  Agreement'
  <1>1. /\ linked' = linked \ gone
        /\ \A a, b \in Server : wire'[a][b] = IF <<a, b>> \in gone THEN <<>> ELSE wire[a][b]
    BY CutShape
  <1>2. \A a, b \in Server : <<a, b>> \notin linked => wire[a][b] = <<>>
    BY DEF Shape, History, TypeOK
  <1>3. HelloFirst(wire', linked')
    <2>1. SUFFICES ASSUME NEW a \in Server, NEW b \in Server, NEW i \in DOMAIN wire'[a][b],
                          wire'[a][b][i] = Hello
                   PROVE  i = 1 /\ <<b, a>> \notin linked'
      BY DEF HelloFirst
    <2>2. wire'[a][b] = wire[a][b]
      <3>1. CASE <<a, b>> \in gone
        <4>1. wire'[a][b] = <<>>
          BY <3>1, <1>1
        <4>2. QED
          BY <4>1, <2>1
      <3>2. QED
        BY <3>1, <1>1
    <2>3. QED
      BY <1>1, <2>1, <2>2 DEF HelloFirst, Agreement
  <1>4. ASSUME Told, Behind PROVE Told' /\ Behind'
    <2>1. ASSUME NEW a \in Server, NEW b \in Server
          PROVE  IF <<a, b>> \in linked'
                 THEN wire'[a][b] = wire[a][b] /\ tkl'[a] = tkl[a] /\ tkl'[b] = tkl[b]
                 ELSE wire'[a][b] = <<>>
      BY <1>1, <1>2
    <2>2. QED
      BY <1>1, <1>4, <2>1, CutAgree
  <1>5. QED
    BY <1>3, <1>4 DEF Agreement

\* Every step keeps the agreement.
LEMMA AgreementStep ==
    ASSUME Shape, Shape', Agreement, [Next]_vars
    PROVE  Agreement'
  <1>1. ASSUME NEW s \in Server, NEW k \in Key, SetBan(s, k) \/ SetException(s, k)
        PROVE  Agreement'
    <2>1. PICK d \in Nat : Set(s, k, d)
      BY <1>1, BansAssumption DEF SetBan, SetException
    <2>2. Wired(wire, linked) /\ HelloFirst(wire, linked)
      BY DEF Shape, History, TypeOK, Wired, Wires, Agreement
    <2>3. PICK e \in Entry : TklAdd(s, s, wire, k, e)
      BY <2>1, SetEntry DEF Set
    <2>4. linked' = linked /\ now' = now
      BY <2>1 DEF Set
    <2>5. \A a, b \in Server, j \in Key : Entries(wire[a][b], j) = Sent(a, b, j)
      BY DEF Sent
    <2>6. QED
      BY <2>2, <2>3, <2>4, <2>5, TklAddAgree
  <1>2. ASSUME NEW s \in Server, NEW k \in Key, RemoveBan(s, k)
        PROVE  Agreement'
    <2>1. Wired(wire, linked) /\ HelloFirst(wire, linked)
      BY DEF Shape, History, TypeOK, Wired, Wires, Agreement
    <2>2. TklDel(s, s, wire, k) /\ linked' = linked /\ now' = now
      BY <1>2 DEF RemoveBan
    <2>3. \A a, b \in Server, j \in Key : Entries(wire[a][b], j) = Sent(a, b, j)
      BY DEF Sent
    <2>4. QED
      BY <2>1, <2>2, <2>3, TklDelAgree
  <1>3. ASSUME NEW s \in Server, NEW t \in Server, Recv(s, t)
        PROVE  Agreement'
    <2> DEFINE m == Head(wire[t][s])
    <2> DEFINE w == [wire EXCEPT ![t][s] = Tail(@)]
    <2>1. wire[t][s] # <<>> /\ now' = now
      BY <1>3 DEF Recv
    <2>2. m \in Message /\ <<t, s>> \in linked /\ Wired(w, linked)
      BY <2>1, TailWired
    <2>3. /\ HelloFirst(w, linked)
          /\ \A i \in DOMAIN w[t][s] : w[t][s][i] # Hello
          /\ \A a, b \in Server, j \in Key :
                Sent(a, b, j) = Entries(w[a][b], j)
                                \cup (IF a = t /\ b = s THEN Carries(m, j) ELSE {})
      BY <2>1, TailEntries DEF Agreement
    <2>4. s # t
      BY <2>2, EdgeEnds DEF Shape, History, TypeOK, Pairs
    <2>5. m = Hello => <<s, t>> \notin linked
      BY <2>1, 1 \in DOMAIN wire[t][s] DEF Agreement, HelloFirst, Shape, History, TypeOK
    <2> HIDE DEF m, w
    <2>6. CASE m.op = "SERVER"
      <3>1. /\ linked' = linked \cup {<<s, t>>} /\ wire' = [w EXCEPT ![s][t] = Sync(s)]
            /\ UNCHANGED <<tkl, hist>>
        BY <1>3, <2>6 DEF Recv, m, w
      <3>2. /\ wire'[s][t] = Sync(s)
            /\ \A a, b \in Server : ~(a = s /\ b = t) => wire'[a][b] = w[a][b]
        BY <2>2, <3>1 DEF Wired, Wires
      <3>3. \A j \in Key : Carries(m, j) = {} /\ Entries(Sync(s), j) = {tkl[s][j]} \ {None}
        BY <2>6, SyncEntries DEF Carries
      <3>4. \A i \in DOMAIN Sync(s) : Sync(s)[i] # Hello
        BY SyncHello
      <3>5. \A a, b \in Server, j \in Key :
               Entries(wire'[a][b], j) = IF a = s /\ b = t THEN {tkl[s][j]} \ {None} ELSE Sent(a, b, j)
        <4>1. ASSUME NEW a \in Server, NEW b \in Server, NEW j \in Key, ~(a = s /\ b = t)
              PROVE  Entries(wire'[a][b], j) = Sent(a, b, j)
          <5>1. Entries(wire'[a][b], j) = Entries(w[a][b], j)
            BY <3>2, <4>1
          <5>2. (IF a = t /\ b = s THEN Carries(m, j) ELSE {}) = {}
            BY <3>3
          <5>3. QED
            BY <5>1, <5>2, <2>3, SMTT(30)
        <4>2. QED
          BY <4>1, <3>2, <3>3
      <3>6. HelloFirst(wire', linked')
        <4>1. SUFFICES ASSUME NEW a \in Server, NEW b \in Server, NEW i \in DOMAIN wire'[a][b],
                              wire'[a][b][i] = Hello
                       PROVE  i = 1 /\ <<b, a>> \notin linked'
          BY DEF HelloFirst
        <4>2. ~(a = s /\ b = t) /\ wire'[a][b] = w[a][b]
          BY <4>1, <3>2, <3>4
        <4>3. ~(a = t /\ b = s)
          BY <4>1, <4>2, <2>3
        <4>4. QED
          BY <4>1, <4>2, <4>3, <2>3, <3>1 DEF HelloFirst
      <3>7. QED
        BY <2>1, <3>1, <3>5, <3>6, LinkAgree DEF Agreement
    <2>7. CASE m.op = "+"
      <3>1. TklAdd(s, t, w, m.key, m.entry) /\ linked' = linked
        BY <1>3, <2>7 DEF Recv, m, w
      <3>2. m.key \in Key /\ m.entry \in Entry
        BY <2>2, <2>7, MessageTypes
      <3>3. \A j \in Key : \A x : x \in Carries(m, j) <=> j = m.key /\ x = m.entry
        BY <2>7 DEF Carries
      <3>4. \A a, b \in Server, j \in Key : \A x \in Sent(a, b, j) :
               x \in Entries(w[a][b], j) \/ (a = t /\ b = s /\ j = m.key /\ x = m.entry)
        <4>1. SUFFICES ASSUME NEW a \in Server, NEW b \in Server, NEW j \in Key, NEW x \in Sent(a, b, j)
                       PROVE  x \in Entries(w[a][b], j) \/ (a = t /\ b = s /\ j = m.key /\ x = m.entry)
          OBVIOUS
        <4>2. x \in Entries(w[a][b], j) \/ (a = t /\ b = s /\ x \in Carries(m, j))
          BY <2>3
        <4>3. QED
          BY <4>2, <3>3
      <3>5. \A a, b \in Server, j \in Key : Entries(w[a][b], j) \subseteq Sent(a, b, j)
        BY <2>3
      <3>6. m.entry \in Sent(t, s, m.key)
        BY <2>3, <3>2, <3>3
      <3>7. QED
        BY <2>1, <2>2, <2>3, <3>1, <3>2, <3>4, <3>5, <3>6, TklAddAgree
    <2>8. CASE m.op = "-"
      <3>1. TklDel(s, t, w, m.key) /\ linked' = linked
        BY <1>3, <2>8 DEF Recv, m, w
      <3>2. m.key \in Key /\ \A j \in Key : Carries(m, j) = {}
        BY <2>2, <2>8, MessageTypes DEF Carries
      <3>3. \A a, b \in Server, j \in Key : Entries(w[a][b], j) = Sent(a, b, j)
        <4>1. ASSUME NEW a \in Server, NEW b \in Server, NEW j \in Key
              PROVE  Entries(w[a][b], j) = Sent(a, b, j)
          <5>1. (IF a = t /\ b = s THEN Carries(m, j) ELSE {}) = {}
            BY <3>2
          <5>2. Sent(a, b, j) = Entries(w[a][b], j)
                                \cup (IF a = t /\ b = s THEN Carries(m, j) ELSE {})
            BY <2>3
          <5>3. QED
            BY <5>1, <5>2
        <4>2. QED
          BY <4>1
      <3>4. QED
        BY <2>1, <2>2, <2>3, <3>1, <3>2, <3>3, TklDelAgree
    <2>9. QED
      BY <1>3, <2>6, <2>7, <2>8 DEF Recv, m
  <1>4. ASSUME NEW s \in Server, NEW t \in Server, Connect(s, t)
        PROVE  Agreement'
    <2> DEFINE q == <<Hello>> \o Sync(t)
    <2>1. /\ linked' = linked \cup {<<t, s>>}
          /\ wire' = [wire EXCEPT ![t][s] = q]
          /\ {s, t} \in Edge /\ <<s, t>> \notin linked /\ <<t, s>> \notin linked
          /\ UNCHANGED <<tkl, now, hist>>
      BY <1>4 DEF Connect
    <2>2. s # t
      BY <2>1, EdgeEnds
    <2>3. /\ wire'[t][s] = q
          /\ \A a, b \in Server : ~(a = t /\ b = s) => wire'[a][b] = wire[a][b]
      BY <2>1 DEF Shape, History, TypeOK
    <2>4. \A i \in DOMAIN q : q[i] = Hello => i = 1
      <3>1. Sync(t) \in Seq(Message) /\ <<Hello>> \in Seq(Message)
        BY SyncFacts DEF Message
      <3>2. /\ Len(<<Hello>>) = 1 /\ Len(q) = 1 + Len(Sync(t)) /\ q \in Seq(Message)
            /\ \A i \in 1..Len(q) : i > 1 => q[i] = Sync(t)[i - 1]
        BY <3>1, ConcatProperties
      <3>3. ASSUME NEW i \in DOMAIN q, q[i] = Hello, i # 1 PROVE FALSE
        <4>1. i - 1 \in DOMAIN Sync(t) /\ q[i] = Sync(t)[i - 1]
          BY <3>1, <3>2, <3>3
        <4>2. QED
          BY <4>1, <3>3, SyncHello
      <3>4. QED
        BY <3>3
    <2>5. wire[s][t] = <<>>
      BY <2>1 DEF Shape, History, TypeOK
    <2> HIDE DEF q
    <2>6. HelloFirst(wire', linked')
      <3>1. SUFFICES ASSUME NEW a \in Server, NEW b \in Server, NEW i \in DOMAIN wire'[a][b],
                            wire'[a][b][i] = Hello
                     PROVE  i = 1 /\ <<b, a>> \notin linked'
        BY DEF HelloFirst
      <3>2. CASE a = t /\ b = s
        BY <3>1, <3>2, <2>1, <2>2, <2>3, <2>4
      <3>3. CASE ~(a = t /\ b = s)
        <4>1. wire'[a][b] = wire[a][b] /\ ~(a = s /\ b = t)
          BY <3>1, <3>3, <2>2, <2>3, <2>5
        <4>2. QED
          BY <4>1, <3>1, <2>1 DEF Agreement, HelloFirst
      <3>4. QED
        BY <3>2, <3>3
    <2>7. \A a, b \in Server, k \in Key :
             Entries(wire'[a][b], k) = IF a = t /\ b = s THEN {tkl[t][k]} \ {None} ELSE Sent(a, b, k)
      <3>1. \A k \in Key : Entries(q, k) = {tkl[t][k]} \ {None}
        BY SyncEntries DEF q
      <3>2. ASSUME NEW a \in Server, NEW b \in Server, NEW k \in Key, ~(a = t /\ b = s)
            PROVE  Entries(wire'[a][b], k) = Sent(a, b, k)
        BY <3>2, <2>3 DEF Sent
      <3>3. QED
        BY <2>3, <3>1, <3>2
    <2>8. QED
      BY <2>1, <2>6, <2>7, LinkAgree DEF Agreement
  <1>5. ASSUME NEW s \in Server, NEW t \in Server, Break(s, t)
        PROVE  Agreement'
    <2> DEFINE gone == {<<s, t>>, <<t, s>>}
    <2>1. Cut(gone) /\ UNCHANGED <<tkl, now, hist>>
      BY <1>5 DEF Break
    <2>2. \A a, b \in Server : <<a, b>> \in gone => <<b, a>> \in gone
      OBVIOUS
    <2> HIDE DEF gone
    <2>3. QED
      BY <2>1, <2>2, GoneAgree
  <1>6. ASSUME NEW s \in Server, CheckExpire(s)
        PROVE  Agreement'
    <2>1. /\ tkl' = [tkl EXCEPT ![s] = [k \in Key |->
                       IF tkl[s][k] # None /\ Expired(tkl[s][k], Clock(s)) THEN None ELSE tkl[s][k]]]
          /\ UNCHANGED <<linked, wire, now>>
      BY <1>6 DEF CheckExpire
    <2>2. hist'.expired = TRUE /\ hist'.removed = hist.removed
      BY <1>6 DEF CheckExpire, Shape, History
    <2>3. \A e, r : Counts(e, r, now', hist'.expired) => Counts(e, r, now, hist.expired)
      BY <2>1, <2>2 DEF Counts
    <2>4. ASSUME NEW a \in Server, NEW k \in Key
          PROVE  \/ tkl'[a][k] = tkl[a][k]
                 \/ tkl'[a][k] = None
                    /\ \A r \in Respect : ~Counts(tkl[a][k], r, now', hist'.expired)
      <3>1. CASE a = s /\ tkl[s][k] # None /\ Expired(tkl[s][k], Clock(s))
        <4>1. tkl'[a][k] = None /\ Dead(tkl[a][k], now')
          BY <3>1, <2>1 DEF Dead, Clock, Shape, History, TypeOK
        <4>2. QED
          BY <4>1, <2>2 DEF Counts
      <3>2. CASE ~(a = s /\ tkl[s][k] # None /\ Expired(tkl[s][k], Clock(s)))
        BY <3>2, <2>1 DEF Shape, History, TypeOK
      <3>3. QED
        BY <3>1, <3>2
    <2>5. now' \in Nat
      BY <2>1 DEF Shape, History, TypeOK
    <2>6. QED
      BY <2>1, <2>2, <2>3, <2>4, <2>5, FadeAgree DEF Agreement
  <1>7. ASSUME NEW s \in Server, CheckPings(s) \/ Save(s) \/ Rehash(s) \/ Register(s)
        PROVE  Agreement'
    <2>1. UNCHANGED <<tkl, wire, linked, now>>
      BY <1>7 DEF CheckPings, Save, Rehash, Register
    <2>2. hist'.expired = hist.expired /\ hist'.removed = hist.removed
      <3>1. CASE CheckPings(s)
        BY <3>1 DEF CheckPings, Shape, History
      <3>2. CASE Save(s)
        BY <3>2 DEF Save, Shape, History
      <3>3. CASE Rehash(s) \/ Register(s)
        BY <3>3 DEF Rehash, Register, Shape, History
      <3>4. QED
        BY <1>7, <3>1, <3>2, <3>3
    <2>3. QED
      BY <2>1, <2>2, SameAgree
  <1>8. ASSUME NEW s \in Server, Stop(s) \/ Crash(s)
        PROVE  Agreement'
    <2> DEFINE gone == {p \in Pairs : s \in {p[1], p[2]}}
    <2>1. /\ Cut(gone)
          /\ tkl' = [tkl EXCEPT ![s] = [k \in Key |-> None]]
          /\ UNCHANGED <<now, hist>>
      BY <1>8 DEF Stop, Crash, Down
    <2>2. \A a, b \in Server : <<a, b>> \in gone => <<b, a>> \in gone
      <3>1. \A a, b \in Server : {a, b} = {b, a}
        OBVIOUS
      <3>2. QED
        BY <3>1 DEF Pairs
    <2>3. \A a, b \in Server : <<a, b>> \in linked \ gone => a # s /\ b # s
      BY DEF Shape, History, TypeOK
    <2> HIDE DEF gone
    <2>4. \A a \in Server : a # s => tkl'[a] = tkl[a]
      BY <2>1 DEF Shape, History, TypeOK
    <2>5. QED
      BY <2>1, <2>2, <2>3, <2>4, GoneAgree
  <1>9. ASSUME NEW s \in Server, Boot(s)
        PROVE  Agreement'
    <2>1. s \notin running /\ tkl' = [tkl EXCEPT ![s] = ReadTkldb(s)] /\ UNCHANGED <<linked, wire, now>>
      BY <1>9 DEF Boot
    <2>2. hist'.expired = hist.expired /\ hist'.removed = hist.removed
      BY <1>9 DEF Boot, Shape, History
    <2>3. \A a, b \in Server : <<a, b>> \in linked => a # s /\ b # s
      BY <2>1, SMTT(30) DEF Shape, History, TypeOK
    <2>4. \A a \in Server : a # s => tkl'[a] = tkl[a]
      BY <2>1 DEF Shape, History, TypeOK
    <2>5. \A a, b \in Server : <<a, b>> \notin linked => wire[a][b] = <<>>
      BY DEF Shape, History, TypeOK
    <2>6. QED
      BY <2>1, <2>2, <2>3, <2>4, <2>5, CutAgree DEF Agreement
  <1>10. ASSUME Tick
         PROVE  Agreement'
    <2>1. now' = now + 1 /\ UNCHANGED <<tkl, wire, linked, hist>> /\ now \in Nat
      BY <1>10 DEF Tick, Shape, History, TypeOK
    <2>2. ASSUME NEW e \in Entry, NEW r \in Respect, Counts(e, r, now', hist'.expired)
          PROVE  Counts(e, r, now, hist.expired)
      <3>1. \A a \in Server : Expired(e, now + Skew[a]) => Expired(e, now' + Skew[a])
        BY <2>1, EntryTypes, BansAssumption DEF Expired
      <3>2. QED
        BY <2>1, <2>2, <3>1 DEF Counts, Dead
    <2>3. now' \in Nat
      BY <2>1
    <2>4. QED
      BY <2>1, <2>2, <2>3, FadeAgree DEF Agreement
  <1>11. ASSUME UNCHANGED vars
         PROVE  Agreement'
    BY <1>11, SameAgree DEF vars
  <1>12. QED
    BY <1>1, <1>2, <1>3, <1>4, <1>5, <1>6, <1>7, <1>8, <1>9, <1>10, <1>11
       DEF Next

\* Agreement holds at all times: nothing is linked at first.
LEMMA AgreementAlways == Spec => [](Shape /\ Agreement)
  <1>1. Init => Agreement
    <2>1. ASSUME Init PROVE linked = {} /\ \A a, b \in Server : wire[a][b] = <<>>
      BY <2>1 DEF Init
    <2>2. QED
      BY <2>1 DEF Agreement, HelloFirst, Told, Behind, BehindOn, Sent, Entries
  <1>2. Shape /\ Agreement /\ [Next]_vars => (Shape /\ Agreement)'
    BY ShapeStep, AgreementStep
  <1>3. QED
    BY <1>1, <1>2, ShapeInit, PTL DEF Spec

\* Where a link has nothing under way, each end has, of every entry that counts
\* in some respect, one that covers it in that respect.
LEMMA QuietCovers ==
    ASSUME Shape, Agreement, ~hist.removed, NEW s \in Server, NEW t \in Server, Quiet(s, t),
           NEW k \in Key, NEW r \in Respect,
           tkl[s][k] # None, Counts(tkl[s][k], r, now, hist.expired)
    PROVE  tkl[t][k] # None /\ Covers(tkl[t][k], tkl[s][k], r)
  <1>1. ToldOn(s, t, k, r) /\ wire[s][t] = <<>>
    BY DEF Agreement, Told, Quiet
  <1>2. Sent(s, t, k) = {}
    BY <1>1 DEF Sent, Entries
  <1>3. QED
    BY <1>1, <1>2 DEF ToldOn, Coming

\* Servers agree on their bans (BansAgree): where no ban was removed and a link
\* has nothing under way, both ends have the same bans in force, and to the same
\* end; in every field, if no ban has expired.  This is for any tree of servers,
\* any skew of their clocks, any number of splits, crashes and restarts.
THEOREM BansAgreed == Spec => []BansAgree
  <1>1. ASSUME Shape, Agreement PROVE BansAgree
    <2>1. SUFFICES ASSUME NEW s \in Server, NEW t \in Server, Quiet(s, t), ~hist.removed, NEW k \in Key
                   PROVE  LET x == Live(tkl[s][k])
                              y == Live(tkl[t][k])
                          IN  /\ (x = None) <=> (y = None)
                              /\ x # None /\ y # None => x.expire_at = y.expire_at
                              /\ ~hist.expired => x = y
      BY DEF BansAgree
    <2> DEFINE x == tkl[s][k]
    <2> DEFINE y == tkl[t][k]
    <2>2. x \in Entry \cup {None} /\ y \in Entry \cup {None} /\ None \notin Entry /\ now \in Nat
      <3>1. now \in Nat /\ tkl \in [Server -> [Key -> Entry \cup {None}]]
        BY <1>1 DEF Shape, History, TypeOK
      <3>2. None \notin Entry
        BY BansAssumption
      <3>3. QED
        BY <3>1, <3>2
    <2>3. Quiet(t, s)
      BY <2>1 DEF Quiet
    <2>4. /\ \A r \in Respect : x # None /\ Counts(x, r, now, hist.expired) => y # None /\ Covers(y, x, r)
          /\ \A r \in Respect : y # None /\ Counts(y, r, now, hist.expired) => x # None /\ Covers(x, y, r)
      BY <1>1, <2>1, <2>3, QuietCovers
    <2>5. \A e : Live(e) = IF e = None \/ Dead(e, now) THEN None ELSE e
      BY DEF Live, Dead, Clock
    <2>6. \A e : Counts(e, "end", now, hist.expired) <=> ~Dead(e, now)
      BY DEF Counts
    <2>7. \A r \in Respect : \A e : ~Dead(e, now) /\ ~hist.expired => Counts(e, r, now, hist.expired)
      BY DEF Counts
    <2> HIDE DEF x, y
    <2>8. ASSUME x # None, ~Dead(x, now)
          PROVE  y # None /\ ~Dead(y, now) /\ Covers(y, x, "end") /\ Covers(x, y, "end")
      <3>1. y # None /\ Covers(y, x, "end") /\ "end" \in Respect
        BY <2>4, <2>6, <2>8 DEF Respect
      <3>2. Counts(y, "end", now, hist.expired)
        BY <3>1, <2>2, <2>6, <2>8, CountsUp
      <3>3. QED
        BY <3>1, <3>2, <2>4, <2>6
    <2>9. ASSUME y # None, ~Dead(y, now)
          PROVE  x # None /\ ~Dead(x, now)
      <3>1. x # None /\ Covers(x, y, "end") /\ "end" \in Respect
        BY <2>4, <2>6, <2>9 DEF Respect
      <3>2. Counts(x, "end", now, hist.expired)
        BY <3>1, <2>2, <2>6, <2>9, CountsUp
      <3>3. QED
        BY <3>1, <3>2, <2>6
    <2>10. CASE x # None /\ ~Dead(x, now)
      <3>1. Live(x) = x /\ Live(y) = y /\ x # None /\ y # None /\ x \in Entry /\ y \in Entry
        BY <2>2, <2>5, <2>8, <2>10
      <3>2. x.expire_at = y.expire_at
        BY <2>8, <2>10, <3>1, CoversOrder
      <3>3. ~hist.expired => x = y
        BY <2>4, <2>7, <2>8, <2>10, <3>1, CoversOrder
      <3>4. QED
        BY <3>1, <3>2, <3>3 DEF x, y
    <2>11. CASE ~(x # None /\ ~Dead(x, now))
      <3>1. Live(x) = None /\ Live(y) = None
        BY <2>5, <2>9, <2>11
      <3>2. QED
        BY <3>1 DEF x, y
    <2>12. QED
      BY <2>10, <2>11
  <1>2. QED
    BY <1>1, AgreementAlways, PTL
=============================================================================
