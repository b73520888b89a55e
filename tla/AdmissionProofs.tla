--------------------------- MODULE AdmissionProofs ---------------------------
(***************************************************************************)
(* The counters of module Admission are exact for any set of clients, IPs, *)
(* classes and limits: class->clients unless blocked clients try again,    *)
(* the tables of maxperip and connthrottle unless a REHASH finds a client  *)
(* held in its handshake, irccounts always.                                *)
(*                                                                         *)
(* Shape, an invariant by itself, says what the flags of a client imply;   *)
(* the counters are then proved exact one table at a time.                 *)
(***************************************************************************)
EXTENDS Admission, FiniteSetTheorems, TLAPS

\* Types (counters as integers), and what the state of a client implies: one
\* that is not connected is counted nowhere, a user is counted by its IP.
Shape ==
    /\ status \in [Client -> {"none", "unknown", "user"}]
    /\ known \in [Client -> BOOLEAN]
    /\ class \in [Client -> Class \cup {None}]
    /\ bumped \in SUBSET Client
    /\ category \in [Client -> Category \cup {"none"}]
    /\ clients \in [Class -> Int]
    /\ ipusers \in [Ip -> [local : Int, global : Int]]
    /\ ct \in [Prefix -> [Category -> Int]]
    /\ irccounts \in [unknown : Int, clients : Int, me_clients : Int]
    /\ \A c \in Client :
          /\ status[c] = "none" => class[c] = None /\ category[c] = "none" /\ c \notin bumped
          /\ status[c] = "user" => c \in bumped
          /\ category[c] # "none" => PrefixFor(c) \in Prefix

-----------------------------------------------------------------------------
(* Types of the operators *)

\* A set of clients is finite: what the cardinalities below rest on.
LEMMA ClientsFinite == IsFiniteSet(Client) /\ \A S \in SUBSET Client : IsFiniteSet(S)
  <1>1. IsFiniteSet(Client)
    BY ConstantsAssumption, FS_Union DEF Client
  <1>2. QED
    BY <1>1, FS_Subset

\* maxperip's counting and uncounting keep the table a table of integers.
LEMMA IpTypes ==
    ASSUME Shape, NEW c \in Client
    PROVE  /\ IpOf[c] \in Ip
           /\ IpBump(c) \in [Ip -> [local : Int, global : Int]]
           /\ \A t \in [Ip -> [local : Int, global : Int]], S \in SUBSET Client :
                 IpDrop(t, S, c) \in [Ip -> [local : Int, global : Int]]
  <1>1. IpOf[c] \in Ip
    BY ConstantsAssumption
  <1>2. \A b \in [local : Int, global : Int] :
           IpPlus(b, c) \in [local : Int, global : Int] /\ IpMinus(b, c) \in [local : Int, global : Int]
    BY DEF IpPlus, IpMinus
  <1>3. QED
    BY <1>1, <1>2 DEF Shape, IpBump, IpDrop

\* Categories: only clients with a prefix have one.
LEMMA CategoryTypes ==
    ASSUME Shape, NEW c \in Client, NEW k \in BOOLEAN
    PROVE  /\ PrefixFor(c) \in Prefix \cup {None}
           /\ Classify(c, k) \in Category \cup {"none"}
           /\ Classify(c, k) # "none" <=> PrefixFor(c) \in Prefix
           /\ Recategorise(c, k) \in Category \cup {"none"}
           /\ Recategorise(c, k) # "none" <=> category[c] # "none"
           /\ NewCategory(c, k) \in Category \cup {"none"}
           /\ NewCategory(c, k) # "none" => PrefixFor(c) \in Prefix
  <1>1. PrefixFor(c) \in Prefix \cup {None} /\ None \notin Prefix
    BY ConstantsAssumption DEF PrefixFor
  <1>2. /\ Classify(c, k) \in Category \cup {"none"}
        /\ Classify(c, k) # "none" <=> PrefixFor(c) \in Prefix
    BY <1>1 DEF Classify, Category
  <1>3. /\ category[c] \in Category \cup {"none"}
        /\ category[c] # "none" => PrefixFor(c) \in Prefix
    BY DEF Shape
  <1>4. QED
    BY <1>1, <1>2, <1>3 DEF Recategorise, NewCategory

\* connthrottle's counting and uncounting keep the table a table of integers.
LEMMA CtTypes ==
    ASSUME Shape, NEW c \in Client, NEW k \in BOOLEAN
    PROVE  /\ CtMove(c, k) \in [Prefix -> [Category -> Int]]
           /\ CtCount(c, k) \in [Prefix -> [Category -> Int]]
           /\ \A t \in [Prefix -> [Category -> Int]] :
                 /\ CtMinus(t, c, Recategorise(c, k)) \in [Prefix -> [Category -> Int]]
                 /\ CtMinus(t, c, NewCategory(c, k)) \in [Prefix -> [Category -> Int]]
                 /\ CtMinus(t, c, category[c]) \in [Prefix -> [Category -> Int]]
  <1>1. ct \in [Prefix -> [Category -> Int]] /\ category[c] \in Category \cup {"none"}
        /\ (category[c] # "none" => PrefixFor(c) \in Prefix)
    BY DEF Shape
  <1>2. /\ Classify(c, k) \in Category \cup {"none"}
        /\ Classify(c, k) # "none" <=> PrefixFor(c) \in Prefix
        /\ Recategorise(c, k) \in Category \cup {"none"}
        /\ Recategorise(c, k) # "none" <=> category[c] # "none"
        /\ NewCategory(c, k) \in Category \cup {"none"}
        /\ NewCategory(c, k) # "none" => PrefixFor(c) \in Prefix
    BY CategoryTypes
  <1>3. CtMove(c, k) \in [Prefix -> [Category -> Int]]
    <2>1. CASE Recategorise(c, k) = category[c] \/ ct[PrefixFor(c)] = NoneCounted
      BY <2>1, <1>1 DEF CtMove
    <2>2. CASE ~(Recategorise(c, k) = category[c] \/ ct[PrefixFor(c)] = NoneCounted)
      <3>1. category[c] # "none"
        BY <2>2, <1>2
      <3>2. QED
        BY <2>2, <3>1, <1>1, <1>2 DEF CtMove
    <2>3. QED
      BY <2>1, <2>2
  <1>4. \A t \in [Prefix -> [Category -> Int]], cat \in Category \cup {"none"} :
           (cat # "none" => PrefixFor(c) \in Prefix) =>
              CtMinus(t, c, cat) \in [Prefix -> [Category -> Int]]
              /\ CtPlus(t, c, cat) \in [Prefix -> [Category -> Int]]
    BY DEF CtMinus, CtPlus
  <1>5. QED
    BY <1>1, <1>2, <1>3, <1>4 DEF CtCount

-----------------------------------------------------------------------------
(* Shape is invariant *)

\* An exit, whatever was counted before, leaves a client that counts nowhere.
LEMMA LeavesShape ==
    ASSUME Shape, NEW c \in Client, NEW k \in Class \cup {None}, NEW cat, NEW S \in SUBSET Client,
           NEW classes \in [Class -> Int],
           NEW ips \in [Ip -> [local : Int, global : Int]],
           NEW prefixes,
           CtMinus(prefixes, c, cat) \in [Prefix -> [Category -> Int]],
           Leaves(c, k, cat, S, classes, ips, prefixes)
    PROVE  Shape'
  <1>1. clients' \in [Class -> Int]
    BY DEF Leaves, ClassMinus
  <1>2. ipusers' \in [Ip -> [local : Int, global : Int]]
    BY IpTypes DEF Leaves
  <1>3. ct' \in [Prefix -> [Category -> Int]]
    BY DEF Leaves
  <1>4. irccounts' \in [unknown : Int, clients : Int, me_clients : Int]
    BY DEF Leaves, CountsAfterExit, Tally, Shape
  <1>5. /\ status' = [status EXCEPT ![c] = "none"] /\ known' = [known EXCEPT ![c] = FALSE]
        /\ class' = [class EXCEPT ![c] = None] /\ category' = [category EXCEPT ![c] = "none"]
        /\ bumped' = bumped \ {c}
    BY DEF Leaves
  <1>6. QED
    BY <1>1, <1>2, <1>3, <1>4, <1>5 DEF Shape, PrefixFor

\* What AllowClient and the remote hooks count keeps the types.
LEMMA CountedShape ==
    ASSUME Shape, NEW c \in Client, NEW k \in BOOLEAN, Counted(c, k)
    PROVE  /\ bumped' = bumped \cup {c} /\ bumped' \in SUBSET Client
           /\ ipusers' \in [Ip -> [local : Int, global : Int]]
           /\ ct' \in [Prefix -> [Category -> Int]]
           /\ category' \in [Client -> Category \cup {"none"}]
           /\ \A d \in Client : category'[d] # "none" => PrefixFor(d)' \in Prefix
           /\ \A d \in Client \ {c} : category'[d] = category[d]
  <1>1. category' = [category EXCEPT ![c] = NewCategory(c, k)]
    BY DEF Counted
  <1>2. NewCategory(c, k) \in Category \cup {"none"} /\ (NewCategory(c, k) # "none" => PrefixFor(c) \in Prefix)
    BY CategoryTypes
  <1>3. /\ category' \in [Client -> Category \cup {"none"}]
        /\ \A d \in Client : category'[d] # "none" => PrefixFor(d)' \in Prefix
        /\ \A d \in Client \ {c} : category'[d] = category[d]
    BY <1>1, <1>2 DEF Shape, PrefixFor
  <1>4. /\ ipusers' \in [Ip -> [local : Int, global : Int]]
        /\ ct' \in [Prefix -> [Category -> Int]]
    BY IpTypes, CtTypes DEF Counted
  <1>5. bumped' = bumped \cup {c} /\ bumped' \in SUBSET Client
    BY DEF Counted, Shape
  <1>6. QED
    BY <1>3, <1>4, <1>5

\* Every step of the specification preserves Shape.
LEMMA ShapeInductive == Shape /\ [Next]_vars => Shape'
  <1> SUFFICES ASSUME Shape, [Next]_vars PROVE Shape'
    OBVIOUS
  <1>0. AllowClass \in Class /\ OperClass \in Class /\ ClassPlus(clients, AllowClass) \in [Class -> Int]
    BY ConstantsAssumption DEF Shape, ClassPlus
  <1>1. ASSUME NEW c \in Client, Accept(c) PROVE Shape'
    BY <1>1 DEF Accept, Tally, Shape, PrefixFor
  <1>2. ASSUME NEW c \in Client, RejectPerIp(c) PROVE Shape'
    <2>1. PICK k \in BOOLEAN : Leaves(c, class[c], Recategorise(c, k), bumped \cup {c}, clients,
                                      IpBump(c), CtMove(c, k))
      BY <1>2 DEF RejectPerIp
    <2>2. /\ IpBump(c) \in [Ip -> [local : Int, global : Int]]
          /\ CtMinus(CtMove(c, k), c, Recategorise(c, k)) \in [Prefix -> [Category -> Int]]
      BY IpTypes, CtTypes
    <2>3. class[c] \in Class \cup {None} /\ bumped \cup {c} \in SUBSET Client /\ clients \in [Class -> Int]
      BY DEF Shape
    <2>4. QED
      BY <2>1, <2>2, <2>3, LeavesShape
  <1>3. ASSUME NEW c \in Client, RejectLater(c) PROVE Shape'
    <2>1. PICK k \in BOOLEAN : Leaves(c, class[c], NewCategory(c, k), bumped \cup {c}, clients,
                                      IpBump(c), CtCount(c, k))
      BY <1>3 DEF RejectLater
    <2>2. /\ IpBump(c) \in [Ip -> [local : Int, global : Int]]
          /\ CtMinus(CtCount(c, k), c, NewCategory(c, k)) \in [Prefix -> [Category -> Int]]
      BY IpTypes, CtTypes
    <2>3. class[c] \in Class \cup {None} /\ bumped \cup {c} \in SUBSET Client /\ clients \in [Class -> Int]
      BY DEF Shape
    <2>4. QED
      BY <2>1, <2>2, <2>3, LeavesShape
  <1>4. ASSUME NEW c \in Client, RejectAfter(c) PROVE Shape'
    <2>1. PICK k \in BOOLEAN : Leaves(c, AllowClass, NewCategory(c, k), bumped \cup {c},
                                      ClassPlus(clients, AllowClass), IpBump(c), CtCount(c, k))
      BY <1>4 DEF RejectAfter
    <2>2. /\ IpBump(c) \in [Ip -> [local : Int, global : Int]]
          /\ CtMinus(CtCount(c, k), c, NewCategory(c, k)) \in [Prefix -> [Category -> Int]]
      BY IpTypes, CtTypes
    <2>3. AllowClass \in Class \cup {None} /\ bumped \cup {c} \in SUBSET Client
      BY <1>0 DEF Shape
    <2>4. QED
      BY <2>1, <2>2, <2>3, <1>0, LeavesShape
  <1>5. ASSUME NEW c \in Client, Hold(c) \/ Block(c) PROVE Shape'
    <2>1. PICK k \in BOOLEAN : Counted(c, k) /\ known' = [known EXCEPT ![c] = k]
      BY <1>5 DEF Hold, Block
    <2>2. /\ status[c] = "unknown" /\ status' = status /\ irccounts' = irccounts
          /\ \E j \in Class \cup {None} : class' = [class EXCEPT ![c] = j]
      BY <1>5, <1>0 DEF Hold, Block, Allowed, Attempts
    <2>3. clients' \in [Class -> Int]
      BY <1>5, <1>0 DEF Hold, Block, ClassMinus, Shape
    <2>4. QED
      BY <2>1, <2>2, <2>3, CountedShape DEF Shape
  <1>6. ASSUME NEW c \in Client, Welcome(c) PROVE Shape'
    <2>1. PICK k \in BOOLEAN : Counted(c, k) /\ known' = [known EXCEPT ![c] = k]
      BY <1>6 DEF Welcome
    <2>2. /\ status' = [status EXCEPT ![c] = "user"]
          /\ class' = [class EXCEPT ![c] = AllowClass]
          /\ clients' \in [Class -> Int]
          /\ irccounts' \in [unknown : Int, clients : Int, me_clients : Int]
      BY <1>6, <1>0 DEF Welcome, Tally, Shape
    <2>3. QED
      BY <2>1, <2>2, <1>0, CountedShape DEF Shape
  <1>7. ASSUME NEW c \in Client, MakeOper(c) PROVE Shape'
    <2>1. clients' \in [Class -> Int]
      BY <1>7, <1>0 DEF MakeOper, ClassPlus, ClassMinus, Shape
    <2>2. QED
      BY <1>7, <2>1, <1>0 DEF MakeOper, Shape, PrefixFor
  <1>8. ASSUME NEW c \in Client, RemoteConnect(c) PROVE Shape'
    <2>1. PICK k \in BOOLEAN : Counted(c, k) /\ known' = [known EXCEPT ![c] = k]
      BY <1>8 DEF RemoteConnect
    <2>2. /\ status' = [status EXCEPT ![c] = "user"]
          /\ class' = class /\ clients' = clients
          /\ irccounts' \in [unknown : Int, clients : Int, me_clients : Int]
      BY <1>8 DEF RemoteConnect, Tally, Shape
    <2>3. QED
      BY <2>1, <2>2, CountedShape DEF Shape
  <1>9. ASSUME NEW c \in Client, KnownChange(c) PROVE Shape'
    <2>1. (~known[c]) \in BOOLEAN
      BY DEF Shape
    <2>2. /\ ct' \in [Prefix -> [Category -> Int]]
          /\ Recategorise(c, ~known[c]) \in Category \cup {"none"}
          /\ Recategorise(c, ~known[c]) # "none" <=> category[c] # "none"
      BY <1>9, <2>1, CtTypes, CategoryTypes DEF KnownChange
    <2>3. /\ category' = [category EXCEPT ![c] = Recategorise(c, ~known[c])]
          /\ known' = [known EXCEPT ![c] = ~@] /\ known' \in [Client -> BOOLEAN]
          /\ UNCHANGED <<status, class, bumped, clients, ipusers, irccounts>>
      BY <1>9 DEF KnownChange, Shape
    <2>4. QED
      BY <2>2, <2>3 DEF Shape, PrefixFor
  <1>10. ASSUME NEW c \in Client, Exit(c) PROVE Shape'
    <2>1. Leaves(c, class[c], category[c], bumped, clients, ipusers, ct)
      BY <1>10 DEF Exit
    <2>2. TRUE \in BOOLEAN
      OBVIOUS
    <2>3. CtMinus(ct, c, category[c]) \in [Prefix -> [Category -> Int]]
      BY <2>2, CtTypes DEF Shape
    <2>4. class[c] \in Class \cup {None} /\ bumped \in SUBSET Client /\ clients \in [Class -> Int]
          /\ ipusers \in [Ip -> [local : Int, global : Int]]
      BY DEF Shape
    <2>5. QED
      BY <2>1, <2>3, <2>4, LeavesShape
  <1>11. CASE Rehash
    <2>1. \A S \in SUBSET Client : Walked(S) \in Int
      <3> SUFFICES ASSUME NEW S \in SUBSET Client PROVE Walked(S) \in Int
        OBVIOUS
      <3>1. IsFiniteSet(S) /\ IsFiniteSet({c \in S : status[c] = "unknown"})
        BY ClientsFinite
      <3>2. QED
        BY <3>1, FS_CardinalityType DEF Walked
    <2>2. ipusers' \in [Ip -> [local : Int, global : Int]]
      <3>1. \A i \in Ip : {c \in bumped : IpOf[c] = i} \in SUBSET Client
                          /\ {c \in bumped : IpOf[c] = i} \cap LocalClient \in SUBSET Client
        BY DEF Shape
      <3>2. QED
        BY <1>11, <2>1, <3>1 DEF Rehash
    <2>3. ct' \in [Prefix -> [Category -> Int]]
      <3>1. \A r \in Prefix, cat \in Category :
               Cardinality({c \in Users : PrefixFor(c) = r /\ Classify(c, known[c]) = cat}) \in Int
        BY ClientsFinite, FS_CardinalityType DEF Users
      <3>2. QED
        BY <1>11, <3>1 DEF Rehash
    <2>4. \A c \in Client : /\ Classify(c, known[c]) \in Category \cup {"none"}
                            /\ Classify(c, known[c]) # "none" <=> PrefixFor(c) \in Prefix
      BY CategoryTypes DEF Shape
    <2>5. /\ category' = [c \in Client |-> IF c \in Users THEN Classify(c, known[c]) ELSE category[c]]
          /\ UNCHANGED <<status, known, class, bumped, clients, irccounts>>
      BY <1>11 DEF Rehash
    <2>6. QED
      BY <2>2, <2>3, <2>4, <2>5 DEF Shape, PrefixFor, Users
  <1>12. CASE UNCHANGED vars
    BY <1>12 DEF vars, Shape, PrefixFor
  <1>13. QED
    BY <1>1, <1>2, <1>3, <1>4, <1>5, <1>6, <1>7, <1>8, <1>9, <1>10, <1>11, <1>12
    DEF Next, RegisterUser

\* The first state, with nobody connected, has the shape.
LEMMA ShapeInit == Init => Shape
  BY DEF Init, Shape, NoUsers, NoneCounted

\* The shape of the state is invariant.
THEOREM ShapeHolds == Spec => []Shape
  BY ShapeInit, ShapeInductive, PTL DEF Spec

-----------------------------------------------------------------------------
(* How a count changes when one client enters or leaves a set *)

Bit(b) == IF b THEN 1 ELSE 0

\* Two sets that differ by c at most: their sizes differ by its membership.
LEMMA MemberMove ==
    ASSUME NEW S, NEW T, NEW c, IsFiniteSet(S), S \ {c} = T \ {c}
    PROVE  /\ IsFiniteSet(T) /\ Cardinality(S) \in Nat /\ Cardinality(T) \in Nat
           /\ Cardinality(T) = Cardinality(S) + Bit(c \in T) - Bit(c \in S)
           /\ c \in S => Cardinality(S) >= 1
  <1> DEFINE B == S \ {c}
  <1>1. IsFiniteSet(B) /\ Cardinality(B) = IF c \in S THEN Cardinality(S) - 1 ELSE Cardinality(S)
    BY FS_RemoveElement
  <1>2. Cardinality(B) \in Nat /\ Cardinality(S) \in Nat
    BY <1>1, FS_CardinalityType
  <1>3. IsFiniteSet(T) /\ Cardinality(T) = Cardinality(B) + Bit(c \in T)
    <2>1. CASE c \in T
      <3>1. T = B \cup {c} /\ c \notin B
        BY <2>1
      <3>2. QED
        BY <3>1, <2>1, <1>1, <1>2, FS_AddElement DEF Bit
    <2>2. CASE c \notin T
      <3>1. T = B
        BY <2>2
      <3>2. QED
        BY <3>1, <2>2, <1>1, <1>2 DEF Bit
    <2>3. QED
      BY <2>1, <2>2
  <1>4. Cardinality(T) \in Nat
    BY <1>3, FS_CardinalityType
  <1>5. QED
    BY <1>1, <1>2, <1>3, <1>4 DEF Bit

-----------------------------------------------------------------------------
(* irccounts *)

\* One client changes its status and irccounts follows: exact before and after.
LEMMA StatusMove ==
    ASSUME Shape, CountsExact, NEW c \in Client, NEW x \in {"none", "unknown", "user"},
           status' = [status EXCEPT ![c] = x],
           irccounts' = Tally(Bit(x = "unknown") - Bit(status[c] = "unknown"),
                              Bit(x = "user") - Bit(status[c] = "user"),
                              Bit(x = "user" /\ c \in LocalClient)
                                  - Bit(status[c] = "user" /\ c \in LocalClient))
    PROVE  CountsExact'
  <1>1. /\ IsFiniteSet(Unknowns) /\ IsFiniteSet(Users) /\ IsFiniteSet(Users \cap LocalClient)
    BY ClientsFinite DEF Unknowns, Users
  <1>2. status \in [Client -> {"none", "unknown", "user"}]
    BY DEF Shape
  <1>3. /\ Unknowns \ {c} = Unknowns' \ {c}
        /\ c \in Unknowns' <=> x = "unknown"
        /\ c \in Unknowns <=> status[c] = "unknown"
    BY <1>2 DEF Unknowns
  <1>4. /\ Users \ {c} = Users' \ {c}
        /\ c \in Users' <=> x = "user"
        /\ c \in Users <=> status[c] = "user"
    BY <1>2 DEF Users
  <1>5. /\ (Users \cap LocalClient) \ {c} = (Users \cap LocalClient)' \ {c}
        /\ c \in (Users \cap LocalClient)' <=> (x = "user" /\ c \in LocalClient)
        /\ c \in (Users \cap LocalClient) <=> (status[c] = "user" /\ c \in LocalClient)
    BY <1>4
  <1>6. /\ Cardinality(Unknowns') = Cardinality(Unknowns) + Bit(x = "unknown") - Bit(status[c] = "unknown")
        /\ Cardinality(Unknowns) \in Nat
    <2>1. /\ Cardinality(Unknowns') = Cardinality(Unknowns) + Bit(c \in Unknowns') - Bit(c \in Unknowns)
          /\ Cardinality(Unknowns) \in Nat
      BY <1>1, <1>3, MemberMove
    <2>2. QED
      BY <2>1, <1>3 DEF Bit
  <1>7. /\ Cardinality(Users') = Cardinality(Users) + Bit(x = "user") - Bit(status[c] = "user")
        /\ Cardinality(Users) \in Nat
    <2>1. /\ Cardinality(Users') = Cardinality(Users) + Bit(c \in Users') - Bit(c \in Users)
          /\ Cardinality(Users) \in Nat
      BY <1>1, <1>4, MemberMove
    <2>2. QED
      BY <2>1, <1>4 DEF Bit
  <1>8. /\ Cardinality((Users \cap LocalClient)') = Cardinality(Users \cap LocalClient)
              + Bit(x = "user" /\ c \in LocalClient) - Bit(status[c] = "user" /\ c \in LocalClient)
        /\ Cardinality(Users \cap LocalClient) \in Nat
    <2> DEFINE A == Users \cap LocalClient
    <2>1. /\ Cardinality(A') = Cardinality(A) + Bit(c \in A') - Bit(c \in A)
          /\ Cardinality(A) \in Nat
      <3> HIDE DEF A
      <3>1. IsFiniteSet(A) /\ A \ {c} = A' \ {c}
        BY <1>1, <1>5 DEF A
      <3>2. QED
        BY <3>1, MemberMove
    <2>2. QED
      BY <2>1, <1>5 DEF Bit
  <1>9. QED
    BY <1>6, <1>7, <1>8 DEF CountsExact, Tally, Bit

\* Every step keeps irccounts exact.
LEMMA CountsInductive == Shape /\ CountsExact /\ [Next]_vars => CountsExact'
  <1> SUFFICES ASSUME Shape, CountsExact, [Next]_vars PROVE CountsExact'
    OBVIOUS
  <1>0. irccounts \in [unknown : Int, clients : Int, me_clients : Int]
    BY DEF Shape
  <1>1. ASSUME NEW c \in Client, Accept(c) PROVE CountsExact'
    <2>1. status' = [status EXCEPT ![c] = "unknown"] /\ status[c] = "none"
      BY <1>1 DEF Accept
    <2>2. irccounts' = Tally(Bit("unknown" = "unknown") - Bit(status[c] = "unknown"),
                             Bit("unknown" = "user") - Bit(status[c] = "user"),
                             Bit("unknown" = "user" /\ c \in LocalClient)
                                 - Bit(status[c] = "user" /\ c \in LocalClient))
      BY <1>1, <1>0, <2>1 DEF Accept, Tally, Bit
    <2>3. QED
      BY <2>1, <2>2, StatusMove
  <1>2. ASSUME NEW c \in Client, status[c] \in {"unknown", "user"},
               status' = [status EXCEPT ![c] = "none"], irccounts' = CountsAfterExit(c)
        PROVE  CountsExact'
    <2>1. irccounts' = Tally(Bit("none" = "unknown") - Bit(status[c] = "unknown"),
                             Bit("none" = "user") - Bit(status[c] = "user"),
                             Bit("none" = "user" /\ c \in LocalClient)
                                 - Bit(status[c] = "user" /\ c \in LocalClient))
      BY <1>2, <1>0 DEF CountsAfterExit, Tally, Bit
    <2>2. QED
      BY <2>1, <1>2, StatusMove
  <1>3. ASSUME NEW c \in Client, RejectPerIp(c) \/ RejectLater(c) \/ RejectAfter(c) \/ Exit(c)
        PROVE  CountsExact'
    <2>1. /\ status' = [status EXCEPT ![c] = "none"] /\ irccounts' = CountsAfterExit(c)
          /\ status[c] # "none"
      BY <1>3 DEF RejectPerIp, RejectLater, RejectAfter, Exit, Leaves, Allowed, Attempts
    <2>2. status[c] \in {"unknown", "user"}
      BY <2>1 DEF Shape
    <2>3. QED
      BY <1>2, <2>1, <2>2
  <1>4. ASSUME NEW c \in Client, Welcome(c) PROVE CountsExact'
    <2>1. c \in LocalClient /\ status[c] = "unknown" /\ status' = [status EXCEPT ![c] = "user"]
          /\ irccounts' = Tally(-1, 1, 1)
      BY <1>4 DEF Welcome, Allowed, Attempts
    <2>2. irccounts' = Tally(Bit("user" = "unknown") - Bit(status[c] = "unknown"),
                             Bit("user" = "user") - Bit(status[c] = "user"),
                             Bit("user" = "user" /\ c \in LocalClient)
                                 - Bit(status[c] = "user" /\ c \in LocalClient))
      BY <2>1, <1>0 DEF Tally, Bit
    <2>3. QED
      BY <2>1, <2>2, StatusMove
  <1>5. ASSUME NEW c \in Client, RemoteConnect(c) PROVE CountsExact'
    <2>1. c \notin LocalClient /\ status[c] = "none" /\ status' = [status EXCEPT ![c] = "user"]
          /\ irccounts' = Tally(0, 1, 0)
      BY <1>5, ConstantsAssumption DEF RemoteConnect
    <2>2. irccounts' = Tally(Bit("user" = "unknown") - Bit(status[c] = "unknown"),
                             Bit("user" = "user") - Bit(status[c] = "user"),
                             Bit("user" = "user" /\ c \in LocalClient)
                                 - Bit(status[c] = "user" /\ c \in LocalClient))
      BY <2>1, <1>0 DEF Tally, Bit
    <2>3. QED
      BY <2>1, <2>2, StatusMove
  <1>6. ASSUME UNCHANGED <<status, irccounts>> PROVE CountsExact'
    BY <1>6 DEF CountsExact, Unknowns, Users
  <1>7. QED
    BY <1>1, <1>3, <1>4, <1>5, <1>6
    DEF Next, RegisterUser, Hold, Block, MakeOper, KnownChange, Rehash, vars

\* Initially there is nobody to count and every counter is zero.
LEMMA NobodyCounted ==
    ASSUME Init
    PROVE  CountsExact /\ ClassCount /\ IpUsersExact /\ CtExact
  <1>1. Unknowns = {} /\ Users = {} /\ Users \cap LocalClient = {}
    BY DEF Init, Unknowns, Users
  <1>2. CountsExact
    BY <1>1, FS_EmptySet DEF CountsExact, Init
  <1>3. \A k \in Class : InClass(k) = {}
    BY ConstantsAssumption DEF Init, InClass
  <1>4. ClassCount
    BY <1>3, FS_EmptySet DEF ClassCount, Init
  <1>5. \A i \in Ip : At(bumped \cap LocalClient, i) = {} /\ At(bumped, i) = {}
    BY DEF Init, At
  <1>6. IpUsersExact
    BY <1>5, FS_EmptySet DEF IpUsersExact, Init, NoUsers
  <1>7. \A r \in Prefix, cat \in Category : InCategory(r, cat) = {}
    BY DEF Init, InCategory, Category
  <1>8. CtExact
    BY <1>7, FS_EmptySet DEF CtExact, Init, NoneCounted
  <1>9. QED
    BY <1>2, <1>4, <1>6, <1>8

\* irccounts is exact for any clients, attempts, holds, exits and rehashes: the
\* totals of LUSERS are what the lists hold.
THEOREM CountsExactHolds == Spec => []CountsExact
  <1>1. Init => CountsExact
    BY NobodyCounted
  <1>2. QED
    BY <1>1, CountsInductive, ShapeHolds, PTL DEF Spec

-----------------------------------------------------------------------------
(* class->clients *)

\* One client moves from its class to class j, either of which may be none, and
\* each count follows: exact before and after.
LEMMA ClassMove ==
    ASSUME Shape, ClassCount, NEW c \in Client, NEW j \in Class \cup {None},
           class' = [class EXCEPT ![c] = j],
           \A k \in Class : clients'[k] = clients[k] + Bit(j = k) - Bit(class[c] = k)
    PROVE  ClassCount'
  <1> SUFFICES ASSUME NEW k \in Class PROVE clients'[k] = Cardinality(InClass(k)')
    BY DEF ClassCount
  <1>1. IsFiniteSet(InClass(k))
    BY ClientsFinite DEF InClass
  <1>2. /\ InClass(k) \ {c} = InClass(k)' \ {c}
        /\ c \in InClass(k)' <=> j = k
        /\ c \in InClass(k) <=> class[c] = k
    BY DEF InClass, Shape
  <1>3. /\ Cardinality(InClass(k)') = Cardinality(InClass(k)) + Bit(c \in InClass(k)') - Bit(c \in InClass(k))
        /\ Cardinality(InClass(k)) \in Nat
    BY <1>1, <1>2, MemberMove
  <1>4. clients[k] = Cardinality(InClass(k))
    BY DEF ClassCount
  <1>5. QED
    BY <1>2, <1>3, <1>4 DEF Bit

\* Every step keeps class->clients exact if no blocked client tries again.
LEMMA ClassInductive ==
    ASSUME "retry" \notin Env, Shape, ClassCount, [Next]_vars
    PROVE  ClassCount'
  <1>0. /\ clients \in [Class -> Int] /\ class \in [Client -> Class \cup {None}]
        /\ AllowClass \in Class /\ OperClass \in Class /\ None \notin Class
        /\ {AllowClass, OperClass, None} \subseteq Class \cup {None}
    BY ConstantsAssumption DEF Shape
  <1>1. ASSUME NEW c \in Client, RejectPerIp(c) \/ RejectLater(c) \/ Exit(c) PROVE ClassCount'
    <2>1. class' = [class EXCEPT ![c] = None] /\ clients' = ClassMinus(clients, class[c])
      BY <1>1 DEF RejectPerIp, RejectLater, Exit, Leaves
    <2>2. \A k \in Class : clients'[k] = clients[k] + Bit(None = k) - Bit(class[c] = k)
      BY <2>1, <1>0 DEF ClassMinus, Bit
    <2>3. QED
      BY <2>1, <2>2, <1>0, ClassMove
  <1>2. ASSUME NEW c \in Client, RejectAfter(c) \/ Hold(c) PROVE ClassCount'
    <2>1. /\ class[c] = None /\ class' = [class EXCEPT ![c] = None]
          /\ clients' = ClassMinus(ClassPlus(clients, AllowClass), AllowClass)
      BY <1>2 DEF RejectAfter, Hold, Leaves, Allowed, Attempts
    <2>2. \A k \in Class : clients'[k] = clients[k] + Bit(None = k) - Bit(class[c] = k)
      BY <2>1, <1>0 DEF ClassMinus, ClassPlus, Bit
    <2>3. QED
      BY <2>1, <2>2, <1>0, ClassMove, ZenonT(40)
  <1>3. ASSUME NEW c \in Client, Block(c) \/ Welcome(c) PROVE ClassCount'
    <2>1. /\ class[c] = None /\ class' = [class EXCEPT ![c] = AllowClass]
          /\ clients' = ClassPlus(clients, AllowClass)
      BY <1>3 DEF Block, Welcome, Allowed, Attempts
    <2>2. \A k \in Class : clients'[k] = clients[k] + Bit(AllowClass = k) - Bit(class[c] = k)
      BY <2>1, <1>0 DEF ClassPlus, Bit
    <2>3. QED
      BY <2>1, <2>2, <1>0, ClassMove
  <1>4. ASSUME NEW c \in Client, MakeOper(c) PROVE ClassCount'
    <2>1. /\ class' = [class EXCEPT ![c] = OperClass]
          /\ clients' = ClassPlus(ClassMinus(clients, class[c]), OperClass)
      BY <1>4 DEF MakeOper
    <2>2. \A k \in Class : clients'[k] = clients[k] + Bit(OperClass = k) - Bit(class[c] = k)
      BY <2>1, <1>0 DEF ClassMinus, ClassPlus, Bit
    <2>3. QED
      BY <2>1, <2>2, <1>0, ClassMove
  <1>5. ASSUME UNCHANGED <<class, clients>> PROVE ClassCount'
    BY <1>5 DEF ClassCount, InClass
  <1>6. QED
    BY <1>1, <1>2, <1>3, <1>4, <1>5
    DEF Next, RegisterUser, Accept, RemoteConnect, KnownChange, Rehash, vars

\* class->clients is exact, for any classes, limits and clients, unless a client
\* that a spamfilter blocked is let into register_user again: neither holds nor
\* rejected attempts nor the change of class of an oper lose or leak a count.
THEOREM ClassCountHolds == "retry" \notin Env => (Spec => []ClassCount)
  <1> SUFFICES ASSUME "retry" \notin Env PROVE Spec => []ClassCount
    OBVIOUS
  <1>1. Init => ClassCount
    BY NobodyCounted
  <1>2. Shape /\ ClassCount /\ [Next]_vars => ClassCount'
    BY ClassInductive
  <1>3. QED
    BY <1>1, <1>2, ShapeHolds, PTL DEF Spec

-----------------------------------------------------------------------------
(* maxperip *)

\* Table t counts the clients of S by IP.
IpCounts(t, S) ==
    \A i \in Ip : /\ t[i].local = Cardinality(At(S \cap LocalClient, i))
                  /\ t[i].global = Cardinality(At(S, i))

\* A client is added to a counted set: the counts of its IP grow by one, the
\* local one if it is local, and no other count changes.
LEMMA IpAdd ==
    ASSUME NEW S \in SUBSET Client, NEW c \in Client \ S, NEW i \in Ip
    PROVE  /\ Cardinality(At(S \cup {c}, i)) = Cardinality(At(S, i)) + (IF IpOf[c] = i THEN 1 ELSE 0)
           /\ Cardinality(At((S \cup {c}) \cap LocalClient, i)) = Cardinality(At(S \cap LocalClient, i))
                 + (IF c \in LocalClient /\ IpOf[c] = i THEN 1 ELSE 0)
           /\ Cardinality(At(S, i)) \in Nat /\ Cardinality(At(S \cap LocalClient, i)) \in Nat
  <1>1. IsFiniteSet(At(S, i)) /\ IsFiniteSet(At(S \cap LocalClient, i))
    BY ClientsFinite DEF At
  <1>2. /\ c \notin At(S, i) /\ c \notin At(S \cap LocalClient, i)
        /\ At(S \cup {c}, i) = IF IpOf[c] = i THEN At(S, i) \cup {c} ELSE At(S, i)
    BY DEF At
  <1>3. At((S \cup {c}) \cap LocalClient, i) = IF c \in LocalClient /\ IpOf[c] = i
                                               THEN At(S \cap LocalClient, i) \cup {c}
                                               ELSE At(S \cap LocalClient, i)
    BY DEF At
  <1>4. Cardinality(At(S, i)) \in Nat /\ Cardinality(At(S \cap LocalClient, i)) \in Nat
    BY <1>1, FS_CardinalityType
  <1>5. /\ Cardinality(At(S, i) \cup {c}) = Cardinality(At(S, i)) + 1
        /\ Cardinality(At(S \cap LocalClient, i) \cup {c}) = Cardinality(At(S \cap LocalClient, i)) + 1
    BY <1>1, <1>2, FS_AddElement
  <1>6. QED
    BY <1>2, <1>3, <1>4, <1>5

\* A count that is there is not lost: the bucket of a counted client exists.
LEMMA IpBucketThere ==
    ASSUME NEW t \in [Ip -> [local : Int, global : Int]], NEW S \in SUBSET Client, IpCounts(t, S),
           NEW c \in S
    PROVE  t[IpOf[c]] # NoUsers
  <1>1. IpOf[c] \in Ip /\ c \in Client
    BY ConstantsAssumption
  <1>2. Cardinality(At(S, IpOf[c])) >= 1
    <2>1. S \ {c} \in SUBSET Client /\ c \in Client \ (S \ {c}) /\ (S \ {c}) \cup {c} = S
      BY <1>1
    <2>2. Cardinality(At((S \ {c}) \cup {c}, IpOf[c])) = Cardinality(At(S \ {c}, IpOf[c])) + 1
          /\ Cardinality(At(S \ {c}, IpOf[c])) \in Nat
      BY <2>1, <1>1, IpAdd, ZenonT(40)
    <2>3. QED
      BY <2>1, <2>2
  <1>3. t[IpOf[c]].global >= 1
    BY <1>1, <1>2 DEF IpCounts
  <1>4. QED
    BY <1>3 DEF NoUsers

\* A client that was not counted is added to the set and to its bucket.
LEMMA IpPlusCounts ==
    ASSUME NEW t \in [Ip -> [local : Int, global : Int]], NEW S \in SUBSET Client, IpCounts(t, S),
           NEW c \in Client \ S
    PROVE  IpCounts([t EXCEPT ![IpOf[c]] = IpPlus(@, c)], S \cup {c})
  <1> DEFINE u == [t EXCEPT ![IpOf[c]] = IpPlus(@, c)]
  <1>1. IpOf[c] \in Ip
    BY ConstantsAssumption
  <1>2. ASSUME NEW i \in Ip
        PROVE  /\ u[i].local = Cardinality(At((S \cup {c}) \cap LocalClient, i))
               /\ u[i].global = Cardinality(At(S \cup {c}, i))
    <2>1. /\ Cardinality(At(S \cup {c}, i)) = Cardinality(At(S, i)) + (IF IpOf[c] = i THEN 1 ELSE 0)
          /\ Cardinality(At((S \cup {c}) \cap LocalClient, i)) = Cardinality(At(S \cap LocalClient, i))
                + (IF c \in LocalClient /\ IpOf[c] = i THEN 1 ELSE 0)
      BY IpAdd, SMTT(30)
    <2>2. /\ t[i].local = Cardinality(At(S \cap LocalClient, i))
          /\ t[i].global = Cardinality(At(S, i))
          /\ t[i].local \in Int /\ t[i].global \in Int
      BY DEF IpCounts
    <2>3. CASE IpOf[c] = i
      <3>1. u[i] = IpPlus(t[i], c)
        BY <1>1, <2>3
      <3>2. QED
        BY <3>1, <2>1, <2>2, <2>3 DEF IpPlus
    <2>4. CASE IpOf[c] # i
      <3>1. u[i] = t[i]
        BY <1>1, <2>4
      <3>2. QED
        BY <3>1, <2>1, <2>2, <2>4
    <2>5. QED
      BY <2>3, <2>4
  <1>3. QED
    BY <1>2 DEF IpCounts

\* exceeds_maxperip leaves a table that counts the client, once.
LEMMA IpBumpCounts ==
    ASSUME Shape, IpUsersExact, NEW c \in Client
    PROVE  IpCounts(IpBump(c), bumped \cup {c})
  <1>0. /\ ipusers \in [Ip -> [local : Int, global : Int]] /\ bumped \in SUBSET Client
        /\ IpCounts(ipusers, bumped) /\ IpOf[c] \in Ip
    BY ConstantsAssumption DEF Shape, IpUsersExact, IpCounts
  <1>1. CASE c \in bumped
    <2>1. bumped \cup {c} = bumped /\ IpBump(c) = ipusers
      BY <1>0, <1>1, IpBucketThere DEF IpBump
    <2>2. QED
      BY <2>1, <1>0
  <1>2. CASE c \notin bumped
    <2>1. IpBump(c) = [ipusers EXCEPT ![IpOf[c]] = IpPlus(@, c)]
      BY <1>2 DEF IpBump
    <2>2. c \in Client \ bumped
      BY <1>2
    <2> DEFINE t == ipusers
               S == bumped
    <2>3. /\ t \in [Ip -> [local : Int, global : Int]] /\ S \in SUBSET Client /\ IpCounts(t, S)
          /\ c \in Client \ S
      BY <2>2, <1>0
    <2> HIDE DEF t, S
    <2>4. IpCounts([t EXCEPT ![IpOf[c]] = IpPlus(@, c)], S \cup {c})
      BY <2>3, IpPlusCounts
    <2>5. QED
      BY <2>4, <2>1 DEF t, S
  <1>3. QED
    BY <1>1, <1>2

\* decrease_ipusers_bucket leaves a table that does not count the client.
LEMMA IpDropCounts ==
    ASSUME NEW t \in [Ip -> [local : Int, global : Int]], NEW S \in SUBSET Client, IpCounts(t, S),
           NEW c \in Client
    PROVE  IpCounts(IpDrop(t, S, c), S \ {c})
  <1>0. IpOf[c] \in Ip
    BY ConstantsAssumption
  <1>1. CASE c \notin S
    <2>1. S \ {c} = S /\ IpDrop(t, S, c) = t
      BY <1>1 DEF IpDrop
    <2>2. QED
      BY <2>1
  <1>2. CASE c \in S
    <2> DEFINE T == S \ {c}
    <2>1. IpDrop(t, S, c) = [t EXCEPT ![IpOf[c]] = IpMinus(@, c)]
      BY <1>2, IpBucketThere DEF IpDrop
    <2>2. T \in SUBSET Client /\ c \in Client \ T /\ S = T \cup {c}
      BY <1>2
    <2> HIDE DEF T
    <2>3. ASSUME NEW i \in Ip
          PROVE  /\ IpDrop(t, S, c)[i].local = Cardinality(At(T \cap LocalClient, i))
                 /\ IpDrop(t, S, c)[i].global = Cardinality(At(T, i))
      <3>1. /\ Cardinality(At(T \cup {c}, i)) = Cardinality(At(T, i)) + (IF IpOf[c] = i THEN 1 ELSE 0)
            /\ Cardinality(At((T \cup {c}) \cap LocalClient, i)) = Cardinality(At(T \cap LocalClient, i))
                      + (IF c \in LocalClient /\ IpOf[c] = i THEN 1 ELSE 0)
            /\ Cardinality(At(T, i)) \in Nat /\ Cardinality(At(T \cap LocalClient, i)) \in Nat
        BY <2>2, IpAdd
      <3>2. /\ t[i].local = Cardinality(At(S \cap LocalClient, i))
            /\ t[i].global = Cardinality(At(S, i))
            /\ t[i].local \in Int /\ t[i].global \in Int
        BY DEF IpCounts
      <3>a. /\ Cardinality(At(S \cap LocalClient, i)) = Cardinality(At((T \cup {c}) \cap LocalClient, i))
            /\ Cardinality(At(S, i)) = Cardinality(At(T \cup {c}, i))
        BY <2>2
      <3>3. CASE IpOf[c] = i
        <4>1. IpDrop(t, S, c)[i] = IpMinus(t[i], c)
          BY <2>1, <1>0, <3>3
        <4>2. QED
          BY <4>1, <3>1, <3>2, <3>a, <3>3 DEF IpMinus
      <3>4. CASE IpOf[c] # i
        <4>1. IpDrop(t, S, c)[i] = t[i]
          BY <2>1, <1>0, <3>4
        <4>2. QED
          BY <4>1, <3>1, <3>2, <3>a, <3>4
      <3>5. QED
        BY <3>3, <3>4
    <2>4. QED
      BY <2>3 DEF IpCounts, T
  <1>3. QED
    BY <1>1, <1>2

\* Every step keeps the table exact, a REHASH if it finds nobody held.
LEMMA IpInductive ==
    ASSUME "rehash" \notin Env, Shape, IpUsersExact, [Next]_vars
    PROVE  IpUsersExact'
  <1>0. /\ ipusers \in [Ip -> [local : Int, global : Int]] /\ bumped \in SUBSET Client
        /\ IpCounts(ipusers, bumped)
    BY DEF Shape, IpUsersExact, IpCounts
  <1>a. ASSUME IpCounts(ipusers', bumped') PROVE IpUsersExact'
    BY <1>a DEF IpCounts, IpUsersExact
  <1>1. ASSUME NEW c \in Client, RejectPerIp(c) \/ RejectLater(c) \/ RejectAfter(c) PROVE IpUsersExact'
    <2> DEFINE T == bumped \cup {c}
    <2>1. ipusers' = IpDrop(IpBump(c), T, c) /\ bumped' = bumped \ {c}
      BY <1>1 DEF RejectPerIp, RejectLater, RejectAfter, Leaves
    <2>2. T \in SUBSET Client /\ IpBump(c) \in [Ip -> [local : Int, global : Int]]
      BY <1>0, IpTypes
    <2>3. IpCounts(IpBump(c), T) /\ T \ {c} = bumped \ {c}
      BY IpBumpCounts
    <2> HIDE DEF T
    <2>4. IpCounts(IpDrop(IpBump(c), T, c), T \ {c})
      BY <2>2, <2>3, IpDropCounts
    <2>5. QED
      BY <2>1, <2>3, <2>4, <1>a
  <1>2. ASSUME NEW c \in Client, Exit(c) PROVE IpUsersExact'
    BY <1>0, <1>2, <1>a, IpDropCounts DEF Exit, Leaves
  <1>3. ASSUME NEW c \in Client, Hold(c) \/ Block(c) \/ Welcome(c) \/ RemoteConnect(c)
        PROVE  IpUsersExact'
    <2>1. ipusers' = IpBump(c) /\ bumped' = bumped \cup {c}
      BY <1>3 DEF Hold, Block, Welcome, RemoteConnect, Counted
    <2>2. QED
      BY <2>1, <1>a, IpBumpCounts
  <1>4. CASE Rehash
    <2>1. \A d \in bumped : status[d] # "unknown"
      BY <1>4, <1>0 DEF Rehash, Held
    <2>2. ASSUME NEW S \in SUBSET bumped PROVE Walked(S) = Cardinality(S)
      <3>1. {d \in S : status[d] = "unknown"} = {}
        BY <2>1
      <3>2. Cardinality(S) \in Nat
        BY <1>0, ClientsFinite, FS_CardinalityType
      <3>3. QED
        BY <3>1, <3>2, FS_EmptySet DEF Walked
    <2>3. ASSUME NEW i \in Ip
          PROVE  /\ ipusers'[i].local = Cardinality(At(bumped \cap LocalClient, i))
                 /\ ipusers'[i].global = Cardinality(At(bumped, i))
      <3> DEFINE here == {c \in bumped : IpOf[c] = i}
      <3>1. here \in SUBSET bumped /\ here \cap LocalClient \in SUBSET bumped
        OBVIOUS
      <3>2. here = At(bumped, i) /\ here \cap LocalClient = At(bumped \cap LocalClient, i)
        BY DEF At
      <3>3. ipusers'[i].local = Walked(here \cap LocalClient) /\ ipusers'[i].global = Walked(here)
        BY <1>4 DEF Rehash
      <3> HIDE DEF here
      <3>4. Walked(here \cap LocalClient) = Cardinality(here \cap LocalClient)
            /\ Walked(here) = Cardinality(here)
        BY <3>1, <2>2
      <3>5. QED
        BY <3>2, <3>3, <3>4
    <2>4. bumped' = bumped
      BY <1>4 DEF Rehash
    <2>5. IpCounts(ipusers', bumped')
      BY <2>3, <2>4 DEF IpCounts
    <2>6. QED
      BY <2>5, <1>a
  <1>5. ASSUME UNCHANGED <<ipusers, bumped>> PROVE IpUsersExact'
    BY <1>5, <1>0, <1>a
  <1>6. QED
    BY <1>1, <1>2, <1>3, <1>4, <1>5 DEF Next, RegisterUser, Accept, MakeOper, KnownChange, vars

\* The IP table is exact for any clients, IPs and limits unless a REHASH finds a
\* client that is held in its handshake after it was counted: one flag per
\* client makes every retry and every exit undo at most what was counted.
THEOREM IpUsersExactHolds == "rehash" \notin Env => (Spec => []IpUsersExact)
  <1> SUFFICES ASSUME "rehash" \notin Env PROVE Spec => []IpUsersExact
    OBVIOUS
  <1>1. Init => IpUsersExact
    BY NobodyCounted
  <1>2. Shape /\ IpUsersExact /\ [Next]_vars => IpUsersExact'
    BY IpInductive
  <1>3. QED
    BY <1>1, <1>2, ShapeHolds, PTL DEF Spec

\* The local users of an IP that are not exempt.
Limited(i) == At((Users \cap LocalClient) \ Exempt, i)

\* Every step respects the limit: only Welcome adds a local user, and then the
\* bucket, which counts at least these users, was compared with the limit.
LEMMA LimitInductive ==
    ASSUME Shape, IpUsersExact, MaxPerIpRespected, [Next]_vars
    PROVE  MaxPerIpRespected'
  <1>0. MaxPerIp \in Nat /\ \A i \in Ip : IsFiniteSet(Limited(i)) /\ Cardinality(Limited(i)) <= MaxPerIp
    BY ConstantsAssumption, ClientsFinite DEF Limited, At, Users, MaxPerIpRespected
  <1>1. ASSUME NEW i \in Ip PROVE Cardinality(Limited(i)') <= MaxPerIp
    <2>1. CASE Limited(i)' \in SUBSET Limited(i)
      <3> DEFINE S == Limited(i)
                 T == Limited(i)'
      <3>1. IsFiniteSet(S) /\ T \in SUBSET S /\ Cardinality(S) <= MaxPerIp
        BY <1>0, <2>1
      <3> HIDE DEF S, T
      <3>2. /\ Cardinality(T) <= Cardinality(S)
            /\ Cardinality(S) \in Nat /\ Cardinality(T) \in Nat
        BY <3>1, FS_Subset, FS_CardinalityType
      <3>3. Cardinality(T) <= MaxPerIp
        BY <3>1, <3>2, <1>0
      <3>4. QED
        BY <3>3 DEF T
    <2>2. ASSUME NEW c \in Client, Welcome(c), IpOf[c] = i, c \notin Exempt
          PROVE  Cardinality(Limited(i)') <= MaxPerIp
      <3> DEFINE T == Limited(i)'
                 S == At((bumped \cup {c}) \cap LocalClient, i)
      <3>1. T \in SUBSET S
        <4>1. status' = [status EXCEPT ![c] = "user"] /\ c \in LocalClient
          BY <2>2 DEF Welcome, Allowed, Attempts
        <4>2. \A d \in Client : status'[d] = "user" => d \in bumped \cup {c}
          BY <4>1 DEF Shape
        <4>3. QED
          BY <4>2 DEF Limited, At, Users
      <3>2. IsFiniteSet(S)
        BY ClientsFinite DEF At, Shape
      <3>3. Cardinality(S) <= MaxPerIp
        <4>1. IpBump(c)[i].local = Cardinality(S)
          BY <2>2, IpBumpCounts DEF IpCounts
        <4>2. ~(IpBump(c)[i].local > MaxPerIp)
          BY <2>2 DEF Welcome, Allowed, TooManyPerIp, Exceeds
        <4>3. Cardinality(S) \in Nat
          BY <3>2, FS_CardinalityType
        <4>4. QED
          BY <4>1, <4>2, <4>3, <1>0
      <3> HIDE DEF S, T
      <3>4. /\ Cardinality(T) <= Cardinality(S)
            /\ Cardinality(S) \in Nat /\ Cardinality(T) \in Nat
        BY <3>1, <3>2, FS_Subset, FS_CardinalityType
      <3>5. Cardinality(T) <= MaxPerIp
        BY <3>3, <3>4, <1>0
      <3>6. QED
        BY <3>5 DEF T
    <2>3. ASSUME NEW c \in Client, NEW x \in {"none", "unknown", "user"},
                 status' = [status EXCEPT ![c] = x],
                 x = "user" => c \notin LocalClient \/ c \in Exempt \/ IpOf[c] # i
          PROVE  Limited(i)' \in SUBSET Limited(i)
      BY <2>3 DEF Limited, At, Users, Shape
    <2>4. ASSUME status' = status PROVE Limited(i)' \in SUBSET Limited(i)
      BY <2>4 DEF Limited, At, Users
    <2>5. ASSUME NEW c \in Client, Accept(c) \/ RejectPerIp(c) \/ RejectLater(c) \/ RejectAfter(c) \/ Exit(c)
          PROVE  Limited(i)' \in SUBSET Limited(i)
      <3>1. status' = [status EXCEPT ![c] = "unknown"] \/ status' = [status EXCEPT ![c] = "none"]
        BY <2>5 DEF Accept, RejectPerIp, RejectLater, RejectAfter, Exit, Leaves
      <3>2. QED
        BY <3>1, <2>3
    <2>6. ASSUME NEW c \in Client, Welcome(c), ~(IpOf[c] = i /\ c \notin Exempt)
          PROVE  Limited(i)' \in SUBSET Limited(i)
      BY <2>6, <2>3 DEF Welcome
    <2>7. ASSUME NEW c \in Client, RemoteConnect(c) PROVE Limited(i)' \in SUBSET Limited(i)
      <3>1. status' = [status EXCEPT ![c] = "user"] /\ c \notin LocalClient
        BY <2>7, ConstantsAssumption DEF RemoteConnect
      <3>2. QED
        BY <3>1, <2>3
    <2>8. QED
      BY <2>1, <2>2, <2>4, <2>5, <2>6, <2>7
      DEF Next, RegisterUser, Hold, Block, MakeOper, KnownChange, Rehash, vars
  <1>2. QED
    BY <1>1 DEF MaxPerIpRespected, Limited

\* No IP ever has more local users that are not exempt than allow::maxperip, for
\* any clients, IPs and limits, unless a REHASH finds a held client.
THEOREM MaxPerIpHolds == "rehash" \notin Env => (Spec => []MaxPerIpRespected)
  <1> SUFFICES ASSUME "rehash" \notin Env PROVE Spec => []MaxPerIpRespected
    OBVIOUS
  <1>1. Init => MaxPerIpRespected
    <2> SUFFICES ASSUME Init PROVE MaxPerIpRespected
      OBVIOUS
    <2>1. \A i \in Ip : At((Users \cap LocalClient) \ Exempt, i) = {}
      BY DEF Init, Users, At
    <2>2. Cardinality({}) <= MaxPerIp
      BY FS_EmptySet, ConstantsAssumption
    <2>3. QED
      BY <2>1, <2>2 DEF MaxPerIpRespected
  <1>2. Shape /\ IpUsersExact /\ MaxPerIpRespected /\ [Next]_vars => MaxPerIpRespected'
    BY LimitInductive
  <1>3. Spec => []IpUsersExact
    BY IpUsersExactHolds
  <1>4. QED
    BY <1>1, <1>2, <1>3, ShapeHolds, PTL DEF Spec

-----------------------------------------------------------------------------
(* connthrottle *)

\* The clients of prefix r to which f gives category cat, and what it means
\* that table t counts them.
Members(f, r, cat) == {d \in Client : f[d] = cat /\ PrefixOf[IpOf[d]] = r}
CtCounts(t, f) == \A r \in Prefix : \A cat \in Category : t[r][cat] = Cardinality(Members(f, r, cat))

\* Client c gets category x and the counts of its prefix change by its
\* membership: exact before and after.
LEMMA CtStep ==
    ASSUME NEW f \in [Client -> Category \cup {"none"}], NEW c \in Client,
           NEW x \in Category \cup {"none"},
           NEW t \in [Prefix -> [Category -> Int]], NEW u, CtCounts(t, f),
           \A r \in Prefix : \A cat \in Category :
              u[r][cat] = t[r][cat] + (IF x = cat /\ PrefixFor(c) = r THEN 1 ELSE 0)
                                    - (IF f[c] = cat /\ PrefixFor(c) = r THEN 1 ELSE 0)
    PROVE  CtCounts(u, [f EXCEPT ![c] = x])
  <1> DEFINE g == [f EXCEPT ![c] = x]
  <1> SUFFICES ASSUME NEW r \in Prefix, NEW cat \in Category
               PROVE  u[r][cat] = Cardinality(Members(g, r, cat))
    BY DEF CtCounts
  <1> DEFINE S == Members(f, r, cat)
             T == Members(g, r, cat)
  <1>1. /\ IsFiniteSet(S) /\ S \ {c} = T \ {c}
        /\ c \in S <=> (f[c] = cat /\ PrefixFor(c) = r)
        /\ c \in T <=> (x = cat /\ PrefixFor(c) = r)
    BY ClientsFinite DEF Members, PrefixFor
  <1>2. t[r][cat] = Cardinality(S)
    BY DEF CtCounts
  <1> HIDE DEF S, T
  <1>3. Cardinality(T) = Cardinality(S) + Bit(c \in T) - Bit(c \in S) /\ Cardinality(S) \in Nat
    BY <1>1, MemberMove
  <1>4. u[r][cat] = Cardinality(T)
    BY <1>1, <1>2, <1>3 DEF Bit
  <1>5. QED
    BY <1>4 DEF T

\* The bucket of a client with a category exists.
LEMMA CtBucketThere ==
    ASSUME NEW f \in [Client -> Category \cup {"none"}], NEW c \in Client,
           NEW t \in [Prefix -> [Category -> Int]], CtCounts(t, f),
           f[c] # "none", PrefixFor(c) \in Prefix
    PROVE  t[PrefixFor(c)] # NoneCounted
  <1> DEFINE S == Members(f, PrefixFor(c), f[c])
  <1>1. f[c] \in Category
    OBVIOUS
  <1>2. IsFiniteSet(S) /\ c \in S
    BY ClientsFinite DEF Members, PrefixFor
  <1>3. t[PrefixFor(c)][f[c]] = Cardinality(S)
    BY <1>1 DEF CtCounts
  <1> HIDE DEF S
  <1>4. Cardinality(S) >= 1
    BY <1>2, MemberMove
  <1>5. QED
    BY <1>1, <1>3, <1>4 DEF NoneCounted

\* A client without a category gets x and is counted.
LEMMA CtPlusCounts ==
    ASSUME NEW f \in [Client -> Category \cup {"none"}], NEW c \in Client,
           NEW x \in Category \cup {"none"}, x # "none" => PrefixFor(c) \in Prefix,
           NEW t \in [Prefix -> [Category -> Int]], CtCounts(t, f), f[c] = "none"
    PROVE  CtCounts(CtPlus(t, c, x), [f EXCEPT ![c] = x])
  <1>0. "none" \notin Category
    BY DEF Category
  <1>1. \A r \in Prefix : \A cat \in Category :
           CtPlus(t, c, x)[r][cat] = t[r][cat] + (IF x = cat /\ PrefixFor(c) = r THEN 1 ELSE 0)
                                     - (IF f[c] = cat /\ PrefixFor(c) = r THEN 1 ELSE 0)
    BY <1>0 DEF CtPlus
  <1>2. QED
    BY <1>1, CtStep

\* A client loses its category and is uncounted.
LEMMA CtMinusCounts ==
    ASSUME NEW f \in [Client -> Category \cup {"none"}], NEW c \in Client,
           f[c] # "none" => PrefixFor(c) \in Prefix,
           NEW t \in [Prefix -> [Category -> Int]], CtCounts(t, f)
    PROVE  CtCounts(CtMinus(t, c, f[c]), [f EXCEPT ![c] = "none"])
  <1>0. "none" \notin Category /\ "none" \in Category \cup {"none"}
    BY DEF Category
  <1>1. \A r \in Prefix : \A cat \in Category :
           CtMinus(t, c, f[c])[r][cat] = t[r][cat] + (IF "none" = cat /\ PrefixFor(c) = r THEN 1 ELSE 0)
                                         - (IF f[c] = cat /\ PrefixFor(c) = r THEN 1 ELSE 0)
    <2>1. CASE f[c] = "none"
      BY <1>0, <2>1 DEF CtMinus
    <2>2. CASE f[c] # "none"
      <3>1. t[PrefixFor(c)] # NoneCounted
        BY <2>2, CtBucketThere
      <3>2. CtMinus(t, c, f[c]) = [t EXCEPT ![PrefixFor(c)][f[c]] = @ - 1]
        BY <3>1, <2>2 DEF CtMinus
      <3>3. QED
        BY <3>2, <1>0, <2>2
    <2>3. QED
      BY <2>1, <2>2
  <1>2. QED
    BY <1>0, <1>1, CtStep

\* ct_known_user_cache_change moves the client between two counts.
LEMMA CtMoveCounts ==
    ASSUME Shape, CtCounts(ct, category), NEW c \in Client, NEW k \in BOOLEAN
    PROVE  CtCounts(CtMove(c, k), [category EXCEPT ![c] = Recategorise(c, k)])
  <1> DEFINE x == Recategorise(c, k)
             f == category
             t == ct
  <1>0. /\ f \in [Client -> Category \cup {"none"}] /\ t \in [Prefix -> [Category -> Int]]
        /\ x \in Category \cup {"none"} /\ CtCounts(t, f)
        /\ f[c] # "none" => PrefixFor(c) \in Prefix
        /\ x # "none" <=> f[c] # "none"
    BY CategoryTypes DEF Shape
  <1>1. CASE x = f[c]
    <2>1. CtMove(c, k) = t /\ [f EXCEPT ![c] = x] = f
      BY <1>0, <1>1 DEF CtMove
    <2>2. QED
      BY <2>1, <1>0
  <1>2. CASE x # f[c]
    <2>1. f[c] # "none" /\ x # "none" /\ PrefixFor(c) \in Prefix /\ f[c] \in Category /\ x \in Category
      BY <1>0, <1>2
    <2>2. t[PrefixFor(c)] # NoneCounted
      <3> HIDE DEF t, f, x
      <3>1. QED
        BY <2>1, <1>0, CtBucketThere
    <2>3. CtMove(c, k) = [t EXCEPT ![PrefixFor(c)][f[c]] = @ - 1, ![PrefixFor(c)][x] = @ + 1]
      BY <2>2, <1>2 DEF CtMove
    <2> HIDE DEF t, f, x
    <2>4. \A r \in Prefix : \A cat \in Category :
             CtMove(c, k)[r][cat] = t[r][cat] + (IF x = cat /\ PrefixFor(c) = r THEN 1 ELSE 0)
                                    - (IF f[c] = cat /\ PrefixFor(c) = r THEN 1 ELSE 0)
      BY <2>1, <2>3, <1>0, <1>2
    <2>5. CtCounts(CtMove(c, k), [f EXCEPT ![c] = x])
      BY <2>4, <1>0, CtStep
    <2>6. QED
      BY <2>5 DEF f, x
  <1>3. QED
    BY <1>1, <1>2

\* ct_allow_client and ct_remote_connect_buckets leave the client counted once.
LEMMA CtCountCounts ==
    ASSUME Shape, CtCounts(ct, category), NEW c \in Client, NEW k \in BOOLEAN
    PROVE  CtCounts(CtCount(c, k), [category EXCEPT ![c] = NewCategory(c, k)])
  <1>1. CASE category[c] = "none"
    <2> DEFINE x == Classify(c, k)
               f == category
               t == ct
    <2>1. /\ f \in [Client -> Category \cup {"none"}] /\ t \in [Prefix -> [Category -> Int]]
          /\ x \in Category \cup {"none"} /\ CtCounts(t, f)
          /\ x # "none" => PrefixFor(c) \in Prefix
          /\ f[c] = "none"
      BY <1>1, CategoryTypes DEF Shape
    <2>2. CtCount(c, k) = CtPlus(t, c, x) /\ NewCategory(c, k) = x
      BY <1>1 DEF CtCount, NewCategory
    <2> HIDE DEF t, f, x
    <2>3. CtCounts(CtPlus(t, c, x), [f EXCEPT ![c] = x])
      BY <2>1, CtPlusCounts
    <2>4. QED
      BY <2>2, <2>3 DEF f
  <1>2. CASE category[c] # "none"
    BY <1>2, CtMoveCounts DEF CtCount, NewCategory
  <1>3. QED
    BY <1>1, <1>2

\* A client that was counted as x in table t leaves: exact without it.
LEMMA CtLeaveCounts ==
    ASSUME Shape, NEW c \in Client, NEW x \in Category \cup {"none"},
           x # "none" => PrefixFor(c) \in Prefix,
           NEW t \in [Prefix -> [Category -> Int]], CtCounts(t, [category EXCEPT ![c] = x])
    PROVE  CtCounts(CtMinus(t, c, x), [category EXCEPT ![c] = "none"])
  <1> DEFINE f == [category EXCEPT ![c] = x]
  <1>1. /\ f \in [Client -> Category \cup {"none"}] /\ f[c] = x /\ CtCounts(t, f)
        /\ [category EXCEPT ![c] = "none"] = [f EXCEPT ![c] = "none"]
    BY DEF Shape
  <1> HIDE DEF f
  <1>2. CtCounts(CtMinus(t, c, f[c]), [f EXCEPT ![c] = "none"])
    BY <1>1, CtMinusCounts
  <1>3. QED
    BY <1>1, <1>2

\* Every step keeps the buckets exact, a REHASH if it finds nobody held.
LEMMA CtInductive ==
    ASSUME "rehash" \notin Env, Shape, CtExact, [Next]_vars
    PROVE  CtExact'
  <1>0. CtCounts(ct, category)
    BY DEF CtExact, CtCounts, InCategory, Members, PrefixFor
  <1>a. ASSUME CtCounts(ct', category') PROVE CtExact'
    BY <1>a DEF CtExact, CtCounts, InCategory, Members, PrefixFor
  <1>1. ASSUME NEW c \in Client, RejectPerIp(c) PROVE CtExact'
    <2>1. PICK k \in BOOLEAN : /\ ct' = CtMinus(CtMove(c, k), c, Recategorise(c, k))
                               /\ category' = [category EXCEPT ![c] = "none"]
      BY <1>1 DEF RejectPerIp, Leaves
    <2>2. /\ Recategorise(c, k) \in Category \cup {"none"}
          /\ Recategorise(c, k) # "none" => PrefixFor(c) \in Prefix
          /\ CtMove(c, k) \in [Prefix -> [Category -> Int]]
      BY CategoryTypes, CtTypes DEF Shape
    <2>3. CtCounts(CtMove(c, k), [category EXCEPT ![c] = Recategorise(c, k)])
      BY <1>0, CtMoveCounts
    <2>4. QED
      BY <2>1, <2>2, <2>3, <1>a, CtLeaveCounts
  <1>2. ASSUME NEW c \in Client, RejectLater(c) \/ RejectAfter(c) PROVE CtExact'
    <2>1. PICK k \in BOOLEAN : /\ ct' = CtMinus(CtCount(c, k), c, NewCategory(c, k))
                               /\ category' = [category EXCEPT ![c] = "none"]
      BY <1>2 DEF RejectLater, RejectAfter, Leaves
    <2>2. /\ NewCategory(c, k) \in Category \cup {"none"}
          /\ NewCategory(c, k) # "none" => PrefixFor(c) \in Prefix
          /\ CtCount(c, k) \in [Prefix -> [Category -> Int]]
      BY CategoryTypes, CtTypes
    <2>3. CtCounts(CtCount(c, k), [category EXCEPT ![c] = NewCategory(c, k)])
      BY <1>0, CtCountCounts
    <2>4. QED
      BY <2>1, <2>2, <2>3, <1>a, CtLeaveCounts
  <1>3. ASSUME NEW c \in Client, Exit(c) PROVE CtExact'
    <2>1. ct' = CtMinus(ct, c, category[c]) /\ category' = [category EXCEPT ![c] = "none"]
      BY <1>3 DEF Exit, Leaves
    <2>2. /\ category[c] \in Category \cup {"none"} /\ ct \in [Prefix -> [Category -> Int]]
          /\ category[c] # "none" => PrefixFor(c) \in Prefix
          /\ [category EXCEPT ![c] = category[c]] = category
      BY DEF Shape
    <2>3. CtCounts(ct, [category EXCEPT ![c] = category[c]])
      BY <1>0, <2>2
    <2>4. QED
      BY <2>1, <2>2, <2>3, <1>a, CtLeaveCounts
  <1>4. ASSUME NEW c \in Client, Hold(c) \/ Block(c) \/ Welcome(c) \/ RemoteConnect(c)
        PROVE  CtExact'
    <2>1. PICK k \in BOOLEAN : /\ ct' = CtCount(c, k)
                               /\ category' = [category EXCEPT ![c] = NewCategory(c, k)]
      BY <1>4 DEF Hold, Block, Welcome, RemoteConnect, Counted
    <2>2. QED
      BY <2>1, <1>0, <1>a, CtCountCounts
  <1>5. ASSUME NEW c \in Client, KnownChange(c) PROVE CtExact'
    <2>1. (~known[c]) \in BOOLEAN
      BY DEF Shape
    <2>2. CtCounts(CtMove(c, ~known[c]), [category EXCEPT ![c] = Recategorise(c, ~known[c])])
      BY <2>1, <1>0, CtMoveCounts
    <2>3. QED
      BY <2>2, <1>5, <1>a DEF KnownChange
  <1>6. CASE Rehash
    <2>1. \A d \in Client \ Users : category[d] = "none"
      BY <1>6 DEF Rehash, Held, Users, Shape
    <2>2. category' = [c \in Client |-> IF c \in Users THEN Classify(c, known[c]) ELSE category[c]]
      BY <1>6 DEF Rehash
    <2>3. ASSUME NEW r \in Prefix, NEW cat \in Category
          PROVE  ct'[r][cat] = Cardinality(Members(category', r, cat))
      <3>1. ct'[r][cat] = Cardinality({c \in Users : PrefixFor(c) = r /\ Classify(c, known[c]) = cat})
        BY <1>6 DEF Rehash
      <3>2. {c \in Users : PrefixFor(c) = r /\ Classify(c, known[c]) = cat} = Members(category', r, cat)
        <4>1. cat # "none" /\ Users \subseteq Client
          BY DEF Category, Users
        <4>2. \A d \in Client : category'[d] = cat <=> (d \in Users /\ Classify(d, known[d]) = cat)
          BY <4>1, <2>1, <2>2
        <4>3. QED
          BY <4>1, <4>2 DEF Members, PrefixFor
      <3>3. QED
        BY <3>1, <3>2
    <2>4. CtCounts(ct', category')
      BY <2>3 DEF CtCounts
    <2>5. QED
      BY <2>4, <1>a
  <1>7. ASSUME UNCHANGED <<ct, category>> PROVE CtExact'
    BY <1>7, <1>0, <1>a
  <1>8. QED
    BY <1>1, <1>2, <1>3, <1>4, <1>5, <1>6, <1>7 DEF Next, RegisterUser, Accept, MakeOper, vars

\* connthrottle's buckets are exact for any clients, prefixes and limits unless a
\* REHASH finds a held client, whatever the known-users cache does between an
\* attempt and the next.
THEOREM CtExactHolds == "rehash" \notin Env => (Spec => []CtExact)
  <1> SUFFICES ASSUME "rehash" \notin Env PROVE Spec => []CtExact
    OBVIOUS
  <1>1. Init => CtExact
    BY NobodyCounted
  <1>2. Shape /\ CtExact /\ [Next]_vars => CtExact'
    BY CtInductive
  <1>3. QED
    BY <1>1, <1>2, ShapeHolds, PTL DEF Spec

-----------------------------------------------------------------------------
(* No counter is negative *)

\* Exact counters are natural numbers.
LEMMA ExactTypes ==
    ASSUME Shape, CountsExact, ClassCount, IpUsersExact, CtExact
    PROVE  TypeOK
  <1>1. \A S \in SUBSET Client : Cardinality(S) \in Nat
    BY ClientsFinite, FS_CardinalityType
  <1>2. clients \in [Class -> Nat]
    <2>1. \A k \in Class : InClass(k) \in SUBSET Client
      BY DEF InClass
    <2>2. QED
      BY <1>1, <2>1 DEF ClassCount, Shape
  <1>3. ipusers \in [Ip -> [local : Nat, global : Nat]]
    <2>1. \A i \in Ip : At(bumped \cap LocalClient, i) \in SUBSET Client /\ At(bumped, i) \in SUBSET Client
      BY DEF At, Shape
    <2>2. \A i \in Ip : ipusers[i].local \in Nat /\ ipusers[i].global \in Nat
      BY <1>1, <2>1 DEF IpUsersExact
    <2>3. QED
      BY <2>2 DEF Shape
  <1>4. ct \in [Prefix -> [Category -> Nat]]
    <2>1. \A r \in Prefix : \A cat \in Category : InCategory(r, cat) \in SUBSET Client
      BY DEF InCategory
    <2>2. \A r \in Prefix : \A cat \in Category : ct[r][cat] \in Nat
      BY <1>1, <2>1 DEF CtExact
    <2>3. QED
      BY <2>2 DEF Shape
  <1>5. irccounts \in [unknown : Nat, clients : Nat, me_clients : Nat]
    <2>1. /\ Unknowns \in SUBSET Client /\ Users \in SUBSET Client
          /\ Users \cap LocalClient \in SUBSET Client
      BY DEF Unknowns, Users
    <2>2. /\ irccounts.unknown \in Nat /\ irccounts.clients \in Nat /\ irccounts.me_clients \in Nat
      BY <1>1, <2>1 DEF CountsExact
    <2>3. QED
      BY <2>2 DEF Shape
  <1>6. QED
    BY <1>2, <1>3, <1>4, <1>5 DEF TypeOK, Shape

\* Without the two hazards no counter is ever negative, whatever the instance.
THEOREM TypeCorrect == Env = {} => (Spec => []TypeOK)
  <1> SUFFICES ASSUME Env = {} PROVE Spec => []TypeOK
    OBVIOUS
  <1>1. Spec => []ClassCount /\ []IpUsersExact /\ []CtExact
    BY ClassCountHolds, IpUsersExactHolds, CtExactHolds
  <1>2. Shape /\ CountsExact /\ ClassCount /\ IpUsersExact /\ CtExact => TypeOK
    BY ExactTypes
  <1>3. QED
    BY <1>1, <1>2, ShapeHolds, CountsExactHolds, PTL
=============================================================================
