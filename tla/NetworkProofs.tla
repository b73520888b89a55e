---------------------------- MODULE NetworkProofs ----------------------------
(***************************************************************************)
(* Proofs about Network for every set of servers, links, users, nicks and  *)
(* timestamps and every bound: first the tables of clients, then the links *)
(* (the handshake stays in step, and no server is known behind a neighbour *)
(* that is not linked).                                                    *)
(***************************************************************************)
EXTENDS Network, TLAPS, SequenceTheorems, FiniteSetTheorems

\* Outputs of a handler, and the streams of a network: nobody talks to itself
Out == [Server -> Seq(Msg)]
Streams == {ch \in [Server -> [Server -> Seq(Msg)]] : \A x \in Server : ch[x][x] = <<>>}

\* The part of the inductive invariant about connections and streams
LinkInv ==
    /\ conn \in [Server -> [Server -> ConnState]]
    /\ \A s \in Server : conn[s][s] = "none"
    /\ dead \subseteq Server \X Server
    /\ chan \in Streams
    /\ pending \in [Server -> [Server -> SUBSET Server]]

\* The part about the tables: a server is its own direction and has no uplink,
\* the tables are finite, and nothing in them hangs off something that is gone
TableInv ==
    /\ uplink \in [Server -> [Server -> Server \cup {None}]]
    /\ dir \in [Server -> [Server -> Server \cup {None}]]
    /\ \A s \in Server : dir[s][s] = s /\ uplink[s][s] = None
    /\ users \in [Server -> SUBSET UserRec]
    /\ \A s \in Server : IsFiniteSet(users[s])
    /\ used \subseteq UID
    /\ NoOrphans

\* The part about the bounds
CountInv == nconnect \in 0..MaxConnect /\ nop \in 0..MaxOp /\ noper \in 0..MaxOper

IInv == LinkInv /\ TableInv /\ CountInv

-----------------------------------------------------------------------------
(* What the operators that build messages and outputs return *)

\* The message constructors build messages.
LEMMA MessageTypes ==
    /\ \A k \in SUBSET Server, b \in BOOLEAN : EAUTH(k, b) \in Msg
    /\ SERVER \in Msg
    /\ \A x, y \in Server : SID(x, y) \in Msg
    /\ \A x \in Server : SQUIT(x) \in Msg
    /\ \A r \in UserRec : UIDmsg(r) \in Msg
    /\ \A u \in UID, n \in Nick, ts \in TS : NICK(u, n, ts) \in Msg
    /\ \A u \in UID : QUIT(u) \in Msg
    /\ \A x \in Server \cup UID, u \in UID : KILL(x, u) \in Msg
  BY DEF Msg, EAUTH, SERVER, SID, SQUIT, UIDmsg, NICK, QUIT, KILL, UserRec

\* The type of a message determines its fields.
LEMMA MessageFields ==
    ASSUME NEW m \in Msg
    PROVE  /\ m.type = "EAUTH" => m.known \in SUBSET Server
           /\ m.type = "SID" => m.src \in Server /\ m.id \in Server
           /\ m.type = "SQUIT" => m.id \in Server
           /\ m.type \in {"UID", "NICK"} => m.uid \in UID /\ m.nick \in Nick /\ m.ts \in TS
           /\ m.type = "QUIT" => m.uid \in UID
           /\ m.type = "KILL" => m.uid \in UID /\ m.src \in Server \cup UID
  BY DEF Msg

\* The output constructors build outputs from messages.
LEMMA OutTypes ==
    /\ NoOut \in Out
    /\ \A t \in Server, m \in Msg : One(t, m) \in Out
    /\ \A to, except : \A m \in Msg : ToServers(to, except, m) \in Out
    /\ \A o1, o2 \in Out : Cat(o1, o2) \in Out
  <1>1. \A m \in Msg : <<m>> \in Seq(Msg)
    OBVIOUS
  <1>2. <<>> \in Seq(Msg)
    OBVIOUS
  <1>3. \A q1, q2 \in Seq(Msg) : q1 \o q2 \in Seq(Msg)
    BY ConcatProperties
  <1>. QED
    BY <1>1, <1>2, <1>3 DEF Out, NoOut, One, ToServers, Cat

-----------------------------------------------------------------------------
(* Streams and connections *)

\* Reading a waiting message takes one message off one stream.
LEMMA ConsumeStreams ==
    ASSUME NEW s \in Server, NEW ch \in Streams, NEW from \in Server \cup {None},
           from # None => ch[from][s] # <<>>
    PROVE  Consume(ch, s, from) \in Streams
  <1>1. CASE from = None
    BY <1>1 DEF Consume
  <1>2. CASE from # None
    <2>1. from \in Server /\ from # s
      BY <1>2 DEF Streams
    <2>2. Tail(ch[from][s]) \in Seq(Msg)
      BY <1>2, <2>1, HeadTailProperties DEF Streams
    <2>. QED
      BY <1>2, <2>1, <2>2 DEF Consume, Streams
  <1>. QED
    BY <1>1, <1>2

\* Closing a connection only empties streams.
LEMMA CloseStreamsStreams ==
    ASSUME NEW s \in Server, NEW ch \in Streams, NEW c \in Server \cup {None}
    PROVE  CloseStreams(ch, s, c) \in Streams
  <1>0. <<>> \in Seq(Msg)
    OBVIOUS
  <1>1. CASE c = None
    BY <1>1 DEF CloseStreams
  <1>2. CASE c # None /\ <<s, c>> \in dead
    BY <1>0, <1>2 DEF CloseStreams, Streams
  <1>3. CASE c # None /\ <<s, c>> \notin dead
    BY <1>0, <1>3 DEF CloseStreams, Streams
  <1>. QED
    BY <1>1, <1>2, <1>3

\* Sending appends to the streams of live connections with others.
LEMMA DeliverStreams ==
    ASSUME NEW s \in Server, NEW ch \in Streams, NEW out \in Out,
           NEW alive \in SUBSET Server, s \notin alive
    PROVE  Deliver(ch, s, out, alive) \in Streams
  <1>1. \A q1, q2 \in Seq(Msg) : q1 \o q2 \in Seq(Msg)
    BY ConcatProperties
  <1>. QED
    BY <1>1 DEF Deliver, Out, Streams

\* The network part of any step keeps connections and streams well formed.
LEMMA NetLinkInv ==
    ASSUME LinkInv, NEW s \in Server,
           NEW from \in Server \cup {None}, from # None => chan[from][s] # <<>>,
           NEW c \in Server \cup {None}, NEW out \in Out,
           Net(s, from, c, out)
    PROVE  LinkInv'
  <1>1. Alive(s) \ {c} \in SUBSET Server /\ s \notin Alive(s) \ {c}
    BY DEF LinkInv, Alive
  <1>2. chan' \in Streams
    BY <1>1, ConsumeStreams, CloseStreamsStreams, DeliverStreams DEF LinkInv, Net
  <1>3. dead' \subseteq Server \X Server
    BY ConstantsAssumption DEF LinkInv, Net, DeadAfterClose
  <1>4. conn' \in [Server -> [Server -> ConnState]] /\ \A x \in Server : conn'[x][x] = "none"
    BY DEF LinkInv, Net, ConnState
  <1>5. pending' \in [Server -> [Server -> SUBSET Server]]
    BY DEF LinkInv, Net
  <1>. QED
    BY <1>2, <1>3, <1>4, <1>5 DEF LinkInv, Streams

-----------------------------------------------------------------------------
(* Tables *)

\* A server is not behind any other one; what is behind x is closed under
\* "introduced by", so no removal leaves a dangling uplink.
LEMMA BehindProperties ==
    ASSUME TableInv, NEW s \in Server, NEW x \in Server, x # s
    PROVE  /\ Behind(s, x) \in SUBSET (Server \ {s})
           /\ x \in Behind(s, x)
           /\ \A z \in Server : uplink[s][z] \in Behind(s, x) => z \in Behind(s, x)
  <1>1. x \in Behind(s, x)
    BY DEF Behind
  <1>2. s \notin Behind(s, x)
    <2>1. \A z \in Server : uplink[s][z] \in Server \ {s} => z \in Server \ {s}
      BY ConstantsAssumption DEF TableInv
    <2>. DEFINE S == Server \ {s}
    <2>2. S \in SUBSET Server /\ x \in S /\ s \notin S
      OBVIOUS
    <2>. QED
      BY <2>1, <2>2 DEF Behind
  <1>3. ASSUME NEW z \in Server, uplink[s][z] \in Behind(s, x)
        PROVE  z \in Behind(s, x)
    BY <1>3 DEF Behind
  <1>. QED
    BY <1>1, <1>2, <1>3 DEF Behind

\* Forgetting a closed set of other servers keeps the tables well formed.
LEMMA ForgetTableInv ==
    ASSUME TableInv, NEW s \in Server, NEW gone \in SUBSET (Server \ {s}),
           \A z \in Server : uplink[s][z] \in gone => z \in gone,
           Forget(s, gone), used' = used
    PROVE  TableInv'
  <1>1. users' \in [Server -> SUBSET UserRec]
    BY DEF TableInv, Forget
  <1>2. \A q \in Server : IsFiniteSet(users'[q])
    <2>1. \A q \in Server : users'[q] \subseteq users[q]
      BY DEF TableInv, Forget
    <2>. QED
      BY <2>1, FS_Subset DEF TableInv
  <1>3. /\ uplink' \in [Server -> [Server -> Server \cup {None}]]
        /\ dir' \in [Server -> [Server -> Server \cup {None}]]
        /\ \A q \in Server : dir'[q][q] = q /\ uplink'[q][q] = None
    BY DEF TableInv, Forget
  <1>4. ASSUME NEW q \in Server
        PROVE  /\ \A r \in users'[q] : dir'[q][Home[r.uid]] # None
               /\ \A y \in Server \ {q} : dir'[q][y] # None =>
                      uplink'[q][y] \in Server /\ dir'[q][uplink'[q][y]] # None
    <2>1. /\ \A r \in users[q] : dir[q][Home[r.uid]] # None
          /\ \A y \in Server \ {q} : dir[q][y] # None =>
                 uplink[q][y] \in Server /\ dir[q][uplink[q][y]] # None
      BY DEF TableInv, NoOrphans, Known, Servers
    <2>2. \A r \in users'[q] : r \in users[q] /\ Home[r.uid] \in Server
      BY ConstantsAssumption DEF TableInv, Forget, UserRec
    <2>3. CASE q = s
      <3>1. \A r \in users'[s] : Home[r.uid] \notin gone
        BY DEF TableInv, Forget
      <3>2. \A y \in Server : /\ y \notin gone => dir'[s][y] = dir[s][y] /\ uplink'[s][y] = uplink[s][y]
                              /\ y \in gone => dir'[s][y] = None
        BY DEF TableInv, Forget
      <3>. QED
        BY <2>1, <2>2, <2>3, <3>1, <3>2
    <2>4. CASE q # s
      <3>1. dir'[q] = dir[q] /\ uplink'[q] = uplink[q]
        BY <2>4 DEF TableInv, Forget
      <3>. QED
        BY <2>1, <2>2, <3>1
    <2>. QED
      BY <2>3, <2>4
  <1>5. NoOrphans'
    BY <1>4 DEF NoOrphans, Known, Servers
  <1>. QED
    BY <1>1, <1>2, <1>3, <1>5 DEF TableInv

\* Adding server x, introduced by a known server y, keeps the tables well formed.
LEMMA AddServerTableInv ==
    ASSUME TableInv, NEW s \in Server, NEW x \in Server, NEW y \in Server, NEW t \in Server,
           x # s, Known(s, y),
           uplink' = [uplink EXCEPT ![s][x] = y], dir' = [dir EXCEPT ![s][x] = t],
           users' = users, used' = used
    PROVE  TableInv'
  <1>1. /\ uplink' \in [Server -> [Server -> Server \cup {None}]]
        /\ dir' \in [Server -> [Server -> Server \cup {None}]]
        /\ \A q \in Server : dir'[q][q] = q /\ uplink'[q][q] = None
    BY DEF TableInv
  <1>2. ASSUME NEW q \in Server
        PROVE  /\ \A r \in users[q] : dir'[q][Home[r.uid]] # None
               /\ \A z \in Server \ {q} : dir'[q][z] # None =>
                      uplink'[q][z] \in Server /\ dir'[q][uplink'[q][z]] # None
    <2>1. /\ \A r \in users[q] : dir[q][Home[r.uid]] # None
          /\ \A z \in Server \ {q} : dir[q][z] # None =>
                 uplink[q][z] \in Server /\ dir[q][uplink[q][z]] # None
      BY DEF TableInv, NoOrphans, Known, Servers
    <2>2. \A r \in users[q] : Home[r.uid] \in Server
      BY ConstantsAssumption DEF TableInv, UserRec
    <2>3. \A z \in Server : /\ dir[q][z] # None => dir'[q][z] # None
                            /\ q # s \/ z # x => dir'[q][z] = dir[q][z] /\ uplink'[q][z] = uplink[q][z]
      BY ConstantsAssumption DEF TableInv
    <2>4. uplink'[s][x] = y /\ dir'[s][y] # None
      BY <2>3, ConstantsAssumption DEF TableInv, Known
    <2>. QED
      BY <2>1, <2>2, <2>3, <2>4
  <1>3. NoOrphans'
    BY <1>2 DEF NoOrphans, Known, Servers
  <1>. QED
    BY <1>1, <1>3 DEF TableInv

\* Replacing the users of s by users of servers known to s keeps them so.
LEMMA UsersTableInv ==
    ASSUME TableInv, NEW s \in Server, NEW S \in SUBSET UserRec, IsFiniteSet(S),
           \A r \in S : Known(s, Home[r.uid]),
           users' = [users EXCEPT ![s] = S],
           uplink' = uplink, dir' = dir, used' \subseteq UID
    PROVE  TableInv'
  <1>1. users' \in [Server -> SUBSET UserRec] /\ \A q \in Server : IsFiniteSet(users'[q])
    BY DEF TableInv
  <1>2. \A q \in Server : \A r \in users'[q] : Known(q, Home[r.uid])
    BY DEF TableInv, NoOrphans
  <1>3. NoOrphans'
    BY <1>2 DEF TableInv, NoOrphans, Known, Servers
  <1>. QED
    BY <1>1, <1>3 DEF TableInv

\* The same for the forms of the user actions: some leave and one enters,
LEMMA EnterTableInv ==
    ASSUME TableInv, NEW s \in Server, NEW L, NEW new \in UserRec,
           Known(s, Home[new.uid]),
           users' = [users EXCEPT ![s] = (@ \ L) \cup {new}],
           uplink' = uplink, dir' = dir, used' \subseteq UID
    PROVE  TableInv'
  <1>. DEFINE S == (users[s] \ L) \cup {new}
  <1>1. IsFiniteSet(users[s] \ L)
    BY FS_Subset DEF TableInv
  <1>2. IsFiniteSet(S)
    BY <1>1, FS_AddElement
  <1>3. S \in SUBSET UserRec /\ \A r \in S : Known(s, Home[r.uid])
    BY DEF TableInv, NoOrphans
  <1>4. users' = [users EXCEPT ![s] = S]
    OBVIOUS
  <1>. HIDE DEF S
  <1>. QED
    BY <1>2, <1>3, <1>4, UsersTableInv

\* or some only leave.
LEMMA LeaveTableInv ==
    ASSUME TableInv, NEW s \in Server, NEW L,
           users' = [users EXCEPT ![s] = @ \ L],
           uplink' = uplink, dir' = dir, used' = used
    PROVE  TableInv'
  <1>. DEFINE S == users[s] \ L
  <1>1. IsFiniteSet(S)
    BY FS_Subset DEF TableInv
  <1>2. S \in SUBSET UserRec /\ \A r \in S : Known(s, Home[r.uid])
    BY DEF TableInv, NoOrphans
  <1>3. used' \subseteq UID
    BY DEF TableInv
  <1>4. users' = [users EXCEPT ![s] = S]
    OBVIOUS
  <1>. HIDE DEF S
  <1>. QED
    BY <1>1, <1>2, <1>3, <1>4, UsersTableInv

\* exit_client_ex of a server, whoever asked for it, keeps the invariant.
LEMMA ExitServerInv ==
    ASSUME LinkInv, TableInv, NEW s \in Server,
           NEW from \in Server \cup {None}, from # None => chan[from][s] # <<>>,
           NEW x \in Server, x # s, NEW origin,
           ExitServer(s, from, x, origin), used' = used
    PROVE  LinkInv' /\ TableInv'
  <1>1. ToServers(Up(s), {x, origin}, SQUIT(x)) \in Out
    BY OutTypes, MessageTypes
  <1>2. PICK c \in Server \cup {None} :
            Net(s, from, c, ToServers(Up(s), {x, origin}, SQUIT(x)))
    BY DEF ExitServer
  <1>3. LinkInv'
    BY <1>1, <1>2, NetLinkInv
  <1>4. TableInv'
    BY BehindProperties, ForgetTableInv DEF ExitServer
  <1>. QED
    BY <1>3, <1>4

-----------------------------------------------------------------------------
(* The actions, one by one *)

\* A received message is a message, and it comes from another server.
LEMMA ReceivedMessage ==
    ASSUME LinkInv, NEW s \in Server, NEW t \in Server, chan[t][s] # <<>>
    PROVE  Head(chan[t][s]) \in Msg /\ t # s /\ t # None
  BY HeadTailProperties, ConstantsAssumption DEF LinkInv, Streams

\* What a client or an operator does at its server.
LEMMA ClientStepInv ==
    ASSUME IInv, NEW s \in Server, ClientStep(s)
    PROVE  IInv'
  <1>. USE DEF IInv
  <1>0. ASSUME NEW r \in users[s]
        PROVE  r \in UserRec /\ r.uid \in UID /\ Known(s, Home[r.uid])
    BY <1>0 DEF TableInv, NoOrphans, UserRec
  <1>1. ASSUME NEW u \in UID, NEW n \in Nick, NEW ts \in TS, NickFirst(s, u, n, ts)
        PROVE  IInv'
    <2>. DEFINE new == [uid |-> u, nick |-> n, ts |-> ts, reg |-> FALSE]
    <2>1. new \in UserRec /\ Known(s, Home[new.uid])
      BY <1>1, ConstantsAssumption DEF NickFirst, UserRec, Known, TableInv
    <2>2. users' = [users EXCEPT ![s] = (@ \ ByNick(s, n)) \cup {new}]
      BY <1>1 DEF NickFirst
    <2>3. TableInv'
      <3>. HIDE DEF new
      <3>1. used' \subseteq UID
        BY <1>1 DEF NickFirst, TableInv
      <3>2. uplink' = uplink /\ dir' = dir
        BY <1>1 DEF NickFirst
      <3>. QED
        BY <2>1, <2>2, <3>1, <3>2, EnterTableInv
    <2>. QED
      BY <1>1, <2>3, ConstantsAssumption DEF NickFirst, links, LinkInv, CountInv, ClientInput
  <1>2. ASSUME NEW r \in users[s], Register(s, r)
        PROVE  IInv'
    <2>. DEFINE new == [r EXCEPT !.reg = TRUE]
    <2>1. new \in UserRec /\ Known(s, Home[new.uid])
      BY <1>0 DEF UserRec
    <2>2. TableInv'
      <3>. HIDE DEF new
      <3>1. users' = [users EXCEPT ![s] = (@ \ {r}) \cup {new}]
        BY <1>2 DEF Register, new
      <3>2. used' \subseteq UID
        BY <1>2 DEF Register, TableInv
      <3>3. uplink' = uplink /\ dir' = dir
        BY <1>2 DEF Register
      <3>. QED
        BY <2>1, <3>1, <3>2, <3>3, EnterTableInv
    <2>3. LinkInv'
      BY <1>0, <1>2, NetLinkInv, OutTypes, MessageTypes DEF Register
    <2>. QED
      BY <1>2, <2>2, <2>3 DEF Register, CountInv
  <1>3. ASSUME NEW r \in users[s], NEW n \in Nick, NEW ts \in TS, NickChange(s, r, n, ts)
        PROVE  IInv'
    <2>. DEFINE new == [r EXCEPT !.nick = n, !.ts = IF r.reg THEN ts ELSE @]
    <2>1. new \in UserRec /\ Known(s, Home[new.uid])
      BY <1>0 DEF UserRec
    <2>2. TableInv'
      <3>. HIDE DEF new
      <3>1. users' = [users EXCEPT ![s] = (@ \ ({r} \cup ByNick(s, n))) \cup {new}]
        BY <1>3 DEF NickChange, new
      <3>2. used' \subseteq UID
        BY <1>3 DEF NickChange, TableInv
      <3>3. uplink' = uplink /\ dir' = dir
        BY <1>3 DEF NickChange
      <3>. QED
        BY <2>1, <3>1, <3>2, <3>3, EnterTableInv
    <2>3. LinkInv'
      BY <1>0, <1>3, NetLinkInv, OutTypes, MessageTypes DEF NickChange
    <2>. QED
      BY <1>3, <2>2, <2>3, ConstantsAssumption DEF NickChange, CountInv, ClientInput
  <1>4. ASSUME NEW r \in users[s], Quit(s, r)
        PROVE  IInv'
    <2>2. TableInv'
      BY <1>4, LeaveTableInv DEF Quit
    <2>3. LinkInv'
      BY <1>0, <1>4, NetLinkInv, OutTypes, MessageTypes DEF Quit
    <2>. QED
      BY <1>4, <2>2, <2>3, ConstantsAssumption DEF Quit, CountInv, ClientInput
  <1>5. ASSUME NEW oper \in users[s], NEW r \in users[s], OperKill(s, oper, r)
        PROVE  IInv'
    <2>2. TableInv'
      BY <1>5, LeaveTableInv DEF OperKill
    <2>3. LinkInv'
      BY <1>0, <1>5, NetLinkInv, OutTypes, MessageTypes DEF OperKill
    <2>. QED
      BY <1>5, <2>2, <2>3, ConstantsAssumption DEF OperKill, CountInv, OperInput
  <1>6. ASSUME NEW oper \in users[s], NEW x \in Server, OperSquit(s, oper, x)
        PROVE  IInv'
    <2>1. LinkInv' /\ TableInv'
      BY <1>6, ExitServerInv DEF OperSquit
    <2>. QED
      BY <1>6, <2>1, ConstantsAssumption DEF OperSquit, CountInv, OperInput
  <1>. QED
    BY <1>1, <1>2, <1>3, <1>4, <1>5, <1>6 DEF ClientStep

\* Connections are made and closed.
LEMMA ConnectionInv ==
    ASSUME IInv, NEW s \in Server, NEW t \in Server,
           Connect(s, t) \/ ReadEOF(s, t) \/ LoseLink(s, t)
    PROVE  IInv'
  <1>. USE DEF IInv
  <1>1. ASSUME Connect(s, t)
        PROVE  IInv'
    <2>1. TableInv'
      BY <1>1 DEF Connect, tables, TableInv, NoOrphans, Known, Servers
    <2>2. <<EAUTH(Servers(s), FALSE)>> \in Seq(Msg) /\ <<>> \in Seq(Msg)
      <3>. DEFINE m == EAUTH(Servers(s), FALSE)
      <3>1. m \in Msg
        BY MessageTypes DEF Servers
      <3>. HIDE DEF m
      <3>2. <<m>> \in Seq(Msg) /\ <<>> \in Seq(Msg)
        BY <3>1
      <3>. QED
        BY <3>2 DEF m
    <2>3. chan' \in Streams
      BY <1>1, <2>2 DEF Connect, LinkInv, Streams
    <2>4. LinkInv'
      BY <1>1, <2>3 DEF Connect, LinkInv, ConnState
    <2>5. CountInv'
      BY <1>1, ConstantsAssumption DEF Connect, CountInv
    <2>. QED
      BY <2>1, <2>4, <2>5
  <1>2. ASSUME CloseLink(s, t)
        PROVE  IInv'
    <2>1. t # s
      BY <1>2 DEF CloseLink, LinkInv
    <2>2. CASE conn[s][t] = "up"
      <3>1. LinkInv' /\ TableInv'
        BY <1>2, <2>1, <2>2, ExitServerInv DEF CloseLink
      <3>. QED
        BY <1>2, <3>1 DEF CloseLink, CountInv
    <2>3. CASE conn[s][t] # "up"
      <3>1. LinkInv'
        BY <1>2, <2>3, NetLinkInv, OutTypes DEF CloseLink
      <3>2. TableInv'
        BY <1>2, <2>3 DEF CloseLink, tables, TableInv, NoOrphans, Known, Servers
      <3>. QED
        BY <1>2, <3>1, <3>2 DEF CloseLink, CountInv
    <2>. QED
      BY <2>2, <2>3
  <1>. QED
    BY <1>1, <1>2 DEF ReadEOF, LoseLink

\* The handshake: PROTOCTL and SERVER.
LEMMA HandshakeInv ==
    ASSUME IInv, NEW s \in Server, NEW t \in Server,
           RecvEAUTH(s, t) \/ RecvEAUTHReply(s, t) \/ RecvSERVER(s, t)
    PROVE  IInv'
  <1>. USE DEF IInv
  <1>. DEFINE m == Head(chan[t][s])
  <1>0. /\ chan[t][s] # <<>> /\ m \in Msg /\ t # s /\ t # None
        /\ m.type = "EAUTH" => m.known \in SUBSET Server
    BY ReceivedMessage, MessageFields DEF RecvEAUTH, RecvEAUTHReply, RecvSERVER, Receives
  <1>1. /\ Consume(chan, s, t) \in Streams
        /\ Alive(s) \in SUBSET Server /\ s \notin Alive(s)
        /\ s \notin Alive(s) \cup {t}
    BY <1>0, ConsumeStreams DEF LinkInv, Alive
  <1>2. ASSUME RecvEAUTH(s, t)
        PROVE  IInv'
    <2>. DEFINE old == Known(s, t) /\ dir[s][t] = t
                gone == IF old THEN Behind(s, t) ELSE {}
    <2>1. PICK deny \in BOOLEAN :
            /\ Forget(s, gone)
            /\ conn' = [conn EXCEPT ![s][t] = IF deny THEN "none" ELSE "in"]
            /\ dead' = (dead \ {<<s, t>>}) \cup (IF deny THEN {<<t, s>>} ELSE {})
            /\ pending' = [pending EXCEPT ![s][t] = IF deny THEN {} ELSE m.known]
            /\ chan' = Deliver(Consume(chan, s, t), s,
                          Cat(ToServers(IF old THEN Up(s) ELSE {}, {t}, SQUIT(t)),
                              IF deny THEN NoOut ELSE One(t, EAUTH(Servers(s) \ gone, TRUE))),
                          Alive(s) \cup {t})
      BY <1>2 DEF RecvEAUTH
    <2>2. m.known \in SUBSET Server
      BY <1>0, <1>2 DEF RecvEAUTH, Receives
    <2>3. TableInv'
      <3>1. gone \in SUBSET (Server \ {s}) /\ \A z \in Server : uplink[s][z] \in gone => z \in gone
        BY <1>0, BehindProperties
      <3>. HIDE DEF gone
      <3>. QED
        BY <1>2, <2>1, <3>1, ForgetTableInv DEF RecvEAUTH
    <2>4. chan' \in Streams
      <3>1. EAUTH(Servers(s) \ gone, TRUE) \in Msg /\ SQUIT(t) \in Msg
        BY MessageTypes DEF Servers
      <3>2. (IF deny THEN NoOut ELSE One(t, EAUTH(Servers(s) \ gone, TRUE))) \in Out
        BY <3>1, OutTypes
      <3>3. ToServers(IF old THEN Up(s) ELSE {}, {t}, SQUIT(t)) \in Out
        BY <3>1, OutTypes
      <3>4. Cat(ToServers(IF old THEN Up(s) ELSE {}, {t}, SQUIT(t)),
                IF deny THEN NoOut ELSE One(t, EAUTH(Servers(s) \ gone, TRUE))) \in Out
        BY <3>2, <3>3, OutTypes
      <3>. QED
        BY <1>1, <2>1, <3>4, DeliverStreams
    <2>5. conn' \in [Server -> [Server -> ConnState]] /\ \A x \in Server : conn'[x][x] = "none"
      BY <1>0, <2>1 DEF LinkInv, ConnState
    <2>6. dead' \subseteq Server \X Server
      BY <2>1 DEF LinkInv
    <2>7. pending' \in [Server -> [Server -> SUBSET Server]]
      <3>. HIDE DEF m
      <3>. QED
        BY <2>1, <2>2 DEF LinkInv
    <2>8. LinkInv'
      BY <2>4, <2>5, <2>6, <2>7 DEF LinkInv, Streams
    <2>. QED
      BY <1>2, <2>3, <2>8 DEF RecvEAUTH, CountInv
  <1>3. ASSUME RecvEAUTHReply(s, t)
        PROVE  IInv'
    <2>1. m.known \in SUBSET Server
      BY <1>0, <1>3 DEF RecvEAUTHReply, Receives
    <2>2. LinkInv'
      <3>1. CASE Net(s, t, t, NoOut)
        BY <1>0, <3>1, NetLinkInv, OutTypes
      <3>2. CASE /\ conn' = [conn EXCEPT ![s][t] = "sent"]
                 /\ pending' = [pending EXCEPT ![s][t] = m.known]
                 /\ chan' = Deliver(Consume(chan, s, t), s, One(t, SERVER), Alive(s))
                 /\ UNCHANGED dead
        <4>1. chan' \in Streams
          BY <1>1, <3>2, DeliverStreams, OutTypes, MessageTypes
        <4>. QED
          BY <1>0, <2>1, <3>2, <4>1 DEF LinkInv, ConnState
      <3>. QED
        BY <1>3, <3>1, <3>2 DEF RecvEAUTHReply
    <2>. QED
      BY <1>3, <2>2 DEF RecvEAUTHReply, tables, TableInv, NoOrphans, Known, Servers, CountInv
  <1>4. ASSUME RecvSERVER(s, t)
        PROVE  IInv'
    <2>1. CASE Known(s, t)
      <3>1. LinkInv'
        BY <1>0, <1>4, <2>1, NetLinkInv, OutTypes DEF RecvSERVER
      <3>. QED
        BY <1>4, <2>1, <3>1 DEF RecvSERVER, tables, TableInv, NoOrphans, Known, Servers, CountInv
    <2>2. CASE ~Known(s, t)
      <3>1. PICK sl \in ServerListings(s, Servers(s) \ {s}), ul \in Listings(Registered(s)) :
              LET greeting == IF conn[s][t] = "in" THEN <<SERVER>> ELSE <<>>
                  burst == greeting \o [i \in DOMAIN sl |-> SID(uplink[s][sl[i]], sl[i])]
                                    \o [i \in DOMAIN ul |-> UIDmsg(ul[i])]
              IN  /\ conn' = [conn EXCEPT ![s][t] = "up"]
                  /\ pending' = [pending EXCEPT ![s][t] = {}]
                  /\ uplink' = [uplink EXCEPT ![s][t] = s]
                  /\ dir' = [dir EXCEPT ![s][t] = t]
                  /\ chan' = Deliver(Consume(chan, s, t), s,
                                 Cat(ToServers(Up(s), {t}, SID(s, t)),
                                     [NoOut EXCEPT ![t] = burst]), Alive(s))
                  /\ UNCHANGED <<dead, users>>
        BY <1>4, <2>2 DEF RecvSERVER
      <3>. DEFINE greeting == IF conn[s][t] = "in" THEN <<SERVER>> ELSE <<>>
                  sids == [i \in DOMAIN sl |-> SID(uplink[s][sl[i]], sl[i])]
                  uids == [i \in DOMAIN ul |-> UIDmsg(ul[i])]
                  burst == greeting \o sids \o uids
      <3>2. greeting \in Seq(Msg)
        <4>1. \A x \in Msg : <<x>> \in Seq(Msg)
          OBVIOUS
        <4>. QED
          BY <4>1, MessageTypes
      <3>3. sids \in Seq(Msg)
        <4>1. IsFiniteSet(Servers(s) \ {s})
          BY ConstantsAssumption, FS_Subset DEF Servers
        <4>2. PICK n \in Nat : sl \in [1..n -> Servers(s) \ {s}]
          BY <4>1, FS_CardinalityType DEF ServerListings, Listings
        <4>3. \A x \in Servers(s) \ {s} : SID(uplink[s][x], x) \in Msg
          BY MessageTypes DEF TableInv, NoOrphans, Servers
        <4>4. DOMAIN sl = 1..n /\ \A i \in 1..n : SID(uplink[s][sl[i]], sl[i]) \in Msg
          BY <4>2, <4>3
        <4>. QED
          BY <4>4
      <3>4. uids \in Seq(Msg)
        <4>1. IsFiniteSet(Registered(s))
          BY FS_Subset DEF TableInv, Registered
        <4>2. PICK n \in Nat : ul \in [1..n -> Registered(s)]
          BY <4>1, FS_CardinalityType DEF Listings
        <4>3. \A r \in Registered(s) : UIDmsg(r) \in Msg
          BY MessageTypes DEF TableInv, Registered
        <4>4. DOMAIN ul = 1..n /\ \A i \in 1..n : UIDmsg(ul[i]) \in Msg
          BY <4>2, <4>3
        <4>. QED
          BY <4>4
      <3>5. burst \in Seq(Msg)
        <4>. HIDE DEF greeting, sids, uids
        <4>1. greeting \o sids \in Seq(Msg)
          BY <3>2, <3>3, ConcatProperties
        <4>. QED
          BY <3>4, <4>1, ConcatProperties
      <3>6. chan' \in Streams
        <4>. HIDE DEF burst
        <4>1. [NoOut EXCEPT ![t] = burst] \in Out
          BY <3>5, OutTypes DEF Out
        <4>2. ToServers(Up(s), {t}, SID(s, t)) \in Out
          BY OutTypes, MessageTypes
        <4>3. chan' = Deliver(Consume(chan, s, t), s,
                          Cat(ToServers(Up(s), {t}, SID(s, t)),
                              [NoOut EXCEPT ![t] = burst]), Alive(s))
          BY <3>1 DEF burst
        <4>4. Cat(ToServers(Up(s), {t}, SID(s, t)), [NoOut EXCEPT ![t] = burst]) \in Out
          BY <4>1, <4>2, OutTypes
        <4>. QED
          BY <1>1, <4>3, <4>4, DeliverStreams
      <3>7. LinkInv'
        BY <1>0, <3>1, <3>6 DEF LinkInv, ConnState
      <3>8. used' = used /\ users' = users
        BY <1>4, <3>1 DEF RecvSERVER
      <3>9. TableInv'
        <4>1. Known(s, s)
          BY ConstantsAssumption DEF TableInv, Known
        <4>. QED
          BY <1>0, <3>1, <3>8, <4>1, AddServerTableInv
      <3>. QED
        BY <1>4, <3>7, <3>9 DEF RecvSERVER, CountInv
    <2>. QED
      BY <2>1, <2>2
  <1>. QED
    BY <1>2, <1>3, <1>4

\* Messages that parse2 turns away, and those about servers.
LEMMA ServerMessageInv ==
    ASSUME IInv, NEW s \in Server, NEW t \in Server,
           RecvBadSource(s, t) \/ RecvSID(s, t) \/ RecvSQUIT(s, t)
    PROVE  IInv'
  <1>. USE DEF IInv
  <1>. DEFINE m == Head(chan[t][s])
  <1>0. chan[t][s] # <<>> /\ m \in Msg /\ t # s /\ t # None
    BY ReceivedMessage DEF RecvBadSource, RecvSID, RecvSQUIT, Accepts, Receives
  <1>1. ASSUME NEW out \in Out, Reply(s, t, out), used' = used
        PROVE  LinkInv' /\ TableInv'
    BY <1>0, <1>1, NetLinkInv, SMTT(30) DEF Reply, tables, TableInv, NoOrphans, Known, Servers
  <1>2. ASSUME RecvBadSource(s, t)
        PROVE  IInv'
    <2>1. Source(m) \in Server \cup UID
      <3>1. m.type \in {"SID", "UID", "NICK", "QUIT", "KILL"}
        BY <1>2 DEF RecvBadSource, Receives
      <3>. HIDE DEF m
      <3>. QED
        BY <1>0, <3>1, MessageFields, ConstantsAssumption DEF Source
    <2>2. (IF Source(m) \in UID THEN KILL(s, Source(m)) ELSE SQUIT(Source(m))) \in Msg
      <3>. HIDE DEF m
      <3>. QED
        BY <2>1, MessageTypes
    <2>3. (IF SourceKnown(s, Source(m)) THEN NoOut
           ELSE One(t, IF Source(m) \in UID THEN KILL(s, Source(m)) ELSE SQUIT(Source(m)))) \in Out
      <3>. HIDE DEF m
      <3>. QED
        BY <2>2, OutTypes
    <2>4. LinkInv' /\ TableInv'
      BY <1>1, <1>2, <2>3 DEF RecvBadSource
    <2>. QED
      BY <1>2, <2>4 DEF RecvBadSource, CountInv
  <1>3. ASSUME RecvSID(s, t)
        PROVE  IInv'
    <2>1. m.src \in Server /\ m.id \in Server /\ Known(s, m.src) /\ dir[s][m.src] = t
      <3>1. m.type = "SID" /\ SourceKnown(s, Source(m)) /\ Direction(s, Source(m)) = t
        BY <1>3 DEF RecvSID, Accepts, Receives
      <3>2. m.src \in Server /\ m.id \in Server
        BY <1>0, <3>1, MessageFields
      <3>3. Source(m) = m.src /\ m.src \notin UID
        BY <3>1, <3>2, ConstantsAssumption DEF Source
      <3>. QED
        BY <1>0, <3>1, <3>2, <3>3 DEF Direction, Known
    <2>2. m.src # s
      BY <1>0, <2>1 DEF TableInv
    <2>3. used' = used /\ CountInv'
      BY <1>3 DEF RecvSID, CountInv
    <2>4. CASE m.id = s
      <3>1. ExitServer(s, t, m.src, t)
        BY <1>3, <2>4 DEF RecvSID
      <3>. HIDE DEF m
      <3>. QED
        BY <1>0, <2>1, <2>2, <2>3, <3>1, ExitServerInv
    <2>5. CASE m.id # s /\ Hashed(s, m.id)
      <3>1. Reply(s, t, One(t, SQUIT(m.id)))
        BY <1>3, <2>5 DEF RecvSID
      <3>2. One(t, SQUIT(m.id)) \in Out
        BY <2>1, OutTypes, MessageTypes
      <3>. QED
        BY <1>1, <2>3, <3>1, <3>2
    <2>6. CASE m.id # s /\ ~Hashed(s, m.id)
      <3>1. /\ uplink' = [uplink EXCEPT ![s][m.id] = m.src]
            /\ dir' = [dir EXCEPT ![s][m.id] = t]
            /\ Net(s, t, None, ToServers(Up(s), {t}, m))
            /\ users' = users
        BY <1>3, <2>6 DEF RecvSID
      <3>. HIDE DEF m
      <3>2. ToServers(Up(s), {t}, m) \in Out
        BY <1>0, OutTypes
      <3>3. LinkInv'
        BY <1>0, <3>1, <3>2, NetLinkInv
      <3>4. TableInv'
        BY <2>1, <2>3, <2>6, <3>1, AddServerTableInv
      <3>. QED
        BY <2>3, <3>3, <3>4
    <2>. QED
      BY <2>4, <2>5, <2>6
  <1>4. ASSUME RecvSQUIT(s, t)
        PROVE  IInv'
    <2>. DEFINE target == IF m.id = s THEN t ELSE m.id
    <2>1. m.id \in Server
      BY <1>0, <1>4, MessageFields DEF RecvSQUIT, Receives
    <2>2. target \in Server /\ target # s
      BY <1>0, <2>1
    <2>3. ExitServer(s, t, target, t) \/ Reply(s, t, NoOut)
      BY <1>4 DEF RecvSQUIT
    <2>4. used' = used /\ CountInv'
      BY <1>4 DEF RecvSQUIT, CountInv
    <2>. HIDE DEF target
    <2>5. LinkInv' /\ TableInv'
      BY <1>0, <1>1, <2>2, <2>3, <2>4, ExitServerInv, OutTypes
    <2>. QED
      BY <2>4, <2>5
  <1>. QED
    BY <1>2, <1>3, <1>4

\* A collision sends KILLs only.
LEMMA CollisionOutType ==
    ASSUME NEW s \in Server, NEW t \in Server, NEW u \in UID, NEW changing \in BOOLEAN,
           NEW ex \in UserRec, NEW verdict
    PROVE  CollisionOut(s, t, u, changing, ex, verdict) \in Out
  <1>1. KILL(s, u) \in Msg /\ KILL(s, ex.uid) \in Msg
    BY MessageTypes DEF UserRec
  <1>2. (IF changing THEN ToServers(Up(s), {t}, KILL(s, u)) ELSE NoOut) \in Out
    BY <1>1, OutTypes
  <1>3. Cat(One(t, KILL(s, u)),
            IF changing THEN ToServers(Up(s), {t}, KILL(s, u)) ELSE NoOut) \in Out
    BY <1>1, <1>2, OutTypes
  <1>4. (IF verdict \in {"equal", "new_won"}
           THEN ToServers(Up(s), {}, KILL(s, ex.uid)) ELSE NoOut) \in Out
    BY <1>1, OutTypes
  <1>5. (IF verdict \in {"equal", "existing_won"}
           THEN Cat(One(t, KILL(s, u)),
                    IF changing THEN ToServers(Up(s), {t}, KILL(s, u)) ELSE NoOut)
           ELSE NoOut) \in Out
    BY <1>3, OutTypes
  <1>. QED
    BY <1>4, <1>5, OutTypes DEF CollisionOut

\* Messages about users.
LEMMA UserMessageInv ==
    ASSUME IInv, NEW s \in Server, NEW t \in Server,
           RecvUID(s, t) \/ RecvNICK(s, t) \/ RecvQUIT(s, t) \/ RecvKILL(s, t)
    PROVE  IInv'
  <1>. USE DEF IInv
  <1>. DEFINE m == Head(chan[t][s])
  <1>0. /\ chan[t][s] # <<>> /\ m \in Msg /\ t # s /\ t # None
        /\ m.type \in {"UID", "NICK", "QUIT", "KILL"} /\ m.uid \in UID
        /\ m.type \in {"UID", "NICK"} => m.nick \in Nick /\ m.ts \in TS
        /\ SourceKnown(s, Source(m))
    <2>1. chan[t][s] # <<>> /\ m.type \in {"UID", "NICK", "QUIT", "KILL"}
      BY DEF RecvUID, RecvNICK, RecvQUIT, RecvKILL, Accepts, Receives
    <2>2. m \in Msg /\ t # s /\ t # None
      BY <2>1, ReceivedMessage
    <2>3. SourceKnown(s, Source(m))
      BY DEF RecvUID, RecvNICK, RecvQUIT, RecvKILL, Accepts
    <2>. QED
      BY <2>1, <2>2, <2>3, MessageFields
  <1>1. used' = used /\ uplink' = uplink /\ dir' = dir /\ CountInv'
    BY DEF RecvUID, RecvNICK, RecvQUIT, RecvKILL, Reply, tables, CountInv
  <1>2. used' \subseteq UID
    BY <1>1 DEF TableInv
  <1>3. ASSUME NEW out \in Out, Net(s, t, None, out)
        PROVE  LinkInv'
    BY <1>0, <1>3, NetLinkInv
  <1>4. ToServers(Up(s), {t}, m) \in Out
    <2>. HIDE DEF m
    <2>. QED
      BY <1>0, OutTypes
  <1>5. ASSUME NEW L, NEW new \in UserRec, NEW enters \in BOOLEAN, Known(s, Home[new.uid]),
               users' = [users EXCEPT ![s] = (@ \ L) \cup (IF enters THEN {new} ELSE {})]
        PROVE  TableInv'
    <2>1. CASE enters
      BY <1>1, <1>2, <1>5, <2>1, EnterTableInv
    <2>2. CASE ~enters
      <3>1. users' = [users EXCEPT ![s] = @ \ L]
        BY <1>5, <2>2 DEF TableInv
      <3>. QED
        BY <1>1, <3>1, LeaveTableInv
    <2>. QED
      BY <2>1, <2>2
  <1>6. ASSUME NEW ex \in users[s], NEW changing \in BOOLEAN, NEW verdict, NEW enters \in BOOLEAN
        PROVE  Cat(CollisionOut(s, t, m.uid, changing, ex, verdict),
                   IF enters THEN ToServers(Up(s), {t}, m) ELSE NoOut) \in Out
    <2>1. CollisionOut(s, t, m.uid, changing, ex, verdict) \in Out
      BY <1>0, CollisionOutType DEF TableInv
    <2>. HIDE DEF m
    <2>2. (IF enters THEN ToServers(Up(s), {t}, m) ELSE NoOut) \in Out
      BY <1>4, OutTypes
    <2>. QED
      BY <2>1, <2>2, OutTypes
  <1>7. ASSUME RecvUID(s, t)
        PROVE  IInv'
    <2>. DEFINE new == [uid |-> m.uid, nick |-> m.nick, ts |-> m.ts, reg |-> TRUE]
    <2>1. m.type = "UID" /\ Source(m) = Home[m.uid] /\ Direction(s, Source(m)) = t
      BY <1>7 DEF RecvUID, Accepts, Receives, Source
    <2>2. new \in UserRec /\ Known(s, Home[new.uid])
      BY <1>0, <2>1, ConstantsAssumption DEF UserRec, Direction, Known
    <2>3. CASE users' = [users EXCEPT ![s] = @ \cup {new}] /\ Net(s, t, None, ToServers(Up(s), {t}, m))
      <3>. HIDE DEF m, new
      <3>1. users' = [users EXCEPT ![s] = (@ \ {}) \cup (IF TRUE THEN {new} ELSE {})]
        BY <2>3 DEF TableInv
      <3>. QED
        BY <1>1, <1>3, <1>4, <1>5, <2>2, <2>3, <3>1
    <2>4. ASSUME NEW ex \in users[s], NEW verdict, NEW enters \in BOOLEAN,
                 users' = [users EXCEPT ![s] = (@ \ CollisionLosers(s, m.uid, FALSE, ex, verdict))
                              \cup (IF enters THEN {new} ELSE {})],
                 Net(s, t, None, Cat(CollisionOut(s, t, m.uid, FALSE, ex, verdict),
                                     IF enters THEN ToServers(Up(s), {t}, m) ELSE NoOut))
          PROVE  IInv'
      <3>. HIDE DEF m, new
      <3>1. TableInv'
        BY <1>5, <2>2, <2>4
      <3>2. LinkInv'
        BY <1>3, <1>6, <2>4
      <3>. QED
        BY <1>1, <3>1, <3>2
    <2>. QED
      BY <1>7, <2>3, <2>4 DEF RecvUID, ByNick
  <1>8. ASSUME RecvNICK(s, t)
        PROVE  IInv'
    <2>1. PICK r \in ByUID(s, m.uid) :
             LET new == [r EXCEPT !.nick = m.nick, !.ts = m.ts]
             IN  \/ Reply(s, t, NoOut)
                 \/ /\ users' = [users EXCEPT ![s] = (@ \ {r}) \cup {new}]
                    /\ Net(s, t, None, ToServers(Up(s), {t}, m))
                 \/ \E ex \in ByNick(s, m.nick) \ {r} :
                    LET verdict == Verdict(s, ex, m.uid, m.ts, FALSE)
                        enters == verdict \in {"overridden", "new_won"}
                    IN  /\ users' = [users EXCEPT ![s] =
                              (@ \ ({r} \cup CollisionLosers(s, m.uid, TRUE, ex, verdict)))
                                  \cup (IF enters THEN {new} ELSE {})]
                        /\ Net(s, t, None, Cat(CollisionOut(s, t, m.uid, TRUE, ex, verdict),
                                       IF enters THEN ToServers(Up(s), {t}, m) ELSE NoOut))
      BY <1>8 DEF RecvNICK
    <2>. DEFINE new == [r EXCEPT !.nick = m.nick, !.ts = m.ts]
    <2>2. m.nick \in Nick /\ m.ts \in TS
      BY <1>0, <1>8 DEF RecvNICK, Accepts, Receives
    <2>3. r \in UserRec /\ Known(s, Home[r.uid])
      BY <2>1 DEF ByUID, TableInv, NoOrphans
    <2>4. new \in UserRec /\ Known(s, Home[new.uid])
      <3>. HIDE DEF m
      <3>. QED
        BY <2>2, <2>3 DEF UserRec
    <2>5. CASE Reply(s, t, NoOut)
      BY <1>1, <1>3, <2>5, OutTypes DEF Reply, tables, TableInv, NoOrphans, Known, Servers
    <2>6. CASE users' = [users EXCEPT ![s] = (@ \ {r}) \cup {new}] /\ Net(s, t, None, ToServers(Up(s), {t}, m))
      <3>. HIDE DEF m, new
      <3>1. users' = [users EXCEPT ![s] = (@ \ {r}) \cup (IF TRUE THEN {new} ELSE {})]
        BY <2>6
      <3>. QED
        BY <1>1, <1>3, <1>4, <1>5, <2>4, <2>6, <3>1
    <2>7. ASSUME NEW ex \in users[s], NEW verdict, NEW enters \in BOOLEAN,
                 users' = [users EXCEPT ![s] =
                              (@ \ ({r} \cup CollisionLosers(s, m.uid, TRUE, ex, verdict)))
                                  \cup (IF enters THEN {new} ELSE {})],
                 Net(s, t, None, Cat(CollisionOut(s, t, m.uid, TRUE, ex, verdict),
                                     IF enters THEN ToServers(Up(s), {t}, m) ELSE NoOut))
          PROVE  IInv'
      <3>. HIDE DEF m, new
      <3>1. TableInv'
        BY <1>5, <2>4, <2>7
      <3>2. LinkInv'
        BY <1>3, <1>6, <2>7
      <3>. QED
        BY <1>1, <3>1, <3>2
    <2>. QED
      BY <2>1, <2>5, <2>6, <2>7 DEF ByNick
  <1>9. ASSUME RecvQUIT(s, t) \/ RecvKILL(s, t)
        PROVE  IInv'
    <2>1. \E L : users' = [users EXCEPT ![s] = @ \ L]
      BY <1>9 DEF RecvQUIT, RecvKILL
    <2>2. TableInv'
      BY <1>1, <2>1, LeaveTableInv
    <2>3. ToServers(Up(s), {}, QUIT(m.uid)) \in Out
      BY <1>0, OutTypes, MessageTypes
    <2>4. \E out \in Out : Net(s, t, None, out)
      <3>. HIDE DEF m
      <3>1. \/ Net(s, t, None, ToServers(Up(s), {t}, m))
            \/ Net(s, t, None, NoOut)
            \/ Net(s, t, None, ToServers(Up(s), {}, QUIT(m.uid)))
        BY <1>9 DEF RecvQUIT, RecvKILL, m
      <3>. QED
        BY <1>4, <2>3, <3>1, OutTypes
    <2>. QED
      BY <1>1, <1>3, <2>2, <2>4
  <1>. QED
    BY <1>7, <1>8, <1>9

-----------------------------------------------------------------------------
(* The theorems *)

\* IInv holds initially and every step keeps it.
LEMMA IInvInit == Init => IInv
  <1>. SUFFICES ASSUME Init PROVE IInv
    OBVIOUS
  <1>1. LinkInv
    BY DEF Init, LinkInv, Streams, ConnState
  <1>2. TableInv
    BY FS_EmptySet, ConstantsAssumption DEF Init, TableInv, NoOrphans, Known, Servers
  <1>3. CountInv
    BY ConstantsAssumption DEF Init, CountInv
  <1>. QED
    BY <1>1, <1>2, <1>3 DEF IInv

\* Every step of the network keeps the inductive invariant.
LEMMA IInvNext == IInv /\ [Next]_vars => IInv'
  <1>. SUFFICES ASSUME IInv, [Next]_vars PROVE IInv'
    OBVIOUS
  <1>1. CASE UNCHANGED vars
    BY <1>1 DEF vars, IInv, LinkInv, TableInv, CountInv, NoOrphans, Known, Servers, Streams
  <1>2. CASE Next
    BY <1>2, ClientStepInv, ConnectionInv, HandshakeInv, ServerMessageInv, UserMessageInv
       DEF Next, Receive
  <1>. QED
    BY <1>1, <1>2

\* The inductive invariant is an invariant.
THEOREM Invariance == Spec => []IInv
  BY IInvInit, IInvNext, PTL DEF Spec

\* The variables always have their types: no handler sends, stores or reads
\* anything but a well-formed message or record, in particular server_sync
\* never bursts a server without its uplink.
THEOREM TypeCorrect == Spec => []TypeOK
  <1>1. IInv => TypeOK
    BY DEF IInv, LinkInv, TableInv, CountInv, Streams, TypeOK
  <1>. QED
    BY <1>1, Invariance, PTL

\* Whatever SQUITs, splits, relinks and duplicate links happen, no user stays
\* without its server and no server without its uplink (exit_client_ex,
\* cmd_sid, cmd_uid).
THEOREM NoOrphansHolds == Spec => []NoOrphans
  <1>1. IInv => NoOrphans
    BY DEF IInv, TableInv
  <1>. QED
    BY <1>1, Invariance, PTL

\* Replacing users of one server keeps nicks unique if the users that stay
\* do not have the nick of the one that enters.
LEMMA EnterNickUnique ==
    ASSUME NickUnique, users \in [Server -> SUBSET UserRec], NEW s \in Server, NEW L, NEW E,
           users' = [users EXCEPT ![s] = (@ \ L) \cup E],
           \A r1, r2 \in E : r1 = r2,
           \A new \in E : \A r \in users[s] : r.nick = new.nick => r \in L
    PROVE  NickUnique'
  <1>. SUFFICES ASSUME NEW q \in Server, NEW r1 \in users'[q], NEW r2 \in users'[q],
                       r1.nick = r2.nick
                PROVE  r1 = r2
    BY DEF NickUnique
  <1>1. CASE q # s
    BY <1>1 DEF NickUnique
  <1>2. CASE q = s
    BY <1>2 DEF NickUnique
  <1>. QED
    BY <1>1, <1>2

\* Every step keeps nicks unique.
LEMMA NickUniqueNext == IInv /\ NickUnique /\ [Next]_vars => NickUnique'
  <1>. SUFFICES ASSUME IInv, NickUnique, [Next]_vars PROVE NickUnique'
    OBVIOUS
  <1>0. users \in [Server -> SUBSET UserRec]
    BY DEF IInv, TableInv
  <1>1. ASSUME NEW s \in Server, NEW L, users' = [users EXCEPT ![s] = @ \ L]
        PROVE  NickUnique'
    <2>1. \A q \in Server : users'[q] \subseteq users[q]
      BY <1>0, <1>1
    <2>. QED
      BY <2>1 DEF NickUnique
  <1>2. ASSUME users' = users
        PROVE  NickUnique'
    BY <1>2 DEF NickUnique
  <1>3. ASSUME NEW s \in Server, NEW gone, Forget(s, gone)
        PROVE  NickUnique'
    <2>1. \A q \in Server : users'[q] \subseteq users[q]
      BY <1>0, <1>3 DEF Forget
    <2>. QED
      BY <2>1 DEF NickUnique
  <1>. DEFINE Enters(s, L, new) ==
                 /\ users' = [users EXCEPT ![s] = (@ \ L) \cup {new}]
                 /\ \A r \in users[s] : r.nick = new.nick => r \in L
  <1>a. ASSUME NEW s \in Server, NEW L, NEW new, Enters(s, L, new)
        PROVE  NickUnique'
    <2>. DEFINE E == {new}
    <2>1. /\ users' = [users EXCEPT ![s] = (@ \ L) \cup E]
          /\ \A r1, r2 \in E : r1 = r2
          /\ \A x \in E : \A r \in users[s] : r.nick = x.nick => r \in L
      BY <1>a
    <2>. HIDE DEF E
    <2>. QED
      BY <1>0, <2>1, EnterNickUnique
  <1>4. ASSUME NEW s \in Server, ClientStep(s)
        PROVE  NickUnique'
    <2>1. ASSUME NEW u \in UID, NEW n \in Nick, NEW ts \in TS, NickFirst(s, u, n, ts)
          PROVE  NickUnique'
      <3>. DEFINE new == [uid |-> u, nick |-> n, ts |-> ts, reg |-> FALSE]
      <3>1. Enters(s, ByNick(s, n), new)
        BY <2>1 DEF NickFirst, ByNick
      <3>. HIDE DEF new, Enters
      <3>. QED
        BY <1>a, <3>1
    <2>2. ASSUME NEW r \in users[s], Register(s, r)
          PROVE  NickUnique'
      <3>. DEFINE new == [r EXCEPT !.reg = TRUE]
      <3>1. new.nick = r.nick
        BY <1>0 DEF UserRec
      <3>2. users' = [users EXCEPT ![s] = (@ \ {r}) \cup {new}]
        BY <2>2 DEF Register
      <3>3. \A x \in users[s] : x.nick = new.nick => x \in {r}
        BY <3>1 DEF NickUnique
      <3>4. Enters(s, {r}, new)
        BY <3>2, <3>3
      <3>. HIDE DEF new, Enters
      <3>. QED
        BY <1>a, <3>4
    <2>3. ASSUME NEW r \in users[s], NEW n \in Nick, NEW ts \in TS, NickChange(s, r, n, ts)
          PROVE  NickUnique'
      <3>. DEFINE new == [r EXCEPT !.nick = n, !.ts = IF r.reg THEN ts ELSE @]
      <3>1. new.nick = n
        BY <1>0 DEF UserRec
      <3>2. users' = [users EXCEPT ![s] = (@ \ ({r} \cup ByNick(s, n))) \cup {new}]
        BY <2>3 DEF NickChange
      <3>3. \A x \in users[s] : x.nick = new.nick => x \in {r} \cup ByNick(s, n)
        BY <3>1 DEF ByNick
      <3>4. Enters(s, {r} \cup ByNick(s, n), new)
        BY <3>2, <3>3
      <3>. HIDE DEF new, Enters
      <3>. QED
        BY <1>a, <3>4
    <2>4. ASSUME NEW r \in users[s], Quit(s, r)
          PROVE  NickUnique'
      BY <1>1, <2>4 DEF Quit
    <2>5. ASSUME NEW oper \in users[s], NEW r \in users[s], OperKill(s, oper, r)
          PROVE  NickUnique'
      BY <1>1, <2>5 DEF OperKill
    <2>6. ASSUME NEW oper \in users[s], NEW x \in Server, OperSquit(s, oper, x)
          PROVE  NickUnique'
      BY <1>3, <2>6 DEF OperSquit, ExitServer
    <2>. QED
      BY <1>4, <2>1, <2>2, <2>3, <2>4, <2>5, <2>6 DEF ClientStep
  <1>5. ASSUME NEW s \in Server, NEW t \in Server, RecvUID(s, t)
        PROVE  NickUnique'
    <2>. DEFINE m == Head(chan[t][s])
                new == [uid |-> m.uid, nick |-> m.nick, ts |-> m.ts, reg |-> TRUE]
    <2>1. CASE ByNick(s, m.nick) = {} /\ users' = [users EXCEPT ![s] = @ \cup {new}]
      <3>1. new.nick = m.nick /\ users' = [users EXCEPT ![s] = (@ \ {}) \cup {new}]
        BY <1>0, <2>1
      <3>. HIDE DEF m, new
      <3>2. Enters(s, {}, new)
        BY <2>1, <3>1 DEF ByNick
      <3>. HIDE DEF Enters
      <3>. QED
        BY <1>a, <3>2
    <2>2. ASSUME NEW ex \in ByNick(s, m.nick), NEW verdict,
                 users' = [users EXCEPT ![s] = (@ \ CollisionLosers(s, m.uid, FALSE, ex, verdict))
                     \cup (IF verdict \in {"overridden", "new_won"} THEN {new} ELSE {})]
          PROVE  NickUnique'
      <3>. DEFINE L == CollisionLosers(s, m.uid, FALSE, ex, verdict)
                  E == IF verdict \in {"overridden", "new_won"} THEN {new} ELSE {}
      <3>1. new.nick = m.nick
        OBVIOUS
      <3>2. E # {} => ex \in L
        BY DEF CollisionLosers
      <3>3. \A r \in users[s] : r.nick = m.nick => r = ex
        BY <2>2 DEF NickUnique, ByNick
      <3>4. \A x \in E : \A r \in users[s] : r.nick = x.nick => r \in L
        <4>. HIDE DEF L, new, m
        <4>. QED
          BY <3>1, <3>2, <3>3
      <3>5. \A r1, r2 \in E : r1 = r2
        OBVIOUS
      <3>6. users' = [users EXCEPT ![s] = (@ \ L) \cup E]
        BY <2>2
      <3>. HIDE DEF L, E, new, m
      <3>. QED
        BY <1>0, <3>4, <3>5, <3>6, EnterNickUnique
    <2>. QED
      BY <1>5, <2>1, <2>2, ZenonT(40) DEF RecvUID
  <1>6. ASSUME NEW s \in Server, NEW t \in Server, RecvNICK(s, t)
        PROVE  NickUnique'
    <2>. DEFINE m == Head(chan[t][s])
    <2>1. PICK r \in ByUID(s, m.uid) :
             LET new == [r EXCEPT !.nick = m.nick, !.ts = m.ts]
             IN  \/ users' = users
                 \/ /\ ByNick(s, m.nick) = {}
                    /\ users' = [users EXCEPT ![s] = (@ \ {r}) \cup {new}]
                 \/ \E ex \in ByNick(s, m.nick) \ {r} :
                    LET verdict == Verdict(s, ex, m.uid, m.ts, FALSE)
                        enters == verdict \in {"overridden", "new_won"}
                    IN  users' = [users EXCEPT ![s] =
                              (@ \ ({r} \cup CollisionLosers(s, m.uid, TRUE, ex, verdict)))
                                  \cup (IF enters THEN {new} ELSE {})]
      BY <1>6 DEF RecvNICK, Reply, tables
    <2>. DEFINE new == [r EXCEPT !.nick = m.nick, !.ts = m.ts]
    <2>2. new.nick = m.nick
      BY <1>0, <2>1 DEF UserRec, ByUID
    <2>3. CASE ByNick(s, m.nick) = {} /\ users' = [users EXCEPT ![s] = (@ \ {r}) \cup {new}]
      <3>. HIDE DEF m, new
      <3>1. Enters(s, {r}, new)
        BY <2>2, <2>3 DEF ByNick
      <3>. HIDE DEF Enters
      <3>. QED
        BY <1>a, <3>1
    <2>4. ASSUME NEW ex \in ByNick(s, m.nick), NEW verdict,
                 users' = [users EXCEPT ![s] =
                     (@ \ ({r} \cup CollisionLosers(s, m.uid, TRUE, ex, verdict)))
                     \cup (IF verdict \in {"overridden", "new_won"} THEN {new} ELSE {})]
          PROVE  NickUnique'
      <3>. DEFINE L == {r} \cup CollisionLosers(s, m.uid, TRUE, ex, verdict)
                  E == IF verdict \in {"overridden", "new_won"} THEN {new} ELSE {}
      <3>1. E # {} => ex \in L
        BY DEF CollisionLosers
      <3>2. \A x \in users[s] : x.nick = m.nick => x = ex
        BY <2>4 DEF NickUnique, ByNick
      <3>3. \A y \in E : \A x \in users[s] : x.nick = y.nick => x \in L
        <4>. HIDE DEF L, new, m
        <4>. QED
          BY <2>2, <3>1, <3>2
      <3>4. \A r1, r2 \in E : r1 = r2
        OBVIOUS
      <3>5. users' = [users EXCEPT ![s] = (@ \ L) \cup E]
        BY <2>4
      <3>. HIDE DEF L, E, new, m
      <3>. QED
        BY <1>0, <3>3, <3>4, <3>5, EnterNickUnique
    <2>. QED
      BY <1>2, <2>1, <2>3, <2>4
  <1>7. ASSUME NEW s \in Server, NEW t \in Server, RecvQUIT(s, t) \/ RecvKILL(s, t)
        PROVE  NickUnique'
    <2>1. \E L : users' = [users EXCEPT ![s] = @ \ L]
      BY <1>7 DEF RecvQUIT, RecvKILL
    <2>. QED
      BY <1>1, <2>1
  <1>8. ASSUME NEW s \in Server, NEW t \in Server,
               \/ Connect(s, t) \/ ReadEOF(s, t) \/ LoseLink(s, t)
               \/ RecvEAUTH(s, t) \/ RecvEAUTHReply(s, t) \/ RecvSERVER(s, t)
               \/ RecvBadSource(s, t) \/ RecvSID(s, t) \/ RecvSQUIT(s, t)
        PROVE  NickUnique'
    <2>1. users' = users \/ \E gone : Forget(s, gone)
      BY <1>8 DEF Connect, ReadEOF, LoseLink, CloseLink, RecvEAUTH, RecvEAUTHReply, RecvSERVER,
                  RecvBadSource, RecvSID, RecvSQUIT, Reply, ExitServer, tables
    <2>. QED
      BY <1>2, <1>3, <2>1
  <1>9. CASE UNCHANGED vars
    BY <1>2, <1>9 DEF vars
  <1>. QED
    BY <1>4, <1>5, <1>6, <1>7, <1>8, <1>9 DEF Next, Receive

\* No server ever holds two clients with one nick (cmd_nick_local, cmd_uid,
\* cmd_nick_remote), for every network and every order of messages.
THEOREM NickUniqueHolds == Spec => []NickUnique
  <1>1. Init => NickUnique
    BY DEF Init, NickUnique
  <1>. QED
    BY <1>1, Invariance, NickUniqueNext, PTL DEF Spec

-----------------------------------------------------------------------------
(* Links *)

\* The messages of a handshake; all others are of linked servers
Opening(m) == m.type \in {"EAUTH", "SERVER"}
Plain(q) == \A i \in DOMAIN q : ~Opening(q[i])

(***************************************************************************)
(* What is true of one direction of a connection: rd and wr are its states *)
(* at the reader and at the writer, q is the stream and back the other     *)
(* one, eof says that the reader has a connection that the writer closed,  *)
(* and left the reverse.  A message of the handshake is the head of its    *)
(* stream, and while it is there the other stream is empty.                *)
(***************************************************************************)
Phase(rd, wr, q, back, eof, left) ==
    /\ eof => rd # "none" /\ (wr = "none" \/ (wr = "out" /\ rd = "up"))
    /\ wr = "up" /\ ~left => rd = "up" \/ (rd = "sent" /\ q # <<>>)
    /\ wr = "out" => q = <<>> \/ Head(q).type = "EAUTH"
    /\ \A i \in DOMAIN q : Opening(q[i]) => i = 1 /\ back = <<>> /\ ~left
    /\ q # <<>> =>
         LET m == Head(q)
         IN  /\ m.type = "EAUTH" => Len(q) = 1
             /\ m.type = "EAUTH" /\ ~m.reply => wr = "out" /\ (rd = "none" \/ (rd = "up" /\ eof))
             /\ m.type = "EAUTH" /\ m.reply => rd = "out" /\ (wr = "in" \/ eof)
             /\ m.type = "SERVER" => \/ rd = "in" /\ Len(q) = 1 /\ (wr = "sent" \/ eof)
                                     \/ rd = "sent" /\ (wr = "up" \/ eof)
             /\ ~Opening(m) => rd = "up"

\* Both directions of the connection of two servers
Pair(a, b, q, p, da, db) == Phase(a, b, q, p, da, db) /\ Phase(b, a, p, q, db, da)

\* The same for the servers s and t, as s sees it
Connection(s, t) ==
    Pair(conn[s][t], conn[t][s], chan[t][s], chan[s][t], <<s, t>> \in dead, <<t, s>> \in dead)

Handshakes == \A s, t \in Server : s # t => Connection(s, t)

-----------------------------------------------------------------------------
(* What the events of a connection do to it *)

\* A linked server sends what is not of a handshake.
LEMMA SendPair ==
    ASSUME NEW a \in ConnState, NEW b \in ConnState, NEW q \in Seq(Msg), NEW p \in Seq(Msg),
           NEW da \in BOOLEAN, NEW db \in BOOLEAN, NEW new \in Seq(Msg),
           Pair(a, b, q, p, da, db), Plain(new), a = "up", ~da
    PROVE  Pair(a, b, q, p \o new, da, db)
  <1>1. CASE new = <<>>
    <2>1. p \o new = p
      BY <1>1
    <2>. QED
      BY <2>1
  <1>2. CASE new # <<>>
    <2>. DEFINE r == p \o new
    <2>0. /\ r \in Seq(Msg) /\ r # <<>> /\ Len(r) = Len(p) + Len(new)
          /\ \A i \in DOMAIN r : (i \in DOMAIN p /\ r[i] = p[i]) \/ (~Opening(r[i]))
          /\ p # <<>> => Head(r) = Head(p)
          /\ p = <<>> => ~Opening(Head(r))
      <3>1. r \in Seq(Msg) /\ r # <<>> /\ Len(r) = Len(p) + Len(new)
        BY <1>2
      <3>2. \A i \in 1..Len(r) : r[i] = IF i <= Len(p) THEN p[i] ELSE new[i - Len(p)]
        OBVIOUS
      <3>3. DOMAIN r = 1..Len(r) /\ DOMAIN p = 1..Len(p) /\ DOMAIN new = 1..Len(new)
        BY <3>1
      <3>. HIDE DEF r
      <3>4. \A i \in DOMAIN r : (i \in DOMAIN p /\ r[i] = p[i]) \/ (~Opening(r[i]))
        <4>1. ASSUME NEW i \in 1..Len(r), i > Len(p) PROVE r[i] = new[i - Len(p)] /\ i - Len(p) \in 1..Len(new)
          BY <3>1, <3>2, <4>1
        <4>2. ASSUME NEW i \in 1..Len(r), ~(i > Len(p)) PROVE i \in 1..Len(p) /\ r[i] = p[i]
          BY <3>1, <3>2, <4>2
        <4>. QED
          BY <3>3, <4>1, <4>2 DEF Plain
      <3>5. Head(r) = r[1]
        BY <3>1
      <3>6. 1 \in 1..Len(r) /\ (p # <<>> => 1 <= Len(p) /\ Head(p) = p[1]) /\ (p = <<>> => Len(p) = 0)
        BY <3>1, <1>2
      <3>7. p # <<>> => Head(r) = Head(p)
        BY <3>2, <3>5, <3>6
      <3>8. p = <<>> => Head(r) = new[1] /\ 1 \in DOMAIN new
        BY <3>2, <3>3, <3>5, <3>6, <1>2
      <3>. QED
        BY <3>1, <3>4, <3>7, <3>8 DEF Plain
    <2>1. \A i \in DOMAIN q : ~Opening(q[i])
      <3>1. ASSUME NEW i \in DOMAIN q, Opening(q[i]) PROVE FALSE
        <4>1. i = 1 /\ q # <<>> /\ Head(q) = q[1]
          BY <3>1 DEF Pair, Phase
        <4>. QED
          BY <3>1, <4>1 DEF Pair, Phase, Opening
      <3>. QED
        BY <3>1
    <2>. HIDE DEF r
    <2>2. Phase(a, b, q, r, da, db)
      BY <2>0, <2>1 DEF Pair, Phase
    <2>3. p = <<>> => b = "up"
      BY DEF Pair, Phase
    <2>4. p # <<>> => Head(p).type # "EAUTH" /\ (Head(p).type = "SERVER" => b = "sent")
      BY DEF Pair, Phase, Opening
    <2>5. Phase(b, a, r, q, db, da)
      <3>1. p # <<>> => /\ Head(r).type = "SERVER" => b = "sent"
                        /\ Head(r).type # "EAUTH"
                        /\ ~Opening(Head(r)) => b = "up"
        BY <2>0, <2>4 DEF Pair, Phase
      <3>2. p = <<>> => Head(r).type \notin {"EAUTH", "SERVER"} /\ b = "up"
        BY <2>0, <2>3 DEF Opening
      <3>3. \A i \in DOMAIN r : Opening(r[i]) => i = 1 /\ q = <<>> /\ ~da
        BY <2>0 DEF Pair, Phase
      <3>4. /\ db => b # "none" /\ (a = "none" \/ (a = "out" /\ b = "up"))
            /\ a = "up" /\ ~da => b = "up" \/ (b = "sent" /\ r # <<>>)
        BY <2>0 DEF Pair, Phase
      <3>. QED
        BY <2>0, <3>1, <3>2, <3>3, <3>4 DEF Phase
    <2>. QED
      BY <2>2, <2>5 DEF Pair, r
  <1>. QED
    BY <1>1, <1>2

\* A server reads what is not of a handshake.
LEMMA ReadPair ==
    ASSUME NEW a \in ConnState, NEW b \in ConnState, NEW q \in Seq(Msg), NEW p \in Seq(Msg),
           NEW da \in BOOLEAN, NEW db \in BOOLEAN,
           Pair(a, b, q, p, da, db), q # <<>>, ~Opening(Head(q))
    PROVE  Pair(a, b, Tail(q), p, da, db)
  <1>. DEFINE r == Tail(q)
  <1>1. r \in Seq(Msg) /\ \A i \in DOMAIN r : i + 1 \in DOMAIN q /\ r[i] = q[i + 1] /\ i + 1 # 1
    OBVIOUS
  <1>2. r # <<>> => 1 \in DOMAIN r /\ Head(r) = r[1]
    BY <1>1
  <1>. HIDE DEF r
  <1>3. \A i \in DOMAIN r : ~Opening(r[i])
    BY <1>1 DEF Pair, Phase
  <1>4. r # <<>> => ~Opening(Head(r))
    BY <1>2, <1>3
  <1>5. a = "up" /\ b # "out"
    BY DEF Pair, Phase, Opening
  <1>6. Phase(a, b, r, p, da, db)
    BY <1>3, <1>4, <1>5 DEF Pair, Phase, Opening
  <1>7. Phase(b, a, p, r, db, da)
    <2>1. \A i \in DOMAIN p : Opening(p[i]) => FALSE
      BY DEF Pair, Phase
    <2>. QED
      BY <2>1 DEF Pair, Phase
  <1>. QED
    BY <1>6, <1>7 DEF Pair, r

\* A server closes its connection (CloseStreams, DeadAfterClose).
LEMMA ClosePair ==
    ASSUME NEW a \in ConnState, NEW b \in ConnState, NEW q \in Seq(Msg), NEW p \in Seq(Msg),
           NEW da \in BOOLEAN, NEW db \in BOOLEAN,
           Pair(a, b, q, p, da, db), a # "none",
           NEW q1, NEW p1, NEW da1 \in BOOLEAN, NEW db1 \in BOOLEAN, ~da1,
           da => /\ q1 = IF b = "none" THEN <<>> ELSE q
                 /\ p1 = p /\ (db1 <=> db),
           ~da => /\ q1 = <<>>
                  /\ p1 = IF b = "none" \/ db THEN <<>> ELSE p
                  /\ db1 <=> (db \/ b # "none")
    PROVE  Pair("none", b, q1, p1, da1, db1)
  <1>1. CASE da
    <2>1. ~db /\ (b = "none" \/ (b = "out" /\ a = "up"))
      BY <1>1 DEF Pair, Phase
    <2>2. p = <<>>
      BY <1>1, <2>1 DEF Pair, Phase, Opening
    <2>3. CASE b = "none"
      BY <1>1, <2>1, <2>2, <2>3 DEF Pair, Phase
    <2>4. CASE b = "out"
      BY <1>1, <2>1, <2>2, <2>4 DEF Pair, Phase, Opening
    <2>. QED
      BY <1>1, <2>1, <2>3, <2>4
  <1>2. CASE ~da
    <2>1. CASE b = "none" \/ db
      BY <1>2, <2>1 DEF Pair, Phase
    <2>2. CASE b # "none" /\ ~db
      BY <1>2, <2>2 DEF Pair, Phase, Opening
    <2>. QED
      BY <1>2, <2>1, <2>2
  <1>. QED
    BY <1>1, <1>2

\* The head of a stream is its first message; behind an only one is nothing.
LEMMA HeadFirst ==
    ASSUME NEW q \in Seq(Msg), q # <<>>
    PROVE  1 \in DOMAIN q /\ q[1] = Head(q) /\ (Len(q) = 1 => Tail(q) = <<>>)
  <1>1. Len(q) = 1 => Len(Tail(q)) = 0 /\ Tail(q) \in Seq(Msg)
    BY HeadTailProperties
  <1>2. Tail(q) \in Seq(Msg) /\ Len(Tail(q)) = 0 => Tail(q) = <<>>
    BY EmptySeq
  <1>. QED
    BY <1>1, <1>2

\* A stream of one message has it as its head.
LEMMA Single ==
    ASSUME NEW m
    PROVE  /\ <<m>> # <<>> /\ Head(<<m>>) = m /\ Len(<<m>>) = 1
           /\ \A i \in DOMAIN <<m>> : i = 1 /\ <<m>>[i] = m
  OBVIOUS

\* A server connects: it asks by EAUTH on a new connection.
LEMMA ConnectPair ==
    ASSUME NEW a \in ConnState, NEW b \in ConnState, NEW q \in Seq(Msg), NEW p \in Seq(Msg),
           NEW da \in BOOLEAN, NEW db \in BOOLEAN, NEW m \in Msg, m.type = "EAUTH", ~m.reply,
           Pair(a, b, q, p, da, db), a = "none", b = "none" \/ (b = "up" /\ db)
    PROVE  Pair("out", b, <<>>, <<m>>, da, db)
  <1>2. ~da /\ (db => b = "up")
    BY DEF Pair, Phase
  <1>3. Phase("out", b, <<>>, <<m>>, da, db)
    BY <1>2 DEF Phase
  <1>4. Phase(b, "out", <<m>>, <<>>, db, da)
    BY <1>2, Single DEF Phase, Opening
  <1>. QED
    BY <1>3, <1>4 DEF Pair

\* What an EAUTH at the head of a stream tells of the connection
LEMMA AskedPair ==
    ASSUME NEW a \in ConnState, NEW b \in ConnState, NEW q \in Seq(Msg), NEW p \in Seq(Msg),
           NEW da \in BOOLEAN, NEW db \in BOOLEAN,
           Pair(a, b, q, p, da, db), q # <<>>, Head(q).type = "EAUTH", ~Head(q).reply
    PROVE  /\ b = "out" /\ p = <<>> /\ Tail(q) = <<>> /\ ~db
           /\ a = "none" \/ (a = "up" /\ da)
  <1>1. 1 \in DOMAIN q /\ q[1] = Head(q) /\ (Len(q) = 1 => Tail(q) = <<>>)
    BY HeadFirst
  <1>. QED
    BY <1>1 DEF Pair, Phase, Opening

\* The answer to an EAUTH: it is sent, or the connection refused.
LEMMA AcceptPair ==
    ASSUME NEW known
    PROVE  /\ Pair("in", "out", <<>>, <<EAUTH(known, TRUE)>>, FALSE, FALSE)
           /\ Pair("none", "out", <<>>, <<>>, FALSE, TRUE)
  <1>. DEFINE m == EAUTH(known, TRUE)
  <1>1. m.type = "EAUTH" /\ m.reply
    BY DEF EAUTH
  <1>. HIDE DEF m
  <1>2. Pair("in", "out", <<>>, <<m>>, FALSE, FALSE)
    BY <1>1, Single DEF Pair, Phase, Opening
  <1>3. Pair("none", "out", <<>>, <<>>, FALSE, TRUE)
    BY DEF Pair, Phase
  <1>. QED
    BY <1>2, <1>3 DEF m

\* The answer is read: SERVER is sent if the other side is still there.
LEMMA AnsweredPair ==
    ASSUME NEW a \in ConnState, NEW b \in ConnState, NEW q \in Seq(Msg), NEW p \in Seq(Msg),
           NEW da \in BOOLEAN, NEW db \in BOOLEAN,
           Pair(a, b, q, p, da, db), q # <<>>, Head(q).type = "EAUTH", Head(q).reply,
           NEW p1, da => p1 = <<>>, ~da => p1 = <<SERVER>>
    PROVE  /\ a = "out" /\ p = <<>> /\ Tail(q) = <<>> /\ (da => b = "none")
           /\ Pair("sent", b, <<>>, p1, da, db)
  <1>1. 1 \in DOMAIN q /\ q[1] = Head(q) /\ (Len(q) = 1 => Tail(q) = <<>>)
    BY HeadFirst
  <1>2. a = "out" /\ p = <<>> /\ Tail(q) = <<>> /\ (da => b = "none") /\ (~da => b = "in") /\ ~db
    BY <1>1 DEF Pair, Phase, Opening
  <1>3. CASE da
    BY <1>2, <1>3 DEF Pair, Phase
  <1>4. CASE ~da
    <2>. DEFINE m == SERVER
    <2>1. m.type = "SERVER"
      BY DEF SERVER
    <2>. HIDE DEF m
    <2>2. Pair("sent", "in", <<>>, <<m>>, FALSE, FALSE)
      BY <2>1, Single DEF Pair, Phase, Opening
    <2>. QED
      BY <1>2, <1>4, <2>2 DEF m
  <1>. QED
    BY <1>2, <1>3, <1>4

\* What a SERVER at the head of a stream tells of the connection
LEMMA GreetedPair ==
    ASSUME NEW a \in ConnState, NEW b \in ConnState, NEW q \in Seq(Msg), NEW p \in Seq(Msg),
           NEW da \in BOOLEAN, NEW db \in BOOLEAN,
           Pair(a, b, q, p, da, db), q # <<>>, Head(q).type = "SERVER"
    PROVE  /\ a \in {"in", "sent"} /\ p = <<>> /\ (da => b = "none") /\ ~db
           /\ ~da /\ a = "in" => b = "sent"
           /\ ~da /\ a = "sent" => b = "up"
           /\ a = "in" => Tail(q) = <<>>
  <1>1. 1 \in DOMAIN q /\ q[1] = Head(q) /\ (Len(q) = 1 => Tail(q) = <<>>)
    BY HeadFirst
  <1>. QED
    BY <1>1 DEF Pair, Phase, Opening

\* What a server sends when it is linked: SERVER if it was asked, and its burst
Welcome(a, out) ==
    \E burst \in Seq(Msg) :
        Plain(burst) /\ out = (IF a = "in" THEN <<SERVER>> ELSE <<>>) \o burst

\* SERVER is read: the reader is linked, answers if it was asked and bursts.
LEMMA ServerPair ==
    ASSUME NEW a \in ConnState, NEW b \in ConnState, NEW q \in Seq(Msg), NEW p \in Seq(Msg),
           NEW da \in BOOLEAN, NEW db \in BOOLEAN,
           Pair(a, b, q, p, da, db), q # <<>>, Head(q).type = "SERVER",
           NEW p1, da => p1 = <<>>, ~da => Welcome(a, p1)
    PROVE  Pair("up", b, Tail(q), p1, da, db)
  <1>. DEFINE r == Tail(q)
  <1>2. r \in Seq(Msg) /\ \A i \in DOMAIN r : i + 1 \in DOMAIN q /\ r[i] = q[i + 1] /\ i + 1 # 1
    OBVIOUS
  <1>3. r # <<>> => 1 \in DOMAIN r /\ Head(r) = r[1]
    BY <1>2
  <1>4. /\ a \in {"in", "sent"} /\ p = <<>> /\ (da => b = "none") /\ ~db
        /\ ~da /\ a = "in" => b = "sent"
        /\ ~da /\ a = "sent" => b = "up"
        /\ a = "in" => r = <<>>
    BY GreetedPair
  <1>. HIDE DEF r
  <1>5. \A i \in DOMAIN r : ~Opening(r[i])
    BY <1>2 DEF Pair, Phase
  <1>6. r # <<>> => ~Opening(Head(r))
    BY <1>3, <1>5
  <1>7. CASE da
    BY <1>4, <1>5, <1>6, <1>7 DEF Pair, Phase, Opening, r
  <1>8. CASE ~da /\ a = "sent"
    <2>0. PICK burst \in Seq(Msg) : Plain(burst) /\ p1 = <<>> \o burst
      BY <1>8 DEF Welcome
    <2>1. Pair("up", "up", r, <<>>, FALSE, FALSE)
      BY <1>5, <1>6 DEF Pair, Phase, Opening
    <2>3. Pair("up", "up", r, <<>> \o burst, FALSE, FALSE)
      <3>1. "up" \in ConnState /\ <<>> \in Seq(Msg)
        BY DEF ConnState
      <3>. QED
        BY <1>2, <2>0, <2>1, <3>1, SendPair
    <2>. QED
      BY <1>4, <1>8, <2>0, <2>3 DEF r
  <1>9. CASE ~da /\ a = "in"
    <2>0. PICK burst \in Seq(Msg) : Plain(burst) /\ p1 = <<SERVER>> \o burst
      BY <1>9 DEF Welcome
    <2>. DEFINE m == SERVER
    <2>1. m.type = "SERVER" /\ m \in Msg
      BY MessageTypes DEF SERVER
    <2>. HIDE DEF m
    <2>2. Pair("up", "sent", <<>>, <<m>>, FALSE, FALSE)
      BY <2>1, Single DEF Pair, Phase, Opening
    <2>3. <<m>> \in Seq(Msg) /\ <<>> \in Seq(Msg)
      BY <2>1
    <2>4. Pair("up", "sent", <<>>, <<m>> \o burst, FALSE, FALSE)
      <3>1. "up" \in ConnState /\ "sent" \in ConnState
        BY DEF ConnState
      <3>. QED
        BY <2>0, <2>2, <2>3, <3>1, SendPair
    <2>. QED
      BY <1>4, <1>9, <2>0, <2>4 DEF m, r
  <1>. QED
    BY <1>4, <1>7, <1>8, <1>9

-----------------------------------------------------------------------------
(* What a step of s does to the connections *)

\* The step leaves what s has no part in alone
Apart(s) ==
    /\ \A x, y \in Server : x # s => conn'[x][y] = conn[x][y]
    /\ \A x, y \in Server : x # s /\ y # s => chan'[x][y] = chan[x][y]
    /\ \A x, y \in Server : x # s /\ y # s => (<<x, y>> \in dead' <=> <<x, y>> \in dead)

\* It is enough to look at the connections of s.
LEMMA ActorHandshakes ==
    ASSUME Handshakes, NEW s \in Server,
           Apart(s),
           \A t \in Server : t # s => Connection(s, t)'
    PROVE  Handshakes'
  <1>. SUFFICES ASSUME NEW x \in Server, NEW y \in Server, x # y
                PROVE  Connection(x, y)'
    BY DEF Handshakes
  <1>1. CASE x = s
    BY <1>1
  <1>2. CASE y = s
    <2>1. Connection(y, x)'
      BY <1>2
    <2>. QED
      BY <2>1 DEF Connection, Pair
  <1>3. CASE x # s /\ y # s
    <2>1. Connection(x, y)
      BY DEF Handshakes
    <2>2. conn'[x][y] = conn[x][y] /\ conn'[y][x] = conn[y][x]
      BY <1>3 DEF Apart
    <2>3. chan'[x][y] = chan[x][y] /\ chan'[y][x] = chan[y][x]
      BY <1>3 DEF Apart
    <2>4. (<<x, y>> \in dead') = (<<x, y>> \in dead) /\ (<<y, x>> \in dead') = (<<y, x>> \in dead)
      BY <1>3 DEF Apart
    <2>. QED
      BY <2>1, <2>2, <2>3, <2>4 DEF Connection
  <1>. QED
    BY <1>1, <1>2, <1>3

\* The types of what Connection is about
LEMMA ConnectionTypes ==
    ASSUME LinkInv, NEW s \in Server, NEW t \in Server
    PROVE  /\ conn[s][t] \in ConnState /\ conn[t][s] \in ConnState
           /\ chan[s][t] \in Seq(Msg) /\ chan[t][s] \in Seq(Msg)
           /\ (<<s, t>> \in dead) \in BOOLEAN /\ (<<t, s>> \in dead) \in BOOLEAN
  BY DEF LinkInv, Streams

\* s may send 'out': to linked servers only, and nothing of a handshake
Ordinary(s, out) ==
    \A t \in Server : Plain(out[t]) /\ (out[t] # <<>> => conn[s][t] = "up")

\* On the connections of s but c it only carries messages
Carried(s, from, c, out) ==
    \A t \in Server : t # s /\ t # c =>
        /\ conn'[s][t] = conn[s][t]
        /\ <<s, t>> \in dead' <=> <<s, t>> \in dead
        /\ <<t, s>> \in dead' <=> <<t, s>> \in dead
        /\ chan'[t][s] = IF t = from THEN Tail(chan[t][s]) ELSE chan[t][s]
        /\ chan'[s][t] = IF t \in Alive(s) THEN chan[s][t] \o out[t] ELSE chan[s][t]

\* What Net leaves alone, and what it does to a connection it does not close
LEMMA NetEffect ==
    ASSUME LinkInv, NEW s \in Server, NEW from \in Server \cup {None}, from # s,
           NEW c \in Server \cup {None}, c # s, NEW out \in Out, Net(s, from, c, out)
    PROVE  Apart(s) /\ Carried(s, from, c, out)
  <1>. DEFINE ch1 == Consume(chan, s, from)
              ch2 == CloseStreams(ch1, s, c)
  <1>0. None \notin Server
    BY ConstantsAssumption
  <1>1. /\ DOMAIN ch1 = Server /\ \A x \in Server : DOMAIN ch1[x] = Server
        /\ \A x, y \in Server : ch1[x][y] = IF x = from /\ y = s THEN Tail(chan[x][y]) ELSE chan[x][y]
    BY <1>0 DEF Consume, LinkInv, Streams
  <1>2. /\ DOMAIN ch2 = Server /\ \A x \in Server : DOMAIN ch2[x] = Server
        /\ \A x, y \in Server : (x = c /\ y = s) \/ (x = s /\ y = c) \/ ch2[x][y] = ch1[x][y]
    <2>. HIDE DEF ch1
    <2>1. CASE c = None
      BY <1>1, <2>1 DEF CloseStreams
    <2>2. CASE c # None /\ <<s, c>> \in dead
      BY <1>1, <2>2 DEF CloseStreams
    <2>3. CASE c # None /\ <<s, c>> \notin dead
      BY <1>1, <2>3 DEF CloseStreams
    <2>. QED
      BY <2>1, <2>2, <2>3
  <1>3. \A x, y \in Server :
           chan'[x][y] = IF x = s /\ y \in Alive(s) \ {c} THEN ch2[x][y] \o out[y] ELSE ch2[x][y]
    <2>1. chan' = Deliver(ch2, s, out, Alive(s) \ {c})
      BY DEF Net
    <2>. HIDE DEF ch2
    <2>. QED
      BY <1>2, <2>1 DEF Deliver
  <1>4. \A x, y \in Server : conn'[x][y] = IF x = s /\ y = c THEN "none" ELSE conn[x][y]
    BY <1>0 DEF Net, LinkInv
  <1>5. \A x, y \in Server : (x = c /\ y = s) \/ (x = s /\ y = c) \/ (<<x, y>> \in dead' <=> <<x, y>> \in dead)
    BY <1>0 DEF Net, DeadAfterClose
  <1>. HIDE DEF ch1, ch2
  <1>6. \A x, y \in Server : x # s => conn'[x][y] = conn[x][y]
    BY <1>4
  <1>7. \A x, y \in Server : x # s /\ y # s => chan'[x][y] = chan[x][y]
    BY <1>1, <1>2, <1>3
  <1>8. \A x, y \in Server : x # s /\ y # s => (<<x, y>> \in dead' <=> <<x, y>> \in dead)
    BY <1>5
  <1>9. ASSUME NEW t \in Server, t # s, t # c
        PROVE  /\ conn'[s][t] = conn[s][t]
               /\ <<s, t>> \in dead' <=> <<s, t>> \in dead
               /\ <<t, s>> \in dead' <=> <<t, s>> \in dead
               /\ chan'[t][s] = IF t = from THEN Tail(chan[t][s]) ELSE chan[t][s]
               /\ chan'[s][t] = IF t \in Alive(s) THEN chan[s][t] \o out[t] ELSE chan[s][t]
    <2>1. conn'[s][t] = conn[s][t]
      BY <1>4, <1>9
    <2>2. (<<s, t>> \in dead' <=> <<s, t>> \in dead) /\ (<<t, s>> \in dead' <=> <<t, s>> \in dead)
      BY <1>5, <1>9
    <2>3. ch2[t][s] = ch1[t][s] /\ ch2[s][t] = ch1[s][t]
      BY <1>2, <1>9
    <2>4. ch1[t][s] = (IF t = from THEN Tail(chan[t][s]) ELSE chan[t][s]) /\ ch1[s][t] = chan[s][t]
      BY <1>1, <1>9
    <2>. QED
      BY <1>3, <1>9, <2>1, <2>2, <2>3, <2>4
  <1>. QED
    BY <1>6, <1>7, <1>8, <1>9 DEF Apart, Carried

\* What Net does to the connection that it closes
LEMMA NetCloses ==
    ASSUME LinkInv, NEW s \in Server, NEW from \in Server \cup {None}, from # s,
           NEW c \in Server, c # s, NEW out \in Out, Net(s, from, c, out)
    PROVE  /\ conn'[s][c] = "none" /\ conn'[c][s] = conn[c][s]
           /\ LET q == IF c = from THEN Tail(chan[c][s]) ELSE chan[c][s]
              IN  IF <<s, c>> \in dead
                  THEN /\ chan'[c][s] = (IF conn[c][s] = "none" THEN <<>> ELSE q)
                       /\ chan'[s][c] = chan[s][c]
                       /\ <<s, c>> \notin dead' /\ (<<c, s>> \in dead' <=> <<c, s>> \in dead)
                  ELSE /\ chan'[c][s] = <<>>
                       /\ chan'[s][c] = (IF conn[c][s] = "none" \/ <<c, s>> \in dead
                                         THEN <<>> ELSE chan[s][c])
                       /\ <<s, c>> \notin dead'
                       /\ <<c, s>> \in dead' <=> (<<c, s>> \in dead \/ conn[c][s] # "none")
  <1>. DEFINE ch1 == Consume(chan, s, from)
              ch2 == CloseStreams(ch1, s, c)
  <1>0. None \notin Server
    BY ConstantsAssumption
  <1>1. /\ DOMAIN ch1 = Server /\ \A x \in Server : DOMAIN ch1[x] = Server
        /\ ch1[c][s] = (IF c = from THEN Tail(chan[c][s]) ELSE chan[c][s])
        /\ ch1[s][c] = chan[s][c]
    BY <1>0 DEF Consume, LinkInv, Streams
  <1>2. /\ DOMAIN ch2 = Server /\ \A x \in Server : DOMAIN ch2[x] = Server
        /\ <<s, c>> \in dead => /\ ch2[c][s] = (IF conn[c][s] = "none" THEN <<>> ELSE ch1[c][s])
                                /\ ch2[s][c] = ch1[s][c]
        /\ <<s, c>> \notin dead =>
              /\ ch2[c][s] = <<>>
              /\ ch2[s][c] = (IF conn[c][s] = "none" \/ <<c, s>> \in dead THEN <<>> ELSE ch1[s][c])
    <2>. HIDE DEF ch1
    <2>. QED
      BY <1>0, <1>1 DEF CloseStreams
  <1>3. chan'[c][s] = ch2[c][s] /\ chan'[s][c] = ch2[s][c]
    <2>1. chan' = Deliver(ch2, s, out, Alive(s) \ {c})
      BY DEF Net
    <2>. HIDE DEF ch2
    <2>. QED
      BY <1>2, <2>1 DEF Deliver
  <1>4. conn'[s][c] = "none" /\ conn'[c][s] = conn[c][s]
    BY <1>0 DEF Net, LinkInv
  <1>5. /\ <<s, c>> \notin dead'
        /\ <<s, c>> \in dead => (<<c, s>> \in dead' <=> <<c, s>> \in dead)
        /\ <<s, c>> \notin dead => (<<c, s>> \in dead' <=> (<<c, s>> \in dead \/ conn[c][s] # "none"))
    BY <1>0 DEF Net, DeadAfterClose
  <1>. HIDE DEF ch1, ch2
  <1>. QED
    BY <1>1, <1>2, <1>3, <1>4, <1>5

\* The connections that only carry ordinary messages stay in step.
LEMMA CarriedConnections ==
    ASSUME LinkInv, Handshakes, NEW s \in Server,
           NEW from \in Server \cup {None}, NEW c \in Server \cup {None}, NEW out \in Out,
           from # None /\ from # c => chan[from][s] # <<>> /\ ~Opening(Head(chan[from][s])),
           \A t \in Server \ {c} : Plain(out[t]) /\ (out[t] # <<>> => conn[s][t] = "up"),
           Apart(s), Carried(s, from, c, out)
    PROVE  \A t \in Server : t # s /\ t # c => Connection(s, t)'
  <1>a. SUFFICES ASSUME NEW t \in Server, t # s, t # c PROVE Connection(s, t)'
    OBVIOUS
  <1>. DEFINE a == conn[s][t]
              b == conn[t][s]
              q == chan[t][s]
              p == chan[s][t]
              da == <<s, t>> \in dead
              db == <<t, s>> \in dead
              q1 == IF t = from THEN Tail(q) ELSE q
              p1 == IF t \in Alive(s) THEN p \o out[t] ELSE p
  <1>1. /\ a \in ConnState /\ b \in ConnState /\ q \in Seq(Msg) /\ p \in Seq(Msg)
        /\ da \in BOOLEAN /\ db \in BOOLEAN /\ Pair(a, b, q, p, da, db)
    BY <1>a, ConnectionTypes DEF Handshakes, Connection
  <1>2. /\ conn'[s][t] = a /\ conn'[t][s] = b /\ chan'[t][s] = q1 /\ chan'[s][t] = p1
        /\ (<<s, t>> \in dead') = da /\ (<<t, s>> \in dead') = db
    BY <1>a DEF Apart, Carried
  <1>3. t = from => q # <<>> /\ ~Opening(Head(q))
    BY <1>a, ConstantsAssumption
  <1>4. /\ t \in Alive(s) => a # "none" /\ ~da
        /\ Plain(out[t]) /\ (out[t] # <<>> => a = "up") /\ out[t] \in Seq(Msg)
    BY <1>a DEF Alive, Out
  <1>. HIDE DEF a, b, q, p, da, db
  <1>5. Pair(a, b, q1, p, da, db) /\ q1 \in Seq(Msg)
    BY <1>1, <1>3, ReadPair, HeadTailProperties
  <1>. HIDE DEF q1
  <1>6. Pair(a, b, q1, p1, da, db)
    <2>1. CASE t \in Alive(s) /\ out[t] # <<>>
      BY <1>1, <1>4, <1>5, <2>1, SendPair
    <2>2. CASE t \in Alive(s) /\ out[t] = <<>>
      <3>1. p \o <<>> = p
        BY <1>1
      <3>. QED
        BY <1>5, <2>2, <3>1
    <2>3. CASE t \notin Alive(s)
      BY <1>5, <2>3
    <2>. QED
      BY <2>1, <2>2, <2>3
  <1>. HIDE DEF p1
  <1>. QED
    BY <1>2, <1>6 DEF Connection
\* A step that reads an ordinary message or none, or reads a refused answer and
\* closes the connection, that may close another one, and sends ordinary ones.
LEMMA NetHandshakes ==
    ASSUME LinkInv, Handshakes, NEW s \in Server,
           NEW from \in Server \cup {None}, NEW c \in Server \cup {None}, NEW out \in Out,
           from # None =>
               /\ chan[from][s] # <<>>
               /\ Opening(Head(chan[from][s])) =>
                      from = c /\ ~(Head(chan[from][s]).type = "EAUTH" /\ ~Head(chan[from][s]).reply),
           c # None => conn[s][c] # "none",
           Ordinary(s, out), Net(s, from, c, out)
    PROVE  Handshakes'
  <1>1. from # s /\ c # s
    BY ConstantsAssumption DEF LinkInv, Streams
  <1>a. Apart(s) /\ Carried(s, from, c, out)
    BY <1>1, NetEffect
  <1>2. \A t \in Server : t # s /\ t # c => Connection(s, t)'
    <2>1. /\ from # None /\ from # c => chan[from][s] # <<>> /\ ~Opening(Head(chan[from][s]))
          /\ \A t \in Server \ {c} : Plain(out[t]) /\ (out[t] # <<>> => conn[s][t] = "up")
      BY DEF Ordinary
    <2>. QED
      BY <1>1, <1>a, <2>1, CarriedConnections
  <1>3. ASSUME c \in Server
        PROVE  Connection(s, c)'
    <2>. DEFINE a == conn[s][c]
                b == conn[c][s]
                q == chan[c][s]
                p == chan[s][c]
                da == <<s, c>> \in dead
                db == <<c, s>> \in dead
                q1 == IF c = from THEN Tail(q) ELSE q
    <2>1. /\ a \in ConnState /\ b \in ConnState /\ q \in Seq(Msg) /\ p \in Seq(Msg)
          /\ da \in BOOLEAN /\ db \in BOOLEAN /\ Pair(a, b, q, p, da, db) /\ a # "none"
      BY <1>1, <1>3, ConnectionTypes, ConstantsAssumption DEF Handshakes, Connection
    <2>2. /\ conn'[s][c] = "none" /\ conn'[c][s] = b /\ <<s, c>> \notin dead'
          /\ da => /\ chan'[c][s] = (IF b = "none" THEN <<>> ELSE q1)
                   /\ chan'[s][c] = p
                   /\ <<c, s>> \in dead' <=> db
          /\ ~da => /\ chan'[c][s] = <<>>
                    /\ chan'[s][c] = (IF b = "none" \/ db THEN <<>> ELSE p)
                    /\ <<c, s>> \in dead' <=> (db \/ b # "none")
      BY <1>1, <1>3, NetCloses
    <2>3. c = from => /\ q # <<>>
                      /\ Opening(Head(q)) => ~(Head(q).type = "EAUTH" /\ ~Head(q).reply)
      BY <1>3, ConstantsAssumption
    <2>. HIDE DEF a, b, q, p, da, db
    <2>4. PICK q2 \in Seq(Msg) : Pair(a, b, q2, p, da, db) /\ (da /\ b # "none" => q2 = q1)
      <3>1. CASE c = from /\ ~Opening(Head(q))
        <4>1. Pair(a, b, Tail(q), p, da, db)
          BY <2>1, <2>3, <3>1, ReadPair
        <4>2. Tail(q) \in Seq(Msg)
          BY <2>1, <2>3, <3>1, HeadTailProperties
        <4>. QED
          BY <3>1, <4>1, <4>2
      <3>2. CASE c = from /\ Opening(Head(q))
        <4>1. ~(da /\ b # "none")
          BY <2>1, <2>3, <3>2 DEF Pair, Phase, Opening
        <4>. QED
          BY <2>1, <4>1
      <3>3. CASE c # from
        BY <2>1, <3>3
      <3>. QED
        BY <3>1, <3>2, <3>3
    <2>. HIDE DEF q1
    <2>. DEFINE da1 == <<s, c>> \in dead'
                db1 == <<c, s>> \in dead'
    <2>5. da1 \in BOOLEAN /\ db1 \in BOOLEAN /\ ~da1
      BY <2>2
    <2>6. /\ da => /\ chan'[c][s] = (IF b = "none" THEN <<>> ELSE q2)
                   /\ chan'[s][c] = p /\ (db1 <=> db)
          /\ ~da => /\ chan'[c][s] = <<>>
                    /\ chan'[s][c] = (IF b = "none" \/ db THEN <<>> ELSE p)
                    /\ db1 <=> (db \/ b # "none")
      BY <2>2, <2>4
    <2>. HIDE DEF da1, db1
    <2>7. Pair("none", b, chan'[c][s], chan'[s][c], da1, db1)
      BY <2>1, <2>4, <2>5, <2>6, ClosePair
    <2>. QED
      BY <2>2, <2>7 DEF Connection, da1, db1
  <1>4. \A t \in Server : t # s => Connection(s, t)'
    BY <1>2, <1>3
  <1>. QED
    BY <1>4, <1>a, ActorHandshakes

\* Two ordinary streams make one.
LEMMA PlainConcat ==
    ASSUME NEW x \in Seq(Msg), NEW y \in Seq(Msg), Plain(x), Plain(y)
    PROVE  Plain(x \o y)
  <1>1. \A i \in 1..(Len(x) + Len(y)) : (x \o y)[i] = IF i <= Len(x) THEN x[i] ELSE y[i - Len(x)]
    OBVIOUS
  <1>2. DOMAIN (x \o y) = 1..(Len(x) + Len(y)) /\ DOMAIN x = 1..Len(x) /\ DOMAIN y = 1..Len(y)
    OBVIOUS
  <1>3. ASSUME NEW i \in 1..(Len(x) + Len(y)), ~(i <= Len(x)) PROVE i - Len(x) \in 1..Len(y)
    BY <1>3
  <1>4. ASSUME NEW i \in 1..(Len(x) + Len(y)), i <= Len(x) PROVE i \in 1..Len(x)
    BY <1>4
  <1>. QED
    BY <1>1, <1>2, <1>3, <1>4 DEF Plain

\* The outputs of handlers are ordinary: to linked servers, outside handshakes.
LEMMA OrdinaryOutputs ==
    ASSUME NEW s \in Server
    PROVE  /\ Ordinary(s, NoOut)
           /\ \A m, except : ~Opening(m) => Ordinary(s, ToServers(Up(s), except, m))
           /\ \A m : \A t \in Server : ~Opening(m) /\ conn[s][t] = "up" => Ordinary(s, One(t, m))
           /\ \A o1, o2 \in Out : Ordinary(s, o1) /\ Ordinary(s, o2) => Ordinary(s, Cat(o1, o2))
  <1>1. Plain(<<>>)
    BY DEF Plain
  <1>2. \A m : ~Opening(m) => Plain(<<m>>)
    BY Single DEF Plain
  <1>3. \A m, except : ~Opening(m) => Ordinary(s, ToServers(Up(s), except, m))
    BY <1>1, <1>2 DEF Ordinary, ToServers, Up
  <1>4. \A m : \A t \in Server : ~Opening(m) /\ conn[s][t] = "up" => Ordinary(s, One(t, m))
    BY <1>1, <1>2 DEF Ordinary, One
  <1>5. ASSUME NEW o1 \in Out, NEW o2 \in Out, Ordinary(s, o1), Ordinary(s, o2)
        PROVE  Ordinary(s, Cat(o1, o2))
    <2>. SUFFICES ASSUME NEW t \in Server
                  PROVE  Plain(Cat(o1, o2)[t]) /\ (Cat(o1, o2)[t] # <<>> => conn[s][t] = "up")
      BY DEF Ordinary
    <2>1. o1[t] \in Seq(Msg) /\ o2[t] \in Seq(Msg) /\ Cat(o1, o2)[t] = o1[t] \o o2[t]
      BY DEF Out, Cat
    <2>2. Plain(o1[t]) /\ Plain(o2[t])
      BY <1>5 DEF Ordinary
    <2>3. Cat(o1, o2)[t] # <<>> => o1[t] # <<>> \/ o2[t] # <<>>
      BY <2>1
    <2>4. Plain(o1[t] \o o2[t])
      BY <2>1, <2>2, PlainConcat
    <2>. QED
      BY <1>5, <2>1, <2>3, <2>4 DEF Ordinary
  <1>6. Ordinary(s, NoOut)
    BY <1>1 DEF Ordinary, NoOut
  <1>. QED
    BY <1>3, <1>4, <1>5, <1>6

\* Which messages belong to a handshake
LEMMA OpeningMessages ==
    /\ \A x, y : ~Opening(SID(x, y)) /\ ~Opening(KILL(x, y))
    /\ \A x, y, z : ~Opening(NICK(x, y, z))
    /\ \A x : ~Opening(SQUIT(x)) /\ ~Opening(QUIT(x)) /\ ~Opening(UIDmsg(x))
  BY DEF Opening, SID, NICK, KILL, SQUIT, QUIT, UIDmsg

\* An ordinary message is read from a linked server.
LEMMA OrdinaryHead ==
    ASSUME LinkInv, Handshakes, NEW s \in Server, NEW t \in Server,
           chan[t][s] # <<>>, ~Opening(Head(chan[t][s]))
    PROVE  t # s /\ conn[s][t] = "up"
  <1>1. t # s
    BY DEF LinkInv, Streams
  <1>. QED
    BY <1>1 DEF Handshakes, Connection, Pair, Phase

\* A step that only carries ordinary messages
LEMMA CarryHandshakes ==
    ASSUME LinkInv, Handshakes, NEW s \in Server, NEW from \in Server \cup {None}, NEW out \in Out,
           from # None => chan[from][s] # <<>> /\ ~Opening(Head(chan[from][s])),
           Ordinary(s, out), Net(s, from, None, out)
    PROVE  Handshakes'
  BY NetHandshakes

\* exit_client_ex of a server
LEMMA ExitHandshakes ==
    ASSUME LinkInv, Handshakes, NEW s \in Server, NEW from \in Server \cup {None},
           from # None => chan[from][s] # <<>> /\ ~Opening(Head(chan[from][s])),
           NEW x \in Server, NEW origin, ExitServer(s, from, x, origin)
    PROVE  Handshakes'
  <1>. DEFINE out == ToServers(Up(s), {x, origin}, SQUIT(x))
              c == IF conn[s][x] = "up" THEN x ELSE None
  <1>1. out \in Out /\ Ordinary(s, out)
    BY OrdinaryOutputs, OpeningMessages, OutTypes, MessageTypes
  <1>2. c \in Server \cup {None} /\ (c # None => conn[s][c] # "none")
    BY ConstantsAssumption
  <1>3. Net(s, from, c, out)
    BY DEF ExitServer
  <1>. HIDE DEF out, c
  <1>. QED
    BY <1>1, <1>2, <1>3, NetHandshakes

\* Connections and streams do not change.
LEMMA SameHandshakes ==
    ASSUME Handshakes, conn' = conn, chan' = chan, dead' = dead
    PROVE  Handshakes'
  BY DEF Handshakes, Connection

-----------------------------------------------------------------------------
(* The actions keep the handshakes in step *)

\* What clients and operators do
LEMMA ClientHandshakes ==
    ASSUME IInv, Handshakes, NEW s \in Server, ClientStep(s)
    PROVE  Handshakes'
  <1>. USE DEF IInv
  <1>0. ASSUME NEW r \in users[s] PROVE r \in UserRec /\ r.uid \in UID
    BY <1>0 DEF TableInv, UserRec
  <1>1. ASSUME NEW out \in Out, Ordinary(s, out), Net(s, None, None, out)
        PROVE  Handshakes'
    BY <1>1, CarryHandshakes
  <1>2. ASSUME NEW m \in Msg, ~Opening(m)
        PROVE  /\ ToServers(Up(s), {}, m) \in Out /\ Ordinary(s, ToServers(Up(s), {}, m))
               /\ NoOut \in Out /\ Ordinary(s, NoOut)
    BY <1>2, OutTypes, OrdinaryOutputs
  <1>3. ASSUME NEW u \in UID, NEW n \in Nick, NEW ts \in TS, NickFirst(s, u, n, ts)
        PROVE  Handshakes'
    BY <1>3, SameHandshakes DEF NickFirst, links
  <1>4. ASSUME NEW r \in users[s], Register(s, r)
        PROVE  Handshakes'
    <2>1. UIDmsg(r) \in Msg /\ ~Opening(UIDmsg(r))
      BY <1>0, MessageTypes, OpeningMessages
    <2>. QED
      BY <1>1, <1>2, <1>4, <2>1 DEF Register
  <1>5. ASSUME NEW r \in users[s], NEW n \in Nick, NEW ts \in TS, NickChange(s, r, n, ts)
        PROVE  Handshakes'
    <2>1. NICK(r.uid, n, ts) \in Msg /\ ~Opening(NICK(r.uid, n, ts))
      BY <1>0, MessageTypes, OpeningMessages
    <2>. QED
      BY <1>1, <1>2, <1>5, <2>1 DEF NickChange
  <1>6. ASSUME NEW r \in users[s], Quit(s, r)
        PROVE  Handshakes'
    <2>1. QUIT(r.uid) \in Msg /\ ~Opening(QUIT(r.uid))
      BY <1>0, MessageTypes, OpeningMessages
    <2>. QED
      BY <1>1, <1>2, <1>6, <2>1 DEF Quit
  <1>7. ASSUME NEW oper \in users[s], NEW r \in users[s], OperKill(s, oper, r)
        PROVE  Handshakes'
    <2>1. /\ QUIT(r.uid) \in Msg /\ ~Opening(QUIT(r.uid))
          /\ KILL(oper.uid, r.uid) \in Msg /\ ~Opening(KILL(oper.uid, r.uid))
      BY <1>0, MessageTypes, OpeningMessages
    <2>. QED
      BY <1>1, <1>2, <1>7, <2>1 DEF OperKill
  <1>8. ASSUME NEW oper \in users[s], NEW x \in Server, OperSquit(s, oper, x)
        PROVE  Handshakes'
    BY <1>8, ExitHandshakes DEF OperSquit
  <1>. QED
    BY <1>3, <1>4, <1>5, <1>6, <1>7, <1>8 DEF ClientStep

\* Connections are made and closed.
LEMMA ConnectionHandshakes ==
    ASSUME IInv, Handshakes, NEW s \in Server, NEW t \in Server,
           Connect(s, t) \/ ReadEOF(s, t) \/ LoseLink(s, t)
    PROVE  Handshakes'
  <1>. USE DEF IInv
  <1>1. ASSUME CloseLink(s, t)
        PROVE  Handshakes'
    <2>1. CASE conn[s][t] = "up"
      BY <1>1, <2>1, ExitHandshakes DEF CloseLink
    <2>2. CASE conn[s][t] # "up"
      BY <1>1, <2>2, NetHandshakes, OutTypes, OrdinaryOutputs DEF CloseLink
    <2>. QED
      BY <2>1, <2>2
  <1>2. ASSUME Connect(s, t)
        PROVE  Handshakes'
    <2>. DEFINE m == EAUTH(Servers(s), FALSE)
    <2>1. /\ s # t /\ conn[s][t] = "none" /\ (conn[t][s] = "none" \/ (conn[t][s] = "up" /\ <<t, s>> \in dead))
          /\ conn' = [conn EXCEPT ![s][t] = "out"]
          /\ chan' = [chan EXCEPT ![s][t] = <<m>>, ![t][s] = <<>>]
      BY <1>2 DEF Connect
    <2>. DEFINE da == <<s, t>> \in dead
                db == <<t, s>> \in dead
    <2>2. Pair("out", conn[t][s], <<>>, <<m>>, da, db)
      <3>1. /\ conn[s][t] \in ConnState /\ conn[t][s] \in ConnState
            /\ chan[s][t] \in Seq(Msg) /\ chan[t][s] \in Seq(Msg)
            /\ da \in BOOLEAN /\ db \in BOOLEAN
            /\ Pair(conn[s][t], conn[t][s], chan[t][s], chan[s][t], da, db)
        BY <2>1, ConnectionTypes DEF Handshakes, Connection
      <3>2. conn[s][t] = "none" /\ (conn[t][s] = "none" \/ (conn[t][s] = "up" /\ db))
        BY <2>1
      <3>3. m \in Msg /\ m.type = "EAUTH" /\ ~m.reply
        BY MessageTypes DEF Servers, EAUTH
      <3>. HIDE DEF da, db, m
      <3>. QED
        BY <3>1, <3>2, <3>3, ConnectPair
    <2>a. dead' = dead
      BY <1>2 DEF Connect
    <2>. HIDE DEF m
    <2>3. \A x, y \in Server :
             /\ conn'[x][y] = IF x = s /\ y = t THEN "out" ELSE conn[x][y]
             /\ chan'[x][y] = IF x = s /\ y = t THEN <<m>>
                              ELSE IF x = t /\ y = s THEN <<>> ELSE chan[x][y]
      BY <2>1, SMTT(30) DEF LinkInv, Streams
    <2>4. Apart(s)
      BY <2>3, <2>a DEF Apart
    <2>5. ASSUME NEW u \in Server, u # s PROVE Connection(s, u)'
      <3>1. CASE u = t
        <4>1. /\ conn'[s][u] = "out" /\ conn'[u][s] = conn[t][s]
              /\ chan'[u][s] = <<>> /\ chan'[s][u] = <<m>>
          BY <2>3, <2>5, <3>1
        <4>. QED
          BY <2>2, <2>a, <3>1, <4>1 DEF Connection
      <3>2. CASE u # t
        <4>1. Connection(s, u)
          BY <2>5 DEF Handshakes
        <4>2. /\ conn'[s][u] = conn[s][u] /\ conn'[u][s] = conn[u][s]
              /\ chan'[u][s] = chan[u][s] /\ chan'[s][u] = chan[s][u]
          BY <2>3, <2>5, <3>2
        <4>. QED
          BY <2>a, <4>1, <4>2 DEF Connection
      <3>. QED
        BY <3>1, <3>2
    <2>. QED
      BY <2>4, <2>5, ActorHandshakes
  <1>. QED
    BY <1>1, <1>2 DEF ReadEOF, LoseLink

\* Deliver appends the output to the streams of live connections.
LEMMA DeliverMessages ==
    ASSUME NEW ch, DOMAIN ch = Server, \A x \in Server : DOMAIN ch[x] = Server,
           NEW s \in Server, NEW out, NEW alive
    PROVE  \A x, y \in Server : Deliver(ch, s, out, alive)[x][y] =
              IF x = s /\ y \in alive THEN ch[x][y] \o out[y] ELSE ch[x][y]
  BY DEF Deliver

\* s reads from t and sends
Streamed(s, t, out, alive) ==
    \A x, y \in Server :
        chan'[x][y] = IF x = t /\ y = s THEN Tail(chan[x][y])
                      ELSE IF x = s /\ y \in alive THEN chan[x][y] \o out[y]
                      ELSE chan[x][y]

\* What a step that reads from t and sends does to the streams
LEMMA DeliverEffect ==
    ASSUME LinkInv, NEW s \in Server, NEW t \in Server, t # s, NEW out \in Out,
           NEW alive \in SUBSET Server, chan' = Deliver(Consume(chan, s, t), s, out, alive)
    PROVE  Streamed(s, t, out, alive)
  <1>. DEFINE ch == Consume(chan, s, t)
  <1>1. /\ DOMAIN ch = Server /\ \A x \in Server : DOMAIN ch[x] = Server
        /\ \A x, y \in Server : ch[x][y] = IF x = t /\ y = s THEN Tail(chan[x][y]) ELSE chan[x][y]
    BY ConstantsAssumption DEF Consume, LinkInv, Streams
  <1>2. chan' = Deliver(ch, s, out, alive)
    OBVIOUS
  <1>. HIDE DEF ch
  <1>3. \A x, y \in Server : chan'[x][y] = IF x = s /\ y \in alive THEN ch[x][y] \o out[y] ELSE ch[x][y]
    BY <1>1, <1>2, DeliverMessages
  <1>. QED
    BY <1>1, <1>3 DEF Streamed

\* EAUTH of a new connection is read.
LEMMA EauthHandshakes ==
    ASSUME IInv, Handshakes, NEW s \in Server, NEW t \in Server, RecvEAUTH(s, t)
    PROVE  Handshakes'
  <1>. USE DEF IInv
  <1>. DEFINE old == Known(s, t) /\ dir[s][t] = t
              gone == IF old THEN Behind(s, t) ELSE {}
              hello == EAUTH(Servers(s) \ gone, TRUE)
  <1>1. PICK deny \in BOOLEAN :
            /\ conn' = [conn EXCEPT ![s][t] = IF deny THEN "none" ELSE "in"]
            /\ dead' = (dead \ {<<s, t>>}) \cup (IF deny THEN {<<t, s>>} ELSE {})
            /\ chan' = Deliver(Consume(chan, s, t), s,
                          Cat(ToServers(IF old THEN Up(s) ELSE {}, {t}, SQUIT(t)),
                              IF deny THEN NoOut ELSE One(t, hello)),
                          Alive(s) \cup {t})
    BY DEF RecvEAUTH
  <1>. DEFINE told == ToServers(IF old THEN Up(s) ELSE {}, {t}, SQUIT(t))
              answer == IF deny THEN NoOut ELSE One(t, hello)
              out == Cat(told, answer)
  <1>2. chan[t][s] # <<>> /\ Head(chan[t][s]).type = "EAUTH" /\ ~Head(chan[t][s]).reply /\ t # s
    BY ReceivedMessage DEF RecvEAUTH, Receives
  <1>3. hello \in Msg /\ SQUIT(t) \in Msg /\ ~Opening(SQUIT(t))
    BY MessageTypes, OpeningMessages DEF Servers
  <1>. HIDE DEF old, gone, hello
  <1>4. out \in Out
    BY <1>3, OutTypes
  <1>5. \A u \in Server : u # t => out[u] = IF old /\ u \in Up(s) THEN <<SQUIT(t)>> ELSE <<>>
    <2>1. <<SQUIT(t)>> \o <<>> = <<SQUIT(t)>> /\ <<>> \o <<>> = <<>>
      BY <1>3
    <2>. QED
      BY <2>1 DEF Cat, ToServers, NoOut, One
  <1>6. out[t] = IF deny THEN <<>> ELSE <<hello>>
    <2>1. <<>> \o <<hello>> = <<hello>> /\ <<>> \o <<>> = <<>>
      BY <1>3
    <2>. QED
      BY <2>1 DEF Cat, ToServers, NoOut, One
  <1>7. chan' = Deliver(Consume(chan, s, t), s, out, Alive(s) \cup {t})
    BY <1>1
  <1>. HIDE DEF told, answer, out
  <1>8. Alive(s) \cup {t} \in SUBSET Server
    BY DEF Alive
  <1>9. \A x, y \in Server :
           /\ conn'[x][y] = IF x = s /\ y = t THEN IF deny THEN "none" ELSE "in" ELSE conn[x][y]
           /\ ~(x = s /\ y = t) /\ ~(x = t /\ y = s) => (<<x, y>> \in dead' <=> <<x, y>> \in dead)
    BY <1>1 DEF LinkInv
  <1>10. <<s, t>> \notin dead' /\ (<<t, s>> \in dead' <=> deny \/ <<t, s>> \in dead)
    BY <1>1, <1>2
  <1>11. Streamed(s, t, out, Alive(s) \cup {t})
    BY <1>2, <1>4, <1>7, <1>8, DeliverEffect
  <1>12. Apart(s)
    BY <1>9, <1>11 DEF Apart, Streamed
  <1>13. Carried(s, t, t, out)
    BY <1>9, <1>11 DEF Carried, Streamed
  <1>14. \A u \in Server \ {t} : Plain(out[u]) /\ (out[u] # <<>> => conn[s][u] = "up")
    BY <1>3, <1>5, Single DEF Plain, Up
  <1>15. \A u \in Server : u # s /\ u # t => Connection(s, u)'
    BY <1>4, <1>12, <1>13, <1>14, CarriedConnections
  <1>16. Connection(s, t)'
    <2>. DEFINE da == <<s, t>> \in dead
                db == <<t, s>> \in dead
                da1 == <<s, t>> \in dead'
                db1 == <<t, s>> \in dead'
    <2>1. /\ conn[s][t] \in ConnState /\ conn[t][s] \in ConnState
          /\ chan[s][t] \in Seq(Msg) /\ chan[t][s] \in Seq(Msg)
          /\ da \in BOOLEAN /\ db \in BOOLEAN
          /\ Pair(conn[s][t], conn[t][s], chan[t][s], chan[s][t], da, db)
      BY <1>2, ConnectionTypes DEF Handshakes, Connection
    <2>2. /\ conn[t][s] = "out" /\ chan[s][t] = <<>> /\ Tail(chan[t][s]) = <<>> /\ ~db
      <3>. HIDE DEF da, db
      <3>. QED
        BY <1>2, <2>1, AskedPair, SMTT(30)
    <2>3. conn'[s][t] = (IF deny THEN "none" ELSE "in") /\ conn'[t][s] = "out"
      BY <1>2, <1>9, <2>2
    <2>4. chan'[t][s] = <<>> /\ chan'[s][t] = out[t]
      <3>1. <<>> \o out[t] = out[t]
        BY <1>4 DEF Out
      <3>. QED
        BY <1>2, <1>11, <2>2, <3>1 DEF Streamed
    <2>5. da1 = FALSE /\ db1 = deny
      BY <1>10, <2>2
    <2>6. Pair(conn'[s][t], conn'[t][s], chan'[t][s], chan'[s][t], da1, db1)
      <3>1. CASE deny
        <4>1. Pair("none", "out", <<>>, <<>>, FALSE, TRUE)
          BY AcceptPair
        <4>2. da1 = FALSE /\ db1 = TRUE
          BY <2>5, <3>1
        <4>. HIDE DEF da1, db1
        <4>. QED
          BY <1>6, <2>3, <2>4, <3>1, <4>1, <4>2
      <3>2. CASE ~deny
        <4>1. Pair("in", "out", <<>>, <<hello>>, FALSE, FALSE)
          BY AcceptPair DEF hello
        <4>2. da1 = FALSE /\ db1 = FALSE
          BY <2>5, <3>2
        <4>. HIDE DEF da1, db1
        <4>. QED
          BY <1>6, <2>3, <2>4, <3>2, <4>1, <4>2
      <3>. QED
        BY <3>1, <3>2
    <2>. QED
      BY <2>6 DEF Connection
  <1>. QED
    BY <1>12, <1>15, <1>16, ActorHandshakes

\* The answer to our EAUTH is read.
LEMMA AnswerHandshakes ==
    ASSUME IInv, Handshakes, NEW s \in Server, NEW t \in Server, RecvEAUTHReply(s, t)
    PROVE  Handshakes'
  <1>. USE DEF IInv
  <1>1. chan[t][s] # <<>> /\ Head(chan[t][s]).type = "EAUTH" /\ Head(chan[t][s]).reply /\ t # s /\ t # None
    BY ReceivedMessage DEF RecvEAUTHReply, Receives
  <1>. DEFINE da == <<s, t>> \in dead
              db == <<t, s>> \in dead
  <1>2. /\ conn[s][t] \in ConnState /\ conn[t][s] \in ConnState
        /\ chan[s][t] \in Seq(Msg) /\ chan[t][s] \in Seq(Msg)
        /\ da \in BOOLEAN /\ db \in BOOLEAN
        /\ Pair(conn[s][t], conn[t][s], chan[t][s], chan[s][t], da, db)
    BY <1>1, ConnectionTypes DEF Handshakes, Connection
  <1>. DEFINE p1 == IF da THEN <<>> ELSE <<SERVER>>
  <1>3. /\ conn[s][t] = "out" /\ chan[s][t] = <<>> /\ Tail(chan[t][s]) = <<>>
        /\ Pair("sent", conn[t][s], <<>>, p1, da, db)
    <2>1. (da => p1 = <<>>) /\ (~da => p1 = <<SERVER>>)
      OBVIOUS
    <2>. HIDE DEF da, db, p1
    <2>. QED
      BY <1>1, <1>2, <2>1, AnsweredPair, SMTT(30)
  <1>4. CASE Net(s, t, t, NoOut)
    BY <1>1, <1>3, <1>4, NetHandshakes, OutTypes, OrdinaryOutputs
  <1>5. CASE /\ conn' = [conn EXCEPT ![s][t] = "sent"]
             /\ chan' = Deliver(Consume(chan, s, t), s, One(t, SERVER), Alive(s))
             /\ UNCHANGED dead
    <2>. DEFINE out == One(t, SERVER)
    <2>1. /\ out \in Out /\ out[t] = <<SERVER>>
          /\ \A u \in Server \ {t} : out[u] = <<>> /\ Plain(out[u])
      BY OutTypes, MessageTypes DEF One, Plain
    <2>2. Streamed(s, t, out, Alive(s))
      <3>1. Alive(s) \in SUBSET Server
        BY DEF Alive
      <3>. QED
        BY <1>1, <1>5, <2>1, <3>1, DeliverEffect
    <2>. HIDE DEF out
    <2>3. \A x, y \in Server :
             /\ conn'[x][y] = IF x = s /\ y = t THEN "sent" ELSE conn[x][y]
             /\ <<x, y>> \in dead' <=> <<x, y>> \in dead
      BY <1>5 DEF LinkInv
    <2>4. Apart(s) /\ Carried(s, t, t, out)
      BY <2>2, <2>3 DEF Apart, Carried, Streamed
    <2>5. \A u \in Server : u # s /\ u # t => Connection(s, u)'
      <3>1. \A u \in Server \ {t} : Plain(out[u]) /\ (out[u] # <<>> => conn[s][u] = "up")
        BY <2>1
      <3>. QED
        BY <2>1, <2>4, <3>1, CarriedConnections
    <2>6. Connection(s, t)'
      <3>1. conn'[s][t] = "sent" /\ conn'[t][s] = conn[t][s]
        BY <1>1, <2>3
      <3>2. chan'[t][s] = <<>> /\ chan'[s][t] = p1
        <4>1. <<>> \o <<SERVER>> = <<SERVER>>
          BY MessageTypes
        <4>2. t \in Alive(s) <=> ~da
          BY <1>3 DEF Alive
        <4>3. /\ chan'[t][s] = Tail(chan[t][s])
              /\ chan'[s][t] = IF t \in Alive(s) THEN chan[s][t] \o out[t] ELSE chan[s][t]
          BY <1>1, <2>2 DEF Streamed
        <4>. HIDE DEF da
        <4>. QED
          BY <1>3, <2>1, <4>1, <4>2, <4>3
      <3>3. (<<s, t>> \in dead') = da /\ (<<t, s>> \in dead') = db
        BY <1>5
      <3>. HIDE DEF da, db, p1
      <3>. QED
        BY <1>3, <3>1, <3>2, <3>3 DEF Connection
    <2>. QED
      BY <2>4, <2>5, <2>6, ActorHandshakes
  <1>. QED
    BY <1>4, <1>5 DEF RecvEAUTHReply

\* SERVER is read.
LEMMA ServerHandshakes ==
    ASSUME IInv, Handshakes, NEW s \in Server, NEW t \in Server, RecvSERVER(s, t)
    PROVE  Handshakes'
  <1>. USE DEF IInv
  <1>1. chan[t][s] # <<>> /\ Head(chan[t][s]).type = "SERVER" /\ t # s /\ t # None
    BY ReceivedMessage DEF RecvSERVER, Receives
  <1>. DEFINE da == <<s, t>> \in dead
              db == <<t, s>> \in dead
  <1>2. /\ conn[s][t] \in ConnState /\ conn[t][s] \in ConnState
        /\ chan[s][t] \in Seq(Msg) /\ chan[t][s] \in Seq(Msg)
        /\ da \in BOOLEAN /\ db \in BOOLEAN
        /\ Pair(conn[s][t], conn[t][s], chan[t][s], chan[s][t], da, db)
    BY <1>1, ConnectionTypes DEF Handshakes, Connection
  <1>3. ASSUME NEW p1, da => p1 = <<>>, ~da => Welcome(conn[s][t], p1)
        PROVE  Pair("up", conn[t][s], Tail(chan[t][s]), p1, da, db)
    <2>. HIDE DEF da, db
    <2>. QED
      BY <1>1, <1>2, <1>3, ServerPair
  <1>4. conn[s][t] \in {"in", "sent"} /\ chan[s][t] = <<>>
    <2>. HIDE DEF da, db
    <2>. QED
      BY <1>1, <1>2, GreetedPair
  <1>. DEFINE greeting == IF conn[s][t] = "in" THEN <<SERVER>> ELSE <<>>
  <1>. HIDE DEF greeting
  <1>5. CASE Known(s, t)
    BY <1>1, <1>4, <1>5, NetHandshakes, OutTypes, OrdinaryOutputs DEF RecvSERVER
  <1>6. CASE ~Known(s, t)
    <2>1. PICK sl \in ServerListings(s, Servers(s) \ {s}), ul \in Listings(Registered(s)) :
            LET burst == greeting \o [i \in DOMAIN sl |-> SID(uplink[s][sl[i]], sl[i])]
                                  \o [i \in DOMAIN ul |-> UIDmsg(ul[i])]
            IN  /\ conn' = [conn EXCEPT ![s][t] = "up"]
                /\ chan' = Deliver(Consume(chan, s, t), s,
                               Cat(ToServers(Up(s), {t}, SID(s, t)),
                                   [NoOut EXCEPT ![t] = burst]), Alive(s))
                /\ UNCHANGED dead
      BY <1>6 DEF RecvSERVER, greeting
    <2>. DEFINE sids == [i \in DOMAIN sl |-> SID(uplink[s][sl[i]], sl[i])]
                uids == [i \in DOMAIN ul |-> UIDmsg(ul[i])]
                all == greeting \o sids \o uids
                out == Cat(ToServers(Up(s), {t}, SID(s, t)), [NoOut EXCEPT ![t] = all])
    <2>2. greeting \in Seq(Msg)
      <3>1. \A x \in Msg : <<x>> \in Seq(Msg)
        OBVIOUS
      <3>. QED
        BY <3>1, MessageTypes DEF greeting
    <2>3. sids \in Seq(Msg) /\ Plain(sids)
      <3>1. IsFiniteSet(Servers(s) \ {s})
        BY ConstantsAssumption, FS_Subset DEF Servers
      <3>2. PICK n \in Nat : sl \in [1..n -> Servers(s) \ {s}]
        BY <3>1, FS_CardinalityType DEF ServerListings, Listings
      <3>3. \A x \in Servers(s) \ {s} : SID(uplink[s][x], x) \in Msg
        BY MessageTypes DEF TableInv, NoOrphans, Servers
      <3>4. DOMAIN sl = 1..n /\ \A i \in 1..n : SID(uplink[s][sl[i]], sl[i]) \in Msg
        BY <3>2, <3>3
      <3>. QED
        BY <3>4, OpeningMessages DEF Plain
    <2>4. uids \in Seq(Msg) /\ Plain(uids)
      <3>1. IsFiniteSet(Registered(s))
        BY FS_Subset DEF TableInv, Registered
      <3>2. PICK n \in Nat : ul \in [1..n -> Registered(s)]
        BY <3>1, FS_CardinalityType DEF Listings
      <3>3. \A r \in Registered(s) : UIDmsg(r) \in Msg
        BY MessageTypes DEF TableInv, Registered
      <3>4. DOMAIN ul = 1..n /\ \A i \in 1..n : UIDmsg(ul[i]) \in Msg
        BY <3>2, <3>3
      <3>. QED
        BY <3>4, OpeningMessages DEF Plain
    <2>5. chan' = Deliver(Consume(chan, s, t), s, out, Alive(s))
      BY <2>1
    <2>. HIDE DEF sids, uids
    <2>. DEFINE burst == sids \o uids
    <2>6. burst \in Seq(Msg) /\ Plain(burst) /\ all = greeting \o burst /\ all \in Seq(Msg)
      BY <2>2, <2>3, <2>4, PlainConcat, ConcatProperties, ConcatAssociative, SMTT(30)
    <2>. HIDE DEF burst, all
    <2>7. /\ out \in Out
          /\ \A u \in Server \ {t} : Plain(out[u]) /\ (out[u] # <<>> => conn[s][u] = "up")
          /\ out[t] = all
      <3>1. SID(s, t) \in Msg /\ ~Opening(SID(s, t))
        BY MessageTypes, OpeningMessages
      <3>2. ToServers(Up(s), {t}, SID(s, t)) \in Out /\ [NoOut EXCEPT ![t] = all] \in Out
        BY <2>6, <3>1, OutTypes DEF Out
      <3>3. out \in Out
        BY <3>2, OutTypes
      <3>4. <<>> \o all = all /\ <<SID(s, t)>> \o <<>> = <<SID(s, t)>> /\ <<>> \o <<>> = <<>>
        BY <2>6, <3>1
      <3>5. out[t] = all
        BY <3>4 DEF Cat, ToServers, NoOut
      <3>6. \A u \in Server \ {t} : out[u] = IF u \in Up(s) THEN <<SID(s, t)>> ELSE <<>>
        BY <3>4 DEF Cat, ToServers, NoOut
      <3>7. Plain(<<SID(s, t)>>) /\ Plain(<<>>)
        BY <3>1, Single DEF Plain
      <3>. HIDE DEF out
      <3>. QED
        BY <3>3, <3>5, <3>6, <3>7 DEF Up
    <2>. HIDE DEF out
    <2>8. Streamed(s, t, out, Alive(s))
      <3>1. Alive(s) \in SUBSET Server
        BY DEF Alive
      <3>. QED
        BY <1>1, <2>5, <2>7, <3>1, DeliverEffect
    <2>9. \A x, y \in Server :
             /\ conn'[x][y] = IF x = s /\ y = t THEN "up" ELSE conn[x][y]
             /\ <<x, y>> \in dead' <=> <<x, y>> \in dead
      BY <2>1 DEF LinkInv
    <2>10. Apart(s) /\ Carried(s, t, t, out)
      BY <2>8, <2>9 DEF Apart, Carried, Streamed
    <2>11. \A u \in Server : u # s /\ u # t => Connection(s, u)'
      BY <2>7, <2>10, CarriedConnections
    <2>12. Connection(s, t)'
      <3>1. conn'[s][t] = "up" /\ conn'[t][s] = conn[t][s]
        BY <1>1, <2>9
      <3>2. /\ chan'[t][s] = Tail(chan[t][s])
            /\ chan'[s][t] = IF t \in Alive(s) THEN chan[s][t] \o out[t] ELSE chan[s][t]
        BY <1>1, <2>8 DEF Streamed
      <3>3. t \in Alive(s) <=> ~da
        BY <1>4 DEF Alive
      <3>4. <<>> \o all = all
        BY <2>6
      <3>5. (<<s, t>> \in dead') = da /\ (<<t, s>> \in dead') = db
        BY <2>1
      <3>6. (da => chan'[s][t] = <<>>) /\ (~da => chan'[s][t] = all)
        <4>. HIDE DEF da
        <4>. QED
          BY <1>4, <2>7, <3>2, <3>3, <3>4
      <3>7. ~da => Welcome(conn[s][t], chan'[s][t])
        BY <2>6, <3>6 DEF Welcome, greeting
      <3>8. Pair("up", conn[t][s], Tail(chan[t][s]), chan'[s][t], da, db)
        <4>. HIDE DEF da, db
        <4>. QED
          BY <1>3, <3>6, <3>7
      <3>. HIDE DEF da, db
      <3>. QED
        BY <3>1, <3>2, <3>5, <3>8 DEF Connection
    <2>. QED
      BY <2>10, <2>11, <2>12, ActorHandshakes
  <1>. QED
    BY <1>5, <1>6

\* Messages that parse2 turns away, and those about servers.
LEMMA ServerMessageHandshakes ==
    ASSUME IInv, Handshakes, NEW s \in Server, NEW t \in Server,
           RecvBadSource(s, t) \/ RecvSID(s, t) \/ RecvSQUIT(s, t)
    PROVE  Handshakes'
  <1>. USE DEF IInv
  <1>. DEFINE m == Head(chan[t][s])
  <1>1. /\ chan[t][s] # <<>> /\ m.type \in {"SID", "SQUIT", "UID", "NICK", "QUIT", "KILL"}
        /\ RecvSID(s, t) => m.type = "SID"
        /\ RecvSQUIT(s, t) => m.type = "SQUIT"
        /\ RecvBadSource(s, t) => m.type # "SQUIT"
    BY DEF RecvBadSource, RecvSID, RecvSQUIT, Accepts, Receives
  <1>2. m \in Msg /\ ~Opening(m) /\ t # s /\ t # None /\ conn[s][t] = "up"
    BY <1>1, ReceivedMessage, OrdinaryHead DEF Opening
  <1>3. ASSUME NEW out \in Out, Ordinary(s, out), Net(s, t, None, out)
        PROVE  Handshakes'
    BY <1>1, <1>2, <1>3, CarryHandshakes
  <1>4. ASSUME NEW x \in Server, ExitServer(s, t, x, t)
        PROVE  Handshakes'
    BY <1>1, <1>2, <1>4, ExitHandshakes
  <1>5. ASSUME NEW n \in Msg, ~Opening(n)
        PROVE  /\ One(t, n) \in Out /\ Ordinary(s, One(t, n))
               /\ ToServers(Up(s), {t}, n) \in Out /\ Ordinary(s, ToServers(Up(s), {t}, n))
    BY <1>2, <1>5, OutTypes, OrdinaryOutputs
  <1>6. NoOut \in Out /\ Ordinary(s, NoOut)
    BY OutTypes, OrdinaryOutputs
  <1>7. ASSUME RecvBadSource(s, t)
        PROVE  Handshakes'
    <2>1. Net(s, t, None, IF SourceKnown(s, Source(m)) THEN NoOut
                          ELSE One(t, IF Source(m) \in UID THEN KILL(s, Source(m)) ELSE SQUIT(Source(m))))
      BY <1>7 DEF RecvBadSource, Reply
    <2>2. Source(m) \in Server \cup UID
      <3>1. m.type \in {"SID", "UID", "NICK", "QUIT", "KILL"}
        BY <1>1, <1>7
      <3>. HIDE DEF m
      <3>. QED
        BY <1>2, <3>1, MessageFields, ConstantsAssumption DEF Source
    <2>. HIDE DEF m
    <2>3. CASE SourceKnown(s, Source(m))
      BY <1>3, <1>6, <2>1, <2>3
    <2>4. CASE ~SourceKnown(s, Source(m)) /\ Source(m) \in UID
      <3>1. KILL(s, Source(m)) \in Msg /\ ~Opening(KILL(s, Source(m)))
        BY <2>4, MessageTypes, OpeningMessages
      <3>. QED
        BY <1>3, <1>5, <2>1, <2>4, <3>1
    <2>5. CASE ~SourceKnown(s, Source(m)) /\ Source(m) \notin UID
      <3>1. SQUIT(Source(m)) \in Msg /\ ~Opening(SQUIT(Source(m)))
        BY <2>2, <2>5, MessageTypes, OpeningMessages
      <3>. QED
        BY <1>3, <1>5, <2>1, <2>5, <3>1
    <2>. QED
      BY <2>3, <2>4, <2>5
  <1>8. ASSUME RecvSID(s, t)
        PROVE  Handshakes'
    <2>1. m.src \in Server /\ m.id \in Server
      BY <1>1, <1>2, <1>8, MessageFields
    <2>2. SQUIT(m.id) \in Msg /\ ~Opening(SQUIT(m.id))
      BY <2>1, MessageTypes, OpeningMessages
    <2>3. \/ ExitServer(s, t, m.src, t)
          \/ Net(s, t, None, One(t, SQUIT(m.id)))
          \/ Net(s, t, None, ToServers(Up(s), {t}, m))
      BY <1>8 DEF RecvSID, Reply
    <2>. HIDE DEF m
    <2>. QED
      BY <1>2, <1>3, <1>4, <1>5, <2>1, <2>2, <2>3
  <1>9. ASSUME RecvSQUIT(s, t)
        PROVE  Handshakes'
    <2>1. m.id \in Server
      BY <1>1, <1>2, <1>9, MessageFields
    <2>2. \/ ExitServer(s, t, t, t)
          \/ ExitServer(s, t, m.id, t)
          \/ Net(s, t, None, NoOut)
      BY <1>9 DEF RecvSQUIT, Reply
    <2>. HIDE DEF m
    <2>. QED
      BY <1>3, <1>4, <1>6, <2>1, <2>2
  <1>. QED
    BY <1>7, <1>8, <1>9

\* A collision sends KILLs to linked servers only.
LEMMA CollisionOrdinary ==
    ASSUME NEW s \in Server, NEW t \in Server, conn[s][t] = "up",
           NEW u \in UID, NEW changing \in BOOLEAN, NEW ex \in UserRec, NEW verdict
    PROVE  Ordinary(s, CollisionOut(s, t, u, changing, ex, verdict))
  <1>1. /\ KILL(s, u) \in Msg /\ KILL(s, ex.uid) \in Msg
        /\ ~Opening(KILL(s, u)) /\ ~Opening(KILL(s, ex.uid))
    BY MessageTypes, OpeningMessages DEF UserRec
  <1>. DEFINE back == One(t, KILL(s, u))
              on == IF changing THEN ToServers(Up(s), {t}, KILL(s, u)) ELSE NoOut
              all == IF verdict \in {"equal", "new_won"}
                     THEN ToServers(Up(s), {}, KILL(s, ex.uid)) ELSE NoOut
              loses == IF verdict \in {"equal", "existing_won"} THEN Cat(back, on) ELSE NoOut
  <1>2. back \in Out /\ Ordinary(s, back)
    BY <1>1, OutTypes, OrdinaryOutputs
  <1>3. on \in Out /\ Ordinary(s, on)
    BY <1>1, OutTypes, OrdinaryOutputs
  <1>4. all \in Out /\ Ordinary(s, all)
    BY <1>1, OutTypes, OrdinaryOutputs
  <1>5. CollisionOut(s, t, u, changing, ex, verdict) = Cat(loses, all)
    BY DEF CollisionOut
  <1>. HIDE DEF back, on, all
  <1>6. loses \in Out /\ Ordinary(s, loses)
    BY <1>2, <1>3, OutTypes, OrdinaryOutputs
  <1>. HIDE DEF loses
  <1>. QED
    BY <1>4, <1>5, <1>6, OrdinaryOutputs

\* Messages about users.
LEMMA UserMessageHandshakes ==
    ASSUME IInv, Handshakes, NEW s \in Server, NEW t \in Server,
           RecvUID(s, t) \/ RecvNICK(s, t) \/ RecvQUIT(s, t) \/ RecvKILL(s, t)
    PROVE  Handshakes'
  <1>. USE DEF IInv
  <1>. DEFINE m == Head(chan[t][s])
              forward == ToServers(Up(s), {t}, m)
  <1>1. chan[t][s] # <<>> /\ m.type \in {"UID", "NICK", "QUIT", "KILL"}
    BY DEF RecvUID, RecvNICK, RecvQUIT, RecvKILL, Accepts, Receives
  <1>2. m \in Msg /\ ~Opening(m) /\ t # s /\ t # None /\ conn[s][t] = "up"
    BY <1>1, ReceivedMessage, OrdinaryHead DEF Opening
  <1>3. m.uid \in UID
    BY <1>1, <1>2, MessageFields
  <1>4. ASSUME NEW out \in Out, Ordinary(s, out), Net(s, t, None, out)
        PROVE  Handshakes'
    BY <1>1, <1>2, <1>4, CarryHandshakes
  <1>5. forward \in Out /\ Ordinary(s, forward) /\ NoOut \in Out /\ Ordinary(s, NoOut)
    <2>. HIDE DEF m
    <2>. QED
      BY <1>2, OutTypes, OrdinaryOutputs
  <1>6. ASSUME NEW ex \in users[s], NEW changing \in BOOLEAN, NEW verdict, NEW enters \in BOOLEAN,
               Net(s, t, None, Cat(CollisionOut(s, t, m.uid, changing, ex, verdict),
                                   IF enters THEN forward ELSE NoOut))
        PROVE  Handshakes'
    <2>. DEFINE kills == CollisionOut(s, t, m.uid, changing, ex, verdict)
                rest == IF enters THEN forward ELSE NoOut
    <2>1. ex \in UserRec
      BY DEF TableInv
    <2>2. kills \in Out /\ Ordinary(s, kills)
      <3>. HIDE DEF m
      <3>. QED
        BY <1>2, <1>3, <2>1, CollisionOutType, CollisionOrdinary
    <2>3. rest \in Out /\ Ordinary(s, rest)
      <3>. HIDE DEF forward
      <3>. QED
        BY <1>5
    <2>4. Net(s, t, None, Cat(kills, rest))
      BY <1>6
    <2>. HIDE DEF kills, rest
    <2>. QED
      BY <1>4, <2>2, <2>3, <2>4, OutTypes, OrdinaryOutputs
  <1>7. ASSUME RecvUID(s, t)
        PROVE  Handshakes'
    <2>1. \/ Net(s, t, None, forward)
          \/ \E ex \in users[s] : \E verdict : \E enters \in BOOLEAN :
                Net(s, t, None, Cat(CollisionOut(s, t, m.uid, FALSE, ex, verdict),
                                    IF enters THEN forward ELSE NoOut))
      BY <1>7 DEF RecvUID, ByNick
    <2>. HIDE DEF forward, m
    <2>. QED
      BY <1>4, <1>5, <1>6, <2>1
  <1>8. ASSUME RecvNICK(s, t)
        PROVE  Handshakes'
    <2>1. \/ Net(s, t, None, NoOut) \/ Net(s, t, None, forward)
          \/ \E ex \in users[s] : \E verdict : \E enters \in BOOLEAN :
                Net(s, t, None, Cat(CollisionOut(s, t, m.uid, TRUE, ex, verdict),
                                    IF enters THEN forward ELSE NoOut))
      BY <1>8 DEF RecvNICK, ByNick, Reply
    <2>. HIDE DEF forward, m
    <2>. QED
      BY <1>4, <1>5, <1>6, <2>1
  <1>9. ASSUME RecvQUIT(s, t) \/ RecvKILL(s, t)
        PROVE  Handshakes'
    <2>1. \/ Net(s, t, None, forward) \/ Net(s, t, None, NoOut)
          \/ Net(s, t, None, ToServers(Up(s), {}, QUIT(m.uid)))
      BY <1>9 DEF RecvQUIT, RecvKILL
    <2>2. /\ ToServers(Up(s), {}, QUIT(m.uid)) \in Out
          /\ Ordinary(s, ToServers(Up(s), {}, QUIT(m.uid)))
      BY <1>3, MessageTypes, OpeningMessages, OutTypes, OrdinaryOutputs
    <2>. HIDE DEF forward, m
    <2>. QED
      BY <1>4, <1>5, <2>1, <2>2
  <1>. QED
    BY <1>7, <1>8, <1>9

\* The handshakes are in step initially,
LEMMA HandshakesInit == Init => Handshakes
  BY DEF Init, Handshakes, Connection, Pair, Phase

\* after every step,
LEMMA HandshakesNext == IInv /\ Handshakes /\ [Next]_vars => Handshakes'
  <1>. SUFFICES ASSUME IInv, Handshakes, [Next]_vars PROVE Handshakes'
    OBVIOUS
  <1>1. CASE UNCHANGED vars
    BY <1>1, SameHandshakes DEF vars
  <1>2. CASE Next
    BY <1>2, ClientHandshakes, ConnectionHandshakes, EauthHandshakes, AnswerHandshakes,
       ServerHandshakes, ServerMessageHandshakes, UserMessageHandshakes DEF Next, Receive
  <1>. QED
    BY <1>1, <1>2

\* and so always.
LEMMA HandshakesHold == Spec => []Handshakes
  BY HandshakesInit, HandshakesNext, Invariance, PTL DEF Spec

\* Handshakes and the types of the streams say that every line is read in the
\* state it is meant for.
LEMMA HandshakesStep ==
    ASSUME LinkInv, Handshakes
    PROVE  InStep
  <1>1. SUFFICES ASSUME NEW s \in Server, NEW t \in Server, chan[t][s] # <<>>
                 PROVE  LET m == Head(chan[t][s])
                        IN  CASE m.type = "EAUTH" /\ ~m.reply -> conn[s][t] = "none" \/ <<s, t>> \in dead
                              [] m.type = "EAUTH" /\ m.reply -> conn[s][t] = "out"
                              [] m.type = "SERVER" -> conn[s][t] \in {"in", "sent"}
                              [] OTHER -> conn[s][t] = "up"
    BY DEF InStep
  <1>2. Phase(conn[s][t], conn[t][s], chan[t][s], chan[s][t], <<s, t>> \in dead, <<t, s>> \in dead)
    BY <1>1, ReceivedMessage DEF Handshakes, Connection, Pair
  <1>. DEFINE m == Head(chan[t][s])
  <1>3. /\ m.type = "EAUTH" /\ ~m.reply => conn[s][t] = "none" \/ <<s, t>> \in dead
        /\ m.type = "EAUTH" /\ m.reply => conn[s][t] = "out"
        /\ m.type = "SERVER" => conn[s][t] \in {"in", "sent"}
        /\ m.type # "EAUTH" /\ m.type # "SERVER" => conn[s][t] = "up"
    BY <1>1, <1>2 DEF Phase, Opening
  <1>. HIDE DEF m
  <1>. QED
    BY <1>3 DEF m

\* Through every handshake, refusal, split and relink of any number of servers,
\* every line finds its reader in the state it is meant for.
THEOREM HandshakesInStep == Spec => []InStep
  <1>1. IInv /\ Handshakes => InStep
    BY HandshakesStep DEF IInv
  <1>. QED
    BY <1>1, Invariance, HandshakesHold, PTL

-----------------------------------------------------------------------------
(* Directions *)

(***************************************************************************)
(* What is true of the tables of s, beyond TableInv: an unknown server has *)
(* no uplink, and a known one is behind the neighbour that is its          *)
(* direction, which is linked.  That x is in Behind(s, d) is what the exit *)
(* of d needs in order to take x along.                                    *)
(***************************************************************************)
Route(s, x) ==
    /\ ~Known(s, x) => uplink[s][x] = None
    /\ Known(s, x) /\ x # s =>
          LET d == dir[s][x]
          IN  d # s /\ dir[s][d] = d /\ conn[s][d] = "up" /\ x \in Behind(s, d)

Routed == \A s, x \in Server : Route(s, x)

\* A step of s that leaves the tables and connections of the others alone
Elsewhere(s) ==
    \A q \in Server : q # s => dir'[q] = dir[q] /\ uplink'[q] = uplink[q] /\ conn'[q] = conn[q]

\* It is enough to look at the tables of s.
LEMMA ActorRouted ==
    ASSUME Routed, NEW s \in Server, Elsewhere(s), \A x \in Server : Route(s, x)'
    PROVE  Routed'
  <1>1. SUFFICES ASSUME NEW q \in Server, NEW x \in Server, q # s PROVE Route(q, x)'
    BY DEF Routed
  <1>2. dir'[q] = dir[q] /\ uplink'[q] = uplink[q] /\ conn'[q] = conn[q]
    BY <1>1 DEF Elsewhere
  <1>3. Route(q, x)
    BY DEF Routed
  <1>4. \A d : Behind(q, d)' = Behind(q, d)
    BY <1>2 DEF Behind
  <1>. QED
    BY <1>2, <1>3, <1>4 DEF Route, Known

\* The tables of s do not change and no connection that is in use is lost.
LEMMA SameRoutes ==
    ASSUME Routed, NEW s \in Server, dir' = dir, uplink' = uplink,
           \A q, t \in Server :
               q # s \/ (conn[q][t] = "up" /\ dir[q][t] = t) => conn'[q][t] = conn[q][t],
           dir \in [Server -> [Server -> Server \cup {None}]]
    PROVE  Routed'
  <1>1. SUFFICES ASSUME NEW q \in Server, NEW x \in Server PROVE Route(q, x)'
    BY DEF Routed
  <1>2. Route(q, x)
    BY DEF Routed
  <1>3. \A d : Behind(q, d)' = Behind(q, d)
    BY DEF Behind
  <1>4. Known(q, x) => dir[q][x] \in Server
    BY DEF Known
  <1>. QED
    BY <1>2, <1>3, <1>4 DEF Route, Known

\* s forgets everything behind x, and may lose the connection with x.
LEMMA ForgetRouted ==
    ASSUME TableInv, Routed, NEW s \in Server, NEW x \in Server, x # s,
           Forget(s, Behind(s, x)),
           \A q, t \in Server : (q # s \/ t # x) => conn'[q][t] = conn[q][t],
           conn \in [Server -> [Server -> ConnState]], conn' \in [Server -> [Server -> ConnState]]
    PROVE  Routed'
  <1>. DEFINE gone == Behind(s, x)
  <1>1. gone \in SUBSET (Server \ {s}) /\ x \in gone /\ \A z \in Server : uplink[s][z] \in gone => z \in gone
    BY BehindProperties
  <1>2. Elsewhere(s)
    <2>1. ASSUME NEW q \in Server, q # s PROVE conn'[q] = conn[q]
      BY <2>1
    <2>. QED
      BY <2>1 DEF Elsewhere, Forget, TableInv
  <1>3. \A y \in Server : /\ y \in gone => dir'[s][y] = None /\ uplink'[s][y] = None
                          /\ y \notin gone => dir'[s][y] = dir[s][y] /\ uplink'[s][y] = uplink[s][y]
    BY DEF Forget, TableInv
  <1>4. ASSUME NEW y \in Server PROVE Route(s, y)'
    <2>0. Route(s, y)
      BY DEF Routed
    <2>1. CASE y \in gone
      BY <1>3, <2>1 DEF Route, Known
    <2>2. CASE y \notin gone
      <3>1. dir'[s][y] = dir[s][y] /\ uplink'[s][y] = uplink[s][y]
        BY <1>3, <2>2
      <3>2. CASE dir[s][y] = None \/ y = s
        BY <2>0, <3>1, <3>2 DEF Route, Known
      <3>3. CASE dir[s][y] # None /\ y # s
        <4>0. PICK d \in Server : d = dir[s][y]
          BY <3>3 DEF TableInv
        <4>1. d \in Server /\ d # s /\ dir[s][d] = d /\ conn[s][d] = "up" /\ y \in Behind(s, d)
          BY <2>0, <3>3, <4>0 DEF Route, Known
        <4>. HIDE DEF gone
        <4>2. d \notin gone
          <5>1. ASSUME d \in gone PROVE y \in gone
            <6>1. d \in gone /\ gone \in SUBSET Server
              BY <1>1, <5>1
            <6>. QED
              BY <1>1, <4>1, <6>1 DEF Behind
          <5>. QED
            BY <2>2, <5>1
        <4>3. dir'[s][d] = d /\ conn'[s][d] = "up"
          BY <1>1, <1>3, <4>1, <4>2
        <4>4. y \in Behind(s, d)'
          <5>1. SUFFICES ASSUME NEW S \in SUBSET Server, d \in S,
                                \A z \in Server : uplink'[s][z] \in S => z \in S
                         PROVE  y \in S
            BY DEF Behind
          <5>2. \A z \in Server : uplink[s][z] \in S \cup gone => z \in S \cup gone
            BY <1>1, <1>3, <5>1
          <5>3. S \cup gone \in SUBSET Server /\ d \in S \cup gone
            BY <1>1, <5>1
          <5>4. y \in S \cup gone
            BY <4>1, <5>2, <5>3 DEF Behind
          <5>. QED
            BY <2>2, <5>4
        <4>. QED
          BY <3>1, <3>3, <4>0, <4>1, <4>3, <4>4 DEF Route, Known
      <3>. QED
        BY <3>2, <3>3
    <2>. QED
      BY <2>1, <2>2
  <1>. QED
    BY <1>2, <1>4, ActorRouted

\* s adds the unknown server x, introduced by y, behind the linked neighbour t.
LEMMA AddRouted ==
    ASSUME TableInv, Routed, NEW s \in Server, NEW x \in Server, NEW y \in Server, NEW t \in Server,
           x # s, ~Known(s, x), t # s,
           x = t \/ (Known(s, y) /\ y # s /\ dir[s][y] = t),
           uplink' = [uplink EXCEPT ![s][x] = y], dir' = [dir EXCEPT ![s][x] = t],
           \A q, u \in Server : q # s \/ conn[q][u] = "up" => conn'[q][u] = conn[q][u],
           conn'[s][t] = "up",
           conn \in [Server -> [Server -> ConnState]], conn' \in [Server -> [Server -> ConnState]]
    PROVE  Routed'
  <1>1. Elsewhere(s)
    <2>1. ASSUME NEW q \in Server, q # s PROVE conn'[q] = conn[q]
      BY <2>1
    <2>. QED
      BY <2>1 DEF Elsewhere, TableInv
  <1>2. /\ dir'[s][x] = t /\ uplink'[s][x] = y
        /\ \A z \in Server : z # x => dir'[s][z] = dir[s][z] /\ uplink'[s][z] = uplink[s][z]
    BY DEF TableInv
  <1>3. uplink[s][x] = None
    BY DEF Routed, Route
  <1>4. ASSUME NEW d \in Server, NEW z \in Behind(s, d) PROVE z \in Behind(s, d)'
    <2>0. z \in Server
      BY DEF Behind
    <2>1. SUFFICES ASSUME NEW S \in SUBSET Server, d \in S,
                          \A w \in Server : uplink'[s][w] \in S => w \in S
                   PROVE  z \in S
      BY <2>0 DEF Behind
    <2>2. \A w \in Server : uplink[s][w] \in S => w \in S
      BY <1>2, <1>3, <2>1, ConstantsAssumption
    <2>. QED
      BY <2>1, <2>2 DEF Behind
  <1>5. x \in Behind(s, t)'
    <2>1. CASE x = t
      BY <2>1 DEF Behind
    <2>2. CASE x # t
      <3>1. y \in Behind(s, t)
        BY <2>2 DEF Routed, Route
      <3>2. y \in Behind(s, t)'
        BY <1>4, <3>1
      <3>. QED
        BY <1>2, <3>2 DEF Behind
    <2>. QED
      BY <2>1, <2>2
  <1>6. dir'[s][t] = t
    <2>1. CASE x = t
      BY <1>2, <2>1
    <2>2. CASE x # t
      BY <1>2, <2>2 DEF Routed, Route
    <2>. QED
      BY <2>1, <2>2
  <1>7. ASSUME NEW z \in Server PROVE Route(s, z)'
    <2>1. CASE z = x
      BY <1>2, <1>5, <1>6, <2>1, ConstantsAssumption DEF Route, Known
    <2>2. CASE z # x
      <3>1. Route(s, z)
        BY DEF Routed
      <3>2. dir'[s][z] = dir[s][z] /\ uplink'[s][z] = uplink[s][z]
        BY <1>2, <2>2
      <3>3. CASE dir[s][z] = None \/ z = s
        BY <3>1, <3>2, <3>3 DEF Route, Known
      <3>4. CASE dir[s][z] # None /\ z # s
        <4>0. PICK d \in Server : d = dir[s][z]
          BY <3>4 DEF TableInv
        <4>1. d \in Server /\ d # s /\ dir[s][d] = d /\ conn[s][d] = "up" /\ z \in Behind(s, d)
          BY <3>1, <3>4, <4>0 DEF Route, Known
        <4>2. d # x
          BY <4>1, ConstantsAssumption DEF Known
        <4>3. dir'[s][d] = d /\ conn'[s][d] = "up" /\ z \in Behind(s, d)'
          BY <1>2, <1>4, <4>1, <4>2
        <4>. QED
          BY <3>2, <3>4, <4>0, <4>1, <4>3 DEF Route, Known
      <3>. QED
        BY <3>3, <3>4
    <2>. QED
      BY <2>1, <2>2
  <1>. QED
    BY <1>1, <1>7, ActorRouted

\* exit_client_ex of a server takes everything along that is reached over it.
LEMMA ExitRouted ==
    ASSUME LinkInv, LinkInv', TableInv, Routed, NEW s \in Server, NEW from, NEW x \in Server, x # s,
           NEW origin, ExitServer(s, from, x, origin)
    PROVE  Routed'
  <1>1. conn' = conn \/ conn' = [conn EXCEPT ![s][x] = "none"]
    BY DEF ExitServer, Net
  <1>2. /\ \A q, t \in Server : (q # s \/ t # x) => conn'[q][t] = conn[q][t]
        /\ conn \in [Server -> [Server -> ConnState]] /\ conn' \in [Server -> [Server -> ConnState]]
    BY <1>1 DEF LinkInv
  <1>3. Forget(s, Behind(s, x))
    BY DEF ExitServer
  <1>. QED
    BY <1>2, <1>3, ForgetRouted

\* A step that changes neither the connections nor the directions
LEMMA StillRouted ==
    ASSUME TableInv, Routed, dir' = dir, uplink' = uplink, conn' = conn
    PROVE  Routed'
  <1>1. SUFFICES ASSUME NEW s \in Server, NEW x \in Server PROVE Route(s, x)'
    BY DEF Routed
  <1>2. Route(s, x) /\ \A d : Behind(s, d)' = Behind(s, d)
    BY DEF Routed, Behind
  <1>. QED
    BY <1>2 DEF Route, Known

\* What clients and operators do
LEMMA ClientRouted ==
    ASSUME IInv, IInv', Routed, NEW s \in Server, ClientStep(s)
    PROVE  Routed'
  <1>. USE DEF IInv
  <1>1. ASSUME NEW u \in UID, NEW n \in Nick, NEW ts \in TS, NickFirst(s, u, n, ts)
        PROVE  Routed'
    BY <1>1, StillRouted DEF NickFirst, links
  <1>2. ASSUME NEW r \in users[s],
               \/ Register(s, r) \/ Quit(s, r)
               \/ \E n \in Nick, ts \in TS : NickChange(s, r, n, ts)
               \/ \E v \in users[s] : OperKill(s, r, v)
        PROVE  Routed'
    <2>1. dir' = dir /\ uplink' = uplink /\ conn' = conn
      BY <1>2 DEF Register, Quit, NickChange, OperKill, Net
    <2>. QED
      BY <2>1, StillRouted
  <1>3. ASSUME NEW r \in users[s], NEW x \in Server, OperSquit(s, r, x)
        PROVE  Routed'
    BY <1>3, ExitRouted DEF OperSquit
  <1>. QED
    BY <1>1, <1>2, <1>3 DEF ClientStep

\* Connections are made and closed.
LEMMA ConnectionRouted ==
    ASSUME IInv, IInv', Routed, NEW s \in Server, NEW t \in Server,
           Connect(s, t) \/ ReadEOF(s, t) \/ LoseLink(s, t)
    PROVE  Routed'
  <1>. USE DEF IInv
  <1>1. CASE Connect(s, t)
    <2>1. dir' = dir /\ uplink' = uplink /\ conn' = [conn EXCEPT ![s][t] = "out"] /\ conn[s][t] = "none"
      BY <1>1 DEF Connect, tables
    <2>2. \A q, u \in Server :
             q # s \/ (conn[q][u] = "up" /\ dir[q][u] = u) => conn'[q][u] = conn[q][u]
      BY <2>1 DEF LinkInv
    <2>. QED
      BY <2>1, <2>2, SameRoutes DEF TableInv
  <1>2. CASE CloseLink(s, t)
    <2>0. t # s
      BY <1>2 DEF CloseLink, LinkInv
    <2>1. CASE conn[s][t] = "up"
      BY <1>2, <2>0, <2>1, ExitRouted DEF CloseLink
    <2>2. CASE conn[s][t] # "up"
      <3>1. dir' = dir /\ uplink' = uplink /\ (conn' = conn \/ conn' = [conn EXCEPT ![s][t] = "none"])
        BY <1>2, <2>2 DEF CloseLink, Net, tables
      <3>2. \A q, u \in Server :
               q # s \/ (conn[q][u] = "up" /\ dir[q][u] = u) => conn'[q][u] = conn[q][u]
        BY <2>2, <3>1 DEF LinkInv
      <3>. QED
        BY <3>1, <3>2, SameRoutes DEF TableInv
    <2>. QED
      BY <2>1, <2>2
  <1>. QED
    BY <1>1, <1>2 DEF ReadEOF, LoseLink

\* The messages of the handshake
LEMMA OpeningRouted ==
    ASSUME IInv, IInv', Handshakes, Routed, NEW s \in Server, NEW t \in Server,
           RecvEAUTH(s, t) \/ RecvEAUTHReply(s, t) \/ RecvSERVER(s, t)
    PROVE  Routed'
  <1>. USE DEF IInv
  <1>0. chan[t][s] # <<>> /\ t # s /\ t # None
    BY ReceivedMessage DEF RecvEAUTH, RecvEAUTHReply, RecvSERVER, Receives
  <1>a. InStep
    BY HandshakesStep
  <1>b. conn \in [Server -> [Server -> ConnState]] /\ conn' \in [Server -> [Server -> ConnState]]
    BY DEF LinkInv
  <1>1. ASSUME RecvEAUTH(s, t)
        PROVE  Routed'
    <2>. DEFINE old == Known(s, t) /\ dir[s][t] = t
                gone == IF old THEN Behind(s, t) ELSE {}
    <2>1. /\ Forget(s, gone)
          /\ conn' = [conn EXCEPT ![s][t] = "none"] \/ conn' = [conn EXCEPT ![s][t] = "in"]
      BY <1>1 DEF RecvEAUTH
    <2>2. \A q, u \in Server : (q # s \/ u # t) => conn'[q][u] = conn[q][u]
      BY <2>1, <1>b
    <2>3. CASE old
      BY <1>0, <1>b, <2>1, <2>2, <2>3, ForgetRouted
    <2>4. CASE ~old
      <3>1. dir' = dir /\ uplink' = uplink
        BY <2>1, <2>4 DEF Forget, TableInv
      <3>2. dir[s][t] # t
        BY <1>0, <2>4 DEF Known
      <3>. QED
        BY <2>2, <3>1, <3>2, SameRoutes DEF TableInv
    <2>. QED
      BY <2>3, <2>4
  <1>2. ASSUME conn[s][t] # "up", dir' = dir, uplink' = uplink,
               \/ conn' = [conn EXCEPT ![s][t] = "none"]
               \/ conn' = [conn EXCEPT ![s][t] = "sent"]
        PROVE  Routed'
    <2>1. \A q, u \in Server :
             q # s \/ (conn[q][u] = "up" /\ dir[q][u] = u) => conn'[q][u] = conn[q][u]
      BY <1>2, <1>b
    <2>. QED
      BY <1>2, <2>1, SameRoutes DEF TableInv
  <1>3. ASSUME RecvEAUTHReply(s, t)
        PROVE  Routed'
    <2>1. conn[s][t] = "out"
      BY <1>3, <1>a DEF RecvEAUTHReply, Receives, InStep
    <2>2. /\ dir' = dir /\ uplink' = uplink
          /\ conn' = [conn EXCEPT ![s][t] = "none"] \/ conn' = [conn EXCEPT ![s][t] = "sent"]
      BY <1>0, <1>3 DEF RecvEAUTHReply, tables, Net
    <2>. QED
      BY <1>2, <2>1, <2>2
  <1>4. ASSUME RecvSERVER(s, t)
        PROVE  Routed'
    <2>1. conn[s][t] \in {"in", "sent"}
      BY <1>4, <1>a DEF RecvSERVER, Receives, InStep
    <2>2. CASE Known(s, t)
      BY <1>0, <1>2, <1>4, <2>1, <2>2 DEF RecvSERVER, tables, Net
    <2>3. CASE ~Known(s, t)
      <3>1. /\ conn' = [conn EXCEPT ![s][t] = "up"]
            /\ uplink' = [uplink EXCEPT ![s][t] = s] /\ dir' = [dir EXCEPT ![s][t] = t]
        BY <1>4, <2>3 DEF RecvSERVER
      <3>2. /\ \A q, u \in Server : q # s \/ conn[q][u] = "up" => conn'[q][u] = conn[q][u]
            /\ conn'[s][t] = "up"
        BY <1>b, <3>1
      <3>. QED
        BY <1>0, <1>b, <2>3, <3>1, <3>2, AddRouted
    <2>. QED
      BY <2>2, <2>3
  <1>. QED
    BY <1>1, <1>3, <1>4

\* Messages of linked servers
LEMMA MessageRouted ==
    ASSUME IInv, IInv', Handshakes, Routed, NEW s \in Server, NEW t \in Server,
           \/ RecvBadSource(s, t) \/ RecvSID(s, t) \/ RecvSQUIT(s, t)
           \/ RecvUID(s, t) \/ RecvNICK(s, t) \/ RecvQUIT(s, t) \/ RecvKILL(s, t)
    PROVE  Routed'
  <1>. USE DEF IInv
  <1>. DEFINE m == Head(chan[t][s])
  <1>0. chan[t][s] # <<>> /\ m \in Msg /\ t # s /\ t # None
    BY ReceivedMessage DEF RecvBadSource, RecvSID, RecvSQUIT, RecvUID, RecvNICK, RecvQUIT, RecvKILL,
                           Accepts, Receives
  <1>1. ASSUME RecvBadSource(s, t) \/ RecvUID(s, t) \/ RecvNICK(s, t) \/ RecvQUIT(s, t) \/ RecvKILL(s, t)
        PROVE  Routed'
    <2>1. dir' = dir /\ uplink' = uplink
      BY <1>1 DEF RecvBadSource, RecvUID, RecvNICK, RecvQUIT, RecvKILL, Reply, tables
    <2>2. conn' = conn
      BY <1>1 DEF RecvBadSource, RecvUID, RecvNICK, RecvQUIT, RecvKILL, Reply, Net
    <2>. QED
      BY <2>1, <2>2, StillRouted
  <1>2. ASSUME RecvSID(s, t)
        PROVE  Routed'
    <2>1. m.src \in Server /\ m.id \in Server /\ Known(s, m.src) /\ dir[s][m.src] = t
      <3>1. m.type = "SID" /\ SourceKnown(s, Source(m)) /\ Direction(s, Source(m)) = t
        BY <1>2 DEF RecvSID, Accepts, Receives
      <3>2. m.src \in Server /\ m.id \in Server
        BY <1>0, <3>1, MessageFields
      <3>3. Source(m) = m.src /\ m.src \notin UID
        BY <3>1, <3>2, ConstantsAssumption DEF Source
      <3>. QED
        BY <1>0, <3>1, <3>2, <3>3 DEF Direction, Known
    <2>2. m.src # s
      BY <1>0, <2>1 DEF TableInv
    <2>3. CASE m.id = s
      <3>1. ExitServer(s, t, m.src, t)
        BY <1>2, <2>3 DEF RecvSID
      <3>2. PICK x \in Server : x = m.src
        BY <2>1
      <3>. QED
        BY <2>2, <3>1, <3>2, ExitRouted
    <2>4. CASE m.id # s /\ Hashed(s, m.id)
      <3>1. dir' = dir /\ uplink' = uplink /\ conn' = conn
        BY <1>2, <2>4 DEF RecvSID, Reply, Net, tables
      <3>. QED
        BY <3>1, StillRouted
    <2>5. CASE m.id # s /\ ~Hashed(s, m.id)
      <3>1. /\ uplink' = [uplink EXCEPT ![s][m.id] = m.src]
            /\ dir' = [dir EXCEPT ![s][m.id] = t]
            /\ conn' = conn
        BY <1>2, <2>5 DEF RecvSID, Net
      <3>2. conn[s][t] = "up"
        BY <2>1, <2>2 DEF Routed, Route
      <3>3. PICK x \in Server, y \in Server : x = m.id /\ y = m.src
        BY <2>1
      <3>4. /\ uplink' = [uplink EXCEPT ![s][x] = y] /\ dir' = [dir EXCEPT ![s][x] = t]
            /\ x # s /\ ~Known(s, x) /\ Known(s, y) /\ y # s /\ dir[s][y] = t
        BY <2>1, <2>2, <2>5, <3>1, <3>3 DEF Hashed
      <3>5. /\ conn' \in [Server -> [Server -> ConnState]] /\ conn'[s][t] = "up"
            /\ \A q, u \in Server : q # s \/ conn[q][u] = "up" => conn'[q][u] = conn[q][u]
        BY <3>1, <3>2 DEF LinkInv
      <3>. QED
        BY <1>0, <3>4, <3>5, AddRouted DEF LinkInv
    <2>. QED
      BY <2>3, <2>4, <2>5
  <1>3. ASSUME RecvSQUIT(s, t)
        PROVE  Routed'
    <2>1. m.id \in Server
      BY <1>0, <1>3, MessageFields DEF RecvSQUIT, Receives
    <2>2. PICK x \in Server : x # s /\ (ExitServer(s, t, x, t) \/ Reply(s, t, NoOut))
      BY <1>0, <1>3, <2>1 DEF RecvSQUIT
    <2>3. CASE ExitServer(s, t, x, t)
      BY <2>2, <2>3, ExitRouted
    <2>4. CASE Reply(s, t, NoOut)
      <3>1. dir' = dir /\ uplink' = uplink /\ conn' = conn
        BY <2>4 DEF Reply, Net, tables
      <3>. QED
        BY <3>1, StillRouted
    <2>. QED
      BY <2>2, <2>3, <2>4
  <1>. QED
    BY <1>1, <1>2, <1>3

\* Every server is behind its direction initially,
LEMMA RoutedInit == Init => Routed
  BY ConstantsAssumption DEF Init, Routed, Route, Known

\* after every step,
LEMMA RoutedNext == IInv /\ IInv' /\ Handshakes /\ Routed /\ [Next]_vars => Routed'
  <1>. SUFFICES ASSUME IInv, IInv', Handshakes, Routed, [Next]_vars PROVE Routed'
    OBVIOUS
  <1>1. CASE UNCHANGED vars
    BY <1>1, StillRouted DEF vars, IInv
  <1>2. CASE Next
    BY <1>2, ClientRouted, ConnectionRouted, OpeningRouted, MessageRouted DEF Next, Receive
  <1>. QED
    BY <1>1, <1>2

\* and so always.
THEOREM RoutedHolds == Spec => []Routed
  BY RoutedInit, RoutedNext, Invariance, HandshakesHold, PTL DEF Spec

\* No server stays known behind a neighbour whose connection is closed or in
\* handshake, whatever exits, relinks and refusals happen (exit_client_ex,
\* verify_link, cmd_sid): what is sent towards a client has a socket to go to.
THEOREM DirectionsUpHolds == Spec => []DirectionsUp
  <1>1. Routed => DirectionsUp
    BY DEF Routed, Route, DirectionsUp, Servers
  <1>. QED
    BY <1>1, RoutedHolds, PTL
=============================================================================
