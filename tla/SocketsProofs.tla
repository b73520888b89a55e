--------------------------- MODULE SocketsProofs ---------------------------
(***************************************************************************)
(* Module Sockets for any number of connections and any limits: the types, *)
(* that no wakeup is lost (Wakeable), and that every connection keeps the  *)
(* promise of module Stream.                                               *)
(*                                                                         *)
(* The invariant is about one connection at a time (Sound), together with  *)
(* what holds of the connection whose data is being processed (InHand).    *)
(***************************************************************************)
EXTENDS Sockets, SequenceTheorems, TLAPS

\* What wakes a connection up.  Only the queue makes send_queued_cb wait for
\* reading, and the queue is not emptied before the handlers are restored.
Awake(c) ==
    /\ \/ c.rd = "read_packet" \/ c.wr = "read_packet"
       \/ c.sendQ # <<>> /\ (c.rd = "send_queued_cb" \/ c.wr = "send_queued_cb")
    /\ c.sendQ # <<>> => c.wr # "NULL" \/ c.rd = "send_queued_cb"
    /\ c.rd = "send_queued_cb" => c.sendQ # <<>>

\* The records of one connection, types apart; of the lines the peers sent, n,
\* none is counted twice
Sound(c, p, n) ==
    /\ c \in ClientRec /\ p \in PeerRec
    /\ c.recvQ + p.in <= n
    /\ c.life # "open" => c.deadsock /\ c.rd = "NULL" /\ c.wr = "NULL"
    /\ c.deadsock => c.sendQ = <<>>
    /\ ~c.deadsock => c.queued = Len(p.out) + Len(c.sendQ) /\ Awake(c)

\* While read_packet is at work, its handler is in place and no write is lost
Reading(c) == ~c.deadsock => c.rd = "read_packet" /\ (c.sendQ # <<>> => c.wr # "NULL")

\* The connection whose data is being processed has not exited
InHand ==
    busy # None => /\ Open(busy.who)
                   /\ busy.stage \in {"recv", "packet"} => Reading(cl[busy.who])

Inv ==
    /\ busy \in Busy /\ spent \in [in : 0..MaxIn, tls : 0..MaxTls, eof : 0..MaxEof]
    /\ cl = [k \in Conn |-> cl[k]] /\ peer = [k \in Conn |-> peer[k]]
    /\ \A k \in Conn : Sound(cl[k], peer[k], spent.in)
    /\ InHand

\* What Stream lets one connection do, for its records before (c, p) and after
\* a step (d, q)
StreamStep(c, p, d, q) ==
    \/ Phase(d) = Phase(c) /\ d.sendQ = c.sendQ /\ q.out = p.out
    \/ /\ Phase(c) = "open" /\ Phase(d) = "open"
       /\ d.sendQ = Append(c.sendQ, Len(p.out) + Len(c.sendQ) + 1) /\ q.out = p.out
    \/ /\ Phase(c) = "open" /\ Phase(d) = "open"
       /\ q.out \o d.sendQ = p.out \o c.sendQ /\ Len(q.out) > Len(p.out)
    \/ /\ Phase(c) = "open" /\ Phase(d) = "condemned"
       /\ d.sendQ = <<>> /\ q.out = p.out
    \/ /\ Phase(c) # "closed" /\ Phase(d) = "closed"
       /\ d.sendQ = <<>>
       /\ \E n \in 0..(Len(c.sendQ) + 1) :
             q.out = p.out \o SubSeq(Append(c.sendQ, ErrorLine), 1, n)

\* A step takes a sound connection to a sound one, as Stream allows it
Moves(c, p, d, q, n) == Sound(d, q, n) /\ StreamStep(c, p, d, q)

-----------------------------------------------------------------------------
(* Queues and handlers, one connection at a time *)

\* What a queue holds
Line == 0..MaxLine

\* What the fields of the two records are.
LEMMA Fields ==
    /\ \A c \in ClientRec :
          /\ c.life \in {"open", "exited", "freed"} /\ c.deadsock \in BOOLEAN
          /\ c.sendQ \in Seq(Line) /\ Len(c.sendQ) \in Nat /\ c.recvQ \in 0..MaxIn
          /\ c.rd \in Callback /\ c.wr \in Callback /\ c.lagged \in BOOLEAN
          /\ c.queued \in 0..MaxLine
    /\ \A p \in PeerRec :
          /\ p.out \in Seq(Line) /\ Len(p.out) \in Nat /\ p.unread \in 0..Room
          /\ p.in \in 0..MaxIn /\ p.tls \in {"ok", "in", "inready", "out"} /\ p.eof \in BOOLEAN
  BY DEF ClientRec, PeerRec, Line

\* dead_socket gives a sound record, whatever the state of the queues.
LEMMA DeadSocketFacts ==
    ASSUME NEW c \in ClientRec
    PROVE  /\ DeadSocket(c) \in ClientRec /\ DeadSocket(c).deadsock = TRUE
           /\ DeadSocket(c).life = c.life /\ DeadSocket(c).sendQ = <<>> /\ DeadSocket(c).recvQ = 0
           /\ DeadSocket(c).rd = "NULL" /\ DeadSocket(c).wr = "NULL"
           /\ DeadSocket(c).queued = c.queued
  <1>1. 0 \in 0..MaxIn /\ <<>> \in Seq(0..MaxLine) /\ "NULL" \in Callback
    BY SocketAssumption DEF Callback
  <1>2. QED
    BY <1>1 DEF DeadSocket, ClientRec

\* A dead socket is sound and condemned, or stays so.
LEMMA DeadSocketMoves ==
    ASSUME NEW n \in Nat, NEW c, NEW p, Sound(c, p, n), c.life = "open"
    PROVE  Moves(c, p, DeadSocket(c), p, n) /\ DeadSocket(c).life = "open"
  <1>1. c \in ClientRec /\ p \in PeerRec /\ p.in \in Nat /\ c.recvQ \in Nat /\ c.recvQ + p.in <= n
    BY Fields DEF Sound
  <1>2. Sound(DeadSocket(c), p, n)
    <2>1. /\ DeadSocket(c) \in ClientRec /\ DeadSocket(c).deadsock /\ DeadSocket(c).sendQ = <<>>
          /\ DeadSocket(c).recvQ = 0 /\ DeadSocket(c).rd = "NULL" /\ DeadSocket(c).wr = "NULL"
      BY <1>1, DeadSocketFacts
    <2>2. QED
      BY <1>1, <2>1 DEF Sound
  <1>3. StreamStep(c, p, DeadSocket(c), p)
    <2>1. CASE c.deadsock
      <3>1. c.sendQ = <<>>
        BY <2>1 DEF Sound
      <3>2. QED
        BY <2>1, <3>1, <1>1, DeadSocketFacts DEF StreamStep, Phase
    <2>2. CASE ~c.deadsock
      BY <2>2, <1>1, DeadSocketFacts DEF StreamStep, Phase
    <2>3. QED
      BY <2>1, <2>2
  <1>4. QED
    BY <1>1, <1>2, <1>3, DeadSocketFacts DEF Moves

\* What a line does to a connection that is open and alive, when it is taken.
LEMMA QueuedFacts ==
    ASSUME NEW c \in ClientRec, NEW line \in Line
    PROVE  LET d == [c EXCEPT !.sendQ = Append(@, line), !.wr = "send_queued_cb"]
           IN  /\ d \in ClientRec /\ d.sendQ = Append(c.sendQ, line) /\ d.wr = "send_queued_cb"
               /\ d.life = c.life /\ d.deadsock = c.deadsock /\ d.recvQ = c.recvQ
               /\ d.rd = c.rd /\ d.lagged = c.lagged /\ d.queued = c.queued
  <1>1. "send_queued_cb" \in Callback /\ Append(c.sendQ, line) \in Seq(Line)
    BY Fields DEF Callback
  <1>2. QED
    BY <1>1 DEF ClientRec, Line

\* What a line for a connection may do to it, as far as the rest of the code
\* that holds the connection is concerned
Kept(c, d) ==
    /\ d.life = c.life
    /\ ~d.deadsock => /\ ~c.deadsock /\ d.rd = c.rd
                      /\ (d.wr = c.wr /\ d.sendQ = c.sendQ) \/ d.wr = "send_queued_cb"

\* A line for a connection is queued with the next number, or condemns it, or
\* is dropped.
LEMMA SendLineMoves ==
    ASSUME NEW n \in Nat, NEW k \in Conn, NEW c, NEW p, Sound(c, p, n), c.queued < MaxLine
    PROVE  Moves(c, p, SendLine(k, c), p, n) /\ Kept(c, SendLine(k, c))
  <1> DEFINE b == SendBuf(k, c, c.queued + 1)
  <1>1. /\ c \in ClientRec /\ p \in PeerRec /\ p.in \in Nat /\ c.recvQ \in Nat /\ c.recvQ + p.in <= n
        /\ c.queued \in 0..MaxLine /\ Len(c.sendQ) \in Nat /\ Len(p.out) \in Nat
        /\ c.sendQ \in Seq(Line)
    BY Fields DEF Sound
  <1>2. CASE c.deadsock \/ c.life # "open"
    <2>1. b = c
      BY <1>2 DEF SendBuf
    <2>2. SendLine(k, c) = c
      BY <2>1, <1>1 DEF SendLine, ClientRec
    <2>3. QED
      BY <2>2 DEF Moves, StreamStep, Kept
  <1>3. CASE ~c.deadsock /\ c.life = "open" /\ Len(c.sendQ) > SendQ[k]
    <2>1. b = DeadSocket(c)
      BY <1>3 DEF SendBuf
    <2>2. /\ DeadSocket(c).sendQ = <<>> /\ DeadSocket(c) \in ClientRec
          /\ DeadSocket(c).queued = c.queued /\ DeadSocket(c).deadsock
      BY <1>1, DeadSocketFacts
    <2>3. SendLine(k, c) = [DeadSocket(c) EXCEPT !.queued = @]
      BY <2>1, <2>2, <1>1 DEF SendLine
    <2>4. SendLine(k, c) = DeadSocket(c)
      BY <2>2, <2>3 DEF ClientRec
    <2>5. Moves(c, p, DeadSocket(c), p, n) /\ DeadSocket(c).life = c.life
      BY <1>3, DeadSocketMoves
    <2>6. QED
      BY <2>2, <2>4, <2>5 DEF Kept
  <1>4. CASE ~c.deadsock /\ c.life = "open" /\ ~(Len(c.sendQ) > SendQ[k])
    <2> DEFINE line == c.queued + 1
    <2>1. line \in Line
      BY <1>1, SocketAssumption DEF Line
    <2>2. b = [c EXCEPT !.sendQ = Append(@, line), !.wr = "send_queued_cb"]
      BY <1>4 DEF SendBuf
    <2>3. /\ b \in ClientRec /\ b.sendQ = Append(c.sendQ, line) /\ b.wr = "send_queued_cb"
          /\ b.life = c.life /\ b.deadsock = c.deadsock /\ b.recvQ = c.recvQ
          /\ b.rd = c.rd /\ b.lagged = c.lagged /\ b.queued = c.queued
      <3>1. c \in ClientRec
        BY <1>1
      <3> HIDE DEF line, b
      <3>2. QED
        BY <3>1, <2>1, <2>2, QueuedFacts
    <2>4. Len(b.sendQ) = Len(c.sendQ) + 1 /\ b.sendQ # <<>>
      BY <1>1, <2>1, <2>3, AppendProperties
    <2> DEFINE d == SendLine(k, c)
    <2>5. d = [b EXCEPT !.queued = line]
      BY <1>1, <2>3, <2>4 DEF SendLine
    <2> HIDE DEF b, line
    <2>6. /\ d \in ClientRec /\ d.sendQ = b.sendQ /\ d.wr = b.wr /\ d.life = b.life
          /\ d.deadsock = b.deadsock /\ d.recvQ = b.recvQ /\ d.rd = b.rd /\ d.queued = line
      BY <2>1, <2>3, <2>5 DEF ClientRec, Line
    <2>7. line = Len(p.out) + Len(c.sendQ) + 1
      BY <1>4 DEF Sound, line
    <2> HIDE DEF d
    <2>8. Sound(d, p, n)
      <3>1. d.queued = Len(p.out) + Len(d.sendQ) /\ d.recvQ + p.in <= n
        <4>1. Len(d.sendQ) = Len(c.sendQ) + 1 /\ d.recvQ = c.recvQ /\ d.queued = line
          BY <2>3, <2>4, <2>6
        <4>2. \A x, y \in Nat : x + (y + 1) = x + y + 1
          OBVIOUS
        <4>3. QED
          BY <1>1, <2>7, <4>1, <4>2
      <3>2. Awake(d)
        BY <2>3, <2>4, <2>6 DEF Awake
      <3>3. d \in ClientRec /\ p \in PeerRec /\ d.life = "open" /\ ~d.deadsock
        BY <1>1, <1>4, <2>3, <2>6
      <3>4. QED
        BY <3>1, <3>2, <3>3 DEF Sound
    <2>9. StreamStep(c, p, d, p)
      BY <1>4, <2>3, <2>6, <2>7 DEF StreamStep, Phase
    <2>10. QED
      BY <2>3, <2>6, <2>8, <2>9, <1>4 DEF Moves, Kept, d
  <1>5. QED
    BY <1>2, <1>3, <1>4

\* The first n elements of q, and the others
First(q, n) == SubSeq(q, 1, n)
Others(q, n) == SubSeq(q, n + 1, Len(q))

\* The two parts of a sequence that is cut after n elements.
LEMMA CutParts ==
    ASSUME NEW S, NEW q \in Seq(S), NEW n \in 0..Len(q)
    PROVE  /\ First(q, n) \in Seq(S) /\ Len(First(q, n)) = n
           /\ Others(q, n) \in Seq(S) /\ Len(Others(q, n)) = Len(q) - n
           /\ First(q, n) \o Others(q, n) = q
           /\ n = 0 => First(q, n) = <<>> /\ Others(q, n) = q
  <1> DEFINE head == SubSeq(q, 1, n)
  <1> DEFINE rest == SubSeq(q, n + 1, Len(q))
  <1>1. Len(q) \in Nat /\ n \in Nat /\ n <= Len(q) /\ DOMAIN q = 1..Len(q)
    OBVIOUS
  <1>2. head \in Seq(S) /\ Len(head) = n
    <2>1. \A i \in 1..n : q[i] \in S
      BY <1>1
    <2>2. head \in Seq(S) /\ Len(head) = IF 1 <= n THEN n - 1 + 1 ELSE 0
      BY <1>1, <2>1, SubSeqProperties
    <2>3. QED
      BY <1>1, <2>2
  <1>3. rest \in Seq(S) /\ Len(rest) = Len(q) - n
    <2>1. \A i \in (n + 1)..Len(q) : q[i] \in S
      BY <1>1
    <2>2. rest \in Seq(S) /\ Len(rest) = IF n + 1 <= Len(q) THEN Len(q) - (n + 1) + 1 ELSE 0
      BY <1>1, <2>1, SubSeqProperties
    <2>3. (IF n + 1 <= Len(q) THEN Len(q) - (n + 1) + 1 ELSE 0) = Len(q) - n
      <3>1. \A x, y \in Nat : x <= y => (IF x + 1 <= y THEN y - (x + 1) + 1 ELSE 0) = y - x
        OBVIOUS
      <3>2. QED
        BY <3>1, <1>1
    <2>4. QED
      BY <2>2, <2>3
  <1>4. head \o rest = q
    <2>1. 1 \in 1..(Len(q) + 1) /\ n \in (1 - 1)..Len(q) /\ Len(q) \in n..Len(q)
      BY <1>1
    <2>2. head \o rest = SubSeq(q, 1, Len(q))
      BY ONLY q \in Seq(S), <2>1, ConcatAdjacentSubSeq
    <2>3. QED
      BY <2>2, SubSeqFull
  <1>5. ASSUME n = 0 PROVE head = <<>> /\ rest = q
    <2>1. head = <<>>
      BY <1>5, SubSeqEmpty
    <2>2. QED
      BY <2>1, <1>3, <1>4, ConcatEmptySeq
  <1>6. QED
    BY <1>2, <1>3, <1>4, <1>5 DEF First, Others

\* A sequence q behind o, cut after n elements: the lengths, and nothing is lost,
\* repeated or reordered.
LEMMA CutAfter ==
    \A S : \A o, q \in Seq(S) : \A n \in 0..Len(q) :
        /\ o \o First(q, n) \in Seq(S) /\ Others(q, n) \in Seq(S)
        /\ Len(o \o First(q, n)) = Len(o) + n /\ Len(Others(q, n)) = Len(q) - n
        /\ n = 0 => o \o First(q, n) = o /\ Others(q, n) = q
  <1>1. SUFFICES ASSUME NEW S, NEW o \in Seq(S), NEW q \in Seq(S), NEW n \in 0..Len(q)
                 PROVE  /\ o \o First(q, n) \in Seq(S) /\ Others(q, n) \in Seq(S)
                        /\ Len(o \o First(q, n)) = Len(o) + n /\ Len(Others(q, n)) = Len(q) - n
                        /\ n = 0 => o \o First(q, n) = o /\ Others(q, n) = q
    OBVIOUS
  <1>2. /\ First(q, n) \in Seq(S) /\ Len(First(q, n)) = n
        /\ Others(q, n) \in Seq(S) /\ Len(Others(q, n)) = Len(q) - n
        /\ n = 0 => First(q, n) = <<>> /\ Others(q, n) = q
    BY CutParts
  <1>3. o \o First(q, n) \in Seq(S) /\ Len(o \o First(q, n)) = Len(o) + n
    <2>1. PICK f \in Seq(S) : f = First(q, n) /\ Len(f) = n
      BY <1>2
    <2>2. o \o f \in Seq(S) /\ Len(o \o f) = Len(o) + n
      BY <2>1, ConcatProperties
    <2>3. QED
      BY <2>1, <2>2
  <1>4. n = 0 => o \o First(q, n) = o
    BY <1>2, ConcatEmptySeq
  <1>5. QED
    BY <1>2, <1>3, <1>4

\* What is written and what is left are together what there was.
LEMMA CutWhole ==
    \A S : \A o, q \in Seq(S) : \A n \in 0..Len(q) :
        /\ (o \o First(q, n)) \o Others(q, n) = o \o q
        /\ n = Len(q) <=> Others(q, n) = <<>>
  <1>1. SUFFICES ASSUME NEW S, NEW o \in Seq(S), NEW q \in Seq(S), NEW n \in 0..Len(q)
                 PROVE  /\ (o \o First(q, n)) \o Others(q, n) = o \o q
                        /\ n = Len(q) <=> Others(q, n) = <<>>
    OBVIOUS
  <1> DEFINE head == First(q, n)
  <1> DEFINE rest == Others(q, n)
  <1>2. /\ head \in Seq(S) /\ rest \in Seq(S) /\ head \o rest = q /\ Len(rest) = Len(q) - n
        /\ Len(q) \in Nat /\ n \in Nat
    BY CutParts
  <1> HIDE DEF head, rest
  <1>3. n = Len(q) <=> rest = <<>>
    <2>1. rest = <<>> <=> Len(rest) = 0
      BY <1>2
    <2>2. \A x, y \in Nat : x = y <=> y - x = 0
      OBVIOUS
    <2>3. QED
      BY <2>1, <2>2, <1>2
  <1>4. (o \o head) \o rest = o \o q
    <2>1. \A x, y, z \in Seq(S) : (x \o y) \o z = x \o (y \o z)
      BY ConcatAssociative, SMTT(30)
    <2>2. QED
      BY <2>1, <1>2
  <1>5. QED
    BY <1>3, <1>4 DEF head, rest

\* Nothing of z behind o is o.
LEMMA FirstNone ==
    \A S : \A o, z \in Seq(S) : o \o First(z, 0) = o
  <1>1. SUFFICES ASSUME NEW S, NEW o \in Seq(S), NEW z \in Seq(S)
                 PROVE  o \o First(z, 0) = o
    OBVIOUS
  <1>2. First(z, 0) = <<>>
    BY SubSeqEmpty DEF First
  <1>3. QED
    BY <1>2, ConcatEmptySeq

\* The TLS engine touches neither queue.
LEMMA TlsAdvanceFacts ==
    ASSUME NEW p \in PeerRec
    PROVE  /\ TlsAdvance(p) \in PeerRec /\ TlsAdvance(p).out = p.out
           /\ TlsAdvance(p).unread = p.unread /\ TlsAdvance(p).in = p.in
           /\ TlsAdvance(p).eof = p.eof
  BY DEF TlsAdvance, PeerRec

\* A write hands the first m lines to the kernel, keeps the others, and leaves a
\* handler for these.
Wrote(c, p, r, m) ==
    /\ r.c.sendQ = Others(c.sendQ, m)
    /\ r.p.out = p.out \o First(c.sendQ, m)
    /\ r.c.rd = "read_packet" /\ r.c.wr = IF m = Len(c.sendQ) THEN "NULL" ELSE "send_queued_cb"
    /\ r.c.life = c.life /\ r.c.deadsock = c.deadsock /\ r.c.recvQ = c.recvQ
    /\ r.c.queued = c.queued /\ r.p.in = p.in

\* deliver_it: never more than the kernel has room for.
LEMMA WrittenFacts ==
    ASSUME NEW c \in ClientRec, NEW p \in PeerRec
    PROVE  /\ Written(c, p).c \in ClientRec /\ Written(c, p).p \in PeerRec
           /\ \E m \in 0..Len(c.sendQ) : Wrote(c, p, Written(c, p), m)
  <1> DEFINE left == Room - p.unread
  <1> DEFINE m == IF p.tls = "out" THEN 0 ELSE IF left < Len(c.sendQ) THEN left ELSE Len(c.sendQ)
  <1> DEFINE cc == [c EXCEPT !.sendQ = Others(c.sendQ, m), !.rd = "read_packet",
                             !.wr = IF m = Len(c.sendQ) THEN "NULL" ELSE "send_queued_cb"]
  <1> DEFINE pp == [p EXCEPT !.out = @ \o First(c.sendQ, m), !.unread = @ + m]
  <1>1. c.sendQ \in Seq(Line) /\ p.out \in Seq(Line) /\ Len(c.sendQ) \in Nat
        /\ p.unread \in 0..Room /\ Room \in Nat
    BY Fields, SocketAssumption
  <1>2. m \in 0..Len(c.sendQ) /\ p.unread + m \in 0..Room
    BY <1>1, SMTT(30)
  <1>3. Written(c, p) = [c |-> cc, p |-> pp]
    BY DEF Written, Pair, First, Others
  <1> HIDE DEF m
  <1>4. Others(c.sendQ, m) \in Seq(Line) /\ p.out \o First(c.sendQ, m) \in Seq(Line)
    BY <1>1, <1>2, CutAfter
  <1>5. /\ cc \in ClientRec /\ cc.sendQ = Others(c.sendQ, m)
        /\ cc.rd = "read_packet" /\ cc.wr = IF m = Len(c.sendQ) THEN "NULL" ELSE "send_queued_cb"
        /\ cc.life = c.life /\ cc.deadsock = c.deadsock /\ cc.recvQ = c.recvQ /\ cc.queued = c.queued
    BY <1>4 DEF ClientRec, Callback, Line
  <1>6. pp \in PeerRec /\ pp.out = p.out \o First(c.sendQ, m) /\ pp.in = p.in
    BY <1>2, <1>4 DEF PeerRec, Line
  <1>7. Written(c, p).c = cc /\ Written(c, p).p = pp
    BY <1>3
  <1> HIDE DEF cc, pp
  <1>8. Wrote(c, p, Written(c, p), m)
    BY <1>5, <1>6, <1>7 DEF Wrote
  <1>9. QED
    BY <1>2, <1>5, <1>6, <1>7, <1>8

\* send_queued, for any records: the first lines of the queue are written, and
\* what else it does keeps the types.
LEMMA SendQueuedFacts ==
    ASSUME NEW c \in ClientRec, NEW p \in PeerRec, NEW r \in SendQueued(c, p)
    PROVE  /\ r.c \in ClientRec /\ r.p \in PeerRec /\ r.p.in = p.in
           /\ r.c.life = c.life /\ (r.c.recvQ = c.recvQ \/ r.c.recvQ = 0)
           /\ \E m \in 0..Len(c.sendQ) : r.p.out = p.out \o First(c.sendQ, m)
  <1>1. /\ c.sendQ \in Seq(Line) /\ Len(c.sendQ) \in Nat /\ p.out \in Seq(Line)
        /\ "NULL" \in Callback /\ "send_queued_cb" \in Callback
    BY Fields DEF Callback
  <1>2. 0 \in 0..Len(c.sendQ) /\ p.out \o First(c.sendQ, 0) = p.out
    <2>1. 0 \in 0..Len(c.sendQ)
      BY <1>1
    <2>2. QED
      BY <2>1, <1>1, CutAfter
  <1>3. CASE r = Pair(c, p) \/ r = Pair(DeadSocket(c), p)
    <2>1. r.p = p /\ (r.c = c \/ r.c = DeadSocket(c))
      BY <1>3 DEF Pair
    <2>2. /\ DeadSocket(c) \in ClientRec /\ DeadSocket(c).life = c.life
          /\ DeadSocket(c).recvQ = 0
      BY DeadSocketFacts
    <2>3. QED
      BY <2>1, <2>2, <1>2
  <1>4. CASE r = Pair([c EXCEPT !.wr = "NULL"], p)
    <2>1. r.p = p /\ r.c \in ClientRec /\ r.c.life = c.life /\ r.c.recvQ = c.recvQ
      BY <1>1, <1>4 DEF Pair, ClientRec
    <2>2. QED
      BY <2>1, <1>2
  <1> DEFINE q == TlsAdvance(p)
  <1>5. q \in PeerRec /\ q.out = p.out /\ q.in = p.in
    BY TlsAdvanceFacts
  <1> HIDE DEF q
  <1>6. CASE r = Pair([c EXCEPT !.rd = "send_queued_cb", !.wr = "NULL"], q)
    <2>1. r.p = q /\ r.c \in ClientRec /\ r.c.life = c.life /\ r.c.recvQ = c.recvQ
      BY <1>1, <1>6 DEF Pair, ClientRec
    <2>2. QED
      BY <2>1, <1>2, <1>5
  <1>7. CASE r = Written(c, q)
    <2>1. PICK m \in 0..Len(c.sendQ) : Wrote(c, q, r, m)
      BY <1>5, <1>7, WrittenFacts
    <2>2. r.c \in ClientRec /\ r.p \in PeerRec
      BY <1>5, <1>7, WrittenFacts
    <2>3. /\ r.p.out = p.out \o First(c.sendQ, m) /\ r.p.in = p.in
          /\ r.c.life = c.life /\ r.c.recvQ = c.recvQ
      BY <2>1, <1>5 DEF Wrote
    <2>4. QED
      BY <2>2, <2>3
  <1>8. QED
    BY <1>3, <1>4, <1>6, <1>7 DEF SendQueued, q

\* send_queued as a callback: what it does to a sound connection is a write, the
\* end of the socket, or nothing that Stream sees; some handler is left.
LEMMA SendQueuedMoves ==
    ASSUME NEW n \in Nat, NEW c, NEW p, Sound(c, p, n), c.life = "open",
           c.rd = "send_queued_cb" \/ c.wr = "send_queued_cb",
           NEW r \in SendQueued(c, p)
    PROVE  Moves(c, p, r.c, r.p, n) /\ r.c.life = "open"
  <1>1. /\ c \in ClientRec /\ p \in PeerRec /\ p.in \in Nat /\ c.recvQ \in Nat /\ c.recvQ + p.in <= n
        /\ c.sendQ \in Seq(Line) /\ p.out \in Seq(Line)
    BY Fields DEF Sound
  <1>2. CASE r = Pair(c, p)
    <2>1. r.c = c /\ r.p = p
      BY <1>2 DEF Pair
    <2>2. QED
      BY <2>1 DEF Moves, StreamStep
  <1>3. CASE r = Pair(DeadSocket(c), p)
    <2>1. r.c = DeadSocket(c) /\ r.p = p
      BY <1>3 DEF Pair
    <2>2. QED
      BY <2>1, DeadSocketMoves
  <1>4. CASE ~c.deadsock /\ c.sendQ = <<>> /\ r = Pair([c EXCEPT !.wr = "NULL"], p)
    <2>1. /\ r.p = p /\ r.c \in ClientRec /\ r.c.life = c.life /\ r.c.recvQ = c.recvQ
          /\ r.c.deadsock = c.deadsock /\ r.c.sendQ = c.sendQ /\ r.c.queued = c.queued
          /\ r.c.rd = c.rd /\ r.c.wr = "NULL"
      BY <1>1, <1>4 DEF Pair, ClientRec, Callback
    <2>2. c.rd = "read_packet"
      BY <1>4 DEF Sound, Awake
    <2>3. Sound(r.c, r.p, n)
      BY <1>1, <1>4, <2>1, <2>2 DEF Sound, Awake
    <2>4. QED
      BY <2>1, <2>3 DEF Moves, StreamStep, Phase
  <1> DEFINE q == TlsAdvance(p)
  <1>5. q \in PeerRec /\ q.out = p.out /\ q.in = p.in
    BY <1>1, TlsAdvanceFacts
  <1> HIDE DEF q
  <1>6. CASE ~c.deadsock /\ c.sendQ # <<>>
             /\ r = Pair([c EXCEPT !.rd = "send_queued_cb", !.wr = "NULL"], q)
    <2>1. /\ r.p = q /\ r.c \in ClientRec /\ r.c.life = c.life /\ r.c.recvQ = c.recvQ
          /\ r.c.deadsock = c.deadsock /\ r.c.sendQ = c.sendQ /\ r.c.queued = c.queued
          /\ r.c.rd = "send_queued_cb" /\ r.c.wr = "NULL"
      BY <1>1, <1>6 DEF Pair, ClientRec, Callback
    <2>2. Sound(r.c, r.p, n)
      BY <1>1, <1>5, <1>6, <2>1 DEF Sound, Awake
    <2>3. QED
      BY <2>1, <2>2, <1>5 DEF Moves, StreamStep, Phase
  <1>7. CASE ~c.deadsock /\ c.sendQ # <<>> /\ r = Written(c, q)
    <2>1. PICK m \in 0..Len(c.sendQ) : Wrote(c, q, r, m)
      BY <1>1, <1>5, <1>7, WrittenFacts
    <2>2. r.c \in ClientRec /\ r.p \in PeerRec
      BY <1>1, <1>5, <1>7, WrittenFacts
    <2>3. /\ r.p.out = p.out \o First(c.sendQ, m)
          /\ r.c.sendQ = Others(c.sendQ, m)
          /\ r.p.in = p.in /\ r.c.life = c.life /\ r.c.recvQ = c.recvQ /\ r.c.rd = "read_packet"
          /\ r.c.deadsock = c.deadsock /\ r.c.queued = c.queued
          /\ r.c.wr = IF m = Len(c.sendQ) THEN "NULL" ELSE "send_queued_cb"
      BY <2>1, <1>5 DEF Wrote
    <2>4. /\ Len(r.p.out) = Len(p.out) + m /\ Len(r.c.sendQ) = Len(c.sendQ) - m
          /\ r.p.out \o r.c.sendQ = p.out \o c.sendQ
          /\ m = 0 => r.p.out = p.out /\ r.c.sendQ = c.sendQ
          /\ m = Len(c.sendQ) <=> r.c.sendQ = <<>>
      <3> DEFINE o == p.out
      <3> DEFINE x == c.sendQ
      <3>1. o \in Seq(Line) /\ x \in Seq(Line) /\ m \in 0..Len(x)
        BY <1>1
      <3> HIDE DEF o, x
      <3>2. /\ Len(o \o First(x, m)) = Len(o) + m /\ Len(Others(x, m)) = Len(x) - m
            /\ m = 0 => o \o First(x, m) = o /\ Others(x, m) = x
        BY <3>1, CutAfter
      <3>3. /\ (o \o First(x, m)) \o Others(x, m) = o \o x
            /\ m = Len(x) <=> Others(x, m) = <<>>
        BY <3>1, CutWhole
      <3>4. QED
        BY <2>3, <3>2, <3>3 DEF o, x
    <2>5. Len(c.sendQ) \in Nat /\ Len(p.out) \in Nat /\ m \in Nat /\ m <= Len(c.sendQ)
      BY <1>1, Fields
    <2>6. r.c.queued = Len(r.p.out) + Len(r.c.sendQ)
      <3>1. c.queued = Len(p.out) + Len(c.sendQ)
        BY <1>7 DEF Sound
      <3>2. \A x, y, z \in Nat : x + y = (x + z) + (y - z)
        OBVIOUS
      <3>3. Len(p.out) + Len(c.sendQ) = (Len(p.out) + m) + (Len(c.sendQ) - m)
        BY <2>5, <3>2
      <3>4. QED
        BY <2>3, <2>4, <3>1, <3>3
    <2>7. Awake(r.c)
      BY <2>3, <2>4 DEF Awake
    <2>8. Sound(r.c, r.p, n)
      BY <1>1, <1>7, <2>2, <2>3, <2>6, <2>7 DEF Sound
    <2>9. StreamStep(c, p, r.c, r.p)
      <3>1. CASE m = 0
        BY <3>1, <2>3, <2>4 DEF StreamStep, Phase
      <3>2. CASE m # 0
        <4>1. Len(r.p.out) > Len(p.out)
          BY <3>2, <2>4, <2>5
        <4>2. QED
          BY <4>1, <2>3, <2>4, <1>7 DEF StreamStep, Phase
      <3>3. QED
        BY <3>1, <3>2
    <2>10. QED
      BY <2>3, <2>8, <2>9 DEF Moves
  <1>8. QED
    BY <1>2, <1>3, <1>4, <1>6, <1>7 DEF SendQueued, q

\* What the ERROR line finds and leaves.
LEMMA ErrorFacts ==
    ASSUME NEW k \in Conn, NEW c \in ClientRec, c.life = "open", c.deadsock => c.sendQ = <<>>
    PROVE  LET b == SendBuf(k, c, ErrorLine)
           IN  /\ b \in ClientRec /\ b.life = "open"
               /\ b.sendQ = <<>> \/ b.sendQ = Append(c.sendQ, ErrorLine)
  <1>1. ErrorLine \in Line
    BY SocketAssumption DEF ErrorLine, Line
  <1>2. CASE c.deadsock
    BY <1>2 DEF SendBuf
  <1>3. CASE ~c.deadsock /\ Len(c.sendQ) > SendQ[k]
    <2>1. SendBuf(k, c, ErrorLine) = DeadSocket(c)
      BY <1>3 DEF SendBuf
    <2>2. QED
      BY <2>1, DeadSocketFacts
  <1>4. CASE ~c.deadsock /\ ~(Len(c.sendQ) > SendQ[k])
    <2> DEFINE line == ErrorLine
    <2>1. SendBuf(k, c, line) = [c EXCEPT !.sendQ = Append(@, line), !.wr = "send_queued_cb"]
      BY <1>4 DEF SendBuf
    <2>2. line \in Line
      BY <1>1
    <2> DEFINE b == SendBuf(k, c, line)
    <2> HIDE DEF line, b
    <2>3. b = [c EXCEPT !.sendQ = Append(@, line), !.wr = "send_queued_cb"]
      BY <2>1 DEF b
    <2>4. b \in ClientRec /\ b.life = c.life /\ b.sendQ = Append(c.sendQ, line)
      BY <2>2, <2>3, QueuedFacts
    <2>5. QED
      BY <2>4 DEF line, b
  <1>5. QED
    BY <1>2, <1>3, <1>4

\* exit_client: whatever the connection is in the middle of, its end is sound,
\* and what is written last is a part of the queue, with the ERROR behind it.
LEMMA ExitFacts ==
    ASSUME NEW n \in Nat, NEW k \in Conn, NEW c \in ClientRec, NEW p \in PeerRec,
           c.life = "open", c.deadsock => c.sendQ = <<>>, c.recvQ + p.in <= n,
           NEW r \in ExitClient(k, c, p)
    PROVE  /\ Sound(r.c, r.p, n) /\ r.c.life = "exited" /\ r.c.sendQ = <<>>
           /\ \E m \in 0..(Len(c.sendQ) + 1) :
                 r.p.out = p.out \o SubSeq(Append(c.sendQ, ErrorLine), 1, m)
  <1> DEFINE b == SendBuf(k, c, ErrorLine)
  <1>1. /\ b \in ClientRec /\ b.life = "open"
        /\ b.sendQ = <<>> \/ b.sendQ = Append(c.sendQ, ErrorLine)
    BY ErrorFacts
  <1>2. r \in CloseConnection(b, p)
    BY DEF ExitClient
  <1> HIDE DEF b
  <1>3. PICK x \in SendQueued(b, p) :
           r = Pair([DeadSocket(x.c) EXCEPT !.life = "exited", !.lagged = FALSE],
                    [x.p EXCEPT !.in = 0, !.unread = 0, !.tls = "ok", !.eof = FALSE])
    BY <1>2 DEF CloseConnection
  <1>4. x.c \in ClientRec /\ x.p \in PeerRec
    BY <1>1, SendQueuedFacts
  <1>5. PICK m \in 0..Len(b.sendQ) : x.p.out = p.out \o First(b.sendQ, m)
    BY <1>1, SendQueuedFacts
  <1> DEFINE e == DeadSocket(x.c)
  <1>6. e \in ClientRec /\ e.deadsock /\ e.sendQ = <<>> /\ e.recvQ = 0 /\ e.rd = "NULL" /\ e.wr = "NULL"
    BY <1>4, DeadSocketFacts
  <1>7. r = Pair([e EXCEPT !.life = "exited", !.lagged = FALSE],
                 [x.p EXCEPT !.in = 0, !.unread = 0, !.tls = "ok", !.eof = FALSE])
    BY <1>3
  <1> HIDE DEF e
  <1>8. /\ r.c \in ClientRec /\ r.c.deadsock /\ r.c.sendQ = <<>> /\ r.c.recvQ = 0
        /\ r.c.rd = "NULL" /\ r.c.wr = "NULL" /\ r.c.life = "exited"
    BY <1>6, <1>7 DEF Pair, ClientRec
  <1>9. r.p \in PeerRec /\ r.p.in = 0 /\ r.p.out = x.p.out
    <2> DEFINE y == x.p
    <2>1. r.p = [y EXCEPT !.in = 0, !.unread = 0, !.tls = "ok", !.eof = FALSE] /\ y \in PeerRec
      BY <1>4, <1>7 DEF Pair
    <2>2. 0 \in 0..MaxIn /\ 0 \in 0..Room
      BY SocketAssumption
    <2> HIDE DEF y
    <2>3. r.p \in PeerRec /\ r.p.in = 0 /\ r.p.out = y.out
      BY <2>1, <2>2 DEF PeerRec
    <2>4. QED
      BY <2>3 DEF y
  <1>10. Sound(r.c, r.p, n)
    BY <1>8, <1>9 DEF Sound
  <1>11. \E i \in 0..(Len(c.sendQ) + 1) :
            r.p.out = p.out \o SubSeq(Append(c.sendQ, ErrorLine), 1, i)
    <2> DEFINE o == p.out
    <2> DEFINE q == c.sendQ
    <2> DEFINE f == Append(q, ErrorLine)
    <2>1. ErrorLine \in Line
      BY SocketAssumption DEF ErrorLine, Line
    <2>2. o \in Seq(Line) /\ q \in Seq(Line) /\ Len(q) \in Nat
      BY Fields
    <2>3. f \in Seq(Line) /\ Len(f) = Len(q) + 1
      BY <2>1, <2>2, AppendProperties
    <2>4. /\ b.sendQ = <<>> \/ b.sendQ = f
          /\ r.p.out = o \o First(b.sendQ, m)
      BY <1>1, <1>5, <1>9
    <2> HIDE DEF o, q, f
    <2>5. CASE b.sendQ = f
      <3>1. m \in 0..(Len(q) + 1) /\ r.p.out = o \o SubSeq(f, 1, m)
        BY <2>3, <2>4, <2>5, <1>5 DEF First
      <3>2. QED
        BY <3>1 DEF o, q, f
    <2>6. CASE b.sendQ = <<>>
      <3> DEFINE none == <<>>
      <3>1. none \in Seq(Line) /\ Len(none) = 0
        OBVIOUS
      <3>2. m = 0 /\ r.p.out = o \o First(none, 0)
        BY <2>4, <2>6, <1>5
      <3>3. 0 \in 0..Len(none) /\ 0 \in 0..Len(f) /\ 0 \in 0..(Len(q) + 1)
        BY <3>1, <2>2, <2>3
      <3> HIDE DEF none
      <3>4. o \o First(none, 0) = o /\ o \o First(f, 0) = o
        BY <3>1, <2>2, <2>3, FirstNone
      <3>5. r.p.out = o \o SubSeq(f, 1, 0)
        BY <3>2, <3>4 DEF First
      <3>6. QED
        BY <3>3, <3>5 DEF o, q, f
    <2>7. QED
      BY <2>4, <2>5, <2>6
  <1>12. QED
    BY <1>8, <1>10, <1>11

\* Stream sees the phase, the queue and what was written, nothing else.
LEMMA StreamSame ==
    ASSUME NEW c, NEW c2, NEW p, NEW d, NEW q, Phase(c2) = Phase(c), c2.sendQ = c.sendQ,
           StreamStep(c2, p, d, q)
    PROVE  StreamStep(c, p, d, q)
  BY DEF StreamStep

-----------------------------------------------------------------------------
(* Steps of the server, the kernel and the peers *)

\* A change of the handlers, or of how many lines came in, is not seen by Stream.
LEMMA Rewired ==
    ASSUME NEW n, NEW c, NEW p, NEW d, NEW q, Sound(c, p, n),
           d \in ClientRec, q \in PeerRec, d.recvQ + q.in <= n,
           d.life = c.life, d.deadsock = c.deadsock, d.sendQ = c.sendQ, d.queued = c.queued,
           q.out = p.out, c.life # "open" => d.rd = c.rd /\ d.wr = c.wr,
           Awake(d) \/ (d.rd = c.rd /\ d.wr = c.wr) \/ c.deadsock
    PROVE  Moves(c, p, d, q, n)
  <1>1. ~d.deadsock => Awake(d)
    BY DEF Sound, Awake
  <1>2. Sound(d, q, n)
    BY <1>1 DEF Sound
  <1>3. StreamStep(c, p, d, q)
    BY DEF StreamStep, Phase
  <1>4. QED
    BY <1>2, <1>3 DEF Moves

\* The variables after a step, given that the counters stay
Stepped ==
    /\ cl' = [k \in Conn |-> cl'[k]] /\ peer' = [k \in Conn |-> peer'[k]]
    /\ \A k \in Conn : Moves(cl[k], peer[k], cl'[k], peer'[k], spent.in)

\* No change is a step.
LEMMA StillMoves ==
    ASSUME NEW c, NEW p, NEW n, Sound(c, p, n)
    PROVE  Moves(c, p, c, p, n) /\ Kept(c, c)
  BY DEF Moves, StreamStep, Kept

\* A step that touches one connection.
LEMMA UpdateStepped ==
    ASSUME Inv, NEW k \in Conn, NEW r, Moves(cl[k], peer[k], r.c, r.p, spent.in), Update(k, r)
    PROVE  /\ Stepped /\ cl'[k] = r.c /\ peer'[k] = r.p
           /\ \A j \in Conn : j # k => cl'[j] = cl[j]
  <1>1. /\ cl' = [cl EXCEPT ![k] = r.c] /\ peer' = [peer EXCEPT ![k] = r.p]
        /\ cl = [j \in Conn |-> cl[j]] /\ peer = [j \in Conn |-> peer[j]]
    BY DEF Update, Inv
  <1>2. /\ cl'[k] = r.c /\ peer'[k] = r.p
        /\ \A j \in Conn : j # k => cl'[j] = cl[j] /\ peer'[j] = peer[j]
        /\ cl' = [j \in Conn |-> cl'[j]] /\ peer' = [j \in Conn |-> peer'[j]]
    BY <1>1
  <1>3. ASSUME NEW j \in Conn PROVE Moves(cl[j], peer[j], cl'[j], peer'[j], spent.in)
    <2>1. CASE j = k
      BY <2>1, <1>2
    <2>2. CASE j # k
      BY <2>2, <1>2, StillMoves DEF Inv
    <2>3. QED
      BY <2>1, <2>2
  <1>4. QED
    BY <1>2, <1>3 DEF Stepped

\* Lines for the clients in to: each is queued, dropped, or the end of a socket.
LEMMA DeliverMoves ==
    ASSUME NEW n \in Nat, NEW base, NEW to \in SUBSET Conn, NEW j \in Conn, NEW p,
           Sound(base[j], p, n), j \in to => base[j].queued < MaxLine
    PROVE  Moves(base[j], p, Deliver(base, to)[j], p, n) /\ Kept(base[j], Deliver(base, to)[j])
  <1>1. Deliver(base, to)[j] = IF j \in to THEN SendLine(j, base[j]) ELSE base[j]
    BY DEF Deliver
  <1>2. CASE j \in to
    <2>1. Deliver(base, to)[j] = SendLine(j, base[j])
      BY <1>1, <1>2
    <2>2. QED
      BY <2>1, <1>2, SendLineMoves
  <1>3. CASE j \notin to
    <2>1. Deliver(base, to)[j] = base[j]
      BY <1>1, <1>3
    <2>2. QED
      BY <2>1, StillMoves
  <1>4. QED
    BY <1>2, <1>3

\* The records a step works on, before it sends: for Stream they are as they were
Begun(base) ==
    \A j \in Conn :
        /\ Sound(base[j], peer[j], spent.in)
        /\ Phase(base[j]) = Phase(cl[j]) /\ base[j].sendQ = cl[j].sendQ
        /\ base[j].queued = cl[j].queued

\* A command sends lines.
LEMMA DeliverStepped ==
    ASSUME Inv, NEW base, Begun(base), NEW to \in Audience, cl' = Deliver(base, to), peer' = peer
    PROVE  Stepped /\ \A j \in Conn : Kept(base[j], cl'[j])
  <1>1. /\ peer = [j \in Conn |-> peer[j]] /\ spent.in \in Nat
        /\ to \in SUBSET Conn /\ \A j \in to : cl[j].queued < MaxLine
    BY SocketAssumption, SMTT(30) DEF Inv, Audience
  <1>2. ASSUME NEW j \in Conn
        PROVE  Moves(cl[j], peer[j], cl'[j], peer'[j], spent.in) /\ Kept(base[j], cl'[j])
    <2>1. /\ Sound(base[j], peer[j], spent.in) /\ base[j].queued = cl[j].queued
          /\ Phase(base[j]) = Phase(cl[j]) /\ base[j].sendQ = cl[j].sendQ
      BY DEF Begun
    <2>2. /\ Moves(base[j], peer[j], Deliver(base, to)[j], peer[j], spent.in)
          /\ Kept(base[j], Deliver(base, to)[j])
      BY <1>1, <2>1, DeliverMoves
    <2>3. StreamStep(cl[j], peer[j], Deliver(base, to)[j], peer[j])
      BY <2>1, <2>2, StreamSame DEF Moves
    <2>4. QED
      BY <2>2, <2>3 DEF Moves
  <1>3. cl' = [j \in Conn |-> cl'[j]]
    BY DEF Deliver
  <1>4. QED
    BY <1>1, <1>2, <1>3 DEF Stepped

\* k exits, and the others are told.
LEMMA ExitStepped ==
    ASSUME Inv, NEW k \in Conn, NEW base, base = [j \in Conn |-> base[j]],
           cl[k].life = "open", base[k] \in ClientRec, base[k].life = "open",
           base[k].deadsock => base[k].sendQ = <<>>, base[k].sendQ = cl[k].sendQ,
           base[k].recvQ + peer[k].in <= spent.in,
           \A j \in Conn : j # k =>
               /\ Sound(base[j], peer[j], spent.in)
               /\ Phase(base[j]) = Phase(cl[j]) /\ base[j].sendQ = cl[j].sendQ
               /\ base[j].queued = cl[j].queued,
           Exit(k, base)
    PROVE  Stepped /\ \A j \in Conn : j # k => Kept(base[j], cl'[j])
  <1>1. PICK r \in ExitClient(k, base[k], peer[k]), to \in Audience :
           /\ cl' = Deliver([base EXCEPT ![k] = r.c], to \ {k})
           /\ peer' = [peer EXCEPT ![k] = r.p]
    BY DEF Exit
  <1>2. /\ peer = [j \in Conn |-> peer[j]] /\ spent.in \in Nat /\ peer[k] \in PeerRec
        /\ to \in SUBSET Conn /\ \A j \in to : cl[j].queued < MaxLine
    <2>1. Sound(cl[k], peer[k], spent.in)
      BY DEF Inv
    <2>2. peer[k] \in PeerRec
      BY <2>1 DEF Sound
    <2>3. spent.in \in Nat /\ peer = [j \in Conn |-> peer[j]]
      BY DEF Inv
    <2>4. to \in SUBSET Conn /\ \A j \in to : cl[j].queued < MaxLine
      BY DEF Audience
    <2>5. QED
      BY <2>2, <2>3, <2>4
  <1> DEFINE b2 == [base EXCEPT ![k] = r.c]
  <1>3. b2[k] = r.c /\ \A j \in Conn : j # k => b2[j] = base[j]
    OBVIOUS
  <1>4. /\ peer'[k] = r.p /\ \A j \in Conn : j # k => peer'[j] = peer[j]
        /\ peer' = [j \in Conn |-> peer'[j]]
    BY <1>1, <1>2
  <1>5. cl' = Deliver(b2, to \ {k})
    BY <1>1
  <1> HIDE DEF b2
  <1>6. cl' = [j \in Conn |-> cl'[j]] /\ cl'[k] = r.c
    BY <1>3, <1>5 DEF Deliver
  <1>7. Moves(cl[k], peer[k], cl'[k], peer'[k], spent.in)
    <2>1. /\ Sound(r.c, r.p, spent.in) /\ r.c.life = "exited" /\ r.c.sendQ = <<>>
          /\ \E m \in 0..(Len(base[k].sendQ) + 1) :
                r.p.out = peer[k].out \o SubSeq(Append(base[k].sendQ, ErrorLine), 1, m)
      BY <1>1, <1>2, ExitFacts
    <2>2. PICK m \in 0..(Len(cl[k].sendQ) + 1) :
             r.p.out = peer[k].out \o SubSeq(Append(cl[k].sendQ, ErrorLine), 1, m)
      BY <2>1
    <2>3. Phase(cl[k]) # "closed" /\ Phase(r.c) = "closed"
      BY <2>1 DEF Phase
    <2>4. StreamStep(cl[k], peer[k], r.c, r.p)
      BY <2>1, <2>2, <2>3 DEF StreamStep
    <2>5. QED
      BY <2>1, <2>4, <1>4, <1>6 DEF Moves
  <1>8. ASSUME NEW j \in Conn, j # k
        PROVE  Moves(cl[j], peer[j], cl'[j], peer'[j], spent.in) /\ Kept(base[j], cl'[j])
    <2>1. /\ Sound(b2[j], peer[j], spent.in) /\ b2[j].queued = cl[j].queued
          /\ Phase(b2[j]) = Phase(cl[j]) /\ b2[j].sendQ = cl[j].sendQ
      BY <1>3, <1>8
    <2>2. to \ {k} \in SUBSET Conn /\ (j \in to \ {k} => b2[j].queued < MaxLine)
      BY <1>2, <2>1
    <2>3. /\ Moves(b2[j], peer[j], cl'[j], peer[j], spent.in)
          /\ Kept(b2[j], cl'[j])
      BY <1>2, <1>5, <2>1, <2>2, DeliverMoves
    <2>4. StreamStep(cl[j], peer[j], cl'[j], peer[j])
      BY <2>1, <2>3, StreamSame DEF Moves
    <2>5. QED
      BY <2>3, <2>4, <1>3, <1>4, <1>8 DEF Moves
  <1>9. QED
    BY <1>4, <1>6, <1>7, <1>8 DEF Stepped

\* recv and what read_packet does with its result.
LEMMA RecvStepped ==
    ASSUME Inv, NEW k \in Conn, NEW c, cl[k].life = "open",
           Sound(c, peer[k], spent.in), Reading(c), c.life = "open",
           c.deadsock = cl[k].deadsock, c.sendQ = cl[k].sendQ, c.queued = cl[k].queued,
           Recv(k, c)
    PROVE  /\ Stepped /\ busy' \in Busy
           /\ busy' # None => /\ busy'.who = k /\ cl'[k].life = "open"
                              /\ Reading(cl'[k])
  <1> DEFINE p == TlsAdvance(peer[k])
  <1>1. /\ c \in ClientRec /\ peer[k] \in PeerRec /\ spent.in \in 0..MaxIn
        /\ cl = [j \in Conn |-> cl[j]]
    BY DEF Inv, Sound
  <1>2. /\ p \in PeerRec /\ p.out = peer[k].out /\ p.in = peer[k].in /\ p.in \in 0..MaxIn
        /\ c.recvQ \in 0..MaxIn /\ c.recvQ + p.in <= spent.in
    BY <1>1, TlsAdvanceFacts, Fields DEF Sound
  <1>3. Phase(c) = Phase(cl[k])
    BY DEF Phase
  <1>4. ASSUME NEW d, Update(k, Pair(d, p)), busy' = None,
               d \in ClientRec, d.life = c.life, d.deadsock = c.deadsock, d.sendQ = c.sendQ,
               d.queued = c.queued, d.recvQ = c.recvQ, Awake(d) \/ c.deadsock
        PROVE  Stepped
    <2>1. Moves(c, peer[k], d, p, spent.in)
      BY <1>2, <1>4, Rewired
    <2>2. Moves(cl[k], peer[k], d, p, spent.in)
      BY <2>1, <1>3, StreamSame DEF Moves
    <2>3. Pair(d, p).c = d /\ Pair(d, p).p = p
      BY DEF Pair
    <2>4. QED
      BY <2>2, <2>3, <1>4, UpdateStepped
  <1>5. \/ p.tls = "in" /\ Update(k, Pair([c EXCEPT !.rd = "read_packet"], p)) /\ busy' = None
        \/ /\ p.tls = "out"
           /\ Update(k, Pair([c EXCEPT !.rd = "NULL", !.wr = "read_packet"], p)) /\ busy' = None
        \/ p.tls = "ok" /\ p.in > 0 /\ ReadSome(k, c, p)
        \/ /\ p.tls = "ok" /\ p.in = 0 /\ ~p.eof
           /\ Update(k, Pair([c EXCEPT !.rd = IF k \in TLSConn THEN "read_packet" ELSE @], p))
           /\ busy' = None
        \/ p.eof /\ Exit(k, [cl EXCEPT ![k] = c]) /\ busy' = None
    BY DEF Recv
  <1> HIDE DEF p
  <1>6. CASE Update(k, Pair([c EXCEPT !.rd = "read_packet"], p)) /\ busy' = None
    <2> DEFINE d == [c EXCEPT !.rd = "read_packet"]
    <2>1. /\ d \in ClientRec /\ d.life = c.life /\ d.deadsock = c.deadsock /\ d.sendQ = c.sendQ
          /\ d.queued = c.queued /\ d.recvQ = c.recvQ /\ d.rd = "read_packet" /\ d.wr = c.wr
      BY <1>1 DEF ClientRec, Callback
    <2> HIDE DEF d
    <2>2. Awake(d) \/ c.deadsock
      BY <2>1 DEF Awake, Reading
    <2>3. QED
      BY <2>1, <2>2, <1>4, <1>6 DEF Busy, d
  <1>7. CASE Update(k, Pair([c EXCEPT !.rd = "NULL", !.wr = "read_packet"], p)) /\ busy' = None
    <2> DEFINE d == [c EXCEPT !.rd = "NULL", !.wr = "read_packet"]
    <2>1. /\ d \in ClientRec /\ d.life = c.life /\ d.deadsock = c.deadsock /\ d.sendQ = c.sendQ
          /\ d.queued = c.queued /\ d.recvQ = c.recvQ /\ d.rd = "NULL" /\ d.wr = "read_packet"
      BY <1>1 DEF ClientRec, Callback
    <2> HIDE DEF d
    <2>2. Awake(d)
      BY <2>1 DEF Awake
    <2>3. QED
      BY <2>1, <2>2, <1>4, <1>7 DEF Busy, d
  <1>8. CASE /\ Update(k, Pair([c EXCEPT !.rd = IF k \in TLSConn THEN "read_packet" ELSE @], p))
             /\ busy' = None
    <2> DEFINE d == [c EXCEPT !.rd = IF k \in TLSConn THEN "read_packet" ELSE @]
    <2>1. /\ d \in ClientRec /\ d.life = c.life /\ d.deadsock = c.deadsock /\ d.sendQ = c.sendQ
          /\ d.queued = c.queued /\ d.recvQ = c.recvQ /\ d.rd \in {"read_packet", c.rd} /\ d.wr = c.wr
      BY <1>1 DEF ClientRec, Callback
    <2> HIDE DEF d
    <2>2. Awake(d) \/ c.deadsock
      BY <2>1 DEF Awake, Reading
    <2>3. QED
      BY <2>1, <2>2, <1>4, <1>8 DEF Busy, d
  <1>9. CASE ReadSome(k, c, p)
    <2>1. PICK m \in 1..p.in, full \in BOOLEAN :
             /\ Update(k, Pair([c EXCEPT !.recvQ = @ + m], [p EXCEPT !.in = @ - m]))
             /\ busy' = [who |-> k, stage |-> "packet", full |-> full]
      BY <1>9 DEF ReadSome
    <2> DEFINE d == [c EXCEPT !.recvQ = @ + m]
    <2> DEFINE q == [p EXCEPT !.in = @ - m]
    <2>2. c.recvQ + m \in 0..MaxIn /\ p.in - m \in 0..MaxIn
          /\ (c.recvQ + m) + (p.in - m) <= spent.in
      BY <1>1, <1>2, SocketAssumption
    <2>3. /\ d \in ClientRec /\ d.life = c.life /\ d.deadsock = c.deadsock /\ d.sendQ = c.sendQ
          /\ d.queued = c.queued /\ d.recvQ = c.recvQ + m /\ d.rd = c.rd /\ d.wr = c.wr
      BY <1>1, <2>2 DEF ClientRec
    <2>4. q \in PeerRec /\ q.out = p.out /\ q.in = p.in - m
      BY <1>2, <2>2 DEF PeerRec
    <2>5. Update(k, Pair(d, q))
      BY <2>1
    <2> HIDE DEF d, q
    <2>6. Moves(c, peer[k], d, q, spent.in)
      BY <1>2, <2>2, <2>3, <2>4, Rewired
    <2>7. Moves(cl[k], peer[k], d, q, spent.in)
      BY <2>6, <1>3, StreamSame DEF Moves
    <2>8. Pair(d, q).c = d /\ Pair(d, q).p = q
      BY DEF Pair
    <2>9. Stepped /\ cl'[k] = d
      BY <2>5, <2>7, <2>8, UpdateStepped
    <2>10. Reading(cl'[k]) /\ cl'[k].life = "open"
      BY <2>3, <2>9 DEF Reading
    <2>11. QED
      BY <2>1, <2>9, <2>10 DEF Busy
  <1>10. CASE Exit(k, [cl EXCEPT ![k] = c]) /\ busy' = None
    <2> DEFINE base == [cl EXCEPT ![k] = c]
    <2>1. /\ base = [j \in Conn |-> base[j]] /\ base[k] = c
          /\ \A j \in Conn : j # k => base[j] = cl[j]
      BY <1>1
    <2> HIDE DEF base
    <2>2. \A j \in Conn : j # k => Sound(base[j], peer[j], spent.in)
      BY <2>1 DEF Inv
    <2>3. /\ base[k] \in ClientRec /\ base[k].life = "open" /\ base[k].sendQ = cl[k].sendQ
          /\ base[k].deadsock => base[k].sendQ = <<>>
          /\ base[k].recvQ + peer[k].in <= spent.in
      BY <2>1, <1>1 DEF Sound
    <2>4. Exit(k, base)
      BY <1>10 DEF base
    <2>5. Stepped
      BY <2>1, <2>2, <2>3, <2>4, ExitStepped
    <2>6. QED
      BY <2>5, <1>10 DEF Busy
  <1>11. QED
    BY <1>5, <1>6, <1>7, <1>8, <1>9, <1>10

\* A step that touches one client and not its peer.
LEMMA ClientStepped ==
    ASSUME Inv, NEW k \in Conn, NEW d, Moves(cl[k], peer[k], d, peer[k], spent.in),
           cl' = [cl EXCEPT ![k] = d], peer' = peer
    PROVE  Stepped /\ cl'[k] = d /\ \A j \in Conn : j # k => cl'[j] = cl[j]
  <1>1. cl = [j \in Conn |-> cl[j]] /\ peer = [j \in Conn |-> peer[j]]
    BY DEF Inv
  <1>2. peer' = [peer EXCEPT ![k] = peer[k]]
    BY <1>1
  <1>3. Update(k, Pair(d, peer[k])) /\ Pair(d, peer[k]).c = d /\ Pair(d, peer[k]).p = peer[k]
    BY <1>2 DEF Update, Pair
  <1>4. QED
    BY <1>3, UpdateStepped

\* What all steps preserve, and what Stream sees of them
Good == Inv' /\ \A k \in Conn : StreamStep(cl[k], peer[k], cl'[k], peer'[k])

\* A step of the server itself leaves the counters of the peers alone.
LEMMA SteppedGood ==
    ASSUME Inv, Stepped, spent' = spent, busy' \in Busy, InHand'
    PROVE  Good
  BY DEF Inv, Stepped, Moves, Good

\* The connection in hand stays in hand when it gets no more than lines.
LEMMA KeptInHand ==
    ASSUME Inv, busy' = busy,
           busy # None => Kept(cl[busy.who], cl'[busy.who])
    PROVE  busy' \in Busy /\ InHand'
  <1>1. busy' \in Busy
    BY DEF Inv
  <1>2. ASSUME busy # None
        PROVE  /\ cl'[busy.who].life = "open"
               /\ busy.stage \in {"recv", "packet"} => Reading(cl'[busy.who])
    <2>1. /\ cl[busy.who].life = "open" /\ Kept(cl[busy.who], cl'[busy.who])
          /\ busy.stage \in {"recv", "packet"} => Reading(cl[busy.who])
      BY <1>2 DEF Inv, InHand, Open
    <2>2. QED
      BY <2>1 DEF Kept, Reading
  <1>3. QED
    BY <1>1, <1>2 DEF InHand, Open

\* The kernel, an engine or a peer moves.
LEMMA PeerGood ==
    ASSUME Inv, NEW k \in Conn, NEW q \in PeerRec, q.out = peer[k].out,
           peer' = [peer EXCEPT ![k] = q], UNCHANGED <<cl, busy>>,
           spent' \in [in : 0..MaxIn, tls : 0..MaxTls, eof : 0..MaxEof],
           spent'.in >= spent.in, cl[k].recvQ + q.in <= spent'.in
    PROVE  Good
  <1>1. /\ peer = [j \in Conn |-> peer[j]] /\ \A j \in Conn : Sound(cl[j], peer[j], spent.in)
        /\ spent.in \in Nat /\ spent'.in \in Nat
    BY DEF Inv
  <1>2. /\ peer'[k] = q /\ \A j \in Conn : j # k => peer'[j] = peer[j]
        /\ peer' = [j \in Conn |-> peer'[j]]
    BY <1>1
  <1>3. ASSUME NEW j \in Conn
        PROVE  Sound(cl[j], peer'[j], spent'.in) /\ StreamStep(cl[j], peer[j], cl[j], peer'[j])
    <2>1. peer'[j] \in PeerRec /\ peer'[j].out = peer[j].out
      BY <1>1, <1>2 DEF Sound
    <2>2. cl[j].recvQ + peer'[j].in <= spent'.in
      <3>1. CASE j = k
        BY <3>1, <1>2
      <3>2. CASE j # k
        <4>1. cl[j].recvQ + peer[j].in <= spent.in /\ cl[j].recvQ \in Nat /\ peer[j].in \in Nat
          <5>1. Sound(cl[j], peer[j], spent.in)
            BY <1>1
          <5>2. QED
            BY <5>1, Fields DEF Sound
        <4>2. QED
          BY <4>1, <3>2, <1>1, <1>2
      <3>3. QED
        BY <3>1, <3>2
    <2>3. QED
      BY <1>1, <2>1, <2>2 DEF Sound, StreamStep
  <1>4. InHand'
    BY DEF Inv, InHand, Open
  <1>5. QED
    BY <1>2, <1>3, <1>4 DEF Good, Inv

\* Reading a line of the queue.
LEMMA TakeBegun ==
    ASSUME Inv, NEW k \in Conn, cl[k].recvQ > 0, NEW c \in Take(k)
    PROVE  LET base == [cl EXCEPT ![k] = c]
           IN  /\ base = [j \in Conn |-> base[j]] /\ Begun(base)
               /\ \A j \in Conn : /\ base[j].life = cl[j].life /\ base[j].deadsock = cl[j].deadsock
                                  /\ base[j].rd = cl[j].rd /\ base[j].wr = cl[j].wr
  <1> DEFINE base == [cl EXCEPT ![k] = c]
  <1>1. /\ cl = [j \in Conn |-> cl[j]] /\ Sound(cl[k], peer[k], spent.in)
        /\ \A j \in Conn : Sound(cl[j], peer[j], spent.in)
    BY DEF Inv
  <1>2. base = [j \in Conn |-> base[j]] /\ base[k] = c /\ \A j \in Conn : j # k => base[j] = cl[j]
    BY <1>1
  <1>3. cl[k] \in ClientRec /\ cl[k].recvQ \in Nat /\ peer[k].in \in Nat /\ spent.in \in Nat
        /\ cl[k].recvQ + peer[k].in <= spent.in /\ peer[k] \in PeerRec /\ cl[k].recvQ \in 0..MaxIn
    BY <1>1, Fields DEF Sound, Inv
  <1>4. PICK l \in BOOLEAN : c = [cl[k] EXCEPT !.recvQ = @ - 1, !.lagged = l]
    BY DEF Take
  <1>5. cl[k].recvQ - 1 \in 0..MaxIn /\ (cl[k].recvQ - 1) + peer[k].in <= spent.in
    <2>1. \A x, y, n \in Nat : x > 0 /\ x + y <= n => (x - 1) + y <= n
      OBVIOUS
    <2>2. \A x \in 0..MaxIn : x > 0 => x - 1 \in 0..MaxIn
      BY SocketAssumption
    <2>3. QED
      BY <2>1, <2>2, <1>3
  <1>6. /\ c \in ClientRec /\ c.life = cl[k].life /\ c.deadsock = cl[k].deadsock
        /\ c.sendQ = cl[k].sendQ /\ c.queued = cl[k].queued /\ c.rd = cl[k].rd /\ c.wr = cl[k].wr
        /\ c.recvQ = cl[k].recvQ - 1
    BY <1>3, <1>4, <1>5 DEF ClientRec
  <1>7. Sound(c, peer[k], spent.in)
    BY <1>1, <1>3, <1>5, <1>6, Rewired DEF Moves
  <1> HIDE DEF base
  <1>8. Begun(base)
    BY <1>1, <1>2, <1>6, <1>7 DEF Begun, Phase
  <1>9. QED
    BY <1>2, <1>6, <1>8 DEF base

\* An exit in the middle of a step.
LEMMA ExitBegun ==
    ASSUME Inv, NEW k \in Conn, NEW base, base = [j \in Conn |-> base[j]], Begun(base),
           cl[k].life = "open", base[k].life = "open", Exit(k, base)
    PROVE  Stepped /\ \A j \in Conn : j # k => Kept(base[j], cl'[j])
  <1>1. Sound(base[k], peer[k], spent.in) /\ base[k].sendQ = cl[k].sendQ
    BY DEF Begun
  <1>2. /\ base[k] \in ClientRec
        /\ base[k].deadsock => base[k].sendQ = <<>>
        /\ base[k].recvQ + peer[k].in <= spent.in
    BY <1>1 DEF Sound
  <1>3. \A j \in Conn : j # k =>
           /\ Sound(base[j], peer[j], spent.in)
           /\ Phase(base[j]) = Phase(cl[j]) /\ base[j].sendQ = cl[j].sendQ
           /\ base[j].queued = cl[j].queued
    BY DEF Begun
  <1>4. QED
    BY <1>1, <1>2, <1>3, ExitStepped

\* The clients as they are may begin a step.
LEMMA ClBegun ==
    ASSUME Inv
    PROVE  cl = [j \in Conn |-> cl[j]] /\ Begun(cl)
  BY DEF Inv, Begun

\* The event loop runs a handler.
LEMMA RunGood ==
    ASSUME Inv, NEW k \in Conn, NEW callback, callback = cl[k].rd \/ callback = cl[k].wr,
           busy = None, Run(k, callback), spent' = spent
    PROVE  Good
  <1>1. Sound(cl[k], peer[k], spent.in) /\ spent.in \in Nat
    BY DEF Inv
  <1>2. cl[k].life = "open"
    BY <1>1 DEF Run, Sound
  <1>3. /\ cl[k] \in ClientRec /\ peer[k] \in PeerRec /\ cl[k].recvQ + peer[k].in <= spent.in
        /\ cl[k].deadsock => cl[k].sendQ = <<>>
    BY <1>1 DEF Sound
  <1>4. busy = None /\ None \in Busy
    BY DEF Busy
  <1>5. CASE callback = "read_packet" /\ ReadPacket(k) /\ cl[k].deadsock
    <2> DEFINE d == [cl[k] EXCEPT !.rd = "NULL"]
    <2>1. cl' = [cl EXCEPT ![k].rd = "NULL"] /\ UNCHANGED <<peer, busy>>
      BY <1>5 DEF ReadPacket
    <2>2. cl' = [cl EXCEPT ![k] = d]
      BY <2>1
    <2>3. /\ d \in ClientRec /\ d.life = cl[k].life /\ d.deadsock = cl[k].deadsock
          /\ d.sendQ = cl[k].sendQ /\ d.queued = cl[k].queued /\ d.recvQ = cl[k].recvQ
      BY <1>3 DEF ClientRec, Callback
    <2> HIDE DEF d
    <2>4. Moves(cl[k], peer[k], d, peer[k], spent.in)
      BY <2>3, <1>1, <1>2, <1>3, <1>5, Rewired
    <2>5. Stepped
      BY <2>1, <2>2, <2>4, ClientStepped
    <2>6. QED
      BY <2>1, <2>5, <1>4, SteppedGood DEF InHand
  <1>6. CASE callback = "read_packet" /\ ReadPacket(k) /\ ~cl[k].deadsock
    <2> DEFINE c == [cl[k] EXCEPT !.rd = "read_packet",
                                  !.wr = IF cl[k].sendQ = <<>> THEN "NULL" ELSE "send_queued_cb"]
    <2>1. Recv(k, c)
      BY <1>6 DEF ReadPacket
    <2>2. /\ c \in ClientRec /\ c.life = cl[k].life /\ c.deadsock = cl[k].deadsock
          /\ c.sendQ = cl[k].sendQ /\ c.queued = cl[k].queued /\ c.recvQ = cl[k].recvQ
          /\ c.rd = "read_packet" /\ c.wr = IF cl[k].sendQ = <<>> THEN "NULL" ELSE "send_queued_cb"
      BY <1>3 DEF ClientRec, Callback
    <2> HIDE DEF c
    <2>3. Awake(c) /\ Reading(c)
      BY <2>2 DEF Awake, Reading
    <2>4. Sound(c, peer[k], spent.in)
      BY <2>2, <2>3, <1>1, <1>2, <1>3, Rewired DEF Moves
    <2>5. /\ Stepped /\ busy' \in Busy
          /\ busy' # None => busy'.who = k /\ cl'[k].life = "open" /\ Reading(cl'[k])
      BY <2>1, <2>2, <2>3, <2>4, <1>2, RecvStepped
    <2>6. InHand'
      BY <2>5 DEF InHand, Open
    <2>7. QED
      BY <2>5, <2>6, SteppedGood
  <1>7. CASE callback = "send_queued_cb" /\ SendQueuedCb(k)
    <2>1. PICK r \in SendQueued(cl[k], peer[k]) : Update(k, r)
      BY <1>7 DEF SendQueuedCb
    <2>2. Moves(cl[k], peer[k], r.c, r.p, spent.in)
      BY <1>1, <1>2, <1>7, SendQueuedMoves
    <2>3. Stepped
      BY <2>1, <2>2, UpdateStepped
    <2>4. busy' = None
      BY <1>4, <1>7 DEF SendQueuedCb
    <2>5. QED
      BY <2>3, <2>4, <1>4, SteppedGood DEF InHand
  <1>8. QED
    BY <1>5, <1>6, <1>7 DEF Run

\* The commands of a client, and the end of its data.
LEMMA ProcessGood ==
    ASSUME Inv, NEW k \in Conn, Process(k)
    PROVE  Good
  <1>1. /\ busy # None /\ busy.who = k /\ spent' = spent
        /\ busy \in [who : Conn, stage : {"recv", "packet", "queued"}, full : BOOLEAN]
    BY DEF Process, RecvMore, RecvYield, ParseDead, ParseSend, ParseQuit, ParseEnd, ParseKill,
           Parsing, Inv, Busy
  <1>2. cl[k].life = "open" /\ (busy.stage \in {"recv", "packet"} => Reading(cl[k]))
    BY <1>1 DEF Inv, InHand, Open
  <1>3. Sound(cl[k], peer[k], spent.in) /\ spent.in \in Nat
    BY DEF Inv
  <1>4. None \in Busy
    BY DEF Busy
  <1>5. CASE RecvMore(k)
    <2>1. Recv(k, cl[k]) /\ Reading(cl[k])
      BY <1>2, <1>5 DEF RecvMore
    <2>2. /\ Stepped /\ busy' \in Busy
          /\ busy' # None => busy'.who = k /\ cl'[k].life = "open" /\ Reading(cl'[k])
      BY <2>1, <1>2, <1>3, RecvStepped
    <2>3. InHand'
      BY <2>2 DEF InHand, Open
    <2>4. QED
      BY <2>2, <2>3, <1>1, SteppedGood
  <1>6. CASE RecvYield(k)
    <2>1. cl' = cl /\ peer' = peer /\ busy' = None
      BY <1>6 DEF RecvYield
    <2>2. Stepped
      BY <2>1, StillMoves DEF Inv, Stepped
    <2>3. QED
      BY <2>1, <2>2, <1>1, <1>4, SteppedGood DEF InHand
  <1>7. CASE ParseDead(k)
    <2> DEFINE d == [cl[k] EXCEPT !.recvQ = @ - 1]
    <2>1. /\ cl' = [cl EXCEPT ![k].recvQ = @ - 1] /\ UNCHANGED <<peer, busy>>
          /\ cl[k].recvQ > 0 /\ cl[k].deadsock
      BY <1>7 DEF ParseDead, Parsing
    <2>2. cl' = [cl EXCEPT ![k] = d]
      BY <2>1
    <2>3. /\ cl[k] \in ClientRec /\ cl[k].recvQ \in 0..MaxIn /\ peer[k].in \in Nat
          /\ cl[k].recvQ + peer[k].in <= spent.in /\ peer[k] \in PeerRec
      BY <1>3, Fields DEF Sound
    <2>4. cl[k].recvQ - 1 \in 0..MaxIn /\ (cl[k].recvQ - 1) + peer[k].in <= spent.in
      <3>1. \A x, y, n \in Nat : x > 0 /\ x + y <= n => (x - 1) + y <= n
        OBVIOUS
      <3>2. \A x \in 0..MaxIn : x > 0 => x - 1 \in 0..MaxIn /\ x \in Nat
        BY SocketAssumption
      <3>3. QED
        BY <3>1, <3>2, <2>1, <2>3, <1>3
    <2>5. /\ d \in ClientRec /\ d.life = cl[k].life /\ d.deadsock = cl[k].deadsock
          /\ d.sendQ = cl[k].sendQ /\ d.queued = cl[k].queued /\ d.recvQ = cl[k].recvQ - 1
      BY <2>3, <2>4 DEF ClientRec
    <2> HIDE DEF d
    <2>6. Moves(cl[k], peer[k], d, peer[k], spent.in)
      BY <2>1, <2>3, <2>4, <2>5, <1>2, <1>3, Rewired
    <2>7. Stepped /\ cl'[k] = d
      BY <2>1, <2>2, <2>6, ClientStepped
    <2>8. Kept(cl[k], cl'[k])
      BY <2>1, <2>5, <2>7 DEF Kept
    <2>9. QED
      BY <2>1, <2>7, <2>8, <1>1, KeptInHand, SteppedGood
  <1>8. CASE ParseSend(k)
    <2>1. /\ cl[k].recvQ > 0 /\ UNCHANGED <<peer, busy>>
          /\ \E c \in Take(k), to \in Audience : cl' = Deliver([cl EXCEPT ![k] = c], to)
      BY <1>8 DEF ParseSend, Parsing
    <2>2. PICK c \in Take(k), to \in Audience : cl' = Deliver([cl EXCEPT ![k] = c], to)
      BY <2>1
    <2> DEFINE base == [cl EXCEPT ![k] = c]
    <2>3. /\ Begun(base)
          /\ \A j \in Conn : /\ base[j].life = cl[j].life /\ base[j].deadsock = cl[j].deadsock
                             /\ base[j].rd = cl[j].rd /\ base[j].wr = cl[j].wr
      BY <2>1, TakeBegun
    <2>4. cl' = Deliver(base, to)
      BY <2>2
    <2> HIDE DEF base
    <2>5. Stepped /\ \A j \in Conn : Kept(base[j], cl'[j])
      BY <2>1, <2>3, <2>4, DeliverStepped
    <2>6. Kept(cl[k], cl'[k])
      BY <2>3, <2>5 DEF Kept, Begun
    <2>7. QED
      BY <2>1, <2>5, <2>6, <1>1, KeptInHand, SteppedGood
  <1>9. CASE ParseQuit(k)
    <2>1. /\ cl[k].recvQ > 0 /\ busy' = None
          /\ \E c \in Take(k) : Exit(k, [cl EXCEPT ![k] = c])
      BY <1>9 DEF ParseQuit, Parsing
    <2>2. PICK c \in Take(k) : Exit(k, [cl EXCEPT ![k] = c])
      BY <2>1
    <2> DEFINE base == [cl EXCEPT ![k] = c]
    <2>3. /\ base = [j \in Conn |-> base[j]] /\ Begun(base)
          /\ \A j \in Conn : base[j].life = cl[j].life
      BY <2>1, TakeBegun
    <2>4. Exit(k, base)
      BY <2>2
    <2> HIDE DEF base
    <2>5. Stepped
      BY <2>3, <2>4, <1>2, ExitBegun
    <2>6. QED
      BY <2>1, <2>5, <1>1, <1>4, SteppedGood DEF InHand
  <1>10. CASE \E j \in Conn : ParseKill(k, j)
    <2>1. PICK j \in Conn : ParseKill(k, j)
      BY <1>10
    <2>2. /\ j # k /\ cl[j].life = "open" /\ cl[k].recvQ > 0 /\ busy' = busy
          /\ \E c \in Take(k) : Exit(j, [cl EXCEPT ![k] = c])
      BY <2>1 DEF ParseKill, Parsing, Open
    <2>3. PICK c \in Take(k) : Exit(j, [cl EXCEPT ![k] = c])
      BY <2>2
    <2> DEFINE base == [cl EXCEPT ![k] = c]
    <2>4. /\ base = [i \in Conn |-> base[i]] /\ Begun(base)
          /\ \A i \in Conn : /\ base[i].life = cl[i].life /\ base[i].deadsock = cl[i].deadsock
                             /\ base[i].rd = cl[i].rd /\ base[i].wr = cl[i].wr
      BY <2>2, TakeBegun
    <2>5. Exit(j, base)
      BY <2>3
    <2> HIDE DEF base
    <2>6. Stepped /\ Kept(base[k], cl'[k])
      BY <2>2, <2>4, <2>5, ExitBegun
    <2>7. Kept(cl[k], cl'[k])
      BY <2>4, <2>6 DEF Kept, Begun
    <2>8. QED
      BY <2>2, <2>6, <2>7, <1>1, KeptInHand, SteppedGood
  <1>11. CASE ParseEnd(k)
    <2>1. CASE Exit(k, cl) /\ busy' = None
      <3>1. Stepped
        BY <2>1, <1>2, ClBegun, ExitBegun
      <3>2. QED
        BY <2>1, <3>1, <1>1, <1>4, SteppedGood DEF InHand
    <2>2. CASE cl' = [cl EXCEPT ![k] = DeadSocket(@)] /\ busy' = None /\ peer' = peer
      <3>1. Moves(cl[k], peer[k], DeadSocket(cl[k]), peer[k], spent.in)
        BY <1>2, <1>3, DeadSocketMoves
      <3>2. Stepped
        BY <2>2, <3>1, ClientStepped
      <3>3. QED
        BY <2>2, <3>2, <1>1, <1>4, SteppedGood DEF InHand
    <2>3. CASE /\ busy' = IF busy.stage = "packet" /\ busy.full
                          THEN [busy EXCEPT !.stage = "recv", !.full = FALSE] ELSE None
               /\ cl' = cl /\ peer' = peer
      <3>1. Stepped
        BY <2>3, StillMoves DEF Inv, Stepped
      <3>2. busy' \in Busy /\ InHand'
        <4>1. CASE busy' = None
          BY <4>1, <1>4 DEF InHand
        <4>2. CASE busy.stage = "packet" /\ busy' = [busy EXCEPT !.stage = "recv", !.full = FALSE]
          <5>1. busy' \in Busy /\ busy'.who = k
            BY <4>2, <1>1 DEF Busy
          <5>2. QED
            BY <5>1, <4>2, <2>3, <1>2 DEF InHand, Open
        <4>3. QED
          BY <4>1, <4>2, <2>3
      <3>3. QED
        BY <3>1, <3>2, <1>1, SteppedGood
    <2>4. QED
      BY <1>11, <2>1, <2>2, <2>3 DEF ParseEnd
  <1>12. QED
    BY <1>5, <1>6, <1>7, <1>8, <1>9, <1>10, <1>11 DEF Process

\* Every step keeps the invariant, and is a step or a stutter of Stream on every
\* connection.
LEMMA StepGood ==
    ASSUME Inv, [Next]_vars
    PROVE  Good
  <1>1. /\ \A k \in Conn : Sound(cl[k], peer[k], spent.in)
        /\ cl = [j \in Conn |-> cl[j]] /\ peer = [j \in Conn |-> peer[j]]
        /\ busy \in Busy /\ spent \in [in : 0..MaxIn, tls : 0..MaxTls, eof : 0..MaxEof]
        /\ spent.in \in Nat
    BY DEF Inv
  <1>2. None \in Busy
    BY DEF Busy
  <1>3. ASSUME NEW k \in Conn PROVE cl[k] \in ClientRec /\ peer[k] \in PeerRec
                                    /\ cl[k].recvQ + peer[k].in <= spent.in
                                    /\ cl[k].recvQ \in Nat /\ peer[k].in \in Nat
    <2>1. Sound(cl[k], peer[k], spent.in)
      BY <1>1
    <2>2. QED
      BY <2>1, Fields DEF Sound
  <1>4. ASSUME NEW k \in Conn, PeerSend(k) PROVE Good
    <2> DEFINE q == [peer[k] EXCEPT !.in = @ + 1]
    <2>1. /\ spent.in < MaxIn /\ peer' = [peer EXCEPT ![k].in = @ + 1]
          /\ spent' = [spent EXCEPT !.in = @ + 1] /\ UNCHANGED <<cl, busy>>
      BY <1>4 DEF PeerSend
    <2>2. /\ spent' \in [in : 0..MaxIn, tls : 0..MaxTls, eof : 0..MaxEof]
          /\ spent'.in = spent.in + 1
      BY <1>1, <2>1, SocketAssumption
    <2>3. /\ cl[k].recvQ + (peer[k].in + 1) <= spent.in + 1 /\ peer[k].in + 1 \in 0..MaxIn
      BY <1>1, <1>3, <2>1, SocketAssumption
    <2>4. q \in PeerRec /\ q.out = peer[k].out /\ q.in = peer[k].in + 1
      BY <1>3, <2>3 DEF PeerRec
    <2>5. peer' = [peer EXCEPT ![k] = q]
      BY <2>1
    <2> HIDE DEF q
    <2>6. spent'.in >= spent.in /\ cl[k].recvQ + q.in <= spent'.in
      BY <2>2, <2>3, <2>4, <1>1
    <2>7. QED
      BY <2>1, <2>2, <2>4, <2>5, <2>6, PeerGood
  <1>5. ASSUME NEW k \in Conn, PeerRead(k) \/ PeerClose(k) \/ TlsWant(k) \/ TlsPeer(k)
        PROVE  Good
    <2>1. PICK q \in PeerRec : /\ q.out = peer[k].out /\ q.in = peer[k].in
                               /\ peer' = [peer EXCEPT ![k] = q]
      <3>1. CASE PeerRead(k)
        <4>1. peer' = [peer EXCEPT ![k] = [peer[k] EXCEPT !.unread = 0]]
          BY <3>1 DEF PeerRead
        <4>2. 0 \in 0..Room
          BY SocketAssumption
        <4>3. /\ [peer[k] EXCEPT !.unread = 0] \in PeerRec
              /\ [peer[k] EXCEPT !.unread = 0].out = peer[k].out
              /\ [peer[k] EXCEPT !.unread = 0].in = peer[k].in
          BY <1>3, <4>2 DEF PeerRec
        <4>4. QED
          BY <4>1, <4>3
      <3>2. CASE PeerClose(k)
        <4>1. peer' = [peer EXCEPT ![k] = [peer[k] EXCEPT !.eof = TRUE]]
          BY <3>2 DEF PeerClose
        <4>2. /\ [peer[k] EXCEPT !.eof = TRUE] \in PeerRec
              /\ [peer[k] EXCEPT !.eof = TRUE].out = peer[k].out
              /\ [peer[k] EXCEPT !.eof = TRUE].in = peer[k].in
          BY <1>3 DEF PeerRec
        <4>3. QED
          BY <4>1, <4>2
      <3>3. CASE TlsWant(k) \/ TlsPeer(k)
        <4>1. PICK t \in {"in", "out", "inready"} : peer' = [peer EXCEPT ![k].tls = t]
          BY <3>3 DEF TlsWant, TlsPeer
        <4>2. peer' = [peer EXCEPT ![k] = [peer[k] EXCEPT !.tls = t]]
          BY <4>1
        <4>3. /\ [peer[k] EXCEPT !.tls = t] \in PeerRec
              /\ [peer[k] EXCEPT !.tls = t].out = peer[k].out
              /\ [peer[k] EXCEPT !.tls = t].in = peer[k].in
          BY <1>3 DEF PeerRec
        <4>4. QED
          BY <4>2, <4>3
      <3>4. QED
        BY <1>5, <3>1, <3>2, <3>3
    <2>2. UNCHANGED <<cl, busy>>
      BY <1>5 DEF PeerRead, PeerClose, TlsWant, TlsPeer
    <2>3. /\ spent' \in [in : 0..MaxIn, tls : 0..MaxTls, eof : 0..MaxEof]
          /\ spent'.in = spent.in
      <3>1. CASE PeerRead(k) \/ TlsPeer(k)
        BY <3>1, <1>1 DEF PeerRead, TlsPeer
      <3>2. CASE PeerClose(k)
        <4>1. spent.eof < MaxEof /\ spent' = [spent EXCEPT !.eof = @ + 1]
          BY <3>2 DEF PeerClose
        <4>2. QED
          BY <4>1, <1>1, SocketAssumption
      <3>3. CASE TlsWant(k)
        <4>1. spent.tls < MaxTls /\ spent' = [spent EXCEPT !.tls = @ + 1]
          BY <3>3 DEF TlsWant
        <4>2. QED
          BY <4>1, <1>1, SocketAssumption
      <3>4. QED
        BY <1>5, <3>1, <3>2, <3>3
    <2>4. spent'.in >= spent.in /\ cl[k].recvQ + q.in <= spent'.in
      BY <2>1, <2>3, <1>1, <1>3
    <2>5. QED
      BY <2>1, <2>2, <2>3, <2>4, PeerGood
  <1>6. ASSUME NEW k \in Conn, Readable(k) \/ Writable(k) PROVE Good
    BY <1>6, RunGood DEF Readable, Writable
  <1>7. ASSUME NEW k \in Conn, ProcessClients(k) PROVE Good
    <2>1. /\ cl' = cl /\ peer' = peer /\ spent' = spent /\ cl[k].life = "open"
          /\ busy' = [who |-> k, stage |-> "queued", full |-> FALSE]
      BY <1>7 DEF ProcessClients, Open
    <2>2. Stepped
      BY <2>1, <1>1, StillMoves DEF Stepped
    <2>3. busy' \in Busy /\ busy'.who = k /\ busy'.stage = "queued"
      BY <2>1 DEF Busy
    <2>4. InHand'
      BY <2>1, <2>3 DEF InHand, Open
    <2>5. QED
      BY <2>1, <2>2, <2>3, <2>4, SteppedGood
  <1>8. ASSUME NEW k \in Conn, CheckDeadSockets(k) PROVE Good
    <2> DEFINE base == [cl EXCEPT ![k].deadsock = FALSE]
    <2>1. /\ Exit(k, base) /\ busy = None /\ busy' = busy /\ spent' = spent
          /\ cl[k].life = "open" /\ cl[k].deadsock
      BY <1>8 DEF CheckDeadSockets, Open
    <2>2. /\ base = [j \in Conn |-> base[j]] /\ base[k] = [cl[k] EXCEPT !.deadsock = FALSE]
          /\ \A j \in Conn : j # k => base[j] = cl[j]
      BY <1>1
    <2> HIDE DEF base
    <2>3. /\ base[k] \in ClientRec /\ base[k].life = cl[k].life /\ base[k].sendQ = cl[k].sendQ
          /\ base[k].recvQ = cl[k].recvQ
      BY <2>2, <1>3 DEF ClientRec
    <2>4. base[k].deadsock => base[k].sendQ = <<>>
      BY <2>1, <2>3, <1>1 DEF Sound
    <2>5. base[k].recvQ + peer[k].in <= spent.in
      BY <2>3, <1>3
    <2>6. \A j \in Conn : j # k =>
             /\ Sound(base[j], peer[j], spent.in)
             /\ Phase(base[j]) = Phase(cl[j]) /\ base[j].sendQ = cl[j].sendQ
             /\ base[j].queued = cl[j].queued
      BY <2>2, <1>1
    <2>7. Stepped
      BY <2>1, <2>2, <2>3, <2>4, <2>5, <2>6, ExitStepped
    <2>8. QED
      BY <2>1, <2>7, <1>2, SteppedGood DEF InHand
  <1>9. ASSUME NEW k \in Conn, FreeDead(k) PROVE Good
    <2> DEFINE d == [cl[k] EXCEPT !.life = "freed"]
    <2>1. /\ cl' = [cl EXCEPT ![k].life = "freed"] /\ UNCHANGED <<peer, busy, spent>>
          /\ busy = None /\ cl[k].life = "exited"
      BY <1>9 DEF FreeDead
    <2>2. cl' = [cl EXCEPT ![k] = d]
      BY <2>1
    <2>3. /\ d \in ClientRec /\ d.life = "freed" /\ d.deadsock = cl[k].deadsock
          /\ d.sendQ = cl[k].sendQ /\ d.queued = cl[k].queued /\ d.recvQ = cl[k].recvQ
          /\ d.rd = cl[k].rd /\ d.wr = cl[k].wr
      BY <1>3 DEF ClientRec
    <2> HIDE DEF d
    <2>4. Sound(cl[k], peer[k], spent.in)
      BY <1>1
    <2>5. Moves(cl[k], peer[k], d, peer[k], spent.in)
      BY <2>1, <2>3, <2>4 DEF Moves, Sound, Awake, StreamStep, Phase
    <2>6. Stepped
      BY <2>1, <2>2, <2>5, ClientStepped
    <2>7. QED
      BY <2>1, <2>6, <1>2, SteppedGood DEF InHand
  <1>10. ASSUME NEW k \in Conn, EventExit(k) PROVE Good
    <2>1. /\ Exit(k, cl) /\ busy = None /\ busy' = busy /\ spent' = spent /\ cl[k].life = "open"
      BY <1>10 DEF EventExit, Open
    <2>2. Stepped
      BY <2>1, ClBegun, ExitBegun
    <2>3. QED
      BY <2>1, <2>2, <1>2, SteppedGood DEF InHand
  <1>11. ASSUME NEW k \in Conn, Unlag(k) PROVE Good
    <2> DEFINE d == [cl[k] EXCEPT !.lagged = FALSE]
    <2>1. cl' = [cl EXCEPT ![k].lagged = FALSE] /\ UNCHANGED <<peer, busy, spent>>
      BY <1>11 DEF Unlag
    <2>2. cl' = [cl EXCEPT ![k] = d]
      BY <2>1
    <2>3. /\ d \in ClientRec /\ d.life = cl[k].life /\ d.deadsock = cl[k].deadsock
          /\ d.sendQ = cl[k].sendQ /\ d.queued = cl[k].queued /\ d.recvQ = cl[k].recvQ
          /\ d.rd = cl[k].rd /\ d.wr = cl[k].wr
      BY <1>3 DEF ClientRec
    <2> HIDE DEF d
    <2>4. Moves(cl[k], peer[k], d, peer[k], spent.in)
      BY <2>3, <1>1, <1>3, Rewired
    <2>5. Stepped /\ cl'[k] = d /\ \A j \in Conn : j # k => cl'[j] = cl[j]
      BY <2>1, <2>2, <2>4, ClientStepped
    <2>6. \A j \in Conn : Kept(cl[j], cl'[j])
      BY <2>3, <2>5 DEF Kept
    <2>7. busy # None => busy.who \in Conn
      BY <1>1 DEF Busy
    <2>8. QED
      BY <2>1, <2>5, <2>6, <2>7, KeptInHand, SteppedGood
  <1>12. ASSUME UNCHANGED vars PROVE Good
    <2>1. cl' = cl /\ peer' = peer /\ busy' = busy /\ spent' = spent
      BY <1>12 DEF vars
    <2>2. Stepped
      BY <2>1, <1>1, StillMoves DEF Stepped
    <2>3. InHand'
      BY <2>1 DEF Inv, InHand, Open
    <2>4. QED
      BY <2>1, <2>2, <2>3, <1>1, SteppedGood
  <1>13. QED
    BY <1>4, <1>5, <1>6, <1>7, <1>8, <1>9, <1>10, <1>11, <1>12, ProcessGood DEF Next

-----------------------------------------------------------------------------
(* The theorems *)

\* The registered clients that Init starts with are sound.
LEMMA InitSound == Init => Inv
  <1> SUFFICES ASSUME Init PROVE Inv
    OBVIOUS
  <1> DEFINE first(l) ==
        [life |-> "open", deadsock |-> FALSE, sendQ |-> <<>>, recvQ |-> 0,
         rd |-> "read_packet", wr |-> "NULL", lagged |-> l, queued |-> 0]
      idle == [out |-> <<>>, unread |-> 0, in |-> 0, tls |-> "ok", eof |-> FALSE]
  <1>1. /\ cl \in [Conn -> {first(l) : l \in BOOLEAN}] /\ peer = [k \in Conn |-> idle]
        /\ busy = None /\ spent = [in |-> 0, tls |-> 0, eof |-> 0]
    BY DEF Init
  <1>2. /\ 0 \in 0..MaxIn /\ 0 \in 0..MaxTls /\ 0 \in 0..MaxEof /\ 0 \in 0..MaxLine /\ 0 \in 0..Room
    BY SocketAssumption
  <1>3. /\ busy \in Busy /\ spent \in [in : 0..MaxIn, tls : 0..MaxTls, eof : 0..MaxEof]
        /\ spent.in = 0
    BY <1>1, <1>2 DEF Busy
  <1>4. ASSUME NEW k \in Conn PROVE Sound(cl[k], peer[k], spent.in)
    <2>1. PICK l \in BOOLEAN : cl[k] = first(l)
      BY <1>1
    <2>2. "read_packet" \in Callback /\ "NULL" \in Callback /\ <<>> \in Seq(0..MaxLine)
      BY DEF Callback
    <2>3. first(l) \in ClientRec
      BY <1>2, <2>2 DEF ClientRec
    <2>4. /\ first(l).life = "open" /\ first(l).deadsock = FALSE /\ first(l).sendQ = <<>>
          /\ first(l).recvQ = 0 /\ first(l).rd = "read_packet" /\ first(l).queued = 0
      OBVIOUS
    <2>5. peer[k] = idle /\ idle \in PeerRec /\ idle.in = 0 /\ idle.out = <<>>
      BY <1>1, <1>2, <2>2 DEF PeerRec
    <2>6. Len(<<>>) = 0
      OBVIOUS
    <2> HIDE DEF first, idle
    <2>7. QED
      BY <1>3, <2>1, <2>3, <2>4, <2>5, <2>6 DEF Sound, Awake
  <1>5. cl = [k \in Conn |-> cl[k]] /\ peer = [k \in Conn |-> peer[k]]
    <2> HIDE DEF first, idle
    <2>1. QED
      BY <1>1
  <1>6. QED
    BY <1>1, <1>3, <1>4, <1>5 DEF Inv, InHand

\* Inv is an invariant of the connections.
LEMMA Invariance == Spec => []Inv
  <1>1. Inv /\ [Next]_vars => Inv'
    BY StepGood DEF Good
  <1>2. QED
    BY <1>1, InitSound, PTL DEF Spec

\* Types of the queues, handlers and counters of every connection, and of what
\* the kernel holds for it (socket.c, send.c, dbuf.c).
THEOREM TypeCorrect == Spec => []TypeOK
  <1>1. Inv => TypeOK
    <2> SUFFICES ASSUME Inv PROVE TypeOK
      OBVIOUS
    <2>1. /\ busy \in Busy /\ spent \in [in : 0..MaxIn, tls : 0..MaxTls, eof : 0..MaxEof]
          /\ cl = [k \in Conn |-> cl[k]] /\ peer = [k \in Conn |-> peer[k]]
          /\ \A k \in Conn : cl[k] \in ClientRec /\ peer[k] \in PeerRec
      BY DEF Inv, Sound
    <2>2. QED
      BY <2>1 DEF TypeOK
  <1>2. QED
    BY <1>1, Invariance, PTL

\* No wakeup is lost: whatever read_packet, send_queued and mark_data_to_send do
\* to each other's handlers, an open connection that is not condemned is still
\* read and its queue still written.
THEOREM NoLostWakeup == Spec => []Wakeable
  <1>1. Inv => Wakeable
    <2> SUFFICES ASSUME Inv, NEW k \in Conn, Open(k), ~cl[k].deadsock
                 PROVE  /\ \/ "read_packet" \in {cl[k].rd, cl[k].wr}
                           \/ "send_queued_cb" \in {cl[k].rd, cl[k].wr} /\ cl[k].sendQ # <<>>
                        /\ cl[k].sendQ # <<>> => cl[k].wr # "NULL" \/ cl[k].rd = "send_queued_cb"
      BY DEF Wakeable
    <2>1. Awake(cl[k])
      BY DEF Inv, Sound
    <2>2. QED
      BY <2>1 DEF Awake
  <1>2. QED
    BY <1>1, Invariance, PTL

\* Every connection keeps the promise of Stream: partial writes, TLS engines,
\* limits and deferred exits lose, repeat or reorder no line, nothing is written
\* to a dead socket, and the ERROR is the last line.
THEOREM PromiseKept == Spec => KeepsPromise
  <1>1. Init => Abstract!Init
    <2> SUFFICES ASSUME Init PROVE Abstract!Init
      OBVIOUS
    <2>1. \A k \in Conn : /\ cl[k].life = "open" /\ cl[k].deadsock = FALSE /\ cl[k].sendQ = <<>>
                          /\ peer[k].out = <<>>
      BY DEF Init
    <2>2. QED
      BY <2>1 DEF Abstract!Init, Phase
  <1>2. Inv /\ [Next]_vars => [Abstract!Next]_(Abstract!vars)
    <2> SUFFICES ASSUME Inv, [Next]_vars PROVE Abstract!Next
      OBVIOUS
    <2>1. \A k \in Conn : StreamStep(cl[k], peer[k], cl'[k], peer'[k])
      BY StepGood DEF Good
    <2>2. ASSUME NEW k \in Conn
          PROVE  \/ Abstract!Stay(k) \/ Abstract!Accept(k) \/ Abstract!Write(k)
                 \/ Abstract!Condemn(k) \/ Abstract!Close(k)
      BY <2>1 DEF StreamStep, Abstract!Stay, Abstract!Accept, Abstract!Write, Abstract!Condemn,
                  Abstract!Close, Abstract!NextLine, Abstract!ErrorLine, ErrorLine
    <2>3. QED
      BY <2>2 DEF Abstract!Next
  <1>3. QED
    BY <1>1, <1>2, Invariance, PTL DEF Spec, KeepsPromise, Abstract!Spec
=============================================================================
