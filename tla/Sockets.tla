------------------------------- MODULE Sockets -------------------------------
(***************************************************************************)
(* The connections of one server: receive and send queues, the read and    *)
(* write handlers registered with the event loop, TLS engines that need to *)
(* read in order to write and to write in order to read, dead sockets and  *)
(* their deferred exit, fake lag and ping timeouts (socket.c, send.c,      *)
(* parse.c, dbuf.c, fdlist.c, dispatch.c, ircd.c).                         *)
(*                                                                         *)
(* The server is one thread: while it processes the data of a client       *)
(* (busy), only the kernel and the peers move besides that processing.     *)
(* A line is the unit of data; a write may stop after any line.            *)
(***************************************************************************)
EXTENDS Naturals, Sequences, FiniteSets

CONSTANTS
    Conn,        \* local connections, all registered
    TLSConn,     \* those with TLS
    ServerConn,  \* those to other servers: no fake lag, no class::recvq
    WebConn,     \* websocket clients: their frames reach process_packet from a hook
    None,
    SendQ,       \* SendQ[k]: class::sendq, in lines
    RecvQ,       \* RecvQ[k]: class::recvq, in lines
    Room,        \* lines the kernel buffers towards a peer
    MaxLine,     \* bound: lines queued to one connection
    MaxIn,       \* bound: lines the peers send
    MaxTls,      \* bound: handshakes the TLS engines need
    MaxEof       \* bound: connections that break

ASSUME SocketAssumption ==
    /\ TLSConn \subseteq Conn /\ ServerConn \subseteq Conn /\ WebConn \subseteq Conn
    /\ None \notin Conn
    /\ SendQ \in [Conn -> Nat] /\ RecvQ \in [Conn -> Nat] /\ Room \in Nat \ {0}
    /\ MaxLine \in Nat /\ MaxIn \in Nat /\ MaxTls \in Nat /\ MaxEof \in Nat

VARIABLES
    cl,    \* cl[k]: the Client, its LocalClient and its FDEntry
    peer,  \* peer[k]: the kernel's buffers, the TLS engine and the peer
    busy,  \* whose data is processed, None outside read_packet and process_clients
    spent  \* how much of the bounds on peers is used up

vars == <<cl, peer, busy, spent>>

Callback == {"NULL", "read_packet", "send_queued_cb"}

ErrorLine == 0  \* "ERROR :Closing Link"

ClientRec == [
    life : {"open", "exited", "freed"},  \* exited: on dead_list
    deadsock : BOOLEAN,                  \* CLIENT_FLAG_DEADSOCKET
    sendQ : Seq(0..MaxLine),
    recvQ : 0..MaxIn,
    rd : Callback, wr : Callback,        \* callbacks in fd_table
    lagged : BOOLEAN,                    \* fake_lag is 10 seconds ahead
    queued : 0..MaxLine]                 \* lines accepted so far

PeerRec == [
    out : Seq(0..MaxLine),               \* every line handed to the kernel
    unread : 0..Room,                    \* of these, the ones the peer has not read
    in : 0..MaxIn,                       \* lines in the kernel, from the peer
    tls : {"ok", "in", "inready", "out"},\* what the TLS engine must do first
    eof : BOOLEAN]                       \* the peer closed or the connection broke

Busy == {None} \cup
    [who : Conn, stage : {"recv", "packet", "queued"}, full : BOOLEAN]

Open(k) == cl[k].life = "open"

-----------------------------------------------------------------------------
(* Queues and handlers.  Each operator takes the client record, those that *)
(* write take the peer's too and give the pairs of records that may result *)

Pair(c, p) == [c |-> c, p |-> p]

\* dead_socket: both queues are dropped and no event is wanted any more; the
\* client itself is left for check_deadsockets.
DeadSocket(c) ==
    [c EXCEPT !.recvQ = 0, !.sendQ = <<>>, !.rd = "NULL", !.wr = "NULL", !.deadsock = TRUE]

\* Mutant: lines are still queued to a dead socket
SendBufToDead(k, c, line) ==
    IF c.life # "open" THEN c
    ELSE IF Len(c.sendQ) > SendQ[k] THEN DeadSocket(c)
    ELSE [c EXCEPT !.sendQ = Append(@, line), !.wr = "send_queued_cb"]

\* sendbufto_one, mark_data_to_send: the limit is checked before the line is
\* added, so the queue may end one line above it.
SendBuf(k, c, line) ==
    IF c.deadsock \/ c.life # "open" THEN c
    ELSE IF Len(c.sendQ) > SendQ[k] THEN DeadSocket(c)
    ELSE [c EXCEPT !.sendQ = Append(@, line), !.wr = "send_queued_cb"]

\* A line for client k; those dropped are not numbered
SendLine(k, c) ==
    LET d == SendBuf(k, c, c.queued + 1)
    IN  [d EXCEPT !.queued = IF Len(d.sendQ) > Len(c.sendQ) THEN @ + 1 ELSE @]

\* What a call of SSL_read or SSL_write achieves before its own work
TlsAdvance(p) ==
    [p EXCEPT !.tls = IF @ = "inready" \/ (@ = "out" /\ p.unread < Room) THEN "ok" ELSE @]

\* Mutant: the read handler is not restored after a write
WrittenNoRestore(c, p) ==
    LET left == Room - p.unread
        n == IF p.tls = "out" THEN 0 ELSE IF left < Len(c.sendQ) THEN left ELSE Len(c.sendQ)
    IN  Pair([c EXCEPT !.sendQ = SubSeq(@, n + 1, Len(@)),
                       !.wr = IF n = Len(c.sendQ) THEN "NULL" ELSE "send_queued_cb"],
             [p EXCEPT !.out = @ \o SubSeq(c.sendQ, 1, n), !.unread = @ + n])

\* deliver_it for the whole queue: as much as the kernel takes
Written(c, p) ==
    LET left == Room - p.unread
        n == IF p.tls = "out" THEN 0 ELSE IF left < Len(c.sendQ) THEN left ELSE Len(c.sendQ)
    IN  Pair([c EXCEPT !.sendQ = SubSeq(@, n + 1, Len(@)),
                       !.rd = "read_packet",
                       !.wr = IF n = Len(c.sendQ) THEN "NULL" ELSE "send_queued_cb"],
             [p EXCEPT !.out = @ \o SubSeq(c.sendQ, 1, n), !.unread = @ + n])

\* send_queued
SendQueued(c, p) ==
    IF c.deadsock THEN {Pair(c, p)}
    ELSE IF c.sendQ = <<>> THEN {Pair([c EXCEPT !.wr = "NULL"], p)}
    ELSE LET q == TlsAdvance(p)
         IN  {IF q.tls = "in" THEN Pair([c EXCEPT !.rd = "send_queued_cb", !.wr = "NULL"], q)
              ELSE Written(c, q)}
             \cup (IF p.eof THEN {Pair(DeadSocket(c), p)} ELSE {})

\* close_connection, after which exit_one_client puts the client on dead_list;
\* the descriptor is closed, and what the kernel had for it is gone
CloseConnection(c, p) ==
    {Pair([DeadSocket(r.c) EXCEPT !.life = "exited", !.lagged = FALSE],
          [r.p EXCEPT !.in = 0, !.unread = 0, !.tls = "ok", !.eof = FALSE]) :
        r \in SendQueued(c, p)}

\* exit_client of a local client: the ERROR, what can still be written, the end
ExitClient(k, c, p) == CloseConnection(SendBuf(k, c, ErrorLine), p)

\* Any set of clients may share a channel with the sender; MaxLine bounds it
Audience == SUBSET {j \in Conn : cl[j].queued < MaxLine}

\* A line for each client in to
Deliver(base, to) == [j \in Conn |-> IF j \in to THEN SendLine(j, base[j]) ELSE base[j]]

\* k exits, its record being base[k]; those who shared a channel get the QUIT
Exit(k, base) ==
    \E r \in ExitClient(k, base[k], peer[k]), to \in Audience :
        /\ cl' = Deliver([base EXCEPT ![k] = r.c], to \ {k})
        /\ peer' = [peer EXCEPT ![k] = r.p]

Update(k, r) == cl' = [cl EXCEPT ![k] = r.c] /\ peer' = [peer EXCEPT ![k] = r.p]

-----------------------------------------------------------------------------
(* The kernel, the TLS engines and the peers (external) *)

PeerSend(k) ==
    /\ spent.in < MaxIn /\ ~peer[k].eof /\ Open(k)
    /\ peer' = [peer EXCEPT ![k].in = @ + 1]
    /\ spent' = [spent EXCEPT !.in = @ + 1]
    /\ UNCHANGED <<cl, busy>>

PeerRead(k) ==
    /\ peer[k].unread > 0 /\ ~peer[k].eof
    /\ peer' = [peer EXCEPT ![k].unread = 0]
    /\ UNCHANGED <<cl, busy, spent>>

PeerClose(k) ==
    /\ spent.eof < MaxEof /\ ~peer[k].eof /\ Open(k)
    /\ peer' = [peer EXCEPT ![k].eof = TRUE]
    /\ spent' = [spent EXCEPT !.eof = @ + 1]
    /\ UNCHANGED <<cl, busy>>

\* A key update or renegotiation: the engine must first read or first write
TlsWant(k) ==
    /\ spent.tls < MaxTls /\ k \in TLSConn /\ Open(k) /\ peer[k].tls = "ok"
    /\ \E w \in {"in", "out"} : peer' = [peer EXCEPT ![k].tls = w]
    /\ spent' = [spent EXCEPT !.tls = @ + 1]
    /\ UNCHANGED <<cl, busy>>

\* The handshake record the engine waits for arrives
TlsPeer(k) ==
    /\ peer[k].tls = "in" /\ ~peer[k].eof
    /\ peer' = [peer EXCEPT ![k].tls = "inready"]
    /\ UNCHANGED <<cl, busy, spent>>

\* Time passes: fake_lag is no longer 10 seconds ahead
Unlag(k) ==
    /\ cl[k].lagged
    /\ cl' = [cl EXCEPT ![k].lagged = FALSE]
    /\ UNCHANGED <<peer, busy, spent>>

-----------------------------------------------------------------------------
(* Reading *)

\* Mutant: the data read is put into the queue twice
ReadSomeTwice(k, c, p) ==
    \E n \in 1..p.in, full \in BOOLEAN :
        /\ Update(k, Pair([c EXCEPT !.recvQ = @ + n + n], [p EXCEPT !.in = @ - n]))
        /\ busy' = [who |-> k, stage |-> "packet", full |-> full]

\* process_packet and the rest of the loop in read_packet follow
ReadSome(k, c, p) ==
    \E n \in 1..p.in, full \in BOOLEAN :
        /\ Update(k, Pair([c EXCEPT !.recvQ = @ + n],
                          [p EXCEPT !.in = @ - n]))
        /\ busy' = [who |-> k, stage |-> "packet", full |-> full]

\* recv or SSL_read and what read_packet does with its result: wait for
\* reading or for writing, exit, or process the data
Recv(k, c) ==
    LET p == TlsAdvance(peer[k])
    IN  \/ /\ p.tls = "in"
           /\ Update(k, Pair([c EXCEPT !.rd = "read_packet"], p)) /\ busy' = None
        \/ /\ p.tls = "out"
           /\ Update(k, Pair([c EXCEPT !.rd = "NULL", !.wr = "read_packet"], p)) /\ busy' = None
        \/ /\ p.tls = "ok" /\ p.in > 0
           /\ ReadSome(k, c, p)
        \/ /\ p.tls = "ok" /\ p.in = 0 /\ ~p.eof
           /\ Update(k, Pair([c EXCEPT !.rd = IF k \in TLSConn THEN "read_packet" ELSE @], p))
           /\ busy' = None
        \/ /\ p.eof
           /\ Exit(k, [cl EXCEPT ![k] = c]) /\ busy' = None

\* read_packet: the handlers are restored first, since an earlier call or
\* send_queued may have replaced them.
ReadPacket(k) ==
    IF cl[k].deadsock
    THEN /\ cl' = [cl EXCEPT ![k].rd = "NULL"]
         /\ UNCHANGED <<peer, busy>>
    ELSE Recv(k, [cl[k] EXCEPT !.rd = "read_packet",
                               !.wr = IF cl[k].sendQ = <<>> THEN "NULL" ELSE "send_queued_cb"])

\* send_queued_cb
SendQueuedCb(k) ==
    /\ \E r \in SendQueued(cl[k], peer[k]) : Update(k, r)
    /\ UNCHANGED busy

Run(k, callback) ==
    \/ callback = "read_packet" /\ ReadPacket(k)
    \/ callback = "send_queued_cb" /\ SendQueuedCb(k)

\* fd_select: epoll_wait is level triggered; EPOLLHUP and EPOLLERR count as both
Readable(k) ==
    /\ busy = None
    /\ peer[k].in > 0 \/ peer[k].eof \/ peer[k].tls = "inready"
    /\ Run(k, cl[k].rd)
    /\ UNCHANGED spent

Writable(k) ==
    /\ busy = None
    /\ peer[k].unread < Room \/ peer[k].eof
    /\ Run(k, cl[k].wr)
    /\ UNCHANGED spent

\* The loop of read_packet after a full buffer: it reads on, or yields when the
\* client took too much time
RecvMore(k) ==
    /\ busy # None /\ busy.who = k /\ busy.stage = "recv"
    /\ Recv(k, cl[k])
    /\ UNCHANGED spent

RecvYield(k) ==
    /\ busy # None /\ busy.who = k /\ busy.stage = "recv" /\ k \notin ServerConn
    /\ busy' = None
    /\ UNCHANGED <<cl, peer, spent>>

-----------------------------------------------------------------------------
(* Parsing *)

\* Data waits while the client has fake lag; servers have none
Parsing(k) ==
    /\ busy # None /\ busy.who = k /\ busy.stage \in {"packet", "queued"}
    /\ cl[k].recvQ > 0 /\ ~cl[k].lagged

\* One line is taken from the queue and parse_addlag may lag the client
Take(k) ==
    {[cl[k] EXCEPT !.recvQ = @ - 1, !.lagged = l] :
        l \in IF k \in ServerConn THEN {FALSE} ELSE BOOLEAN}

\* parse ignores the line, which read_packet read after the socket died
ParseDead(k) ==
    /\ Parsing(k) /\ cl[k].deadsock
    /\ cl' = [cl EXCEPT ![k].recvQ = @ - 1]
    /\ UNCHANGED <<peer, busy, spent>>

\* A command that sends to some clients, the sender perhaps among them
ParseSend(k) ==
    /\ Parsing(k) /\ ~cl[k].deadsock
    /\ \E c \in Take(k), to \in Audience :
          cl' = Deliver([cl EXCEPT ![k] = c], to)
    /\ UNCHANGED <<peer, busy, spent>>

\* QUIT, or whatever makes the client exit
ParseQuit(k) ==
    /\ Parsing(k) /\ ~cl[k].deadsock
    /\ \E c \in Take(k) : Exit(k, [cl EXCEPT ![k] = c])
    /\ busy' = None
    /\ UNCHANGED spent

\* KILL of another client
ParseKill(k, j) ==
    /\ j # k /\ Open(j)
    /\ Parsing(k) /\ ~cl[k].deadsock
    /\ \E c \in Take(k) : Exit(j, [cl EXCEPT ![k] = c])
    /\ UNCHANGED <<busy, spent>>

\* The end of parse_client_queued; after it process_packet exits a user whose
\* queue is above class::recvq, or kills the socket when called for a frame
Flooding(k) == busy.stage = "packet" /\ k \notin ServerConn /\ cl[k].recvQ > RecvQ[k]

ParseEnd(k) ==
    /\ busy # None /\ busy.who = k /\ busy.stage \in {"packet", "queued"}
    /\ cl[k].recvQ = 0 \/ cl[k].lagged
    /\ \/ /\ Flooding(k) /\ k \notin WebConn
          /\ Exit(k, cl) /\ busy' = None
       \/ /\ Flooding(k) /\ k \in WebConn
          /\ cl' = [cl EXCEPT ![k] = DeadSocket(@)] /\ busy' = None
          /\ UNCHANGED peer
       \/ /\ ~Flooding(k)
          /\ busy' = IF busy.stage = "packet" /\ busy.full
                     THEN [busy EXCEPT !.stage = "recv", !.full = FALSE] ELSE None
          /\ UNCHANGED <<cl, peer>>
    /\ UNCHANGED spent

\* process_clients: data that was left because of fake lag; nothing happens
\* while the lag lasts
ProcessClients(k) ==
    /\ busy = None
    /\ Open(k) /\ cl[k].recvQ > 0 /\ ~cl[k].lagged
    /\ busy' = [who |-> k, stage |-> "queued", full |-> FALSE]
    /\ UNCHANGED <<cl, peer, spent>>

-----------------------------------------------------------------------------
(* Events *)

\* Mutant: a TLS connection is given more time again and again
CheckDeadSocketsPatient(k) ==
    /\ busy = None
    /\ Open(k) /\ cl[k].deadsock /\ k \notin TLSConn
    /\ Exit(k, [cl EXCEPT ![k].deadsock = FALSE])
    /\ UNCHANGED <<busy, spent>>

\* check_deadsockets: the flag is cleared so that the ERROR is sent
CheckDeadSockets(k) ==
    /\ busy = None
    /\ Open(k) /\ cl[k].deadsock
    /\ Exit(k, [cl EXCEPT ![k].deadsock = FALSE])
    /\ UNCHANGED <<busy, spent>>

\* check_deadsockets, last loop
FreeDead(k) ==
    /\ busy = None
    /\ cl[k].life = "exited"
    /\ cl' = [cl EXCEPT ![k].life = "freed"]
    /\ UNCHANGED <<peer, busy, spent>>

\* check_pings, handshake_timeout, a ban check: an event ends the connection,
\* dead socket or not
EventExit(k) ==
    /\ busy = None
    /\ Open(k)
    /\ Exit(k, cl)
    /\ UNCHANGED <<busy, spent>>

-----------------------------------------------------------------------------
\* Registered clients, some of them lagged by what they sent before
Init ==
    /\ cl \in [Conn ->
                {[life |-> "open", deadsock |-> FALSE, sendQ |-> <<>>, recvQ |-> 0,
                  rd |-> "read_packet", wr |-> "NULL", lagged |-> l, queued |-> 0] :
                    l \in BOOLEAN}]
    /\ \A k \in ServerConn : ~cl[k].lagged
    /\ peer = [k \in Conn |->
                [out |-> <<>>, unread |-> 0, in |-> 0, tls |-> "ok", eof |-> FALSE]]
    /\ busy = None
    /\ spent = [in |-> 0, tls |-> 0, eof |-> 0]

\* The steps that go on with the data of a client
Process(k) ==
    \/ RecvMore(k) \/ RecvYield(k)
    \/ ParseDead(k) \/ ParseSend(k) \/ ParseQuit(k) \/ ParseEnd(k)
    \/ \E j \in Conn : ParseKill(k, j)

Next ==
    \/ \E k \in Conn :
          \/ PeerSend(k) \/ PeerRead(k) \/ PeerClose(k) \/ TlsWant(k) \/ TlsPeer(k)
          \/ Readable(k) \/ Writable(k) \/ Process(k) \/ ProcessClients(k)
          \/ CheckDeadSockets(k) \/ FreeDead(k) \/ EventExit(k) \/ Unlag(k)

Spec == Init /\ [][Next]_vars

(***************************************************************************)
(* Fairness: the main loop serves every descriptor that is ready, goes on  *)
(* with the data it reads, looks at what fake lag left, and runs           *)
(* check_deadsockets every second; fake lag ends as time passes.  A peer   *)
(* reads what it is sent and answers a TLS handshake unless its connection  *)
(* breaks.  No ping timeout is assumed: none covers for a lost event.      *)
(***************************************************************************)
FairSpec ==
    /\ Spec
    /\ \A k \in Conn :
          /\ WF_vars(Readable(k)) /\ WF_vars(Writable(k)) /\ WF_vars(Process(k))
          /\ WF_vars(CheckDeadSockets(k)) /\ WF_vars(FreeDead(k))
          /\ WF_vars(ProcessClients(k)) /\ WF_vars(Unlag(k))
          /\ WF_vars(PeerRead(k)) /\ WF_vars(TlsPeer(k))

-----------------------------------------------------------------------------
(* Properties *)

\* Types of the variables; the counters respect their bounds.
TypeOK ==
    /\ cl \in [Conn -> ClientRec]
    /\ peer \in [Conn -> PeerRec]
    /\ busy \in Busy
    /\ spent \in [in : 0..MaxIn, tls : 0..MaxTls, eof : 0..MaxEof]

\* No wakeup is lost.  Whatever read_packet, send_queued and mark_data_to_send
\* did to each other's handlers, an open connection that is not condemned is
\* still read, and its queue is still written.
Wakeable ==
    \A k \in Conn : Open(k) /\ ~cl[k].deadsock =>
        /\ \/ "read_packet" \in {cl[k].rd, cl[k].wr}
           \/ "send_queued_cb" \in {cl[k].rd, cl[k].wr} /\ cl[k].sendQ # <<>>
        /\ cl[k].sendQ # <<>> => cl[k].wr # "NULL" \/ cl[k].rd = "send_queued_cb"

Phase(c) == IF c.life # "open" THEN "closed" ELSE IF c.deadsock THEN "condemned" ELSE "open"

Abstract == INSTANCE Stream WITH
    phase <- [k \in Conn |-> Phase(cl[k])],
    queue <- [k \in Conn |-> cl[k].sendQ],
    sent <- [k \in Conn |-> peer[k].out]

\* Every connection keeps the promise of Stream: no line is lost, repeated or
\* reordered by partial writes, TLS or limits, nothing is written to a dead
\* socket, and the ERROR is the last line.
KeepsPromise == Abstract!Spec

\* When the peers have stopped sending, all that was queued is written, all they
\* sent is read, all that fake lag left is parsed, or the connection ended; and
\* whoever exited, a dead socket too, is freed.
Progress ==
    <>[](\A k \in Conn :
            /\ cl[k].sendQ = <<>> /\ cl[k].recvQ = 0 /\ peer[k].in = 0
            /\ cl[k].deadsock \/ cl[k].life # "open" => cl[k].life = "freed")
=============================================================================
