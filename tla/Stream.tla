------------------------------- MODULE Stream -------------------------------
(***************************************************************************)
(* What a connection promises to the code that sends lines to it, without  *)
(* sockets, TLS, event handlers or limits: lines are written in the order  *)
(* they were queued, each once, none skipped, until the connection is      *)
(* condemned or closed.  Then what was not written is dropped, and at most *)
(* one more line, the ERROR that says why, is written before the end.      *)
(***************************************************************************)
EXTENDS Naturals, Sequences

CONSTANT Conn

VARIABLES
    phase,  \* "open", "condemned" (a dead socket) or "closed"
    queue,  \* lines accepted and not written yet
    sent    \* lines written

vars == <<phase, queue, sent>>

ErrorLine == 0

\* The number of the next line: lines are numbered as they are accepted
NextLine(k) == Len(sent[k]) + Len(queue[k]) + 1

Init ==
    /\ phase = [k \in Conn |-> "open"]
    /\ queue = [k \in Conn |-> <<>>]
    /\ sent = [k \in Conn |-> <<>>]

Stay(k) == phase'[k] = phase[k] /\ queue'[k] = queue[k] /\ sent'[k] = sent[k]

Accept(k) ==
    /\ phase[k] = "open" /\ phase'[k] = "open"
    /\ queue'[k] = Append(queue[k], NextLine(k))
    /\ sent'[k] = sent[k]

Write(k) ==
    /\ phase[k] = "open" /\ phase'[k] = "open"
    /\ sent'[k] \o queue'[k] = sent[k] \o queue[k]
    /\ Len(sent'[k]) > Len(sent[k])

Condemn(k) ==
    /\ phase[k] = "open" /\ phase'[k] = "condemned"
    /\ queue'[k] = <<>>
    /\ sent'[k] = sent[k]

Close(k) ==
    /\ phase[k] # "closed" /\ phase'[k] = "closed"
    /\ queue'[k] = <<>>
    /\ \E n \in 0..(Len(queue[k]) + 1) :
          sent'[k] = sent[k] \o SubSeq(Append(queue[k], ErrorLine), 1, n)

\* One step of the server may touch several connections
Next == \A k \in Conn : Stay(k) \/ Accept(k) \/ Write(k) \/ Condemn(k) \/ Close(k)

Spec == Init /\ [][Next]_vars
=============================================================================
