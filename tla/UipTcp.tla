------------------------------- MODULE UipTcp -------------------------------
(***************************************************************************)
(* TCP of the vendored stack, firmware/uip/uip.c under UIP_TCP and         *)
(* UIP_ACTIVE_OPEN: the client opens one connection to a port the server   *)
(* listens on; both ends run uip_process.  Each end has one connection     *)
(* slot.  At most one segment is outstanding (len # 0), whatever its kind. *)
(*                                                                         *)
(* The cable loses segments but keeps their order; a segment comes twice   *)
(* only when it was sent twice.  A timer that counts down (the             *)
(* retransmission of uip.c:754-777, the wait of 744-749) is an action that *)
(* may happen at any time and, under fairness, must.                       *)
(*                                                                         *)
(* The application is any that keeps uip.h's rule to hand over the same    *)
(* data when asked to retransmit.  It may close with data outstanding: the *)
(* FIN then takes the number of the data, which nobody sends again.  Both  *)
(* ends offer a window of MSS or of zero, so mss always equals initialmss  *)
(* (uip.c:1637-1642).                                                      *)
(***************************************************************************)
EXTENDS Integers, Sequences, FiniteSetsExt

CONSTANTS
    Client, Server,
    Length,        \* bytes each end's application has to send
    Mss,           \* UIP_TCP_MSS
    SeqRange,      \* range of the sequence numbers, 2^32
    Iss,           \* initial sequence numbers an end may use
    MaxRtx, MaxSynRtx,   \* UIP_MAXRTX, UIP_MAXSYNRTX
    Stops,         \* ends whose application may call uip_stop
    MaxFlight      \* bound: segments in the network towards one end

Ends == {Client, Server}

ASSUME TcpAssumption ==
    /\ Client # Server
    /\ Length \in [Ends -> Nat] /\ Mss \in Nat \ {0}
    /\ SeqRange \in Nat /\ Mss < SeqRange /\ Iss \subseteq 0..(SeqRange - 1)
    /\ MaxRtx \in Nat /\ MaxSynRtx \in Nat /\ Stops \subseteq Ends
    /\ MaxFlight \in Nat

Peer(e) == IF e = Client THEN Server ELSE Client
\* The bytes are numbered, so that a property can tell one from another.
Stream(e) == [i \in 1..Length[e] |-> i]

VARIABLES
    conn,          \* uip_conns: the slot of each end
    opened,        \* the client has called uip_connect
    listening,     \* the server's port is in uip_listenports
    net,           \* segments on their way to each end
    acked,         \* bytes the application knows to be acknowledged
    got,           \* what the application was handed in the current connection
    most           \* the longest got so far

vars == <<conn, opened, listening, net, acked, got, most>>
env == <<opened, listening>>

\* uip_add32
Add(a, n) == (a + n) % SeqRange
Outstanding(c) == c.len # 0

\* The fields of a closed slot are written before they are read.
Closed == [st |-> "CLOSED", stopped |-> FALSE, snd |-> 0, rcv |-> 0, len |-> 0, nrtx |-> 0]

Init ==
    /\ conn = [e \in Ends |-> Closed]
    /\ opened = FALSE /\ listening = TRUE
    /\ net = [e \in Ends |-> <<>>]
    /\ acked = [e \in Ends |-> 0] /\ got = [e \in Ends |-> <<>>]
    /\ most = [e \in Ends |-> 0]

-----------------------------------------------------------------------------
(* Segments, as tcp_send fills them in.                                    *)

Segment(c, flags, data) == [flags |-> flags, seq |-> c.snd, ack |-> c.rcv, data |-> data]
Syn(c)    == Segment(c, {"SYN"}, <<>>)
SynAck(c) == Segment(c, {"SYN", "ACK"}, <<>>)
Ack(c)    == Segment(c, {"ACK"}, <<>>)
FinAck(c) == Segment(c, {"FIN", "ACK"}, <<>>)
\* Nobody looks at the numbers of a reset.
Rst == [flags |-> {"RST", "ACK"}, seq |-> 0, ack |-> 0, data |-> <<>>]
Has(s, f) == f \in s.flags

\* What the application hands over: all it has left, of which the stack
\* takes n bytes.
Left(e) == Length[e] - acked'[e]
Data(e, c, n) == Segment(c, {"ACK", "PSH"}, SubSeq(Stream(e), acked'[e] + 1, acked'[e] + n))

\* The segments `rest` are left on the way to e, and those of `out`, one or
\* none, are put on the way to its peer.  Any may be lost, and is when
\* MaxFlight are on their way.
Carry(e, rest, out) ==
    LET there == net[Peer(e)]
    IN \E arrives \in {there} \cup (IF Len(there) < MaxFlight THEN {there \o out} ELSE {}) :
           net' = [net EXCEPT ![e] = rest, ![Peer(e)] = arrives]

Finish(e, rest, c, out) == conn' = [conn EXCEPT ![e] = c] /\ Carry(e, rest, out)

NoCall == UNCHANGED <<acked, got, most>>

-----------------------------------------------------------------------------
(* The application is called and the stack acts on its answer: appsend.    *)

\* No more than mss; what is outstanding is sent again as it was.
SendLength(e, c) == IF Outstanding(c) THEN c.len ELSE Min({Left(e), Mss})

AppSend(e, rest, c, newdata) ==
    \/ Finish(e, rest, Closed, <<Rst>>)                                  \* uip_abort
    \/ Finish(e, rest,                                                  \* uip_close
              [c EXCEPT !.st = "FIN_WAIT_1", !.stopped = FALSE, !.len = 1, !.nrtx = 0],
              <<FinAck(c)>>)
    \/ /\ Left(e) > 0                                                  \* uip_send
       /\ LET n == SendLength(e, c)
          IN Finish(e, rest, [c EXCEPT !.len = n, !.nrtx = 0], <<Data(e, c, n)>>)
    \/ Finish(e, rest, [c EXCEPT !.nrtx = 0], IF newdata THEN <<Ack(c)>> ELSE <<>>)

\* uip_stop, when data comes in.
MayStop(e, c, newdata) ==
    {c} \cup IF e \in Stops /\ newdata THEN {[c EXCEPT !.stopped = TRUE]} ELSE {}

\* The application is handed `data` and told that n of its bytes have been
\* acknowledged.
Call(e, data, n) ==
    /\ acked' = [acked EXCEPT ![e] = @ + n]
    /\ got' = [got EXCEPT ![e] = @ \o data]
    /\ most' = [most EXCEPT ![e] = Max({@, Len(got[e]) + Len(data)})]

-----------------------------------------------------------------------------
(* Opening                                                                 *)

\* The SYN goes out at the next timer.
uip_connect ==
    /\ ~opened
    /\ opened' = TRUE
    /\ \E i \in Iss : conn' = [conn EXCEPT ![Client] =
            [Closed EXCEPT !.st = "SYN_SENT", !.snd = i, !.len = 1]]
    /\ UNCHANGED <<listening, net, acked, got, most>>

uip_unlisten ==
    /\ listening /\ listening' = FALSE
    /\ UNCHANGED <<conn, opened, net, acked, got, most>>

\* found_listen: a SYN for a listening port takes the slot.
Accept(s) ==
    \E i \in Iss :
        LET c == [Closed EXCEPT !.st = "SYN_RCVD", !.snd = i, !.len = 1, !.rcv = Add(s.seq, 1)]
        IN /\ Finish(Server, Tail(net[Server]), c, <<SynAck(c)>>)
           /\ got' = [got EXCEPT ![Server] = <<>>]
           /\ UNCHANGED <<acked, most>>

IsSyn(s) == s.flags = {"SYN"}

\* No connection: a SYN is accepted, anything else is reset, a reset dropped.
NoConnection(e, s) ==
    /\ conn[e].st = "CLOSED"
    /\ \/ IsSyn(s) /\ e = Server /\ listening /\ Accept(s)
       \/ /\ ~(IsSyn(s) /\ e = Server /\ listening) /\ NoCall
          /\ Finish(e, Tail(net[e]), conn[e], IF Has(s, "RST") THEN <<>> ELSE <<Rst>>)

-----------------------------------------------------------------------------
(* found: a segment for a connection.  c is the slot after the             *)
(* acknowledgement was taken, n what it acknowledged.                      *)

\* Mutant: the sequence number of what arrives is not looked at.
Unexpected_Never(c, s) == FALSE
Unexpected(c, s) ==
    /\ ~(c.st = "SYN_SENT" /\ s.flags = {"SYN", "ACK"})
    /\ s.data # <<>> \/ Has(s, "SYN") \/ Has(s, "FIN")
    /\ s.seq # c.rcv

\* UIP_ACKDATA
Acks(c, s) == Has(s, "ACK") /\ Outstanding(c) /\ s.ack = Add(c.snd, c.len)
\* Mutant: snd_nxt stays behind.
Taken_KeepsNext(c, s) == IF Acks(c, s) THEN [c EXCEPT !.len = 0] ELSE c
Taken(c, s) == IF Acks(c, s) THEN [c EXCEPT !.snd = s.ack, !.len = 0] ELSE c

\* uip_add_rcv_nxt
AddRcvNxt(c, n) == [c EXCEPT !.rcv = Add(@, n)]

SynRcvd(e, s, c) ==
    /\ c.st = "SYN_RCVD"
    /\ IF Acks(conn[e], s)
       THEN LET est == AddRcvNxt([c EXCEPT !.st = "ESTABLISHED"], Len(s.data))
            IN /\ Call(e, s.data, 0)
               /\ AppSend(e, Tail(net[e]), est, s.data # <<>>)
       ELSE Finish(e, Tail(net[e]), c, <<>>) /\ NoCall

\* Anything but the SYNACK ends the attempt.
SynSent(e, s, c) ==
    /\ c.st = "SYN_SENT"
    /\ IF Acks(conn[e], s) /\ s.flags = {"SYN", "ACK"}
       THEN /\ Call(e, <<>>, 0)
            /\ AppSend(e, Tail(net[e]), [c EXCEPT !.st = "ESTABLISHED", !.rcv = Add(s.seq, 1)], TRUE)
       ELSE Finish(e, Tail(net[e]), Closed, <<Rst>>) /\ NoCall

Established(e, s, c) ==
    LET n == IF Acks(conn[e], s) THEN conn[e].len ELSE 0
        data == IF c.stopped THEN <<>> ELSE s.data
        c2 == AddRcvNxt(c, Len(data))
    IN /\ c.st = "ESTABLISHED"
       /\ \/ /\ Has(s, "FIN") /\ ~c.stopped
             /\ \/ Outstanding(c) /\ Finish(e, Tail(net[e]), c, <<>>) /\ NoCall
                \/ /\ ~Outstanding(c)
                   /\ Call(e, s.data, n)
                   /\ LET last == [AddRcvNxt(c2, 1) EXCEPT !.st = "LAST_ACK", !.len = 1, !.nrtx = 0]
                      IN Finish(e, Tail(net[e]), last, <<FinAck(last)>>)
          \/ /\ ~(Has(s, "FIN") /\ ~c.stopped)
             /\ IF data # <<>> \/ n > 0
                THEN /\ Call(e, data, n)
                     /\ \E c3 \in MayStop(e, c2, data # <<>>) : AppSend(e, Tail(net[e]), c3, data # <<>>)
                ELSE Finish(e, Tail(net[e]), c, <<>>) /\ NoCall

LastAck(e, s, c) ==
    /\ c.st = "LAST_ACK"
    /\ Finish(e, Tail(net[e]), IF Acks(conn[e], s) THEN Closed ELSE c, <<>>) /\ NoCall

\* Data that comes after the close is acknowledged and thrown away.
FinWait(e, s, c) ==
    LET c2 == AddRcvNxt(c, Len(s.data))
        next == IF c.st = "FIN_WAIT_1" /\ ~Acks(conn[e], s) THEN "CLOSING" ELSE "TIME_WAIT"
        fin == [AddRcvNxt(c2, 1) EXCEPT !.st = next]
        acks == c.st = "FIN_WAIT_1" /\ Acks(conn[e], s)
    IN /\ c.st \in {"FIN_WAIT_1", "FIN_WAIT_2"} /\ NoCall
       /\ \/ Has(s, "FIN") /\ Finish(e, Tail(net[e]), fin, <<Ack(fin)>>)
          \/ ~Has(s, "FIN") /\ acks /\ Finish(e, Tail(net[e]), [c2 EXCEPT !.st = "FIN_WAIT_2"], <<>>)
          \/ ~Has(s, "FIN") /\ ~acks
                /\ Finish(e, Tail(net[e]), c2, IF s.data # <<>> THEN <<Ack(c2)>> ELSE <<>>)

TimeWait(e, s, c) == c.st = "TIME_WAIT" /\ Finish(e, Tail(net[e]), c, <<Ack(c)>>) /\ NoCall

Closing(e, s, c) ==
    /\ c.st = "CLOSING" /\ NoCall
    /\ Finish(e, Tail(net[e]), IF Acks(conn[e], s) THEN [c EXCEPT !.st = "TIME_WAIT"] ELSE c, <<>>)

\* tcp_input
Found(e, s) ==
    LET c == Taken(conn[e], s)
    IN /\ conn[e].st # "CLOSED"
       /\ \/ Has(s, "RST") /\ Finish(e, Tail(net[e]), Closed, <<>>) /\ NoCall
          \/ /\ ~Has(s, "RST") /\ Unexpected(conn[e], s)
             /\ Finish(e, Tail(net[e]), conn[e], <<Ack(conn[e])>>) /\ NoCall
          \/ /\ ~Has(s, "RST") /\ ~Unexpected(conn[e], s)
             /\ \/ SynRcvd(e, s, c) \/ SynSent(e, s, c) \/ Established(e, s, c)
                \/ LastAck(e, s, c) \/ FinWait(e, s, c) \/ TimeWait(e, s, c)
                \/ Closing(e, s, c)

Receive(e) ==
    /\ net[e] # <<>>
    /\ NoConnection(e, Head(net[e])) \/ Found(e, Head(net[e]))
    /\ UNCHANGED env

-----------------------------------------------------------------------------
(* uip_periodic: UIP_TIMER                                                 *)

\* Mutant: the limit on retransmissions is forgotten.
GivesUp_Never(c) == FALSE
GivesUp(c) ==
    \/ c.nrtx = MaxRtx
    \/ c.st \in {"SYN_SENT", "SYN_RCVD"} /\ ~c.stopped /\ c.nrtx = MaxSynRtx

Again(c) == [c EXCEPT !.nrtx = @ + 1]

\* The timer of an outstanding segment has run down.
Retransmit(e) ==
    LET c == conn[e]
    IN /\ Outstanding(c)
       /\ UNCHANGED env /\ NoCall
       /\ \/ GivesUp(c) /\ Finish(e, net[e], Closed, <<Rst>>)
          \/ ~GivesUp(c) /\ c.st = "SYN_RCVD" /\ Finish(e, net[e], Again(c), <<SynAck(c)>>)
          \/ ~GivesUp(c) /\ c.st = "SYN_SENT" /\ Finish(e, net[e], Again(c), <<Syn(c)>>)
          \/ ~GivesUp(c) /\ c.st = "ESTABLISHED" /\ Finish(e, net[e], Again(c), <<Data(e, c, c.len)>>)
          \/ ~GivesUp(c) /\ c.st \in {"FIN_WAIT_1", "CLOSING", "LAST_ACK"}
                /\ Finish(e, net[e], Again(c), <<FinAck(c)>>)

\* Mutant: nothing ends the wait for a FIN that never comes.
Waits_ForFin(c) == c.st = "TIME_WAIT"
\* The end waits for late segments, or for the peer's FIN.
Waits(c) == c.st \in {"TIME_WAIT", "FIN_WAIT_2"}

WaitOver(e) ==
    /\ Waits(conn[e])
    /\ Finish(e, net[e], Closed, <<>>) /\ NoCall /\ UNCHANGED env

\* Nothing outstanding: the application is asked, and may call uip_restart.
Poll(e) ==
    /\ conn[e].st = "ESTABLISHED" /\ ~Outstanding(conn[e])
    /\ NoCall /\ UNCHANGED env
    /\ \/ AppSend(e, net[e], conn[e], FALSE)
       \/ conn[e].stopped /\ AppSend(e, net[e], [conn[e] EXCEPT !.stopped = FALSE], TRUE)

Next ==
    \/ uip_connect \/ uip_unlisten
    \/ \E e \in Ends : Receive(e) \/ Retransmit(e) \/ WaitOver(e) \/ Poll(e)

Spec == Init /\ [][Next]_vars

\* The periodic timer runs every connection; frames are taken from the wire.
Fairness == \A e \in Ends : WF_vars(Receive(e)) /\ WF_vars(Retransmit(e)) /\ WF_vars(WaitOver(e))

FairSpec == Spec /\ Fairness

-----------------------------------------------------------------------------

States == {"CLOSED", "SYN_SENT", "SYN_RCVD", "ESTABLISHED", "FIN_WAIT_1", "FIN_WAIT_2",
           "CLOSING", "TIME_WAIT", "LAST_ACK"}

\* Every field keeps its type.
TypeOK ==
    /\ conn \in [Ends -> [st : States, stopped : BOOLEAN, snd : 0..(SeqRange - 1),
                          rcv : 0..(SeqRange - 1), len : 0..Max({1, Mss}), nrtx : 0..Max({MaxRtx, MaxSynRtx})]]
    /\ opened \in BOOLEAN /\ listening \in BOOLEAN
    /\ \A e \in Ends : /\ acked[e] \in 0..Length[e]
                       /\ got[e] \in Seq(1..Length[Peer(e)])
                       /\ most[e] \in Nat
                       /\ Len(net[e]) <= MaxFlight

\* Both ends agree where they are: what one expects next is what the other
\* has outstanding or will send next (uip.c:1423-1473).
InStep ==
    (\A e \in Ends : conn[e].st = "ESTABLISHED")
        => \A e \in Ends : conn[Peer(e)].rcv \in {conn[e].snd, Add(conn[e].snd, conn[e].len)}

\* The applications get what ReliableStream promises: bytes in order, none
\* twice, and no acknowledgement for a byte that was not handed over, through
\* loss, retransmission, reset, reopening and every way of closing
\* (uip.c:1398-1803).
Promise == INSTANCE ReliableStream WITH
    open <- [e \in Ends |-> conn[e].st \in {"SYN_SENT", "SYN_RCVD", "ESTABLISHED"}]
StreamKept == Promise!Spec

\* An attempt to connect ends with a SYNACK, a reset or the last SYN: the
\* server in SYN_RCVD answers for "the SYNACK that we sent earlier"
\* (uip.c:782-784).
OpensDespiteLoss ==
    [][conn[Client].st = "SYN_SENT" /\ conn'[Client].st = "CLOSED"
        => GivesUp(conn[Client]) \/ (net[Client] # <<>> /\ Head(net[Client]).flags # {"ACK"})]_vars

\* Something is outstanding, or the slot waits out a close.
Busy(e) == Outstanding(conn[e]) \/ conn[e].st \in {"FIN_WAIT_2", "TIME_WAIT"}

\* Whatever was opened, sent or closed is acknowledged or given up, and no
\* slot is held for ever by a close (uip.c:744-812).
NeverStuck == \A e \in Ends : Busy(e) ~> ~Busy(e)

=============================================================================
