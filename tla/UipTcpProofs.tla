---------------------------- MODULE UipTcpProofs ----------------------------
(***************************************************************************)
(* TCP of firmware/uip/uip.c, for streams, segments and sequence numbers   *)
(* of any size and any number of segments in the network: its types, the   *)
(* numbers two open ends have of each other, and that it implements        *)
(* ReliableStream.                                                         *)
(***************************************************************************)
EXTENDS UipTcp, SequenceTheorems, TLAPS

\* A number below twice the modulus wraps at most once.
LEMMA WrapsOnce ==
    ASSUME NEW b \in Nat \ {0}, NEW n \in 0..(2 * b - 1)
    PROVE  (n >= b => n % b = n - b) /\ (n < b => n % b = n)
<1>1. CASE n >= b
  BY <1>1
<1>2. CASE n < b
  BY <1>2
<1> QED
  BY <1>1, <1>2

-----------------------------------------------------------------------------
(* Types, and what an end may do in one step                               *)

Numbers == 0..(SeqRange - 1)
Flags == {"SYN", "ACK", "FIN", "RST", "PSH"}
Live == {"SYN_SENT", "SYN_RCVD", "ESTABLISHED"}
Slots == [st : States, stopped : BOOLEAN, snd : Numbers, rcv : Numbers,
          len : 0..Mss, nrtx : 0..MaxRtx]
Segments == [flags : SUBSET Flags, seq : Numbers, ack : Numbers, data : Seq(Nat)]
Carries(s) == s.data # <<>>
\* Bytes of e's stream, at most mss of them.
Fits(e, data) == data \in Seq(1..Length[e]) /\ Len(data) <= Mss

TypeInv ==
    /\ conn \in [Ends -> Slots] /\ opened \in BOOLEAN /\ listening \in BOOLEAN
    /\ net \in [Ends -> Seq(Segments)]
    /\ acked \in [Ends -> Nat] /\ got \in [Ends -> Seq(Nat)] /\ most \in [Ends -> Nat]
    /\ conn[Client].st # "SYN_RCVD" /\ conn[Server].st # "SYN_SENT"
    /\ \A e \in Ends :
          /\ Len(net[e]) <= MaxFlight
          /\ \A i \in DOMAIN net[e] : Fits(Peer(e), net[e][i].data)
          /\ acked[e] <= Length[e] /\ got[e] \in Seq(1..Length[Peer(e)])
          /\ conn[e].st = "ESTABLISHED" => acked[e] + conn[e].len <= Length[e]

\* Nothing was sent before the client opens.
Unopened ==
    ~opened => \A e \in Ends : /\ conn[e] = Closed /\ net[e] = <<>>
                               /\ got[e] = <<>> /\ acked[e] = 0

LEMMA TwoEnds ==
    /\ Client \in Ends /\ Server \in Ends /\ Client # Server
    /\ Peer(Client) = Server /\ Peer(Server) = Client
    /\ \A e \in Ends : /\ Peer(e) \in Ends /\ Peer(e) # e /\ Peer(Peer(e)) = e
                       /\ Ends = {e, Peer(e)}
  BY TcpAssumption DEF Ends, Peer

LEMMA Sizes ==
    /\ Mss \in Nat /\ 1 <= Mss /\ SeqRange \in Nat /\ Mss < SeqRange /\ Iss \subseteq Numbers
    /\ MaxRtx \in Nat /\ MaxFlight \in Nat /\ 0 \in Numbers
    /\ \A e \in Ends : Length[e] \in Nat
  BY TcpAssumption DEF Numbers

\* What uip_add32 does to a sequence number (uip.c:275-308).
LEMMA Adding ==
    /\ \A a \in Numbers, n \in Nat : Add(a, n) \in Numbers
    /\ \A a \in Numbers : Add(a, 0) = a
    /\ \A a \in Numbers, n \in 1..Mss : Add(a, n) # a
<1>1. SeqRange \in Nat \ {0}
  BY Sizes
<1>2. \A a \in Numbers, n \in Nat : Add(a, n) \in Numbers
  BY <1>1 DEF Add, Numbers
<1>3. \A a \in Numbers : Add(a, 0) = a
  BY <1>1 DEF Add, Numbers
<1>4. ASSUME NEW a \in Numbers, NEW n \in 1..Mss PROVE Add(a, n) # a
  <2>1. a \in 0..(SeqRange - 1) /\ n \in 1..(SeqRange - 1)
    BY Sizes DEF Numbers
  <2>2. CASE a + n < SeqRange
    BY <1>1, <2>1, <2>2 DEF Add
  <2>3. CASE a + n >= SeqRange
    <3>1. (a + n) % SeqRange = (a + n) - SeqRange
      <4>1. a + n \in 0..(2 * SeqRange - 1)
        BY <1>1, <2>1
      <4>2. \A m \in 0..(2 * SeqRange - 1) : m >= SeqRange => m % SeqRange = m - SeqRange
        BY <1>1, WrapsOnce, Zenon
      <4> QED
        BY <2>3, <4>1, <4>2, Zenon
    <3> QED
      BY <1>1, <2>1, <3>1 DEF Add
  <2> QED
    BY <1>1, <2>1, <2>2, <2>3
<1> QED
  BY <1>2, <1>3, <1>4

\* n bytes of a stream, after the first k.
Slice(k, n) == [i \in 1..n |-> k + i]

LEMMA Slices ==
    ASSUME NEW k \in Nat, NEW n \in Nat
    PROVE  /\ Slice(k, n) \in Seq(Nat) /\ Len(Slice(k, n)) = n
           /\ \A m \in Nat : k + n <= m => Slice(k, n) \in Seq(1..m)
           /\ n = 0 => Slice(k, n) = <<>>
<1>1. \A i \in 1..n : k + i \in Nat
  OBVIOUS
<1>2. Slice(k, n) \in Seq(Nat)
  BY <1>1 DEF Slice
<1>3. DOMAIN Slice(k, n) = 1..n
  BY DEF Slice
<1>4. Len(Slice(k, n)) = n
  BY <1>2, <1>3, LenProperties
<1>5. ASSUME NEW m \in Nat, k + n <= m PROVE Slice(k, n) \in Seq(1..m)
  <2>1. \A i \in 1..n : k + i \in 1..m
    BY <1>5
  <2> QED
    BY <2>1 DEF Slice
<1>6. n = 0 => Slice(k, n) = <<>>
  BY <1>2, <1>4, EmptySeq
<1> QED
  BY <1>2, <1>4, <1>5, <1>6

\* The segment at the head may be taken, and at most one is sent.
Took(e, rest) == net[e] # <<>> /\ rest = Tail(net[e])
Rest(e, rest) == rest = net[e] \/ Took(e, rest)
OneAtMost(out) == out = <<>> \/ \E m \in Segments : out = <<m>>

LEMMA Carried ==
    ASSUME TypeInv, NEW e \in Ends, NEW rest, NEW out,
           Rest(e, rest), OneAtMost(out), Carry(e, rest, out)
    PROVE  /\ net' \in [Ends -> Seq(Segments)] /\ net'[e] = rest
           /\ \A x \in Ends : Len(net'[x]) <= MaxFlight
           /\ \E k \in {0, 1} : /\ k = 1 <=> rest # net[e]
                                /\ k = 1 => Took(e, rest)
                                /\ \A i \in DOMAIN rest : /\ i + k \in DOMAIN net[e]
                                                          /\ rest[i] = net[e][i + k]
           /\ \A i \in DOMAIN net'[Peer(e)] :
                 \/ i \in DOMAIN net[Peer(e)] /\ net'[Peer(e)][i] = net[Peer(e)][i]
                 \/ i = Len(net[Peer(e)]) + 1 /\ out = <<net'[Peer(e)][i]>>
           /\ \A i \in DOMAIN net[Peer(e)] : i \in DOMAIN net'[Peer(e)]
<1> DEFINE p == Peer(e)
           there == net[p]
<1>1. /\ p \in Ends /\ p # e /\ Ends = {e, p} /\ net \in [Ends -> Seq(Segments)]
      /\ net[e] \in Seq(Segments) /\ there \in Seq(Segments)
      /\ Len(net[e]) <= MaxFlight /\ Len(there) <= MaxFlight /\ MaxFlight \in Nat
  BY TwoEnds, Sizes DEF TypeInv
<1>2. PICK a \in {there} \cup (IF Len(there) < MaxFlight THEN {there \o out} ELSE {}) :
        net' = [net EXCEPT ![e] = rest, ![p] = a]
  BY DEF Carry
<1>3. net'[e] = rest /\ net'[p] = a
  BY <1>1, <1>2
<1>4. /\ rest \in Seq(Segments) /\ Len(rest) <= Len(net[e])
      /\ \E k \in {0, 1} : /\ k = 1 <=> rest # net[e]
                           /\ k = 1 => Took(e, rest)
                           /\ \A i \in DOMAIN rest : /\ i + k \in DOMAIN net[e]
                                                     /\ rest[i] = net[e][i + k]
  <2>1. CASE rest = net[e]
    <3>1. \A i \in DOMAIN rest : i + 0 \in DOMAIN net[e] /\ rest[i] = net[e][i + 0]
      BY <1>1, <2>1
    <3>2. Len(rest) <= Len(net[e])
      BY <1>1, <2>1
    <3> QED
      BY <1>1, <2>1, <3>1, <3>2
  <2>2. CASE Took(e, rest)
    <3>1. /\ rest \in Seq(Segments) /\ Len(rest) = Len(net[e]) - 1
          /\ \A i \in 1..Len(rest) : rest[i] = net[e][i + 1]
      BY <1>1, <2>2, HeadTailProperties DEF Took
    <3>2. DOMAIN rest = 1..Len(rest) /\ DOMAIN net[e] = 1..Len(net[e])
      BY <1>1, <3>1
    <3>3. rest # net[e]
      BY <1>1, <3>1
    <3>4. \A i \in DOMAIN rest : i + 1 \in DOMAIN net[e] /\ rest[i] = net[e][i + 1]
      BY <1>1, <3>1, <3>2
    <3> QED
      BY <1>1, <2>2, <3>1, <3>3, <3>4
  <2> QED
    BY <2>1, <2>2 DEF Rest
<1>5. /\ a \in Seq(Segments) /\ Len(a) <= MaxFlight
      /\ \A i \in DOMAIN a : \/ i \in DOMAIN there /\ a[i] = there[i]
                             \/ i = Len(there) + 1 /\ out = <<a[i]>>
      /\ \A i \in DOMAIN there : i \in DOMAIN a
  <2>1. CASE a = there
    BY <1>1, <2>1
  <2>2. CASE a = there \o out /\ Len(there) < MaxFlight
    <3>1. CASE out = <<>>
      <4>1. there \o out = there
        BY <1>1, <3>1
      <4> QED
        BY <1>1, <2>2, <4>1
    <3>2. CASE \E m \in Segments : out = <<m>>
      <4>1. PICK m \in Segments : out = <<m>>
        BY <3>2
      <4>2. /\ a \in Seq(Segments) /\ Len(a) = Len(there) + 1
            /\ \A i \in 1..Len(a) : a[i] = IF i <= Len(there) THEN there[i] ELSE m
        BY <1>1, <2>2, <4>1
      <4>3. DOMAIN a = 1..Len(a) /\ DOMAIN there = 1..Len(there) /\ Len(there) \in Nat
        BY <1>1, <4>2
      <4> QED
        BY <1>1, <2>2, <4>1, <4>2, <4>3
    <3> QED
      BY <3>1, <3>2 DEF OneAtMost
  <2> QED
    BY <1>2, <2>1, <2>2
<1>6. net' \in [Ends -> Seq(Segments)]
  BY <1>1, <1>2, <1>4, <1>5
<1>7. \A x \in Ends : Len(net'[x]) <= MaxFlight
  <2>1. Len(rest) <= MaxFlight
    BY <1>1, <1>4
  <2> QED
    BY <1>1, <1>3, <1>5, <2>1
<1> QED
  BY <1>3, <1>4, <1>5, <1>6, <1>7

\* Slot b is open and hears `data`, and that n of its bytes are
\* acknowledged; with nothing to hear, it may speak all the same.
HearsOpen(e, rest, b, data, n) ==
    LET c == conn[e] IN LET s == Head(net[e])
    IN /\ c.st = "ESTABLISHED" /\ n \in {0, c.len}
       /\ b.snd = Add(c.snd, n) /\ b.len = c.len - n /\ b.rcv = Add(c.rcv, Len(data))
       /\ n # 0 => Took(e, rest) /\ ~Has(s, "RST") /\ Acks(c, s)
       /\ data # <<>> => Took(e, rest) /\ ~Has(s, "RST") /\ data = s.data /\ s.seq = c.rcv
HearsAck(e, rest, b, data, n) ==
    LET c == conn[e] IN LET s == Head(net[e])
    IN /\ c.st = "SYN_RCVD" /\ Took(e, rest) /\ ~Has(s, "RST") /\ Acks(c, s)
       /\ n = 0 /\ data = s.data /\ (data # <<>> => s.seq = c.rcv)
       /\ b.snd = s.ack /\ b.len = 0 /\ b.rcv = Add(c.rcv, Len(data))
HearsSynAck(e, rest, b, data, n) ==
    LET c == conn[e] IN LET s == Head(net[e])
    IN /\ c.st = "SYN_SENT" /\ Took(e, rest) /\ Acks(c, s) /\ s.flags = {"SYN", "ACK"}
       /\ n = 0 /\ data = <<>>
       /\ b.snd = s.ack /\ b.len = 0 /\ b.rcv = Add(s.seq, 1)

Told(e, data, n) == Call(e, data, n) \/ (data = <<>> /\ n = 0 /\ NoCall)

Hears(e, rest, b, data, n) ==
    /\ b.st = "ESTABLISHED" /\ Told(e, data, n)
    /\ \/ HearsOpen(e, rest, b, data, n) \/ HearsAck(e, rest, b, data, n)
       \/ HearsSynAck(e, rest, b, data, n)

\* It stays open with the slot d, having sent `out`, or closes.
Speaks(e, b, d, out) ==
    /\ d.st = "ESTABLISHED" /\ d.snd = b.snd /\ d.rcv = b.rcv
    /\ \/ out \in {<<>>, <<Ack(d)>>} /\ d.len = b.len
       \/ /\ d.len \in 1..Mss /\ acked'[e] + d.len <= Length[e] /\ b.len \in {0, d.len}
          /\ out = <<Data(e, d, d.len)>>
Closes(d, out) ==
    d.st \notin Live /\ \E m \in Segments : out = <<m>> /\ m.data = <<>> /\ ~IsSyn(m)
Answers(e, b, d, out) == Speaks(e, b, d, out) \/ Closes(d, out)

\* An end that is opening goes on with it.
Keeps(e, rest, d, out) ==
    LET c == conn[e]
    IN /\ NoCall /\ d.st = c.st /\ d.snd = c.snd /\ d.rcv = c.rcv /\ d.len = c.len
       /\ \/ /\ c.st = "SYN_SENT"
             /\ \/ out \in {<<>>, <<Syn(d)>>}
                \/ /\ out = <<Ack(d)>> /\ Took(e, rest)
                   /\ ~Has(Head(net[e]), "RST") /\ Unexpected(c, Head(net[e]))
          \/ c.st = "SYN_RCVD" /\ out \in {<<>>, <<Ack(d)>>, <<SynAck(d)>>}

\* An end is closed, or closing, without a call of its application.
Leaves(e, d, out) ==
    /\ NoCall /\ d.st \notin Live
    /\ \/ d.st = "CLOSED" /\ out \in {<<>>, <<Rst>>}
       \/ /\ conn[e].st \notin {"CLOSED", "SYN_SENT", "SYN_RCVD"}
          /\ \/ out = <<>>
             \/ \E m \in Segments : out = <<m>> /\ m.data = <<>> /\ ~IsSyn(m)

Accepts(e, rest, d, out) ==
    /\ e = Server /\ conn[e].st = "CLOSED" /\ Took(e, rest) /\ IsSyn(Head(net[e]))
    /\ d.st = "SYN_RCVD" /\ d.len = 1 /\ d.rcv = Add(Head(net[e]).seq, 1)
    /\ out = <<SynAck(d)>>
    /\ got' = [got EXCEPT ![e] = <<>>] /\ UNCHANGED <<acked, most>>

EndStep(e, rest, d, out) ==
    /\ Finish(e, rest, d, out) /\ Rest(e, rest) /\ UNCHANGED env /\ d \in Slots
    /\ \/ Keeps(e, rest, d, out) \/ Leaves(e, d, out) \/ Accepts(e, rest, d, out)
       \/ \E b \in Slots : \E data, n : Hears(e, rest, b, data, n) /\ Answers(e, b, d, out)

\* The segments of tcp_send, from any slot.
LEMMA Sent ==
    ASSUME NEW c \in Slots
    PROVE  /\ Syn(c) \in Segments /\ SynAck(c) \in Segments /\ Ack(c) \in Segments
           /\ FinAck(c) \in Segments /\ Rst \in Segments
           /\ \A m \in {Syn(c), SynAck(c), Ack(c), FinAck(c), Rst} : m.data = <<>>
           /\ \A m \in {SynAck(c), Ack(c), FinAck(c), Rst} : ~IsSyn(m)
<1>1. <<>> \in Seq(Nat) /\ c.snd \in Numbers /\ c.rcv \in Numbers /\ 0 \in Numbers
  BY Sizes DEF Slots
<1> QED
  BY <1>1 DEF Syn, SynAck, Ack, FinAck, Rst, Segment, Segments, Flags, IsSyn

LEMMA DataSent ==
    ASSUME NEW e \in Ends, NEW c \in Slots, acked'[e] \in Nat, NEW n \in 1..Mss,
           acked'[e] + n <= Length[e]
    PROVE  /\ Data(e, c, n) \in Segments /\ Fits(e, Data(e, c, n).data)
           /\ Data(e, c, n).data = Slice(acked'[e], n)
           /\ Data(e, c, n).seq = c.snd /\ Data(e, c, n).ack = c.rcv
           /\ Data(e, c, n).flags = {"ACK", "PSH"}
<1> DEFINE a == acked'[e]
           data == SubSeq(Stream(e), a + 1, a + n)
<1>1. a \in Nat /\ n \in Nat /\ 1 <= n /\ n <= Mss /\ Length[e] \in Nat /\ a + n <= Length[e]
  BY Sizes
<1>2. Stream(e) = [i \in 1..Length[e] |-> i]
  BY DEF Stream
<1> HIDE DEF a
<1>3. \A i \in (a + 1)..(a + n) : Stream(e)[i] = i /\ i \in Nat
  BY <1>1, <1>2
<1>4. /\ data \in Seq(Nat) /\ Len(data) = n
      /\ \A i \in 1..n : data[i] = Stream(e)[i + a]
  <2>1. a + 1 \in Int /\ a + n \in Int /\ (a + n) - (a + 1) + 1 = n /\ a + 1 <= a + n
    BY <1>1
  <2>2. \A i \in (a + 1)..(a + n) : Stream(e)[i] \in Nat
    BY <1>3
  <2>3. /\ data \in Seq(Nat)
        /\ Len(data) = IF a + 1 <= a + n THEN (a + n) - (a + 1) + 1 ELSE 0
        /\ \A i \in 1..((a + n) - (a + 1) + 1) : data[i] = Stream(e)[(a + 1) + i - 1]
    BY <2>1, <2>2, SubSeqProperties
  <2>4. \A i \in 1..n : (a + 1) + i - 1 = i + a
    BY <1>1
  <2> QED
    BY <2>1, <2>3, <2>4
<1>5. data = Slice(a, n)
  <2>1. Slice(a, n) \in Seq(Nat) /\ Len(Slice(a, n)) = n
    BY <1>1, Slices
  <2>2. \A i \in 1..n : data[i] = Slice(a, n)[i]
    <3>1. \A i \in 1..n : i + a \in (a + 1)..(a + n) /\ i + a = a + i
      BY <1>1
    <3> QED
      BY <1>3, <1>4, <3>1 DEF Slice
  <2> QED
    BY <1>4, <2>1, <2>2, SeqEqual
<1>6. data \in Seq(1..Length[e]) /\ Len(data) <= Mss
  <2>1. Slice(a, n) \in Seq(1..Length[e])
    BY <1>1, Slices
  <2> HIDE DEF data
  <2> QED
    BY <1>1, <1>4, <1>5, <2>1
<1>7. Data(e, c, n) = [flags |-> {"ACK", "PSH"}, seq |-> c.snd, ack |-> c.rcv, data |-> data]
  BY DEF Data, Segment, a
<1> HIDE DEF data
<1>8. c.snd \in Numbers /\ c.rcv \in Numbers
  BY DEF Slots
<1> QED
  BY <1>4, <1>5, <1>6, <1>7, <1>8 DEF Segments, Flags, Fits, a

\* A slot with a field changed is a slot.
LEMMA SlotChanged ==
    ASSUME NEW b \in Slots
    PROVE  /\ \A x \in States : [b EXCEPT !.st = x] \in Slots
           /\ \A x \in BOOLEAN : [b EXCEPT !.stopped = x] \in Slots
           /\ \A x \in Numbers : [b EXCEPT !.snd = x] \in Slots
           /\ \A x \in Numbers : [b EXCEPT !.rcv = x] \in Slots
           /\ \A x \in 0..Mss : [b EXCEPT !.len = x] \in Slots
           /\ \A x \in 0..MaxRtx : [b EXCEPT !.nrtx = x] \in Slots
<1>1. \A x \in States : [b EXCEPT !.st = x] \in Slots
  BY DEF Slots
<1>2. \A x \in BOOLEAN : [b EXCEPT !.stopped = x] \in Slots
  BY DEF Slots
<1>3. \A x \in Numbers : [b EXCEPT !.snd = x] \in Slots
  BY DEF Slots
<1>4. \A x \in Numbers : [b EXCEPT !.rcv = x] \in Slots
  BY DEF Slots
<1>5. \A x \in 0..Mss : [b EXCEPT !.len = x] \in Slots
  BY DEF Slots
<1>6. \A x \in 0..MaxRtx : [b EXCEPT !.nrtx = x] \in Slots
  BY DEF Slots
<1> QED
  BY <1>1, <1>2, <1>3, <1>4, <1>5, <1>6

LEMMA AppSendAnswers ==
    ASSUME NEW e \in Ends, NEW rest, NEW b \in Slots, NEW newdata,
           b.st = "ESTABLISHED", acked'[e] \in Nat, acked'[e] + b.len <= Length[e],
           AppSend(e, rest, b, newdata)
    PROVE  \E d \in Slots : \E out : Finish(e, rest, d, out) /\ Answers(e, b, d, out)
<1>1. Mss \in Nat /\ 1 <= Mss /\ MaxRtx \in Nat /\ 0 \in Numbers /\ Length[e] \in Nat
  BY Sizes
<1>2. CASE Finish(e, rest, Closed, <<Rst>>)
  <2>1. Closed \in Slots /\ Closed.st \notin Live
    BY <1>1 DEF Closed, Slots, Live, States
  <2> QED
    BY <1>2, <2>1, Sent DEF Answers, Closes
<1>3. CASE Finish(e, rest,
              [b EXCEPT !.st = "FIN_WAIT_1", !.stopped = FALSE, !.len = 1, !.nrtx = 0],
              <<FinAck(b)>>)
  <2> DEFINE d == [b EXCEPT !.st = "FIN_WAIT_1", !.stopped = FALSE, !.len = 1, !.nrtx = 0]
  <2>1. d \in Slots /\ d.st \notin Live
    <3> DEFINE b1 == [b EXCEPT !.st = "FIN_WAIT_1"]
               b2 == [b1 EXCEPT !.stopped = FALSE]
               b3 == [b2 EXCEPT !.len = 1]
    <3>1. d = [b3 EXCEPT !.nrtx = 0] /\ d.st = "FIN_WAIT_1"
      BY DEF Slots
    <3>2. "FIN_WAIT_1" \in States /\ 1 \in 0..Mss /\ 0 \in 0..MaxRtx
      BY <1>1 DEF States
    <3>3. b1 \in Slots
      BY <3>2, SlotChanged
    <3> HIDE DEF b1
    <3>4. b2 \in Slots
      BY <3>3, SlotChanged
    <3> HIDE DEF b2
    <3>5. b3 \in Slots
      BY <3>2, <3>4, SlotChanged
    <3> HIDE DEF b3, d
    <3> QED
      BY <3>1, <3>2, <3>5, SlotChanged DEF Live
  <2> HIDE DEF d
  <2>2. Finish(e, rest, d, <<FinAck(b)>>)
    BY <1>3 DEF d
  <2> QED
    BY <2>1, <2>2, Sent DEF Answers, Closes
<1>4. CASE /\ Left(e) > 0
           /\ LET n == SendLength(e, b)
              IN Finish(e, rest, [b EXCEPT !.len = n, !.nrtx = 0], <<Data(e, b, n)>>)
  <2> DEFINE n == SendLength(e, b)
             d == [b EXCEPT !.len = n, !.nrtx = 0]
  <2>1. n \in 1..Mss /\ acked'[e] + n <= Length[e] /\ b.len \in {0, n}
    <3>1. CASE Outstanding(b)
      <4>1. b.len \in 0..Mss /\ b.len # 0 /\ n = b.len
        BY <3>1 DEF Outstanding, SendLength, Slots
      <4> QED
        BY <1>1, <4>1
    <3>2. CASE ~Outstanding(b)
      <4>1. Left(e) \in Nat /\ Left(e) > 0 /\ acked'[e] + Left(e) = Length[e]
        BY <1>1, <1>4 DEF Left
      <4>2. n \in {Left(e), Mss} /\ \A y \in {Left(e), Mss} : n <= y
        <5>1. \E x \in {Left(e), Mss} : \A y \in {Left(e), Mss} : x <= y
          BY <1>1, <4>1
        <5>2. n = Min({Left(e), Mss})
          BY <3>2 DEF SendLength
        <5> QED
          BY <5>1, <5>2 DEF Min
      <4>3. b.len = 0
        BY <3>2 DEF Outstanding
      <4> HIDE DEF n
      <4> QED
        BY <1>1, <4>1, <4>2, <4>3
    <3> QED
      BY <3>1, <3>2
  <2> HIDE DEF n
  <2>2. /\ d \in Slots /\ d.st = "ESTABLISHED" /\ d.snd = b.snd /\ d.rcv = b.rcv /\ d.len = n
    <3> DEFINE b1 == [b EXCEPT !.len = n]
    <3>1. /\ d = [b1 EXCEPT !.nrtx = 0]
          /\ d.st = "ESTABLISHED" /\ d.snd = b.snd /\ d.rcv = b.rcv /\ d.len = n
      BY DEF Slots
    <3>2. n \in 0..Mss /\ 0 \in 0..MaxRtx
      BY <1>1, <2>1
    <3>3. b1 \in Slots
      BY <3>2, SlotChanged
    <3> HIDE DEF b1, d
    <3> QED
      BY <3>1, <3>2, <3>3, SlotChanged
  <2>3. Data(e, b, n) = Data(e, d, n)
    BY <2>2 DEF Data, Segment
  <2>4. Finish(e, rest, d, <<Data(e, d, d.len)>>)
    BY <1>4, <2>2, <2>3 DEF n
  <2> HIDE DEF d
  <2>5. Speaks(e, b, d, <<Data(e, d, d.len)>>)
    BY <2>1, <2>2 DEF Speaks
  <2> QED
    BY <2>2, <2>4, <2>5 DEF Answers
<1>5. CASE Finish(e, rest, [b EXCEPT !.nrtx = 0], IF newdata THEN <<Ack(b)>> ELSE <<>>)
  <2> DEFINE d == [b EXCEPT !.nrtx = 0]
             out == IF newdata THEN <<Ack(b)>> ELSE <<>>
  <2>1. d \in Slots /\ d.st = "ESTABLISHED" /\ d.snd = b.snd /\ d.rcv = b.rcv /\ d.len = b.len
    BY <1>1 DEF Slots
  <2>2. Ack(b) = Ack(d)
    BY <2>1 DEF Ack, Segment
  <2>3. out \in {<<>>, <<Ack(d)>>}
    BY <2>2
  <2>4. Finish(e, rest, d, out)
    BY <1>5
  <2> HIDE DEF d, out
  <2>5. Speaks(e, b, d, out)
    BY <2>1, <2>3 DEF Speaks
  <2> QED
    BY <2>1, <2>4, <2>5 DEF Answers
<1> QED
  BY <1>2, <1>3, <1>4, <1>5 DEF AppSend

\* A call of the application, and its answer.
LEMMA HearsAnswers ==
    ASSUME TypeInv, NEW e \in Ends, NEW rest, NEW b \in Slots, NEW data, NEW n \in Nat, NEW newdata,
           Rest(e, rest), UNCHANGED env, Hears(e, rest, b, data, n),
           acked[e] + n + b.len <= Length[e], AppSend(e, rest, b, newdata)
    PROVE  \E d, out : EndStep(e, rest, d, out)
<1>1. b.st = "ESTABLISHED" /\ Told(e, data, n) /\ acked \in [Ends -> Nat] /\ acked[e] \in Nat
  BY DEF Hears, TypeInv
<1>2. acked'[e] = acked[e] + n
  BY <1>1 DEF Told, Call, NoCall
<1>3. b.len \in Nat /\ Length[e] \in Nat
  BY Sizes DEF Slots
<1>4. acked'[e] \in Nat /\ acked'[e] + b.len <= Length[e]
  <2>1. (acked[e] + n) + b.len = acked[e] + (n + b.len)
    BY <1>1, <1>3
  <2> QED
    BY <1>1, <1>2, <1>3, <2>1
<1> QED
  BY <1>1, <1>4, AppSendAnswers DEF EndStep

LEMMA SlotKept ==
    ASSUME TypeInv, NEW e \in Ends
    PROVE  /\ conn[e] \in Slots /\ Closed \in Slots /\ Closed.st = "CLOSED"
           /\ net[e] # <<>> => /\ Head(net[e]) \in Segments /\ Head(net[e]) = net[e][1]
                               /\ 1 \in DOMAIN net[e] /\ Fits(Peer(e), Head(net[e]).data)
                               /\ Took(e, Tail(net[e]))
<1>1. conn[e] \in Slots /\ net[e] \in Seq(Segments)
  BY DEF TypeInv
<1>2. Closed \in Slots /\ Closed.st = "CLOSED"
  BY Sizes DEF Closed, Slots, States
<1>3. ASSUME net[e] # <<>>
      PROVE  Head(net[e]) \in Segments /\ Head(net[e]) = net[e][1] /\ 1 \in DOMAIN net[e]
  BY <1>1, <1>3
<1>4. net[e] # <<>> => Fits(Peer(e), Head(net[e]).data)
  <2>1. \A i \in DOMAIN net[e] : Fits(Peer(e), net[e][i].data)
    BY DEF TypeInv
  <2> QED
    BY <1>3, <2>1
<1> QED
  BY <1>1, <1>2, <1>3, <1>4 DEF Took

LEMMA TakenIs ==
    ASSUME NEW c \in Slots, NEW s \in Segments
    PROVE  /\ Taken(c, s) \in Slots /\ Taken(c, s).st = c.st /\ Taken(c, s).rcv = c.rcv
           /\ Taken(c, s).stopped = c.stopped
           /\ Acks(c, s) => /\ c.len # 0 /\ Taken(c, s).len = 0
                            /\ Taken(c, s).snd = s.ack /\ s.ack = Add(c.snd, c.len)
           /\ ~Acks(c, s) => Taken(c, s) = c
<1>1. ASSUME Acks(c, s)
      PROVE  /\ Taken(c, s) \in Slots /\ Taken(c, s).st = c.st /\ Taken(c, s).rcv = c.rcv
             /\ Taken(c, s).stopped = c.stopped /\ Taken(c, s).len = 0 /\ Taken(c, s).snd = s.ack
  <2> DEFINE c1 == [c EXCEPT !.snd = s.ack]
  <2>1. /\ Taken(c, s) = [c1 EXCEPT !.len = 0]
        /\ Taken(c, s).st = c.st /\ Taken(c, s).rcv = c.rcv
        /\ Taken(c, s).stopped = c.stopped /\ Taken(c, s).len = 0 /\ Taken(c, s).snd = s.ack
    BY <1>1 DEF Taken, Slots
  <2>2. c1 \in Slots
    BY SlotChanged DEF Segments
  <2> HIDE DEF c1
  <2>3. [c1 EXCEPT !.len = 0] \in Slots
    BY <2>2, SlotChanged, Sizes
  <2> QED
    BY <2>1, <2>3
<1>2. ~Acks(c, s) => Taken(c, s) = c
  BY DEF Taken
<1>3. Acks(c, s) => c.len # 0 /\ s.ack = Add(c.snd, c.len)
  BY DEF Acks, Outstanding
<1> QED
  BY <1>1, <1>2, <1>3

LEMMA AddRcvNxtIs ==
    ASSUME NEW c \in Slots, NEW n \in Nat
    PROVE  /\ AddRcvNxt(c, n) \in Slots /\ AddRcvNxt(c, n).rcv = Add(c.rcv, n)
           /\ AddRcvNxt(c, n).st = c.st /\ AddRcvNxt(c, n).snd = c.snd
           /\ AddRcvNxt(c, n).len = c.len /\ AddRcvNxt(c, n).stopped = c.stopped
<1>1. Add(c.rcv, n) \in Numbers
  BY Adding DEF Slots
<1>2. AddRcvNxt(c, n) \in Slots
  BY <1>1, SlotChanged DEF AddRcvNxt
<1> QED
  BY <1>2 DEF AddRcvNxt, Slots

LEMMA NoConnectionSteps ==
    ASSUME TypeInv, NEW e \in Ends, net[e] # <<>>, NoConnection(e, Head(net[e])), UNCHANGED env
    PROVE  \E rest, d, out : EndStep(e, rest, d, out)
<1> DEFINE s == Head(net[e])
           rest == Tail(net[e])
<1>1. /\ s \in Segments /\ Took(e, rest) /\ Rest(e, rest)
      /\ conn[e] \in Slots /\ conn[e].st = "CLOSED" /\ Closed \in Slots
  BY SlotKept DEF NoConnection, Rest
<1> HIDE DEF s, rest
<1>2. CASE IsSyn(s) /\ e = Server /\ listening /\ Accept(s)
  <2>1. PICK i \in Iss :
          LET c == [Closed EXCEPT !.st = "SYN_RCVD", !.snd = i, !.len = 1, !.rcv = Add(s.seq, 1)]
          IN /\ Finish(Server, Tail(net[Server]), c, <<SynAck(c)>>)
             /\ got' = [got EXCEPT ![Server] = <<>>]
             /\ UNCHANGED <<acked, most>>
    BY <1>2 DEF Accept
  <2> DEFINE c1 == [Closed EXCEPT !.st = "SYN_RCVD"]
             c2 == [c1 EXCEPT !.snd = i]
             c3 == [c2 EXCEPT !.len = 1]
             c == [Closed EXCEPT !.st = "SYN_RCVD", !.snd = i, !.len = 1, !.rcv = Add(s.seq, 1)]
  <2>2. /\ c = [c3 EXCEPT !.rcv = Add(s.seq, 1)]
        /\ c.st = "SYN_RCVD" /\ c.len = 1 /\ c.rcv = Add(s.seq, 1)
    BY DEF Closed
  <2>3. /\ "SYN_RCVD" \in States /\ i \in Numbers /\ 1 \in 0..Mss /\ Add(s.seq, 1) \in Numbers
    BY <1>1, Sizes, Adding DEF States, Segments
  <2>4. c1 \in Slots
    BY <1>1, <2>3, SlotChanged
  <2> HIDE DEF c1
  <2>5. c2 \in Slots
    BY <2>3, <2>4, SlotChanged
  <2> HIDE DEF c2
  <2>6. c3 \in Slots
    BY <2>3, <2>5, SlotChanged
  <2>7. /\ Finish(e, rest, c, <<SynAck(c)>>) /\ got' = [got EXCEPT ![e] = <<>>]
        /\ UNCHANGED <<acked, most>>
    BY <1>2, <2>1 DEF rest
  <2> HIDE DEF c3, c
  <2>8. c \in Slots
    BY <2>2, <2>3, <2>6, SlotChanged
  <2>9. Accepts(e, rest, c, <<SynAck(c)>>)
    BY <1>1, <1>2, <2>2, <2>7 DEF Accepts, s
  <2> QED
    BY <1>1, <2>7, <2>8, <2>9 DEF EndStep
<1>3. CASE NoCall /\ Finish(e, rest, conn[e], IF Has(s, "RST") THEN <<>> ELSE <<Rst>>)
  <2> DEFINE out == IF Has(s, "RST") THEN <<>> ELSE <<Rst>>
  <2>1. out \in {<<>>, <<Rst>>} /\ Finish(e, rest, conn[e], out)
    BY <1>3
  <2> HIDE DEF out
  <2>2. Leaves(e, conn[e], out)
    BY <1>1, <1>3, <2>1 DEF Leaves, Live
  <2> QED
    BY <1>1, <2>1, <2>2 DEF EndStep
<1> QED
  BY <1>2, <1>3 DEF NoConnection, s, rest

\* An end that neither calls its application nor leaves its slot open.
LEMMA LeavesStep ==
    ASSUME NEW e \in Ends, NEW rest, NEW d \in Slots, NEW out,
           Rest(e, rest), UNCHANGED env, NoCall, Finish(e, rest, d, out), d.st \notin Live,
           \/ d.st = "CLOSED" /\ out \in {<<>>, <<Rst>>}
           \/ /\ conn[e].st \notin {"CLOSED", "SYN_SENT", "SYN_RCVD"}
              /\ \/ out = <<>>
                 \/ \E m \in Segments : out = <<m>> /\ m.data = <<>> /\ ~IsSyn(m)
    PROVE  \E r, d1, o : EndStep(e, r, d1, o)
<1>1. Leaves(e, d, out)
  BY DEF Leaves
<1> QED
  BY <1>1 DEF EndStep

LEMMA SilentStep ==
    ASSUME TypeInv, NEW e \in Ends, NEW rest, NEW d \in Slots, NEW out,
           Rest(e, rest), UNCHANGED env, NoCall, Finish(e, rest, d, out),
           conn[e].st = "ESTABLISHED", d.st = "ESTABLISHED",
           d.snd = conn[e].snd, d.rcv = conn[e].rcv, d.len = conn[e].len,
           \/ out \in {<<>>, <<Ack(d)>>}
           \/ d.len # 0 /\ out = <<Data(e, d, d.len)>>
    PROVE  \E r, d1, o : EndStep(e, r, d1, o)
<1> DEFINE c == conn[e]
<1>1. c \in Slots /\ c.len \in 0..Mss /\ acked[e] + c.len <= Length[e] /\ c.snd \in Numbers /\ c.rcv \in Numbers
  BY DEF TypeInv, Slots
<1>2. Told(e, <<>>, 0) /\ acked'[e] = acked[e]
  BY DEF Told, NoCall
<1>3. Add(c.snd, 0) = c.snd /\ Add(c.rcv, 0) = c.rcv /\ c.len - 0 = c.len /\ Len(<<>>) = 0
  BY <1>1, Adding
<1>4. HearsOpen(e, rest, c, <<>>, 0)
  BY <1>3 DEF HearsOpen
<1>5. Hears(e, rest, c, <<>>, 0)
  BY <1>2, <1>4 DEF Hears
<1>6. Speaks(e, c, d, out)
  <2>1. CASE out \in {<<>>, <<Ack(d)>>}
    BY <2>1 DEF Speaks
  <2>2. CASE d.len # 0 /\ out = <<Data(e, d, d.len)>>
    <3>1. d.len \in 1..Mss
      BY <1>1, <2>2, Sizes
    <3>2. acked'[e] + d.len <= Length[e] /\ c.len \in {0, d.len}
      BY <1>1, <1>2
    <3> QED
      BY <2>2, <3>1, <3>2 DEF Speaks
  <2> QED
    BY <2>1, <2>2
<1> QED
  BY <1>1, <1>5, <1>6 DEF EndStep, Answers

\* An end that is opening and does not change.
LEMMA KeepsStep ==
    ASSUME NEW e \in Ends, NEW rest, NEW d \in Slots, NEW out,
           Rest(e, rest), UNCHANGED env, Finish(e, rest, d, out), Keeps(e, rest, d, out)
    PROVE  \E r, d1, o : EndStep(e, r, d1, o)
  BY DEF EndStep

LEMMA SynRcvdSteps ==
    ASSUME TypeInv, NEW e \in Ends, net[e] # <<>>, UNCHANGED env, ~Has(Head(net[e]), "RST"),
           ~Unexpected(conn[e], Head(net[e])),
           SynRcvd(e, Head(net[e]), Taken(conn[e], Head(net[e])))
    PROVE  \E rest, d, out : EndStep(e, rest, d, out)
<1> DEFINE s == Head(net[e])
           rest == Tail(net[e])
           c == Taken(conn[e], s)
<1>1. /\ s \in Segments /\ Took(e, rest) /\ Rest(e, rest) /\ conn[e] \in Slots
      /\ acked[e] \in Nat /\ acked[e] <= Length[e] /\ Length[e] \in Nat
  BY SlotKept, Sizes DEF Rest, TypeInv
<1>2. /\ c \in Slots /\ c.st = conn[e].st /\ c.rcv = conn[e].rcv
      /\ Acks(conn[e], s) => c.len = 0 /\ c.snd = s.ack
      /\ ~Acks(conn[e], s) => c = conn[e]
  BY <1>1, TakenIs
<1>3. conn[e].st = "SYN_RCVD"
  BY <1>2 DEF SynRcvd
<1> HIDE DEF s, rest, c
<1>4. CASE Acks(conn[e], s)
  <2> DEFINE c1 == [c EXCEPT !.st = "ESTABLISHED"]
             est == AddRcvNxt(c1, Len(s.data))
  <2>1. Call(e, s.data, 0) /\ AppSend(e, rest, est, s.data # <<>>)
    BY <1>4 DEF SynRcvd, s, rest, c
  <2>2. Len(s.data) \in Nat
    BY <1>1 DEF Segments
  <2>3. c1 \in Slots
    BY <1>2, SlotChanged DEF States
  <2>4. c1.st = "ESTABLISHED" /\ c1.rcv = c.rcv /\ c1.snd = c.snd /\ c1.len = c.len
    BY <1>2 DEF Slots
  <2> HIDE DEF c1
  <2>5. /\ est \in Slots /\ est.st = "ESTABLISHED" /\ est.rcv = Add(c.rcv, Len(s.data))
        /\ est.snd = c.snd /\ est.len = c.len
    <3> DEFINE m == Len(s.data)
    <3>1. m \in Nat
      BY <2>2
    <3> HIDE DEF m
    <3>2. /\ AddRcvNxt(c1, m) \in Slots /\ AddRcvNxt(c1, m).rcv = Add(c1.rcv, m)
          /\ AddRcvNxt(c1, m).st = c1.st /\ AddRcvNxt(c1, m).snd = c1.snd
          /\ AddRcvNxt(c1, m).len = c1.len
      BY <2>3, <3>1, AddRcvNxtIs
    <3> QED
      BY <2>4, <3>2 DEF m
  <2>6. s.data # <<>> => s.seq = conn[e].rcv
    BY <1>3 DEF Unexpected, s
  <2> HIDE DEF est
  <2>7. ~Has(s, "RST")
    BY DEF s
  <2>8. HearsAck(e, rest, est, s.data, 0)
    BY <1>1, <1>2, <1>3, <1>4, <2>5, <2>6, <2>7 DEF HearsAck, s
  <2>9. Hears(e, rest, est, s.data, 0)
    BY <2>1, <2>5, <2>8, Zenon DEF Hears, Told
  <2>10. acked[e] + 0 + est.len <= Length[e]
    BY <1>1, <1>2, <1>4, <2>5
  <2> QED
    BY <1>1, <2>1, <2>5, <2>9, <2>10, HearsAnswers
<1>5. CASE ~Acks(conn[e], s)
  <2>1. Finish(e, rest, c, <<>>) /\ NoCall
    BY <1>5 DEF SynRcvd, s, rest, c
  <2>2. Keeps(e, rest, conn[e], <<>>)
    BY <1>3, <2>1 DEF Keeps
  <2> QED
    BY <1>1, <1>2, <1>5, <2>1, <2>2, KeepsStep
<1> QED
  BY <1>4, <1>5

LEMMA SynSentSteps ==
    ASSUME TypeInv, NEW e \in Ends, net[e] # <<>>, UNCHANGED env, ~Has(Head(net[e]), "RST"),
           SynSent(e, Head(net[e]), Taken(conn[e], Head(net[e])))
    PROVE  \E rest, d, out : EndStep(e, rest, d, out)
<1> DEFINE s == Head(net[e])
           rest == Tail(net[e])
           c == Taken(conn[e], s)
<1>1. /\ s \in Segments /\ Took(e, rest) /\ Rest(e, rest) /\ conn[e] \in Slots /\ Closed \in Slots
      /\ Closed.st = "CLOSED"
      /\ acked[e] \in Nat /\ acked[e] <= Length[e] /\ Length[e] \in Nat
  BY SlotKept, Sizes DEF Rest, TypeInv
<1>2. /\ c \in Slots /\ c.st = conn[e].st
      /\ Acks(conn[e], s) => c.len = 0 /\ c.snd = s.ack
  BY <1>1, TakenIs
<1>3. conn[e].st = "SYN_SENT"
  BY <1>2 DEF SynSent
<1> HIDE DEF s, rest, c
<1>4. CASE Acks(conn[e], s) /\ s.flags = {"SYN", "ACK"}
  <2> DEFINE c1 == [c EXCEPT !.st = "ESTABLISHED"]
             est == [c EXCEPT !.st = "ESTABLISHED", !.rcv = Add(s.seq, 1)]
  <2>1. Call(e, <<>>, 0) /\ AppSend(e, rest, est, TRUE)
    BY <1>4 DEF SynSent, s, rest, c
  <2>2. Add(s.seq, 1) \in Numbers
    BY <1>1, Adding DEF Segments
  <2>3. c1 \in Slots
    BY <1>2, SlotChanged DEF States
  <2>4. /\ est = [c1 EXCEPT !.rcv = Add(s.seq, 1)] /\ est.st = "ESTABLISHED"
        /\ est.rcv = Add(s.seq, 1) /\ est.snd = c.snd /\ est.len = c.len
    BY <1>2 DEF Slots
  <2> HIDE DEF c1, est
  <2>5. est \in Slots
    BY <2>2, <2>3, <2>4, SlotChanged
  <2>6. HearsSynAck(e, rest, est, <<>>, 0)
    BY <1>1, <1>2, <1>3, <1>4, <2>4 DEF HearsSynAck, s
  <2>7. Hears(e, rest, est, <<>>, 0)
    BY <2>1, <2>4, <2>6, Zenon DEF Hears, Told
  <2>8. acked[e] + 0 + est.len <= Length[e]
    BY <1>1, <1>2, <1>4, <2>4
  <2> QED
    BY <1>1, <2>1, <2>5, <2>7, <2>8, HearsAnswers
<1>5. CASE ~(Acks(conn[e], s) /\ s.flags = {"SYN", "ACK"})
  <2>1. Finish(e, rest, Closed, <<Rst>>) /\ NoCall
    BY <1>5 DEF SynSent, s, rest, c
  <2>2. Closed.st \notin Live
    BY <1>1 DEF Live
  <2> QED
    BY <1>1, <2>1, <2>2, LeavesStep
<1> QED
  BY <1>4, <1>5

LEMMA EstablishedSteps ==
    ASSUME TypeInv, NEW e \in Ends, net[e] # <<>>, UNCHANGED env, ~Has(Head(net[e]), "RST"),
           ~Unexpected(conn[e], Head(net[e])),
           Established(e, Head(net[e]), Taken(conn[e], Head(net[e])))
    PROVE  \E rest, d, out : EndStep(e, rest, d, out)
<1> DEFINE s == Head(net[e])
           rest == Tail(net[e])
           c == Taken(conn[e], s)
           n == IF Acks(conn[e], s) THEN conn[e].len ELSE 0
           data == IF c.stopped THEN <<>> ELSE s.data
           c2 == AddRcvNxt(c, Len(data))
<1>1. /\ s \in Segments /\ Took(e, rest) /\ Rest(e, rest) /\ conn[e] \in Slots
      /\ acked[e] \in Nat /\ Length[e] \in Nat
  BY SlotKept, Sizes DEF Rest, TypeInv
<1>2. /\ c \in Slots /\ c.st = conn[e].st /\ c.rcv = conn[e].rcv /\ c.stopped = conn[e].stopped
      /\ Acks(conn[e], s) => /\ conn[e].len # 0 /\ c.len = 0 /\ c.snd = s.ack
                             /\ s.ack = Add(conn[e].snd, conn[e].len)
      /\ ~Acks(conn[e], s) => c = conn[e]
  BY <1>1, TakenIs
<1>3. conn[e].st = "ESTABLISHED" /\ acked[e] + conn[e].len <= Length[e]
  <2>1. conn[e].st = "ESTABLISHED"
    BY <1>2 DEF Established
  <2> QED
    BY <2>1 DEF TypeInv
<1>4. conn[e].len \in Nat /\ conn[e].snd \in Numbers /\ conn[e].rcv \in Numbers /\ Len(data) \in Nat
  <2>1. data \in Seq(Nat)
    BY <1>1 DEF Segments
  <2> HIDE DEF data
  <2> QED
    BY <1>1, <2>1 DEF Slots
<1>5. n \in {0, conn[e].len} /\ n \in Nat /\ c.len = conn[e].len - n /\ c.snd = Add(conn[e].snd, n)
  <2>1. CASE Acks(conn[e], s)
    BY <1>2, <1>4, <2>1
  <2>2. CASE ~Acks(conn[e], s)
    <3>1. Add(conn[e].snd, 0) = conn[e].snd
      BY <1>4, Adding
    <3> QED
      BY <1>2, <1>4, <2>2, <3>1
  <2> QED
    BY <2>1, <2>2
<1>6. n # 0 => Acks(conn[e], s)
  OBVIOUS
<1>7. data # <<>> => data = s.data /\ s.seq = conn[e].rcv
  BY <1>3 DEF Unexpected
<1> HIDE DEF c
<1> HIDE DEF n, data
<1>8. /\ c2 \in Slots /\ c2.st = "ESTABLISHED" /\ c2.rcv = Add(conn[e].rcv, Len(data))
      /\ c2.snd = c.snd /\ c2.len = c.len
  <2> DEFINE m == Len(data)
  <2>1. m \in Nat
    BY <1>4
  <2> HIDE DEF m
  <2>2. /\ AddRcvNxt(c, m) \in Slots /\ AddRcvNxt(c, m).rcv = Add(c.rcv, m)
        /\ AddRcvNxt(c, m).st = c.st /\ AddRcvNxt(c, m).snd = c.snd
        /\ AddRcvNxt(c, m).len = c.len
    BY <1>2, <2>1, AddRcvNxtIs
  <2> QED
    BY <1>2, <1>3, <2>2 DEF m
<1> HIDE DEF c2
<1>9. ~Has(s, "RST")
  OBVIOUS
<1>10. ASSUME NEW b \in Slots, b.snd = c2.snd, b.len = c2.len, b.rcv = c2.rcv,
              b.st = "ESTABLISHED", Call(e, data, n)
       PROVE  Hears(e, rest, b, data, n)
  <2>1. HearsOpen(e, rest, b, data, n)
    BY <1>1, <1>3, <1>5, <1>6, <1>7, <1>8, <1>9, <1>10, Zenon DEF HearsOpen, s
  <2> QED
    BY <1>10, <2>1, Zenon DEF Hears, Told
<1>11. acked[e] + n + c2.len <= Length[e]
  BY <1>1, <1>3, <1>4, <1>5, <1>8
<1>12. CASE Has(s, "FIN") /\ ~c.stopped /\ Outstanding(c) /\ Finish(e, rest, c, <<>>) /\ NoCall
  <2>1. c = conn[e]
    BY <1>2, <1>12 DEF Outstanding
  <2> HIDE DEF s, rest
  <2> QED
    BY <1>1, <1>2, <1>3, <1>12, <2>1, SilentStep
<1>13. CASE /\ Has(s, "FIN") /\ ~c.stopped /\ ~Outstanding(c) /\ Call(e, s.data, n)
            /\ LET last == [AddRcvNxt(c2, 1) EXCEPT !.st = "LAST_ACK", !.len = 1, !.nrtx = 0]
               IN Finish(e, rest, last, <<FinAck(last)>>)
  <2> DEFINE a == AddRcvNxt(c2, 1)
             a1 == [a EXCEPT !.st = "LAST_ACK"]
             a2 == [a1 EXCEPT !.len = 1]
             last == [a EXCEPT !.st = "LAST_ACK", !.len = 1, !.nrtx = 0]
  <2>1. a \in Slots
    BY <1>8, AddRcvNxtIs
  <2>2. last = [a2 EXCEPT !.nrtx = 0] /\ last.st = "LAST_ACK"
    BY <2>1 DEF Slots
  <2>3. "LAST_ACK" \in States /\ 1 \in 0..Mss /\ 0 \in 0..MaxRtx
    BY Sizes DEF States
  <2>4. Finish(e, rest, last, <<FinAck(last)>>)
    BY <1>13
  <2> HIDE DEF a
  <2>5. a1 \in Slots
    BY <2>1, <2>3, SlotChanged
  <2> HIDE DEF a1
  <2>6. a2 \in Slots
    BY <2>3, <2>5, SlotChanged
  <2> HIDE DEF a2, last
  <2>7. last \in Slots
    BY <2>2, <2>3, <2>6, SlotChanged
  <2>8. data = s.data
    BY <1>13 DEF data
  <2>9. Hears(e, rest, c2, data, n)
    BY <1>8, <1>10, <1>13, <2>8
  <2>10. Closes(last, <<FinAck(last)>>)
    BY <2>2, <2>7, Sent DEF Closes, Live
  <2> HIDE DEF s, rest
  <2> QED
    BY <1>1, <1>8, <2>4, <2>7, <2>9, <2>10 DEF EndStep, Answers
<1>14. CASE /\ data # <<>> \/ n > 0
            /\ Call(e, data, n)
            /\ \E c3 \in MayStop(e, c2, data # <<>>) : AppSend(e, rest, c3, data # <<>>)
  <2>1. PICK c3 \in MayStop(e, c2, data # <<>>) : AppSend(e, rest, c3, data # <<>>)
    BY <1>14
  <2>2. c3 = c2 \/ c3 = [c2 EXCEPT !.stopped = TRUE]
    BY <2>1 DEF MayStop
  <2>3. /\ c3 \in Slots /\ c3.st = "ESTABLISHED" /\ c3.snd = c2.snd /\ c3.rcv = c2.rcv
        /\ c3.len = c2.len
    <3>1. CASE c3 = c2
      BY <1>8, <3>1
    <3>2. CASE c3 = [c2 EXCEPT !.stopped = TRUE]
      <4>1. c3 \in Slots
        BY <1>8, <3>2, SlotChanged
      <4> QED
        BY <1>8, <3>2, <4>1 DEF Slots
    <3> QED
      BY <2>2, <3>1, <3>2
  <2>4. Hears(e, rest, c3, data, n)
    BY <1>10, <1>14, <2>3
  <2>5. acked[e] + n + c3.len <= Length[e]
    BY <1>11, <2>3
  <2> HIDE DEF s, rest
  <2> QED
    BY <1>1, <1>5, <2>1, <2>3, <2>4, <2>5, HearsAnswers
<1>15. CASE data = <<>> /\ ~(n > 0) /\ Finish(e, rest, c, <<>>) /\ NoCall
  <2>1. n = 0
    BY <1>5, <1>15
  <2>2. ~Acks(conn[e], s)
    BY <1>2, <2>1 DEF n
  <2>3. c = conn[e]
    BY <1>2, <2>2
  <2> HIDE DEF s, rest
  <2> QED
    BY <1>1, <1>2, <1>3, <1>15, <2>3, SilentStep
<1> QED
  BY <1>12, <1>13, <1>14, <1>15 DEF Established, s, rest, c, n, data, c2

LEMMA ClosingSteps ==
    ASSUME TypeInv, NEW e \in Ends, net[e] # <<>>, UNCHANGED env,
           LET s == Head(net[e])
               c == Taken(conn[e], s)
           IN LastAck(e, s, c) \/ FinWait(e, s, c) \/ TimeWait(e, s, c) \/ Closing(e, s, c)
    PROVE  \E rest, d, out : EndStep(e, rest, d, out)
<1> DEFINE s == Head(net[e])
           rest == Tail(net[e])
           c == Taken(conn[e], s)
           c2 == AddRcvNxt(c, Len(s.data))
<1>1. /\ s \in Segments /\ Took(e, rest) /\ Rest(e, rest) /\ conn[e] \in Slots
      /\ Closed \in Slots /\ Closed.st \notin Live
  BY SlotKept DEF Rest, Live
<1>2. c \in Slots /\ c.st = conn[e].st
  BY <1>1, TakenIs
<1>3. LastAck(e, s, c) \/ FinWait(e, s, c) \/ TimeWait(e, s, c) \/ Closing(e, s, c)
  OBVIOUS
<1>4. NoCall /\ conn[e].st \in {"LAST_ACK", "FIN_WAIT_1", "FIN_WAIT_2", "TIME_WAIT", "CLOSING"}
  BY <1>2, <1>3, Zenon DEF LastAck, FinWait, TimeWait, Closing
<1>5. ASSUME NEW d \in Slots, d.st \notin Live, Finish(e, rest, d, <<>>)
      PROVE  \E r, d1, o : EndStep(e, r, d1, o)
  <2> HIDE DEF rest, s, c
  <2> QED
    BY <1>1, <1>4, <1>5, LeavesStep
<1>6. ASSUME NEW d \in Slots, d.st \notin Live, Finish(e, rest, d, <<Ack(d)>>)
      PROVE  \E r, d1, o : EndStep(e, r, d1, o)
  <2>1. Ack(d) \in Segments /\ Ack(d).data = <<>> /\ ~IsSyn(Ack(d))
    BY Sent
  <2>2. conn[e].st \notin {"CLOSED", "SYN_SENT", "SYN_RCVD"}
    BY <1>4
  <2> HIDE DEF rest, s, c
  <2>3. \E m \in Segments : <<Ack(d)>> = <<m>> /\ m.data = <<>> /\ ~IsSyn(m)
    BY <2>1
  <2> QED
    BY <1>1, <1>4, <1>6, <2>2, <2>3, LeavesStep
<1>7. Len(s.data) \in Nat
  BY <1>1 DEF Segments
<1>8. c.st \notin Live
  BY <1>2, <1>4 DEF Live
<1>9. c2 \in Slots /\ c2.st = c.st
  <2> DEFINE m == Len(s.data)
  <2>1. m \in Nat
    BY <1>7
  <2> HIDE DEF m, c
  <2> QED
    BY <1>2, <2>1, AddRcvNxtIs DEF m
<1>10. CASE LastAck(e, s, c)
  <2>1. CASE Acks(conn[e], s)
    <3>1. Finish(e, rest, Closed, <<>>)
      BY <1>10, <2>1 DEF LastAck
    <3> QED
      BY <1>1, <1>5, <3>1
  <2>2. CASE ~Acks(conn[e], s)
    <3>1. Finish(e, rest, c, <<>>)
      BY <1>10, <2>2 DEF LastAck
    <3> QED
      BY <1>2, <1>5, <1>8, <3>1
  <2> QED
    BY <2>1, <2>2
<1>11. CASE FinWait(e, s, c)
  <2> DEFINE next == IF c.st = "FIN_WAIT_1" /\ ~Acks(conn[e], s) THEN "CLOSING" ELSE "TIME_WAIT"
             fin == [AddRcvNxt(c2, 1) EXCEPT !.st = next]
             acks == c.st = "FIN_WAIT_1" /\ Acks(conn[e], s)
  <2>1. \/ Finish(e, rest, fin, <<Ack(fin)>>)
        \/ Finish(e, rest, [c2 EXCEPT !.st = "FIN_WAIT_2"], <<>>)
        \/ Finish(e, rest, c2, IF s.data # <<>> THEN <<Ack(c2)>> ELSE <<>>)
    BY <1>11, Zenon DEF FinWait
  <2>2. next \in States /\ next \notin Live /\ "FIN_WAIT_2" \in States /\ "FIN_WAIT_2" \notin Live
    BY DEF States, Live
  <2> HIDE DEF c2, next
  <2>3. CASE Finish(e, rest, fin, <<Ack(fin)>>)
    <3>1. AddRcvNxt(c2, 1) \in Slots
      BY <1>9, AddRcvNxtIs
    <3>2. fin \in Slots /\ fin.st = next
      <4> DEFINE a == AddRcvNxt(c2, 1)
      <4>1. a \in Slots /\ fin = [a EXCEPT !.st = next]
        BY <3>1
      <4> HIDE DEF a, fin
      <4> QED
        BY <2>2, <4>1, SlotChanged DEF Slots
    <3> HIDE DEF fin
    <3> QED
      BY <1>6, <2>2, <2>3, <3>2
  <2>4. CASE Finish(e, rest, [c2 EXCEPT !.st = "FIN_WAIT_2"], <<>>)
    <3> DEFINE d == [c2 EXCEPT !.st = "FIN_WAIT_2"]
    <3>1. d \in Slots /\ d.st = "FIN_WAIT_2"
      BY <1>9, <2>2, SlotChanged DEF Slots
    <3> HIDE DEF d
    <3>2. Finish(e, rest, d, <<>>)
      BY <2>4 DEF d
    <3> QED
      BY <1>5, <2>2, <3>1, <3>2
  <2>5. CASE Finish(e, rest, c2, IF s.data # <<>> THEN <<Ack(c2)>> ELSE <<>>)
    <3>1. CASE s.data # <<>>
      <4>1. Finish(e, rest, c2, <<Ack(c2)>>)
        BY <2>5, <3>1
      <4> QED
        BY <1>6, <1>8, <1>9, <4>1
    <3>2. CASE s.data = <<>>
      <4>1. Finish(e, rest, c2, <<>>)
        BY <2>5, <3>2
      <4> QED
        BY <1>5, <1>8, <1>9, <4>1
    <3> QED
      BY <3>1, <3>2
  <2> QED
    BY <2>1, <2>3, <2>4, <2>5
<1>12. CASE TimeWait(e, s, c)
  <2>1. Finish(e, rest, c, <<Ack(c)>>)
    BY <1>12 DEF TimeWait
  <2> QED
    BY <1>2, <1>6, <1>8, <2>1
<1>13. CASE Closing(e, s, c)
  <2> DEFINE d == [c EXCEPT !.st = "TIME_WAIT"]
  <2>1. d \in Slots /\ d.st = "TIME_WAIT" /\ "TIME_WAIT" \notin Live
    <3>1. "TIME_WAIT" \in States /\ "TIME_WAIT" \notin Live
      BY DEF States, Live
    <3>2. d.st = "TIME_WAIT"
      BY <1>2 DEF Slots
    <3> HIDE DEF c
    <3>3. d \in Slots
      BY <1>2, <3>1, SlotChanged
    <3> QED
      BY <3>1, <3>2, <3>3
  <2>2. Finish(e, rest, d, <<>>) \/ Finish(e, rest, c, <<>>)
    BY <1>13 DEF Closing
  <2> HIDE DEF d, c
  <2> QED
    BY <1>2, <1>5, <1>8, <2>1, <2>2
<1> QED
  BY <1>3, <1>10, <1>11, <1>12, <1>13

LEMMA FoundSteps ==
    ASSUME TypeInv, NEW e \in Ends, net[e] # <<>>, Found(e, Head(net[e])), UNCHANGED env
    PROVE  \E rest, d, out : EndStep(e, rest, d, out)
<1> DEFINE s == Head(net[e])
           rest == Tail(net[e])
           c == Taken(conn[e], s)
<1>1. /\ s \in Segments /\ Took(e, rest) /\ Rest(e, rest) /\ conn[e] \in Slots
      /\ Closed \in Slots /\ Closed.st \notin Live /\ Closed.st = "CLOSED"
  BY SlotKept DEF Rest, Live
<1>2. conn[e].st # "CLOSED"
  BY DEF Found
<1>3. CASE Has(s, "RST") /\ Finish(e, rest, Closed, <<>>) /\ NoCall
  <2> HIDE DEF s, rest, c
  <2> QED
    BY <1>1, <1>3, LeavesStep
<1>4. CASE /\ ~Has(s, "RST") /\ Unexpected(conn[e], s)
           /\ Finish(e, rest, conn[e], <<Ack(conn[e])>>) /\ NoCall
  <2> HIDE DEF rest, c
  <2>1. CASE conn[e].st \in {"SYN_SENT", "SYN_RCVD"}
    <3>1. Keeps(e, rest, conn[e], <<Ack(conn[e])>>)
      BY <1>1, <1>4, <2>1 DEF Keeps
    <3> QED
      BY <1>1, <1>4, <3>1, KeepsStep
  <2>2. CASE conn[e].st = "ESTABLISHED"
    BY <1>1, <1>4, <2>2, SilentStep
  <2>3. CASE conn[e].st \notin Live
    <3>1. Ack(conn[e]) \in Segments /\ Ack(conn[e]).data = <<>> /\ ~IsSyn(Ack(conn[e]))
      BY <1>1, Sent
    <3>2. conn[e].st \notin {"CLOSED", "SYN_SENT", "SYN_RCVD"}
      BY <1>2, <2>3 DEF Live
    <3>3. \E m \in Segments : <<Ack(conn[e])>> = <<m>> /\ m.data = <<>> /\ ~IsSyn(m)
      BY <3>1
    <3> QED
      BY <1>1, <1>4, <2>3, <3>2, <3>3, LeavesStep
  <2> QED
    BY <2>1, <2>2, <2>3 DEF Live
<1>5. CASE /\ ~Has(s, "RST") /\ ~Unexpected(conn[e], s)
           /\ \/ SynRcvd(e, s, c) \/ SynSent(e, s, c) \/ Established(e, s, c)
              \/ LastAck(e, s, c) \/ FinWait(e, s, c) \/ TimeWait(e, s, c)
              \/ Closing(e, s, c)
  <2>1. CASE SynRcvd(e, s, c)
    BY <1>5, <2>1, SynRcvdSteps
  <2>2. CASE SynSent(e, s, c)
    BY <1>5, <2>2, SynSentSteps
  <2>3. CASE Established(e, s, c)
    BY <1>5, <2>3, EstablishedSteps
  <2>4. CASE LastAck(e, s, c) \/ FinWait(e, s, c) \/ TimeWait(e, s, c) \/ Closing(e, s, c)
    BY <2>4, ClosingSteps
  <2> QED
    BY <1>5, <2>1, <2>2, <2>3, <2>4
<1> QED
  BY <1>3, <1>4, <1>5, Zenon DEF Found

LEMMA RetransmitSteps ==
    ASSUME TypeInv, NEW e \in Ends, Retransmit(e)
    PROVE  \E rest, d, out : EndStep(e, rest, d, out)
<1> DEFINE c == conn[e]
           d == Again(c)
<1>1. /\ c \in Slots /\ Closed \in Slots /\ Closed.st \notin Live /\ Closed.st = "CLOSED"
      /\ Rest(e, net[e])
  BY SlotKept DEF Rest, Live
<1>2. c.len # 0 /\ UNCHANGED env /\ NoCall
  BY DEF Retransmit, Outstanding
<1>3. CASE GivesUp(c) /\ Finish(e, net[e], Closed, <<Rst>>)
  BY <1>1, <1>2, <1>3, LeavesStep
<1>4. CASE ~GivesUp(c)
  <2>1. c.nrtx + 1 \in 0..MaxRtx
    <3>1. c.nrtx \in 0..MaxRtx /\ c.nrtx # MaxRtx
      BY <1>1, <1>4 DEF GivesUp, Slots
    <3> QED
      BY <3>1, Sizes
  <2>2. d \in Slots
    BY <1>1, <2>1, SlotChanged DEF Again
  <2>3. d.st = c.st /\ d.snd = c.snd /\ d.rcv = c.rcv /\ d.len = c.len
    BY <1>1 DEF Again, Slots
  <2>4. Syn(c) = Syn(d) /\ SynAck(c) = SynAck(d) /\ FinAck(c) = FinAck(d) /\ Data(e, c, c.len) = Data(e, d, d.len)
    BY <2>3 DEF Syn, SynAck, FinAck, Data, Segment
  <2> HIDE DEF d
  <2>5. CASE c.st = "SYN_RCVD" /\ Finish(e, net[e], d, <<SynAck(c)>>)
    <3>1. Keeps(e, net[e], d, <<SynAck(d)>>)
      BY <1>2, <2>3, <2>5 DEF Keeps
    <3> QED
      BY <1>1, <1>2, <2>2, <2>4, <2>5, <3>1, KeepsStep
  <2>6. CASE c.st = "SYN_SENT" /\ Finish(e, net[e], d, <<Syn(c)>>)
    <3>1. Keeps(e, net[e], d, <<Syn(d)>>)
      BY <1>2, <2>3, <2>6 DEF Keeps
    <3> QED
      BY <1>1, <1>2, <2>2, <2>4, <2>6, <3>1, KeepsStep
  <2>7. CASE c.st = "ESTABLISHED" /\ Finish(e, net[e], d, <<Data(e, c, c.len)>>)
    BY <1>1, <1>2, <2>2, <2>3, <2>4, <2>7, SilentStep
  <2>8. CASE c.st \in {"FIN_WAIT_1", "CLOSING", "LAST_ACK"} /\ Finish(e, net[e], d, <<FinAck(c)>>)
    <3>1. FinAck(d) \in Segments /\ FinAck(d).data = <<>> /\ ~IsSyn(FinAck(d))
      BY <2>2, Sent
    <3>2. c.st \notin {"CLOSED", "SYN_SENT", "SYN_RCVD"} /\ d.st \notin Live
      BY <2>3, <2>8 DEF Live
    <3>3. \E m \in Segments : <<FinAck(d)>> = <<m>> /\ m.data = <<>> /\ ~IsSyn(m)
      BY <3>1
    <3> QED
      BY <1>1, <1>2, <2>2, <2>4, <2>8, <3>2, <3>3, LeavesStep
  <2> QED
    BY <1>4, <2>5, <2>6, <2>7, <2>8, Zenon DEF Retransmit, d
<1> QED
  BY <1>3, <1>4, Zenon DEF Retransmit

LEMMA WaitOverSteps ==
    ASSUME TypeInv, NEW e \in Ends, WaitOver(e)
    PROVE  \E rest, d, out : EndStep(e, rest, d, out)
<1>1. Closed \in Slots /\ Closed.st \notin Live /\ Closed.st = "CLOSED" /\ Rest(e, net[e])
  BY SlotKept DEF Rest, Live
<1>2. Finish(e, net[e], Closed, <<>>) /\ NoCall /\ UNCHANGED env
  BY DEF WaitOver
<1> QED
  BY <1>1, <1>2, LeavesStep

LEMMA PollSteps ==
    ASSUME TypeInv, NEW e \in Ends, Poll(e)
    PROVE  \E rest, d, out : EndStep(e, rest, d, out)
<1> DEFINE c == conn[e]
           c1 == [c EXCEPT !.stopped = FALSE]
<1>1. /\ c \in Slots /\ Rest(e, net[e]) /\ acked[e] \in Nat /\ Length[e] \in Nat
      /\ NoCall /\ UNCHANGED env
  BY SlotKept, Sizes DEF Rest, TypeInv, Poll
<1>2. c.st = "ESTABLISHED" /\ acked[e] + c.len <= Length[e]
  <2>1. c.st = "ESTABLISHED"
    BY DEF Poll
  <2> QED
    BY <2>1 DEF TypeInv
<1>3. c.len \in Nat /\ Add(c.snd, 0) = c.snd /\ Add(c.rcv, 0) = c.rcv /\ c.len - 0 = c.len
  BY <1>1, Adding DEF Slots
<1>4. ASSUME NEW b \in Slots, b.st = "ESTABLISHED", b.snd = c.snd, b.rcv = c.rcv, b.len = c.len,
             NEW newdata, AppSend(e, net[e], b, newdata)
      PROVE  \E rest, d, out : EndStep(e, rest, d, out)
  <2>1. HearsOpen(e, net[e], b, <<>>, 0)
    BY <1>2, <1>3, <1>4 DEF HearsOpen
  <2>2. Told(e, <<>>, 0)
    BY <1>1 DEF Told
  <2>3. Hears(e, net[e], b, <<>>, 0)
    BY <1>4, <2>1, <2>2 DEF Hears
  <2>4. acked[e] + 0 + b.len <= Length[e]
    BY <1>1, <1>2, <1>3, <1>4
  <2> QED
    BY <1>1, <1>4, <2>3, <2>4, HearsAnswers
<1>5. CASE AppSend(e, net[e], c, FALSE)
  BY <1>1, <1>2, <1>4, <1>5
<1>6. CASE AppSend(e, net[e], c1, TRUE)
  <2>1. c1 \in Slots /\ c1.st = c.st /\ c1.snd = c.snd /\ c1.rcv = c.rcv /\ c1.len = c.len
    BY <1>1, SlotChanged DEF Slots
  <2> HIDE DEF c1
  <2> QED
    BY <1>2, <1>4, <1>6, <2>1
<1> QED
  BY <1>5, <1>6 DEF Poll

\* The client opens, the server stops listening, or an end takes a step.
LEMMA Steps ==
    ASSUME TypeInv, Next
    PROVE  \/ uip_connect \/ uip_unlisten
           \/ \E e \in Ends : \E rest, d, out : EndStep(e, rest, d, out)
<1>1. ASSUME NEW e \in Ends, Receive(e) \/ Retransmit(e) \/ WaitOver(e) \/ Poll(e)
      PROVE  \E rest, d, out : EndStep(e, rest, d, out)
  <2>1. CASE Receive(e)
    <3>1. net[e] # <<>> /\ UNCHANGED env
      BY <2>1 DEF Receive
    <3> QED
      BY <2>1, <3>1, NoConnectionSteps, FoundSteps DEF Receive
  <2> QED
    BY <1>1, <2>1, RetransmitSteps, WaitOverSteps, PollSteps
<1> QED
  BY <1>1 DEF Next

-----------------------------------------------------------------------------
(* Types                                                                   *)

\* What a step changes, and what it may send.
LEMMA StepParts ==
    ASSUME TypeInv, NEW e \in Ends, NEW rest, NEW d, NEW out, EndStep(e, rest, d, out)
    PROVE  /\ conn' \in [Ends -> Slots] /\ conn'[e] = d /\ conn'[Peer(e)] = conn[Peer(e)]
           /\ OneAtMost(out) /\ Rest(e, rest) /\ Carry(e, rest, out)
           /\ \A m \in Segments : out = <<m>> => Fits(e, m.data)
           /\ acked' \in [Ends -> Nat] /\ got' \in [Ends -> Seq(Nat)] /\ most' \in [Ends -> Nat]
           /\ acked'[Peer(e)] = acked[Peer(e)] /\ got'[Peer(e)] = got[Peer(e)]
           /\ most'[Peer(e)] = most[Peer(e)]
           /\ acked'[e] <= Length[e] /\ got'[e] \in Seq(1..Length[Peer(e)])
           /\ d.st = "ESTABLISHED" => acked'[e] + d.len <= Length[e]
           /\ d.st = "SYN_SENT" => conn[e].st = "SYN_SENT"
           /\ d.st = "SYN_RCVD" => conn[e].st = "SYN_RCVD" \/ e = Server
<1> DEFINE p == Peer(e)
<1>1. /\ p \in Ends /\ p # e /\ Ends = {e, p} /\ d \in Slots /\ conn \in [Ends -> Slots]
      /\ acked \in [Ends -> Nat] /\ got \in [Ends -> Seq(Nat)] /\ most \in [Ends -> Nat]
      /\ acked[e] <= Length[e] /\ got[e] \in Seq(1..Length[p]) /\ Length[e] \in Nat
      /\ Rest(e, rest) /\ Carry(e, rest, out) /\ conn' = [conn EXCEPT ![e] = d]
  BY TwoEnds, Sizes DEF TypeInv, EndStep, Finish
<1>2. conn' \in [Ends -> Slots] /\ conn'[e] = d /\ conn'[p] = conn[p]
  BY <1>1
<1>3. \A m : m.data = <<>> => Fits(e, m.data)
  BY Sizes DEF Fits
<1> DEFINE Small == OneAtMost(out) /\ \A m \in Segments : out = <<m>> => Fits(e, m.data)
           StreamOK == /\ acked' \in [Ends -> Nat] /\ got' \in [Ends -> Seq(Nat)]
                       /\ most' \in [Ends -> Nat]
                       /\ acked'[p] = acked[p] /\ got'[p] = got[p] /\ most'[p] = most[p]
                       /\ acked'[e] <= Length[e] /\ got'[e] \in Seq(1..Length[p])
           Goal == /\ Small /\ StreamOK
                   /\ d.st = "ESTABLISHED" => acked'[e] + d.len <= Length[e]
                   /\ d.st = "SYN_SENT" => conn[e].st = "SYN_SENT"
                   /\ d.st = "SYN_RCVD" => conn[e].st = "SYN_RCVD" \/ e = Server
<1>4. ASSUME NEW m \in Segments, out = <<m>>, Fits(e, m.data) PROVE Small
  <2>1. \A k \in Segments : out = <<k>> => k = m
    BY <1>4
  <2> QED
    BY <1>4, <2>1 DEF OneAtMost
<1>5. ASSUME out = <<>> PROVE Small
  <2>1. \A k \in Segments : out # <<k>>
    BY <1>5
  <2> QED
    BY <1>5, <2>1 DEF OneAtMost
<1>6. ASSUME out \in {<<>>, <<Syn(d)>>, <<SynAck(d)>>, <<Ack(d)>>, <<Rst>>} PROVE Small
  BY <1>1, <1>3, <1>4, <1>5, <1>6, Sent
<1>7. ASSUME \E m \in Segments : out = <<m>> /\ m.data = <<>> /\ ~IsSyn(m) PROVE Small
  BY <1>3, <1>4, <1>7
<1>8. NoCall => StreamOK
  BY <1>1 DEF NoCall
<1> HIDE DEF Small, StreamOK
<1>9. ASSUME Keeps(e, rest, d, out) PROVE Goal
  <2>1. /\ NoCall /\ d.st = conn[e].st /\ conn[e].st \in {"SYN_SENT", "SYN_RCVD"}
        /\ out \in {<<>>, <<Syn(d)>>, <<SynAck(d)>>, <<Ack(d)>>, <<Rst>>}
    BY <1>9 DEF Keeps
  <2>2. Small
    BY <1>6, <2>1
  <2>3. StreamOK
    BY <1>8, <2>1
  <2> QED
    BY <2>1, <2>2, <2>3
<1>10. ASSUME Leaves(e, d, out) PROVE Goal
  <2>1. /\ NoCall /\ d.st \notin Live
        /\ \/ out \in {<<>>, <<Rst>>}
           \/ \E m \in Segments : out = <<m>> /\ m.data = <<>> /\ ~IsSyn(m)
    BY <1>10 DEF Leaves
  <2>2. Small
    BY <1>6, <1>7, <2>1
  <2>3. StreamOK
    BY <1>8, <2>1
  <2> QED
    BY <2>1, <2>2, <2>3 DEF Live
<1>11. ASSUME Accepts(e, rest, d, out) PROVE Goal
  <2>1. /\ e = Server /\ d.st = "SYN_RCVD" /\ out = <<SynAck(d)>>
        /\ got' = [got EXCEPT ![e] = <<>>] /\ acked' = acked /\ most' = most
    BY <1>11 DEF Accepts
  <2>2. StreamOK
    <3>1. <<>> \in Seq(Nat) /\ <<>> \in Seq(1..Length[p])
      OBVIOUS
    <3> QED
      BY <1>1, <2>1, <3>1 DEF StreamOK
  <2>3. Small
    BY <1>6, <2>1
  <2> QED
    BY <2>1, <2>2, <2>3
<1>12. ASSUME NEW b \in Slots, NEW data, NEW n, Hears(e, rest, b, data, n), Answers(e, b, d, out)
       PROVE  Goal
  <2>1. b.st = "ESTABLISHED" /\ Told(e, data, n) /\ conn[e] \in Slots
    BY <1>1, <1>12 DEF Hears
  <2>2. /\ data \in Seq(Nat) /\ data \in Seq(1..Length[p]) /\ n \in Nat
        /\ acked[e] + n + b.len <= Length[e]
    <3>1. ASSUME Took(e, rest)
          PROVE  Head(net[e]).data \in Seq(Nat) /\ Head(net[e]).data \in Seq(1..Length[p])
      <4>1. Head(net[e]) \in Segments /\ Fits(p, Head(net[e]).data)
        BY <3>1, SlotKept DEF Took
      <4> QED
        BY <4>1 DEF Segments, Fits
    <3>2. CASE HearsOpen(e, rest, b, data, n)
      <4>1. /\ conn[e].st = "ESTABLISHED" /\ n \in {0, conn[e].len} /\ b.len = conn[e].len - n
            /\ data # <<>> => Took(e, rest) /\ data = Head(net[e]).data
        BY <3>2 DEF HearsOpen
      <4>2. conn[e].len \in Nat /\ acked[e] + conn[e].len <= Length[e]
        <5>1. conn[e].len \in Nat
          BY <2>1 DEF Slots
        <5>2. acked[e] + conn[e].len <= Length[e]
          BY <4>1 DEF TypeInv
        <5> QED
          BY <5>1, <5>2
      <4>3. n \in Nat /\ acked[e] + n + b.len <= Length[e]
        BY <1>1, <4>1, <4>2
      <4>4. data \in Seq(Nat) /\ data \in Seq(1..Length[p])
        <5>1. CASE data = <<>>
          BY <5>1
        <5>2. CASE data # <<>>
          BY <3>1, <4>1, <5>2
        <5> QED
          BY <5>1, <5>2
      <4> QED
        BY <4>3, <4>4
    <3>3. CASE HearsAck(e, rest, b, data, n)
      <4>1. n = 0 /\ b.len = 0 /\ Took(e, rest) /\ data = Head(net[e]).data
        BY <3>3 DEF HearsAck
      <4> QED
        BY <1>1, <3>1, <4>1
    <3>4. CASE HearsSynAck(e, rest, b, data, n)
      <4>1. n = 0 /\ b.len = 0 /\ data = <<>>
        BY <3>4 DEF HearsSynAck
      <4> QED
        BY <1>1, <4>1
    <3> QED
      BY <1>12, <3>2, <3>3, <3>4 DEF Hears
  <2>3. /\ acked' = [acked EXCEPT ![e] = @ + n]
        /\ got' = [got EXCEPT ![e] = @ \o data]
        /\ most' = [most EXCEPT ![e] = Max({@, Len(got[e]) + Len(data)})] \/ most' = most
    <3>1. CASE Call(e, data, n)
      BY <3>1 DEF Call
    <3>2. CASE data = <<>> /\ n = 0 /\ NoCall
      <4>1. [acked EXCEPT ![e] = @ + 0] = acked
        BY <1>1
      <4>2. [got EXCEPT ![e] = @ \o <<>>] = got
        <5>1. got[e] \o <<>> = got[e]
          BY <1>1
        <5> QED
          BY <1>1, <5>1
      <4> QED
        BY <3>2, <4>1, <4>2 DEF NoCall
    <3> QED
      BY <2>1, <3>1, <3>2 DEF Told
  <2>4. Max({most[e], Len(got[e]) + Len(data)}) \in Nat
    <3>1. most[e] \in Nat /\ Len(got[e]) + Len(data) \in Nat
      BY <1>1, <2>2
    <3>2. \A i, j \in Nat : Max({i, j}) \in Nat
      <4> TAKE i, j \in Nat
      <4>1. \E x \in {i, j} : \A y \in {i, j} : x >= y
        OBVIOUS
      <4>2. Max({i, j}) \in {i, j}
        BY <4>1 DEF Max
      <4> QED
        BY <4>2
    <3> QED
      BY <3>1, <3>2
  <2>5. b.len \in Nat
    BY DEF Slots
  <2>6. StreamOK /\ acked'[e] = acked[e] + n
    <3>1. got[e] \o data \in Seq(Nat) /\ got[e] \o data \in Seq(1..Length[p])
      BY <1>1, <2>2
    <3>2. acked[e] + n \in Nat /\ acked[e] + n <= Length[e]
      BY <1>1, <2>2, <2>5
    <3>3. most' \in [Ends -> Nat] /\ most'[p] = most[p]
      BY <1>1, <2>3, <2>4
    <3> QED
      BY <1>1, <2>3, <3>1, <3>2, <3>3 DEF StreamOK
  <2>7. CASE Closes(d, out)
    BY <1>7, <2>6, <2>7 DEF Closes, Live
  <2>8. CASE Speaks(e, b, d, out)
    <3>1. d.st = "ESTABLISHED"
      BY <2>8 DEF Speaks
    <3>2. CASE out \in {<<>>, <<Ack(d)>>} /\ d.len = b.len
      <4>1. acked'[e] + d.len <= Length[e]
        BY <1>1, <2>2, <2>5, <2>6, <3>2
      <4> QED
        BY <1>6, <2>6, <3>1, <3>2, <4>1
    <3>3. CASE /\ d.len \in 1..Mss /\ acked'[e] + d.len <= Length[e] /\ b.len \in {0, d.len}
               /\ out = <<Data(e, d, d.len)>>
      <4>1. acked'[e] \in Nat
        BY <1>1, <2>2, <2>6
      <4>2. Data(e, d, d.len) \in Segments /\ Fits(e, Data(e, d, d.len).data)
        BY <1>1, <3>3, <4>1, DataSent
      <4> QED
        BY <1>4, <2>6, <3>1, <3>3, <4>2
    <3> QED
      BY <2>8, <3>2, <3>3 DEF Speaks
  <2> QED
    BY <1>12, <2>7, <2>8 DEF Answers
<1> HIDE DEF Goal
<1>13. Goal
  BY <1>9, <1>10, <1>11, <1>12, Zenon DEF EndStep
<1> QED
  BY <1>1, <1>2, <1>13 DEF Small, StreamOK, Goal

LEMMA TypeStart == Init => TypeInv /\ Unopened
<1> SUFFICES ASSUME Init PROVE TypeInv /\ Unopened
  OBVIOUS
<1>1. /\ conn = [e \in Ends |-> Closed] /\ opened = FALSE /\ listening = TRUE
      /\ net = [e \in Ends |-> <<>>] /\ acked = [e \in Ends |-> 0]
      /\ got = [e \in Ends |-> <<>>] /\ most = [e \in Ends |-> 0]
  BY DEF Init
<1>2. Closed \in Slots /\ Closed.st = "CLOSED"
  BY Sizes DEF Closed, Slots, States
<1>3. \A e \in Ends : Length[e] \in Nat /\ 0 <= Length[e] /\ 0 <= MaxFlight
  BY Sizes
<1>4. /\ <<>> \in Seq(Segments) /\ <<>> \in Seq(Nat) /\ Len(<<>>) = 0 /\ DOMAIN <<>> = {}
      /\ \A e \in Ends : <<>> \in Seq(1..Length[Peer(e)])
  OBVIOUS
<1>5. TypeInv
  BY <1>1, <1>2, <1>3, <1>4, TwoEnds DEF TypeInv
<1>6. Unopened
  BY <1>1 DEF Unopened
<1> QED
  BY <1>5, <1>6

LEMMA TypeStep ==
    ASSUME TypeInv, NEW e \in Ends, NEW rest, NEW d, NEW out, EndStep(e, rest, d, out)
    PROVE  TypeInv'
<1> DEFINE p == Peer(e)
<1>1. /\ p \in Ends /\ p # e /\ Ends = {e, p} /\ Peer(p) = e /\ Client \in Ends /\ Server \in Ends
      /\ Client # Server
  BY TwoEnds
<1>2. /\ conn' \in [Ends -> Slots] /\ conn'[e] = d /\ conn'[p] = conn[p]
      /\ OneAtMost(out) /\ Rest(e, rest) /\ Carry(e, rest, out)
      /\ \A m \in Segments : out = <<m>> => Fits(e, m.data)
      /\ acked' \in [Ends -> Nat] /\ got' \in [Ends -> Seq(Nat)] /\ most' \in [Ends -> Nat]
      /\ acked'[p] = acked[p] /\ got'[p] = got[p] /\ most'[p] = most[p]
      /\ acked'[e] <= Length[e] /\ got'[e] \in Seq(1..Length[p])
      /\ d.st = "ESTABLISHED" => acked'[e] + d.len <= Length[e]
      /\ d.st = "SYN_SENT" => conn[e].st = "SYN_SENT"
      /\ d.st = "SYN_RCVD" => conn[e].st = "SYN_RCVD" \/ e = Server
  BY StepParts
<1>3. /\ net' \in [Ends -> Seq(Segments)] /\ net'[e] = rest
      /\ \A x \in Ends : Len(net'[x]) <= MaxFlight
      /\ \E k \in {0, 1} : /\ k = 1 <=> rest # net[e]
                           /\ k = 1 => Took(e, rest)
                           /\ \A i \in DOMAIN rest : /\ i + k \in DOMAIN net[e]
                                                     /\ rest[i] = net[e][i + k]
      /\ \A i \in DOMAIN net'[p] :
            \/ i \in DOMAIN net[p] /\ net'[p][i] = net[p][i]
            \/ i = Len(net[p]) + 1 /\ out = <<net'[p][i]>>
  BY <1>2, Carried
<1>4. /\ opened' = opened /\ listening' = listening
  BY DEF EndStep, env
<1>5. /\ \A x \in Ends : /\ \A i \in DOMAIN net[x] : Fits(Peer(x), net[x][i].data)
                         /\ acked[x] <= Length[x] /\ got[x] \in Seq(1..Length[Peer(x)])
                         /\ conn[x].st = "ESTABLISHED" => acked[x] + conn[x].len <= Length[x]
      /\ opened \in BOOLEAN /\ listening \in BOOLEAN
      /\ conn[Client].st # "SYN_RCVD" /\ conn[Server].st # "SYN_SENT"
  BY DEF TypeInv
<1>6. \A i \in DOMAIN net'[e] : Fits(p, net'[e][i].data)
  BY <1>1, <1>3, <1>5
<1>7. \A i \in DOMAIN net'[p] : Fits(e, net'[p][i].data)
  <2> TAKE i \in DOMAIN net'[p]
  <2>1. net'[p][i] \in Segments
    BY <1>1, <1>3
  <2> QED
    BY <1>1, <1>2, <1>3, <1>5, <2>1
<1>8. conn'[Client].st # "SYN_RCVD" /\ conn'[Server].st # "SYN_SENT"
  <2>1. CASE e = Client
    BY <1>1, <1>2, <1>5, <2>1
  <2>2. CASE e = Server
    BY <1>1, <1>2, <1>5, <2>2
  <2> QED
    BY <2>1, <2>2 DEF Ends
<1>9. \A x \in Ends :
          /\ Len(net'[x]) <= MaxFlight
          /\ \A i \in DOMAIN net'[x] : Fits(Peer(x), net'[x][i].data)
          /\ acked'[x] <= Length[x] /\ got'[x] \in Seq(1..Length[Peer(x)])
          /\ conn'[x].st = "ESTABLISHED" => acked'[x] + conn'[x].len <= Length[x]
  <2>1. /\ acked'[p] <= Length[p] /\ got'[p] \in Seq(1..Length[e])
        /\ conn'[p].st = "ESTABLISHED" => acked'[p] + conn'[p].len <= Length[p]
    BY <1>1, <1>2, <1>5
  <2>2. ASSUME NEW x \in Ends
        PROVE  /\ Len(net'[x]) <= MaxFlight
               /\ \A i \in DOMAIN net'[x] : Fits(Peer(x), net'[x][i].data)
               /\ acked'[x] <= Length[x] /\ got'[x] \in Seq(1..Length[Peer(x)])
               /\ conn'[x].st = "ESTABLISHED" => acked'[x] + conn'[x].len <= Length[x]
    <3>1. CASE x = e
      BY <1>2, <1>3, <1>6, <3>1
    <3>2. CASE x = p
      BY <1>1, <1>3, <1>7, <2>1, <3>2
    <3> QED
      BY <1>1, <3>1, <3>2
  <2> QED
    BY <2>2
<1> HIDE DEF p
<1> QED
  BY <1>2, <1>3, <1>4, <1>5, <1>8, <1>9 DEF TypeInv

LEMMA TypeKept == ASSUME TypeInv, [Next]_vars PROVE TypeInv'
<1>1. ASSUME NEW e \in Ends, NEW rest, NEW d, NEW out, EndStep(e, rest, d, out) PROVE TypeInv'
  BY <1>1, TypeStep
<1>2. CASE uip_connect
  <2>1. PICK i \in Iss : conn' = [conn EXCEPT ![Client] =
            [Closed EXCEPT !.st = "SYN_SENT", !.snd = i, !.len = 1]]
    BY <1>2 DEF uip_connect
  <2> DEFINE c1 == [Closed EXCEPT !.st = "SYN_SENT"]
             c2 == [c1 EXCEPT !.snd = i]
             c == [Closed EXCEPT !.st = "SYN_SENT", !.snd = i, !.len = 1]
  <2>2. Closed \in Slots /\ "SYN_SENT" \in States /\ i \in Numbers /\ 1 \in 0..Mss
    BY Sizes, TwoEnds, SlotKept DEF States
  <2>3. c = [c2 EXCEPT !.len = 1] /\ c.st = "SYN_SENT"
    BY DEF Closed
  <2>4. c1 \in Slots
    BY <2>2, SlotChanged
  <2> HIDE DEF c1
  <2>5. c2 \in Slots
    BY <2>2, <2>4, SlotChanged
  <2> HIDE DEF c2, c
  <2>6. c \in Slots
    BY <2>2, <2>3, <2>5, SlotChanged
  <2>7. /\ conn' \in [Ends -> Slots] /\ conn'[Client] = c
        /\ \A e \in Ends : e # Client => conn'[e] = conn[e]
    BY <2>1, <2>6, TwoEnds DEF TypeInv, c
  <2>8. opened' \in BOOLEAN /\ UNCHANGED <<listening, net, acked, got, most>>
    BY <1>2 DEF uip_connect
  <2>9. conn'[Client].st # "SYN_RCVD" /\ conn'[Server].st # "SYN_SENT"
    BY <2>3, <2>7, TwoEnds DEF TypeInv
  <2>10. \A e \in Ends : conn'[e].st = "ESTABLISHED" => acked[e] + conn'[e].len <= Length[e]
    BY <2>3, <2>7 DEF TypeInv
  <2> QED
    BY <2>7, <2>8, <2>9, <2>10 DEF TypeInv
<1>3. CASE uip_unlisten
  BY <1>3 DEF uip_unlisten, TypeInv
<1>4. CASE UNCHANGED vars
  BY <1>4 DEF vars, TypeInv
<1> QED
  BY <1>1, <1>2, <1>3, <1>4, Steps

LEMMA UnopenedKept == ASSUME TypeInv, Unopened, [Next]_vars PROVE Unopened'
<1>1. CASE opened
  <2>1. opened'
    BY <1>1, Zenon DEF Next, vars, env, uip_connect, uip_unlisten, Receive, Retransmit, WaitOver, Poll
  <2> QED
    BY <2>1 DEF Unopened
<1>2. CASE ~opened
  <2>1. \A e \in Ends : conn[e] = Closed /\ net[e] = <<>> /\ got[e] = <<>> /\ acked[e] = 0
    BY <1>2 DEF Unopened
  <2>2. Closed.st = "CLOSED" /\ Closed.len = 0
    BY DEF Closed
  <2>3. ASSUME NEW e \in Ends PROVE ~(Receive(e) \/ Retransmit(e) \/ WaitOver(e) \/ Poll(e))
    <3>1. conn[e].st = "CLOSED" /\ conn[e].len = 0 /\ net[e] = <<>>
      BY <2>1, <2>2
    <3> QED
      BY <3>1 DEF Receive, Retransmit, WaitOver, Poll, Outstanding, Waits
  <2>4. CASE uip_connect
    BY <2>4 DEF uip_connect, Unopened
  <2>5. CASE UNCHANGED <<conn, net, got, acked>>
    BY <1>2, <2>1, <2>5 DEF Unopened
  <2> QED
    BY <2>3, <2>4, <2>5 DEF Next, vars, uip_unlisten
<1> QED
  BY <1>1, <1>2

LEMMA TypeSays == TypeInv => TypeOK
<1> SUFFICES ASSUME TypeInv PROVE TypeOK
  OBVIOUS
<1>1. \A i, j \in Nat : Max({i, j}) \in Nat /\ Max({i, j}) >= i
  <2> TAKE i, j \in Nat
  <2>1. \E x \in {i, j} : \A y \in {i, j} : x >= y
    OBVIOUS
  <2>2. Max({i, j}) \in {i, j} /\ \A y \in {i, j} : Max({i, j}) >= y
    BY <2>1 DEF Max
  <2> QED
    BY <2>2
<1>2. \A i, j \in Nat : Max({i, j}) >= j
  <2> TAKE i, j \in Nat
  <2>1. \E x \in {i, j} : \A y \in {i, j} : x >= y
    OBVIOUS
  <2>2. Max({i, j}) \in {i, j} /\ \A y \in {i, j} : Max({i, j}) >= y
    BY <2>1 DEF Max
  <2> QED
    BY <2>2
<1> DEFINE l == Max({1, Mss})
           r == Max({MaxRtx, MaxSynRtx})
<1>3. l \in Nat /\ Mss <= l /\ r \in Nat /\ MaxRtx <= r /\ Mss \in Nat /\ MaxRtx \in Nat
  BY <1>1, <1>2, TcpAssumption
<1> HIDE DEF l, r
<1>4. \A c \in Slots : c \in [st : States, stopped : BOOLEAN, snd : 0..(SeqRange - 1),
                              rcv : 0..(SeqRange - 1), len : 0..l, nrtx : 0..r]
  BY <1>3 DEF Slots, Numbers
<1>5. conn \in [Ends -> [st : States, stopped : BOOLEAN, snd : 0..(SeqRange - 1),
                         rcv : 0..(SeqRange - 1), len : 0..l, nrtx : 0..r]]
  BY <1>4 DEF TypeInv
<1>6. \A e \in Ends : acked[e] \in 0..Length[e] /\ most[e] \in Nat
  BY Sizes DEF TypeInv
<1> QED
  BY <1>5, <1>6 DEF TypeInv, TypeOK, l, r

LEMMA TypesHold == Spec => [](TypeInv /\ Unopened)
<1>1. TypeInv /\ Unopened /\ [Next]_vars => TypeInv' /\ Unopened'
  BY TypeKept, UnopenedKept
<1> QED
  BY <1>1, TypeStart, PTL DEF Spec

\* Every field of every slot and of every segment keeps its type; what is
\* acknowledged and what is outstanding never exceeds what the application
\* has to send (uip.c:1356-1803).
THEOREM TcpTypeCorrect == Spec => []TypeOK
  BY TypesHold, TypeSays, PTL

-----------------------------------------------------------------------------
(* One direction of an open connection.  The sender has the slot           *)
(* fields snd and len, and k of its bytes are acknowledged; the receiver   *)
(* has rcv, and was handed g bytes.                                        *)

Agree(snd, len, rcv, k, g) ==
    rcv \in {snd, Add(snd, len)} /\ g = k + (IF rcv = snd THEN 0 ELSE len)

\* Of the segments q to the receiver: what was acknowledged comes before
\* what is outstanding, and nothing is older once that was received.
InOrder(snd, len, rcv, k, q) ==
    /\ \A i \in DOMAIN q : Carries(q[i]) /\ rcv # snd => q[i].seq = snd
    /\ \A i, j \in DOMAIN q :
          i < j /\ Carries(q[i]) /\ Carries(q[j]) /\ q[i].seq = snd => q[j].seq = snd
    /\ \A i \in DOMAIN q : Carries(q[i]) /\ q[i].seq = snd => q[i].data = Slice(k, len)

\* Of the segments q to the sender: acknowledgements never go back.
AcksInOrder(snd, rcv, q) ==
    /\ \A i \in DOMAIN q : ~Has(q[i], "RST") => q[i].ack \in {snd, rcv}
    /\ \A i, j \in DOMAIN q :
          i < j /\ ~Has(q[i], "RST") /\ ~Has(q[j], "RST") /\ q[i].ack = rcv => q[j].ack = rcv

\* What the receiver would take is what comes next, and comes last.
Receivable(rcv, q, g) ==
    \A i \in DOMAIN q : Carries(q[i]) /\ q[i].seq = rcv =>
        /\ q[i].data = Slice(g, Len(q[i].data))
        /\ \A j \in DOMAIN q :
              i < j /\ Carries(q[j]) => q[j].seq = rcv /\ q[j].data = q[i].data

\* Segments q become q2: k are taken from the head, or `out` is added.
Dropped(q, q2, k) == \A i \in DOMAIN q2 : i + k \in DOMAIN q /\ q2[i] = q[i + k]
Grown(q, q2, out) ==
    \A i \in DOMAIN q2 : \/ i \in DOMAIN q /\ q2[i] = q[i]
                         \/ i = Len(q) + 1 /\ out = <<q2[i]>>

LEMMA DroppedKeep ==
    ASSUME NEW q \in Seq(Segments), NEW q2 \in Seq(Segments), NEW k \in {0, 1}, Dropped(q, q2, k),
           NEW snd, NEW len, NEW rcv, NEW n, NEW g
    PROVE  /\ InOrder(snd, len, rcv, n, q) => InOrder(snd, len, rcv, n, q2)
           /\ AcksInOrder(snd, rcv, q) => AcksInOrder(snd, rcv, q2)
           /\ Receivable(rcv, q, g) => Receivable(rcv, q2, g)
<1>1. DOMAIN q \subseteq Int /\ DOMAIN q2 \subseteq Int
  OBVIOUS
<1>2. \A i \in DOMAIN q2 : i + k \in DOMAIN q /\ q2[i] = q[i + k]
  BY DEF Dropped
<1>3. \A i, j \in DOMAIN q2 : i < j => i + k < j + k
  BY <1>1
<1>4. InOrder(snd, len, rcv, n, q) => InOrder(snd, len, rcv, n, q2)
  BY <1>2, <1>3 DEF InOrder
<1>5. AcksInOrder(snd, rcv, q) => AcksInOrder(snd, rcv, q2)
  BY <1>2, <1>3 DEF AcksInOrder
<1>6. Receivable(rcv, q, g) => Receivable(rcv, q2, g)
  BY <1>2, <1>3 DEF Receivable
<1> QED
  BY <1>4, <1>5, <1>6

\* The places of a queue that has grown.
LEMMA GrownPlaces ==
    ASSUME NEW q \in Seq(Segments), NEW q2 \in Seq(Segments), NEW out, Grown(q, q2, out)
    PROVE  /\ \A i \in DOMAIN q2 : (i \in DOMAIN q /\ q2[i] = q[i]) \/ out = <<q2[i]>>
           /\ \A i, j \in DOMAIN q2 : i < j => i \in DOMAIN q /\ q2[i] = q[i]
<1>1. DOMAIN q = 1..Len(q) /\ Len(q) \in Nat /\ DOMAIN q2 = 1..Len(q2) /\ Len(q2) \in Nat
  OBVIOUS
<1>2. \A i \in DOMAIN q2 : i \in DOMAIN q \/ i = Len(q) + 1
  BY DEF Grown
<1>3. ASSUME NEW i \in DOMAIN q2, NEW j \in DOMAIN q2, i < j PROVE i \in DOMAIN q /\ q2[i] = q[i]
  <2>1. i # Len(q) + 1
    BY <1>1, <1>2, <1>3
  <2> QED
    BY <2>1 DEF Grown
<1> QED
  BY <1>3 DEF Grown

LEMMA GrownKeep ==
    ASSUME NEW q \in Seq(Segments), NEW q2 \in Seq(Segments), NEW out, Grown(q, q2, out),
           \A m \in Segments : out = <<m>> => m.data = <<>>,
           NEW snd, NEW len, NEW rcv, NEW n, NEW g
    PROVE  /\ InOrder(snd, len, rcv, n, q) => InOrder(snd, len, rcv, n, q2)
           /\ Receivable(rcv, q, g) => Receivable(rcv, q2, g)
<1>1. \A i \in DOMAIN q2 : Carries(q2[i]) => i \in DOMAIN q /\ q2[i] = q[i]
  <2>1. \A i \in DOMAIN q2 : q2[i] \in Segments
    OBVIOUS
  <2> QED
    BY <2>1, GrownPlaces DEF Carries
<1>2. InOrder(snd, len, rcv, n, q) => InOrder(snd, len, rcv, n, q2)
  BY <1>1 DEF InOrder
<1>3. Receivable(rcv, q, g) => Receivable(rcv, q2, g)
  BY <1>1 DEF Receivable
<1> QED
  BY <1>2, <1>3

LEMMA GrownAcks ==
    ASSUME NEW q \in Seq(Segments), NEW q2 \in Seq(Segments), NEW out, Grown(q, q2, out),
           NEW snd, NEW rcv, \A m \in Segments : out = <<m>> => m.ack = rcv \/ Has(m, "RST"),
           AcksInOrder(snd, rcv, q)
    PROVE  AcksInOrder(snd, rcv, q2)
<1>1. \A i \in DOMAIN q2 : \/ i \in DOMAIN q /\ q2[i] = q[i]
                           \/ q2[i].ack = rcv \/ Has(q2[i], "RST")
  <2>1. \A i \in DOMAIN q2 : q2[i] \in Segments
    OBVIOUS
  <2> QED
    BY <2>1, GrownPlaces
<1>2. \A i, j \in DOMAIN q2 : i < j => i \in DOMAIN q /\ q2[i] = q[i]
  BY GrownPlaces
<1> QED
  BY <1>1, <1>2 DEF AcksInOrder

\* New data is sent when nothing is outstanding, or the same again.
LEMMA GrownData ==
    ASSUME NEW q \in Seq(Segments), NEW q2 \in Seq(Segments), NEW m \in Segments,
           Grown(q, q2, <<m>>), NEW snd \in Numbers, NEW len, NEW len2 \in 1..Mss,
           len \in {0, len2}, NEW rcv, NEW k \in Nat, NEW g,
           m.seq = snd, m.data = Slice(k, len2),
           Agree(snd, len, rcv, k, g), InOrder(snd, len, rcv, k, q)
    PROVE  Agree(snd, len2, rcv, k, g) /\ InOrder(snd, len2, rcv, k, q2)
<1>1. \A i \in DOMAIN q2 : (i \in DOMAIN q /\ q2[i] = q[i]) \/ q2[i] = m
  BY GrownPlaces
<1>2. \A i, j \in DOMAIN q2 : i < j => i \in DOMAIN q /\ q2[i] = q[i]
  BY GrownPlaces
<1>3. CASE len = len2
  BY <1>1, <1>2, <1>3 DEF InOrder
<1>4. CASE len = 0
  <2>1. rcv = snd /\ g = k
    BY <1>4, Adding DEF Agree
  <2>2. Slice(k, 0) = <<>>
    BY Slices
  <2>3. \A i \in DOMAIN q : Carries(q[i]) => q[i].seq # snd
    BY <1>4, <2>2 DEF InOrder, Carries
  <2>4. InOrder(snd, len2, rcv, k, q2)
    BY <1>1, <1>2, <2>1, <2>3 DEF InOrder
  <2>5. g = k + 0
    BY <2>1
  <2> QED
    BY <2>1, <2>4, <2>5 DEF Agree
<1> QED
  BY <1>3, <1>4

\* An acknowledgement says that all outstanding bytes were received.
LEMMA AckTaken ==
    ASSUME NEW q \in Seq(Segments), NEW q2 \in Seq(Segments), Dropped(q, q2, 1),
           NEW p, NEW snd \in Numbers, NEW len \in 1..Mss, NEW rcv, NEW k \in Nat, NEW g,
           Agree(snd, len, rcv, k, g), InOrder(snd, len, rcv, k, p), AcksInOrder(snd, rcv, q),
           1 \in DOMAIN q, ~Has(q[1], "RST"), q[1].ack = Add(snd, len)
    PROVE  /\ g = k + len /\ Agree(Add(snd, len), 0, rcv, k + len, g)
           /\ InOrder(Add(snd, len), 0, rcv, k + len, p)
           /\ AcksInOrder(Add(snd, len), rcv, q2)
<1> DEFINE new == Add(snd, len)
<1>1. new # snd /\ new \in Numbers /\ len \in Nat
  BY Sizes, Adding
<1>2. rcv = new
  BY <1>1 DEF AcksInOrder, Agree
<1>3. g = k + len /\ g = (k + len) + 0
  BY <1>1, <1>2 DEF Agree
<1> HIDE DEF new
<1>4. Agree(new, 0, rcv, k + len, g)
  BY <1>2, <1>3 DEF Agree
<1>5. \A i \in DOMAIN p : Carries(p[i]) => p[i].seq = snd
  BY <1>1, <1>2 DEF InOrder
<1>6. InOrder(new, 0, rcv, k + len, p)
  BY <1>1, <1>2, <1>5 DEF InOrder
<1>7. AcksInOrder(new, rcv, q2)
  <2>1. \A i \in DOMAIN q2 : 1 < i + 1
    OBVIOUS
  <2>2. \A i \in DOMAIN q2 : ~Has(q2[i], "RST") => q2[i].ack = rcv
    BY <1>2, <2>1 DEF AcksInOrder, Dropped, new
  <2> QED
    BY <1>2, <2>2 DEF AcksInOrder
<1> QED
  BY <1>3, <1>4, <1>6, <1>7 DEF new

\* What is received is what is outstanding.
LEMMA DataTaken ==
    ASSUME NEW q \in Seq(Segments), NEW q2 \in Seq(Segments), Dropped(q, q2, 1),
           NEW p, NEW snd \in Numbers, NEW len \in 0..Mss, NEW rcv, NEW k \in Nat, NEW g,
           Agree(snd, len, rcv, k, g), InOrder(snd, len, rcv, k, q), AcksInOrder(snd, rcv, p),
           1 \in DOMAIN q, Carries(q[1]), q[1].seq = rcv
    PROVE  LET new == Add(rcv, Len(q[1].data))
           IN /\ Agree(snd, len, new, k, g + Len(q[1].data))
              /\ InOrder(snd, len, new, k, q2) /\ AcksInOrder(snd, new, p)
<1> DEFINE new == Add(rcv, Len(q[1].data))
<1>1. rcv = snd /\ q[1].data = Slice(k, len)
  BY DEF InOrder
<1>2. len \in Nat /\ len <= Mss
  BY Sizes
<1>3. Len(q[1].data) = len /\ len # 0
  BY <1>1, <1>2, Slices DEF Carries
<1>4. len \in 1..Mss
  BY <1>2, <1>3
<1>5. new = Add(snd, len) /\ new # snd
  BY <1>1, <1>3, <1>4, Adding
<1>6. g = k /\ g + len = k + len
  BY <1>1, <1>2 DEF Agree
<1> HIDE DEF new
<1>7. Agree(snd, len, new, k, g + Len(q[1].data))
  BY <1>3, <1>5, <1>6 DEF Agree
<1>8. \A i \in DOMAIN q2 : Carries(q2[i]) => q2[i].seq = snd /\ q2[i].data = Slice(k, len)
  <2>1. \A i \in DOMAIN q2 : 1 < i + 1
    OBVIOUS
  <2> QED
    BY <1>1, <2>1 DEF InOrder, Dropped
<1>9. InOrder(snd, len, new, k, q2)
  BY <1>8 DEF InOrder
<1>10. AcksInOrder(snd, new, p)
  BY <1>1, <1>5 DEF AcksInOrder
<1> QED
  BY <1>7, <1>9, <1>10 DEF new

LEMMA Received ==
    ASSUME NEW q \in Seq(Segments), NEW q2 \in Seq(Segments), Dropped(q, q2, 1),
           NEW rcv \in Numbers, NEW g, NEW g2, Receivable(rcv, q, g),
           1 \in DOMAIN q, Carries(q[1]), q[1].seq = rcv, Len(q[1].data) \in 1..Mss
    PROVE  /\ q[1].data = Slice(g, Len(q[1].data))
           /\ Receivable(Add(rcv, Len(q[1].data)), q2, g2)
<1>1. Add(rcv, Len(q[1].data)) # rcv
  BY Adding
<1>2. \A i \in DOMAIN q2 : 1 < i + 1
  OBVIOUS
<1>3. \A i \in DOMAIN q2 : Carries(q2[i]) => q2[i].seq = rcv
  BY <1>2 DEF Receivable, Dropped
<1>4. q[1].data = Slice(g, Len(q[1].data))
  BY DEF Receivable
<1> QED
  BY <1>1, <1>3, <1>4 DEF Receivable

LEMMA OrderedReceivable ==
    ASSUME NEW q \in Seq(Segments), NEW snd, NEW len \in Nat, NEW rcv, NEW k \in Nat, NEW g,
           Agree(snd, len, rcv, k, g), InOrder(snd, len, rcv, k, q)
    PROVE  Receivable(rcv, q, g)
<1>1. CASE rcv = snd
  <2>1. g = k
    BY <1>1 DEF Agree
  <2>2. Len(Slice(k, len)) = len
    BY Slices
  <2> QED
    BY <1>1, <2>1, <2>2 DEF InOrder, Receivable
<1>2. CASE rcv # snd
  BY <1>2 DEF InOrder, Receivable
<1> QED
  BY <1>1, <1>2

-----------------------------------------------------------------------------
(* While the connection opens, as long as a SYN may still be accepted.      *)
(* x is the number of the client's first byte, n what it has sent of it.    *)

Young ==
    \/ conn[Client].st = "SYN_SENT" \/ conn[Server].st = "SYN_RCVD"
    \/ \E i \in DOMAIN net[Server] : IsSyn(net[Server][i])

FromClient(x, n, c, s) ==
    /\ IsSyn(s) => Add(s.seq, 1) = x /\ ~Carries(s)
    /\ Carries(s) => s.seq = x /\ s.data = Slice(0, n)
    /\ c.st = "SYN_SENT" => IsSyn(s)
    /\ c.st = "ESTABLISHED" =>
          /\ IsSyn(s) \/ (s.flags \in {{"ACK"}, {"ACK", "PSH"}} /\ s.ack = c.rcv)
          /\ c.len = 0 => ~Carries(s)
FromServer(x, s) ==
    ~Carries(s) /\ (~Has(s, "RST") => s.flags \in {{"SYN", "ACK"}, {"ACK"}} /\ s.ack = x)

ClientOpens(x, n, c, k, g) ==
    /\ c.st = "SYN_SENT" => Add(c.snd, 1) = x /\ c.len = 1
    /\ c.st = "ESTABLISHED" => c.snd = x /\ c.len \in {0, n}
    /\ k = 0 /\ (c.st \in Live => g = <<>>)
ServerOpens(x, d, k, g) ==
    /\ d.st \in {"CLOSED", "SYN_RCVD"} /\ k = 0
    /\ d.st = "SYN_RCVD" => d.rcv = x /\ d.len = 1 /\ g = <<>>

Opening(x, n) ==
    /\ ClientOpens(x, n, conn[Client], acked[Client], got[Client])
    /\ ServerOpens(x, conn[Server], acked[Server], got[Server])
    /\ \A i \in DOMAIN net[Server] : FromClient(x, n, conn[Client], net[Server][i])
    /\ \A i, j \in DOMAIN net[Server] :
          i < j /\ IsSyn(net[Server][j]) => IsSyn(net[Server][i])
    /\ conn[Client].st \in Live => \A i \in DOMAIN net[Client] : FromServer(x, net[Client][i])

YoungInv == Young => \E x \in Numbers, n \in 0..Mss : Opening(x, n)

\* The queues and slots of an end that takes a step and of its peer.
LEMMA StepQueues ==
    ASSUME TypeInv, NEW e \in Ends, NEW rest, NEW d, NEW out, EndStep(e, rest, d, out)
    PROVE  /\ conn'[e] = d /\ conn'[Peer(e)] = conn[Peer(e)] /\ d \in Slots
           /\ acked'[Peer(e)] = acked[Peer(e)] /\ got'[Peer(e)] = got[Peer(e)]
           /\ most'[Peer(e)] = most[Peer(e)]
           /\ net[e] \in Seq(Segments) /\ rest \in Seq(Segments) /\ net'[e] = rest
           /\ net[Peer(e)] \in Seq(Segments) /\ net'[Peer(e)] \in Seq(Segments)
           /\ Grown(net[Peer(e)], net'[Peer(e)], out)
           /\ \E k \in {0, 1} : Dropped(net[e], rest, k)
           /\ Took(e, rest) => Dropped(net[e], rest, 1)
<1>1. /\ Peer(e) \in Ends /\ net \in [Ends -> Seq(Segments)] /\ d \in Slots
  BY TwoEnds DEF TypeInv, EndStep
<1>2. /\ conn'[e] = d /\ conn'[Peer(e)] = conn[Peer(e)]
      /\ OneAtMost(out) /\ Rest(e, rest) /\ Carry(e, rest, out)
      /\ acked'[Peer(e)] = acked[Peer(e)] /\ got'[Peer(e)] = got[Peer(e)]
      /\ most'[Peer(e)] = most[Peer(e)]
  BY StepParts
<1>3. /\ net' \in [Ends -> Seq(Segments)] /\ net'[e] = rest
      /\ \E k \in {0, 1} : /\ k = 1 <=> rest # net[e]
                           /\ k = 1 => Took(e, rest)
                           /\ \A i \in DOMAIN rest : /\ i + k \in DOMAIN net[e]
                                                     /\ rest[i] = net[e][i + k]
      /\ \A i \in DOMAIN net'[Peer(e)] :
            \/ i \in DOMAIN net[Peer(e)] /\ net'[Peer(e)][i] = net[Peer(e)][i]
            \/ i = Len(net[Peer(e)]) + 1 /\ out = <<net'[Peer(e)][i]>>
  BY <1>2, Carried
<1>4. Grown(net[Peer(e)], net'[Peer(e)], out)
  BY <1>3 DEF Grown
<1>5. \E k \in {0, 1} : Dropped(net[e], rest, k)
  BY <1>3 DEF Dropped
<1>6. Took(e, rest) => rest # net[e]
  <2>1. ASSUME Took(e, rest) PROVE Len(rest) = Len(net[e]) - 1
    BY <1>1, <2>1, HeadTailProperties DEF Took
  <2>2. Len(net[e]) \in Nat
    BY <1>1
  <2> QED
    BY <2>1, <2>2
<1>7. Took(e, rest) => Dropped(net[e], rest, 1)
  BY <1>3, <1>6 DEF Dropped
<1> QED
  BY <1>1, <1>2, <1>3, <1>4, <1>5, <1>7

\* A segment put on the way to the server, from the client's slot d.
LEMMA ClientOpening ==
    ASSUME TypeInv, NEW x \in Numbers, NEW n, NEW n2, Opening(x, n),
           NEW rest, NEW d, NEW out, EndStep(Client, rest, d, out),
           ClientOpens(x, n2, d, acked'[Client], got'[Client]),
           d.st \in Live => conn[Client].st \in Live,
           \A s \in Segments : FromClient(x, n, conn[Client], s) => FromClient(x, n2, d, s),
           \A m \in Segments : out = <<m>> => /\ FromClient(x, n2, d, m)
                                              /\ IsSyn(m) => conn[Client].st = "SYN_SENT"
    PROVE  Opening(x, n2)'
<1> DEFINE q == net[Server]
           q2 == net'[Server]
<1>1. /\ conn'[Client] = d /\ conn'[Server] = conn[Server]
      /\ acked'[Server] = acked[Server] /\ got'[Server] = got[Server]
      /\ net[Client] \in Seq(Segments) /\ rest \in Seq(Segments) /\ net'[Client] = rest
      /\ q \in Seq(Segments) /\ q2 \in Seq(Segments) /\ Grown(q, q2, out)
      /\ \E k \in {0, 1} : Dropped(net[Client], rest, k)
  BY TwoEnds, StepQueues
<1>2. /\ \A i \in DOMAIN q2 : (i \in DOMAIN q /\ q2[i] = q[i]) \/ out = <<q2[i]>>
      /\ \A i, j \in DOMAIN q2 : i < j => i \in DOMAIN q /\ q2[i] = q[i]
      /\ \A i \in DOMAIN q2 : q2[i] \in Segments
      /\ \A i \in DOMAIN q : q[i] \in Segments
  BY <1>1, GrownPlaces
<1>3. /\ \A i \in DOMAIN q : FromClient(x, n, conn[Client], q[i])
      /\ \A i, j \in DOMAIN q : i < j /\ IsSyn(q[j]) => IsSyn(q[i])
      /\ ServerOpens(x, conn[Server], acked[Server], got[Server])
      /\ conn[Client].st \in Live => \A i \in DOMAIN net[Client] : FromServer(x, net[Client][i])
  BY DEF Opening
<1> HIDE DEF q, q2
<1>4. \A i \in DOMAIN q2 : FromClient(x, n2, d, q2[i])
  BY <1>2, <1>3
<1>5. ASSUME NEW i \in DOMAIN q2, NEW j \in DOMAIN q2, i < j, IsSyn(q2[j]) PROVE IsSyn(q2[i])
  <2>1. i \in DOMAIN q /\ q2[i] = q[i]
    BY <1>2, <1>5
  <2>2. CASE j \in DOMAIN q /\ q2[j] = q[j]
    BY <1>3, <1>5, <2>1, <2>2
  <2>3. CASE out = <<q2[j]>>
    <3>1. conn[Client].st = "SYN_SENT"
      BY <1>2, <1>5, <2>3
    <3> QED
      BY <1>3, <2>1, <3>1 DEF FromClient
  <2> QED
    BY <1>2, <2>2, <2>3
<1>6. d.st \in Live => \A i \in DOMAIN rest : FromServer(x, rest[i])
  BY <1>1, <1>3 DEF Dropped
<1>7. ServerOpens(x, conn'[Server], acked'[Server], got'[Server])
  BY <1>1, <1>3
<1> QED
  BY <1>1, <1>4, <1>5, <1>6, <1>7 DEF Opening, q2

\* What the application was handed, and what it knows to be acknowledged.
LEMMA Handed ==
    ASSUME TypeInv, NEW e \in Ends, NEW data \in Seq(Nat), NEW n \in Nat, Told(e, data, n)
    PROVE  /\ got'[e] = got[e] \o data /\ acked'[e] = acked[e] + n
           /\ Len(got'[e]) = Len(got[e]) + Len(data)
           /\ got[e] \in Seq(Nat) /\ acked[e] \in Nat
           /\ data = <<>> => got'[e] = got[e]
<1>1. got \in [Ends -> Seq(Nat)] /\ acked \in [Ends -> Nat]
  BY DEF TypeInv
<1>2. got[e] \o <<>> = got[e] /\ acked[e] + 0 = acked[e] /\ got[e] \in Seq(Nat) /\ acked[e] \in Nat
  BY <1>1
<1>3. got'[e] = got[e] \o data /\ acked'[e] = acked[e] + n
  BY <1>1, <1>2 DEF Told, Call, NoCall
<1>4. Len(got[e] \o data) = Len(got[e]) + Len(data)
  BY <1>2
<1> QED
  BY <1>2, <1>3, <1>4

LEMMA ClientYoung ==
    ASSUME TypeInv, NEW x \in Numbers, NEW n \in 0..Mss, Opening(x, n),
           NEW rest, NEW d, NEW out, EndStep(Client, rest, d, out)
    PROVE  \E m \in 0..Mss : Opening(x, m)'
<1> DEFINE e == Client
           c == conn[e]
           s == Head(net[e])
           Goal == \E m \in 0..Mss : Opening(x, m)'
<1>1. /\ e \in Ends /\ c \in Slots /\ c.len \in 0..Mss /\ c.snd \in Numbers /\ d \in Slots
      /\ c.st # "SYN_RCVD" /\ e # Server
      /\ acked \in [Ends -> Nat] /\ got \in [Ends -> Seq(Nat)]
  BY TwoEnds, StepQueues DEF TypeInv, Slots
<1>2. /\ ClientOpens(x, n, c, acked[e], got[e])
      /\ c.st \in Live => \A i \in DOMAIN net[e] : FromServer(x, net[e][i])
  BY DEF Opening
<1>3. ASSUME c.st \in Live, Took(e, rest) PROVE FromServer(x, s) /\ s \in Segments
  <2>1. s = net[e][1] /\ 1 \in DOMAIN net[e] /\ s \in Segments
    BY <1>1, <1>3, SlotKept DEF Took
  <2> QED
    BY <1>2, <1>3, <2>1
<1>4. /\ c.st = "SYN_SENT" => Add(c.snd, 1) = x /\ c.len = 1
      /\ c.st = "ESTABLISHED" => c.snd = x /\ c.len \in {0, n}
      /\ acked[e] = 0 /\ (c.st \in Live => got[e] = <<>>)
  BY <1>2 DEF ClientOpens
<1>5. ASSUME d.st \notin Live, acked'[e] = 0,
             out = <<>> \/ \E m \in Segments : out = <<m>> /\ m.data = <<>> /\ ~IsSyn(m)
      PROVE  Goal
  <2>1. ClientOpens(x, n, d, acked'[e], got'[e])
    BY <1>5 DEF ClientOpens, Live
  <2>2. \A t \in Segments : FromClient(x, n, c, t) => FromClient(x, n, d, t)
    BY <1>5 DEF FromClient, Live
  <2>3. \A m \in Segments : out = <<m>> => FromClient(x, n, d, m) /\ ~IsSyn(m)
    <3>1. \A m \in Segments : out = <<m>> => m.data = <<>> /\ ~IsSyn(m)
      BY <1>5
    <3> QED
      BY <1>5, <3>1 DEF FromClient, Carries, Live
  <2>4. Opening(x, n)'
    BY <1>5, <2>1, <2>2, <2>3, ClientOpening
  <2> QED
    BY <2>4
<1>6. ASSUME Keeps(e, rest, d, out) PROVE Goal
  <2>1. /\ NoCall /\ d.st = c.st /\ d.snd = c.snd /\ d.rcv = c.rcv /\ d.len = c.len
        /\ c.st = "SYN_SENT"
    BY <1>1, <1>6 DEF Keeps
  <2>2. out \in {<<>>, <<Syn(d)>>}
    <3>1. ASSUME Took(e, rest), ~Has(s, "RST"), Unexpected(c, s) PROVE FALSE
      <4>1. s.data = <<>> /\ s.flags \in {{"SYN", "ACK"}, {"ACK"}}
        BY <1>3, <2>1, <3>1 DEF FromServer, Carries, Live
      <4>2. s.flags # {"SYN", "ACK"} /\ (s.data # <<>> \/ Has(s, "SYN") \/ Has(s, "FIN"))
        BY <2>1, <3>1 DEF Unexpected
      <4> QED
        BY <4>1, <4>2 DEF Has
    <3> QED
      BY <1>1, <1>6, <3>1 DEF Keeps
  <2>3. ClientOpens(x, n, d, acked'[e], got'[e])
    BY <1>4, <2>1 DEF ClientOpens, NoCall
  <2>4. \A t \in Segments : FromClient(x, n, c, t) => FromClient(x, n, d, t)
    BY <2>1 DEF FromClient
  <2>5. \A m \in Segments : out = <<m>> => FromClient(x, n, d, m)
    <3>1. ASSUME NEW m \in Segments, out = <<m>> PROVE m = Syn(d)
      BY <2>2, <3>1
    <3>2. FromClient(x, n, d, Syn(d))
      BY <1>4, <2>1 DEF FromClient, Syn, Segment, IsSyn, Carries
    <3> QED
      BY <3>1, <3>2
  <2>6. Opening(x, n)'
    BY <2>1, <2>3, <2>4, <2>5, ClientOpening
  <2> QED
    BY <2>6
<1>7. ASSUME Leaves(e, d, out) PROVE Goal
  <2>1. d.st \notin Live /\ acked'[e] = 0
    BY <1>4, <1>7 DEF Leaves, NoCall
  <2>2. out = <<>> \/ \E m \in Segments : out = <<m>> /\ m.data = <<>> /\ ~IsSyn(m)
    BY <1>1, <1>7, Sent DEF Leaves
  <2> HIDE DEF Goal
  <2> QED
    BY <1>5, <2>1, <2>2
<1>8. ASSUME NEW b \in Slots, NEW data, NEW nn, Hears(e, rest, b, data, nn), Answers(e, b, d, out)
      PROVE  Goal
  <2>1. Told(e, data, nn) /\ b.st = "ESTABLISHED"
    BY <1>8 DEF Hears
  <2>2. /\ nn = 0 /\ data = <<>> /\ b.snd = x
        /\ \/ c.st = "ESTABLISHED" /\ b.len = c.len /\ b.rcv = c.rcv
           \/ c.st = "SYN_SENT" /\ b.len = 0
    <3>1. CASE HearsOpen(e, rest, b, data, nn)
      <4>1. /\ c.st = "ESTABLISHED" /\ nn \in {0, c.len}
            /\ b.snd = Add(c.snd, nn) /\ b.len = c.len - nn /\ b.rcv = Add(c.rcv, Len(data))
            /\ nn # 0 => Took(e, rest) /\ ~Has(s, "RST") /\ Acks(c, s)
            /\ data # <<>> => Took(e, rest) /\ data = s.data
        BY <3>1 DEF HearsOpen
      <4>2. data = <<>>
        BY <1>3, <4>1 DEF FromServer, Carries, Live
      <4>3. nn = 0
        <5>1. ASSUME nn # 0 PROVE FALSE
          <6>1. s.ack = x /\ s.ack = Add(c.snd, c.len) /\ c.len # 0 /\ c.snd = x
            BY <1>3, <1>4, <4>1, <5>1, TakenIs DEF FromServer, Live, Acks, Outstanding
          <6>2. c.len \in 1..Mss
            BY <1>1, <6>1, Sizes
          <6> QED
            BY <1>1, <6>1, <6>2, Adding
        <5> QED
          BY <5>1
      <4>4. Len(<<>>) = 0 /\ Add(c.rcv, 0) = c.rcv /\ Add(c.snd, 0) = c.snd /\ c.len - 0 = c.len
        <5>1. c.rcv \in Numbers /\ c.snd \in Numbers /\ c.len \in Int
          BY <1>1 DEF Slots
        <5> HIDE DEF c
        <5> QED
          BY <5>1, Adding
      <4> QED
        BY <1>4, <4>1, <4>2, <4>3, <4>4
    <3>2. CASE HearsSynAck(e, rest, b, data, nn)
      <4>1. /\ c.st = "SYN_SENT" /\ nn = 0 /\ data = <<>> /\ b.snd = s.ack /\ b.len = 0
            /\ Took(e, rest) /\ s.flags = {"SYN", "ACK"}
        BY <3>2 DEF HearsSynAck
      <4>2. s.ack = x
        BY <1>3, <4>1 DEF FromServer, Live, Has
      <4> QED
        BY <4>1, <4>2
    <3>3. ~HearsAck(e, rest, b, data, nn)
      BY <1>1 DEF HearsAck
    <3> QED
      BY <1>8, <3>1, <3>2, <3>3 DEF Hears
  <2>3. acked'[e] = 0 /\ got'[e] = <<>> /\ c.st \in Live
    <3>1. <<>> \in Seq(Nat) /\ 0 \in Nat /\ c.st \in Live
      BY <2>2 DEF Live
    <3>2. got'[e] = got[e] /\ acked'[e] = acked[e] + 0
      BY <1>1, <2>1, <2>2, <3>1, Handed
    <3> QED
      BY <1>4, <3>1, <3>2
  <2>4. CASE Closes(d, out)
    BY <1>5, <2>3, <2>4 DEF Closes
  <2>5. CASE Speaks(e, b, d, out)
    <3>1. d.st = "ESTABLISHED" /\ d.snd = x /\ d.rcv = b.rcv
      BY <2>2, <2>5 DEF Speaks
    <3>2. ASSUME NEW m \in 0..Mss, d.len \in {0, m}, c.st = "ESTABLISHED" => c.len \in {0, m},
                 c.st = "ESTABLISHED" /\ d.len = 0 => c.len = 0,
                 c.st = "ESTABLISHED" /\ c.len # 0 => n = m,
                 \A t \in Segments : out = <<t>> => FromClient(x, m, d, t) /\ ~IsSyn(t)
          PROVE  Goal
      <4>1. ClientOpens(x, m, d, acked'[e], got'[e])
        BY <2>3, <3>1, <3>2 DEF ClientOpens
      <4>2. ASSUME NEW t \in Segments, FromClient(x, n, c, t) PROVE FromClient(x, m, d, t)
        <5>1. CASE c.st = "SYN_SENT"
          BY <3>1, <4>2, <5>1 DEF FromClient
        <5>2. CASE c.st = "ESTABLISHED" /\ c.len = 0
          BY <2>2, <3>1, <4>2, <5>2 DEF FromClient
        <5>3. CASE c.st = "ESTABLISHED" /\ c.len # 0
          BY <2>2, <3>1, <3>2, <4>2, <5>3 DEF FromClient
        <5> QED
          BY <2>2, <5>1, <5>2, <5>3
      <4>3. d.st \in Live => c.st \in Live
        BY <2>3
      <4>4. Opening(x, m)'
        BY <3>2, <4>1, <4>2, <4>3, ClientOpening
      <4> QED
        BY <4>4
    <3>3. CASE out \in {<<>>, <<Ack(d)>>} /\ d.len = b.len
      <4>1. FromClient(x, n, d, Ack(d)) /\ ~IsSyn(Ack(d))
        BY <3>1 DEF FromClient, Ack, Segment, IsSyn, Carries
      <4>2. \A t \in Segments : out = <<t>> => FromClient(x, n, d, t) /\ ~IsSyn(t)
        BY <3>3, <4>1
      <4> HIDE DEF Goal
      <4> QED
        BY <1>4, <2>2, <3>2, <3>3, <4>2
    <3>4. CASE /\ d.len \in 1..Mss /\ acked'[e] + d.len <= Length[e] /\ b.len \in {0, d.len}
               /\ out = <<Data(e, d, d.len)>>
      <4> DEFINE m == Data(e, d, d.len)
      <4>1. acked'[e] \in Nat
        BY <2>3
      <4>2. /\ m \in Segments /\ m.data = Slice(acked'[e], d.len) /\ m.seq = d.snd
            /\ m.ack = d.rcv /\ m.flags = {"ACK", "PSH"}
        BY <1>1, <3>4, <4>1, DataSent
      <4> HIDE DEF m
      <4>3. d.len # 0 /\ d.len \in 0..Mss
        BY <3>4, Sizes
      <4>4. FromClient(x, d.len, d, m) /\ ~IsSyn(m)
        BY <2>3, <3>1, <4>2, <4>3 DEF FromClient, IsSyn
      <4>5. \A t \in Segments : out = <<t>> => FromClient(x, d.len, d, t) /\ ~IsSyn(t)
        BY <3>4, <4>4 DEF m
      <4>6. c.st = "ESTABLISHED" => c.len \in {0, d.len} /\ (c.len # 0 => n = d.len)
        BY <1>4, <2>2, <3>4
      <4> HIDE DEF Goal
      <4> QED
        BY <3>2, <4>3, <4>5, <4>6
    <3> HIDE DEF Goal
    <3> QED
      BY <2>5, <3>3, <3>4 DEF Speaks
  <2> HIDE DEF Goal
  <2> QED
    BY <1>8, <2>4, <2>5 DEF Answers
<1>9. ~Accepts(e, rest, d, out)
  BY <1>1 DEF Accepts
<1> HIDE DEF Goal
<1>10. Goal
  BY <1>6, <1>7, <1>8, <1>9, Zenon DEF EndStep, e
<1> QED
  BY <1>10 DEF Goal

\* The server goes on opening, or hears the acknowledgement of its SYNACK.
LEMMA ServerYoung ==
    ASSUME TypeInv, NEW x \in Numbers, NEW n \in 0..Mss, Opening(x, n),
           NEW rest, NEW d, NEW out, EndStep(Server, rest, d, out)
    PROVE  \/ Opening(x, n)'
           \/ \E b \in Slots : \E data, k : /\ HearsAck(Server, rest, b, data, k)
                                            /\ Hears(Server, rest, b, data, k)
                                            /\ Answers(Server, b, d, out)
<1> DEFINE e == Server
           p == Client
           c == conn[e]
           s == Head(net[e])
           Goal == Opening(x, n)'
<1>1. /\ conn'[e] = d /\ conn'[p] = conn[p]
      /\ acked'[p] = acked[p] /\ got'[p] = got[p]
      /\ net[e] \in Seq(Segments) /\ rest \in Seq(Segments) /\ net'[e] = rest
      /\ net[p] \in Seq(Segments) /\ net'[p] \in Seq(Segments)
      /\ Grown(net[p], net'[p], out)
      /\ \E k \in {0, 1} : Dropped(net[e], rest, k)
  BY TwoEnds, StepQueues
<1>2. /\ ClientOpens(x, n, conn[p], acked[p], got[p])
      /\ c.st \in {"CLOSED", "SYN_RCVD"} /\ acked[e] = 0
      /\ c.st = "SYN_RCVD" => c.rcv = x /\ c.len = 1 /\ got[e] = <<>>
      /\ \A i \in DOMAIN net[e] : FromClient(x, n, conn[p], net[e][i])
      /\ \A i, j \in DOMAIN net[e] : i < j /\ IsSyn(net[e][j]) => IsSyn(net[e][i])
      /\ conn[p].st \in Live => \A i \in DOMAIN net[p] : FromServer(x, net[p][i])
  BY DEF Opening, ServerOpens
<1>3. /\ \A i \in DOMAIN rest : FromClient(x, n, conn[p], rest[i])
      /\ \A i, j \in DOMAIN rest : i < j /\ IsSyn(rest[j]) => IsSyn(rest[i])
  <2>1. PICK k \in {0, 1} : Dropped(net[e], rest, k)
    BY <1>1
  <2>2. \A i \in DOMAIN rest : i + k \in DOMAIN net[e] /\ rest[i] = net[e][i + k]
    BY <2>1 DEF Dropped
  <2>3. \A i, j \in DOMAIN rest : i < j => i + k < j + k
    BY <1>1
  <2> QED
    BY <1>2, <2>2, <2>3
<1>4. ASSUME ServerOpens(x, d, acked'[e], got'[e]),
             \A m \in Segments : out = <<m>> => FromServer(x, m)
      PROVE  Goal
  <2>1. \A i \in DOMAIN net'[p] : \/ i \in DOMAIN net[p] /\ net'[p][i] = net[p][i]
                                  \/ out = <<net'[p][i]>> /\ net'[p][i] \in Segments
    BY <1>1, GrownPlaces
  <2>2. conn[p].st \in Live => \A i \in DOMAIN net'[p] : FromServer(x, net'[p][i])
    BY <1>2, <1>4, <2>1
  <2> QED
    BY <1>1, <1>2, <1>3, <1>4, <2>2 DEF Opening
<1>5. c \in Slots /\ d \in Slots /\ c.st # "SYN_SENT" /\ e \in Ends
  BY TwoEnds, StepQueues DEF TypeInv
<1> HIDE DEF Goal
<1>6. ASSUME Keeps(e, rest, d, out) PROVE Goal
  <2>1. /\ NoCall /\ d.st = "SYN_RCVD" /\ c.st = "SYN_RCVD" /\ d.rcv = c.rcv /\ d.len = c.len
        /\ out \in {<<>>, <<Ack(d)>>, <<SynAck(d)>>}
    BY <1>5, <1>6 DEF Keeps
  <2>2. ServerOpens(x, d, acked'[e], got'[e])
    BY <1>2, <2>1 DEF ServerOpens, NoCall
  <2>3. FromServer(x, Ack(d)) /\ FromServer(x, SynAck(d))
    BY <1>2, <2>1 DEF FromServer, Ack, SynAck, Segment, Carries
  <2>4. \A m \in Segments : out = <<m>> => FromServer(x, m)
    BY <2>1, <2>3
  <2> QED
    BY <1>4, <2>2, <2>4
<1>7. ASSUME Leaves(e, d, out) PROVE Goal
  <2>1. NoCall /\ d.st = "CLOSED" /\ out \in {<<>>, <<Rst>>}
    BY <1>2, <1>7 DEF Leaves
  <2>2. ServerOpens(x, d, acked'[e], got'[e])
    BY <1>2, <2>1 DEF ServerOpens, NoCall
  <2>3. FromServer(x, Rst)
    BY DEF FromServer, Rst, Carries, Has
  <2>4. \A m \in Segments : out = <<m>> => FromServer(x, m)
    BY <2>1, <2>3
  <2> QED
    BY <1>4, <2>2, <2>4
<1>8. ASSUME Accepts(e, rest, d, out) PROVE Goal
  <2>1. /\ Took(e, rest) /\ IsSyn(s) /\ d.st = "SYN_RCVD" /\ d.len = 1
        /\ d.rcv = Add(s.seq, 1) /\ out = <<SynAck(d)>>
        /\ got' = [got EXCEPT ![e] = <<>>] /\ acked' = acked
    BY <1>8 DEF Accepts
  <2>2. FromClient(x, n, conn[p], s)
    BY <1>2, <1>5, <2>1, SlotKept DEF Took
  <2>3. d.rcv = x
    BY <2>1, <2>2 DEF FromClient
  <2>4. got'[e] = <<>> /\ acked'[e] = 0
    BY <1>2, <1>5, <2>1 DEF TypeInv
  <2>5. ServerOpens(x, d, acked'[e], got'[e])
    BY <2>1, <2>3, <2>4 DEF ServerOpens
  <2>6. FromServer(x, SynAck(d))
    BY <2>3 DEF FromServer, SynAck, Segment, Carries
  <2>7. \A m \in Segments : out = <<m>> => FromServer(x, m)
    BY <2>1, <2>6
  <2> QED
    BY <1>4, <2>5, <2>7
<1>9. ASSUME NEW b \in Slots, NEW data, NEW k, Hears(e, rest, b, data, k)
      PROVE  HearsAck(e, rest, b, data, k)
  BY <1>2, <1>9 DEF Hears, HearsOpen, HearsSynAck
<1>10. \/ Keeps(e, rest, d, out) \/ Leaves(e, d, out) \/ Accepts(e, rest, d, out)
       \/ \E b \in Slots : \E data, k : Hears(e, rest, b, data, k) /\ Answers(e, b, d, out)
  BY DEF EndStep
<1> QED
  BY <1>6, <1>7, <1>8, <1>9, <1>10 DEF Goal

-----------------------------------------------------------------------------
(* A connection open at both ends.  One end has the slot b, k of its        *)
(* bytes are acknowledged, it was handed g, and q is on the way to it; the  *)
(* other has c, l, h and r.                                                 *)

Flows(b, k, q, c, h, r) ==
    /\ Agree(b.snd, b.len, c.rcv, k, h)
    /\ InOrder(b.snd, b.len, c.rcv, k, r)
    /\ AcksInOrder(b.snd, c.rcv, q)
Paired(b, k, g, q, c, l, h, r) == Flows(b, k, q, c, h, r) /\ Flows(c, l, r, b, g, q)

PairedHere(e) ==
    LET p == Peer(e)
    IN Paired(conn[e], acked[e], Len(got[e]), net[e], conn[p], acked[p], Len(got[p]), net[p])

Both == \A e \in Ends : conn[e].st = "ESTABLISHED"
BothInv == Both => \A e \in Ends : PairedHere(e)

LEMMA EitherWay ==
    ASSUME NEW e \in Ends, PairedHere(e) PROVE \A x \in Ends : PairedHere(x)
<1>1. Peer(e) \in Ends /\ Peer(Peer(e)) = e /\ Ends = {e, Peer(e)}
  BY TwoEnds
<1>2. PairedHere(Peer(e))
  BY <1>1 DEF PairedHere, Paired
<1> QED
  BY <1>1, <1>2

\* What an open end hears keeps both in step.
LEMMA HearsPaired ==
    ASSUME TypeInv, NEW e \in Ends, NEW rest, NEW b, NEW data, NEW n,
           rest \in Seq(Segments), \E i \in {0, 1} : Dropped(net[e], rest, i),
           Took(e, rest) => Dropped(net[e], rest, 1),
           NEW k \in Nat, NEW g \in Nat, NEW c \in Slots, NEW l \in Nat, NEW h, NEW r,
           HearsOpen(e, rest, b, data, n),
           Paired(conn[e], k, g, net[e], c, l, h, r)
    PROVE  /\ Paired(b, k + n, g + Len(data), rest, c, l, h, r)
           /\ n # 0 => h = k + n
<1> DEFINE a == conn[e]
           s == Head(net[e])
           q == net[e]
<1>1. /\ q \in Seq(Segments) /\ a \in Slots /\ a.snd \in Numbers /\ a.rcv \in Numbers
      /\ a.len \in 0..Mss /\ c.snd \in Numbers /\ c.rcv \in Numbers /\ c.len \in 0..Mss
  BY DEF TypeInv, Slots
<1>2. Took(e, rest) => s = q[1] /\ 1 \in DOMAIN q /\ s \in Segments
  BY SlotKept DEF Took
<1>3. /\ n \in {0, a.len} /\ b.snd = Add(a.snd, n) /\ b.len = a.len - n
      /\ b.rcv = Add(a.rcv, Len(data))
      /\ n # 0 => Took(e, rest) /\ ~Has(s, "RST") /\ Acks(a, s)
      /\ data # <<>> => Took(e, rest) /\ data = s.data /\ s.seq = a.rcv
  BY DEF HearsOpen
<1>4. Flows(a, k, q, c, h, r) /\ Flows(c, l, r, a, g, q)
  BY DEF Paired
<1> HIDE DEF a, q, s
<1>5. PICK i \in {0, 1} : Dropped(q, rest, i)
  BY DEF q
<1>6. Flows(b, k + n, rest, c, h, r) /\ (n # 0 => h = k + n)
  <2>1. CASE n = 0
    <3>1. b.snd = a.snd /\ b.len = a.len /\ k + n = k
      <4>1. b.snd = Add(a.snd, 0) /\ b.len = a.len - 0 /\ a.len \in Int
        BY <1>1, <1>3, <2>1
      <4>2. Add(a.snd, 0) = a.snd
        BY <1>1, Adding
      <4> QED
        BY <2>1, <4>1, <4>2
    <3>2. AcksInOrder(a.snd, c.rcv, q) => AcksInOrder(a.snd, c.rcv, rest)
      BY <1>1, <1>5, DroppedKeep
    <3> QED
      BY <1>4, <2>1, <3>1, <3>2 DEF Flows
  <2>2. CASE n # 0
    <3>1. n = a.len /\ n \in 1..Mss /\ b.len = 0 /\ b.snd = Add(a.snd, n)
      BY <1>1, <1>3, <2>2, Sizes
    <3>2. /\ 1 \in DOMAIN q /\ ~Has(q[1], "RST") /\ q[1].ack = Add(a.snd, n)
          /\ Dropped(q, rest, 1)
      BY <1>2, <1>3, <2>2, <3>1 DEF Acks, q
    <3>3. /\ h = k + n /\ Agree(Add(a.snd, n), 0, c.rcv, k + n, h)
          /\ InOrder(Add(a.snd, n), 0, c.rcv, k + n, r)
          /\ AcksInOrder(Add(a.snd, n), c.rcv, rest)
      <4>1. /\ Agree(a.snd, n, c.rcv, k, h) /\ InOrder(a.snd, n, c.rcv, k, r)
            /\ AcksInOrder(a.snd, c.rcv, q)
        BY <1>4, <3>1, Zenon DEF Flows
      <4>2. q \in Seq(Segments) /\ a.snd \in Numbers /\ n \in 1..Mss
        BY <1>1, <3>1
      <4> QED
        BY <3>2, <4>1, <4>2, AckTaken, Zenon
    <3> QED
      BY <3>1, <3>3 DEF Flows
  <2> QED
    BY <2>1, <2>2
<1>7. Flows(c, l, r, b, g + Len(data), rest)
  <2>1. CASE data = <<>>
    <3>1. b.rcv = a.rcv /\ g + Len(data) = g
      <4>1. Len(<<>>) = 0 /\ Add(a.rcv, 0) = a.rcv
        BY <1>1, Adding
      <4> QED
        BY <1>3, <2>1, <4>1
    <3>2. InOrder(c.snd, c.len, a.rcv, l, q) => InOrder(c.snd, c.len, a.rcv, l, rest)
      BY <1>1, <1>5, DroppedKeep
    <3> QED
      BY <1>4, <3>1, <3>2 DEF Flows
  <2>2. CASE data # <<>>
    <3>1. /\ 1 \in DOMAIN q /\ Carries(q[1]) /\ q[1].seq = a.rcv /\ data = q[1].data
          /\ Dropped(q, rest, 1)
      BY <1>2, <1>3, <2>2 DEF Carries, q
    <3>2. /\ Agree(c.snd, c.len, Add(a.rcv, Len(q[1].data)), l, g + Len(q[1].data))
          /\ InOrder(c.snd, c.len, Add(a.rcv, Len(q[1].data)), l, rest)
          /\ AcksInOrder(c.snd, Add(a.rcv, Len(q[1].data)), r)
      BY <1>1, <1>4, <3>1, DataTaken DEF Flows
    <3> QED
      BY <1>3, <3>1, <3>2 DEF Flows
  <2> QED
    BY <2>1, <2>2
<1> QED
  BY <1>6, <1>7 DEF Paired

\* Nor does what it says.
LEMMA SpeaksPaired ==
    ASSUME NEW e \in Ends, NEW b \in Slots, NEW d \in Slots, NEW out, Speaks(e, b, d, out),
           acked'[e] \in Nat, NEW g, NEW q, NEW c, NEW l, NEW h,
           NEW r \in Seq(Segments), NEW r2 \in Seq(Segments), Grown(r, r2, out),
           Paired(b, acked'[e], g, q, c, l, h, r)
    PROVE  Paired(d, acked'[e], g, q, c, l, h, r2)
<1> DEFINE k == acked'[e]
<1>1. /\ d.snd = b.snd /\ d.rcv = b.rcv /\ b.snd \in Numbers /\ b.len \in 0..Mss
      /\ Flows(b, k, q, c, h, r) /\ Flows(c, l, r, b, g, q)
  BY DEF Speaks, Slots, Paired
<1>2. ASSUME \A m \in Segments : out = <<m>> => m.ack = d.rcv
      PROVE  Flows(c, l, r2, d, g, q)
  <2>1. \A m \in Segments : out = <<m>> => m.ack = b.rcv \/ Has(m, "RST")
    BY <1>1, <1>2
  <2>2. AcksInOrder(c.snd, b.rcv, r2)
    BY <1>1, <2>1, GrownAcks DEF Flows
  <2> QED
    BY <1>1, <2>2 DEF Flows
<1>3. CASE out \in {<<>>, <<Ack(d)>>} /\ d.len = b.len
  <2>1. \A m \in Segments : out = <<m>> => m.ack = d.rcv /\ m.data = <<>>
    BY <1>3 DEF Ack, Segment
  <2>2. InOrder(b.snd, b.len, c.rcv, k, r2)
    BY <1>1, <2>1, GrownKeep DEF Flows
  <2>3. Flows(d, k, q, c, h, r2)
    BY <1>1, <1>3, <2>2 DEF Flows
  <2>4. Flows(c, l, r2, d, g, q)
    BY <1>2, <2>1
  <2> QED
    BY <2>3, <2>4 DEF Paired
<1>4. CASE /\ d.len \in 1..Mss /\ k + d.len <= Length[e] /\ b.len \in {0, d.len}
           /\ out = <<Data(e, d, d.len)>>
  <2> DEFINE m == Data(e, d, d.len)
  <2>1. m \in Segments /\ m.data = Slice(k, d.len) /\ m.seq = d.snd /\ m.ack = d.rcv
    BY <1>4, DataSent
  <2> HIDE DEF m, k
  <2>2. /\ b.snd \in Numbers /\ d.len \in 1..Mss /\ b.len \in {0, d.len} /\ k \in Nat
        /\ m.seq = b.snd /\ Grown(r, r2, <<m>>)
        /\ Agree(b.snd, b.len, c.rcv, k, h) /\ InOrder(b.snd, b.len, c.rcv, k, r)
    BY <1>1, <1>4, <2>1 DEF Flows, m, k
  <2>3. Agree(b.snd, d.len, c.rcv, k, h) /\ InOrder(b.snd, d.len, c.rcv, k, r2)
    BY <2>1, <2>2, GrownData, Zenon
  <2>4. Flows(d, k, q, c, h, r2)
    BY <1>1, <2>3 DEF Flows
  <2>5. \A t \in Segments : out = <<t>> => t.ack = d.rcv
    BY <1>4, <2>1 DEF m
  <2>6. Flows(c, l, r2, d, g, q)
    BY <1>2, <2>5
  <2> QED
    BY <2>4, <2>6 DEF Paired, k
<1> QED
  BY <1>3, <1>4 DEF Speaks

\* The server becomes open by an acknowledgement of its SYNACK.
LEMMA EntersPaired ==
    ASSUME TypeInv, NEW x \in Numbers, NEW n \in 0..Mss, Opening(x, n),
           conn[Client].st = "ESTABLISHED",
           NEW rest \in Seq(Segments), NEW b \in Slots, NEW data, NEW k,
           HearsAck(Server, rest, b, data, k), Dropped(net[Server], rest, 1)
    PROVE  Paired(b, 0, Len(data), rest, conn[Client], 0, 0, net[Client])
<1> DEFINE q == net[Server]
           r == net[Client]
           d == conn[Server]
           c == conn[Client]
           s == q[1]
<1>1. /\ q \in Seq(Segments) /\ r \in Seq(Segments) /\ d \in Slots /\ c \in Slots
      /\ c.snd \in Numbers /\ c.len \in 0..Mss /\ c.rcv \in Numbers
  BY TwoEnds DEF TypeInv, Slots
<1>2. /\ s = Head(q) /\ 1 \in DOMAIN q /\ s \in Segments /\ Has(s, "ACK") /\ data = s.data
      /\ (data # <<>> => s.seq = d.rcv) /\ b.snd = s.ack /\ b.len = 0
      /\ b.rcv = Add(d.rcv, Len(data)) /\ d.st = "SYN_RCVD"
  BY TwoEnds, SlotKept DEF HearsAck, Took, Acks
<1>3. /\ d.rcv = x /\ c.snd = x /\ c.len \in {0, n} /\ c.st \in Live
      /\ \A i \in DOMAIN q : FromClient(x, n, c, q[i])
      /\ \A i, j \in DOMAIN q : i < j /\ IsSyn(q[j]) => IsSyn(q[i])
      /\ \A i \in DOMAIN r : FromServer(x, r[i])
  BY <1>2 DEF Opening, ClientOpens, ServerOpens, Live
<1>4. ~IsSyn(s) /\ s.ack = c.rcv
  BY <1>2, <1>3 DEF FromClient, IsSyn, Has
<1>5. \A i \in DOMAIN rest : i + 1 \in DOMAIN q /\ rest[i] = q[i + 1]
  BY DEF Dropped
<1> HIDE DEF q, r, d, c, s
<1>6. /\ \A i \in DOMAIN q : Carries(q[i]) => q[i].seq = x /\ q[i].data = Slice(0, c.len)
      /\ \A i \in DOMAIN r : ~Carries(r[i]) /\ (~Has(r[i], "RST") => r[i].ack = x)
      /\ \A i \in DOMAIN rest : rest[i].ack = c.rcv
  <2>1. \A i \in DOMAIN q : Carries(q[i]) => q[i].seq = x /\ q[i].data = Slice(0, c.len)
    BY <1>3 DEF FromClient, c
  <2>2. \A i \in DOMAIN r : ~Carries(r[i]) /\ (~Has(r[i], "RST") => r[i].ack = x)
    BY <1>3 DEF FromServer
  <2>3. ASSUME NEW i \in DOMAIN rest PROVE rest[i].ack = c.rcv
    <3>1. i + 1 \in DOMAIN q /\ rest[i] = q[i + 1] /\ 1 < i + 1
      BY <1>5
    <3>2. ~IsSyn(q[i + 1])
      BY <1>2, <1>3, <1>4, <3>1 DEF s
    <3> QED
      BY <1>3, <3>1, <3>2 DEF FromClient, c
  <2> QED
    BY <2>1, <2>2, <2>3
<1>7. Add(x, 0) = x /\ Len(<<>>) = 0 /\ x \in {x, Add(x, c.len)} /\ c.rcv \in {c.rcv, Add(c.rcv, 0)}
  BY Adding
<1>8. Flows(b, 0, rest, c, 0, r)
  <2>1. b.snd = c.rcv /\ b.len = 0
    BY <1>2, <1>4
  <2>2. Agree(c.rcv, 0, c.rcv, 0, 0)
    BY DEF Agree
  <2>3. InOrder(c.rcv, 0, c.rcv, 0, r)
    BY <1>6 DEF InOrder
  <2>4. AcksInOrder(c.rcv, c.rcv, rest)
    BY <1>6 DEF AcksInOrder
  <2> QED
    BY <2>1, <2>2, <2>3, <2>4 DEF Flows
<1>9. Agree(x, c.len, x, 0, 0) /\ InOrder(x, c.len, x, 0, q) /\ AcksInOrder(x, x, r)
  BY <1>6, <1>7 DEF Agree, InOrder, AcksInOrder
<1>10. Flows(c, 0, r, b, Len(data), rest)
  <2>1. CASE data = <<>>
    <3>1. b.rcv = x /\ Len(data) = 0
      BY <1>2, <1>3, <1>7, <2>1
    <3>2. Dropped(q, rest, 1) /\ 1 \in {0, 1}
      BY DEF q
    <3>3. InOrder(x, c.len, x, 0, rest)
      BY <1>1, <1>9, <3>2, DroppedKeep
    <3> QED
      BY <1>3, <1>9, <3>1, <3>3 DEF Flows
  <2>2. CASE data # <<>>
    <3>1. 1 \in DOMAIN q /\ Carries(q[1]) /\ q[1].seq = x /\ data = q[1].data /\ Dropped(q, rest, 1)
      BY <1>2, <1>3, <2>2 DEF Carries, s, q
    <3>2. /\ Agree(x, c.len, Add(x, Len(q[1].data)), 0, 0 + Len(q[1].data))
          /\ InOrder(x, c.len, Add(x, Len(q[1].data)), 0, rest)
          /\ AcksInOrder(x, Add(x, Len(q[1].data)), r)
      <4>1. 0 \in Nat /\ q \in Seq(Segments) /\ c.len \in 0..Mss
        BY <1>1
      <4> QED
        BY <1>9, <3>1, <4>1, DataTaken, Zenon
    <3>3. 0 + Len(data) = Len(data)
      <4>1. data \in Seq(Nat)
        BY <1>2 DEF Segments
      <4> QED
        BY <4>1
    <3> QED
      BY <1>2, <1>3, <3>1, <3>2, <3>3 DEF Flows
  <2> QED
    BY <2>1, <2>2
<1> QED
  BY <1>8, <1>10 DEF Paired, c, r

-----------------------------------------------------------------------------
(* Both ends agree where they are                                          *)

LEMMA HeardTypes ==
    ASSUME TypeInv, NEW e \in Ends, NEW rest, NEW b, NEW data, NEW n, Hears(e, rest, b, data, n)
    PROVE  data \in Seq(Nat) /\ n \in Nat
<1>1. conn[e] \in Slots /\ conn[e].len \in Nat
  BY DEF TypeInv, Slots
<1>2. Took(e, rest) => Head(net[e]).data \in Seq(Nat)
  BY SlotKept DEF Took, Segments
<1>3. <<>> \in Seq(Nat) /\ 0 \in Nat
  OBVIOUS
<1>4. CASE HearsOpen(e, rest, b, data, n)
  <2>1. n \in {0, conn[e].len} /\ (data # <<>> => Took(e, rest) /\ data = Head(net[e]).data)
    BY <1>4 DEF HearsOpen
  <2> QED
    BY <1>1, <1>2, <1>3, <2>1, Zenon
<1>5. CASE HearsAck(e, rest, b, data, n) \/ HearsSynAck(e, rest, b, data, n)
  <2>1. n = 0 /\ (data = <<>> \/ (Took(e, rest) /\ data = Head(net[e]).data))
    BY <1>5, Zenon DEF HearsAck, HearsSynAck
  <2> QED
    BY <1>2, <1>3, <2>1, Zenon
<1> QED
  BY <1>4, <1>5, Zenon DEF Hears

\* Only a client that is opening sends a SYN.
LEMMA SynsSent ==
    ASSUME TypeInv, NEW e \in Ends, NEW rest, NEW d, NEW out, EndStep(e, rest, d, out),
           NEW m \in Segments, out = <<m>>, IsSyn(m)
    PROVE  conn[e].st = "SYN_SENT"
<1>1. d \in Slots /\ acked'[e] \in Nat
  BY StepParts, StepQueues
<1>2. ~IsSyn(Rst) /\ ~IsSyn(Ack(d)) /\ ~IsSyn(SynAck(d))
  BY <1>1, Sent
<1>3. CASE Keeps(e, rest, d, out)
  BY <1>2, <1>3 DEF Keeps
<1>4. ~Leaves(e, d, out)
  BY <1>2 DEF Leaves
<1>5. ~Accepts(e, rest, d, out)
  BY <1>2 DEF Accepts
<1>6. ASSUME NEW b \in Slots, Answers(e, b, d, out) PROVE FALSE
  <2>1. CASE Speaks(e, b, d, out)
    <3>1. ~IsSyn(Data(e, d, d.len))
      BY DEF Data, Segment, IsSyn
    <3> QED
      BY <1>2, <2>1, <3>1 DEF Speaks
  <2>2. CASE Closes(d, out)
    BY <2>2 DEF Closes
  <2> QED
    BY <1>6, <2>1, <2>2 DEF Answers
<1> QED
  BY <1>3, <1>4, <1>5, <1>6 DEF EndStep

\* A connection opens once.
LEMMA OlderKept ==
    ASSUME TypeInv, ~Young, NEW e \in Ends, NEW rest, NEW d, NEW out, EndStep(e, rest, d, out)
    PROVE  ~Young'
<1>1. /\ conn[Client].st # "SYN_SENT" /\ conn[Server].st # "SYN_RCVD"
      /\ \A i \in DOMAIN net[Server] : ~IsSyn(net[Server][i])
      /\ conn[Client].st # "SYN_RCVD" /\ conn[Server].st # "SYN_SENT"
  BY DEF Young, TypeInv
<1>2. /\ conn'[e] = d /\ conn'[Peer(e)] = conn[Peer(e)] /\ net'[e] = rest
      /\ net[Peer(e)] \in Seq(Segments) /\ net'[Peer(e)] \in Seq(Segments)
      /\ Grown(net[Peer(e)], net'[Peer(e)], out)
      /\ \E k \in {0, 1} : Dropped(net[e], rest, k)
      /\ e \in {Client, Server} /\ Peer(Client) = Server /\ Peer(Server) = Client
  BY StepQueues, TwoEnds DEF Ends
<1>3. d.st # "SYN_SENT"
  BY <1>1, <1>2, StepParts
<1>4. CASE e = Client
  <2>1. \A i \in DOMAIN net'[Server] : ~IsSyn(net'[Server][i])
    <3>1. \A m \in Segments : out = <<m>> => ~IsSyn(m)
      BY <1>1, <1>4, SynsSent
    <3>2. \A i \in DOMAIN net'[Server] :
             \/ i \in DOMAIN net[Server] /\ net'[Server][i] = net[Server][i]
             \/ out = <<net'[Server][i]>> /\ net'[Server][i] \in Segments
      BY <1>2, <1>4, GrownPlaces
    <3> QED
      BY <1>1, <3>1, <3>2
  <2> QED
    BY <1>1, <1>2, <1>3, <1>4, <2>1 DEF Young
<1>5. CASE e = Server
  <2>1. \A i \in DOMAIN rest : ~IsSyn(rest[i])
    BY <1>1, <1>2, <1>5 DEF Dropped
  <2>2. d.st # "SYN_RCVD"
    <3>1. ~Accepts(e, rest, d, out)
      <4>1. ASSUME Took(e, rest) PROVE Head(net[e]) = net[e][1] /\ 1 \in DOMAIN net[e]
        BY <4>1, SlotKept DEF Took
      <4> QED
        BY <1>1, <1>5, <4>1 DEF Accepts
    <3> QED
      BY <1>1, <1>5, <3>1 DEF EndStep, Keeps, Leaves, Live, Answers, Speaks, Closes
  <2> QED
    BY <1>1, <1>2, <1>5, <2>1, <2>2 DEF Young
<1> QED
  BY <1>2, <1>4, <1>5

\* The acknowledgement of the SYNACK ends the opening.
LEMMA OpenedOlder ==
    ASSUME TypeInv, NEW x, NEW n, Opening(x, n),
           NEW rest, NEW d, NEW out, EndStep(Server, rest, d, out),
           NEW b, NEW data, NEW k, HearsAck(Server, rest, b, data, k), Answers(Server, b, d, out)
    PROVE  ~Young'
<1> DEFINE q == net[Server]
<1>1. /\ conn'[Server] = d /\ conn'[Client] = conn[Client] /\ net'[Server] = rest
      /\ Took(Server, rest) /\ Dropped(q, rest, 1) /\ Has(Head(q), "ACK")
      /\ Head(q) = q[1] /\ 1 \in DOMAIN q /\ rest \in Seq(Segments)
  <2>1. Took(Server, rest) /\ Has(Head(q), "ACK")
    BY DEF HearsAck, Acks
  <2>2. Server \in Ends /\ Peer(Server) = Client
    BY TwoEnds
  <2>3. Head(q) = q[1] /\ 1 \in DOMAIN q
    BY <2>1, <2>2, SlotKept DEF Took
  <2>4. /\ conn'[Server] = d /\ conn'[Peer(Server)] = conn[Peer(Server)] /\ net'[Server] = rest
        /\ rest \in Seq(Segments) /\ (Took(Server, rest) => Dropped(q, rest, 1))
    BY <2>2, StepQueues
  <2> QED
    BY <2>1, <2>2, <2>3, <2>4
<1>2. /\ \A i \in DOMAIN q : FromClient(x, n, conn[Client], q[i])
      /\ \A i, j \in DOMAIN q : i < j /\ IsSyn(q[j]) => IsSyn(q[i])
  BY DEF Opening
<1>3. ~IsSyn(q[1])
  BY <1>1 DEF IsSyn, Has
<1>4. conn[Client].st # "SYN_SENT"
  BY <1>1, <1>2, <1>3 DEF FromClient
<1>5. d.st # "SYN_RCVD"
  BY DEF Answers, Speaks, Closes, Live
<1>6. ASSUME NEW i \in DOMAIN rest PROVE ~IsSyn(rest[i])
  <2>1. i + 1 \in DOMAIN q /\ rest[i] = q[i + 1] /\ 1 < i + 1
    BY <1>1 DEF Dropped
  <2> QED
    BY <1>1, <1>2, <1>3, <2>1
<1> QED
  BY <1>1, <1>4, <1>5, <1>6 DEF Young

LEMMA YoungKept == ASSUME TypeInv, Unopened, YoungInv, [Next]_vars PROVE YoungInv'
<1>1. ASSUME NEW e \in Ends, NEW rest, NEW d, NEW out, EndStep(e, rest, d, out) PROVE YoungInv'
  <2>1. CASE ~Young
    BY <1>1, <2>1, OlderKept DEF YoungInv
  <2>2. CASE Young
    <3>1. PICK x \in Numbers, n \in 0..Mss : Opening(x, n)
      BY <2>2 DEF YoungInv
    <3>2. CASE e = Client
      BY <1>1, <3>1, <3>2, ClientYoung DEF YoungInv
    <3>3. CASE e = Server
      BY <1>1, <3>1, <3>3, ServerYoung, OpenedOlder DEF YoungInv
    <3> QED
      BY <3>2, <3>3 DEF Ends
  <2> QED
    BY <2>1, <2>2
<1>2. CASE uip_connect
  <2>1. PICK i \in Iss : conn' = [conn EXCEPT ![Client] =
            [Closed EXCEPT !.st = "SYN_SENT", !.snd = i, !.len = 1]]
    BY <1>2 DEF uip_connect
  <2> DEFINE x == Add(i, 1)
  <2>2. /\ x \in Numbers /\ 0 \in 0..Mss /\ Client \in Ends /\ Server \in Ends /\ Client # Server
        /\ conn \in [Ends -> Slots]
    BY Sizes, Adding, TwoEnds DEF TypeInv
  <2>3. /\ conn'[Client].st = "SYN_SENT" /\ conn'[Client].snd = i /\ conn'[Client].len = 1
        /\ conn'[Server] = conn[Server]
    BY <2>1, <2>2 DEF Closed
  <2>4. /\ ~opened /\ net' = net /\ acked' = acked /\ got' = got
    BY <1>2 DEF uip_connect
  <2>5. \A e \in Ends : /\ conn[e].st = "CLOSED" /\ net[e] = <<>> /\ got[e] = <<>> /\ acked[e] = 0
    BY <2>4 DEF Unopened, Closed
  <2>6. DOMAIN <<>> = {}
    OBVIOUS
  <2>7. ClientOpens(x, 0, conn'[Client], acked'[Client], got'[Client])
    BY <2>2, <2>3, <2>4, <2>5 DEF ClientOpens
  <2>8. ServerOpens(x, conn'[Server], acked'[Server], got'[Server])
    BY <2>2, <2>3, <2>4, <2>5 DEF ServerOpens
  <2>9. net'[Server] = <<>> /\ net'[Client] = <<>>
    BY <2>2, <2>4, <2>5
  <2>10. Opening(x, 0)'
    BY <2>6, <2>7, <2>8, <2>9 DEF Opening
  <2> HIDE DEF x
  <2> QED
    BY <2>2, <2>10 DEF YoungInv
<1>3. CASE UNCHANGED <<conn, net, acked, got>>
  <2>1. Young' = Young
    BY <1>3 DEF Young
  <2>2. \A x, n : Opening(x, n) => Opening(x, n)'
    BY <1>3 DEF Opening
  <2> QED
    BY <2>1, <2>2 DEF YoungInv
<1> QED
  BY <1>1, <1>2, <1>3, Steps DEF vars, uip_unlisten

\* An open end has heard something, and its peer is open too.
LEMMA HeardPaired ==
    ASSUME TypeInv, YoungInv, BothInv,
           NEW e \in Ends, NEW rest, NEW d, NEW out, EndStep(e, rest, d, out),
           NEW b \in Slots, NEW data, NEW n, Hears(e, rest, b, data, n),
           conn[Peer(e)].st = "ESTABLISHED"
    PROVE  /\ Paired(b, acked'[e], Len(got'[e]), rest,
                     conn[Peer(e)], acked[Peer(e)], Len(got[Peer(e)]), net[Peer(e)])
           /\ n # 0 => Len(got[Peer(e)]) = acked'[e]
<1> DEFINE p == Peer(e)
<1>1. /\ p \in Ends /\ e \in {Client, Server} /\ Peer(Client) = Server /\ Peer(Server) = Client
      /\ \A x \in Ends : x \in {e, p}
  BY TwoEnds DEF Ends
<1>2. /\ net[e] \in Seq(Segments) /\ rest \in Seq(Segments)
      /\ \E i \in {0, 1} : Dropped(net[e], rest, i)
      /\ Took(e, rest) => Dropped(net[e], rest, 1)
  BY StepQueues
<1>3. data \in Seq(Nat) /\ n \in Nat /\ Told(e, data, n)
  BY HeardTypes DEF Hears
<1>4. /\ got'[e] = got[e] \o data /\ acked'[e] = acked[e] + n
      /\ Len(got'[e]) = Len(got[e]) + Len(data)
      /\ got[e] \in Seq(Nat) /\ acked[e] \in Nat /\ Len(got[e]) \in Nat
      /\ acked[p] \in Nat /\ conn[p] \in Slots
  <2>1. acked[p] \in Nat /\ conn[p] \in Slots
    BY <1>1 DEF TypeInv
  <2>2. /\ got'[e] = got[e] \o data /\ acked'[e] = acked[e] + n
        /\ Len(got'[e]) = Len(got[e]) + Len(data)
        /\ got[e] \in Seq(Nat) /\ acked[e] \in Nat
    BY <1>3, Handed, Zenon
  <2> QED
    BY <2>1, <2>2
<1>5. CASE HearsOpen(e, rest, b, data, n)
  <2>1. conn[e].st = "ESTABLISHED"
    BY <1>5 DEF HearsOpen
  <2>2. PairedHere(e)
    BY <1>1, <2>1 DEF BothInv, Both
  <2>3. Paired(conn[e], acked[e], Len(got[e]), net[e],
               conn[p], acked[p], Len(got[p]), net[p])
    BY <2>2 DEF PairedHere
  <2>4. /\ Paired(b, acked[e] + n, Len(got[e]) + Len(data), rest,
                  conn[p], acked[p], Len(got[p]), net[p])
        /\ n # 0 => Len(got[p]) = acked[e] + n
    <3>1. /\ acked[e] \in Nat /\ Len(got[e]) \in Nat /\ conn[p] \in Slots /\ acked[p] \in Nat
          /\ rest \in Seq(Segments)
      BY <1>2, <1>4
    <3> DEFINE k == acked[e]
               g == Len(got[e])
               c == conn[p]
               l == acked[p]
               h == Len(got[p])
               r == net[p]
    <3>2. Paired(conn[e], k, g, net[e], c, l, h, r) /\ k \in Nat /\ g \in Nat /\ c \in Slots /\ l \in Nat
      BY <2>3, <3>1
    <3> HIDE DEF k, g, c, l, h, r
    <3>3. Paired(b, k + n, g + Len(data), rest, c, l, h, r) /\ (n # 0 => h = k + n)
      <4>1. /\ rest \in Seq(Segments) /\ (\E i \in {0, 1} : Dropped(net[e], rest, i))
            /\ Took(e, rest) => Dropped(net[e], rest, 1)
        BY <1>2
      <4> QED
        BY <1>5, <3>2, <4>1, HearsPaired
    <3> QED
      BY <3>3 DEF k, g, c, l, h, r
  <2> QED
    BY <1>4, <2>4
<1>6. CASE HearsAck(e, rest, b, data, n)
  <2>1. conn[e].st = "SYN_RCVD" /\ Took(e, rest) /\ n = 0
    BY <1>6 DEF HearsAck
  <2>2. e = Server /\ p = Client
    BY <1>1, <2>1 DEF TypeInv
  <2>3. PICK x \in Numbers, m \in 0..Mss : Opening(x, m)
    BY <2>1, <2>2 DEF YoungInv, Young
  <2>4. /\ acked[e] = 0 /\ got[e] = <<>> /\ acked[p] = 0 /\ got[p] = <<>>
    BY <2>1, <2>2, <2>3 DEF Opening, ServerOpens, ClientOpens, Live
  <2>5. Paired(b, 0, Len(data), rest, conn[p], 0, 0, net[p])
    BY <1>2, <1>6, <2>1, <2>2, <2>3, EntersPaired
  <2>6. Len(<<>>) = 0 /\ <<>> \o data = data /\ 0 + 0 = 0
    BY <1>3
  <2>7. acked'[e] = 0 /\ Len(got'[e]) = Len(data) /\ Len(got[p]) = 0
    BY <1>4, <2>1, <2>4, <2>6
  <2> QED
    BY <2>1, <2>4, <2>5, <2>7
<1>7. CASE HearsSynAck(e, rest, b, data, n)
  <2>1. conn[e].st = "SYN_SENT"
    BY <1>7 DEF HearsSynAck
  <2>2. e = Client /\ p = Server
    BY <1>1, <2>1 DEF TypeInv
  <2>3. PICK x \in Numbers, m \in 0..Mss : Opening(x, m)
    BY <2>1, <2>2 DEF YoungInv, Young
  <2>4. FALSE
    BY <2>2, <2>3 DEF Opening, ServerOpens
  <2> QED
    BY <2>4
<1> QED
  BY <1>5, <1>6, <1>7 DEF Hears

\* An end that is open after its step has heard and spoken.
LEMMA OpenAfter ==
    ASSUME NEW e \in Ends, NEW rest, NEW d, NEW out, EndStep(e, rest, d, out),
           d.st = "ESTABLISHED"
    PROVE  \E b \in Slots : \E data, n : Hears(e, rest, b, data, n) /\ Speaks(e, b, d, out)
<1>1. ~Keeps(e, rest, d, out) /\ ~Leaves(e, d, out) /\ ~Accepts(e, rest, d, out) /\ ~Closes(d, out)
  BY DEF Keeps, Leaves, Accepts, Closes, Live
<1> QED
  BY <1>1 DEF EndStep, Answers

LEMMA BothStep ==
    ASSUME TypeInv, YoungInv, BothInv,
           NEW e \in Ends, NEW rest, NEW d, NEW out, EndStep(e, rest, d, out),
           d.st = "ESTABLISHED", conn[Peer(e)].st = "ESTABLISHED"
    PROVE  PairedHere(e)'
<1> DEFINE p == Peer(e)
<1>1. PICK b \in Slots : \E data, n : Hears(e, rest, b, data, n) /\ Speaks(e, b, d, out)
  BY OpenAfter
<1>2. Paired(b, acked'[e], Len(got'[e]), rest, conn[p], acked[p], Len(got[p]), net[p])
  BY <1>1, HeardPaired
<1>3. /\ conn'[e] = d /\ conn'[p] = conn[p] /\ d \in Slots
      /\ acked'[p] = acked[p] /\ got'[p] = got[p] /\ net'[e] = rest
      /\ net[p] \in Seq(Segments) /\ net'[p] \in Seq(Segments)
      /\ Grown(net[p], net'[p], out) /\ acked'[e] \in Nat
  BY StepQueues, StepParts
<1> HIDE DEF p
<1>4. Paired(d, acked'[e], Len(got'[e]), rest, conn[p], acked[p], Len(got[p]), net'[p])
  <2> DEFINE g == Len(got'[e])
             c == conn[p]
             l == acked[p]
             h == Len(got[p])
             r == net[p]
             r2 == net'[p]
  <2>1. /\ Speaks(e, b, d, out) /\ Paired(b, acked'[e], g, rest, c, l, h, r)
        /\ r \in Seq(Segments) /\ r2 \in Seq(Segments) /\ Grown(r, r2, out) /\ acked'[e] \in Nat
        /\ d \in Slots
    BY <1>1, <1>2, <1>3
  <2> HIDE DEF g, c, l, h, r, r2
  <2>2. Paired(d, acked'[e], g, rest, c, l, h, r2)
    BY <2>1, SpeaksPaired, Zenon
  <2> QED
    BY <2>2 DEF g, c, l, h, r, r2
<1> QED
  BY <1>3, <1>4 DEF PairedHere, p

LEMMA BothKept == ASSUME TypeInv, YoungInv, BothInv, [Next]_vars PROVE BothInv'
<1>1. ASSUME NEW e \in Ends, NEW rest, NEW d, NEW out, EndStep(e, rest, d, out), Both'
      PROVE  \A x \in Ends : PairedHere(x)'
  <2>1. conn'[e] = d /\ conn'[Peer(e)] = conn[Peer(e)] /\ Peer(e) \in Ends
    BY <1>1, StepQueues, TwoEnds
  <2>2. d.st = "ESTABLISHED" /\ conn[Peer(e)].st = "ESTABLISHED"
    BY <1>1, <2>1 DEF Both
  <2>3. PairedHere(e)'
    BY <1>1, <2>2, BothStep
  <2>4. Peer(Peer(e)) = e /\ Ends = {e, Peer(e)}
    BY TwoEnds
  <2>5. PairedHere(Peer(e))'
    BY <2>3, <2>4 DEF PairedHere, Paired
  <2> QED
    BY <2>3, <2>4, <2>5
<1>2. CASE uip_connect
  <2>1. conn'[Client].st = "SYN_SENT"
    BY <1>2, TwoEnds DEF uip_connect, Closed, TypeInv
  <2> QED
    BY <2>1, TwoEnds DEF BothInv, Both
<1>3. CASE UNCHANGED <<conn, net, acked, got>>
  BY <1>3 DEF BothInv, Both, PairedHere
<1> QED
  BY <1>1, <1>2, <1>3, Steps DEF vars, uip_unlisten, BothInv

TcpInv == TypeInv /\ Unopened /\ YoungInv /\ BothInv

LEMMA TcpHolds == Spec => []TcpInv
<1>1. Init => TcpInv
  <2> SUFFICES ASSUME Init PROVE TcpInv
    OBVIOUS
  <2>1. \A e \in Ends : conn[e].st = "CLOSED" /\ net[e] = <<>>
    BY DEF Init, Closed
  <2>2. DOMAIN <<>> = {}
    OBVIOUS
  <2>3. ~Young /\ ~Both
    BY <2>1, <2>2, TwoEnds DEF Young, Both
  <2> QED
    BY <2>3, TypeStart DEF TcpInv, YoungInv, BothInv
<1>2. TcpInv /\ [Next]_vars => TcpInv'
  BY TypeKept, UnopenedKept, YoungKept, BothKept DEF TcpInv
<1> QED
  BY <1>1, <1>2, PTL DEF Spec

\* When both ends are open, what one expects next is what the other has
\* outstanding or will send next, however segments were lost, sent again or
\* overtaken by a reset (uip.c:1423-1473).
THEOREM OpenInStep == Spec => []InStep
<1>1. TcpInv => InStep
  BY DEF TcpInv, BothInv, Both, InStep, PairedHere, Paired, Flows, Agree
<1> QED
  BY <1>1, TcpHolds, PTL

-----------------------------------------------------------------------------
(* What the applications are handed                                        *)

ThereInv == \A e \in Ends :
    conn[e].st = "ESTABLISHED" => Receivable(conn[e].rcv, net[e], Len(got[e]))
GotInv == \A e \in Ends :
    conn[e].st \in Live => got[e] = Slice(0, Len(got[e])) /\ Len(got[e]) <= most[e]

\* A slice of the stream and the one that comes next.
LEMMA SlicesJoin ==
    ASSUME NEW g \in Nat, NEW m \in Nat
    PROVE  Slice(0, g) \o Slice(g, m) = Slice(0, g + m)
<1> DEFINE a == Slice(0, g)
           b == Slice(g, m)
           c == Slice(0, g + m)
<1>1. /\ a \in Seq(Nat) /\ Len(a) = g /\ b \in Seq(Nat) /\ Len(b) = m
      /\ c \in Seq(Nat) /\ Len(c) = g + m /\ g + m \in Nat
  BY Slices
<1>2. /\ \A i \in 1..g : a[i] = i
      /\ \A i \in 1..m : b[i] = g + i
      /\ \A i \in 1..(g + m) : c[i] = i
  BY DEF Slice
<1> HIDE DEF a, b, c
<1>3. /\ a \o b \in Seq(Nat) /\ Len(a \o b) = g + m
      /\ \A i \in 1..(g + m) : (a \o b)[i] = IF i <= g THEN a[i] ELSE b[i - g]
  BY <1>1, ConcatProperties
<1>4. ASSUME NEW i \in 1..(g + m) PROVE (a \o b)[i] = c[i]
  <2>1. CASE i <= g
    <3>1. i \in 1..g
      BY <2>1
    <3> QED
      BY <1>2, <1>3, <2>1, <3>1
  <2>2. CASE ~(i <= g)
    <3>1. i - g \in 1..m /\ g + (i - g) = i
      BY <2>2
    <3> QED
      BY <1>2, <1>3, <2>2, <3>1
  <2> QED
    BY <2>1, <2>2
<1>5. a \o b = c
  BY <1>1, <1>3, <1>4, SeqEqual
<1> QED
  BY <1>5 DEF a, b, c

\* What an end that becomes open finds on the way to it.
LEMMA FirstReceivable ==
    ASSUME TypeInv, NEW x, NEW n \in 0..Mss, Opening(x, n), NEW e \in Ends,
           conn[e].st \in {"SYN_SENT", "SYN_RCVD"}
    PROVE  /\ got[e] = <<>>
           /\ conn[e].st = "SYN_RCVD" => Receivable(conn[e].rcv, net[e], 0)
           /\ conn[e].st = "SYN_SENT" => \A i \in DOMAIN net[e] : ~Carries(net[e][i])
<1>1. e \in {Client, Server} /\ conn[Client].st # "SYN_RCVD" /\ conn[Server].st # "SYN_SENT"
  BY DEF TypeInv, Ends
<1>2. CASE e = Client
  BY <1>1, <1>2 DEF Opening, ClientOpens, FromServer, Live
<1>3. CASE e = Server
  <2>1. conn[e].rcv = x /\ got[e] = <<>> /\ conn[e].st = "SYN_RCVD"
    BY <1>1, <1>3 DEF Opening, ServerOpens
  <2>2. \A i \in DOMAIN net[e] : Carries(net[e][i]) => net[e][i].seq = x /\ net[e][i].data = Slice(0, n)
    BY <1>3 DEF Opening, FromClient
  <2>3. Len(Slice(0, n)) = n
    BY Sizes, Slices
  <2>4. Receivable(x, net[e], 0)
    BY <2>2, <2>3 DEF Receivable
  <2> QED
    BY <2>1, <2>4
<1> QED
  BY <1>1, <1>2, <1>3

\* What is taken is what comes next.
LEMMA HeardNext ==
    ASSUME TypeInv, NEW e \in Ends, NEW rest \in Seq(Segments), NEW b, NEW data \in Seq(Nat),
           \E i \in {0, 1} : Dropped(net[e], rest, i),
           Took(e, rest) => Dropped(net[e], rest, 1),
           NEW g \in Nat, NEW g2, g2 = g + Len(data), Receivable(conn[e].rcv, net[e], g),
           b.rcv = Add(conn[e].rcv, Len(data)),
           data # <<>> => /\ Took(e, rest) /\ data = Head(net[e]).data
                          /\ Head(net[e]).seq = conn[e].rcv
    PROVE  Receivable(b.rcv, rest, g2) /\ data = Slice(g, Len(data))
<1> DEFINE q == net[e]
           c == conn[e]
<1>1. q \in Seq(Segments) /\ c.rcv \in Numbers
  BY DEF TypeInv, Slots
<1>2. CASE data = <<>>
  <2>1. Len(data) = 0 /\ Slice(g, 0) = <<>> /\ Add(c.rcv, 0) = c.rcv
    BY <1>1, <1>2, Slices, Adding
  <2>2. b.rcv = c.rcv /\ g2 = g
    BY <2>1
  <2>3. Receivable(c.rcv, rest, g)
    BY <1>1, DroppedKeep
  <2> QED
    BY <1>2, <2>1, <2>2, <2>3
<1>3. CASE data # <<>>
  <2>1. /\ 1 \in DOMAIN q /\ Head(q) = q[1] /\ Fits(Peer(e), q[1].data)
        /\ data = q[1].data /\ q[1].seq = c.rcv /\ Carries(q[1]) /\ Dropped(q, rest, 1)
    BY <1>3, SlotKept DEF Took, Carries
  <2>2. Len(data) \in 1..Mss
    <3>1. Len(data) \in Nat /\ Len(data) # 0
      BY <1>3, EmptySeq
    <3>2. Len(data) <= Mss
      BY <2>1 DEF Fits
    <3> QED
      BY <3>1, <3>2, Sizes
  <2> HIDE DEF q, c
  <2>3. Receivable(c.rcv, q, g)
    BY DEF q, c
  <2>4. /\ q[1].data = Slice(g, Len(q[1].data))
        /\ Receivable(Add(c.rcv, Len(q[1].data)), rest, g2)
    BY <1>1, <2>1, <2>2, <2>3, Received
  <2> QED
    BY <2>1, <2>4 DEF c
<1> QED
  BY <1>2, <1>3

LEMMA HeardStep ==
    ASSUME TypeInv, YoungInv, ThereInv, GotInv,
           NEW e \in Ends, NEW rest, NEW d, NEW out, EndStep(e, rest, d, out),
           NEW b, NEW data, NEW n, Hears(e, rest, b, data, n)
    PROVE  /\ Receivable(b.rcv, rest, Len(got'[e]))
           /\ got'[e] = Slice(0, Len(got'[e])) /\ Len(got'[e]) = Len(got[e]) + Len(data)
           /\ Len(got[e]) \in Nat /\ Len(data) \in Nat
           /\ conn[e].st \in Live /\ Len(got[e]) <= most[e] /\ got[e] = Slice(0, Len(got[e]))
<1> DEFINE g == Len(got[e])
           c == conn[e]
<1>1. /\ net[e] \in Seq(Segments) /\ rest \in Seq(Segments)
      /\ \E i \in {0, 1} : Dropped(net[e], rest, i)
      /\ Took(e, rest) => Dropped(net[e], rest, 1)
  BY StepQueues
<1>2. data \in Seq(Nat) /\ n \in Nat /\ Told(e, data, n)
  BY HeardTypes DEF Hears
<1>3. /\ got'[e] = got[e] \o data /\ Len(got'[e]) = Len(got[e]) + Len(data)
      /\ got[e] \in Seq(Nat)
  BY <1>2, Handed, Zenon
<1>4. g \in Nat /\ Len(data) \in Nat
  BY <1>2, <1>3
<1>5. c.st \in Live
  BY DEF Hears, HearsOpen, HearsAck, HearsSynAck, Live
<1>6. got[e] = Slice(0, g) /\ g <= most[e]
  BY <1>5 DEF GotInv
<1>7. ASSUME data = Slice(g, Len(data)) PROVE got'[e] = Slice(0, Len(got'[e]))
  BY <1>3, <1>4, <1>6, <1>7, SlicesJoin
<1>8. ASSUME c.st \in {"SYN_SENT", "SYN_RCVD"}
      PROVE  /\ g = 0
             /\ c.st = "SYN_RCVD" => Receivable(c.rcv, net[e], g)
             /\ c.st = "SYN_SENT" => \A i \in DOMAIN net[e] : ~Carries(net[e][i])
  <2>1. Young
    BY <1>8, TwoEnds DEF Young, TypeInv, Ends
  <2>2. PICK x \in Numbers, m \in 0..Mss : Opening(x, m)
    BY <2>1 DEF YoungInv
  <2>3. Len(<<>>) = 0
    OBVIOUS
  <2> QED
    BY <1>8, <2>2, <2>3, FirstReceivable
<1> HIDE DEF g
<1>9. CASE HearsSynAck(e, rest, b, data, n)
  <2>1. c.st = "SYN_SENT" /\ data = <<>>
    BY <1>9 DEF HearsSynAck
  <2>2. \A i \in DOMAIN rest : ~Carries(rest[i])
    BY <1>1, <1>8, <2>1 DEF Dropped
  <2>3. Receivable(b.rcv, rest, Len(got'[e]))
    BY <2>2 DEF Receivable
  <2>4. data = Slice(g, Len(data))
    BY <1>4, <2>1, Slices
  <2> QED
    BY <1>3, <1>4, <1>5, <1>6, <1>7, <2>3, <2>4 DEF g
<1>10. CASE HearsOpen(e, rest, b, data, n) \/ HearsAck(e, rest, b, data, n)
  <2>1. /\ b.rcv = Add(c.rcv, Len(data))
        /\ data # <<>> => /\ Took(e, rest) /\ data = Head(net[e]).data
                          /\ Head(net[e]).seq = c.rcv
        /\ c.st \in {"ESTABLISHED", "SYN_RCVD"}
    BY <1>10 DEF HearsOpen, HearsAck
  <2>2. Receivable(c.rcv, net[e], g)
    BY <1>8, <2>1 DEF ThereInv, g
  <2>3. Receivable(b.rcv, rest, Len(got'[e])) /\ data = Slice(g, Len(data))
    <3> DEFINE g2 == Len(got'[e])
    <3>1. g2 = g + Len(data)
      BY <1>3 DEF g
    <3> HIDE DEF g2
    <3>2. Receivable(b.rcv, rest, g2) /\ data = Slice(g, Len(data))
      BY <1>1, <1>2, <1>4, <2>1, <2>2, <3>1, HeardNext
    <3> QED
      BY <3>2 DEF g2
  <2> QED
    BY <1>3, <1>4, <1>5, <1>6, <1>7, <2>3 DEF g
<1> QED
  BY <1>9, <1>10 DEF Hears

\* An end that is not open after its step sends no data.
LEMMA SilentUnlessOpen ==
    ASSUME TypeInv, NEW e \in Ends, NEW rest, NEW d, NEW out, EndStep(e, rest, d, out),
           d.st # "ESTABLISHED"
    PROVE  \A m \in Segments : out = <<m>> => m.data = <<>>
<1>1. d \in Slots
  BY StepQueues
<1>2. \A m \in {Syn(d), SynAck(d), Ack(d), Rst} : m.data = <<>>
  BY <1>1, Sent
<1>3. ASSUME out \in {<<>>, <<Syn(d)>>, <<SynAck(d)>>, <<Ack(d)>>, <<Rst>>}
      PROVE  \A m \in Segments : out = <<m>> => m.data = <<>>
  BY <1>2, <1>3
<1>4. ASSUME NEW m \in Segments, out = <<m>> /\ m.data = <<>>
      PROVE  \A t \in Segments : out = <<t>> => t.data = <<>>
  BY <1>4
<1>5. CASE Keeps(e, rest, d, out)
  BY <1>3, <1>5 DEF Keeps
<1>6. CASE Leaves(e, d, out)
  <2>1. \/ out \in {<<>>, <<Rst>>}
        \/ \E m \in Segments : out = <<m>> /\ m.data = <<>>
    BY <1>6 DEF Leaves
  <2> QED
    BY <1>3, <1>4, <2>1
<1>7. CASE Accepts(e, rest, d, out)
  BY <1>3, <1>7 DEF Accepts
<1>8. ASSUME NEW b \in Slots, Answers(e, b, d, out)
      PROVE  \A t \in Segments : out = <<t>> => t.data = <<>>
  BY <1>4, <1>8 DEF Answers, Speaks, Closes
<1> QED
  BY <1>5, <1>6, <1>7, <1>8 DEF EndStep

LEMMA ThereStep ==
    ASSUME TypeInv, YoungInv, BothInv, ThereInv, GotInv,
           NEW e \in Ends, NEW rest, NEW d, NEW out, EndStep(e, rest, d, out)
    PROVE  ThereInv'
<1> DEFINE p == Peer(e)
<1>1. /\ conn'[e] = d /\ conn'[p] = conn[p] /\ d \in Slots
      /\ got'[p] = got[p] /\ net'[e] = rest /\ acked' \in [Ends -> Nat]
      /\ net[p] \in Seq(Segments) /\ net'[p] \in Seq(Segments)
      /\ Grown(net[p], net'[p], out) /\ p \in Ends /\ \A x \in Ends : x \in {e, p}
  BY StepQueues, StepParts, TwoEnds
<1>2. ASSUME d.st = "ESTABLISHED" PROVE Receivable(d.rcv, rest, Len(got'[e]))
  <2>1. PICK b \in Slots : \E data, n : Hears(e, rest, b, data, n) /\ Speaks(e, b, d, out)
    BY <1>2, OpenAfter
  <2>2. d.rcv = b.rcv
    BY <2>1 DEF Speaks
  <2>3. Receivable(b.rcv, rest, Len(got'[e]))
    BY <2>1, HeardStep
  <2> QED
    BY <2>2, <2>3
<1>3. ASSUME conn[p].st = "ESTABLISHED" PROVE Receivable(conn[p].rcv, net'[p], Len(got[p]))
  <2>1. CASE d.st = "ESTABLISHED"
    <3>1. PairedHere(e)'
      BY <1>3, <2>1, BothStep
    <3> DEFINE k == acked'[e]
               g == Len(got[p])
    <3>2. /\ Agree(d.snd, d.len, conn[p].rcv, k, g)
          /\ InOrder(d.snd, d.len, conn[p].rcv, k, net'[p])
      BY <1>1, <3>1 DEF PairedHere, Paired, Flows
    <3>3. k \in Nat /\ d.len \in Nat
      BY <1>1 DEF Slots
    <3> HIDE DEF k, g, p
    <3>4. Receivable(conn[p].rcv, net'[p], g)
      BY <1>1, <3>2, <3>3, OrderedReceivable
    <3> QED
      BY <3>4 DEF g
  <2>2. CASE d.st # "ESTABLISHED"
    <3>1. \A m \in Segments : out = <<m>> => m.data = <<>>
      BY <2>2, SilentUnlessOpen
    <3>2. Receivable(conn[p].rcv, net[p], Len(got[p]))
      BY <1>1, <1>3 DEF ThereInv
    <3> HIDE DEF p
    <3> QED
      BY <1>1, <3>1, <3>2, GrownKeep
  <2> QED
    BY <2>1, <2>2
<1> QED
  BY <1>1, <1>2, <1>3 DEF ThereInv

\* The bytes handed over, and the most ever.
LEMMA MostIs ==
    ASSUME TypeInv, NEW e \in Ends, NEW data \in Seq(Nat), NEW n, Told(e, data, n),
           Len(got[e]) <= most[e]
    PROVE  LET len == Len(got[e]) + Len(data)
           IN /\ most' = [most EXCEPT ![e] = IF len > @ THEN len ELSE @]
              /\ len <= most'[e]
<1> DEFINE len == Len(got[e]) + Len(data)
           more == [most EXCEPT ![e] = IF len > @ THEN len ELSE @]
<1>1. /\ most \in [Ends -> Nat] /\ most[e] \in Nat /\ got[e] \in Seq(Nat) /\ Len(got[e]) \in Nat
      /\ Len(data) \in Nat /\ len \in Nat
  <2>1. most \in [Ends -> Nat] /\ got \in [Ends -> Seq(Nat)]
    BY DEF TypeInv
  <2>2. most[e] \in Nat /\ got[e] \in Seq(Nat)
    BY <2>1
  <2> QED
    BY <2>1, <2>2
<1>2. CASE Call(e, data, n)
  <2>1. \A i, j \in Nat : Max({i, j}) = IF j > i THEN j ELSE i
    <3> TAKE i, j \in Nat
    <3>1. \E x \in {i, j} : \A y \in {i, j} : x >= y
      OBVIOUS
    <3>2. Max({i, j}) \in {i, j} /\ \A y \in {i, j} : Max({i, j}) >= y
      BY <3>1 DEF Max
    <3> QED
      BY <3>2
  <2>2. Max({most[e], len}) = IF len > most[e] THEN len ELSE most[e]
    BY <1>1, <2>1
  <2>3. most' = [most EXCEPT ![e] = Max({@, len})]
    BY <1>2 DEF Call
  <2> HIDE DEF len
  <2>4. most' = more
    BY <2>2, <2>3
  <2> QED
    BY <1>1, <2>4 DEF len
<1>3. CASE data = <<>> /\ NoCall
  <2>1. len = Len(got[e]) /\ most' = most
    BY <1>1, <1>3 DEF NoCall
  <2> HIDE DEF len
  <2>2. ~(len > most[e])
    BY <1>1, <2>1
  <2>3. more = most
    BY <1>1, <2>2
  <2> QED
    BY <2>1, <2>3 DEF len
<1> QED
  BY <1>2, <1>3 DEF Told

LEMMA GotStep ==
    ASSUME TypeInv, YoungInv, ThereInv, GotInv,
           NEW e \in Ends, NEW rest, NEW d, NEW out, EndStep(e, rest, d, out)
    PROVE  GotInv'
<1> DEFINE p == Peer(e)
           Good == d.st \in Live => got'[e] = Slice(0, Len(got'[e])) /\ Len(got'[e]) <= most'[e]
<1>1. /\ conn'[e] = d /\ conn'[p] = conn[p] /\ got'[p] = got[p] /\ most'[p] = most[p]
      /\ p \in Ends /\ \A x \in Ends : x \in {e, p}
      /\ got \in [Ends -> Seq(Nat)] /\ most \in [Ends -> Nat]
  <2>1. conn'[e] = d /\ conn'[p] = conn[p] /\ got'[p] = got[p] /\ most'[p] = most[p]
    BY StepQueues
  <2>2. p \in Ends /\ \A x \in Ends : x \in {e, p}
    BY TwoEnds
  <2> QED
    BY <2>1, <2>2 DEF TypeInv
<1>2. CASE Keeps(e, rest, d, out)
  <2>1. d.st = conn[e].st /\ got' = got /\ most' = most
    BY <1>2 DEF Keeps, NoCall
  <2> QED
    BY <2>1, <1>1 DEF GotInv
<1>3. CASE Leaves(e, d, out)
  <2>1. d.st \notin Live
    BY <1>3 DEF Leaves
  <2> QED
    BY <1>1, <2>1 DEF GotInv
<1>4. CASE Accepts(e, rest, d, out)
  <2>1. got'[e] = <<>> /\ most' = most
    BY <1>1, <1>4 DEF Accepts
  <2>2. Slice(0, 0) = <<>> /\ Len(<<>>) = 0
    BY Slices
  <2>3. most[e] \in Nat
    BY <1>1
  <2>4. Len(got'[e]) = 0 /\ 0 <= most'[e]
    BY <2>1, <2>2, <2>3
  <2>5. Good
    BY <2>1, <2>2, <2>4
  <2> QED
    BY <1>1, <2>5 DEF GotInv
<1>5. ASSUME NEW b \in Slots, NEW data, NEW n, Hears(e, rest, b, data, n)
      PROVE  GotInv'
  <2>1. data \in Seq(Nat) /\ Told(e, data, n)
    BY <1>5, HeardTypes DEF Hears
  <2>2. /\ got'[e] = Slice(0, Len(got'[e])) /\ Len(got'[e]) = Len(got[e]) + Len(data)
        /\ Len(got[e]) <= most[e]
    BY <1>5, HeardStep
  <2>3. Len(got'[e]) <= most'[e]
    BY <2>1, <2>2, MostIs
  <2> QED
    BY <1>1, <2>2, <2>3 DEF GotInv
<1> QED
  BY <1>2, <1>3, <1>4, <1>5 DEF EndStep

LEMMA StreamInvKept ==
    ASSUME TcpInv, ThereInv, GotInv, [Next]_vars PROVE ThereInv' /\ GotInv'
<1>1. ASSUME NEW e \in Ends, NEW rest, NEW d, NEW out, EndStep(e, rest, d, out)
      PROVE  ThereInv' /\ GotInv'
  BY <1>1, ThereStep, GotStep DEF TcpInv
<1>2. CASE uip_connect
  <2>1. /\ conn'[Client].st = "SYN_SENT" /\ conn'[Server] = conn[Server]
        /\ ~opened /\ net' = net /\ got' = got /\ most' = most
    BY <1>2, TwoEnds DEF uip_connect, Closed, TcpInv, TypeInv
  <2>2. conn[Server].st = "CLOSED" /\ got[Client] = <<>>
    BY <2>1, TwoEnds DEF TcpInv, Unopened, Closed
  <2>3. Slice(0, 0) = <<>> /\ Len(<<>>) = 0 /\ most[Client] \in Nat
    BY Slices, TwoEnds DEF TcpInv, TypeInv
  <2>4. 0 <= most[Client]
    BY <2>3
  <2>5. \A e \in Ends : e = Client \/ e = Server
    BY DEF Ends
  <2> QED
    BY <2>1, <2>2, <2>3, <2>4, <2>5 DEF ThereInv, GotInv, Live
<1>3. CASE UNCHANGED <<conn, net, got, most>>
  BY <1>3 DEF ThereInv, GotInv
<1> QED
  BY <1>1, <1>2, <1>3, Steps DEF vars, uip_unlisten, TcpInv

-----------------------------------------------------------------------------
(* TCP implements ReliableStream                                           *)

Opens == [x \in Ends |-> conn[x].st \in {"SYN_SENT", "SYN_RCVD", "ESTABLISHED"}]

LEMMA OpensIs ==
    ASSUME TypeInv, NEW e \in Ends, NEW rest, NEW d, NEW out, EndStep(e, rest, d, out)
    PROVE  /\ Opens[e] <=> conn[e].st \in Live
           /\ d.st = conn[e].st => Opens' = Opens
           /\ d.st \in Live => Opens' = [Opens EXCEPT ![e] = TRUE]
           /\ d.st \notin Live => Opens' = [Opens EXCEPT ![e] = FALSE]
<1> DEFINE Is(st) == st \in {"SYN_SENT", "SYN_RCVD", "ESTABLISHED"}
<1>1. /\ conn'[e] = d /\ conn'[Peer(e)] = conn[Peer(e)] /\ \A x \in Ends : x \in {e, Peer(e)}
  BY StepQueues, TwoEnds
<1>2. /\ Opens = [x \in Ends |-> Is(conn[x].st)] /\ Opens' = [x \in Ends |-> Is(conn'[x].st)]
      /\ \A st : Is(st) <=> st \in Live
      /\ \A x \in Ends : x # e => conn'[x] = conn[x]
  BY <1>1 DEF Opens, Live
<1> HIDE DEF Is
<1>3. Opens[e] <=> conn[e].st \in Live
  BY <1>2
<1>4. d.st = conn[e].st => Opens' = Opens
  <2> SUFFICES ASSUME d.st = conn[e].st PROVE Opens' = Opens
    OBVIOUS
  <2>1. \A x \in Ends : conn'[x].st = conn[x].st
    BY <1>1, <1>2
  <2> QED
    BY <1>2, <2>1
<1>5. ASSUME NEW v, d.st \in Live => v = TRUE, d.st \notin Live => v = FALSE
      PROVE  Opens' = [Opens EXCEPT ![e] = v]
  <2>1. Is(d.st) = v
    <3>1. CASE Is(d.st)
      BY <1>2, <1>5, <3>1
    <3>2. CASE ~Is(d.st)
      <4>1. v = FALSE
        BY <1>2, <1>5, <3>2
      <4>2. Is(d.st) = FALSE
        BY <3>2 DEF Is
      <4> QED
        BY <4>1, <4>2
    <3> QED
      BY <3>1, <3>2
  <2>2. [Opens EXCEPT ![e] = v] = [x \in Ends |-> IF x = e THEN v ELSE Is(conn[x].st)]
    BY <1>2, Zenon
  <2>3. \A x \in Ends : Is(conn'[x].st) = IF x = e THEN v ELSE Is(conn[x].st)
    BY <1>1, <1>2, <2>1, Zenon
  <2> QED
    BY <1>2, <2>2, <2>3, Zenon
<1> QED
  BY <1>3, <1>4, <1>5, Zenon

\* An acknowledgement is of bytes the peer has been handed, unless it has
\* closed.
LEMMA Confirmed ==
    ASSUME TcpInv, GotInv,
           NEW e \in Ends, NEW rest, NEW d, NEW out, EndStep(e, rest, d, out),
           NEW b \in Slots, NEW data, NEW n, Hears(e, rest, b, data, n), n # 0,
           conn[Peer(e)].st \in Live
    PROVE  acked'[e] <= most[Peer(e)]
<1> DEFINE p == Peer(e)
           c == conn[e]
           s == Head(net[e])
<1>1. /\ c.st = "ESTABLISHED" /\ Took(e, rest) /\ ~Has(s, "RST") /\ Acks(c, s)
  BY DEF Hears, HearsOpen, HearsAck, HearsSynAck
<1>2. p \in Ends /\ (e = Client => p = Server) /\ (e = Server => p = Client) /\ e \in {Client, Server}
  BY TwoEnds DEF Ends
<1>3. CASE conn[p].st = "ESTABLISHED"
  <2>1. Len(got[p]) = acked'[e]
    BY <1>3, HeardPaired DEF TcpInv
  <2>2. Len(got[p]) <= most[p]
    BY <1>2, <1>3 DEF GotInv, Live
  <2> QED
    BY <2>1, <2>2
<1>4. CASE conn[p].st \in {"SYN_SENT", "SYN_RCVD"}
  <2>1. Young
    BY <1>2, <1>4 DEF Young, TcpInv, TypeInv
  <2>2. PICK x \in Numbers, m \in 0..Mss : Opening(x, m)
    BY <2>1 DEF YoungInv, TcpInv
  <2>3. e = Client
    BY <1>1, <1>2, <2>2 DEF Opening, ServerOpens
  <2>4. c.snd = x /\ s = net[e][1] /\ 1 \in DOMAIN net[e] /\ c \in Slots
    BY <1>1, <2>2, <2>3, SlotKept DEF Opening, ClientOpens, Took, TcpInv
  <2>5. s.ack = x
    BY <1>1, <2>2, <2>3, <2>4 DEF Opening, FromServer, Live
  <2>6. s.ack = Add(c.snd, c.len) /\ c.len \in 1..Mss
    BY <1>1, <2>4, Sizes DEF Acks, Outstanding, Slots
  <2>7. FALSE
    BY <2>4, <2>5, <2>6, Adding
  <2> QED
    BY <2>7
<1> QED
  BY <1>3, <1>4 DEF Live

\* Whatever an open end does transfers bytes, if any, and may close it.
LEMMA Transfers ==
    ASSUME TypeInv, TypeInv',
           NEW e \in Ends, NEW rest, NEW d, NEW out, EndStep(e, rest, d, out),
           conn[e].st \in Live, got'[e] = Slice(0, Len(got'[e])),
           Len(got[e]) <= Len(got'[e]),
           most' = [most EXCEPT ![e] = IF Len(got'[e]) > @ THEN Len(got'[e]) ELSE @],
           acked[e] <= acked'[e],
           acked'[e] > acked[e] /\ conn[Peer(e)].st \in Live => acked'[e] <= most[Peer(e)]
    PROVE  Promise!Transfer(e)
<1> DEFINE p == Peer(e)
           n == Len(got'[e])
           a == acked'[e]
<1>1. /\ p \in Ends /\ \A x \in Ends : x \in {e, p}
      /\ got \in [Ends -> Seq(Nat)] /\ got' \in [Ends -> Seq(Nat)]
      /\ acked \in [Ends -> Nat] /\ acked' \in [Ends -> Nat]
      /\ got'[e] \in Seq(1..Length[p]) /\ a <= Length[e] /\ Length[p] \in Nat /\ Length[e] \in Nat
  BY TwoEnds, Sizes DEF TypeInv
<1>2. got'[p] = got[p] /\ acked'[p] = acked[p]
  BY StepQueues
<1>3. n \in Nat /\ Len(got[e]) \in Nat /\ a \in Nat /\ acked[e] \in Nat
  BY <1>1
<1>4. n <= Length[p]
  <2>1. CASE n = 0
    BY <1>1, <2>1
  <2>2. CASE n # 0
    <3>1. n \in 1..n
      BY <1>3, <2>2
    <3>2. got'[e][n] \in 1..Length[p] /\ got'[e][n] = n
      <4>1. got'[e][n] = 0 + n
        BY <3>1 DEF Slice
      <4>2. got'[e][n] \in 1..Length[p]
        BY <1>1, <3>1
      <4> QED
        BY <1>3, <4>1, <4>2
    <3> QED
      BY <1>1, <1>3, <3>2
  <2> QED
    BY <2>1, <2>2
<1>5. n \in Len(got[e])..Length[p] /\ a \in acked[e]..Length[e]
  BY <1>1, <1>3, <1>4
<1>6. Promise!Prefix(e, n) = got'[e]
  <2>1. \A i \in 1..n : 0 + i = i
    BY <1>3
  <2>2. Slice(0, n) = [i \in 1..n |-> i]
    BY <2>1 DEF Slice
  <2> QED
    BY <2>2 DEF Promise!Prefix
<1>7. got' = [got EXCEPT ![e] = Promise!Prefix(e, n)]
  BY <1>1, <1>2, <1>6
<1>8. acked' = [acked EXCEPT ![e] = a]
  BY <1>1, <1>2
<1>9. Opens[e] /\ \E still \in BOOLEAN : Opens' = [Opens EXCEPT ![e] = still]
  <2>1. Opens[e]
    BY OpensIs
  <2>2. CASE d.st \in Live
    BY <2>1, <2>2, OpensIs
  <2>3. CASE d.st \notin Live
    BY <2>1, <2>3, OpensIs
  <2> QED
    BY <2>2, <2>3
<1>10. a > acked[e] => a <= Promise!Confirmable(e)
  <2>1. Opens[p] <=> conn[p].st \in Live
    BY <1>1 DEF Opens, Live
  <2>2. Promise!Confirmable(e) = IF Opens[p] THEN most[p] ELSE Length[e]
    BY DEF Promise!Confirmable, Opens
  <2> QED
    BY <1>1, <2>1, <2>2
<1> HIDE DEF n, a
<1>11. most' = [most EXCEPT ![e] = IF n > @ THEN n ELSE @]
  BY DEF n
<1>12. \E m \in Len(got[e])..Length[p] :
          /\ got' = [got EXCEPT ![e] = Promise!Prefix(e, m)]
          /\ most' = [most EXCEPT ![e] = IF m > @ THEN m ELSE @]
  BY <1>5, <1>7, <1>11
<1>13. \E m \in acked[e]..Length[e] :
          /\ m > acked[e] => m <= Promise!Confirmable(e)
          /\ acked' = [acked EXCEPT ![e] = m]
  BY <1>5, <1>8, <1>10
<1> QED
  BY <1>9, <1>12, <1>13, Zenon DEF Promise!Transfer, Opens

LEMMA PromiseStarts == Init => Promise!Init
<1> SUFFICES ASSUME Init PROVE Promise!Init
  OBVIOUS
<1>1. \A e \in Ends : conn[e].st = "CLOSED"
  BY DEF Init, Closed
<1>2. [e \in Ends |-> conn[e].st \in {"SYN_SENT", "SYN_RCVD", "ESTABLISHED"}] = [e \in Ends |-> FALSE]
  <2>1. \A e \in Ends : (conn[e].st \in {"SYN_SENT", "SYN_RCVD", "ESTABLISHED"}) = FALSE
    BY <1>1
  <2> QED
    BY <2>1, Zenon
<1> QED
  BY <1>2 DEF Init, Promise!Init

LEMMA PromiseSteps ==
    TcpInv /\ GotInv /\ ThereInv /\ [Next]_vars => [Promise!Next]_(Promise!vars)
<1> SUFFICES ASSUME TcpInv, GotInv, ThereInv, [Next]_vars
             PROVE  Promise!Next \/ UNCHANGED Promise!vars
  OBVIOUS
<1>1. TypeInv /\ TypeInv' /\ YoungInv
  BY TypeKept DEF TcpInv
<1>2. ASSUME UNCHANGED <<Opens, acked, got, most>> PROVE UNCHANGED Promise!vars
  BY <1>2 DEF Promise!vars, Opens
<1>3. ASSUME NEW e \in Ends, Promise!Transfer(e) \/ Promise!Open(e) PROVE Promise!Next
  BY <1>3 DEF Promise!Next
<1>4. ASSUME NEW e \in Ends, NEW rest, NEW d, NEW out, EndStep(e, rest, d, out)
      PROVE  Promise!Next \/ UNCHANGED Promise!vars
  <2>1. /\ got \in [Ends -> Seq(Nat)] /\ acked \in [Ends -> Nat] /\ most \in [Ends -> Nat]
        /\ got[e] \in Seq(Nat) /\ acked[e] \in Nat /\ most[e] \in Nat /\ Len(got[e]) \in Nat
    <3>1. got \in [Ends -> Seq(Nat)] /\ acked \in [Ends -> Nat] /\ most \in [Ends -> Nat]
      BY <1>1 DEF TypeInv
    <3> QED
      BY <3>1
  <2>2. CASE Keeps(e, rest, d, out)
    <3>1. NoCall /\ d.st = conn[e].st
      BY <2>2 DEF Keeps
    <3>2. Opens' = Opens
      BY <1>1, <1>4, <3>1, OpensIs
    <3> QED
      BY <1>2, <3>1, <3>2 DEF NoCall
  <2>3. CASE Leaves(e, d, out)
    <3>1. NoCall /\ d.st \notin Live
      BY <2>3 DEF Leaves
    <3>2. CASE conn[e].st \in Live
      <4>1. got[e] = Slice(0, Len(got[e])) /\ Len(got[e]) <= most[e]
        BY <3>2 DEF GotInv
      <4>2. got' = got /\ acked' = acked /\ most' = most
        BY <3>1 DEF NoCall
      <4>3. most' = [most EXCEPT ![e] = IF Len(got'[e]) > @ THEN Len(got'[e]) ELSE @]
        BY <2>1, <4>1, <4>2
      <4>4. /\ got'[e] = Slice(0, Len(got'[e])) /\ Len(got[e]) <= Len(got'[e])
            /\ acked[e] <= acked'[e] /\ ~(acked'[e] > acked[e])
        BY <2>1, <4>1, <4>2
      <4>5. Promise!Transfer(e)
        BY <1>1, <1>4, <3>2, <4>3, <4>4, Transfers
      <4> QED
        BY <1>3, <4>5
    <3>3. CASE conn[e].st \notin Live
      <4>1. Opens' = [Opens EXCEPT ![e] = FALSE] /\ ~Opens[e]
        BY <1>1, <1>4, <3>1, <3>3, OpensIs
      <4>2. Opens' = Opens
        <5> DEFINE Is(st) == st \in {"SYN_SENT", "SYN_RCVD", "ESTABLISHED"}
        <5>1. Opens = [x \in Ends |-> Is(conn[x].st)] /\ ~Is(conn[e].st)
          BY <3>3 DEF Opens, Live
        <5>2. Is(conn[e].st) = FALSE
          BY <5>1
        <5> HIDE DEF Is
        <5>3. [Opens EXCEPT ![e] = FALSE] = [x \in Ends |-> IF x = e THEN FALSE ELSE Is(conn[x].st)]
          BY <5>1, Zenon
        <5>4. \A x \in Ends : (IF x = e THEN FALSE ELSE Is(conn[x].st)) = Is(conn[x].st)
          BY <5>2, Zenon
        <5> QED
          BY <4>1, <5>1, <5>3, <5>4, Zenon
      <4> QED
        BY <1>2, <3>1, <4>2 DEF NoCall
    <3> QED
      BY <3>2, <3>3
  <2>4. CASE Accepts(e, rest, d, out)
    <3>1. /\ conn[e].st = "CLOSED" /\ d.st = "SYN_RCVD"
          /\ got' = [got EXCEPT ![e] = <<>>] /\ acked' = acked /\ most' = most
      BY <2>4 DEF Accepts
    <3>2. ~Opens[e] /\ Opens' = [Opens EXCEPT ![e] = TRUE]
      <4>1. conn[e].st \notin Live /\ d.st \in Live
        BY <3>1 DEF Live
      <4> QED
        BY <1>1, <1>4, <4>1, OpensIs
    <3>3. Promise!Open(e)
      BY <3>1, <3>2 DEF Promise!Open, Opens
    <3> QED
      BY <1>3, <3>3
  <2>5. ASSUME NEW b \in Slots, NEW data, NEW n, Hears(e, rest, b, data, n)
        PROVE  Promise!Next
    <3>1. data \in Seq(Nat) /\ n \in Nat /\ Told(e, data, n)
      BY <1>1, <2>5, HeardTypes DEF Hears
    <3>2. /\ got'[e] = Slice(0, Len(got'[e])) /\ Len(got'[e]) = Len(got[e]) + Len(data)
          /\ Len(got[e]) <= most[e] /\ conn[e].st \in Live /\ Len(data) \in Nat
      BY <1>1, <1>4, <2>5, HeardStep
    <3>3. most' = [most EXCEPT ![e] = IF Len(got'[e]) > @ THEN Len(got'[e]) ELSE @]
      BY <1>1, <3>1, <3>2, MostIs
    <3>4. acked'[e] = acked[e] + n
      BY <1>1, <3>1, Handed
    <3>5. acked'[e] > acked[e] /\ conn[Peer(e)].st \in Live => acked'[e] <= most[Peer(e)]
      <4>1. acked'[e] > acked[e] => n # 0
        BY <2>1, <3>1, <3>4
      <4> QED
        BY <1>4, <2>5, <4>1, Confirmed
    <3>6. Len(got[e]) <= Len(got'[e]) /\ acked[e] <= acked'[e]
      BY <2>1, <3>1, <3>2, <3>4
    <3>7. Promise!Transfer(e)
      BY <1>1, <1>4, <3>2, <3>3, <3>5, <3>6, Transfers
    <3> QED
      BY <1>3, <3>7
  <2> QED
    BY <1>4, <2>2, <2>3, <2>4, <2>5, Zenon DEF EndStep
<1>5. CASE uip_connect
  <2>1. /\ ~opened /\ net' = net /\ acked' = acked /\ got' = got /\ most' = most
    BY <1>5 DEF uip_connect
  <2>2. /\ Client \in Ends /\ Server \in Ends /\ \A x \in Ends : x \in {Client, Server}
        /\ conn \in [Ends -> Slots] /\ got \in [Ends -> Seq(Nat)]
    BY <1>1, TwoEnds DEF TypeInv, Ends
  <2>3. conn[Client].st = "CLOSED" /\ got[Client] = <<>>
    BY <2>1, <2>2 DEF TcpInv, Unopened, Closed
  <2>4. conn'[Client].st = "SYN_SENT" /\ \A x \in Ends : x # Client => conn'[x] = conn[x]
    BY <1>5, <2>2 DEF uip_connect, Closed
  <2>5. Opens' = [Opens EXCEPT ![Client] = TRUE] /\ ~Opens[Client]
    <3>1. ~Opens[Client]
      BY <2>2, <2>3 DEF Opens
    <3>2. \A x \in Ends : Opens'[x] = IF x = Client THEN TRUE ELSE Opens[x]
      BY <2>4 DEF Opens
    <3>3. Opens' = [x \in Ends |-> Opens'[x]] /\ Opens = [x \in Ends |-> Opens[x]]
      BY DEF Opens
    <3>4. [Opens EXCEPT ![Client] = TRUE] = [x \in Ends |-> IF x = Client THEN TRUE ELSE Opens[x]]
      BY <3>3, Zenon
    <3> QED
      BY <3>1, <3>2, <3>3, <3>4
  <2>6. got' = [got EXCEPT ![Client] = <<>>]
    BY <2>1, <2>2, <2>3
  <2>7. Promise!Open(Client)
    BY <2>1, <2>5, <2>6 DEF Promise!Open, Opens
  <2> QED
    BY <1>3, <2>2, <2>7
<1>6. CASE UNCHANGED <<conn, acked, got, most>>
  <2>1. Opens' = Opens
    BY <1>6 DEF Opens
  <2> QED
    BY <1>2, <1>6, <2>1
<1> QED
  BY <1>1, <1>4, <1>5, <1>6, Steps DEF vars, uip_unlisten

LEMMA StreamHolds == Spec => [](TcpInv /\ GotInv /\ ThereInv)
<1>1. Init => GotInv /\ ThereInv
  <2> SUFFICES ASSUME Init PROVE GotInv /\ ThereInv
    OBVIOUS
  <2>1. \A e \in Ends : conn[e].st = "CLOSED"
    BY DEF Init, Closed
  <2> QED
    BY <2>1 DEF GotInv, ThereInv, Live
<1>2. (TcpInv /\ GotInv /\ ThereInv) /\ [Next]_vars => (GotInv /\ ThereInv)'
  BY StreamInvKept
<1> QED
  BY <1>1, <1>2, TcpHolds, PTL DEF Spec

\* The applications get what ReliableStream promises: bytes in order, none
\* twice, and no acknowledgement for a byte that was not handed over, through
\* loss, retransmission, reset, reopening and every way of closing
\* (uip.c:1398-1803).
THEOREM StreamsKept == Spec => StreamKept
  BY PromiseStarts, PromiseSteps, StreamHolds, PTL DEF Spec, StreamKept, Promise!Spec

=============================================================================
