------------------------------ MODULE UipInput ------------------------------
(***************************************************************************)
(* One datagram through the stack: the checks uip_process makes of its     *)
(* header and checksums, the answer to a ping, and the answer of the UDP   *)
(* application (firmware/uip/uip.c, configured without TCP, IPv6,          *)
(* broadcast, reassembly and address assignment by ping).                  *)
(*                                                                         *)
(* Senders send datagrams with correct checksums, or UDP ones without; the *)
(* wire may change one byte.  Of the header there are the words that       *)
(* change or are compared; the rest adds a constant to every sum.          *)
(***************************************************************************)
EXTENDS Checksum

CONSTANTS
    ICMP, UDP,     \* protocol numbers
    HostAddr,      \* uip_hostaddr, as one word
    Port,          \* the port the UDP application listens on, as two bytes
    Senders,       \* addresses of senders
    Datas          \* data senders send, and the application answers

ASSUME InputAssumption ==
    /\ ICMP \in 1..(Word - 1) /\ UDP \in 1..(Word - 1) /\ ICMP # UDP
    /\ HostAddr \in Words /\ Senders \subseteq Words
    /\ Port \in [1..2 -> Bytes]
    /\ Datas \subseteq Seq(Bytes)
    /\ \A x \in Datas : 4 + Len(x) + UDP < Word

VARIABLES
    original,      \* the datagram as it was sent
    buf,           \* uip_buf: what arrived, or the answer
    handed,        \* the data the UDP application was handed
    ipid,          \* the identification of the last datagram sent
    turn           \* "idle", "wire", "stack", or what that did: "answered", "silent", "dropped"

inputVars == <<original, buf, handed, ipid, turn>>

-----------------------------------------------------------------------------
(* Datagrams.  The body of both protocols is a word, the checksum and      *)
(* data: type and code, or the ports as far as they are compared.          *)

HeaderWords(d) == <<d.len, d.id, d.proto, d.ipsum, d.src, d.dst>>
PseudoWords(d) == <<d.src, d.dst>>
Payload(d) == SubSeq(d.body, 1, d.len)
Head2(d) == SubSeq(d.body, 1, 2)
DataOf(d) == SubSeq(d.body, 5, d.len)
Sum(d) == d.body[3] * Byte + d.body[4]
WithSum(d, c) == [d EXCEPT !.body[3] = c \div Byte, !.body[4] = c % Byte]

uip_ipchksum(d) == NeverZero(SumWords(0, HeaderWords(d)))
\* The pseudo header's protocol and length cannot carry.
upper_layer_chksum(d) == NeverZero(chksum(SumWords(d.len + d.proto, PseudoWords(d)), Payload(d)))

Udp(d) == d.proto = UDP

\* What RFC 791, 792 and 768 ask of a receiver: the sum is a multiple of
\* Word - 1, and not of zeros only.
Total(s) == FoldLeft(LAMBDA a, b : a + b, 0, s)
Verifies(n) == n # 0 /\ n % (Word - 1) = 0
HeaderGood(d) == Verifies(Total(HeaderWords(d)))
BodyGood(d) ==
    IF Udp(d)
    THEN Verifies(Total(Pairs(Payload(d))) + d.len + d.proto + Total(PseudoWords(d)))
    ELSE Verifies(Total(Pairs(Payload(d))))
NoSum(d) == Udp(d) /\ Sum(d) = 0
Good(d) == HeaderGood(d) /\ (NoSum(d) \/ BodyGood(d))

Blank == [whole |-> TRUE, len |-> 4, id |-> 0, proto |-> ICMP, ipsum |-> 0,
          src |-> HostAddr, dst |-> HostAddr, body |-> <<0, 0, 0, 0>>]

InputInit == original = Blank /\ buf = Blank /\ handed = <<>> /\ ipid = 0 /\ turn = "idle"

\* Any byte of a word, or of the body, becomes another.
OtherWords(w) == {b * Byte + (w % Byte) : b \in Bytes} \cup {(w \div Byte) * Byte + b : b \in Bytes}
Damaged(d) ==
    UNION {{[d EXCEPT !.len = w] : w \in OtherWords(d.len)},
           {[d EXCEPT !.proto = w] : w \in OtherWords(d.proto)},
           {[d EXCEPT !.ipsum = w] : w \in OtherWords(d.ipsum)},
           {[d EXCEPT !.src = w] : w \in OtherWords(d.src)},
           {[d EXCEPT !.dst = w] : w \in OtherWords(d.dst)},
           {[d EXCEPT !.body[i] = b] : i \in 1..Len(d.body), b \in Bytes}}

\* A ping, another ICMP message or UDP to some port; whole or a fragment;
\* the frame may be padded.
Send ==
    /\ turn = "idle" /\ turn' = "wire"
    /\ \E x \in Datas, s \in Senders, t \in Senders \cup {HostAddr}, w \in BOOLEAN,
          p \in {ICMP, UDP}, h \in {<<Echo, 0>>, <<0, 0>>, Port}, pad \in {<<>>, <<0>>} :
          LET plain == [whole |-> w, len |-> 4 + Len(x), id |-> 0, proto |-> p, ipsum |-> 0,
                        src |-> s, dst |-> t, body |-> h \o <<0, 0>> \o x \o pad]
              d == [plain EXCEPT !.ipsum = CHOOSE i \in Words : HeaderGood([plain EXCEPT !.ipsum = i])]
          IN \E c \in Words : Good(WithSum(d, c)) /\ original' = WithSum(d, c)
    /\ buf' = original'
    /\ UNCHANGED <<handed, ipid>>

\* At most one byte is damaged on the way.
Arrive ==
    /\ turn = "wire" /\ turn' = "stack"
    /\ buf' \in Damaged(original)
    /\ UNCHANGED <<original, handed, ipid>>

-----------------------------------------------------------------------------
(* uip_process                                                             *)

\* Version, length and fragment, destination, header checksum.
HeaderAccepted(d) ==
    /\ d.whole /\ d.len <= Len(d.body)
    /\ d.dst = HostAddr
    /\ uip_ipchksum(d) = Word - 1

\* Mutant: the checksum of a UDP datagram is not looked at.
UdpSumAccepted_Always(d) == TRUE
UdpSumAccepted(d) == Sum(d) = 0 \/ upper_layer_chksum(d) = Word - 1

IsPing(d) == d.proto = ICMP /\ d.body[1] = Echo
ForApplication(d) == d.proto = UDP /\ UdpSumAccepted(d) /\ Head2(d) = Port

\* Mutant: the reply gets a checksum of its own.
EchoReply_Fresh(d) ==
    LET r == WithSum([d EXCEPT !.body = <<0>> \o SubSeq(d.body, 2, d.len), !.dst = d.src, !.src = HostAddr], 0)
    IN WithSum(r, Complement(chksum(0, r.body)))
\* The ping itself with another type; its checksum is adjusted, not checked.
EchoReply(d) ==
    WithSum([d EXCEPT !.body = <<0>> \o SubSeq(d.body, 2, d.len), !.dst = d.src, !.src = HostAddr],
            EchoReplySum(Sum(d)))

\* ip_send_nolen: a new identification, a new header checksum.
WithHeader(d, id) ==
    LET e == [d EXCEPT !.id = id, !.ipsum = 0]
    IN [e EXCEPT !.ipsum = Complement(uip_ipchksum(e))]
\* udp_send: a checksum that is never the zero that says there is none.
UdpAnswer(d, x) ==
    LET e == [d EXCEPT !.len = 4 + Len(x), !.proto = UDP, !.src = HostAddr, !.dst = d.src,
                       !.body = Port \o <<0, 0>> \o x]
    IN WithSum(e, NeverZero(Complement(upper_layer_chksum(e))))

NextId == (ipid + 1) % Word

Ping ==
    /\ turn = "stack" /\ HeaderAccepted(buf) /\ IsPing(buf)
    /\ buf' = EchoReply(buf)
    /\ turn' = "answered"
    /\ UNCHANGED <<original, handed, ipid>>

\* The application is handed the data, and may answer.
UdpFound ==
    /\ turn = "stack" /\ HeaderAccepted(buf) /\ ForApplication(buf)
    /\ handed' = DataOf(buf)
    /\ \/ \E x \in Datas : buf' = WithHeader(UdpAnswer(buf, x), NextId)
          /\ ipid' = NextId /\ turn' = "answered"
       \/ turn' = "silent" /\ UNCHANGED <<buf, ipid>>
    /\ UNCHANGED original

Drop ==
    /\ turn = "stack" /\ ~(HeaderAccepted(buf) /\ (IsPing(buf) \/ ForApplication(buf)))
    /\ turn' = "dropped"
    /\ UNCHANGED <<original, buf, handed, ipid>>

\* The main loop has sent the answer, if there is one.
Done ==
    /\ turn \in {"answered", "silent", "dropped"} /\ turn' = "idle"
    /\ original' = Blank /\ buf' = Blank /\ handed' = <<>>
    /\ UNCHANGED ipid

InputNext == Send \/ Arrive \/ Ping \/ UdpFound \/ Drop \/ Done

InputSpec == InputInit /\ [][InputNext]_inputVars

-----------------------------------------------------------------------------

\* A correct datagram for this host is never dropped for its checksums
\* (uip.c:955-963, 1107-1112).
GoodAccepted ==
    turn = "dropped" /\ buf = original /\ original.whole /\ original.dst = HostAddr
        => IF Udp(original) THEN Head2(original) # Port ELSE original.body[1] # Echo

\* The answer to a correct datagram verifies at its receiver, and a UDP answer
\* always carries a checksum; the reply that is zero all over is the exception
\* (uip.c:1012-1018, 1177-1182, 1864-1880).
AnswerVerifies ==
    [][turn = "stack" /\ turn' = "answered" /\ Good(buf)
         => /\ HeaderGood(buf') /\ ~NoSum(buf')
            /\ BodyGood(buf') \/ (~Udp(buf') /\ \A i \in DOMAIN buf'.body : buf'.body[i] = 0)]_inputVars

\* The application is never handed data other than what was sent, unless the
\* sender left out the checksum (uip.c:1107-1112).
HandedIntact == turn \in {"answered", "silent"} /\ Udp(original) /\ ~NoSum(original)
                    => handed = DataOf(original)

\* The checksum of a ping is not looked at, yet no damage gets past the one who
\* sent it: a reply that verifies brings back the data sent (uip.c:995-1018).
EchoEndToEnd == turn = "answered" /\ ~Udp(buf) /\ HeaderGood(buf) /\ BodyGood(buf)
                    => DataOf(buf) = DataOf(original)

=============================================================================
