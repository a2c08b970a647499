------------------------------ MODULE EtherDev ------------------------------
(***************************************************************************)
(* The Ethernet driver (firmware/etherdev.c) between the main loop and the *)
(* controller's DMA.  Nothing is copied: the CPU, the receive descriptor   *)
(* and the transmit descriptor own one of three buffers each, and          *)
(* ether_read and ether_send exchange them.                                *)
(*                                                                         *)
(* The loop is stepped wherever the controller can get between two of its  *)
(* accesses.  The controller (external) stores a frame piece by piece into *)
(* the receive buffer while the descriptor is its own, hands the           *)
(* descriptor back and raises RXDONE; it sends the transmit buffer while   *)
(* TXRTS is set.                                                           *)
(***************************************************************************)
EXTENDS Naturals

CONSTANTS
    Buf,       \* rxtxbuf, one buffer more than there are descriptors
    Frame      \* what a buffer may hold

ASSUME EtherDevAssumption ==
    \E a, b, c \in Buf : a # b /\ b # c /\ a # c /\ Buf = {a, b, c}

VARIABLES
    uip_buf,          \* the buffer of the CPU
    rxBuf, txBuf,     \* pEDBuff of the two descriptors
    EOWN,             \* the receive descriptor is the controller's
    whole,            \* it holds the start and the end of its frame
    RXDONE,           \* the bit of ETHIRQ
    TXRTS,            \* transmission requested or going on
    receiving,        \* the controller is storing a frame
    content,          \* of each buffer
    pc,               \* where the main loop is
    ret               \* ether_read found a frame

VARIABLES
    arrived,          \* the frame the controller handed over last
    taken,            \* the frame ether_read took last
    handed,           \* the answer ether_send was called with last
    air               \* the buffer the controller sends, and the answer in it

rx == <<rxBuf, EOWN, whole, RXDONE, receiving>>
tx == <<txBuf, TXRTS>>
history == <<arrived, taken, handed, air>>
vars == <<uip_buf, rx, tx, content, pc, ret, history>>

\* After ether_init.
Init ==
    /\ uip_buf \in Buf /\ rxBuf \in Buf \ {uip_buf} /\ txBuf \in Buf \ {uip_buf, rxBuf}
    /\ EOWN = TRUE /\ whole = FALSE /\ RXDONE = FALSE /\ TXRTS = FALSE
    /\ receiving = FALSE
    /\ content \in [Buf -> Frame]
    /\ pc = "poll" /\ ret = FALSE
    /\ arrived \in Frame /\ taken = arrived /\ handed = arrived
    /\ air = [buf |-> txBuf, frame |-> handed]

-----------------------------------------------------------------------------
(* ether_read                                                              *)

At(from, to) == pc = from /\ pc' = to

CheckRxDone ==
    /\ pc = "poll" /\ pc' = IF RXDONE THEN "scan" ELSE "periodic"
    /\ ret' = FALSE
    /\ UNCHANGED <<uip_buf, rx, tx, content, history>>

Used == ~EOWN

Scan ==
    /\ pc = "scan"
    /\ \/ Used /\ whole /\ pc' = "swap"
       \/ Used /\ ~whole /\ pc' = "release"
       \/ ~Used /\ pc' = "clear"
    /\ UNCHANGED <<uip_buf, ret, rx, tx, content, history>>

SwapIn == uip_buf' = rxBuf /\ rxBuf' = uip_buf

SwapRx ==
    /\ At("swap", "release")
    /\ SwapIn
    /\ ret' = TRUE /\ taken' = arrived
    /\ UNCHANGED <<EOWN, whole, RXDONE, receiving, tx, content, arrived, handed, air>>

\* Mutant: the descriptor stays with the CPU.
GiveBack_Kept == UNCHANGED <<EOWN, whole>>
GiveBack == EOWN' = TRUE /\ whole' = FALSE

Release ==
    /\ At("release", "clear")
    /\ GiveBack
    /\ UNCHANGED <<uip_buf, ret, rxBuf, RXDONE, receiving, tx, content, history>>

ClearRxDone ==
    /\ pc = "clear" /\ pc' = IF ret THEN "process" ELSE "periodic"
    /\ RXDONE' = FALSE
    /\ UNCHANGED <<uip_buf, ret, rxBuf, EOWN, whole, receiving, tx, content, history>>

-----------------------------------------------------------------------------
(* The main loop around it (main.c:147-195): the stack rewrites uip_buf in *)
(* place and may leave an answer there.  The periodic branch sends nothing *)
(* (udp_appcall sets no length on a poll).                                 *)

Rewrite ==
    /\ pc \in {"process", "answer"} /\ pc' = "answer"
    /\ \E f \in Frame : content' = [content EXCEPT ![uip_buf] = f]
    /\ UNCHANGED <<uip_buf, ret, rx, tx, history>>

Discard ==
    /\ pc \in {"process", "answer", "periodic"} /\ pc' = "poll"
    /\ UNCHANGED <<uip_buf, ret, rx, tx, content, history>>

CallSend ==
    /\ At("answer", "send")
    /\ handed' = content[uip_buf]
    /\ UNCHANGED <<uip_buf, ret, rx, tx, content, arrived, taken, air>>

-----------------------------------------------------------------------------
(* ether_send                                                              *)

\* Mutant: the transmitter is taken to be idle.
TxIdle_Assumed == TRUE
TxIdle == ~TXRTS

\* Mutant: the descriptor gets the buffer, and the CPU goes on with it.
SwapOut_Shared == txBuf' = uip_buf /\ UNCHANGED uip_buf
SwapOut == txBuf' = uip_buf /\ uip_buf' = txBuf

SwapTx ==
    /\ At("send", "start")
    /\ TxIdle
    /\ SwapOut
    /\ UNCHANGED <<ret, rx, TXRTS, content, history>>

\* Setting the bit while it is set starts nothing.
StartTx ==
    /\ At("start", "poll")
    /\ TXRTS' = TRUE
    /\ air' = IF TXRTS THEN air ELSE [buf |-> txBuf, frame |-> handed]
    /\ UNCHANGED <<uip_buf, ret, rx, txBuf, content, arrived, taken, handed>>

-----------------------------------------------------------------------------
(* The controller                                                          *)

Store ==
    /\ EOWN
    /\ receiving' = TRUE
    /\ \E f \in Frame : content' = [content EXCEPT ![rxBuf] = f]
    /\ UNCHANGED <<uip_buf, rxBuf, EOWN, whole, RXDONE, tx, pc, ret, history>>

\* A frame longer than the buffer is not whole.
HandOver ==
    /\ receiving /\ receiving' = FALSE
    /\ EOWN' = FALSE /\ whole' \in BOOLEAN /\ RXDONE' = TRUE
    /\ arrived' = content[rxBuf]
    /\ UNCHANGED <<uip_buf, rxBuf, tx, content, pc, ret, taken, handed, air>>

TxDone ==
    /\ TXRTS /\ TXRTS' = FALSE
    /\ UNCHANGED <<uip_buf, rx, txBuf, content, pc, ret, history>>

-----------------------------------------------------------------------------

ether_read == CheckRxDone \/ Scan \/ SwapRx \/ Release \/ ClearRxDone
ether_send == SwapTx \/ StartTx
Stack == Rewrite \/ Discard \/ CallSend
Controller == Store \/ HandOver \/ TxDone

Next == ether_read \/ ether_send \/ Stack \/ Controller

Spec == Init /\ [][Next]_vars

\* The loop runs for ever, the stack ends with every frame, and the
\* controller with every frame it sends.
Fairness ==
    /\ WF_vars(ether_read) /\ WF_vars(ether_send)
    /\ WF_vars(Discard \/ CallSend) /\ WF_vars(TxDone)

FairSpec == Spec /\ Fairness

-----------------------------------------------------------------------------

\* Every variable keeps its type.
TypeOK ==
    /\ uip_buf \in Buf /\ rxBuf \in Buf /\ txBuf \in Buf
    /\ EOWN \in BOOLEAN /\ whole \in BOOLEAN /\ RXDONE \in BOOLEAN
    /\ TXRTS \in BOOLEAN /\ receiving \in BOOLEAN
    /\ content \in [Buf -> Frame]
    /\ pc \in {"poll", "scan", "swap", "release", "clear", "process", "answer",
               "periodic", "send", "start"}
    /\ ret \in BOOLEAN
    /\ arrived \in Frame /\ taken \in Frame /\ handed \in Frame
    /\ air \in [buf : Buf, frame : Frame]

\* No two of the CPU and the descriptors ever hold the same buffer
\* (etherdev.c:317-322, 347-351).
OneOwner == uip_buf # rxBuf /\ uip_buf # txBuf /\ rxBuf # txBuf

\* What ether_read returns is, when the stack begins to read it, the frame
\* the controller handed over with that descriptor, although by then the
\* controller owns the descriptor again (etherdev.c:311-330).
FrameIntact ==
    pc \in {"release", "clear", "process"} /\ ret => content[uip_buf] = taken

\* What goes over the wire is the answer ether_send was given, although the
\* stack is at the next frame already (etherdev.c:341-355).
AnswerIntact == TXRTS => content[air.buf] = air.frame

\* A frame that RXDONE announces is taken (etherdev.c:309-331).
AnnouncedTaken == ~EOWN /\ RXDONE /\ pc = "poll" ~> EOWN

\* Every frame handed over is taken: "check if there is a pending packet"
\* (etherdev.c:308).
EveryFrameTaken == ~EOWN ~> EOWN

-----------------------------------------------------------------------------
(* What the driver is for.  The frame of each hand is the content of the   *)
(* buffer that holds it by then.                                           *)

Pending == IF ~EOWN /\ ~(pc = "release" /\ ret) THEN {content[rxBuf]} ELSE {}
Work ==
    IF (pc \in {"release", "clear"} /\ ret) \/ pc \in {"process", "answer", "send"}
    THEN {content[uip_buf]}
    ELSE IF pc = "start" THEN {content[txBuf]} ELSE {}
Wire == IF TXRTS THEN {content[txBuf]} ELSE {}

Exchange == INSTANCE FrameExchange WITH pending <- Pending, work <- Work, wire <- Wire

\* However buffers change hands under the DMA engines, frames move as if each
\* had been copied in one step: taken once, kept for the stack alone, and sent
\* as the stack left them (etherdev.c:301-356).
Exchanged == Exchange!Spec

-----------------------------------------------------------------------------
(* The inductive invariant: whose hands a frame is in at each step.        *)

\* From hand over to the exchange the frame lies in the receive buffer.
RxInv ==
    /\ receiving => EOWN
    /\ pc \in {"swap", "release"} => ~EOWN
    /\ pc \in {"scan", "swap"} => ~ret
    /\ ~EOWN /\ ~(pc = "release" /\ ret) => content[rxBuf] = arrived

\* The answer stays in the CPU's buffer, then in the transmit buffer, until
\* it has been sent.
TxInv ==
    /\ pc = "send" => content[uip_buf] = handed
    /\ pc = "start" => ~TXRTS /\ content[txBuf] = handed
    /\ TXRTS => air.buf = txBuf

IInv == TypeOK /\ OneOwner /\ RxInv /\ FrameIntact /\ TxInv /\ AnswerIntact

=============================================================================
