--------------------------- MODULE EtherDevProofs ---------------------------
(***************************************************************************)
(* The safety of the buffer exchange, for any set of frames.               *)
(***************************************************************************)
EXTENDS EtherDev, TLAPS

\* In the beginning every buffer has one owner and nothing is under way.
LEMMA Starts == Init => IInv
<1> SUFFICES ASSUME Init PROVE IInv
  OBVIOUS
<1>1. TypeOK
  BY DEF Init, TypeOK
<1>2. OneOwner
  BY DEF Init, OneOwner
<1>3. RxInv /\ FrameIntact /\ TxInv /\ AnswerIntact
  BY DEF Init, RxInv, FrameIntact, TxInv, AnswerIntact
<1> QED
  BY <1>1, <1>2, <1>3 DEF IInv

\* Every step of the driver, the stack and the controller keeps the invariant.
LEMMA Keeps == IInv /\ [Next]_vars => IInv'
<1> USE DEF IInv, TypeOK, OneOwner, RxInv, FrameIntact, TxInv, AnswerIntact
<1> SUFFICES ASSUME IInv, [Next]_vars PROVE IInv'
  OBVIOUS
<1>1. CASE CheckRxDone
  BY <1>1 DEF CheckRxDone, rx, tx, history
<1>2. CASE Scan
  BY <1>2 DEF Scan, Used, rx, tx, history
<1>3. CASE SwapRx
  BY <1>3 DEF SwapRx, SwapIn, At, tx
<1>4. CASE Release
  BY <1>4 DEF Release, GiveBack, At, tx, history
<1>5. CASE ClearRxDone
  BY <1>5 DEF ClearRxDone, tx, history
<1>6. CASE Rewrite
  BY <1>6 DEF Rewrite, rx, tx, history
<1>7. CASE Discard
  BY <1>7 DEF Discard, rx, tx, history
<1>8. CASE CallSend
  BY <1>8 DEF CallSend, At, rx, tx
<1>9. CASE SwapTx
  BY <1>9 DEF SwapTx, SwapOut, TxIdle, At, rx, history
<1>10. CASE StartTx
  BY <1>10 DEF StartTx, At, rx
<1>11. CASE Store
  BY <1>11 DEF Store, tx, history
<1>12. CASE HandOver
  BY <1>12 DEF HandOver, tx
<1>13. CASE TxDone
  BY <1>13 DEF TxDone, rx, history
<1>14. CASE UNCHANGED vars
  BY <1>14 DEF vars, rx, tx, history
<1> QED
  BY <1>1, <1>2, <1>3, <1>4, <1>5, <1>6, <1>7, <1>8, <1>9, <1>10, <1>11, <1>12, <1>13,
     <1>14 DEF Next, ether_read, ether_send, Stack, Controller

\* The inductive invariant holds in every reachable state.
THEOREM Inductive == Spec => []IInv
  BY Starts, Keeps, PTL DEF Spec

\* The CPU and the DMA never share a buffer (etherdev.c:317-322, 347-351).
THEOREM Exclusive == Spec => []OneOwner
<1>1. IInv => OneOwner
  BY DEF IInv
<1> QED
  BY <1>1, Inductive, PTL

\* The stack reads the frame that arrived, whatever the controller stores
\* meanwhile (etherdev.c:311-330).
THEOREM ReadsWhatArrived == Spec => []FrameIntact
<1>1. IInv => FrameIntact
  BY DEF IInv
<1> QED
  BY <1>1, Inductive, PTL

\* The wire carries the answer as the stack left it, whatever the stack does
\* next (etherdev.c:341-355).
THEOREM SendsWhatWasGiven == Spec => []AnswerIntact
<1>1. IInv => AnswerIntact
  BY DEF IInv
<1> QED
  BY <1>1, Inductive, PTL

-----------------------------------------------------------------------------
(* The driver implements the exchange of frames.                           *)

LEMMA ExchangeStarts == Init => Exchange!Init
  BY DEF Init, Exchange!Init, Pending, Work, Wire

\* What the stack or the controller writes is in one hand only, and an
\* exchange of buffers moves a frame from one hand to the next.
LEMMA ExchangeSteps == IInv /\ [Next]_vars => [Exchange!Next]_(Exchange!vars)
<1> USE DEF Pending, Work, Wire
<1> SUFFICES ASSUME IInv, [Next]_vars PROVE Exchange!Next \/ UNCHANGED Exchange!vars
  OBVIOUS
<1>0. TypeOK /\ OneOwner /\ RxInv /\ TxInv
  BY DEF IInv
<1>1. CASE CheckRxDone
  <2>1. UNCHANGED <<Pending, Work, Wire>>
    BY <1>1 DEF CheckRxDone, rx, tx
  <2> QED
    BY <2>1 DEF Exchange!vars
<1>2. CASE Scan
  <2>1. UNCHANGED <<Pending, Work, Wire>>
    BY <1>0, <1>2 DEF Scan, RxInv, rx, tx
  <2> QED
    BY <2>1 DEF Exchange!vars
<1>3. CASE SwapRx
  <2>1. Exchange!Take
    BY <1>0, <1>3 DEF SwapRx, SwapIn, At, tx, RxInv, Exchange!Take
  <2> QED
    BY <2>1 DEF Exchange!Next
<1>4. CASE Release
  <2>1. ret => UNCHANGED <<Pending, Work, Wire>>
    BY <1>0, <1>4 DEF Release, GiveBack, At, tx, RxInv
  <2>2. ~ret => Exchange!Refuse
    BY <1>0, <1>4 DEF Release, GiveBack, At, tx, RxInv, Exchange!Refuse
  <2> QED
    BY <2>1, <2>2 DEF Exchange!Next, Exchange!vars
<1>5. CASE ClearRxDone
  <2>1. UNCHANGED <<Pending, Work, Wire>>
    BY <1>0, <1>5 DEF ClearRxDone, RxInv, tx
  <2> QED
    BY <2>1 DEF Exchange!vars
<1>6. CASE Rewrite
  <2>1. PICK f \in Frame : content' = [content EXCEPT ![uip_buf] = f]
    BY <1>6 DEF Rewrite
  <2>2. Work' = {f} /\ Work # {}
    BY <1>0, <1>6, <2>1 DEF Rewrite, TypeOK
  <2>3. UNCHANGED <<Pending, Wire>>
    BY <1>0, <1>6, <2>1 DEF Rewrite, TypeOK, OneOwner, rx, tx
  <2> QED
    BY <2>2, <2>3 DEF Exchange!Next, Exchange!Rework
<1>7. CASE Discard
  <2>1. pc = "periodic" => UNCHANGED <<Pending, Work, Wire>>
    BY <1>7 DEF Discard, rx, tx
  <2>2. pc # "periodic" => Exchange!Drop
    BY <1>7 DEF Discard, rx, tx, Exchange!Drop
  <2> QED
    BY <2>1, <2>2 DEF Exchange!Next, Exchange!vars
<1>8. CASE CallSend
  <2>1. UNCHANGED <<Pending, Work, Wire>>
    BY <1>8 DEF CallSend, At, rx, tx
  <2> QED
    BY <2>1 DEF Exchange!vars
<1>9. CASE SwapTx
  <2>1. UNCHANGED <<Pending, Work, Wire>>
    BY <1>9 DEF SwapTx, SwapOut, TxIdle, At, rx
  <2> QED
    BY <2>1 DEF Exchange!vars
<1>10. CASE StartTx
  <2>1. Exchange!Send
    BY <1>0, <1>10 DEF StartTx, At, rx, TxInv, Exchange!Send
  <2> QED
    BY <2>1 DEF Exchange!Next
<1>11. CASE Store
  <2>1. PICK f \in Frame : content' = [content EXCEPT ![rxBuf] = f]
    BY <1>11 DEF Store
  <2>2. UNCHANGED <<Pending, Work, Wire>>
    BY <1>0, <1>11, <2>1 DEF Store, TypeOK, OneOwner, tx
  <2> QED
    BY <2>2 DEF Exchange!vars
<1>12. CASE HandOver
  <2>1. Exchange!Arrive
    BY <1>0, <1>12 DEF HandOver, TypeOK, RxInv, tx, Exchange!Arrive
  <2> QED
    BY <2>1 DEF Exchange!Next
<1>13. CASE TxDone
  <2>1. Exchange!Sent
    BY <1>13 DEF TxDone, rx, Exchange!Sent
  <2> QED
    BY <2>1 DEF Exchange!Next
<1>14. CASE UNCHANGED vars
  <2>1. UNCHANGED <<Pending, Work, Wire>>
    BY <1>14 DEF vars, rx, tx
  <2> QED
    BY <2>1 DEF Exchange!vars
<1> QED
  BY <1>1, <1>2, <1>3, <1>4, <1>5, <1>6, <1>7, <1>8, <1>9, <1>10, <1>11, <1>12, <1>13,
     <1>14 DEF Next, ether_read, ether_send, Stack, Controller

\* Exchanging buffers is as good as copying frames in one step, for the stack
\* and for the wire (etherdev.c:301-356).
THEOREM Implements == Spec => Exchanged
  BY ExchangeStarts, ExchangeSteps, Inductive, PTL DEF Spec, Exchanged, Exchange!Spec

=============================================================================
