-------------------------- MODULE SupervisorProofs --------------------------
(***************************************************************************)
(* The host module against any network and any board: types, when a moving *)
(* command may go out, and how long a module stays ready without answers.  *)
(* Host and board on a timely link: the configuration they agree on, and   *)
(* the one a moving command is executed under.  The measured reply delay.  *)
(***************************************************************************)
EXTENDS Supervisor, TLAPS

\* What ready and do_stepgen, the last reply, and the silence say of each
\* other between two functions of the servo thread.
ReplyInv == rx.type \in {"RST", "CFG", "CMD"} => silent = 0
OnlineInv == ready \/ do_stepgen => state = "TXRXREADY"
MotionInv == pc \in {"stepgen", "write"} /\ do_stepgen => ready /\ silent = 0
WireInv ==
    pc = "stepgen" /\ do_write /\ ~do_stepgen /\ tx.type = "CMD" => tx.vel = 0
SilenceInv ==
    state = "TXRXREADY" =>
        /\ pc = "supervisor" => silent <= rxerr + 1
        /\ pc # "supervisor" => silent <= rxerr /\ silent <= RxTimeout

HostInv ==
    /\ ReplyInv /\ OnlineInv /\ MotionInv /\ WireInv /\ SilenceInv
    /\ MovesOnlyWhenReady

IInv == TypeOK /\ HostInv

-----------------------------------------------------------------------------
(* Types                                                                   *)

\* A whole number is reduced to a word.
LEMMA InWord == ASSUME NEW n \in Int PROVE n % DelayMod \in Word
  BY SupervisorAssumption DEF Word

LEMMA CmdIsMessage ==
    ASSUME TypeOK, NEW v \in Speed PROVE CmdMsg(v) \in Message
  BY DEF TypeOK, CmdMsg, Message

LEMMA CfgIsMessage == ASSUME NEW p \in Param PROVE CfgMsg(p) \in Message
  BY DEF Message

LEMMA TypesStart == Init => TypeOK
<1> SUFFICES ASSUME Init PROVE TypeOK
  OBVIOUS
<1>1. RstMsg \in Message /\ 0 \in Speed /\ InitDelay \in Word
  BY SupervisorAssumption DEF Message, Word, Speed
<1>2. /\ toBoard \in Seq(Message) /\ Len(toBoard) = 0
      /\ toHost \in Seq(Reply) /\ Len(toHost) = 0
  BY DEF Init
<1>3. rx.type = "none" /\ rx.cycle = 0
  BY DEF Init, Nothing
<1>4. Len(toBoard) <= MaxQueue /\ Len(toHost) <= MaxQueue /\ 0 \in Nat
      /\ 0 \in 0..RebootCycles /\ 0 \in 0..(RxTimeout + 1)
  BY <1>2, SupervisorAssumption
<1>5. PowerOnCfg \in Param
  BY SupervisorAssumption
<1>6. do_read \in BOOLEAN /\ do_write \in BOOLEAN /\ do_stepgen \in BOOLEAN /\ ready \in BOOLEAN
      /\ boardTimed \in BOOLEAN /\ alive \in BOOLEAN /\ calm \in BOOLEAN /\ raced \in BOOLEAN
  BY Zenon DEF Init
<1>7. pc \in {"read", "supervisor", "stepgen", "write"} /\ state \in States
      /\ board \in {"up", "hung", "down"}
      /\ rx.type \in {"RST", "CFG", "CMD", "none", "timeout", "error"}
  BY <1>3 DEF Init, States
<1> QED
  BY <1>1, <1>2, <1>3, <1>4, <1>5, <1>6, <1>7, Zenon DEF Init, TypeOK

\* The functions of the thread, one after the other.
LEMMA ReadTypes == TypeOK /\ read => TypeOK'
<1> SUFFICES ASSUME TypeOK, read PROVE TypeOK'
  OBVIOUS
<1> USE SupervisorAssumption DEF TypeOK
<1>1. downFor' \in 0..RebootCycles
  BY DEF read, PeriodPasses
<1>2. /\ rx'.type \in {"RST", "CFG", "CMD", "none", "timeout", "error"} /\ rx'.cycle \in Nat
      /\ toHost' \in Seq(Reply) /\ Len(toHost') <= MaxQueue
      /\ silent' \in 0..(RxTimeout + 1)
  <2>1. CASE UNCHANGED <<rx, toHost, silent>>
    BY <2>1
  <2>2. CASE Receive
    <3>1. toHost \in Seq(Reply) /\ toHost # <<>>
      BY <2>2 DEF Receive
    <3>2. /\ Head(toHost) \in Reply /\ Tail(toHost) \in Seq(Reply)
          /\ Len(Tail(toHost)) = Len(toHost) - 1 /\ Len(toHost) \in Nat
      BY <3>1
    <3> QED
      BY <2>2, <3>2 DEF Receive, Reply
  <2>3. CASE TimeOut \/ RecvError
    BY <2>3 DEF TimeOut, RecvError, Unanswered, Answer
  <2> QED
    BY <2>1, <2>2, <2>3 DEF read
<1> QED
  BY <1>1, <1>2 DEF read, GoOn, host, flags, measure

LEMMA SendConfigTypes ==
    ASSUME TypeOK, SendConfig
    PROVE  /\ do_read' \in BOOLEAN /\ do_write' \in BOOLEAN /\ param' \in Param
           /\ checked' \in Param \cup {NoCfg} /\ tx' \in Message /\ state' \in States
           /\ count' \in Nat /\ sum' \in Nat /\ tmp' \in Nat /\ rxerr' \in Nat
           /\ reply_delay' \in Word
<1>1. Accepted[param] \in Param
  BY SupervisorAssumption DEF TypeOK
<1> QED
  BY <1>1, CfgIsMessage DEF TypeOK, SendConfig, CheckParams, States

\* What the supervisor leaves of the module's state.
HostTypes ==
    /\ state \in States
    /\ count \in Nat /\ sum \in Nat /\ tmp \in Nat /\ rxerr \in Nat
    /\ do_read \in BOOLEAN /\ do_write \in BOOLEAN /\ do_stepgen \in BOOLEAN
    /\ ready \in BOOLEAN
    /\ param \in Param /\ checked \in Param \cup {NoCfg}
    /\ reply_delay \in Word /\ tx \in Message

LEMMA IdleIsMessage ==
    ASSUME TypeOK, NEW d \in Word PROVE [Idle EXCEPT !.delay = d] \in Message
<1>1. [Idle EXCEPT !.delay = d]
        = [type |-> "CMD", delay |-> d, vel |-> 0, cfg |-> NoCfg, raced |-> raced]
  BY DEF Idle, CmdMsg
<1>2. 0 \in Speed /\ raced \in BOOLEAN
  BY SupervisorAssumption DEF Speed, TypeOK
<1> QED
  BY <1>1, <1>2 DEF Message

LEMMA SupervisorTypes == TypeOK /\ supervisor => TypeOK'
<1> SUFFICES ASSUME TypeOK, supervisor PROVE TypeOK'
  OBVIOUS
<1>1. Idle \in Message
  BY CmdIsMessage, SupervisorAssumption DEF Idle, Speed
<1>2. HostTypes
  BY DEF TypeOK, HostTypes
<1>3. RstMsg \in Message
  BY DEF Message
<1>4. rx.cycle \in Nat
  BY DEF TypeOK
<1>5. CASE Rst
  BY <1>2, <1>3, <1>5 DEF Rst, GoOffline, HostTypes, TypeOK, InState, States, net, firmware
<1>6. ASSUME SendConfig, UNCHANGED <<do_stepgen, ready>> \/ GoOffline PROVE HostTypes'
  BY <1>2, <1>6, SendConfigTypes DEF HostTypes, GoOffline
<1>7. ASSUME NEW limit \in Nat, KeepWaiting(limit) PROVE HostTypes'
  <2>1. count' \in Nat /\ state' \in States
    BY <1>2, <1>7 DEF HostTypes, KeepWaiting, AfterTimeout, States
  <2> QED
    BY <1>2, <1>7, <2>1, Zenon DEF HostTypes, KeepWaiting
<1>8. ASSUME StartOver PROVE HostTypes'
  BY <1>2, <1>8 DEF HostTypes, StartOver, measure, States
<1>9. ASSUME StartMeasuring PROVE HostTypes'
  BY <1>1, <1>2, <1>9 DEF HostTypes, StartMeasuring, States
<1>10. ASSUME HostTypes', UNCHANGED <<rx, net, firmware, calm, silent, raced, old_vel>>, pc' = "stepgen"
       PROVE TypeOK'
  BY <1>10 DEF TypeOK, HostTypes, net, firmware
<1>11. CASE RstWait
  BY <1>6, <1>7, <1>8, <1>9, <1>10, <1>11, SupervisorAssumption DEF RstWait, InState
<1>12. CASE GetCycleTime
  <2>1. /\ do_read' \in BOOLEAN /\ do_write' \in BOOLEAN /\ do_stepgen' \in BOOLEAN
        /\ ready' \in BOOLEAN /\ param' \in Param /\ checked' \in Param \cup {NoCfg}
    BY <1>2, <1>12, Zenon DEF GetCycleTime, StartOver, HostTypes
  <2>2. /\ state' \in States /\ count' \in Nat /\ sum' \in Nat /\ tmp' \in Nat /\ rxerr' \in Nat
    BY <1>2, <1>4, <1>12, SMT
       DEF GetCycleTime, StartOver, HostTypes, States, measure, RestartAverage
  <2>3. reply_delay' \in Word
    <3>1. ((sum + rx.cycle) \div Readings - RxTxDelay) % DelayMod \in Word
      BY <1>2, <1>4, InWord, SupervisorAssumption DEF HostTypes
    <3> QED
      BY <1>2, <1>12, <3>1, Zenon DEF GetCycleTime, StartOver, HostTypes
  <2>4. tx' \in Message
    <3>1. [Idle EXCEPT !.delay = reply_delay'] \in Message
      BY IdleIsMessage, <2>3
    <3> QED
      BY <1>2, <1>12, <3>1, Zenon DEF GetCycleTime, StartOver, HostTypes
  <2> QED
    BY <1>10, <1>12, <2>1, <2>2, <2>3, <2>4, Zenon DEF GetCycleTime, InState, HostTypes
<1>13. CASE SetReplyDelay
  <2>1. Shorter \in Word
    BY <1>2, InWord DEF Shorter, HostTypes, Word
  <2>2. [Idle EXCEPT !.delay = Shorter] \in Message
    BY IdleIsMessage, <2>1
  <2>3. /\ do_read' \in BOOLEAN /\ do_write' \in BOOLEAN /\ do_stepgen' \in BOOLEAN
        /\ ready' \in BOOLEAN /\ param' \in Param /\ checked' \in Param \cup {NoCfg}
        /\ tx' \in Message /\ reply_delay' \in Word
    BY <1>1, <1>2, <1>13, <2>1, <2>2, Zenon DEF SetReplyDelay, StartOver, HostTypes
  <2>4. /\ state' \in States /\ count' \in Nat /\ sum' \in Nat /\ tmp' \in Nat /\ rxerr' \in Nat
    BY <1>2, <1>4, <1>13, SMT DEF SetReplyDelay, StartOver, HostTypes, States, measure
  <2> QED
    BY <1>10, <1>13, <2>3, <2>4, Zenon DEF SetReplyDelay, InState, HostTypes
<1>14. CASE Cfg
  BY <1>6, <1>10, <1>14 DEF Cfg, InState
<1>15. CASE CfgWait
  <2>1. HostTypes'
    BY <1>1, <1>2, <1>7, <1>8, <1>15, SupervisorAssumption
       DEF CfgWait, HostTypes, States, measure
  <2> QED
    BY <1>10, <1>15, <2>1 DEF CfgWait, InState
<1>16. CASE TxRxReady
  <2>1. CASE GoodReply
    <3>1. CASE GoOffline /\ SendConfig
      BY <1>6, <1>10, <1>16, <3>1 DEF TxRxReady, InState
    <3>2. CASE /\ do_read' = TRUE /\ do_write' = TRUE /\ do_stepgen' = TRUE /\ ready' = TRUE
               /\ rxerr' = IF rxerr > 0 THEN rxerr - 1 ELSE 0
               /\ UNCHANGED <<state, measure, tx, param, checked, reply_delay>>
      <4>1. rxerr' \in Nat /\ count' \in Nat /\ sum' \in Nat /\ tmp' \in Nat
        BY <1>2, <3>2, SMT DEF HostTypes, measure
      <4> QED
        BY <1>2, <1>10, <1>16, <3>2, <4>1, Zenon DEF TxRxReady, InState, HostTypes
    <3> QED
      BY <2>1, <3>1, <3>2 DEF GoodReply
  <2>2. CASE Tolerate
    <3>1. rxerr' \in Nat /\ count' \in Nat /\ sum' \in Nat /\ tmp' \in Nat
      BY <1>2, <2>2, SMT DEF Tolerate, HostTypes, measure
    <3> QED
      BY <1>1, <1>2, <1>10, <1>16, <2>2, <3>1, Zenon DEF TxRxReady, InState, Tolerate, HostTypes
  <2>3. CASE Disconnect
    <3>1. rxerr' \in Nat /\ count' \in Nat /\ sum' \in Nat /\ tmp' \in Nat /\ state' \in States
      BY <1>2, <2>3, SMT DEF Disconnect, HostTypes, measure, States
    <3> QED
      BY <1>2, <1>10, <1>16, <2>3, <3>1, Zenon
         DEF TxRxReady, InState, Disconnect, GoOffline, HostTypes
  <2> QED
    BY <1>16, <2>1, <2>2, <2>3 DEF TxRxReady
<1> QED
  BY <1>5, <1>11, <1>12, <1>13, <1>14, <1>15, <1>16 DEF supervisor

LEMMA StepgenTypes == TypeOK /\ stepgen => TypeOK'
<1> SUFFICES ASSUME TypeOK, stepgen PROVE TypeOK'
  OBVIOUS
<1>1. 0 \in Speed
  BY SupervisorAssumption DEF Speed
<1>2. ASSUME NEW target \in (-MaxSpeed)..MaxSpeed PROVE Ramp(target) \in Speed
  BY <1>2, SupervisorAssumption DEF TypeOK, Ramp, Speed
<1>3. old_vel' \in Speed /\ tx' \in Message /\ raced' \in BOOLEAN
  BY <1>1, <1>2, CmdIsMessage DEF stepgen, TypeOK
<1> QED
  BY <1>3 DEF stepgen, TypeOK, measure, flags, net, firmware

LEMMA WriteTypes == TypeOK /\ write => TypeOK'
<1> SUFFICES ASSUME TypeOK, write PROVE TypeOK'
  OBVIOUS
<1>1. toBoard' \in Seq(Message) /\ Len(toBoard') <= MaxQueue
  <2>1. toBoard \in Seq(Message) /\ tx \in Message /\ MaxQueue \in Nat
    BY SupervisorAssumption DEF TypeOK
  <2>2. /\ Append(toBoard, tx) \in Seq(Message)
        /\ Len(Append(toBoard, tx)) = Len(toBoard) + 1 /\ Len(toBoard) \in Nat
    BY <2>1
  <2> QED
    BY <2>1, <2>2 DEF write, TypeOK
<1> QED
  BY <1>1 DEF write, TypeOK, host, measure, flags, firmware

\* A step of the board or of the network that keeps the types of what it may change.
LEMMA BoardSideTypes ==
    ASSUME TypeOK, UNCHANGED <<pc, host, rx, calm, silent, raced>>,
           toBoard' \in Seq(Message) /\ Len(toBoard') <= MaxQueue,
           toHost' \in Seq(Reply) /\ Len(toHost') <= MaxQueue,
           board' \in {"up", "hung", "down"} /\ downFor' \in 0..RebootCycles,
           boardCfg' \in Param /\ boardVel' \in Speed,
           boardTimed' \in BOOLEAN /\ alive' \in BOOLEAN
    PROVE  TypeOK'
<1>1. /\ pc' = pc /\ state' = state /\ count' = count /\ sum' = sum /\ tmp' = tmp
      /\ rxerr' = rxerr /\ do_read' = do_read /\ do_write' = do_write
      /\ do_stepgen' = do_stepgen /\ ready' = ready /\ param' = param /\ checked' = checked
      /\ reply_delay' = reply_delay /\ old_vel' = old_vel /\ tx' = tx /\ rx' = rx
      /\ calm' = calm /\ silent' = silent /\ raced' = raced
  BY Zenon DEF host, measure, flags
<1>2. /\ pc' \in {"read", "supervisor", "stepgen", "write"} /\ state' \in States
      /\ count' \in Nat /\ sum' \in Nat /\ tmp' \in Nat /\ rxerr' \in Nat
      /\ do_read' \in BOOLEAN /\ do_write' \in BOOLEAN /\ do_stepgen' \in BOOLEAN
      /\ ready' \in BOOLEAN /\ param' \in Param /\ checked' \in Param \cup {NoCfg}
  BY <1>1, Zenon DEF TypeOK
<1>3. /\ reply_delay' \in Word /\ old_vel' \in Speed
      /\ rx'.type \in {"RST", "CFG", "CMD", "none", "timeout", "error"} /\ rx'.cycle \in Nat
      /\ tx' \in Message /\ calm' \in BOOLEAN /\ silent' \in 0..(RxTimeout + 1)
      /\ raced' \in BOOLEAN
  BY <1>1, Zenon DEF TypeOK
<1> QED
  BY <1>2, <1>3, Zenon DEF TypeOK

\* The board, the network and the user.
LEMMA EnvironmentTypes ==
    TypeOK /\ (SetParam \/ Board \/ BoardTimer \/ Reboot \/ ComeUp \/ Lose \/ CalmDown) => TypeOK'
<1> SUFFICES ASSUME TypeOK, SetParam \/ Board \/ BoardTimer \/ Reboot \/ ComeUp \/ Lose \/ CalmDown
             PROVE  TypeOK'
  OBVIOUS
<1> USE SupervisorAssumption
<1>1. ASSUME toBoard # <<>>
      PROVE  /\ Head(toBoard) \in Message /\ Tail(toBoard) \in Seq(Message)
             /\ Len(Tail(toBoard)) <= MaxQueue
  <2>1. toBoard \in Seq(Message) /\ Len(toBoard) <= MaxQueue
    BY DEF TypeOK
  <2>2. /\ Head(toBoard) \in Message /\ Tail(toBoard) \in Seq(Message)
        /\ Len(Tail(toBoard)) = Len(toBoard) - 1 /\ Len(toBoard) \in Nat
    BY <1>1, <2>1
  <2> QED
    BY <2>1, <2>2
<1>2. ASSUME NEW a \in Reply, Send(a) PROVE toHost' \in Seq(Reply) /\ Len(toHost') <= MaxQueue
  <2>1. toHost \in Seq(Reply) /\ Len(toHost) <= MaxQueue
    BY DEF TypeOK
  <2>2. /\ Append(toHost, a) \in Seq(Reply)
        /\ Len(Append(toHost, a)) = Len(toHost) + 1 /\ Len(toHost) \in Nat
    BY <2>1
  <2> QED
    BY <1>2, <2>1, <2>2 DEF Send
<1>3. CASE SetParam
  BY <1>3 DEF SetParam, TypeOK, measure, flags, net, firmware
<1>4. CASE BoardRst
  <2>1. Answer("RST", 0) \in Reply
    BY DEF Answer, Reply
  <2>2. 0 \in Speed
    BY DEF Speed
  <2>3. toBoard' \in Seq(Message) /\ Len(toBoard') <= MaxQueue
    BY <1>1, <1>4 DEF BoardRst, Request
  <2>4. toHost' \in Seq(Reply) /\ Len(toHost') <= MaxQueue
    BY <1>2, <1>4, <2>1 DEF BoardRst
  <2>5. boardTimed' \in BOOLEAN
    BY <1>4, Zenon DEF BoardRst
  <2> QED
    <3>1. /\ UNCHANGED <<pc, host, rx, calm, silent, raced, downFor, board, boardCfg, alive>>
          /\ boardVel' = 0
      BY <1>4 DEF BoardRst, Request
    <3>2. /\ board' \in {"up", "hung", "down"} /\ downFor' \in 0..RebootCycles
          /\ boardCfg' \in Param /\ boardVel' \in Speed /\ alive' \in BOOLEAN
      BY <3>1, <2>2, Zenon DEF TypeOK
    <3> QED
      BY <2>3, <2>4, <2>5, <3>1, <3>2, BoardSideTypes, Zenon
<1>5. CASE BoardCfg
  <2>1. Answer("CFG", 0) \in Reply
    BY DEF Answer, Reply
  <2>2. Head(toBoard).cfg \in Param
    BY <1>1, <1>5 DEF BoardCfg, Request, Message, RstMsg, CfgMsg
  <2> QED
    BY <1>1, <1>2, <1>5, <2>1, <2>2 DEF BoardCfg, Request, TypeOK, host, measure, flags
<1>6. CASE BoardCmd
  <2>1. ASSUME NEW c \in CycleTime \cup {0} PROVE Answer("CMD", c) \in Reply
    BY <2>1 DEF Answer, Reply
  <2>2. Head(toBoard).vel \in Speed
    BY <1>1, <1>6 DEF BoardCmd, Request, Message, RstMsg, CfgMsg
  <2>3. toHost' \in Seq(Reply) /\ Len(toHost') <= MaxQueue
    <3>1. CASE UNCHANGED toHost
      BY <3>1 DEF TypeOK
    <3>2. CASE \E c \in IF boardTimed THEN CycleTime ELSE {0} : Send(Answer("CMD", c))
      <4>1. PICK c \in CycleTime \cup {0} : Send(Answer("CMD", c))
        BY <3>2
      <4> QED
        BY <1>2, <2>1, <4>1
    <3> QED
      BY <1>6, <3>1, <3>2 DEF BoardCmd
  <2>4. board' \in {"up", "hung", "down"} /\ boardTimed' \in BOOLEAN /\ alive' \in BOOLEAN
    BY <1>6, Zenon DEF BoardCmd, TypeOK
  <2> QED
    <3>1. /\ UNCHANGED <<pc, host, rx, calm, silent, raced, downFor, boardCfg>>
          /\ boardVel' = Head(toBoard).vel
          /\ toBoard # <<>> /\ toBoard' = Tail(toBoard)
      BY <1>6 DEF BoardCmd, Request
    <3>2. downFor' \in 0..RebootCycles /\ boardCfg' \in Param /\ boardVel' \in Speed
      BY <3>1, <2>2, Zenon DEF TypeOK
    <3> QED
      BY <1>1, <2>3, <2>4, <3>1, <3>2, BoardSideTypes, Zenon
<1>7. CASE BoardTimer
  <2>1. boardVel' \in Speed
    BY <1>7 DEF BoardTimer, TypeOK, Speed
  <2>2. alive' \in BOOLEAN /\ boardTimed' \in BOOLEAN
    BY <1>7, Zenon DEF BoardTimer
  <2> QED
    <3>1. UNCHANGED <<pc, host, rx, calm, silent, raced, toBoard, toHost, board, downFor, boardCfg>>
      BY <1>7 DEF BoardTimer, net
    <3>2. /\ toBoard' \in Seq(Message) /\ Len(toBoard') <= MaxQueue
          /\ toHost' \in Seq(Reply) /\ Len(toHost') <= MaxQueue
          /\ board' \in {"up", "hung", "down"} /\ downFor' \in 0..RebootCycles
          /\ boardCfg' \in Param
      BY <3>1, Zenon DEF TypeOK
    <3> QED
      BY <2>1, <2>2, <3>1, <3>2, BoardSideTypes, Zenon
<1>8. CASE Reboot
  <2>1. 0 \in Speed /\ 0 \in 0..RebootCycles /\ PowerOnCfg \in Param
    BY DEF Speed
  <2>2. toBoard' \in Seq(Message) /\ Len(toBoard') <= MaxQueue
    BY <1>8 DEF Reboot
  <2>3. board' \in {"up", "hung", "down"} /\ boardTimed' \in BOOLEAN /\ alive' \in BOOLEAN
    BY <1>8, Zenon DEF Reboot
  <2> QED
    <3>1. /\ UNCHANGED <<pc, host, rx, calm, silent, raced, toHost>>
          /\ downFor' = 0 /\ boardCfg' = PowerOnCfg /\ boardVel' = 0
      BY <1>8 DEF Reboot
    <3>2. toHost' \in Seq(Reply) /\ Len(toHost') <= MaxQueue
      BY <3>1, Zenon DEF TypeOK
    <3> QED
      BY <2>1, <2>2, <2>3, <3>1, <3>2, BoardSideTypes, Zenon
<1>9. CASE ComeUp
  BY <1>9 DEF ComeUp, TypeOK, host, measure, flags, net
<1>10. CASE Lose
  <2>1. ASSUME toHost # <<>> PROVE Tail(toHost) \in Seq(Reply) /\ Len(Tail(toHost)) <= MaxQueue
    <3>1. toHost \in Seq(Reply) /\ Len(toHost) <= MaxQueue
      BY DEF TypeOK
    <3>2. /\ Tail(toHost) \in Seq(Reply)
          /\ Len(Tail(toHost)) = Len(toHost) - 1 /\ Len(toHost) \in Nat
      BY <2>1, <3>1
    <3> QED
      BY <3>1, <3>2
  <2>2. toBoard' \in Seq(Message) /\ Len(toBoard') <= MaxQueue
    BY <1>1, <1>10 DEF Lose, TypeOK
  <2>3. toHost' \in Seq(Reply) /\ Len(toHost') <= MaxQueue
    BY <1>10, <2>1 DEF Lose, TypeOK
  <2>4. UNCHANGED <<pc, host, rx, firmware, calm, silent, raced>>
    BY <1>10 DEF Lose
  <2> QED
    BY <2>2, <2>3, <2>4 DEF TypeOK, host, measure, flags, firmware
<1>11. CASE CalmDown
  BY <1>11 DEF CalmDown, TypeOK, host, measure, flags, net, firmware
<1> QED
  BY <1>3, <1>4, <1>5, <1>6, <1>7, <1>8, <1>9, <1>10, <1>11 DEF Board

\* Every step keeps the types.
LEMMA TypesKept == TypeOK /\ [Next]_vars => TypeOK'
<1> SUFFICES ASSUME TypeOK, [Next]_vars PROVE TypeOK'
  OBVIOUS
<1>1. CASE UNCHANGED vars
  BY <1>1 DEF vars, TypeOK, host, measure, flags, net, firmware
<1> QED
  BY <1>1, ReadTypes, SupervisorTypes, StepgenTypes, WriteTypes, EnvironmentTypes
     DEF Next, ServoThread

\* Every variable of the module, the link and the board keeps its type; the
\* reply delay stays an unsigned word (rt8p8c.comp:54-79, 729).
THEOREM TypeCorrect == Spec => []TypeOK
  BY TypesStart, TypesKept, PTL DEF Spec

-----------------------------------------------------------------------------
(* When a moving command may go out, and how long a module stays ready     *)

LEMMA HostStart == Init => HostInv
<1> SUFFICES ASSUME Init PROVE HostInv
  OBVIOUS
<1>1. pc = "read" /\ state = "RST" /\ ~ready /\ ~do_stepgen /\ silent = 0
  BY DEF Init
<1>2. rx.type = "none"
  BY DEF Init, Nothing
<1> QED
  BY <1>1, <1>2
     DEF HostInv, ReplyInv, OnlineInv, MotionInv, WireInv, SilenceInv,
         MovesOnlyWhenReady

\* A step that leaves what the invariant reads leaves the invariant.
LEMMA HostFrame ==
    ASSUME HostInv, UNCHANGED <<pc, state, rxerr, do_write, do_stepgen, ready, tx, rx, silent>>
    PROVE  HostInv'
  BY DEF HostInv, ReplyInv, OnlineInv, MotionInv, WireInv, SilenceInv,
         MovesOnlyWhenReady

\* An answer ends the silence; a timeout adds one to it.
LEMMA HostRead == IInv /\ read => HostInv'
<1> SUFFICES ASSUME IInv, read PROVE HostInv'
  OBVIOUS
<1>1. rxerr \in Nat /\ silent \in Nat /\ RxTimeout \in Nat
  BY SupervisorAssumption DEF IInv, TypeOK
<1>2. pc' = "supervisor" /\ UNCHANGED <<state, rxerr, do_write, do_stepgen, ready, tx>>
  BY DEF read, GoOn, host, flags
<1>3. state = "TXRXREADY" => silent <= rxerr
  BY DEF read, IInv, HostInv, SilenceInv
<1>4. /\ rx'.type \in {"RST", "CFG", "CMD"} => silent' = 0
      /\ state = "TXRXREADY" => silent' <= rxerr + 1
  <2>1. CASE UNCHANGED <<rx, toHost, silent>>
    BY <1>1, <1>3, <2>1 DEF IInv, HostInv, ReplyInv
  <2>2. CASE Receive
    BY <1>1, <2>2 DEF Receive
  <2>3. CASE TimeOut
    BY <1>1, <1>3, <2>3 DEF TimeOut, Answer
  <2>4. CASE RecvError
    BY <1>1, <1>3, <2>4 DEF RecvError, Answer
  <2> QED
    BY <2>1, <2>2, <2>3, <2>4 DEF read
<1> QED
  BY <1>2, <1>4
     DEF IInv, HostInv, ReplyInv, OnlineInv, MotionInv, WireInv, SilenceInv,
         MovesOnlyWhenReady

\* What the supervisor hands to the step generator of the module.
Handover ==
    /\ ready \/ do_stepgen => state = "TXRXREADY"
    /\ do_stepgen => ready /\ silent = 0
    /\ do_write /\ ~do_stepgen /\ tx.type = "CMD" => tx.vel = 0
    /\ state = "TXRXREADY" => silent <= rxerr /\ silent <= RxTimeout

\* Every state but TXRXREADY leaves the module offline.
LEMMA OfflineHandover ==
    ASSUME ~ready', ~do_stepgen', do_write' /\ tx'.type = "CMD" => tx'.vel = 0,
           state' = "TXRXREADY" => silent' <= rxerr' /\ silent' <= RxTimeout
    PROVE  Handover'
  BY DEF Handover

LEMMA IdleIsStill ==
    /\ Idle.type = "CMD" /\ Idle.vel = 0
    /\ \A d : [Idle EXCEPT !.delay = d].type = "CMD" /\ [Idle EXCEPT !.delay = d].vel = 0
  BY DEF Idle, CmdMsg

\* In the states before, the module neither is nor goes online.
LEMMA HostOffline ==
    ASSUME IInv, Rst \/ RstWait \/ GetCycleTime \/ SetReplyDelay \/ Cfg \/ CfgWait
    PROVE  Handover'
<1>1. state # "TXRXREADY"
  BY DEF Rst, RstWait, GetCycleTime, SetReplyDelay, Cfg, CfgWait, InState
<1>2. ~ready /\ ~do_stepgen
  BY <1>1 DEF IInv, HostInv, OnlineInv
<1>3. GoOffline \/ UNCHANGED <<do_stepgen, ready>>
  BY DEF Rst, RstWait, GetCycleTime, SetReplyDelay, Cfg, CfgWait, KeepWaiting,
         StartMeasuring, StartOver
<1>4. tx' = RstMsg \/ tx' = CfgMsg(Accepted[param]) \/ tx' = Idle
          \/ (\E d : tx' = [Idle EXCEPT !.delay = d]) \/ do_write' = FALSE
  BY Zenon
     DEF Rst, RstWait, GetCycleTime, SetReplyDelay, Cfg, CfgWait, SendConfig, KeepWaiting,
         StartMeasuring, StartOver
<1>5. RstMsg.type # "CMD" /\ CfgMsg(Accepted[param]).type # "CMD"
  BY DEF RstMsg, CfgMsg
<1> QED
  <2>1. ~ready' /\ ~do_stepgen'
    BY <1>2, <1>3 DEF GoOffline
  <2>2. do_write' /\ tx'.type = "CMD" => tx'.vel = 0
    BY <1>4, <1>5, IdleIsStill, Zenon
  <2>3. state' = "TXRXREADY" => silent' <= rxerr' /\ silent' <= RxTimeout
    <3>1. SUFFICES ASSUME state' = "TXRXREADY" PROVE silent' = 0 /\ rxerr' \in Nat
      BY <3>1, SupervisorAssumption
    <3>2. CfgWait /\ Confirmed
      BY <1>1, <3>1, Zenon
         DEF Rst, RstWait, GetCycleTime, SetReplyDelay, Cfg, CfgWait, SendConfig, KeepWaiting,
             AfterTimeout, StartMeasuring, StartOver, InState
    <3> QED
      BY <3>2 DEF CfgWait, InState, Confirmed, RcvReply, RcvTimeout, IInv, TypeOK, HostInv, ReplyInv
  <2> QED
    BY <2>1, <2>2, <2>3, OfflineHandover

\* A good reply ends the silence, a tolerated timeout is counted in rxerr.
LEMMA HostOnline == ASSUME IInv, TxRxReady PROVE Handover'
<1>1. rxerr \in Nat /\ silent \in Nat /\ RxTimeout \in Nat
  BY SupervisorAssumption DEF IInv, TypeOK
<1>2. silent' = silent /\ pc = "supervisor" /\ state = "TXRXREADY"
  BY DEF TxRxReady, InState
<1>3. silent <= rxerr + 1
  BY <1>2 DEF IInv, HostInv, SilenceInv
<1>4. CASE GoodReply
  <2>1. CASE GoOffline /\ SendConfig
    <3>1. tx'.type # "CMD" /\ state' # "TXRXREADY"
      BY <2>1 DEF SendConfig, CfgMsg
    <3> QED
      BY <2>1, <3>1, OfflineHandover DEF GoOffline
  <2>2. CASE /\ do_stepgen' = TRUE /\ ready' = TRUE /\ UNCHANGED state
             /\ rxerr' = IF rxerr > 0 THEN rxerr - 1 ELSE 0
    <3>1. silent' = 0
      BY <1>2, <1>4 DEF GoodReply, RcvReply, IInv, HostInv, ReplyInv
    <3>2. 0 <= rxerr'
      BY <1>1, <2>2
    <3> QED
      BY <1>1, <1>2, <2>2, <3>1, <3>2 DEF Handover
  <2> QED
    BY <1>4, <2>1, <2>2 DEF GoodReply
<1>5. CASE Tolerate
  <2>1. ready' = ready /\ do_stepgen' = FALSE /\ state' = "TXRXREADY" /\ tx'.vel = 0
    BY <1>2, <1>5, IdleIsStill DEF Tolerate
  <2>2. silent' <= rxerr' /\ silent' <= RxTimeout
    BY <1>1, <1>2, <1>3, <1>5 DEF Tolerate, Tolerable
  <2> QED
    BY <2>1, <2>2 DEF Handover
<1>6. CASE Disconnect
  BY <1>6, OfflineHandover DEF Disconnect, GoOffline
<1> QED
  BY <1>4, <1>5, <1>6 DEF TxRxReady

LEMMA HostSupervisor == IInv /\ supervisor => HostInv'
<1> SUFFICES ASSUME IInv, supervisor PROVE HostInv'
  OBVIOUS
<1>1. pc' = "stepgen" /\ UNCHANGED <<rx, silent>>
  BY DEF supervisor, Rst, RstWait, GetCycleTime, SetReplyDelay, Cfg, CfgWait, TxRxReady, InState
<1>2. Handover'
  BY HostOffline, HostOnline DEF supervisor
<1> QED
  BY <1>1, <1>2
     DEF Handover, IInv, HostInv, ReplyInv, OnlineInv, MotionInv, WireInv, SilenceInv,
         MovesOnlyWhenReady

LEMMA HostStepgen == IInv /\ stepgen => HostInv'
<1> SUFFICES ASSUME IInv, stepgen PROVE HostInv'
  OBVIOUS
<1>1. /\ pc = "stepgen" /\ pc' = "write"
      /\ UNCHANGED <<state, rxerr, do_write, do_stepgen, ready, rx, silent>>
      /\ ~do_stepgen => tx' = tx
  BY DEF stepgen, flags
<1> QED
  BY <1>1
     DEF IInv, HostInv, ReplyInv, OnlineInv, MotionInv, WireInv, SilenceInv,
         MovesOnlyWhenReady

LEMMA HostWrite == IInv /\ write => HostInv'
<1> SUFFICES ASSUME IInv, write PROVE HostInv'
  OBVIOUS
<1>1. /\ pc = "write" /\ pc' = "read"
      /\ UNCHANGED <<state, rxerr, do_write, do_stepgen, ready, rx, silent>>
  BY DEF write, host, flags
<1> QED
  BY <1>1
     DEF IInv, HostInv, ReplyInv, OnlineInv, MotionInv, WireInv, SilenceInv,
         MovesOnlyWhenReady

LEMMA HostKept == IInv /\ [Next]_vars => HostInv'
<1> SUFFICES ASSUME IInv, [Next]_vars PROVE HostInv'
  OBVIOUS
<1>1. HostInv
  BY DEF IInv
<1>2. CASE SetParam
  BY <1>1, <1>2, HostFrame DEF SetParam, flags
<1>3. CASE Board \/ BoardTimer \/ Reboot \/ ComeUp \/ Lose \/ CalmDown
  <2>1. UNCHANGED <<pc, host, rx, silent>>
    BY <1>3 DEF Board, BoardRst, BoardCfg, BoardCmd, Request, BoardTimer, Reboot, ComeUp,
                Lose, CalmDown
  <2> QED
    BY <1>1, <2>1, HostFrame DEF host, flags
<1>4. CASE UNCHANGED vars
  BY <1>1, <1>4, HostFrame DEF vars, host, flags
<1> QED
  BY <1>2, <1>3, <1>4, HostRead, HostSupervisor, HostStepgen, HostWrite DEF Next, ServoThread

LEMMA Inductive == Spec => []IInv
<1>1. Init => IInv
  BY TypesStart, HostStart DEF IInv
<1>2. IInv /\ [Next]_vars => IInv'
  BY TypesKept, HostKept DEF IInv
<1> QED
  BY <1>1, <1>2, PTL DEF Spec

\* Whatever the network and the board do, only a ready module whose last read
\* brought an answer puts a moving command on the wire (rt8p8c.comp:787-802).
\* What the board makes of a command that comes late is not meant: it may execute
\* one that was sent while the module was ready after the module left that state.
THEOREM OnlyReadyMoves == Spec => []MovesOnlyWhenReady
<1>1. IInv => MovesOnlyWhenReady
  BY DEF IInv, HostInv
<1> QED
  BY <1>1, Inductive, PTL

\* Whatever the network and the board do, a ready module has not missed more
\* than RX_TIMEOUT answers in a row (rt8p8c.comp:787-795).
THEOREM ReadyIsHeard == Spec => []ReadyHearsBoard
<1>1. IInv => ReadyHearsBoard
  BY DEF IInv, HostInv, OnlineInv, SilenceInv, ReadyHearsBoard
<1> QED
  BY <1>1, Inductive, PTL

-----------------------------------------------------------------------------
(* Datagrams in flight                                                     *)

\* A hung board takes nothing more; what is on its way to it is lost.
Coming == IF board = "hung" THEN <<>> ELSE toBoard

CfgFree(s) == \A i \in 1..Len(s) : s[i].type # "CFG"
OnlyFirst(s) == \A i \in 1..Len(s) : s[i].type = "CFG" => i = 1
OnlyLast(s) == \A i \in 1..Len(s) : s[i].type = "CFG" => i = Len(s)

LEMMA TailElement ==
    ASSUME NEW S, NEW s \in Seq(S), s # <<>>
    PROVE  /\ Head(s) = s[1] /\ Head(s) \in S
           /\ Tail(s) \in Seq(S) /\ Len(s) \in Nat /\ Len(s) > 0 /\ Len(Tail(s)) = Len(s) - 1
           /\ \A i \in 1..Len(Tail(s)) : Tail(s)[i] = s[i + 1]
  OBVIOUS

LEMMA AppendElement ==
    ASSUME NEW S, NEW s \in Seq(S), NEW m \in S
    PROVE  /\ Append(s, m) \in Seq(S) /\ Len(s) \in Nat /\ Len(Append(s, m)) = Len(s) + 1
           /\ Append(s, m)[Len(s) + 1] = m
           /\ \A i \in 1..Len(s) : Append(s, m)[i] = s[i]
  OBVIOUS

LEMMA EmptyIsFree == CfgFree(<<>>) /\ OnlyFirst(<<>>) /\ OnlyLast(<<>>)
  BY DEF CfgFree, OnlyFirst, OnlyLast

LEMMA FreeIsEither ==
    ASSUME NEW s, CfgFree(s) PROVE OnlyFirst(s) /\ OnlyLast(s)
  BY DEF CfgFree, OnlyFirst, OnlyLast

LEMMA ShortHasFirst ==
    ASSUME NEW S, NEW s \in Seq(S), Len(s) <= 1 PROVE OnlyFirst(s)
  BY DEF OnlyFirst

\* What the first datagram leaves behind it.
LEMMA TakenFrom ==
    ASSUME NEW S, NEW s \in Seq(S), s # <<>>
    PROVE  /\ CfgFree(s) => CfgFree(Tail(s)) /\ Head(s).type # "CFG"
           /\ OnlyFirst(s) => CfgFree(Tail(s))
           /\ OnlyLast(s) => OnlyLast(Tail(s)) /\ (Head(s).type = "CFG" => Tail(s) = <<>>)
<1>1. /\ Head(s) = s[1] /\ Tail(s) \in Seq(S) /\ Len(s) \in Nat /\ Len(s) > 0
      /\ Len(Tail(s)) = Len(s) - 1
      /\ \A i \in 1..Len(Tail(s)) : Tail(s)[i] = s[i + 1]
  BY TailElement
<1>2. \A i \in 1..Len(Tail(s)) : i + 1 \in 1..Len(s) /\ i + 1 # 1
  BY <1>1
<1>3. 1 \in 1..Len(s)
  BY <1>1
<1>4. CfgFree(s) => CfgFree(Tail(s)) /\ Head(s).type # "CFG"
  BY <1>1, <1>2, <1>3, Zenon DEF CfgFree
<1>5. OnlyFirst(s) => CfgFree(Tail(s))
  BY <1>1, <1>2, Zenon DEF CfgFree, OnlyFirst
<1>6. ASSUME OnlyLast(s) PROVE OnlyLast(Tail(s))
  <2>1. ASSUME NEW i \in 1..Len(Tail(s)), Tail(s)[i].type = "CFG" PROVE i = Len(Tail(s))
    <3>1. i + 1 = Len(s)
      BY <1>1, <1>2, <1>6, <2>1, Zenon DEF OnlyLast
    <3>2. i \in Int /\ Len(s) \in Int /\ Len(Tail(s)) = Len(s) - 1
      BY <1>1, <2>1
    <3> QED
      BY <3>1, <3>2
  <2> QED
    BY <2>1 DEF OnlyLast
<1>7. ASSUME OnlyLast(s), Head(s).type = "CFG" PROVE Tail(s) = <<>>
  <2>1. Len(s) = 1
    BY <1>1, <1>3, <1>7, Zenon DEF OnlyLast
  <2>2. Tail(s) \in Seq(S) /\ Len(Tail(s)) = 0
    BY <1>1, <2>1
  <2>3. \A t \in Seq(S) : Len(t) = 0 => t = <<>>
    OBVIOUS
  <2> QED
    BY <2>2, <2>3
<1> QED
  BY <1>4, <1>5, <1>6, <1>7

\* What one more datagram does.
LEMMA PutOn ==
    ASSUME NEW S, NEW s \in Seq(S), NEW m \in S
    PROVE  /\ CfgFree(s) /\ m.type # "CFG" => CfgFree(Append(s, m))
           /\ CfgFree(s) => OnlyLast(Append(s, m))
           /\ OnlyFirst(s) /\ (s = <<>> \/ m.type # "CFG") => OnlyFirst(Append(s, m))
<1>1. /\ Len(s) \in Nat /\ Len(Append(s, m)) = Len(s) + 1
      /\ Append(s, m)[Len(s) + 1] = m
      /\ \A i \in 1..Len(s) : Append(s, m)[i] = s[i]
  BY AppendElement
<1>2. \A i \in 1..Len(Append(s, m)) : i = Len(s) + 1 \/ i \in 1..Len(s)
  BY <1>1
<1>3. s = <<>> => Len(s) + 1 = 1
  BY <1>1
<1>4. CfgFree(s) /\ m.type # "CFG" => CfgFree(Append(s, m))
  BY <1>1, <1>2, Zenon DEF CfgFree
<1>5. CfgFree(s) => OnlyLast(Append(s, m))
  BY <1>1, <1>2, Zenon DEF CfgFree, OnlyLast
<1>6. OnlyFirst(s) /\ (s = <<>> \/ m.type # "CFG") => OnlyFirst(Append(s, m))
  BY <1>1, <1>2, <1>3, Zenon DEF OnlyFirst
<1> QED
  BY <1>4, <1>5, <1>6

\* No datagram is on its way that configures the board or says that it did;
\* or only one that was overtaken by the restart of the connection; or only
\* the last one, which carries what was checked.
NoneAhead == CfgFree(toHost) /\ CfgFree(Coming)
FirstAhead == OnlyFirst(toHost) /\ OnlyFirst(Coming) /\ (toHost = <<>> \/ CfgFree(Coming))
InForce == board = "up" => toBoard = <<>> /\ boardCfg = checked
LastAhead ==
    /\ OnlyLast(toHost) /\ OnlyLast(Coming)
    /\ CfgFree(toHost) \/ InForce
    /\ \A i \in 1..Len(Coming) : Coming[i].type = "CFG" => Coming[i].cfg = checked

\* How many datagrams are on their way.  One that was not sent for a restart
\* of the connection is missing.
Answered == rx.type \in {"RST", "CFG", "CMD"}
Room == IF pc = "read" /\ state # "RST" THEN Backlog + 1 ELSE Backlog
SizeInv ==
    /\ state # "RST" => do_read
    /\ ~do_read => toHost = <<>> /\ toBoard = <<>> /\ ~Answered
    /\ board = "down" => toBoard = <<>>
    /\ Len(toHost) + Len(Coming) <= Room

\* A moving command whose parameters were not changed since they were checked.
Vouched(m) == Moving(m) /\ ~m.raced
RaceInv == pc = "stepgen" /\ do_stepgen /\ ~raced => param = checked

\* What write sends in each state.
Sending == do_write /\ (pc = "write" \/ (pc = "stepgen" /\ ~do_stepgen))
CmdStates == {"GETCYCLETIME", "SETREPLYDELAY", "CFG", "TXRXREADY"}
TxInv ==
    Sending =>
        /\ state # "RST"
        /\ state = "RSTWAIT" => tx.type = "RST"
        /\ state = "CFGWAIT" => tx.type = "CFG" /\ tx.cfg = checked
        /\ state \in CmdStates => tx.type = "CMD"
        /\ pc = "write" /\ Vouched(tx) => tx.cfg = checked

OrderInv ==
    /\ state = "RSTWAIT" => FirstAhead
    /\ state \in CmdStates => NoneAhead
    /\ state = "CFGWAIT" => LastAhead
    /\ pc = "supervisor" /\ state = "RSTWAIT" /\ rx.type = "RST" => NoneAhead
    /\ pc = "supervisor" /\ state = "CFGWAIT" /\ rx.type = "CFG" => NoneAhead /\ InForce
    /\ Sending /\ state = "CFGWAIT" => NoneAhead

ConfigInv == board = "up" /\ state = "TXRXREADY" => boardCfg = checked

\* A moving command was computed with the configuration in force, and nothing
\* ahead of it changes that.
MovingInv ==
    board = "up" =>
        \A i \in 1..Len(toBoard) :
            Vouched(toBoard[i]) => /\ toBoard[i].cfg = boardCfg
                                  /\ \A j \in 1..(i - 1) : toBoard[j].type # "CFG"

\* A board that is down soon leaves the module without answers, and then
\* without a connection.
DownInv ==
    board = "down" =>
        /\ toHost # <<>> => downFor + Len(toHost) <= Backlog + 1
        /\ pc = "supervisor" /\ Answered => downFor <= Backlog + 1
        /\ state = "TXRXREADY" => IF pc = "supervisor" /\ rx.type = "error"
                                  THEN downFor <= Backlog + RxTimeout + 2
                                  ELSE downFor <= Backlog + silent + 1

LinkInv == SizeInv /\ TxInv /\ OrderInv /\ ConfigInv /\ MovingInv /\ DownInv

LEMMA LinkStart == Init => LinkInv
<1> SUFFICES ASSUME Init PROVE LinkInv
  OBVIOUS
<1>1. /\ pc = "read" /\ state = "RST" /\ toHost = <<>> /\ toBoard = <<>> /\ board = "up"
      /\ ~Answered
  BY DEF Init, Answered, Nothing
<1>2. Coming = <<>> /\ Len(toHost) = 0 /\ Len(toBoard) = 0 /\ Len(Coming) = 0
  BY <1>1 DEF Coming
<1>3. SizeInv
  BY <1>1, <1>2, SupervisorAssumption DEF SizeInv, Room
<1>4. TxInv /\ OrderInv /\ ConfigInv /\ DownInv
  BY <1>1 DEF TxInv, Sending, OrderInv, ConfigInv, DownInv, CmdStates
<1>5. MovingInv
  BY <1>2 DEF MovingInv
<1> QED
  BY <1>3, <1>4, <1>5 DEF LinkInv

\* Everything but write takes datagrams off the link, or turns the first one
\* on the way to the board into its answer.
NetStep ==
    \/ UNCHANGED <<toHost, Coming>>
    \/ toHost # <<>> /\ toHost' = Tail(toHost) /\ UNCHANGED Coming
    \/ Coming # <<>> /\ Coming' = Tail(Coming) /\ UNCHANGED toHost
    \/ Coming # <<>> /\ Coming' = Tail(Coming)
         /\ \E a \in Reply : a.type = Head(Coming).type /\ toHost' = Append(toHost, a)
    \/ Coming' = <<>> /\ UNCHANGED toHost

LEMMA NetTypes ==
    ASSUME TypeOK
    PROVE  /\ toHost \in Seq(Reply) /\ Coming \in Seq(Message) /\ toBoard \in Seq(Message)
           /\ Len(toHost) \in Nat /\ Len(Coming) \in Nat /\ Len(toBoard) \in Nat
  BY DEF TypeOK, Coming

LEMMA NetShrinks ==
    ASSUME TypeOK, NetStep
    PROVE  /\ toHost' \in Seq(Reply) /\ Coming' \in Seq(Message)
           /\ Len(toHost') \in Nat /\ Len(Coming') \in Nat
           /\ Len(toHost') + Len(Coming') <= Len(toHost) + Len(Coming)
<1>1. /\ toHost \in Seq(Reply) /\ Coming \in Seq(Message)
      /\ Len(toHost) \in Nat /\ Len(Coming) \in Nat
  BY NetTypes
<1>2. toHost # <<>> => Tail(toHost) \in Seq(Reply) /\ Len(Tail(toHost)) = Len(toHost) - 1
  BY <1>1, TailElement, Zenon
<1>3. Coming # <<>> => Tail(Coming) \in Seq(Message) /\ Len(Tail(Coming)) = Len(Coming) - 1
  BY <1>1, TailElement, Zenon
<1>4. \A a \in Reply : /\ Append(toHost, a) \in Seq(Reply)
                       /\ Len(Append(toHost, a)) = Len(toHost) + 1
  BY <1>1, AppendElement, Zenon
<1>5. <<>> \in Seq(Message) /\ Len(<<>>) = 0
  OBVIOUS
<1>6. toHost' \in Seq(Reply) /\ Coming' \in Seq(Message)
  BY <1>1, <1>2, <1>3, <1>4, <1>5, Zenon DEF NetStep
<1>7. Len(toHost') \in Nat /\ Len(Coming') \in Nat
  BY <1>6
<1>8. Len(toHost') + Len(Coming') <= Len(toHost) + Len(Coming)
  <2>1. CASE UNCHANGED <<toHost, Coming>> \/ (Coming' = <<>> /\ UNCHANGED toHost)
    BY <1>1, <1>5, <2>1
  <2>2. CASE toHost # <<>> /\ toHost' = Tail(toHost) /\ UNCHANGED Coming
    BY <1>1, <1>2, <2>2
  <2>3. CASE Coming # <<>> /\ Coming' = Tail(Coming) /\ UNCHANGED toHost
    BY <1>1, <1>3, <2>3
  <2>4. CASE Coming # <<>> /\ Coming' = Tail(Coming) /\ \E a \in Reply : toHost' = Append(toHost, a)
    BY <1>1, <1>3, <1>4, <2>4
  <2> QED
    BY <2>1, <2>2, <2>3, <2>4, Zenon DEF NetStep
<1> QED
  BY <1>6, <1>7, <1>8

LEMMA NetKeepsNone == ASSUME TypeOK, NetStep, NoneAhead PROVE NoneAhead'
<1>1. toHost \in Seq(Reply) /\ Coming \in Seq(Message) /\ CfgFree(toHost) /\ CfgFree(Coming)
  BY NetTypes DEF NoneAhead
<1>2. toHost # <<>> => CfgFree(Tail(toHost))
  BY <1>1, TakenFrom
<1>3. Coming # <<>> => CfgFree(Tail(Coming)) /\ Head(Coming).type # "CFG"
  BY <1>1, TakenFrom
<1>4. \A a \in Reply : a.type # "CFG" => CfgFree(Append(toHost, a))
  BY <1>1, PutOn
<1> QED
  BY <1>1, <1>2, <1>3, <1>4, EmptyIsFree, Zenon DEF NetStep, NoneAhead

LEMMA NetKeepsFirst == ASSUME TypeOK, NetStep, FirstAhead PROVE FirstAhead'
<1>1. /\ toHost \in Seq(Reply) /\ Coming \in Seq(Message)
      /\ OnlyFirst(toHost) /\ OnlyFirst(Coming) /\ (toHost = <<>> \/ CfgFree(Coming))
  BY NetTypes DEF FirstAhead
<1>2. toHost # <<>> => OnlyFirst(Tail(toHost))
  BY <1>1, TakenFrom, FreeIsEither, Zenon
<1>3. Coming # <<>> => CfgFree(Tail(Coming)) /\ OnlyFirst(Tail(Coming))
  BY <1>1, TakenFrom, FreeIsEither, Zenon
<1>4. Coming # <<>> /\ CfgFree(Coming) => Head(Coming).type # "CFG"
  BY <1>1, TakenFrom, Zenon
<1>5. \A a \in Reply : toHost = <<>> \/ a.type # "CFG" => OnlyFirst(Append(toHost, a))
  BY <1>1, PutOn, Zenon
<1>6. CASE toHost' = Tail(toHost) /\ toHost # <<>> /\ UNCHANGED Coming
  BY <1>1, <1>2, <1>6, Zenon DEF FirstAhead
<1>7. CASE Coming # <<>> /\ Coming' = Tail(Coming) /\ UNCHANGED toHost
  BY <1>1, <1>3, <1>7, Zenon DEF FirstAhead
<1>8. CASE Coming # <<>> /\ Coming' = Tail(Coming)
             /\ \E a \in Reply : a.type = Head(Coming).type /\ toHost' = Append(toHost, a)
  BY <1>1, <1>3, <1>4, <1>5, <1>8, Zenon DEF FirstAhead
<1> QED
  BY <1>1, <1>6, <1>7, <1>8, EmptyIsFree, Zenon DEF NetStep, FirstAhead

\* An answer that says "configured" is the last one, and so is its request.
LEMMA NetKeepsLast ==
    ASSUME TypeOK, NetStep, LastAhead, board = "down" => toBoard = <<>>, UNCHANGED checked
    PROVE  /\ OnlyLast(toHost') /\ OnlyLast(Coming')
           /\ \A i \in 1..Len(Coming') : Coming'[i].type = "CFG" => Coming'[i].cfg = checked'
<1>1. /\ toHost \in Seq(Reply) /\ Coming \in Seq(Message) /\ Len(Coming) \in Nat
      /\ OnlyLast(toHost) /\ OnlyLast(Coming)
      /\ \A i \in 1..Len(Coming) : Coming[i].type = "CFG" => Coming[i].cfg = checked
  BY NetTypes DEF LastAhead
<1>2. Coming # <<>> => CfgFree(toHost)
  BY DEF TypeOK, LastAhead, InForce, Coming
<1>3. toHost # <<>> => OnlyLast(Tail(toHost))
  BY <1>1, TakenFrom, Zenon
<1>4. Coming # <<>> => OnlyLast(Tail(Coming))
  BY <1>1, TakenFrom, Zenon
<1>5. Coming # <<>> => \A a \in Reply : OnlyLast(Append(toHost, a))
  BY <1>1, <1>2, PutOn, Zenon
<1>6. ASSUME Coming # <<>>
      PROVE  \A i \in 1..Len(Tail(Coming)) :
                Tail(Coming)[i].type = "CFG" => Tail(Coming)[i].cfg = checked
  <2>1. /\ Len(Tail(Coming)) = Len(Coming) - 1
        /\ \A i \in 1..Len(Tail(Coming)) : Tail(Coming)[i] = Coming[i + 1]
    BY <1>1, <1>6, TailElement
  <2>2. \A i \in 1..Len(Tail(Coming)) : i + 1 \in 1..Len(Coming)
    BY <1>1, <2>1
  <2> QED
    BY <1>1, <2>1, <2>2, Zenon
<1>7. OnlyLast(toHost')
  BY <1>1, <1>3, <1>5, Zenon DEF NetStep
<1>8. OnlyLast(Coming')
  BY <1>1, <1>4, EmptyIsFree, Zenon DEF NetStep
<1>9. \A i \in 1..Len(Coming') : Coming'[i].type = "CFG" => Coming'[i].cfg = checked
  <2>1. CASE Coming' = Coming
    BY <1>1, <2>1
  <2>2. CASE Coming # <<>> /\ Coming' = Tail(Coming)
    BY <1>6, <2>2
  <2>3. CASE Coming' = <<>>
    BY <2>3
  <2> QED
    BY <2>1, <2>2, <2>3 DEF NetStep
<1> QED
  BY <1>7, <1>8, <1>9

\* A step of the link alone keeps what is said of the datagrams, if no answer
\* "configured" is left without the configuration in force.
LEMMA LinkNet ==
    ASSUME TypeOK, LinkInv, NetStep, UNCHANGED <<pc, host, rx>>,
           board' = "down" => toBoard' = <<>>, toBoard = <<>> => toBoard' = <<>>,
           state = "CFGWAIT" => CfgFree(toHost') \/ InForce',
           state = "CFGWAIT" /\ pc = "supervisor" /\ rx.type = "CFG" => InForce'
    PROVE  SizeInv' /\ TxInv' /\ OrderInv'
<1>1. /\ UNCHANGED <<pc, rx, state, do_read, do_write, do_stepgen, tx, checked>>
  BY DEF host, flags
<1>2. SizeInv /\ TxInv /\ OrderInv
  BY DEF LinkInv
<1>3. SizeInv'
  <2>1. Len(toHost') + Len(Coming') <= Room'
    <3>1. Room' = Room /\ Room \in Int
      BY <1>1, SupervisorAssumption DEF Room
    <3>2. Len(toHost) + Len(Coming) <= Room
      BY <1>2 DEF SizeInv
    <3>3. Len(toHost') + Len(Coming') <= Len(toHost) + Len(Coming)
      BY NetShrinks
    <3>4. /\ Len(toHost') \in Nat /\ Len(Coming') \in Nat
          /\ Len(toHost) \in Nat /\ Len(Coming) \in Nat
      BY NetShrinks, NetTypes
    <3> QED
      BY <3>1, <3>2, <3>3, <3>4
  <2>2. ~do_read => toHost' = <<>>
    BY <1>2 DEF SizeInv, NetStep, Coming
  <2> QED
    BY <1>1, <1>2, <2>1, <2>2, Zenon DEF SizeInv, Answered
<1>4. TxInv'
  BY <1>1, <1>2, Zenon DEF TxInv, Sending
<1>5. NoneAhead => NoneAhead'
  BY NetKeepsNone
<1>6. FirstAhead => FirstAhead'
  BY NetKeepsFirst
<1>7. state = "CFGWAIT" /\ LastAhead => LastAhead'
  BY <1>1, <1>2, NetKeepsLast, Zenon DEF LastAhead, SizeInv
<1>8. OrderInv'
  BY <1>1, <1>2, <1>5, <1>6, <1>7, Zenon DEF OrderInv, Sending
<1> QED
  BY <1>3, <1>4, <1>8

\* Nothing the link invariant reads has changed.
LEMMA LinkFrame ==
    ASSUME LinkInv,
           UNCHANGED <<pc, state, flags, checked, tx, rx, toBoard, toHost, board, downFor,
                       boardCfg, silent>>
    PROVE  LinkInv'
<1>1. UNCHANGED <<do_read, do_write, do_stepgen, Coming>>
  BY DEF flags, Coming
<1>2. SizeInv' /\ TxInv' /\ ConfigInv' /\ DownInv'
  BY <1>1 DEF LinkInv, SizeInv, Answered, Room, TxInv, Sending, ConfigInv, DownInv
<1>3. OrderInv'
  BY <1>1, Zenon
     DEF LinkInv, OrderInv, FirstAhead, NoneAhead, LastAhead, InForce, Sending, CfgFree,
         OnlyFirst, OnlyLast
<1>4. MovingInv'
  BY Zenon DEF LinkInv, MovingInv, Vouched, Moving
<1> QED
  BY <1>2, <1>3, <1>4 DEF LinkInv

-----------------------------------------------------------------------------
(* The board, the network and the user on the link                         *)

LEMMA Requested ==
    ASSUME TypeOK, NEW t, Request(t)
    PROVE  /\ board = "up" /\ toBoard # <<>> /\ Coming = toBoard /\ toBoard \in Seq(Message)
           /\ Head(toBoard).type = t /\ toBoard' = Tail(toBoard)
           /\ UNCHANGED <<pc, host, rx, silent, downFor>>
           /\ UNCHANGED <<state, checked>>
  BY NetTypes DEF Request, Coming, host

\* The answer takes the place of the request.
LEMMA AnsweredStep ==
    ASSUME TypeOK, NEW a \in Reply, Request(a.type), Send(a), board' = board
    PROVE  /\ NetStep /\ toHost' \in {toHost, Append(toHost, a)}
<1>1. Coming' = Tail(Coming) /\ Coming # <<>> /\ Head(Coming).type = a.type
  BY Requested DEF Coming
<1>2. toHost' \in {toHost, Append(toHost, a)}
  BY DEF Send
<1> QED
  BY <1>1, <1>2, Zenon DEF NetStep

LEMMA MovingTail ==
    ASSUME TypeOK, MovingInv, board = "up", toBoard # <<>>, toBoard' = Tail(toBoard),
           boardCfg' = boardCfg \/ Head(toBoard).type = "CFG"
    PROVE  MovingInv'
<1>1. /\ Head(toBoard) = toBoard[1] /\ Len(toBoard) \in Nat /\ Len(toBoard) > 0
      /\ Len(toBoard') = Len(toBoard) - 1
      /\ \A i \in 1..Len(toBoard') : toBoard'[i] = toBoard[i + 1]
  BY NetTypes, TailElement
<1>2. SUFFICES ASSUME NEW i \in 1..Len(toBoard'), Vouched(toBoard'[i])
               PROVE  /\ toBoard'[i].cfg = boardCfg'
                      /\ \A j \in 1..(i - 1) : toBoard'[j].type # "CFG"
  BY DEF MovingInv, Vouched, Moving
<1>3. i + 1 \in 1..Len(toBoard) /\ 1 \in 1..((i + 1) - 1)
  BY <1>1
<1>4. Vouched(toBoard[i + 1])
  BY <1>1, <1>2 DEF Vouched, Moving
<1>5. /\ toBoard[i + 1].cfg = boardCfg
      /\ \A j \in 1..((i + 1) - 1) : toBoard[j].type # "CFG"
  BY <1>3, <1>4, Zenon DEF MovingInv
<1>6. boardCfg' = boardCfg
  BY <1>1, <1>3, <1>5, Zenon
<1>7. ASSUME NEW j \in 1..(i - 1) PROVE toBoard'[j].type # "CFG"
  <2>1. j \in 1..Len(toBoard') /\ j + 1 \in 1..((i + 1) - 1)
    BY <1>1, <1>2, <1>7
  <2> QED
    BY <1>1, <1>5, <2>1, Zenon
<1> QED
  BY <1>1, <1>2, <1>5, <1>6, <1>7, Zenon

\* While the board is up, nothing is left to take once the configuration that
\* was answered is in force.
LEMMA PendingIsFree ==
    ASSUME LinkInv, board = "up", toBoard # <<>>
    PROVE  /\ state = "CFGWAIT" => CfgFree(toHost)
           /\ ~(state = "CFGWAIT" /\ pc = "supervisor" /\ rx.type = "CFG")
  BY DEF LinkInv, OrderInv, LastAhead, InForce

LEMMA FreeAnswer ==
    ASSUME TypeOK, NEW a \in Reply, a.type # "CFG", toHost' \in {toHost, Append(toHost, a)},
           CfgFree(toHost)
    PROVE  CfgFree(toHost')
  BY NetTypes, PutOn, Zenon

LEMMA LinkRst == ASSUME TypeOK, LinkInv, BoardRst PROVE LinkInv'
<1>1. Request("RST") /\ Send(Answer("RST", 0)) /\ board' = board /\ boardCfg' = boardCfg
  BY DEF BoardRst
<1>2. Answer("RST", 0) \in Reply /\ Answer("RST", 0).type = "RST"
  BY DEF Answer, Reply
<1>3. NetStep /\ toHost' \in {toHost, Append(toHost, Answer("RST", 0))}
  BY <1>1, <1>2, AnsweredStep
<1>4. /\ board = "up" /\ toBoard # <<>> /\ toBoard' = Tail(toBoard)
      /\ UNCHANGED <<pc, host, rx, silent, downFor, state, checked>>
  BY <1>1, Requested
<1>5. state = "CFGWAIT" => CfgFree(toHost')
  BY <1>2, <1>3, <1>4, PendingIsFree, FreeAnswer
<1>6. SizeInv' /\ TxInv' /\ OrderInv'
  BY <1>1, <1>3, <1>4, <1>5, PendingIsFree, LinkNet
<1>7. MovingInv'
  BY <1>1, <1>4, MovingTail DEF LinkInv
<1>8. ConfigInv' /\ DownInv'
  BY <1>1, <1>4 DEF LinkInv, ConfigInv, DownInv
<1> QED
  BY <1>6, <1>7, <1>8 DEF LinkInv

LEMMA LinkCfg == ASSUME TypeOK, LinkInv, BoardCfg PROVE LinkInv'
<1>1. /\ Request("CFG") /\ Send(Answer("CFG", 0)) /\ board' = board
      /\ boardCfg' = Head(toBoard).cfg
  BY DEF BoardCfg
<1>2. Answer("CFG", 0) \in Reply /\ Answer("CFG", 0).type = "CFG"
  BY DEF Answer, Reply
<1>3. NetStep
  BY <1>1, <1>2, AnsweredStep
<1>4. /\ board = "up" /\ toBoard # <<>> /\ toBoard' = Tail(toBoard) /\ Head(toBoard).type = "CFG"
      /\ Coming = toBoard /\ toBoard \in Seq(Message)
      /\ UNCHANGED <<pc, host, rx, silent, downFor, state, checked>>
  BY <1>1, Requested
<1>5. ASSUME state = "CFGWAIT" PROVE InForce'
  <2>1. LastAhead
    BY <1>5 DEF LinkInv, OrderInv
  <2>2. toBoard' = <<>>
    BY <1>4, <2>1, TakenFrom DEF LastAhead
  <2>3. Head(toBoard) = toBoard[1] /\ 1 \in 1..Len(toBoard)
    BY <1>4, TailElement
  <2>4. Head(toBoard).cfg = checked
    BY <1>4, <2>1, <2>3, Zenon DEF LastAhead
  <2> QED
    BY <1>1, <1>4, <2>2, <2>4 DEF InForce
<1>6. SizeInv' /\ TxInv' /\ OrderInv'
  BY <1>1, <1>3, <1>4, <1>5, LinkNet
<1>7. MovingInv'
  BY <1>4, MovingTail DEF LinkInv
<1>8. state # "TXRXREADY"
  <2>1. NoneAhead => Head(toBoard).type # "CFG"
    BY <1>4, TakenFrom DEF NoneAhead
  <2> QED
    BY <1>4, <2>1 DEF LinkInv, OrderInv, CmdStates
<1>9. ConfigInv' /\ DownInv'
  BY <1>1, <1>4, <1>8 DEF ConfigInv, DownInv
<1> QED
  BY <1>6, <1>7, <1>9 DEF LinkInv

LEMMA LinkCmd == ASSUME TypeOK, LinkInv, BoardCmd PROVE LinkInv'
<1>1. Request("CMD") /\ boardCfg' = boardCfg
  BY DEF BoardCmd
<1>2. /\ board = "up" /\ toBoard # <<>> /\ toBoard' = Tail(toBoard)
      /\ UNCHANGED <<pc, host, rx, silent, downFor, state, checked>>
  BY <1>1, Requested
<1>3. CASE board' = "hung" /\ UNCHANGED toHost
  <2>1. NetStep
    BY <1>3 DEF NetStep, Coming
  <2>2. state = "CFGWAIT" => InForce'
    BY <1>3 DEF InForce
  <2>3. SizeInv' /\ TxInv' /\ OrderInv'
    BY <1>2, <1>3, <2>1, <2>2, LinkNet
  <2> QED
    BY <1>3, <2>3 DEF LinkInv, ConfigInv, MovingInv, DownInv
<1>4. CASE board' = board /\ \E c \in CycleTime \cup {0} : Send(Answer("CMD", c))
  <2>1. PICK c \in CycleTime \cup {0} : Send(Answer("CMD", c))
    BY <1>4
  <2>2. Answer("CMD", c) \in Reply /\ Answer("CMD", c).type = "CMD"
    BY <2>1, SupervisorAssumption DEF Answer, Reply
  <2>3. NetStep /\ toHost' \in {toHost, Append(toHost, Answer("CMD", c))}
    BY <1>1, <1>4, <2>1, <2>2, AnsweredStep
  <2>4. state = "CFGWAIT" => CfgFree(toHost')
    BY <1>2, <2>2, <2>3, PendingIsFree, FreeAnswer
  <2>5. SizeInv' /\ TxInv' /\ OrderInv'
    BY <1>2, <1>4, <2>3, <2>4, PendingIsFree, LinkNet
  <2>6. MovingInv'
    BY <1>1, <1>2, MovingTail DEF LinkInv
  <2>7. ConfigInv' /\ DownInv'
    BY <1>1, <1>2, <1>4 DEF LinkInv, ConfigInv, DownInv
  <2> QED
    BY <2>5, <2>6, <2>7 DEF LinkInv
<1> QED
  BY <1>3, <1>4 DEF BoardCmd

LEMMA LinkLose == ASSUME TypeOK, LinkInv, Lose PROVE LinkInv'
<1>1. UNCHANGED <<pc, host, rx, board, downFor, boardCfg, silent, state, checked>>
  BY DEF Lose, firmware, host
<1>2. \/ toBoard # <<>> /\ toBoard' = Tail(toBoard) /\ UNCHANGED toHost
      \/ toHost # <<>> /\ toHost' = Tail(toHost) /\ UNCHANGED toBoard
  BY DEF Lose
<1>3. NetStep
  BY <1>1, <1>2 DEF NetStep, Coming
<1>4. InForce => InForce'
  BY <1>1, <1>2 DEF InForce
<1>5. CfgFree(toHost) => CfgFree(toHost')
  BY <1>2, NetTypes, TakenFrom
<1>6. SizeInv' /\ TxInv' /\ OrderInv'
  <2>1. state = "CFGWAIT" => CfgFree(toHost') \/ InForce'
    BY <1>4, <1>5 DEF LinkInv, OrderInv, LastAhead
  <2>2. state = "CFGWAIT" /\ pc = "supervisor" /\ rx.type = "CFG" => InForce'
    BY <1>4 DEF LinkInv, OrderInv
  <2>3. board' = "down" => toBoard' = <<>>
    BY <1>1, <1>2 DEF LinkInv, SizeInv
  <2> QED
    BY <1>1, <1>2, <1>3, <2>1, <2>2, <2>3, LinkNet
<1>7. MovingInv'
  <2>1. CASE board = "up" /\ toBoard # <<>> /\ toBoard' = Tail(toBoard)
    BY <1>1, <2>1, MovingTail DEF LinkInv
  <2>2. CASE UNCHANGED toBoard
    BY <1>1, <2>2, Zenon DEF LinkInv, MovingInv, Vouched, Moving
  <2>3. CASE board # "up"
    BY <1>1, <2>3 DEF MovingInv
  <2> QED
    BY <1>2, <2>1, <2>2, <2>3
<1>8. DownInv'
  <2>1. toHost # <<>> => Len(Tail(toHost)) <= Len(toHost)
    BY NetTypes, TailElement
  <2>2. toHost' # <<>> => toHost # <<>> /\ Len(toHost') <= Len(toHost) /\ Len(toHost') \in Nat
    <3>1. Len(toHost') \in Nat
      BY <1>3, NetShrinks
    <3>2. Len(toHost) \in Nat
      BY NetTypes
    <3> QED
      BY <1>2, <2>1, <3>1, <3>2
  <2>3. downFor \in Nat /\ Backlog \in Nat /\ Len(toHost) \in Nat
    BY NetTypes, SupervisorAssumption DEF TypeOK
  <2>4. board' = "down" /\ toHost' # <<>> => downFor' + Len(toHost') <= Backlog + 1
    BY <1>1, <2>2, <2>3 DEF LinkInv, DownInv
  <2> QED
    BY <1>1, <2>4 DEF LinkInv, DownInv, Answered
<1> QED
  BY <1>1, <1>6, <1>7, <1>8 DEF LinkInv, ConfigInv

\* A restart throws away what the board had not taken yet.
LEMMA LinkReboot == ASSUME TypeOK, LinkInv, Reboot PROVE LinkInv'
<1>1. /\ board' = "down" /\ downFor' = 0 /\ toBoard' = <<>>
      /\ UNCHANGED <<pc, host, rx, toHost, silent, state>>
  BY DEF Reboot, host
<1>2. NetStep
  BY <1>1 DEF NetStep, Coming
<1>3. InForce'
  BY <1>1 DEF InForce
<1>4. SizeInv' /\ TxInv' /\ OrderInv'
  BY <1>1, <1>2, <1>3, LinkNet
<1>5. DownInv'
  <2>1. Len(toHost) <= Backlog + 1
    <3>1. Len(toHost) + Len(Coming) <= Room
      BY DEF LinkInv, SizeInv
    <3> QED
      BY <3>1, NetTypes, SupervisorAssumption DEF Room
  <2>2. silent \in Nat /\ Backlog \in Nat /\ RxTimeout \in Nat /\ Len(toHost) \in Nat
    BY NetTypes, SupervisorAssumption DEF TypeOK
  <2> QED
    BY <1>1, <2>1, <2>2 DEF DownInv
<1> QED
  BY <1>1, <1>4, <1>5 DEF LinkInv, ConfigInv, MovingInv

\* The board comes back to a module that has noticed.
LEMMA Noticed ==
    ASSUME Timely, TypeOK, LinkInv, board = "down", downFor >= RebootCycles
    PROVE  /\ toHost = <<>> /\ state # "TXRXREADY"
           /\ ~(pc = "supervisor" /\ rx.type = "CFG")
<1>1. /\ downFor \in Nat /\ silent \in Nat /\ silent <= RxTimeout + 1 /\ Len(toHost) \in Nat
      /\ Backlog \in Nat /\ RxTimeout \in Nat /\ RebootCycles \in Nat
      /\ downFor > Backlog + RxTimeout + 2
  BY NetTypes, SupervisorAssumption DEF TypeOK, Timely
<1>2. DownInv
  BY DEF LinkInv
<1>3. toHost = <<>>
  BY <1>1, <1>2 DEF DownInv
<1>4. ~(pc = "supervisor" /\ Answered)
  BY <1>1, <1>2 DEF DownInv
<1>5. state # "TXRXREADY"
  BY <1>1, <1>2 DEF DownInv
<1> QED
  BY <1>3, <1>4, <1>5 DEF Answered

LEMMA LinkComeUp == ASSUME Timely, TypeOK, LinkInv, ComeUp PROVE LinkInv'
<1>1. /\ board = "down" /\ downFor >= RebootCycles /\ board' = "up"
      /\ UNCHANGED <<pc, host, rx, toHost, toBoard, silent, state>>
  BY DEF ComeUp, net, host
<1>2. toHost = <<>> /\ state # "TXRXREADY" /\ ~(pc = "supervisor" /\ rx.type = "CFG")
  BY <1>1, Noticed
<1>3. toBoard = <<>>
  BY <1>1 DEF LinkInv, SizeInv
<1>4. NetStep
  BY <1>1 DEF NetStep, Coming
<1>5. CfgFree(toHost')
  BY <1>1, <1>2, EmptyIsFree
<1>6. SizeInv' /\ TxInv' /\ OrderInv'
  BY <1>1, <1>2, <1>3, <1>4, <1>5, LinkNet
<1>7. ConfigInv' /\ MovingInv' /\ DownInv'
  BY <1>1, <1>2, <1>3 DEF ConfigInv, MovingInv, DownInv
<1> QED
  BY <1>6, <1>7 DEF LinkInv

LEMMA LinkEnvironment ==
    ASSUME Timely, TypeOK, LinkInv,
           SetParam \/ Board \/ BoardTimer \/ Reboot \/ ComeUp \/ Lose \/ CalmDown
    PROVE  LinkInv'
<1>1. CASE SetParam \/ BoardTimer \/ CalmDown
  BY <1>1, LinkFrame DEF SetParam, BoardTimer, CalmDown, host, flags, net, firmware
<1> QED
  BY <1>1, LinkRst, LinkCfg, LinkCmd, LinkReboot, LinkComeUp, LinkLose DEF Board

-----------------------------------------------------------------------------
(* The servo thread on the link                                            *)

LEMMA LinkRead == ASSUME IInv, LinkInv, read PROVE LinkInv'
<1>1. /\ pc = "read" /\ pc' = "supervisor"
      /\ UNCHANGED <<state, do_read, do_write, do_stepgen, checked, tx, toBoard, board, boardCfg,
                     Coming>>
      /\ board = "up" => Len(toBoard) <= Backlog
      /\ downFor' = downFor \/ downFor' = downFor + 1
  BY DEF read, GoOn, host, flags, Coming, PeriodPasses
<1>2. /\ TypeOK /\ SizeInv /\ OrderInv /\ ConfigInv /\ MovingInv /\ DownInv
      /\ state = "TXRXREADY" => silent <= RxTimeout
  BY <1>1 DEF IInv, HostInv, SilenceInv, LinkInv
<1>3. /\ toHost \in Seq(Reply) /\ Coming \in Seq(Message)
      /\ Len(toHost) \in Nat /\ Len(Coming) \in Nat /\ Len(toBoard) \in Nat
      /\ downFor \in Nat /\ silent \in Nat /\ Backlog \in Nat /\ RxTimeout \in Nat
  BY <1>2, NetTypes, SupervisorAssumption DEF TypeOK
<1>4. \/ ~do_read /\ UNCHANGED <<rx, toHost, silent>>
      \/ do_read /\ Receive
      \/ do_read /\ toHost = <<>> /\ UNCHANGED toHost /\ TimeOut
      \/ do_read /\ toHost = <<>> /\ UNCHANGED toHost /\ RecvError
  BY DEF read, TimeOut, RecvError, Unanswered
<1>5. Receive => /\ toHost # <<>> /\ rx' = Head(toHost) /\ toHost' = Tail(toHost) /\ silent' = 0
                 /\ Len(toHost') = Len(toHost) - 1
  BY <1>3, TailElement DEF Receive
<1>6. NetStep
  BY <1>1, <1>4, <1>5, Zenon DEF NetStep
<1>7. ~Receive /\ do_read => ~Answered'
  BY <1>4 DEF TimeOut, RecvError, Answer, Answered
<1>8. SizeInv'
  <2>1. ~do_read => toHost = <<>> /\ toBoard = <<>> /\ ~Answered
    BY <1>2 DEF SizeInv
  <2>2. Len(Coming) <= Backlog \/ Receive
    <3>1. CASE board = "up"
      BY <1>1, <3>1 DEF Coming
    <3>2. CASE board # "up"
      <4>1. Coming = <<>>
        BY <1>2, <3>2 DEF SizeInv, TypeOK, Coming
      <4> QED
        BY <1>3, <4>1
    <3> QED
      BY <3>1, <3>2
  <2>3. Len(toHost') + Len(Coming') <= Backlog
    <3>1. CASE Receive
      <4>1. Len(toHost) + Len(Coming) <= Backlog + 1
        BY <1>2, <1>3 DEF SizeInv, Room
      <4> QED
        BY <1>1, <1>3, <1>5, <3>1, <4>1
    <3>2. CASE ~Receive
      <4>1. toHost' = <<>>
        BY <1>4, <2>1, <3>2
      <4> QED
        BY <1>1, <1>3, <2>2, <3>2, <4>1
    <3> QED
      BY <3>1, <3>2
  <2> QED
    BY <1>1, <1>2, <1>4, <2>1, <2>3 DEF SizeInv, Room, Answered
<1>9. OrderInv'
  <2>1. NoneAhead => NoneAhead'
    BY <1>2, <1>6, NetKeepsNone
  <2>2. FirstAhead => FirstAhead'
    BY <1>2, <1>6, NetKeepsFirst
  <2>3. FirstAhead /\ Receive => NoneAhead'
    BY <1>1, <1>3, <1>5, TakenFrom DEF FirstAhead, NoneAhead
  <2>4. InForce => InForce'
    BY <1>1 DEF InForce
  <2>5. LastAhead => LastAhead'
    <3>1. CfgFree(toHost) => CfgFree(toHost')
      BY <1>3, <1>4, <1>5, TakenFrom DEF TimeOut, RecvError
    <3> QED
      BY <1>1, <1>2, <1>6, <2>4, <3>1, NetKeepsLast DEF LastAhead, SizeInv
  <2>6. ASSUME LastAhead, Receive, rx'.type = "CFG" PROVE NoneAhead' /\ InForce'
    <3>1. toHost' = <<>> /\ ~CfgFree(toHost)
      BY <1>3, <1>5, <2>6, TakenFrom DEF LastAhead
    <3>2. InForce
      BY <2>6, <3>1 DEF LastAhead
    <3>3. Coming = <<>>
      BY <1>2, <3>2 DEF InForce, SizeInv, TypeOK, Coming
    <3> QED
      BY <1>1, <2>4, <3>1, <3>2, <3>3, EmptyIsFree DEF NoneAhead
  <2>7. state \in {"RSTWAIT", "CFGWAIT"} => do_read
    BY <1>2 DEF SizeInv
  <2>8. state \in {"RSTWAIT", "CFGWAIT"} /\ rx'.type \in {"RST", "CFG"} => Receive
    BY <1>7, <2>7 DEF Answered
  <2> QED
    BY <1>1, <1>2, <2>1, <2>2, <2>3, <2>5, <2>6, <2>8 DEF OrderInv, Sending
<1>10. DownInv'
  <2>1. CASE Receive
    BY <1>1, <1>2, <1>3, <1>5, <2>1 DEF DownInv
  <2>2. CASE ~Receive
    <3>1. toHost' = <<>> /\ ~Answered'
      BY <1>2, <1>4, <1>7, <2>2 DEF SizeInv, Answered
    <3>2. ASSUME board = "down", state = "TXRXREADY"
          PROVE  IF rx'.type = "error" THEN downFor' <= Backlog + RxTimeout + 2
                 ELSE downFor' <= Backlog + silent' + 1
      <4>1. downFor <= Backlog + silent + 1 /\ silent <= RxTimeout /\ do_read
        BY <1>1, <1>2, <3>2 DEF DownInv, SizeInv
      <4> QED
        BY <1>1, <1>3, <1>4, <2>2, <4>1 DEF TimeOut, RecvError, Answer
    <3> QED
      BY <1>1, <3>1, <3>2 DEF DownInv
  <2> QED
    BY <2>1, <2>2
<1>11. TxInv' /\ ConfigInv'
  BY <1>1, <1>2 DEF TxInv, Sending, ConfigInv
<1>12. MovingInv'
  BY <1>1, <1>2, Zenon DEF MovingInv, Vouched, Moving
<1> QED
  BY <1>8, <1>9, <1>10, <1>11, <1>12 DEF LinkInv

LEMMA LinkWrite == ASSUME IInv, LinkInv, write PROVE LinkInv'
<1>1. /\ pc = "write" /\ pc' = "read"
      /\ UNCHANGED <<state, do_read, do_write, do_stepgen, ready, checked, tx, rx, toHost, board,
                     boardCfg, downFor, silent>>
      /\ \/ UNCHANGED toBoard
         \/ do_write /\ board # "down" /\ toBoard' = Append(toBoard, tx)
  BY DEF write, host, flags, firmware
<1>2. /\ TypeOK /\ SizeInv /\ TxInv /\ OrderInv /\ ConfigInv /\ MovingInv /\ DownInv
      /\ MovesOnlyWhenReady /\ OnlineInv
  BY DEF IInv, HostInv, LinkInv
<1>3. /\ toHost \in Seq(Reply) /\ Coming \in Seq(Message) /\ toBoard \in Seq(Message)
      /\ Len(toHost) \in Nat /\ Len(Coming) \in Nat /\ Len(toBoard) \in Nat
      /\ tx \in Message /\ Backlog \in Nat
  BY <1>2, NetTypes, SupervisorAssumption DEF TypeOK
<1>4. \/ UNCHANGED Coming
      \/ Sending /\ Coming' = Append(Coming, tx)
  BY <1>1 DEF Coming, Sending
<1>5. SizeInv'
  <2>1. Len(toHost) + Len(Coming) <= Backlog
    BY <1>1, <1>2 DEF SizeInv, Room
  <2>2. Len(Append(Coming, tx)) = Len(Coming) + 1
    BY <1>3, AppendElement
  <2>3. Sending => state # "RST" /\ do_read
    BY <1>2 DEF TxInv, SizeInv
  <2>4. Len(toHost') + Len(Coming') <= Room'
    <3>1. CASE UNCHANGED Coming
      BY <1>1, <1>3, <2>1, <3>1 DEF Room
    <3>2. CASE Sending /\ Coming' = Append(Coming, tx)
      BY <1>1, <1>3, <2>1, <2>2, <2>3, <3>2 DEF Room
    <3> QED
      BY <1>4, <3>1, <3>2
  <2>5. do_write => do_read
    BY <1>1, <2>3 DEF Sending
  <2> QED
    BY <1>1, <1>2, <2>4, <2>5 DEF SizeInv, Answered
<1>6. OrderInv'
  <2>1. CASE UNCHANGED Coming
    <3>1. NoneAhead' = NoneAhead /\ FirstAhead' = FirstAhead
      BY <1>1, <2>1, Zenon DEF NoneAhead, FirstAhead, CfgFree, OnlyFirst
    <3>2. state = "CFGWAIT" => LastAhead'
      <4>1. ASSUME state = "CFGWAIT" PROVE CfgFree(toHost) \/ InForce'
        <5>1. CASE UNCHANGED toBoard
          BY <1>1, <1>2, <4>1, <5>1 DEF OrderInv, LastAhead, InForce
        <5>2. CASE Sending
          BY <1>2, <4>1, <5>2 DEF OrderInv, NoneAhead
        <5> QED
          BY <1>1, <5>1, <5>2 DEF Sending
      <4> QED
        BY <1>1, <1>2, <2>1, <4>1, Zenon DEF OrderInv, LastAhead, CfgFree, OnlyLast
    <3> QED
      BY <1>1, <1>2, <3>1, <3>2 DEF OrderInv, Sending
  <2>2. CASE Sending /\ Coming' = Append(Coming, tx)
    <3>1. ASSUME state = "RSTWAIT" PROVE FirstAhead'
      <4>1. tx.type # "CFG"
        BY <1>2, <2>2, <3>1 DEF TxInv
      <4>2. FirstAhead
        BY <1>2, <3>1 DEF OrderInv
      <4> QED
        BY <1>1, <1>3, <2>2, <4>1, <4>2, PutOn DEF FirstAhead
    <3>2. ASSUME state \in CmdStates PROVE NoneAhead'
      <4>1. tx.type # "CFG"
        BY <1>2, <2>2, <3>2 DEF TxInv
      <4>2. NoneAhead
        BY <1>2, <3>2 DEF OrderInv
      <4> QED
        BY <1>1, <1>3, <2>2, <4>1, <4>2, PutOn DEF NoneAhead
    <3>3. ASSUME state = "CFGWAIT" PROVE LastAhead'
      <4>1. CfgFree(toHost) /\ CfgFree(Coming)
        BY <1>2, <2>2, <3>3 DEF OrderInv, NoneAhead
      <4>2. OnlyLast(toHost) /\ OnlyLast(Append(Coming, tx))
        BY <1>3, <4>1, PutOn, FreeIsEither
      <4>3. tx.cfg = checked
        BY <1>2, <2>2, <3>3 DEF TxInv
      <4>4. ASSUME NEW i \in 1..Len(Append(Coming, tx)), Append(Coming, tx)[i].type = "CFG"
            PROVE  Append(Coming, tx)[i].cfg = checked
        <5>1. /\ Len(Append(Coming, tx)) = Len(Coming) + 1
              /\ Append(Coming, tx)[Len(Coming) + 1] = tx
          BY <1>3, AppendElement
        <5>2. i = Len(Append(Coming, tx))
          BY <4>2, <4>4, Zenon DEF OnlyLast
        <5> QED
          BY <4>3, <5>1, <5>2, Zenon
      <4> QED
        BY <1>1, <2>2, <4>1, <4>2, <4>4, Zenon DEF LastAhead
    <3> QED
      BY <1>1, <3>1, <3>2, <3>3 DEF OrderInv, Sending
  <2> QED
    BY <1>4, <2>1, <2>2
<1>7. MovingInv'
  <2>1. CASE UNCHANGED toBoard
    BY <1>1, <1>2, <2>1, Zenon DEF MovingInv, Vouched, Moving
  <2>2. CASE board # "up"
    BY <1>1, <2>2 DEF MovingInv
  <2>3. CASE board = "up" /\ do_write /\ toBoard' = Append(toBoard, tx)
    <3>1. /\ Len(toBoard') = Len(toBoard) + 1 /\ toBoard'[Len(toBoard) + 1] = tx
          /\ \A i \in 1..Len(toBoard) : toBoard'[i] = toBoard[i]
      BY <1>3, <2>3, AppendElement
    <3>2. SUFFICES ASSUME NEW i \in 1..Len(toBoard'), Vouched(toBoard'[i])
                   PROVE  /\ toBoard'[i].cfg = boardCfg'
                          /\ \A j \in 1..(i - 1) : toBoard'[j].type # "CFG"
      BY DEF MovingInv, Vouched, Moving
    <3>3. \A j \in 1..(i - 1) : j \in 1..Len(toBoard)
      BY <1>3, <3>1, <3>2
    <3>4. CASE i \in 1..Len(toBoard)
      <4>1. Vouched(toBoard[i])
        BY <3>1, <3>2, <3>4 DEF Vouched, Moving
      <4>2. toBoard[i].cfg = boardCfg /\ \A j \in 1..(i - 1) : toBoard[j].type # "CFG"
        BY <1>2, <2>3, <3>4, <4>1, Zenon DEF MovingInv
      <4> QED
        BY <1>1, <3>1, <3>3, <3>4, <4>2, Zenon
    <3>5. CASE i = Len(toBoard) + 1
      <4>1. Vouched(tx)
        BY <3>1, <3>2, <3>5 DEF Vouched, Moving
      <4>2. state = "TXRXREADY" /\ tx.cfg = checked
        BY <1>1, <1>2, <2>3, <4>1 DEF MovesOnlyWhenReady, OnlineInv, TxInv, Sending, Vouched, Moving
      <4>3. boardCfg = checked /\ CfgFree(toBoard)
        BY <1>2, <2>3, <4>2 DEF ConfigInv, OrderInv, CmdStates, NoneAhead, Coming
      <4> QED
        BY <1>1, <3>1, <3>3, <3>5, <4>2, <4>3, Zenon DEF CfgFree
    <3> QED
      BY <1>3, <3>1, <3>4, <3>5
  <2> QED
    BY <1>1, <2>1, <2>2, <2>3
<1>8. TxInv' /\ ConfigInv' /\ DownInv'
  BY <1>1, <1>2 DEF TxInv, Sending, ConfigInv, DownInv
<1> QED
  BY <1>5, <1>6, <1>7, <1>8 DEF LinkInv

LEMMA LinkStepgen == ASSUME IInv, LinkInv, RaceInv, stepgen PROVE LinkInv'
<1>1. /\ pc = "stepgen" /\ pc' = "write"
      /\ UNCHANGED <<state, do_read, do_write, do_stepgen, checked, rx, toHost, toBoard, board,
                     boardCfg, downFor, silent, Coming>>
      /\ ~do_stepgen => tx' = tx
      /\ do_stepgen => \E v : tx' = CmdMsg(v)
  BY DEF stepgen, flags, net, firmware, Coming
<1>2. /\ SizeInv /\ TxInv /\ OrderInv /\ ConfigInv /\ MovingInv /\ DownInv
      /\ OnlineInv /\ WireInv
  BY DEF IInv, HostInv, LinkInv
<1>3. do_stepgen => /\ state = "TXRXREADY" /\ tx'.type = "CMD"
                    /\ Vouched(tx') => tx'.cfg = checked
  <2>1. SUFFICES ASSUME do_stepgen
                 PROVE  /\ state = "TXRXREADY" /\ tx'.type = "CMD"
                        /\ Vouched(tx') => tx'.cfg = checked
    OBVIOUS
  <2>2. PICK v : tx' = CmdMsg(v)
    BY <1>1, <2>1
  <2>3. /\ tx'.type = "CMD" /\ tx'.vel = v /\ tx'.cfg = (IF v = 0 THEN NoCfg ELSE param)
        /\ tx'.raced = raced
    BY <2>2 DEF CmdMsg
  <2> QED
    BY <1>1, <1>2, <2>1, <2>3 DEF OnlineInv, RaceInv, Vouched, Moving
<1>4. ~do_stepgen /\ do_write => Sending
  BY <1>1 DEF Sending
<1>5. TxInv'
  <2>1. CASE do_stepgen
    <3>1. Vouched(tx') => tx'.cfg = checked
      BY <1>3, <2>1
    <3>2. state = "TXRXREADY" /\ tx'.type = "CMD"
      BY <1>3, <2>1
    <3> HIDE DEF Vouched
    <3> QED
      BY <1>1, <3>1, <3>2 DEF TxInv, Sending
  <2>2. CASE ~do_stepgen
    BY <1>1, <1>2, <1>4, <2>2 DEF TxInv, Sending, WireInv, Vouched, Moving
  <2> QED
    BY <2>1, <2>2
<1>6. OrderInv'
  <2>1. /\ NoneAhead' = NoneAhead /\ FirstAhead' = FirstAhead /\ LastAhead' = LastAhead
    BY <1>1, Zenon DEF NoneAhead, FirstAhead, LastAhead, InForce, CfgFree, OnlyFirst, OnlyLast
  <2>2. Sending' /\ state = "CFGWAIT" => Sending
    <3>1. state = "CFGWAIT" => ~do_stepgen
      BY <1>2 DEF OnlineInv
    <3> QED
      BY <1>1, <1>4, <3>1 DEF Sending
  <2> QED
    BY <1>1, <1>2, <2>1, <2>2 DEF OrderInv
<1>7. MovingInv'
  BY <1>1, <1>2, Zenon DEF MovingInv, Vouched, Moving
<1>8. SizeInv' /\ ConfigInv' /\ DownInv'
  BY <1>1, <1>2 DEF SizeInv, Room, Answered, ConfigInv, DownInv
<1> QED
  BY <1>5, <1>6, <1>7, <1>8 DEF LinkInv

\* What the supervisor decides, as far as the link is concerned.
Decision ==
    \/ state' = "RST" /\ ~do_write'
    \/ state = "RST" /\ state' = "RSTWAIT" /\ do_write' /\ tx' = RstMsg
    \/ state \in {"RSTWAIT", "CFGWAIT"} /\ state' = state /\ ~do_write' /\ checked' = checked
    \/ /\ state \in CmdStates \/ (state = "RSTWAIT" /\ rx.type = "RST")
       /\ state' = "CFGWAIT" /\ tx' = CfgMsg(checked')
    \/ /\ \/ state \in CmdStates
          \/ state = "RSTWAIT" /\ rx.type = "RST" /\ state' # "TXRXREADY"
          \/ state = "CFGWAIT" /\ rx.type = "CFG"
       /\ state' \in CmdStates /\ checked' = checked
       /\ state' = "TXRXREADY" /\ state # "CFGWAIT" => state = "TXRXREADY" /\ rx.type # "error"
       /\ do_stepgen' \/ tx'.type = "CMD"

LEMMA Decides ==
    ASSUME supervisor, OnlineInv, state # "RST" => do_read
    PROVE  Decision /\ do_read' /\ pc = "supervisor" /\ pc' = "stepgen"
           /\ UNCHANGED <<rx, net, firmware, silent>>
<1>1. Idle.type = "CMD" /\ \A d : [Idle EXCEPT !.delay = d].type = "CMD"
  BY IdleIsStill
<1>2. /\ pc = "supervisor" /\ pc' = "stepgen" /\ UNCHANGED <<rx, net, firmware, silent>>
  BY DEF supervisor, Rst, RstWait, GetCycleTime, SetReplyDelay, Cfg, CfgWait, TxRxReady, InState
<1>3. SendConfig => state' = "CFGWAIT" /\ tx' = CfgMsg(checked') /\ do_read'
  BY DEF SendConfig, CheckParams
<1>4. StartOver => state' = "RST" /\ ~do_write' /\ do_read'
  BY DEF StartOver
<1>5. ASSUME NEW limit \in Nat, KeepWaiting(limit)
      PROVE  state' \in {"RST", state} /\ ~do_write' /\ do_read' /\ checked' = checked
  BY <1>5 DEF KeepWaiting, AfterTimeout
<1>6. CASE Rst
  BY <1>2, <1>6 DEF Rst, InState, Decision
<1>7. CASE RstWait
  BY <1>1, <1>2, <1>3, <1>4, <1>5, <1>7, SupervisorAssumption
     DEF RstWait, InState, StartMeasuring, RcvReply, Decision, CmdStates
<1>8. CASE GetCycleTime
  <2>1. CASE StartOver
    BY <1>2, <1>4, <2>1 DEF Decision
  <2>2. CASE /\ tx'.type = "CMD" /\ do_read' = TRUE /\ checked' = checked
             /\ state = "GETCYCLETIME" /\ state' \in {"GETCYCLETIME", "SETREPLYDELAY"}
    BY <1>1, <1>2, <2>2 DEF Decision, CmdStates
  <2> QED
    BY <1>1, <1>8, <2>1, <2>2, Zenon DEF GetCycleTime, InState
<1>9. CASE SetReplyDelay
  <2>1. CASE StartOver
    BY <1>2, <1>4, <2>1 DEF Decision
  <2>2. CASE /\ tx'.type = "CMD" /\ do_read' = TRUE /\ checked' = checked
             /\ state = "SETREPLYDELAY" /\ state' \in {"CFG", "SETREPLYDELAY"}
    BY <1>2, <2>2 DEF Decision, CmdStates
  <2> QED
    BY <1>1, <1>9, <2>1, <2>2, Zenon DEF SetReplyDelay, InState
<1>10. CASE Cfg
  BY <1>2, <1>3, <1>10 DEF Cfg, InState, Decision, CmdStates
<1>11. CASE CfgWait
  BY <1>1, <1>2, <1>4, <1>5, <1>11, SupervisorAssumption
     DEF CfgWait, InState, Confirmed, RcvReply, Decision, CmdStates
<1>12. CASE TxRxReady
  BY <1>1, <1>2, <1>3, <1>12
     DEF TxRxReady, InState, GoodReply, Tolerate, Tolerable, Disconnect, RcvReply, RcvTimeout,
         Decision, CmdStates
<1> QED
  BY <1>6, <1>7, <1>8, <1>9, <1>10, <1>11, <1>12 DEF supervisor

\* The supervisor runs when no more than one datagram is on its way, so what
\* is ahead of the next one it sends is known.
LEMMA LinkSupervisor == ASSUME Timely, IInv, LinkInv, supervisor PROVE LinkInv'
<1>1. /\ TypeOK /\ SizeInv /\ OrderInv /\ ConfigInv /\ MovingInv /\ DownInv /\ OnlineInv
  BY DEF IInv, HostInv, LinkInv
<1>2. /\ Decision /\ do_read' /\ pc = "supervisor" /\ pc' = "stepgen"
      /\ UNCHANGED <<rx, silent, toHost, toBoard, board, boardCfg, downFor, Coming>>
  BY <1>1, Decides DEF SizeInv, net, firmware, Coming
<1>3. /\ toHost \in Seq(Reply) /\ Coming \in Seq(Message)
      /\ Len(toHost) \in Nat /\ Len(Coming) \in Nat /\ Backlog \in Nat
      /\ Len(toHost) + Len(Coming) <= Backlog
  BY <1>1, <1>2, NetTypes, SupervisorAssumption DEF SizeInv, Room
<1>4. /\ NoneAhead' = NoneAhead /\ FirstAhead' = FirstAhead
      /\ checked' = checked => LastAhead' = LastAhead /\ InForce' = InForce
  BY <1>2, Zenon DEF NoneAhead, FirstAhead, LastAhead, InForce, CfgFree, OnlyFirst, OnlyLast
<1>5. ASSUME NoneAhead PROVE LastAhead'
  <2>1. CfgFree(toHost) /\ CfgFree(Coming) /\ OnlyLast(toHost) /\ OnlyLast(Coming)
    BY <1>5, FreeIsEither DEF NoneAhead
  <2>2. \A i \in 1..Len(Coming') : Coming'[i].type = "CFG" => Coming'[i].cfg = checked'
    BY <1>2, <2>1, Zenon DEF CfgFree
  <2> QED
    BY <1>2, <2>1, <2>2, Zenon DEF LastAhead
<1>6. FirstAhead
  <2>1. Len(toHost) <= 1 /\ Len(Coming) <= 1 /\ (Len(toHost) = 0 \/ Len(Coming) = 0)
    BY <1>3 DEF Timely
  <2>2. OnlyFirst(toHost) /\ OnlyFirst(Coming)
    BY <1>3, <2>1, ShortHasFirst
  <2>3. Len(Coming) = 0 => CfgFree(Coming)
    BY DEF CfgFree
  <2>4. Len(toHost) = 0 => toHost = <<>>
    BY <1>3
  <2> QED
    BY <2>1, <2>2, <2>3, <2>4 DEF FirstAhead
<1>7. SizeInv'
  BY <1>1, <1>2, <1>3 DEF SizeInv, Room, Answered
<1>8. state' = "CFGWAIT" => LastAhead' /\ (Sending' => NoneAhead')
  BY <1>1, <1>2, <1>4, <1>5 DEF Decision, OrderInv, Sending, CmdStates
<1>9. state' \in CmdStates => NoneAhead'
  BY <1>1, <1>2, <1>4 DEF Decision, OrderInv, CmdStates
<1>10. TxInv'
  BY <1>2 DEF Decision, TxInv, Sending, RstMsg, CfgMsg, CmdStates
<1>11. OrderInv'
  BY <1>2, <1>4, <1>6, <1>8, <1>9 DEF OrderInv
<1>12. ConfigInv'
  <2>1. SUFFICES ASSUME state' = "TXRXREADY", board = "up" PROVE boardCfg = checked'
    BY <1>2 DEF ConfigInv
  <2>2. CASE state = "TXRXREADY" /\ checked' = checked
    BY <1>1, <2>1, <2>2 DEF ConfigInv
  <2>3. CASE state = "CFGWAIT" /\ rx.type = "CFG" /\ checked' = checked
    BY <1>1, <1>2, <2>1, <2>3 DEF OrderInv, InForce
  <2> QED
    BY <1>2, <2>1, <2>2, <2>3 DEF Decision, CmdStates
<1>13. MovingInv'
  BY <1>1, <1>2, Zenon DEF MovingInv, Vouched, Moving
<1>14. DownInv'
  <2>1. ASSUME board = "down", state' = "TXRXREADY" PROVE downFor <= Backlog + silent + 1
    <3>1. CASE state = "TXRXREADY" /\ rx.type # "error"
      BY <1>1, <2>1, <3>1 DEF DownInv
    <3>2. CASE state = "CFGWAIT" /\ rx.type = "CFG"
      <4>1. downFor <= Backlog + 1 /\ downFor \in Nat /\ silent \in Nat
        BY <1>1, <1>2, <2>1, <3>2 DEF DownInv, Answered, TypeOK
      <4> QED
        BY <1>3, <4>1
    <3> QED
      BY <1>2, <2>1, <3>1, <3>2 DEF Decision, CmdStates
  <2> QED
    BY <1>1, <1>2, <2>1 DEF DownInv
<1> QED
  BY <1>7, <1>10, <1>11, <1>12, <1>13, <1>14 DEF LinkInv

LEMMA LinkKept == ASSUME Timely, IInv, LinkInv, RaceInv, [Next]_vars PROVE LinkInv'
<1>1. TypeOK
  BY DEF IInv
<1>2. CASE UNCHANGED vars
  BY <1>2, LinkFrame DEF vars, host, flags, net, firmware
<1> QED
  BY <1>1, <1>2, LinkRead, LinkSupervisor, LinkStepgen, LinkWrite, LinkEnvironment
     DEF Next, ServoThread

\* The velocity is computed with the parameters just checked, unless they were
\* changed since.
LEMMA RaceKept == ASSUME IInv, RaceInv, [Next]_vars PROVE RaceInv'
<1>1. ASSUME UNCHANGED <<pc, do_stepgen, param, checked, raced>> PROVE RaceInv'
  BY <1>1 DEF RaceInv
<1>2. CASE UNCHANGED vars
  BY <1>1, <1>2 DEF vars, host, flags
<1>3. CASE read \/ stepgen \/ write
  BY <1>3 DEF read, GoOn, stepgen, write, RaceInv
<1>4. CASE SetParam
  BY <1>4 DEF SetParam, RaceInv
<1>5. CASE Board \/ BoardTimer \/ Reboot \/ ComeUp \/ Lose \/ CalmDown
  BY <1>1, <1>5 DEF Board, BoardRst, BoardCfg, BoardCmd, Request, BoardTimer, Reboot, ComeUp,
                    Lose, CalmDown, host, flags
<1>6. CASE supervisor
  <2>1. state # "TXRXREADY" => ~do_stepgen
    BY DEF IInv, HostInv, OnlineInv
  <2>2. CASE state # "TXRXREADY"
    <3>1. ~do_stepgen'
      BY <1>6, <2>1, <2>2 DEF supervisor, Rst, RstWait, GetCycleTime, SetReplyDelay, Cfg, CfgWait,
         TxRxReady, InState, GoOffline, KeepWaiting, StartMeasuring, StartOver
    <3> QED
      BY <3>1 DEF RaceInv
  <2>3. CASE state = "TXRXREADY"
    <3>1. TxRxReady
      BY <1>6, <2>3 DEF supervisor, Rst, RstWait, GetCycleTime, SetReplyDelay, Cfg, CfgWait, InState
    <3>2. ~do_stepgen' \/ (param' = checked')
      BY <3>1 DEF TxRxReady, GoodReply, Tolerate, Disconnect, GoOffline, ParamsChanged
    <3> QED
      BY <3>2 DEF RaceInv
  <2> QED
    BY <2>2, <2>3
<1> QED
  BY <1>2, <1>3, <1>4, <1>5, <1>6 DEF Next, ServoThread

LEMMA InductiveRace == Spec => []RaceInv
<1>1. Init => RaceInv
  BY DEF Init, RaceInv
<1>2. IInv /\ RaceInv /\ [Next]_vars => RaceInv'
  BY RaceKept
<1> QED
  BY <1>1, <1>2, Inductive, PTL DEF Spec

LEMMA InductiveLink == ASSUME Timely PROVE Spec => []LinkInv
<1>1. IInv /\ RaceInv /\ LinkInv /\ [Next]_vars => LinkInv'
  BY LinkKept
<1> QED
  BY <1>1, LinkStart, Inductive, InductiveRace, PTL DEF Spec

\* On a timely link, a module that says ready talks to a board that runs on the
\* parameters last checked, whatever is lost, late, changed or restarted
\* (rt8p8c.comp:741-779).
THEOREM Agreement == ASSUME Timely PROVE Spec => []ConfigAgrees
<1>1. IInv /\ LinkInv => ConfigAgrees
  BY DEF IInv, HostInv, OnlineInv, LinkInv, ConfigInv, ConfigAgrees
<1> QED
  BY <1>1, Inductive, InductiveLink, PTL

\* On a timely link, a velocity other than zero is executed under the
\* parameters it was computed with, which are those in force when stepgen runs;
\* the exception is a command computed after the user changed them in the gap
\* between supervisor and stepgen (rt8p8c.comp:453-485, 768-784).
THEOREM MovesAsConfigured == ASSUME Timely PROVE Spec => []MotionUnderConfig
<1>1. TypeOK /\ MovingInv => MotionUnderConfig
  <2>1. SUFFICES ASSUME TypeOK, MovingInv, board = "up", toBoard # <<>>, Vouched(Head(toBoard))
                 PROVE  boardCfg = Head(toBoard).cfg
    BY DEF MotionUnderConfig, Vouched, Moving
  <2>2. Head(toBoard) = toBoard[1] /\ 1 \in 1..Len(toBoard)
    BY <2>1, NetTypes, TailElement
  <2> QED
    BY <2>1, <2>2, Zenon DEF MovingInv
<1>2. IInv /\ LinkInv => MotionUnderConfig
  BY <1>1 DEF IInv, LinkInv
<1> QED
  BY <1>2, Inductive, InductiveLink, PTL

-----------------------------------------------------------------------------
(* The measurement of the reply delay                                      *)

Timed == [type : {"RST", "CFG", "CMD"}, cycle : Word]

CyclesInv == tmp \in Word /\ rx.cycle \in Word /\ toHost \in Seq(Timed)

\* The sum of the readings that count is that of as many numbers between the
\* shortest cycle that counts and the longest seen.
AverageInv ==
    state = "GETCYCLETIME" =>
        /\ count < Readings
        /\ count * (HalfPeriod + 1) <= sum /\ sum <= count * tmp

MeasureInv == CyclesInv /\ AverageInv

LEMMA TimesMonotone ==
    ASSUME NEW n \in Nat, NEW a \in Nat, NEW b \in Nat, a <= b
    PROVE  n * a <= n * b
<1>1. PICK k \in Nat : b = a + k
  BY b - a \in Nat /\ b = a + (b - a)
<1>2. n * b = n * a + n * k /\ n * k \in Nat /\ n * a \in Nat
  BY <1>1
<1> QED
  BY <1>2

\* The average of n numbers between two bounds is between them, rounded or not.
LEMMA AverageBetween ==
    ASSUME NEW n \in Nat \ {0}, NEW lo \in Nat, NEW hi \in Nat, NEW s \in Nat,
           n * lo <= s, s <= n * hi
    PROVE  s \div n \in lo..hi
<1> DEFINE q == s \div n
<1>1. q \in Nat /\ n * q \in Nat /\ n * lo \in Nat /\ n * hi \in Nat
  OBVIOUS
<1>2. n * q <= s /\ s < n * q + n
  OBVIOUS
<1>3. n * (q + 1) = n * q + n /\ n * (hi + 1) = n * hi + n
  BY <1>1
<1> HIDE DEF q
<1>4. lo <= q
  <2>1. SUFFICES ASSUME q + 1 <= lo PROVE FALSE
    BY <1>1
  <2>2. n * (q + 1) <= n * lo
    BY <1>1, <2>1, TimesMonotone
  <2> QED
    BY <1>1, <1>2, <1>3, <2>2
<1>5. q <= hi
  <2>1. SUFFICES ASSUME hi + 1 <= q PROVE FALSE
    BY <1>1
  <2>2. n * (hi + 1) <= n * q
    BY <1>1, <2>1, TimesMonotone
  <2> QED
    BY <1>1, <1>2, <1>3, <2>2
<1> QED
  BY <1>1, <1>4, <1>5 DEF q

LEMMA ZeroIsWord == 0 \in Word
  BY SupervisorAssumption DEF Word

LEMMA MeasureStart == Init => MeasureInv
<1> SUFFICES ASSUME Init PROVE MeasureInv
  OBVIOUS
<1>1. tmp = 0 /\ rx.cycle = 0 /\ toHost = <<>> /\ state = "RST"
  BY DEF Init, Nothing
<1>2. <<>> \in Seq(Timed)
  OBVIOUS
<1> QED
  BY <1>1, <1>2, ZeroIsWord DEF MeasureInv, CyclesInv, AverageInv

\* One more reading that counts keeps the sum between its bounds.
LEMMA OneReading ==
    ASSUME TypeOK, AverageInv, state = "GETCYCLETIME", LongEnough, ~Growing
    PROVE  /\ (count + 1) * (HalfPeriod + 1) <= sum + rx.cycle
           /\ sum + rx.cycle <= (count + 1) * tmp
<1>1. /\ count \in Nat /\ sum \in Nat /\ tmp \in Nat /\ rx.cycle \in Nat /\ HalfPeriod \in Nat
      /\ HalfPeriod + 1 <= rx.cycle /\ rx.cycle <= tmp
  BY SupervisorAssumption DEF TypeOK, LongEnough, Growing
<1>2. /\ (count + 1) * (HalfPeriod + 1) = count * (HalfPeriod + 1) + (HalfPeriod + 1)
      /\ (count + 1) * tmp = count * tmp + tmp
      /\ count * (HalfPeriod + 1) \in Nat /\ count * tmp \in Nat
  BY <1>1
<1>3. count * (HalfPeriod + 1) <= sum /\ sum <= count * tmp
  BY DEF AverageInv
<1> QED
  BY <1>1, <1>2, <1>3

\* A reply carries a cycle time the board may report.
LEMMA CyclesKept ==
    ASSUME Measurable, TypeOK, CyclesInv, [Next]_vars PROVE CyclesInv'
<1>1. tmp \in Word /\ rx.cycle \in Word /\ toHost \in Seq(Timed)
  BY DEF CyclesInv
<1>2. CASE UNCHANGED vars
  BY <1>1, <1>2, Zenon DEF CyclesInv, vars, host, measure, net
<1>3. CASE supervisor
  <2>1. UNCHANGED <<rx, toHost>>
    BY <1>3 DEF supervisor, Rst, RstWait, GetCycleTime, SetReplyDelay, Cfg, CfgWait, TxRxReady,
                InState, net
  <2>2. tmp' \in {0, tmp, rx.cycle}
    <3>1. ASSUME NEW limit, KeepWaiting(limit) PROVE tmp' = tmp
      BY <3>1 DEF KeepWaiting
    <3>2. SendConfig \/ StartOver \/ StartMeasuring => tmp' \in {0, tmp}
      BY DEF SendConfig, StartOver, StartMeasuring, measure
    <3>3. CASE Rst \/ RstWait \/ Cfg \/ CfgWait
      BY <1>3, <3>1, <3>2, <3>3 DEF Rst, RstWait, Cfg, CfgWait, measure
    <3>4. CASE GetCycleTime \/ SetReplyDelay
      BY <3>2, <3>4 DEF GetCycleTime, SetReplyDelay, measure
    <3>5. CASE TxRxReady
      BY <3>2, <3>5 DEF TxRxReady, GoodReply, Tolerate, Disconnect, measure
    <3> QED
      BY <1>3, <3>3, <3>4, <3>5 DEF supervisor
  <2> QED
    BY <1>1, <2>1, <2>2, ZeroIsWord DEF CyclesInv
<1>4. CASE read
  <2>1. tmp' = tmp
    BY <1>4 DEF read, host, measure
  <2>2. CASE UNCHANGED <<rx, toHost>>
    BY <1>1, <2>1, <2>2 DEF CyclesInv
  <2>3. CASE Receive
    <3>1. Head(toHost) \in Timed /\ Tail(toHost) \in Seq(Timed)
      BY <1>1, <2>3, TailElement DEF Receive
    <3> QED
      BY <2>1, <2>3, <3>1 DEF CyclesInv, Receive, Timed
  <2>4. CASE TimeOut \/ RecvError
    BY <1>1, <2>1, <2>4, ZeroIsWord DEF CyclesInv, TimeOut, RecvError, Unanswered, Answer
  <2> QED
    BY <1>4, <2>2, <2>3, <2>4 DEF read
<1>5. ASSUME UNCHANGED <<tmp, rx, toHost>> PROVE CyclesInv'
  BY <1>1, <1>5 DEF CyclesInv
<1>6. CASE stepgen \/ write \/ SetParam \/ BoardTimer \/ Reboot \/ ComeUp \/ CalmDown
  BY <1>5, <1>6 DEF stepgen, write, SetParam, BoardTimer, Reboot, ComeUp, CalmDown, host, measure, net
<1>7. ASSUME UNCHANGED <<tmp, rx>>, NEW c \in Word, NEW t \in {"RST", "CFG", "CMD"},
             Send(Answer(t, c))
      PROVE  CyclesInv'
  <2>1. Answer(t, c) \in Timed
    BY DEF Answer, Timed
  <2>2. Append(toHost, Answer(t, c)) \in Seq(Timed)
    BY <1>1, <2>1, AppendElement
  <2>3. toHost' = toHost \/ toHost' = Append(toHost, Answer(t, c))
    BY <1>7, Zenon DEF Send
  <2>4. toHost' \in Seq(Timed)
    BY <1>1, <2>2, <2>3, Zenon
  <2> QED
    BY <1>1, <1>7, <2>4, Zenon DEF CyclesInv
<1>8. CASE Board
  <2>1. UNCHANGED <<tmp, rx>>
    BY <1>8 DEF Board, BoardRst, BoardCfg, BoardCmd, Request, host, measure
  <2>2. CASE BoardRst \/ BoardCfg
    BY <1>7, <2>1, <2>2, ZeroIsWord DEF BoardRst, BoardCfg
  <2>3. CASE BoardCmd
    <3>1. \/ toHost' = toHost
          \/ \E c \in IF boardTimed THEN CycleTime ELSE {0} : Send(Answer("CMD", c))
      BY <2>3, Zenon DEF BoardCmd
    <3>2. CASE \E c \in IF boardTimed THEN CycleTime ELSE {0} : Send(Answer("CMD", c))
      <4>1. PICK c \in IF boardTimed THEN CycleTime ELSE {0} : Send(Answer("CMD", c))
        BY <3>2
      <4>2. c \in Word
        BY <4>1, ZeroIsWord DEF Measurable
      <4> QED
        BY <1>7, <2>1, <4>1, <4>2
    <3> QED
      BY <1>5, <2>1, <3>1, <3>2
  <2> QED
    BY <1>8, <2>2, <2>3 DEF Board
<1>9. CASE Lose
  <2>1. UNCHANGED <<tmp, rx>>
    BY <1>9 DEF Lose, host, measure
  <2>2. toHost # <<>> => Tail(toHost) \in Seq(Timed)
    BY <1>1, TailElement
  <2> QED
    BY <1>1, <1>9, <2>1, <2>2 DEF Lose, CyclesInv
<1> QED
  BY <1>2, <1>3, <1>4, <1>6, <1>8, <1>9 DEF Next, ServoThread

LEMMA AverageKept == ASSUME TypeOK, AverageInv, [Next]_vars PROVE AverageInv'
<1>1. ASSUME UNCHANGED <<state, measure>> PROVE AverageInv'
  BY <1>1 DEF AverageInv, measure
<1>2. ASSUME state' # "GETCYCLETIME" PROVE AverageInv'
  BY <1>2 DEF AverageInv
<1>3. /\ count \in Nat /\ sum \in Nat /\ tmp \in Nat /\ rx.cycle \in Nat /\ HalfPeriod \in Nat
      /\ Readings \in Nat \ {0}
  BY SupervisorAssumption DEF TypeOK
<1>4. ASSUME count' = 0, sum' = 0, tmp' \in Nat PROVE AverageInv'
  <2>1. \A n \in Nat : 0 * n <= 0 /\ 0 <= 0 * n
    OBVIOUS
  <2>2. HalfPeriod + 1 \in Nat /\ 0 < Readings
    BY <1>3
  <2>3. /\ 0 < Readings
        /\ 0 * (HalfPeriod + 1) <= 0 /\ 0 <= 0 * tmp'
    BY <1>4, <2>1, <2>2, Zenon
  <2> QED
    BY <1>4, <2>3, Zenon DEF AverageInv
<1>5. CASE GetCycleTime
  <2>1. CASE StartOver
    BY <1>2, <2>1 DEF StartOver
  <2>2. CASE UNCHANGED <<state, measure>>
    BY <1>1, <2>2
  <2>3. CASE tmp' = rx.cycle /\ RestartAverage
    BY <1>3, <1>4, <2>3 DEF RestartAverage
  <2>4. CASE /\ LongEnough /\ ~Growing /\ ~LastReading
             /\ count' = count + 1 /\ sum' = sum + rx.cycle /\ UNCHANGED <<tmp, state>>
    <3>1. state = "GETCYCLETIME"
      BY <1>5 DEF GetCycleTime, InState
    <3>2. count + 1 < Readings
      BY <1>3, <2>4, <3>1 DEF AverageInv, LastReading
    <3> QED
      BY <2>4, <3>1, <3>2, OneReading DEF AverageInv
  <2>5. CASE state' = "SETREPLYDELAY"
    BY <1>2, <2>5
  <2> QED
    BY <1>5, <2>1, <2>2, <2>3, <2>4, <2>5, Zenon DEF GetCycleTime
<1>6. CASE RstWait
  <2>1. state = "RSTWAIT"
    BY <1>6 DEF RstWait, InState
  <2>2. ASSUME NEW limit, KeepWaiting(limit) PROVE AverageInv'
    BY <1>2, <2>1, <2>2 DEF KeepWaiting, AfterTimeout
  <2>3. CASE StartMeasuring
    BY <1>4, <2>3 DEF StartMeasuring
  <2> QED
    BY <1>2, <1>6, <2>2, <2>3 DEF RstWait, SendConfig, StartOver
<1>7. CASE Rst \/ SetReplyDelay \/ Cfg \/ CfgWait \/ TxRxReady
  <2>1. state # "GETCYCLETIME" /\ state' \in {state, "RSTWAIT", "RST", "CFG", "CFGWAIT", "TXRXREADY"}
    BY <1>7 DEF Rst, SetReplyDelay, Cfg, CfgWait, TxRxReady, InState, SendConfig, StartOver,
                KeepWaiting, AfterTimeout, GoodReply, Tolerate, Disconnect
  <2> QED
    BY <1>2, <2>1
<1>8. CASE ~supervisor
  <2>1. UNCHANGED <<state, measure>>
    BY <1>8 DEF Next, ServoThread, read, stepgen, write, SetParam, Board, BoardRst, BoardCfg,
                BoardCmd, Request, BoardTimer, Reboot, ComeUp, Lose, CalmDown, host, vars
  <2> QED
    BY <1>1, <2>1
<1> QED
  BY <1>5, <1>6, <1>7, <1>8 DEF supervisor

LEMMA InductiveMeasure == ASSUME Measurable PROVE Spec => []MeasureInv
<1>1. TypeOK /\ MeasureInv /\ [Next]_vars => MeasureInv'
  BY CyclesKept, AverageKept DEF MeasureInv
<1> QED
  BY <1>1, MeasureStart, TypeCorrect, PTL DEF Spec

\* The reply delay the measurement hands over is the average of readings
\* between the shortest that counts and the longest seen, less the transit
\* time, and does not wrap (rt8p8c.comp:681-700).
THEOREM Measured == ASSUME Measurable PROVE Spec => MeasuredInRange
<1>1. ASSUME TypeOK, MeasureInv, [Next]_vars, state = "GETCYCLETIME", state' = "SETREPLYDELAY"
      PROVE  reply_delay' + RxTxDelay \in (HalfPeriod + 1)..tmp
  <2>1. LastReading /\ reply_delay' = ((sum + rx.cycle) \div Readings - RxTxDelay) % DelayMod
    <3>1. GetCycleTime
      BY <1>1 DEF Next, ServoThread, read, stepgen, write, supervisor, Rst, RstWait, SetReplyDelay,
                  Cfg, CfgWait, TxRxReady, InState, SetParam, Board, BoardRst, BoardCfg,
                  BoardCmd, Request, BoardTimer, Reboot, ComeUp, Lose, CalmDown, host, vars
    <3> QED
      BY <1>1, <3>1 DEF GetCycleTime, StartOver
  <2>2. /\ count \in Nat /\ sum \in Nat /\ tmp \in Nat /\ rx.cycle \in Nat /\ HalfPeriod \in Nat
        /\ Readings \in Nat \ {0} /\ RxTxDelay \in Nat /\ DelayMod \in Nat \ {0}
    BY <1>1, SupervisorAssumption DEF TypeOK
  <2>3. /\ Readings * (HalfPeriod + 1) <= sum + rx.cycle
        /\ sum + rx.cycle <= Readings * tmp
    BY <1>1, <2>1, OneReading DEF LastReading, MeasureInv
  <2> DEFINE mean == (sum + rx.cycle) \div Readings
  <2>4. mean \in (HalfPeriod + 1)..tmp
    BY <2>2, <2>3, AverageBetween
  <2>5. tmp < DelayMod
    BY <1>1, <2>2 DEF MeasureInv, CyclesInv, Word
  <2> HIDE DEF mean
  <2>6. mean - RxTxDelay \in 0..(DelayMod - 1)
    BY <2>2, <2>4, <2>5 DEF Measurable
  <2>7. (mean - RxTxDelay) % DelayMod = mean - RxTxDelay
    BY <2>2, <2>6
  <2> QED
    BY <2>1, <2>2, <2>4, <2>7 DEF mean
<1>2. TypeOK /\ MeasureInv /\ [Next]_vars
        => [state = "GETCYCLETIME" /\ state' = "SETREPLYDELAY"
              => reply_delay' + RxTxDelay \in (HalfPeriod + 1)..tmp]_vars
  BY <1>1
<1> QED
  BY <1>2, TypeCorrect, InductiveMeasure, PTL DEF Spec, MeasuredInRange

=============================================================================
