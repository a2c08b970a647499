----------------------------- MODULE Supervisor -----------------------------
(***************************************************************************)
(* The LinuxCNC side (hal/rt8p8c.comp) talking to one board over UDP.      *)
(*                                                                         *)
(* The servo thread calls read, supervisor, stepgen and write once a       *)
(* period, in that order (configs/MF70/MF70.hal:8-13); each call is a step *)
(* and pc says which comes next.  Between them other HAL threads change    *)
(* parameters and pins, and the network and the board move on.  Datagrams  *)
(* may be lost or late, in both directions; a direct cable neither         *)
(* reorders nor duplicates them.  The board answers each datagram in the   *)
(* order it came (firmware/main.c:200-239); it may hang, and restart.      *)
(*                                                                         *)
(* The faults are unbounded until calm, an oracle variable of the          *)
(* environment, becomes true.                                              *)
(***************************************************************************)
EXTENDS Integers, Sequences

CONSTANTS
    Param,         \* parameter settings a user may make
    Accepted,      \* what check_params turns each of them into
    PowerOnCfg,    \* the configuration the firmware starts with
    NoCfg,         \* old_stepwidth and its likes before the first check
    MaxSpeed,      \* fastest velocity command, in units of one period's ramp
    InitDelay,     \* reply_delay as the user sets it; 0 asks for measurement
    DelayMod,      \* range of the u32 reply_delay
    HangDelay,     \* a longer reply delay outlasts the board's watchdog
    CycleTime,     \* cycle times the board may report
    HalfPeriod,    \* period / 20000
    RxTxDelay,     \* the module parameter delay
    Readings,      \* equal readings that settle the cycle time, 32
    Settle,        \* replies that settle the reply delay, 2 s of periods
    TimeoutRst, TimeoutCfg, RxTimeout,   \* TIMEOUT_RST, TIMEOUT_CFG, RX_TIMEOUT
    MaxQueue,      \* datagrams in flight, each way
    Backlog,       \* datagrams the board may still have to take when a read ends
    RebootCycles,  \* periods a restart of the board takes at least
    MaxRxErr       \* bound: no fault or restart once rxerr is this large

ASSUME SupervisorAssumption ==
    /\ Accepted \in [Param -> Param]
    /\ \A p \in Param : Accepted[Accepted[p]] = Accepted[p]
    /\ PowerOnCfg \in Param /\ NoCfg \notin Param
    /\ MaxSpeed \in Nat
    /\ DelayMod \in Nat \ {0} /\ InitDelay \in 0..(DelayMod - 1)
    /\ HangDelay \in Nat /\ RxTxDelay \in Nat /\ HalfPeriod \in Nat
    /\ CycleTime \subseteq Nat
    /\ Readings \in Nat \ {0} /\ Settle \in Nat
    /\ TimeoutRst \in Nat /\ TimeoutCfg \in Nat /\ RxTimeout \in Nat
    /\ MaxQueue \in Nat \ {0} /\ Backlog \in Nat /\ RebootCycles \in Nat

VARIABLES
    pc,                               \* the next function of the servo thread
    state, count, sum, tmp, rxerr,    \* statics of supervisor
    do_read, do_write, do_stepgen, ready,
    param, checked,                   \* parameters, and their old_ copies
    reply_delay, old_vel,
    rx, tx                            \* rxbuf with rx_ret, txbuf

VARIABLES
    toBoard, toHost,                  \* datagrams in flight
    board, downFor,                   \* "up", "hung" or "down"; periods it is down
    boardCfg, boardVel, boardTimed, alive,
    calm                              \* no more faults, no more changes by the user

VARIABLES                             \* for the properties only
    silent,                           \* timeouts in a row the last reads ended with, up
                                      \* to one more than the module tolerates
    raced                             \* the user changed a parameter between supervisor
                                      \* and stepgen of this period

flags == <<do_read, do_write, do_stepgen, ready>>
measure == <<count, sum, tmp>>
host == <<state, measure, rxerr, flags, param, checked, reply_delay, old_vel, tx>>
net == <<toBoard, toHost>>
firmware == <<board, downFor, boardCfg, boardVel, boardTimed, alive>>
vars == <<pc, host, rx, net, firmware, calm, silent, raced>>

States == {"RST", "RSTWAIT", "GETCYCLETIME", "SETREPLYDELAY",
           "CFG", "CFGWAIT", "TXRXREADY"}

RstMsg == [type |-> "RST"]
CfgMsg(p) == [type |-> "CFG", cfg |-> p]
\* cfg and raced are for the properties: the parameters a velocity other than zero
\* was computed with, which are those in force at that moment and not those last
\* checked, and whether they were changed since supervisor checked them.
CmdMsg(v) ==
    [type |-> "CMD", delay |-> reply_delay, vel |-> v,
     cfg |-> IF v = 0 THEN NoCfg ELSE param, raced |-> raced]

\* Mutant: the idle command repeats the last velocity.
Idle_KeepsVelocity == CmdMsg(old_vel)
\* send_idle: no motion, whatever the user commands.
Idle == CmdMsg(0)

Nothing == [type |-> "none", cycle |-> 0]
Answer(t, c) == [type |-> t, cycle |-> c]

Init ==
    /\ pc = "read"
    /\ state = "RST" /\ count = 0 /\ sum = 0 /\ tmp = 0 /\ rxerr = 0
    /\ do_read = FALSE /\ do_write = FALSE /\ do_stepgen = FALSE /\ ready = FALSE
    /\ param \in Param /\ checked = NoCfg
    /\ reply_delay = InitDelay /\ old_vel = 0
    /\ rx = Nothing /\ tx = RstMsg
    /\ toBoard = <<>> /\ toHost = <<>>
    /\ board = "up" /\ downFor = 0
    /\ boardCfg = PowerOnCfg /\ boardVel = 0 /\ boardTimed = FALSE /\ alive = FALSE
    /\ calm = FALSE
    /\ silent = 0 /\ raced = FALSE

FaultsAllowed == ~calm /\ rxerr < MaxRxErr

-----------------------------------------------------------------------------
(* read                                                                    *)

GoOn == pc' = "supervisor"

\* The board stays down for RebootCycles periods of the thread.
PeriodPasses == downFor' = IF board = "down" /\ downFor < RebootCycles
                           THEN downFor + 1 ELSE downFor

Receive ==
    /\ toHost # <<>>
    /\ rx' = Head(toHost)
    /\ toHost' = Tail(toHost)
    /\ silent' = 0

\* The answer is late, or none is coming.
Unanswered ==
    /\ toHost = <<>>
    /\ FaultsAllowed \/ board # "up" \/ toBoard = <<>>
    /\ UNCHANGED toHost

TimeOut ==
    /\ Unanswered
    /\ rx' = Answer("timeout", 0)
    /\ silent' = IF silent <= RxTimeout THEN silent + 1 ELSE silent

\* Any other error of rt_dev_recv, or a datagram that is no reply.
RecvError ==
    /\ FaultsAllowed /\ Unanswered
    /\ rx' = Answer("error", 0)
    /\ UNCHANGED silent

read ==
    /\ pc = "read"
    /\ \/ ~do_read /\ UNCHANGED <<rx, toHost, silent>>
       \/ do_read /\ (Receive \/ TimeOut \/ RecvError)
    /\ board = "up" => Len(toBoard) <= Backlog
    /\ GoOn
    /\ PeriodPasses
    /\ UNCHANGED <<host, toBoard, board, boardCfg, boardVel, boardTimed, alive, calm, raced>>

-----------------------------------------------------------------------------
(* supervisor, one action per state and outcome.  rcv_reply compares the   *)
(* type word of the reply only; RCV_TIMEOUT is the timeout error only.     *)

RcvTimeout == rx.type = "timeout"
RcvReply(t) == rx.type = t

InState(s) ==
    /\ pc = "supervisor" /\ state = s
    /\ pc' = "stepgen"
    /\ UNCHANGED <<rx, net, firmware, calm, silent, raced, old_vel>>

\* Mutants: one of the two flags stays as it is.
GoOffline_KeepsReady == do_stepgen' = FALSE /\ UNCHANGED ready
GoOffline_KeepsStepgen == UNCHANGED do_stepgen /\ ready' = FALSE
GoOffline == do_stepgen' = FALSE /\ ready' = FALSE

Rst ==
    /\ InState("RST")
    /\ state' = "RSTWAIT"
    /\ do_read' = TRUE /\ do_write' = TRUE /\ GoOffline
    /\ tx' = RstMsg
    /\ count' = 0
    /\ UNCHANGED <<sum, tmp, rxerr, param, checked, reply_delay>>

\* check_params: what the user set is made acceptable and remembered.
ParamsChanged == param # checked
CheckParams == param' = Accepted[param] /\ checked' = Accepted[param]

\* The label _cfg.
SendConfig ==
    /\ do_read' = TRUE /\ do_write' = TRUE
    /\ CheckParams
    /\ tx' = CfgMsg(Accepted[param])
    /\ state' = "CFGWAIT"
    /\ count' = 0
    /\ UNCHANGED <<sum, tmp, rxerr, reply_delay>>

StartMeasuring ==
    /\ state' = "GETCYCLETIME"
    /\ do_write' = TRUE
    /\ tx' = Idle
    /\ count' = 0 /\ sum' = 0 /\ tmp' = 0
    /\ UNCHANGED <<do_read, do_stepgen, ready, rxerr, param, checked, reply_delay>>

\* Mutant: the wait has no limit.
AfterTimeout_ForEver(limit) == UNCHANGED <<state, count>>
\* The state waits on, or gives up after `limit` more timeouts.
AfterTimeout(limit) ==
    /\ state' = IF count > limit THEN "RST" ELSE state
    /\ count' = count + 1

KeepWaiting(limit) ==
    /\ do_read' = TRUE /\ do_write' = FALSE
    /\ AfterTimeout(limit)
    /\ UNCHANGED <<do_stepgen, ready, tx, sum, tmp, rxerr, param, checked, reply_delay>>

StartOver ==
    /\ state' = "RST"
    /\ do_read' = TRUE /\ do_write' = FALSE
    /\ UNCHANGED <<do_stepgen, ready, tx, measure, rxerr, param, checked, reply_delay>>

RstWait ==
    /\ InState("RSTWAIT")
    /\ \/ RcvTimeout /\ KeepWaiting(TimeoutRst)
       \/ RcvReply("RST") /\ reply_delay # 0 /\ SendConfig
             /\ UNCHANGED <<do_stepgen, ready>>
       \/ RcvReply("RST") /\ reply_delay = 0 /\ StartMeasuring
       \/ ~RcvTimeout /\ ~RcvReply("RST") /\ StartOver

\* Wait until the reported cycle time has stopped growing for Readings
\* replies; their average, less the transit time, is the reply delay.  send_idle
\* comes last and puts the delay that holds by then into the datagram.
Growing == tmp < rx.cycle
LongEnough == rx.cycle > HalfPeriod
LastReading == LongEnough /\ ~Growing /\ count + 1 = Readings

\* Mutant: the sum goes on.
RestartAverage_KeepsSum == count' = 0 /\ UNCHANGED sum
RestartAverage == count' = 0 /\ sum' = 0

GetCycleTime ==
    /\ InState("GETCYCLETIME")
    /\ \/ /\ RcvReply("CMD")
          /\ do_read' = TRUE /\ do_write' = TRUE
          /\ \/ ~LongEnough /\ UNCHANGED <<state, measure, reply_delay>>
             \/ /\ LongEnough /\ Growing
                /\ tmp' = rx.cycle /\ RestartAverage
                /\ UNCHANGED <<state, reply_delay>>
             \/ /\ LongEnough /\ ~Growing /\ ~LastReading
                /\ count' = count + 1 /\ sum' = sum + rx.cycle
                /\ UNCHANGED <<tmp, state, reply_delay>>
             \/ /\ LastReading
                /\ state' = "SETREPLYDELAY"
                /\ reply_delay' = ((sum + rx.cycle) \div Readings - RxTxDelay) % DelayMod
                /\ count' = 0 /\ sum' = 0 /\ tmp' = 0
          /\ tx' = [Idle EXCEPT !.delay = reply_delay']
          /\ UNCHANGED <<do_stepgen, ready, rxerr, param, checked>>
       \/ ~RcvReply("CMD") /\ StartOver

\* Mutant: the delay is a signed number.
Shorter_Signed == reply_delay - 1
Shorter == (reply_delay - 1) % DelayMod

\* Shorten the reply delay until replies have come for 2 s.  send_idle puts
\* the new delay into the datagram.
SetReplyDelay ==
    /\ InState("SETREPLYDELAY")
    /\ \/ /\ RcvReply("CMD")
          /\ tmp' = IF Growing THEN rx.cycle ELSE tmp
          /\ count' = IF Growing THEN 0 ELSE count + 1
          /\ state' = IF count' >= Settle THEN "CFG" ELSE state
          /\ tx' = Idle
          /\ do_read' = TRUE /\ do_write' = TRUE
          /\ UNCHANGED <<do_stepgen, ready, sum, rxerr, param, checked, reply_delay>>
       \/ /\ RcvTimeout
          /\ reply_delay' = Shorter
          /\ tx' = [Idle EXCEPT !.delay = Shorter]
          /\ do_read' = TRUE /\ do_write' = TRUE
          /\ UNCHANGED <<state, do_stepgen, ready, measure, rxerr, param, checked>>
       \/ ~RcvReply("CMD") /\ ~RcvTimeout /\ StartOver

Cfg ==
    /\ InState("CFG")
    /\ SendConfig
    /\ UNCHANGED <<do_stepgen, ready>>

\* Mutant: the state takes any reply for its own.
Confirmed_AnyReply == ~RcvTimeout
Confirmed == RcvReply("CFG")

CfgWait ==
    /\ InState("CFGWAIT")
    /\ \/ RcvTimeout /\ KeepWaiting(TimeoutCfg)
       \/ /\ Confirmed
          /\ state' = "TXRXREADY"
          /\ do_read' = TRUE /\ do_write' = TRUE
          /\ tx' = Idle
          /\ UNCHANGED <<do_stepgen, ready, measure, rxerr, param, checked, reply_delay>>
       \/ ~RcvTimeout /\ ~Confirmed /\ StartOver

GoodReply ==
    /\ RcvReply("CMD")
    /\ IF ParamsChanged
       THEN GoOffline /\ SendConfig
       ELSE /\ do_read' = TRUE /\ do_write' = TRUE /\ do_stepgen' = TRUE /\ ready' = TRUE
            /\ rxerr' = IF rxerr > 0 THEN rxerr - 1 ELSE 0
            /\ UNCHANGED <<state, measure, tx, param, checked, reply_delay>>

Tolerable == RcvTimeout /\ rxerr < RxTimeout

Tolerate ==
    /\ Tolerable
    /\ do_read' = TRUE /\ do_write' = TRUE /\ do_stepgen' = FALSE
    /\ rxerr' = rxerr + 1
    /\ tx' = Idle
    /\ UNCHANGED <<state, ready, measure, param, checked, reply_delay>>

\* The guard of the tolerated timeout counts this one even when it fails.
Disconnect ==
    /\ ~RcvReply("CMD") /\ ~Tolerable
    /\ state' = "RST"
    /\ do_read' = TRUE /\ do_write' = FALSE /\ GoOffline
    /\ rxerr' = IF RcvTimeout THEN rxerr + 1 ELSE rxerr
    /\ UNCHANGED <<measure, tx, param, checked, reply_delay>>

TxRxReady == InState("TXRXREADY") /\ (GoodReply \/ Tolerate \/ Disconnect)

supervisor ==
    \/ Rst \/ RstWait \/ GetCycleTime \/ SetReplyDelay \/ Cfg \/ CfgWait \/ TxRxReady

-----------------------------------------------------------------------------
(* stepgen and write                                                       *)

\* The commanded velocity, approached by at most one unit a period.
Ramp(target) ==
    IF target > old_vel + 1 THEN old_vel + 1
    ELSE IF target < old_vel - 1 THEN old_vel - 1
    ELSE target

\* A disabled channel is sent velocity 0; its old_vel stays.
stepgen ==
    /\ pc = "stepgen"
    /\ pc' = "write"
    /\ \/ ~do_stepgen /\ UNCHANGED <<old_vel, tx>>
       \/ do_stepgen /\ tx' = CmdMsg(0) /\ UNCHANGED old_vel
       \/ /\ do_stepgen
          /\ \E target \in (-MaxSpeed)..MaxSpeed : old_vel' = Ramp(target)
          /\ tx' = CmdMsg(old_vel')
    /\ raced' = FALSE
    /\ UNCHANGED <<state, measure, rxerr, flags, param, checked, reply_delay,
                   rx, net, firmware, calm, silent>>

\* A board that is down, or whose buffers are full, misses the datagram.
write ==
    /\ pc = "write"
    /\ pc' = "read"
    /\ toBoard' = IF do_write /\ board # "down" /\ Len(toBoard) < MaxQueue
                  THEN Append(toBoard, tx) ELSE toBoard
    /\ UNCHANGED <<host, rx, toHost, firmware, calm, silent, raced>>

SetParam ==
    /\ ~calm
    /\ \E p \in Param \ {param} : param' = p
    /\ raced' = (raced \/ pc = "stepgen")
    /\ UNCHANGED <<pc, state, measure, rxerr, flags, checked, reply_delay, old_vel, tx,
                   rx, net, firmware, calm, silent>>

-----------------------------------------------------------------------------
(* The board, as the host sees it: main.c's dispatcher and what the three  *)
(* requests do to the step generator.                                      *)

Request(t) ==
    /\ board = "up" /\ toBoard # <<>> /\ Head(toBoard).type = t
    /\ toBoard' = Tail(toBoard)
    /\ UNCHANGED <<pc, host, rx, downFor, calm, silent, raced>>

\* The socket of the host keeps MaxQueue datagrams.
Send(a) == toHost' = IF Len(toHost) < MaxQueue THEN Append(toHost, a) ELSE toHost

BoardRst ==
    /\ Request("RST")
    /\ boardVel' = 0 /\ boardTimed' = FALSE
    /\ Send(Answer("RST", 0))
    /\ UNCHANGED <<board, boardCfg, alive>>

BoardCfg ==
    /\ Request("CFG")
    /\ boardCfg' = Head(toBoard).cfg
    /\ Send(Answer("CFG", 0))
    /\ UNCHANGED <<board, boardVel, boardTimed, alive>>

BoardCmd ==
    /\ Request("CMD")
    /\ boardVel' = Head(toBoard).vel
    /\ UNCHANGED boardCfg
    /\ IF Head(toBoard).delay > HangDelay
       THEN board' = "hung" /\ UNCHANGED <<toHost, boardTimed, alive>>
       ELSE /\ boardTimed' = TRUE /\ alive' = TRUE
            /\ \E c \in IF boardTimed THEN CycleTime ELSE {0} : Send(Answer("CMD", c))
            /\ UNCHANGED board

\* The half-second timer of the main loop (main.c:163-172), at any moment.
BoardTimer ==
    /\ ~calm /\ board = "up"
    /\ alive' = FALSE
    /\ boardVel' = IF alive THEN boardVel ELSE 0
    /\ boardTimed' = (boardTimed /\ alive)
    /\ UNCHANGED <<pc, host, rx, net, board, downFor, boardCfg, calm, silent, raced>>

\* The watchdog, or the power switch.
Reboot ==
    /\ (board = "hung" /\ rxerr < MaxRxErr) \/ (board = "up" /\ FaultsAllowed)
    /\ board' = "down" /\ downFor' = 0
    /\ boardCfg' = PowerOnCfg /\ boardVel' = 0 /\ boardTimed' = FALSE /\ alive' = FALSE
    /\ toBoard' = <<>>
    /\ UNCHANGED <<pc, host, rx, toHost, calm, silent, raced>>

ComeUp ==
    /\ board = "down" /\ downFor >= RebootCycles
    /\ board' = "up"
    /\ UNCHANGED <<pc, host, rx, net, downFor, boardCfg, boardVel, boardTimed, alive,
                   calm, silent, raced>>

Lose ==
    /\ FaultsAllowed
    /\ \/ toBoard # <<>> /\ toBoard' = Tail(toBoard) /\ UNCHANGED toHost
       \/ toHost # <<>> /\ toHost' = Tail(toHost) /\ UNCHANGED toBoard
    /\ UNCHANGED <<pc, host, rx, firmware, calm, silent, raced>>

CalmDown ==
    /\ ~calm /\ calm' = TRUE
    /\ UNCHANGED <<pc, host, rx, net, firmware, silent, raced>>

ServoThread == read \/ supervisor \/ stepgen \/ write
Board == BoardRst \/ BoardCfg \/ BoardCmd

Next ==
    \/ ServoThread \/ SetParam
    \/ Board \/ BoardTimer \/ Reboot \/ ComeUp
    \/ Lose \/ CalmDown

Spec == Init /\ [][Next]_vars

\* The servo thread is periodic; the main loop of the board polls; the
\* watchdog bites a board that hangs, and the board starts again.
Fairness ==
    /\ WF_vars(ServoThread) /\ WF_vars(Board)
    /\ WF_vars(board = "hung" /\ Reboot) /\ WF_vars(ComeUp)

FairSpec == Spec /\ Fairness

-----------------------------------------------------------------------------

Word == 0..(DelayMod - 1)
Speed == (-MaxSpeed)..MaxSpeed
Message == {RstMsg} \cup {CfgMsg(p) : p \in Param}
    \cup [type : {"CMD"}, delay : Word, vel : Speed, cfg : Param \cup {NoCfg},
          raced : BOOLEAN]
Reply == [type : {"RST", "CFG", "CMD"}, cycle : Nat]

\* Every variable keeps its type; reply_delay is an unsigned word.
TypeOK ==
    /\ pc \in {"read", "supervisor", "stepgen", "write"}
    /\ state \in States
    /\ count \in Nat /\ sum \in Nat /\ tmp \in Nat /\ rxerr \in Nat
    /\ do_read \in BOOLEAN /\ do_write \in BOOLEAN /\ do_stepgen \in BOOLEAN
    /\ ready \in BOOLEAN
    /\ param \in Param /\ checked \in Param \cup {NoCfg}
    /\ reply_delay \in Word /\ old_vel \in Speed
    /\ rx.type \in {"RST", "CFG", "CMD", "none", "timeout", "error"} /\ rx.cycle \in Nat
    /\ tx \in Message
    /\ toBoard \in Seq(Message) /\ Len(toBoard) <= MaxQueue
    /\ toHost \in Seq(Reply) /\ Len(toHost) <= MaxQueue
    /\ board \in {"up", "hung", "down"} /\ downFor \in 0..RebootCycles
    /\ boardCfg \in Param /\ boardVel \in Speed
    /\ boardTimed \in BOOLEAN /\ alive \in BOOLEAN /\ calm \in BOOLEAN
    /\ silent \in 0..(RxTimeout + 1) /\ raced \in BOOLEAN

\* What the two sides need of the link to agree: an answer is late by no more
\* than one datagram, and the restart of the board outlasts the answers still
\* on their way and the timeouts the module tolerates.
Timely == Backlog <= 1 /\ RebootCycles > Backlog + RxTimeout + 2

\* While the module says ready, the board runs on the parameters last
\* checked, through every loss, late answer, restart and change of them
\* (rt8p8c.comp:741-779).
ConfigAgrees == ready /\ board = "up" => boardCfg = checked

Moving(m) == m.type = "CMD" /\ m.vel # 0

\* A velocity other than zero reaches the step generator only under the
\* parameters it was computed with, unless the user changed them between
\* supervisor and stepgen of the period that computed it: supervisor compares
\* them with their old_ copies, stepgen reads them again without a comparison
\* (rt8p8c.comp:453-485, 768-784).
MotionUnderConfig ==
    board = "up" /\ toBoard # <<>> /\ Moving(Head(toBoard)) /\ ~Head(toBoard).raced
        => boardCfg = Head(toBoard).cfg

\* The same without the exception, which the code does not keep: a change in that
\* gap has a velocity computed with widths the board does not have.
AlwaysUnderConfig ==
    board = "up" /\ toBoard # <<>> /\ Moving(Head(toBoard))
        => boardCfg = Head(toBoard).cfg

\* Only a ready module puts a moving command on the wire; a timeout, tolerated
\* or not, stops the motion (rt8p8c.comp:787-802).
MovesOnlyWhenReady ==
    pc = "write" /\ do_write /\ tx.type = "CMD" /\ tx.vel # 0 => ready /\ silent = 0

\* A ready module has not missed more than RX_TIMEOUT answers in a row.
ReadyHearsBoard == ready /\ pc # "supervisor" => silent <= RxTimeout

\* A lone timeout does not cost the connection: "allow for occassional
\* timeouts" (rt8p8c.comp:788).
ToleratesOneTimeout ==
    [][state = "TXRXREADY" /\ RcvTimeout /\ state' = "RST" => silent > RxTimeout]_vars

\* What the delay the user gives must satisfy for the difference not to wrap:
\* it does not exceed the shortest reading that counts, half a period
\* (rt8p8c.comp:347-348, 683), and a cycle time is a word of the reply.
Measurable == RxTxDelay <= HalfPeriod + 1 /\ CycleTime \subseteq Word

\* The measurement hands over the average of readings that are all longer than
\* half a period and none longer than the longest seen (rt8p8c.comp:681-700).
MeasuredInRange ==
    [][state = "GETCYCLETIME" /\ state' = "SETREPLYDELAY"
        => reply_delay' + RxTxDelay \in (HalfPeriod + 1)..tmp]_vars

\* The measured reply delay is one the board can wait for: "Reply delay in
\* 10us" (rt8p8c.comp:43), shortened on every timeout (rt8p8c.comp:728-729).
DelayInReach == reply_delay <= HangDelay

\* A velocity command differs from the command before it by no more than one
\* period's ramp, unless it stops the channel: "Maximum acceleration"
\* (rt8p8c.comp:50), "apply accel limit" (rt8p8c.comp:521).
RampRespected ==
    [][tx.type = "CMD" /\ tx'.type = "CMD"
        => tx'.vel \in {0} \cup (tx.vel - 1)..(tx.vel + 1)]_vars

\* Once faults and changes stop, and the reply delay stays one the board can wait
\* for, the module becomes ready and stays so: neither a stale answer nor a hang
\* keeps the two out of step for ever (rt8p8c.comp:634-814).
Recovers == <>[](calm /\ DelayInReach) => <>[]ready

=============================================================================
