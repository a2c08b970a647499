--------------------------- MODULE MainLoopProofs ---------------------------
(***************************************************************************)
(* The main loop for every interval, clock width and reply delay: the      *)
(* connection is one client's, the timers keep up with the wrapping clock, *)
(* and motion ends when the host falls silent.                             *)
(***************************************************************************)
EXTENDS MainLoop, FiniteSetTheorems, TLAPS

\* How far the timers have come.
P == Elapsed(periodic_timer)
A == Elapsed(arp_timer)

\* How long the loop may have been kept from its timers.
DelayInv ==
    /\ ~Doomed => untested <= Late
    /\ Doomed => untested <= Late + unkicked
    /\ pc = "delay" => /\ Doomed \/ untested + delay <= Late
                       /\ sinceCmd <= unkicked

\* The periodic timer is looked at in every pass without a frame, the ARP
\* timer only when the periodic one has expired.
TimerInv ==
    /\ 0 <= P /\ P <= Interval + untested
    /\ pc = "arp" => P <= Late + untested
    /\ 0 <= A /\ A <= ArpInterval + P + (IF pc = "arp" THEN Interval ELSE 0)

\* A >CMD is no older than the start of the periodic timer while alive is set,
\* and no older than the start before that while the machine moves.
MotionInv ==
    /\ pc = "delay" \/ alive => sinceCmd <= P
    /\ moving => sinceCmd <= P + Interval
    /\ moving /\ ~alive /\ pc # "delay" => sinceCmd >= P - Late

ClientInv ==
    \A c \in served : c.host = ripaddr /\ c.port = rport

IInv == TypeOK /\ DelayInv /\ TimerInv /\ MotionInv /\ ClientInv /\ OneHost

-----------------------------------------------------------------------------
(* The wrapping clock                                                      *)

Half == ClockMod \div 2

\* Half the clock is more than the timers ever need.
LEMMA ClockWide ==
    /\ Half \in Nat /\ ClockMod = 2 * Half
    /\ Half > ArpInterval + Interval + 2 * Late + Wdt
  BY MainLoopAssumption DEF Half

LEMMA Wraps ==
    ASSUME NEW n \in Nat \ {0}, NEW x \in Int
    PROVE  /\ x \in 0..(n - 1) => x % n = x
           /\ x \in (-n)..(-1) => x % n = x + n
           /\ x \in n..(2 * n - 1) => x % n = x - n
  OBVIOUS

\* Elapsed, of any two readings of the clock.
Ago(now, start) ==
    LET d == (now - start) % ClockMod
    IN  IF d < Half THEN d ELSE d - ClockMod

LEMMA AgoIs ==
    ASSUME NEW now \in Clock, NEW start \in Clock
    PROVE  /\ Ago(now, start) \in (-Half)..(Half - 1)
           /\ Ago(now, start) \in {now - start, now - start + ClockMod, now - start - ClockMod}
<1>1. now - start \in (-ClockMod)..(ClockMod - 1)
  BY ClockWide, MainLoopAssumption DEF Clock
<1> DEFINE d == (now - start) % ClockMod
<1>2. d \in {now - start, now - start + ClockMod} /\ d \in 0..(ClockMod - 1)
  <2>1. ClockMod \in Nat \ {0} /\ now - start \in Int
    BY ClockWide, MainLoopAssumption DEF Clock
  <2> QED
    BY <1>1, <2>1, Wraps
<1>3. Ago(now, start) = IF d < Half THEN d ELSE d - ClockMod
  BY DEF Ago
<1> HIDE DEF d
<1> QED
  BY <1>1, <1>2, <1>3, ClockWide

LEMMA ClockWraps ==
    ASSUME NEW t \in Clock, NEW i \in 0..(ClockMod - 1)
    PROVE  (t + i) % ClockMod \in Clock /\ (t + i) % ClockMod \in {t + i, t + i - ClockMod}
<1>1. ClockMod \in Nat \ {0} /\ t + i \in Int /\ t + i \in 0..(2 * ClockMod - 1)
  BY ClockWide, MainLoopAssumption DEF Clock
<1> QED
  BY <1>1, Wraps DEF Clock

\* A tick adds one to what has elapsed, also when the clock wraps.
LEMMA AgoTicks ==
    ASSUME NEW now \in Clock, NEW start \in Clock, Ago(now, start) < Half - 1
    PROVE  /\ (now + 1) % ClockMod \in Clock
           /\ Ago((now + 1) % ClockMod, start) = Ago(now, start) + 1
<1> DEFINE now1 == (now + 1) % ClockMod
<1>1. 1 \in 0..(ClockMod - 1)
  BY ClockWide, MainLoopAssumption
<1>2. now1 \in Clock /\ now1 \in {now + 1, now + 1 - ClockMod}
  BY <1>1, ClockWraps
<1> HIDE DEF now1
<1>3. now1 \in Int /\ now \in Int /\ start \in Int
  BY <1>2, MainLoopAssumption DEF Clock
<1>4. Ago(now1, start) = Ago(now, start) + 1
  BY <1>2, <1>3, AgoIs, ClockWide
<1> QED
  BY <1>2, <1>4 DEF now1

\* A timer that is started again an interval later has come that much less far.
LEMMA AgoRestarts ==
    ASSUME NEW now \in Clock, NEW start \in Clock, NEW i \in 0..(Half - 1), Ago(now, start) >= i
    PROVE  /\ Reset(start, i) \in Clock
           /\ Ago(now, Reset(start, i)) = Ago(now, start) - i
<1>1. i \in 0..(ClockMod - 1)
  BY ClockWide
<1>2. Reset(start, i) \in Clock /\ Reset(start, i) \in {start + i, start + i - ClockMod}
  BY <1>1, ClockWraps DEF Reset
<1>3. Reset(start, i) \in Int /\ now \in Int /\ start \in Int
  BY <1>2, MainLoopAssumption DEF Clock
<1> QED
  BY <1>2, <1>3, AgoIs, ClockWide

\* At the start of the loop a timer has come as far as the clock.
LEMMA AgoStarts ==
    ASSUME NEW now \in 1..Startup, NEW start \in {0, 1}
    PROVE  now \in Clock /\ start \in Clock /\ Ago(now, start) = now - start
<1>1. now \in Clock /\ start \in Clock /\ now \in Int /\ start \in Int /\ now - start \in 0..(Half - 1)
  BY ClockWide, MainLoopAssumption DEF Clock
<1> QED
  BY <1>1, AgoIs, ClockWide

LEMMA TimersAgo ==
    /\ \A start : Elapsed(start) = Ago(timeval, start)
    /\ P = Ago(timeval, periodic_timer) /\ A = Ago(timeval, arp_timer)
    /\ P' = Ago(timeval', periodic_timer') /\ A' = Ago(timeval', arp_timer')
  BY DEF P, A, Elapsed, Ago, Half

-----------------------------------------------------------------------------
(* Types                                                                   *)

\* The loop is entered the same way after power on and after the watchdog.
LEMMA EnteredTypes ==
    ASSUME NEW t \in 1..Startup, NEW a \in {0, 1}
    PROVE  t \in Clock /\ a \in Clock /\ 0 \in Clock
  BY AgoStarts

LEMMA TypesStart == Init => TypeOK
<1> SUFFICES ASSUME Init PROVE TypeOK
  OBVIOUS
<1>1. timeval \in Clock /\ arp_timer \in Clock /\ periodic_timer \in Clock
  BY EnteredTypes DEF Init
<1>2. 0 \in 0..Wdt /\ 0 \in 0..(Wdt + Late) /\ ClockMod \in 0..ClockMod /\ 0 \in Nat
  BY MainLoopAssumption
<1> QED
  BY <1>1, <1>2, Zenon DEF Init, TypeOK

LEMMA TypesKept == IInv /\ [Next]_vars => TypeOK'
<1> SUFFICES ASSUME IInv, [Next]_vars PROVE TypeOK'
  OBVIOUS
<1>1. TypeOK
  BY DEF IInv
<1>2. /\ 0 \in 0..Wdt /\ 0 \in 0..(Wdt + Late) /\ 0 \in 0..ClockMod /\ 0 \in Nat
      /\ Delay \subseteq Nat
  BY MainLoopAssumption
<1>3. ASSUME NEW c \in Client PROVE c.host \in Host /\ c.port \in Port
  BY DEF Client
<1>4. CASE Tick
  <2>1. untested + 1 \in 0..(Wdt + Late)
    <3>1. CASE untested < Late
      BY <1>1, <3>1, MainLoopAssumption DEF TypeOK
    <3>2. CASE Doomed
      BY <1>1, <1>4, <3>2, MainLoopAssumption DEF IInv, DelayInv, TypeOK, Tick
    <3> QED
      BY <1>4, <3>1, <3>2 DEF Tick
  <2>2. timeval' \in Clock
    BY <1>1, <1>4, ClockWraps, ClockWide, MainLoopAssumption DEF Tick, TypeOK
  <2>3. delay' \in Nat /\ unkicked' \in 0..Wdt /\ sinceCmd' \in 0..ClockMod
    BY <1>1, <1>4, MainLoopAssumption DEF Tick, TypeOK
  <2> QED
    BY <1>1, <1>4, <2>1, <2>2, <2>3, Zenon DEF Tick, TypeOK, timers, connection
<1>5. CASE OtherFrame
  BY <1>1, <1>2, <1>5, Zenon DEF OtherFrame, TakeFrame, EndPass, TypeOK, timers, connection
<1>6. ASSUME NEW c \in Client, NEW resets \in BOOLEAN, Request(c, resets) PROVE TypeOK'
  <2>1. moving' \in BOOLEAN
    BY <1>6, Zenon DEF Request
  <2>2. served' \subseteq Client /\ heard' \subseteq Host
    BY <1>1, <1>3, <1>6 DEF Request, AnswerTo, TypeOK
  <2> QED
    BY <1>1, <1>2, <1>3, <1>6, <2>1, <2>2, Zenon
       DEF Request, TakeFrame, EndPass, AnswerTo, Bind, TypeOK, timers
<1>7. ASSUME NEW c \in Client, NEW moves \in BOOLEAN, NEW d \in Delay, Cmd(c, moves, d)
      PROVE  TypeOK'
  <2>1. served' \subseteq Client /\ heard' \subseteq Host /\ delay' \in Nat
    BY <1>1, <1>2, <1>3, <1>7 DEF Cmd, AnswerTo, TypeOK
  <2> QED
    BY <1>1, <1>2, <1>3, <1>7, <2>1, Zenon
       DEF Cmd, TakeFrame, AnswerTo, Bind, TypeOK, timers
<1>8. CASE CmdDone
  BY <1>1, <1>2, <1>8, Zenon DEF CmdDone, AliveAgain, EndPass, TypeOK, timers, connection
<1>9. CASE NotYet
  BY <1>1, <1>2, <1>9, Zenon DEF NotYet, LookAtTimers, EndPass, TypeOK, timers, connection
<1>10. Interval \in 0..(ClockMod - 1) /\ ArpInterval \in 0..(ClockMod - 1)
  BY ClockWide, MainLoopAssumption
<1>11. CASE Periodic
  <2>1. periodic_timer' \in Clock
    BY <1>1, <1>10, <1>11, ClockWraps DEF Periodic, Reset, TypeOK
  <2>2. moving' \in BOOLEAN
    BY <1>11, Zenon DEF Periodic, Timeout
  <2>3. /\ served' \subseteq Client /\ rport' \in Port \cup {None}
        /\ heard' = heard
    BY <1>11 DEF Periodic, Poll, FreePort
  <2> QED
    BY <1>1, <1>2, <1>11, <2>1, <2>2, <2>3, Zenon DEF Periodic, LookAtTimers, TypeOK
<1>12. CASE ArpTimer
  <2>1. arp_timer' \in Clock
    BY <1>1, <1>10, <1>12, ClockWraps DEF ArpTimer, Reset, TypeOK
  <2> QED
    BY <1>1, <1>2, <1>12, <2>1, Zenon DEF ArpTimer, EndPass, TypeOK, connection
<1>13. CASE WatchdogReset
  <2>1. timeval' \in Clock /\ arp_timer' \in Clock /\ periodic_timer' \in Clock
    BY <1>13, EnteredTypes DEF WatchdogReset
  <2>2. served' \subseteq Client /\ heard' \subseteq Host
    BY <1>13 DEF WatchdogReset
  <2> QED
    BY <1>1, <1>2, <1>13, <2>1, <2>2, Zenon DEF WatchdogReset, TypeOK
<1>14. CASE UNCHANGED vars
  BY <1>1, <1>14, Zenon DEF vars, TypeOK, timers, connection
<1> QED
  BY <1>4, <1>5, <1>6, <1>7, <1>8, <1>9, <1>11, <1>12, <1>13, <1>14 DEF Next, Timers

-----------------------------------------------------------------------------
(* One client                                                              *)

\* The connection matches the sender only if it is free for it, so that a
\* client answered before is this one.
LEMMA ClientKept == IInv /\ [Next]_vars => ClientInv'
<1> SUFFICES ASSUME IInv, [Next]_vars PROVE ClientInv'
  OBVIOUS
<1>1. served \subseteq Client /\ \A c \in served : c.host = ripaddr /\ c.port = rport
  BY DEF IInv, TypeOK, ClientInv
<1>2. ASSUME NEW c \in Client, Matches(c), AnswerTo(c) PROVE ClientInv'
  <2>1. ASSUME NEW e \in served PROVE e.host = c.host /\ e.port = c.port
    <3>1. e.host \in Host /\ e.port \in Port
      BY <1>1 DEF Client
    <3> QED
      BY <1>1, <1>2, <3>1, MainLoopAssumption DEF Matches
  <2> QED
    BY <1>2, <2>1 DEF AnswerTo, Bind, ClientInv
<1>3. CASE UNCHANGED connection
  BY <1>1, <1>3 DEF connection, ClientInv
<1>4. CASE served' = {}
  BY <1>4 DEF ClientInv
<1> QED
  BY <1>2, <1>3, <1>4
     DEF Next, Timers, Tick, OtherFrame, Request, Cmd, CmdDone, NotYet, Periodic, Poll,
         ArpTimer, WatchdogReset, vars

\* A poll frees the port only, so the address the connection has is that of the
\* first host answered, and no other matches.
LEMMA HostKept == IInv /\ [Next]_vars => OneHost'
<1> SUFFICES ASSUME IInv, [Next]_vars PROVE OneHost'
  OBVIOUS
<1>1. heard \subseteq Host /\ heard \subseteq {ripaddr} /\ None \notin Host
  BY MainLoopAssumption DEF IInv, TypeOK, OneHost
<1>2. ASSUME NEW c \in Client, Matches(c), AnswerTo(c) PROVE OneHost'
  BY <1>1, <1>2 DEF Matches, AnswerTo, Bind, OneHost
<1>3. ASSUME UNCHANGED <<ripaddr, heard>> PROVE OneHost'
  BY <1>1, <1>3 DEF OneHost
<1>4. CASE heard' = {}
  BY <1>4 DEF OneHost
<1> QED
  BY <1>2, <1>3, <1>4
     DEF Next, Timers, Tick, OtherFrame, Request, Cmd, CmdDone, NotYet, Periodic, Poll,
         ArpTimer, WatchdogReset, connection, vars

-----------------------------------------------------------------------------
(* The timers and the motion                                               *)

LEMMA Ranges ==
    ASSUME TypeOK
    PROVE  /\ untested \in Nat /\ unkicked \in Nat /\ unkicked <= Wdt /\ delay \in Nat
           /\ sinceCmd \in Nat /\ sinceCmd <= ClockMod
           /\ P \in Int /\ A \in Int
           /\ pc = "delay" => (Doomed <=> unkicked + delay > Wdt)
<1>1. /\ untested \in Nat /\ unkicked \in Nat /\ unkicked <= Wdt /\ delay \in Nat
      /\ sinceCmd \in Nat /\ sinceCmd <= ClockMod
  BY MainLoopAssumption DEF TypeOK
<1>2. P \in Int /\ A \in Int
  BY AgoIs, TimersAgo, ClockWide DEF TypeOK
<1> QED
  BY <1>1, <1>2 DEF Doomed

LEMMA TimersStart ==
    ASSUME NEW t \in 1..Startup, NEW a \in {0, 1},
           timeval = t, periodic_timer = 0, arp_timer = a
    PROVE  0 <= P /\ P <= Interval /\ 0 <= A /\ A <= P
<1>1. P = t /\ A = t - a
  BY AgoStarts, TimersAgo
<1> QED
  BY <1>1, MainLoopAssumption

LEMMA Starts == Init => DelayInv /\ TimerInv /\ MotionInv /\ ClientInv /\ OneHost
<1> SUFFICES ASSUME Init PROVE DelayInv /\ TimerInv /\ MotionInv /\ ClientInv /\ OneHost
  OBVIOUS
<1>1. pc = "poll" /\ ~alive /\ ~moving /\ served = {} /\ heard = {} /\ untested = 0
  BY DEF Init
<1>2. 0 <= P /\ P <= Interval /\ 0 <= A /\ A <= P /\ P \in Int /\ A \in Int
  BY TimersStart, TypesStart, Ranges DEF Init
<1>3. ~Doomed
  BY <1>1 DEF Doomed
<1> QED
  BY <1>1, <1>2, <1>3, MainLoopAssumption DEF DelayInv, TimerInv, MotionInv, ClientInv, OneHost

LEMMA TickTimers == ASSUME IInv, Tick PROVE P' = P + 1 /\ A' = A + 1
<1>1. TypeOK /\ DelayInv /\ TimerInv
  BY DEF IInv
<1>2. P < Half - 1 /\ A < Half - 1
  <2>1. CASE pc = "arp"
    BY <1>1, <2>1, Ranges, ClockWide, MainLoopAssumption DEF Tick, TimerInv, Doomed
  <2>2. CASE pc # "arp"
    BY <1>1, <2>2, Ranges, ClockWide, MainLoopAssumption DEF Tick, TimerInv, DelayInv
  <2> QED
    BY <2>1, <2>2
<1>3. timeval \in Clock /\ periodic_timer \in Clock /\ arp_timer \in Clock
  BY <1>1 DEF TypeOK
<1>4. timeval' = (timeval + 1) % ClockMod /\ periodic_timer' = periodic_timer
      /\ arp_timer' = arp_timer
  BY DEF Tick, timers
<1> QED
  BY <1>2, <1>3, <1>4, AgoTicks, TimersAgo

\* A tick: nobody is kept waiting longer than the guard says.
LEMMA TickKept == ASSUME IInv, Tick PROVE DelayInv' /\ TimerInv' /\ MotionInv'
<1>1. TypeOK /\ DelayInv /\ TimerInv /\ MotionInv
  BY DEF IInv
<1>2. P' = P + 1 /\ A' = A + 1
  BY TickTimers
<1>3. /\ unkicked < Wdt /\ (untested < Late \/ Doomed)
      /\ delay' = IF delay > 0 THEN delay - 1 ELSE 0
      /\ unkicked' = unkicked + 1 /\ untested' = untested + 1
      /\ sinceCmd' = IF sinceCmd < ClockMod THEN sinceCmd + 1 ELSE sinceCmd
      /\ pc' = pc /\ alive' = alive /\ moving' = moving
  BY DEF Tick
<1>4. Doomed' <=> pc' = "delay" /\ unkicked' + delay' > Wdt
  BY DEF Doomed
<1>5. DelayInv'
  <2>1. CASE pc = "delay"
    BY <1>1, <1>3, <1>4, <2>1, Ranges, MainLoopAssumption DEF DelayInv
  <2>2. CASE pc # "delay"
    BY <1>1, <1>3, <1>4, <2>2, Ranges, MainLoopAssumption DEF DelayInv, Doomed
  <2> QED
    BY <2>1, <2>2
<1>6. TimerInv'
  BY <1>1, <1>2, <1>3, Ranges, MainLoopAssumption DEF TimerInv
<1>7. MotionInv'
  <2>1. P <= ClockMod
    BY <1>1, AgoIs, TimersAgo, ClockWide DEF TypeOK
  <2> QED
    BY <1>1, <1>2, <1>3, <2>1, Ranges, MainLoopAssumption, ClockWide DEF MotionInv
<1> QED
  BY <1>5, <1>6, <1>7

LEMMA TimersStand == ASSUME UNCHANGED <<timeval, timers>> PROVE P' = P /\ A' = A
  BY TimersAgo DEF timers

\* A frame: a >CMD starts a delay that the watchdog or Late bounds.
LEMMA FrameKept ==
    ASSUME IInv,
           \/ OtherFrame \/ CmdDone
           \/ \E c \in Client, resets \in BOOLEAN : Request(c, resets)
           \/ \E c \in Client, moves \in BOOLEAN, d \in Delay : Cmd(c, moves, d)
    PROVE  DelayInv' /\ TimerInv' /\ MotionInv'
<1>1. TypeOK /\ DelayInv /\ TimerInv /\ MotionInv
  BY DEF IInv
<1>2. Doomed' <=> pc' = "delay" /\ unkicked' + delay' > Wdt
  BY DEF Doomed
<1>3. CASE OtherFrame \/ \E c \in Client, resets \in BOOLEAN : Request(c, resets)
  <2>1. pc = "poll" /\ pc' = "poll" /\ UNCHANGED <<timeval, timers, untested, alive, sinceCmd>>
    BY <1>3 DEF OtherFrame, Request, TakeFrame, EndPass
  <2>3. moving' => moving
    BY <1>3, Zenon DEF OtherFrame, Request
  <2>2. P' = P /\ A' = A
    BY <2>1, TimersStand
  <2> QED
    BY <1>1, <1>2, <2>3, <2>1, <2>2, Ranges DEF DelayInv, TimerInv, MotionInv, Doomed
<1>4. CASE CmdDone
  <2>1. /\ pc = "delay" /\ delay = 0 /\ pc' = "poll" /\ UNCHANGED <<timeval, timers, untested>>
        /\ sinceCmd' = 0 /\ alive'
    BY <1>4 DEF CmdDone, EndPass, AliveAgain
  <2>2. P' = P /\ A' = A
    BY <2>1, TimersStand
  <2> QED
    BY <1>1, <1>2, <2>1, <2>2, Ranges, MainLoopAssumption DEF DelayInv, TimerInv, MotionInv
<1>5. CASE \E c \in Client, moves \in BOOLEAN, d \in Delay : Cmd(c, moves, d)
  <2>1. PICK d \in Delay :
          /\ pc = "poll" /\ pc' = "delay" /\ untested < Late /\ delay' = d /\ sinceCmd' = 0
          /\ untested + d <= Late \/ unkicked + d > Wdt
          /\ UNCHANGED <<timeval, timers, untested, unkicked>>
    BY <1>5 DEF Cmd, TakeFrame
  <2>2. P' = P /\ A' = A
    BY <2>1, TimersStand
  <2>3. d \in Nat
    BY MainLoopAssumption
  <2> QED
    BY <1>1, <1>2, <2>1, <2>2, <2>3, Ranges, MainLoopAssumption DEF DelayInv, TimerInv, MotionInv
<1> QED
  BY <1>3, <1>4, <1>5

\* A pass without a frame.
LEMMA PassKept == ASSUME IInv, Timers PROVE DelayInv' /\ TimerInv' /\ MotionInv'
<1>1. TypeOK /\ DelayInv /\ TimerInv /\ MotionInv
  BY DEF IInv
<1>2. ~Doomed' /\ pc' # "delay"
  BY DEF Timers, NotYet, Periodic, ArpTimer, EndPass, Doomed
<1>3. /\ timeval \in Clock /\ periodic_timer \in Clock /\ arp_timer \in Clock
      /\ Interval \in 0..(Half - 1) /\ ArpInterval \in 0..(Half - 1)
  BY <1>1, MainLoopAssumption, ClockWide DEF TypeOK
<1>4. CASE NotYet
  <2>1. /\ pc = "poll" /\ pc' = "poll" /\ untested' = 0
        /\ UNCHANGED <<timeval, timers, sinceCmd, alive, moving>>
        /\ ~(P >= Interval)
    BY <1>4 DEF NotYet, LookAtTimers, EndPass, Expired, P
  <2>2. P' = P /\ A' = A
    BY <2>1, TimersStand
  <2> QED
    BY <1>1, <1>2, <2>1, <2>2, Ranges, MainLoopAssumption DEF DelayInv, TimerInv, MotionInv
<1>5. CASE Periodic
  <2>1. /\ pc = "poll" /\ pc' = "arp" /\ untested' = 0 /\ ~alive' /\ moving' = (moving /\ alive)
        /\ UNCHANGED <<timeval, arp_timer, sinceCmd>>
        /\ P >= Interval /\ periodic_timer' = Reset(periodic_timer, Interval)
    BY <1>5 DEF Periodic, LookAtTimers, Expired, P, Timeout
  <2>2. P' = P - Interval /\ A' = A
    BY <1>3, <2>1, AgoRestarts, TimersAgo
  <2>3. untested <= Late
    BY <1>1, <2>1 DEF DelayInv, Doomed
  <2>4. DelayInv' /\ TimerInv'
    BY <1>1, <1>2, <2>1, <2>2, <2>3, Ranges, MainLoopAssumption DEF DelayInv, TimerInv
  <2>5. ASSUME moving' PROVE sinceCmd' <= P' + Interval /\ sinceCmd' >= P' - Late
    <3>1. moving /\ alive
      BY <2>1, <2>5
    <3> QED
      BY <1>1, <2>1, <2>2, <2>3, <3>1, Ranges, MainLoopAssumption DEF TimerInv, MotionInv
  <2> QED
    BY <1>2, <2>1, <2>4, <2>5 DEF MotionInv
<1>6. CASE ArpTimer
  <2>1. /\ pc = "arp" /\ pc' = "poll"
        /\ UNCHANGED <<timeval, periodic_timer, untested, sinceCmd, alive, moving>>
        /\ arp_timer' = IF A >= ArpInterval THEN Reset(arp_timer, ArpInterval) ELSE arp_timer
    BY <1>6 DEF ArpTimer, EndPass, Expired, A
  <2>2. P' = P /\ A' = IF A >= ArpInterval THEN A - ArpInterval ELSE A
    <3>1. CASE A >= ArpInterval
      BY <1>3, <2>1, <3>1, AgoRestarts, TimersAgo
    <3>2. CASE ~(A >= ArpInterval)
      BY <2>1, <3>2, TimersAgo
    <3> QED
      BY <3>1, <3>2
  <2>3. ~Doomed
    BY <2>1 DEF Doomed
  <2> QED
    BY <1>1, <1>2, <2>1, <2>2, <2>3, Ranges, MainLoopAssumption DEF DelayInv, TimerInv, MotionInv
<1> QED
  BY <1>4, <1>5, <1>6 DEF Timers

\* After the watchdog the loop is entered anew.
LEMMA ResetKept == ASSUME IInv, WatchdogReset PROVE DelayInv' /\ TimerInv' /\ MotionInv'
<1>1. pc' = "poll" /\ ~alive' /\ ~moving' /\ untested' = 0
  BY DEF WatchdogReset
<1>2. PICK t \in 1..Startup, a \in {0, 1} : timeval' = t /\ periodic_timer' = 0 /\ arp_timer' = a
  BY DEF WatchdogReset
<1>3. P' = t /\ A' = t - a
  BY <1>2, AgoStarts, TimersAgo
<1>4. ~Doomed'
  BY <1>1 DEF Doomed
<1> QED
  BY <1>1, <1>3, <1>4, MainLoopAssumption DEF DelayInv, TimerInv, MotionInv

LEMMA Inductive == Spec => []IInv
<1>1. Init => IInv
  BY TypesStart, Starts DEF IInv
<1>2. IInv /\ [Next]_vars => IInv'
  <2> SUFFICES ASSUME IInv, [Next]_vars PROVE DelayInv' /\ TimerInv' /\ MotionInv'
    BY TypesKept, ClientKept, HostKept DEF IInv
  <2>1. CASE UNCHANGED vars
    <3>1. P' = P /\ A' = A
      BY <2>1, TimersStand DEF vars
    <3>2. Doomed' = Doomed
      BY <2>1 DEF vars, Doomed
    <3> QED
      BY <2>1, <3>1, <3>2 DEF vars, IInv, DelayInv, TimerInv, MotionInv
  <2> QED
    BY <2>1, TickKept, FrameKept, PassKept, ResetKept DEF Next
<1> QED
  BY <1>1, <1>2, PTL DEF Spec

-----------------------------------------------------------------------------
(* What follows                                                            *)

\* Every variable keeps its type; both timers stay readings of the clock
\* (timer.c:87-123).
THEOREM TypeCorrect == Spec => []TypeOK
<1>1. IInv => TypeOK
  BY DEF IInv
<1> QED
  BY <1>1, Inductive, PTL

\* Between two polls the application answers one client, and between two starts of
\* the chip one host, however many send (main.c:233-238, uip.c:1129-1137).
THEOREM OneClientAnswered == Spec => []OneClient
<1>1. ASSUME IInv PROVE OneClient
  <2>1. served \subseteq {[host |-> ripaddr, port |-> rport]}
    BY <1>1 DEF IInv, TypeOK, ClientInv, Client
  <2>2. Cardinality(served) <= 1
    <3> DEFINE one == {[host |-> ripaddr, port |-> rport]}
    <3>1. IsFiniteSet(one) /\ Cardinality(one) = 1
      BY FS_Singleton
    <3>2. served \in SUBSET one
      BY <2>1
    <3> HIDE DEF one
    <3> QED
      BY <3>1, <3>2, FS_Subset
  <2> QED
    BY <1>1, <2>2 DEF IInv, ClientInv, OneClient
<1> QED
  BY <1>1, Inductive, PTL

\* The timers keep up with a clock that wraps (main.c:157-190).
THEOREM TimersKeepUp == Spec => []TimersOnTime
<1>1. ASSUME IInv PROVE TimersOnTime
  <2>1. TypeOK /\ DelayInv /\ TimerInv
    BY <1>1 DEF IInv
  <2>2. ASSUME ~Doomed
        PROVE  /\ P \in 0..(Interval + Late) /\ A \in 0..(ArpInterval + Interval + 2 * Late)
    BY <2>1, <2>2, Ranges, MainLoopAssumption DEF DelayInv, TimerInv
  <2> QED
    BY <2>2 DEF TimersOnTime, P, A
<1> QED
  BY <1>1, Inductive, PTL

\* A machine whose host falls silent stops within two intervals, or by the
\* watchdog (main.c:155-172, 192-194).
THEOREM SilenceStops == Spec => []MotionEnds
<1>1. ASSUME IInv PROVE MotionEnds
  <2>1. TypeOK /\ DelayInv /\ TimerInv /\ MotionInv
    BY <1>1 DEF IInv
  <2>2. CASE Doomed
    BY <2>1, <2>2, Ranges, MainLoopAssumption DEF DelayInv, MotionEnds, Doomed
  <2>3. CASE ~Doomed
    BY <2>1, <2>3, Ranges, MainLoopAssumption DEF DelayInv, TimerInv, MotionInv, MotionEnds
  <2> QED
    BY <2>2, <2>3
<1> QED
  BY <1>1, Inductive, PTL

\* The timeout stops no machine whose host sent a >CMD within the interval,
\* less the time the loop was kept from its timers (main.c:163-170).
THEOREM LiveHostMoves == Spec => LiveHostKept
<1>1. ASSUME IInv, [Next]_vars
      PROVE  [pc = "poll" /\ pc' = "arp" /\ moving /\ ~moving' => sinceCmd >= Interval - Late]_vars
  <2>1. TypeOK /\ DelayInv /\ TimerInv /\ MotionInv
    BY <1>1 DEF IInv
  <2> SUFFICES ASSUME pc = "poll", pc' = "arp", moving, ~moving'
               PROVE  sinceCmd >= Interval - Late
    OBVIOUS
  <2>2. Periodic
    BY <1>1 DEF Next, Timers, Tick, OtherFrame, Request, Cmd, CmdDone, EndPass, NotYet,
                ArpTimer, WatchdogReset, vars
  <2>3. ~alive /\ P >= Interval
    BY <2>2 DEF Periodic, Timeout, Expired, P
  <2> QED
    BY <2>1, <2>3, Ranges, MainLoopAssumption DEF MotionInv
<1> QED
  BY <1>1, Inductive, PTL DEF Spec, LiveHostKept

=============================================================================
