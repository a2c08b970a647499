------------------------------ MODULE MainLoop ------------------------------
(***************************************************************************)
(* The main loop of the firmware (firmware/main.c): the alive timeout, the *)
(* two software timers on the wrapping millisecond clock, the watchdog,    *)
(* and the one UDP connection that decides whose datagrams are heard.      *)
(*                                                                         *)
(* One pass of the loop takes a frame or, only if there is none, looks at  *)
(* the timers.  The clock interrupt ticks at any moment.  What a request   *)
(* does to the step generator is StepGen's; here it moves or stands.       *)
(***************************************************************************)
EXTENDS Integers, FiniteSets

CONSTANTS
    Interval, ArpInterval,  \* of the two timers, in clock ticks
    ClockMod,               \* range of clock_time_t, an int
    Startup,                \* ticks until ether_init is done, at most
    Wdt,                    \* period of the watchdog
    Delay,                  \* reply delays of a >CMD, in ticks
    Host, Port, None,       \* addresses and ports of clients; an unbound one
    Late                    \* frames and replies keep the loop from its timers no longer

ASSUME MainLoopAssumption ==
    /\ Interval \in Nat \ {0} /\ ArpInterval \in Nat /\ Late \in Nat \ {0}
    /\ Late < Interval /\ Interval <= ArpInterval /\ Startup \in 1..Interval
    /\ ClockMod \in Nat /\ ClockMod % 2 = 0
    /\ Wdt \in Nat /\ Delay \subseteq Nat
    /\ ClockMod > 2 * (ArpInterval + Interval + 2 * Late + Wdt)
    /\ None \notin Host \cup Port

Client == [host : Host, port : Port]

VARIABLES
    timeval,
    periodic_timer, arp_timer,  \* their start
    alive,
    rport, ripaddr,             \* the remote end of the connection
    moving,                     \* the step generator has a velocity
    pc,                         \* "poll", "delay" in get_feedback, "arp"
    delay,                      \* ticks left of the reply delay
    unkicked                    \* ticks since the watchdog was cleared

VARIABLES
    sinceCmd,                   \* ticks since a >CMD, up to ClockMod
    untested,                   \* ticks since the loop looked at its timers
    served,                     \* clients answered since the connection was polled
    heard                       \* hosts answered since the chip started

connection == <<rport, ripaddr, served, heard>>
timers == <<periodic_timer, arp_timer>>
vars == <<timeval, timers, alive, connection, moving, pc, delay, unkicked,
          sinceCmd, untested>>

\* timer_expired: the difference is an int, so it survives a wrap of the clock.
Elapsed(start) ==
    LET d == (timeval - start) % ClockMod
    IN  IF d < ClockMod \div 2 THEN d ELSE d - ClockMod

\* Mutant: the clock is compared with the time the timer is due.
Expired_Absolute(start, interval) == timeval >= (start + interval) % ClockMod
Expired(start, interval) == Elapsed(start) >= interval

Reset(start, interval) == (start + interval) % ClockMod

\* The loop is entered: the timers were set, one after the other, before
\* ether_init.
Init ==
    /\ timeval \in 1..Startup /\ periodic_timer = 0 /\ arp_timer \in {0, 1}
    /\ alive = FALSE /\ moving = FALSE
    /\ rport = None /\ ripaddr = None /\ served = {} /\ heard = {}
    /\ pc = "poll" /\ delay = 0
    /\ unkicked = 0 /\ sinceCmd = ClockMod /\ untested = 0

\* The watchdog bites before the reply delay is over.
Doomed == pc = "delay" /\ unkicked + delay > Wdt

-----------------------------------------------------------------------------

\* CoreTimerHandler, when timeval advances.  Other frames end soon enough for
\* the loop to look at its timers every Late ticks.
Tick ==
    /\ unkicked < Wdt
    /\ untested < Late \/ Doomed
    /\ timeval' = (timeval + 1) % ClockMod
    /\ delay' = IF delay > 0 THEN delay - 1 ELSE 0
    /\ unkicked' = unkicked + 1
    /\ sinceCmd' = IF sinceCmd < ClockMod THEN sinceCmd + 1 ELSE sinceCmd
    /\ untested' = untested + 1
    /\ UNCHANGED <<timers, alive, connection, moving, pc>>

\* The end of a pass clears the watchdog.
EndPass == pc' = "poll" /\ unkicked' = 0

TakeFrame == pc = "poll" /\ untested < Late /\ UNCHANGED <<timeval, timers, untested>>

\* Mutant: the remote address is not compared.
Matches_AnyHost(c) == rport \in {None, c.port}
\* uip.c: a datagram is dropped unless the connection is free for its sender.
Matches(c) ==
    /\ rport \in {None, c.port}
    /\ ripaddr \in {None, c.host}

Bind(c) == ripaddr' = c.host /\ rport' = c.port

\* udp_appcall binds the connection to the sender and answers it.
AnswerTo(c) ==
    Bind(c) /\ served' = served \cup {c} /\ heard' = heard \cup {c.host}

\* A frame that is no datagram for us, or from the wrong client.
OtherFrame ==
    /\ TakeFrame /\ EndPass
    /\ UNCHANGED <<alive, connection, moving, delay, sinceCmd>>

\* >RST, and every datagram that is neither >RST nor >CMD.
Request(c, resets) ==
    /\ TakeFrame /\ Matches(c) /\ EndPass
    /\ moving' = (moving /\ ~resets)
    /\ AnswerTo(c)
    /\ UNCHANGED <<alive, delay, sinceCmd>>

\* >CMD: stepgen_update_input stores the velocities, then waits, for no longer
\* than Late allows or for ever.
Cmd(c, moves, d) ==
    /\ TakeFrame /\ Matches(c)
    /\ untested + d <= Late \/ unkicked + d > Wdt
    /\ moving' = moves
    /\ delay' = d
    /\ pc' = "delay"
    /\ sinceCmd' = 0
    /\ AnswerTo(c)
    /\ UNCHANGED <<alive, unkicked>>

\* Mutant: only a reset tells the interface is alive.
AliveAgain_Never == alive
AliveAgain == TRUE

CmdDone ==
    /\ pc = "delay" /\ delay = 0
    /\ alive' = AliveAgain
    /\ sinceCmd' = 0
    /\ EndPass
    /\ UNCHANGED <<timeval, timers, connection, moving, delay, untested>>

-----------------------------------------------------------------------------

\* The pass without a frame.
LookAtTimers == pc = "poll" /\ untested' = 0 /\ UNCHANGED <<timeval, delay, sinceCmd>>

NotYet ==
    /\ LookAtTimers /\ ~Expired(periodic_timer, Interval)
    /\ EndPass
    /\ UNCHANGED <<timers, alive, connection, moving>>

\* Mutant: the timeout leaves the step generator alone.
Timeout_Ignored == moving
\* stepgen_reset, unless a >CMD came since the last time.
Timeout == moving /\ alive

\* Mutant: a poll is no news to the application.
FreePort_Never == rport
\* Polled, the application frees the remote port.
FreePort == None

\* uip_udp_periodic: of all connections one has a local port and is polled.
Poll == rport' = FreePort /\ served' = {} /\ UNCHANGED heard

Periodic ==
    /\ LookAtTimers /\ Expired(periodic_timer, Interval)
    /\ periodic_timer' = Reset(periodic_timer, Interval)
    /\ alive' = FALSE
    /\ moving' = Timeout
    /\ Poll
    /\ pc' = "arp"
    /\ UNCHANGED <<arp_timer, ripaddr, unkicked>>

\* uip_arp_timer, when it is due.
ArpTimer ==
    /\ pc = "arp"
    /\ arp_timer' = IF Expired(arp_timer, ArpInterval)
                    THEN Reset(arp_timer, ArpInterval) ELSE arp_timer
    /\ EndPass
    /\ UNCHANGED <<timeval, periodic_timer, alive, connection, moving, delay,
                   sinceCmd, untested>>

\* The chip starts again.
WatchdogReset ==
    /\ unkicked = Wdt
    /\ timeval' \in 1..Startup /\ periodic_timer' = 0 /\ arp_timer' \in {0, 1}
    /\ alive' = FALSE /\ moving' = FALSE
    /\ rport' = None /\ ripaddr' = None /\ served' = {} /\ heard' = {}
    /\ pc' = "poll" /\ delay' = 0
    /\ unkicked' = 0 /\ untested' = 0
    /\ UNCHANGED sinceCmd

Timers == NotYet \/ Periodic \/ ArpTimer

Next ==
    \/ Tick
    \/ OtherFrame
    \/ \E c \in Client, resets \in BOOLEAN : Request(c, resets)
    \/ \E c \in Client, moves \in BOOLEAN, d \in Delay : Cmd(c, moves, d)
    \/ CmdDone
    \/ Timers
    \/ WatchdogReset

Spec == Init /\ [][Next]_vars

\* The clock ticks, the loop goes round, and the watchdog is armed.
Fairness == WF_vars(Tick) /\ WF_vars(CmdDone) /\ WF_vars(Timers) /\ WF_vars(WatchdogReset)

FairSpec == Spec /\ Fairness

-----------------------------------------------------------------------------

Clock == 0..(ClockMod - 1)

\* Every variable keeps its type.
TypeOK ==
    /\ timeval \in Clock /\ periodic_timer \in Clock /\ arp_timer \in Clock
    /\ alive \in BOOLEAN /\ moving \in BOOLEAN
    /\ rport \in Port \cup {None} /\ ripaddr \in Host \cup {None}
    /\ served \subseteq Client /\ heard \subseteq Host
    /\ pc \in {"poll", "delay", "arp"}
    /\ delay \in Nat
    /\ unkicked \in 0..Wdt /\ sinceCmd \in 0..ClockMod /\ untested \in 0..(Wdt + Late)

\* A host that falls silent does not leave the machine moving: motion ends by
\* the second timeout, or by the watchdog if the reply delay hangs the loop
\* (main.c:155-172, 192-194).
MotionEnds ==
    moving => sinceCmd <= IF Doomed THEN Wdt ELSE 2 * Interval + Late

\* The timeout stops no motion whose host sent a >CMD within the last interval,
\* but for the time the loop was kept from its timers (main.c:167-170).
LiveHostKept ==
    [][pc = "poll" /\ pc' = "arp" /\ moving /\ ~moving'
        => sinceCmd >= Interval - Late]_vars

\* Neither timer gets ahead of the clock or falls behind it, also when the
\* clock wraps (timer.c:87-123, main.c:157-190).
TimersOnTime ==
    ~Doomed =>
        /\ Elapsed(periodic_timer) \in 0..(Interval + Late)
        /\ Elapsed(arp_timer) \in 0..(ArpInterval + Interval + 2 * Late)

\* Only the host answered first after the start of the chip is ever answered.
OneHost == heard \subseteq {ripaddr}

\* Between two polls one client is answered, and it is the one the connection is
\* bound to.  Until the chip starts again its host is the first one answered: a poll
\* frees the remote port and keeps the remote address, so that a client on another
\* host stays unheard (main.c:233-238, uip.c:1129-1137).
OneClient ==
    /\ Cardinality(served) <= 1
    /\ \A c \in served : c.host = ripaddr /\ c.port = rport
    /\ OneHost

\* A client that comes back under another port is not locked out for ever: the
\* remote port becomes free again (main.c:237-238).
PortFreed == rport # None ~> rport = None

=============================================================================
