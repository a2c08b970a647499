# RT-8p8c: TLA+ models, checks and proofs

RT-8p8c is a step generator board (a PIC32 with Ethernet) and the LinuxCNC
module that drives it over UDP. This directory models the firmware
(`src/firmware`) and the host module (`src/hal/rt8p8c.comp`) in TLA+, checks
the models with TLC on small instances, and proves the central invariants with
TLAPS for every value of the constants. All source paths below are relative to
`src/`.

## 1. Inventory

### The system

    LinuxCNC servo thread (1 ms)             the board
      read -> supervisor -> stepgen -> write   core timer interrupt (10 us):
           \___ one UDP datagram each way ___/    stepgen()
                    per period                  main loop: ether_read, uIP,
      HAL: parameters and pins, set by            udp_appcall, timers, watchdog
      other threads and the user                Ethernet controller: two DMA engines

A period of the host is one exchange: `write` sends `>RST`, `>CFG` or `>CMD`,
the board does what it says, and answers `<RST`, `<CFG` or `<CMD` with its
position, io pins and cycle time. The answer to a `>CMD` is delayed by as many
interrupts as the command asks for, so that it arrives just before the next
`read`. Replies carry no sequence number.

| component | state | operations | correct when |
|---|---|---|---|
| step generator, `firmware/stepgen.c` | per channel: DDS position, old STEPBIT, old direction, three down counters; the command, the configuration, the cycle timer; the pins | `stepgen()` in the interrupt; `stepgen_update_input`, `stepgen_update_config`, `stepgen_reset`, `get_feedback` in the main loop | pulses keep their width, DIR its setup and hold times, under every interleaving; a reset channel stands; the position reported is the number of steps sent; every command is answered |
| supervisor, `hal/rt8p8c.comp:634-814` | a state of seven, `count`, `sum`, `tmp`, `rxerr`, the flags `do_read`, `do_write`, `do_stepgen`, `ready` | one branch per state, once a period, on a reply, a timeout or another error | while `ready`, the board runs on the parameters checked last; only then is a motion commanded, computed with those parameters; it stops when answers stop; after faults it becomes ready again |
| parameter checks, `rt8p8c.comp:249-328` | the parameters and their `old_` copies | `check_stepwidth_change` ... `check_params`, `send_cfg` | one check settles them; what a ready module's board has is what was checked last |
| velocity control, `rt8p8c.comp:436-598` | `old_vel`, `old_pos`, frequency and acceleration limits | `stepgen` once a period | no velocity further from the last than the acceleration allows; position mode arrives |
| feedback and io, `rt8p8c.comp:145-209`, `firmware/hardware.h` | `accum`, `old_count`, the io words | `update_accum`, `update_output`, `pin2int`, `int2pin`, `update_io`, `read_io` | a 32-bit wrapping count becomes a 64-bit position that never jumps; input and output pins are the ones the user named |
| Ethernet driver, `firmware/etherdev.c` | one descriptor each way, three buffers, `ETHIRQ`, `TXRTS` | `buffer_init`, `ether_read`, `ether_send`; the controller's DMA | no buffer has two owners; the stack reads the frame that arrived and the wire carries the answer given; no frame is stuck |
| main loop, `firmware/main.c` | the clock, two timers, `alive`, the watchdog, the UDP connection | one pass: a frame, or the timers; `udp_appcall` | motion ends when the host is silent; a live host is spared; one client at a time, whose port becomes free again |
| timers, `firmware/uip/timer.c` | start and interval | set, reset, expired | right across the wrap of the clock |
| ARP cache, `firmware/uip/uip_arp.c` | `arp_table`, `arptime` | `uip_arp_timer`, `uip_arp_arpin`, `uip_arp_out` | one entry per host, its last claim, and it expires |
| uIP datagrams, `firmware/uip/uip.c:284-357, 842-1186, 1864-1895` | `uip_buf`, one UDP connection, the identification | header and checksum tests, ping, demultiplexing, answers, poll | a correct datagram is accepted, a damaged one never handed on, every answer verifies |
| uIP TCP, `firmware/uip/uip.c:414-536, 735-824, 1203-1862` (vendored; compiled out, `UIP_CONF_TCP` is 0) | connection slots, listening ports, one outstanding segment each | connect, listen, input in eight states, timer, application calls | the bytes sent are handed over once and in order; nothing is stuck |

### How they interact, and where it is hard

* **Interrupt against main loop.** The interrupt reads what the main loop
  writes. Both `stepgen_update_*` and `stepgen_reset` begin with a critical
  section and go on outside it; `get_feedback` spins on a counter only the
  interrupt decrements.
* **DMA against main loop.** Buffers are exchanged, never copied. The
  controller can get between any two accesses of `ether_read`/`ether_send`.
* **Two machines over a lossy link.** Either side may restart, fall silent, be
  late, or be configured anew; a late answer is taken for the next one.
* **Timeouts on both sides.** The board resets itself when no `>CMD` came for
  half a second, its watchdog bites when a reply delay outlasts it, and the host
  counts timeouts, tolerates some, and starts over.
* **Parameters change at any time**, from another HAL thread, and are corrected
  by one check in a fixed order that changes other parameters too.
* **Numbers wrap**: the 32-bit position, the millisecond clock, the byte that
  times ARP entries, the unsigned reply delay, the unsigned dirhold limit,
  checksums and sequence numbers.

`PROJECT.json` lists each of these hazards at the line where it bites, with the
properties that cover it.

## 2. Modules

| module | models | proofs |
|---|---|---|
| `StepGen` | step generator with its pins | `StepGenProofs` |
| `Supervisor` | servo thread, link, and the board as the host sees it | `SupervisorProofs` |
| `Servo` | feedback, velocity control and io pins, from the user to the board's ports and back | `ServoProofs` |
| `Params` | parameter checks and what the board was sent | `ParamsProofs` |
| `MainLoop` | main loop, timers, alive timeout, watchdog, UDP connection | `MainLoopProofs` |
| `FrameExchange` | abstract: what the main loop expects of the Ethernet driver | |
| `EtherDev` | Ethernet driver, stack as its user, controller; implements `FrameExchange` | `EtherDevProofs` |
| `UipArp` | ARP cache | `UipProofs` |
| `Checksum` | checksum arithmetic of uIP | `UipProofs` |
| `UipInput` | one datagram through uIP, over `Checksum` | `UipProofs` |
| `ReliableStream` | abstract: what TCP promises two applications | |
| `UipTcp` | TCP of uIP, two ends and a lossy cable; implements `ReliableStream` | `UipTcpProofs` |

Each of the state machines has an `MC` module with the small instance and one
`.cfg` per question. Operators named `X_Something` beside an operator `X` are
mutants of it: the same definition with a plausible bug, which the property
under that name's run must reject. Nothing else uses them.

How they fit together: `Supervisor` has of the axis a ramp and of the board what
the host can tell; `Servo` has the axis in full and of the supervisor only which
way it goes after a timeout; `StepGen`, `MainLoop` and `EtherDev` are the board's
interrupt, its loop and its driver; `UipInput` and `UipArp` are what the loop calls
between `ether_read` and `ether_send`.

### StepGen

One action is one interrupt (`stepgen`: all channels, all counters, both pins).
The interrupt has the highest priority and is not interrupted itself. The main
loop's handlers are actions that end where the code re-enables interrupts, so
that an interrupt can come between the critical section of `stepgen_reset` and
its stores to DIR, STEP and TRIS (`reset_dir`, `reset_step`, `reset_io`), and
between `stepgen_update_input`, `update_io` and `get_feedback`. The 17 fraction
bits of the accumulator are `StepLen`, the `uint32_t` wrap is `PosMod`. The
guards come from `stepgen.c:181-264` in their order: setup counter, stretch of
the low time, advance, load of width and hold, DIR, STEP. `sinceRise`,
`sinceDir`, `needWidth`, `needHold`, `needSetup`, `setupLost` and `emitted`
record what a motor driver on the pins sees; the program reads none of them.

### Supervisor

`pc` cycles through `read`, `supervisor`, `stepgen`, `write` as
`configs/MF70/MF70.hal` orders them. Each state of the supervisor is an action
whose disjuncts are the outcomes of a read. The acceleration limit is a ramp of
one unit a period towards any target. Of the parameters there is a set of
settings and what `check_params` makes of them (`Accepted`; how, is `Params`).
The board is the part of the firmware the host can tell: its configuration,
velocity, whether its cycle timer runs, `alive`; it may hang in a reply delay
longer than the watchdog allows, go down, and come back with its power-on
configuration. `calm` is an oracle: once it is true there are no more losses,
late answers, restarts or changes by the user, and `Recovers` speaks of that.

`stepgen` computes with the parameters as they are when it runs (`rt8p8c.comp:453`),
not with those `supervisor` compared with their old copies a moment before. A moving
command therefore carries, for the properties, the parameters in force when it was
computed (`cfg`) and whether the user changed them in the gap between the two
functions (`raced`). `MotionUnderConfig` excepts the commands that were raced, and
only them: the code does not keep it for those (`MCSupervisor_race.cfg`).

### Params

One channel's stepwidth, stepspace, dirsetup, dirhold and scale, their `old_`
copies, and the timings the board has. `Corrected`, `Remembered` and `Flag` are
the four macros of `check_params` in their order: stepwidth, stepspace (which
limits dirhold), dirsetup, dirhold, then scale, whose old copy is taken before
the correction. `StepPeriod` is the `u32` sum dirhold is compared with, which wraps,
as does the limit one below it, each on its own (`rt8p8c.comp:274-277`). A good
reply that finds a change jumps to `_cfg`, which checks again. The link is ideal here: sending and answering is one step.

### EtherDev

The loop has one action for every access the controller could get in front of:
the test of `RXDONE`, of the descriptor, the exchange, the release, the clearing
of `RXDONE`, the wait for `TXRTS`, the exchange, the start. The controller
(external, from how the driver uses it) stores piece by piece while `EOWN`,
hands over setting `EOWN` and `RXDONE` together, and sends while `TXRTS`.

`FrameExchange` is the same without buffers: one frame pending, one the loop works
on, one on the wire, each moved as if copied in one step. `Exchange` in `EtherDev`
maps each of the three to the content of the buffer that holds it at that moment,
so the mapping changes hands where the code exchanges pointers.

### MainLoop

A pass takes one frame or, only when there is none, looks at the timers
(`main.c:139-195`). `Tick` is the clock, at any moment. The connection is bound
by `udp_appcall` to the sender and its port freed by a poll (`main.c:233-238`),
and `Matches` is uIP's demultiplexer (`uip.c:1117-1140`). A poll frees the port and
not the address, so that a client on another host is not heard before the board is
restarted. `served` has the clients answered since the last poll, `heard` the hosts
answered since the start of the chip; the program knows neither.

### UipArp

The table, the byte clock, and the three entry points. An entry of the null
address is free; the same null is the router that `main()` never sets and the
sender of an ARP probe, which is what makes this table interesting. A packet may
claim any address, also one off the network, as `uip_arp_arpin` does not look at
the netmask. Ages are differences of two bytes, computed as `int`.

### Servo

A step is a period: the reply is read, feedback updated, the velocity computed,
the datagram sent and, unless it is lost, handled by the board, whose answer may be
lost as well. With `Early` the reply was taken before the motion of the period,
with `~Early` after it; the reply delay decides which, both are checked. Positions
are whole counts and a period is the unit of time, so that `dt` is 1 and the
estimates of position mode (`rt8p8c.comp:538-552`) are kept multiplied by
`2 * max_accl`: what remains of the code's fractions is one rounding, `Quot`, and
the tolerance of 0.0001 becomes zero. Disabling sends 0 and keeps `old_vel` and
`old_pos`, as the code does; `sent` is the velocity of the `>CMD` sent last and is
read by the properties only. A limit above what the steps or the velocity allow is
written back into the user's parameter (`rt8p8c.comp:480, 499`, `Lowered`), and so
stays lowered when the other one is raised again: `maxaccel` does. With a constant
`StepLimit` a `maxvel` written back limits as it did before. The ports are sets of
bits: `Onto` is `update_io`, which leaves bit 15 of port B and everything but bit 13 of port C alone. An idle command and a
configuration leave in the receive buffer the words the board then takes for
TRIS and LAT: any of `Leftover`. `moved` is the distance the machine moved since
the reply the host read last; the program does not know it.

### Checksum and UipInput

`Checksum` is the arithmetic for bytes of any size, including the little-endian
register in which the code adjusts the checksum of a ping reply
(`uip.c:1012-1018`): `Swap` is what `HTONS` and a load do to a word.
`UipInput` sends one datagram with correct sums, or UDP without one, changes at
most one byte on the way, and runs it through the tests of `uip_process` in their
order. `Good` and `Verifies` are what RFC 791, 792 and 768 ask of a receiver,
defined by plain sums, not by the code's carries. `original` is the datagram as it
was sent; the program does not know it. That data and protocol number fit a word
is assumed (`InputAssumption`): `upper_layer_chksum` adds the two and says that this
"cannot carry" (`uip.c:347`), as the buffer has 194 bytes (`uip-conf.h:107`). `UipArp` and `UipInput` have
one module of proofs, so the formulas of the latter are called `InputInit`,
`InputNext` and `InputSpec`.

### UipTcp

Both ends run `uip_process`: an action per segment received (`Found`,
`NoConnection`), per expiry of the timer (`Retransmit`, `WaitOver`) and per poll.
`AppSend` is the label `appsend` with every answer an application may give: abort,
close, send or nothing. It may close while data is outstanding (`uip.c:1673-1679`):
the FIN takes the number of that data, which nobody sends again, and the peer is
handed a prefix of the stream. The retransmission timer may expire at any time, so
round trip times are not needed. The segments in the network are a queue each way; loss
is the choice of `Carry`. The TCP code is vendored with the firmware and compiled
out of it: the model is of the code in the tree, and no part of the machine's
protocol uses it.

## 3. Runs

Runs that pass:

| run | question | instance, and why it is enough |
|---|---|---|
| `stepgen_timing` | are width, hold and setup kept in every interleaving of interrupt, commands, configurations and resets, and does a reset channel stand? (`TypeOK`, `StoppedUntilCommanded`, `MinPulseWidth`, `DirHold`, `DirSetup`) | one channel (channels share nothing but the command); timings up to 3, so that a new configuration can come in the middle of each; velocities up to half a step in both directions; the position wraps after two steps; replies delayed by 0 or 1 |
| `stepgen_forward` | are the steps sent the steps reported, and is each command answered? (`StepsTrackPosition`, `EveryCmdAnswered`) | velocities 0..2 at 8 counts a step: a step takes four interrupts, longer than the widest pulse plus a low interrupt, as the host's frequency limit ensures; the position wraps after 4 steps; delays 0..2 |
| `supervisor_link` | do host and board agree whenever it matters, and does a ready module hear the board? (`ConfigAgrees`, `MotionUnderConfig`, `MovesOnlyWhenReady`, `ReadyHearsBoard`) | two parameter settings, 3 datagrams in flight each way, timeouts of one, `RX_TIMEOUT` 1, faults until `rxerr` is 3; the board stays down for 6 periods, longer than the host listens for a late answer. The user gave the reply delay, one the board can wait for, so that nothing is measured and nothing hangs: that is the next run's |
| `supervisor_measure` | is the measured reply delay an average of readings that qualify, and do host and board find each other again? (`TypeOK`, `MeasuredInRange`, `Recovers`) | the default delay of 0, so that every connection measures until a delay was found; cycle times of 2 and 3, so that a longer one can come in the middle of a series, and a board that hangs in delays above 2, so that delays of 0 to 3 (wrapped) all occur; two readings; losses and restarts in between; two parameter settings, one of which is corrected, and no motion, which the question does not need; a timed-out reset is sent again at once (`TimeoutRst` 0), a configuration after one period |
| `etherdev_buffers` | can the DMA engines ever touch what the CPU holds, does the driver implement the exchange of frames, and is an announced frame taken? (`OneOwner`, `Exchanged`, `AnnouncedTaken`) | the three buffers the firmware has, and two frames to tell apart |
| `mainloop_timeout` | does motion end with the host, is a live host spared, do the timers survive the wrap, whose datagrams are heard? (`MotionEnds`, `TimersOnTime`, `LiveHostKept`, `OneClient`, `PortFreed`) | interval 3, ARP interval 6, a clock that wraps every 36 ticks, a watchdog of 4 and delays of 0, 1 and 5, the last of which it bites; two hosts with two ports |
| `arp_cache` | does a datagram go to the last claim of its host, through probes, evictions, expiries and wraps? (`OneEntryPerHost`, `LastClaimWins`, `FreshKept`) | two entries for three hosts and one off the network, so that the table fills; each of them may probe, claim and be asked for; a clock of 7 for an age of 3, the proportion of 256 to 120; hosts and MAC addresses are interchangeable (symmetry; no liveness is checked) |
| `tcp_stream` | do two ends keep their numbers in step, deliver every byte once and in order (`ReliableStream`), and get out of every state? (`TypeOK`, `InStep`, `StreamKept`, `NeverStuck`: what is busy with an opening, a close or a segment does not stay so) | three bytes one way in two segments and one byte the other; sequence numbers modulo 8 that wrap on the way; two retransmissions; two segments in flight each way, as many as one outstanding segment and its answer to a duplicate make; the server may call `uip_stop` |
| `uip_datagrams` | are correct datagrams accepted, damaged ones refused, and do all answers verify? (`GoodAccepted`, `HandedIntact`, `EchoEndToEnd`, `AnswerVerifies`) | bytes of two bits: every value of every field and every checksum occurs, sums wrap within a few words; data of no, one and two bytes; any one byte damaged |
| `servo_loop` | does the 64-bit count follow the board, the velocity sent its ramp, the pins the user, and does position mode arrive? (`PinsFollow`, `FeedbackExact`, `MotionLimited`, `Settles`) | a limit of three counts a period, set by the user to one and back to none; an acceleration of two, which the module lowers to one, for good, once it saw that limit; targets 0 and 4, so that an axis accelerates, brakes and turns, and a speed the other way, so that the position wraps below zero and position mode begins with a reversal; up to two timeouts, the second of which reconnects; settings with pins on both sides of each swap and on both ports |
| `params_check` | does one check settle the parameters, and does the board get them? (`TypeOK`, `ChecksSettle`, `BoardUpToDate`) | values 0, 1, 2 and a 2-bit word: dirhold below, at and above the period, the wrap of `0 + 0 - 1` and that of the period itself, `2 + 2` |

The type invariants of `MainLoop`, `UipArp` and `Servo` are proved (section 4) and
not checked again by these runs.

One run shows a disagreement between the code and what the repository says of it;
TLC's trace is the explanation. `stepgen_reversal`: the position advances before
its STEPBIT is remembered, and pulses go on while DIR is held. A reversal near a
crossing loses or misdirects a step, and nothing corrects it: `position-fb` is no
longer "Feedback position in counts" of the motor (`rt8p8c.comp:39`).

Further configurations stand beside these for the disagreements the models
also exhibit. Each checks one property, stating what a comment says, and TLC
refutes it:

* `MCStepGen_reset.cfg`, `DirSetupAlways`: `stepgen_reset` lowers DIR without
  `olddir` or `dirsetup` (`stepgen.c:160`); if `olddir` was negative, the first
  negative step after it raises DIR and STEP follows with no setup time, against
  "Minimum time from a direction change to the beginning of the next step pulse"
  (`rt8p8c.comp:46`).
* `MCServo_resume.cfg`, `AccelerationKept`: an axis that is disabled is sent 0 from any
  speed, and so is one after a tolerated timeout; `old_vel` stays
  (`rt8p8c.comp:446-449, 591`), and the first command after that jumps back to near
  it, although the parameter is the "Maximum acceleration" (50) and the ramp there to
  "apply accel limit" (521). `AccelerationKept` grants the stop itself, as an
  emergency stop may be one, and asks only that the axis start again from what it was
  sent. What does hold is `MotionLimited`.
* `MCSupervisor_ramp.cfg`, `RampRespected`: the same jump seen in `Supervisor`, after a
  timeout its `TXRXREADY` tolerates.
* `MCSupervisor_race.cfg`, `AlwaysUnderConfig`: another thread sets a parameter after
  `supervisor` compared it (`rt8p8c.comp:771`) and before `stepgen` reads it
  (`rt8p8c.comp:453`): one velocity is computed with a step period the board does not
  have, before the next `supervisor` finds the change.
* `MCEtherDev_deaf.cfg`, `EveryFrameTaken`: a frame handed over between the release
  of the descriptor (`etherdev.c:327`) and the clearing of `RXDONE` (331) loses its
  flag. With one descriptor, no other frame can arrive to raise it again: the board
  hears nothing until it is restarted.
* `MCSupervisor_tolerance.cfg`, `ToleratesOneTimeout`: `rxerr` survives a
  reconnection, and the failing test itself increments it, so a later lone
  timeout disconnects although `rt8p8c.comp:788` allows for occasional ones.
* `MCSupervisor_delay.cfg`, `DelayInReach`: each timeout in `SETREPLYDELAY`
  decrements the unsigned `reply_delay` (`rt8p8c.comp:729`); past zero the board
  spins until its watchdog bites, after each new connection again.
* `MCServo_jump.cfg`, `FeedbackKept`: a reconnection clears the board's position
  but not `old_count` (`rt8p8c.comp:194`); the first reply after it moves the count
  by the whole position although the axis stood still.
* `MCServo_overspeed.cfg`, `MaxVelKept`: in position mode the frequency limit is
  applied to `vel_cmd` when `new_vel` was already computed (`rt8p8c.comp:583`); the
  velocity passes "Maximum velocity".
* `MCServo_inputs.cfg`, `InputsNotDriven`: `send_idle` sends six words and the board
  takes TRIS and LAT from words eight and nine of its receive buffer; after a
  tolerated timeout a pin that is an input in every setting is driven.
* `MCUipArp_expiry.cfg`, `EntriesExpire`, and `MCUipArp_eviction.cfg`,
  `OldestEvicted`: `arptime - tabptr->time` is an `int` (`uip_arp.c:150, 204`)
  and negative for entries from before the wrap; they neither expire nor count
  as old.
* `MCUipArp_router.cfg`, `SentToKnown`: a host off the network is looked up as
  0.0.0.0, which is how a free entry is marked; the datagram goes to whatever MAC
  address that entry last held.
* `MCUipTcp_handshake.cfg`, `OpensDespiteLoss`: a SYN that comes again is
  answered with a bare ACK (`uip.c:1425-1430`), at which the client aborts
  (1556-1561), although "the SYNACK that we sent earlier" is retransmitted (782).
* `MCParams_hold.cfg`, `HoldBelowPeriod`: a shorter stepwidth does not make
  dirhold shorter (`rt8p8c.comp:260`), against "dirhold must be less than step
  period" (274).
* `MCParams_scale.cfg`, `ScaleNotZero`: a scale of zero set before the first
  check equals its old copy and is not corrected, against "scale must not be 0"
  (310). The same holds of a zero stepwidth or dirhold, which the board then
  gets: pulses of width zero (none), and no hold time.

`MCServo_early.cfg` is `servo_loop` with a short reply delay (`Early`), the target
further away and one setting of the pins; it passes, with `FeedbackExact`,
`MotionLimited` and `Settles`.

### Bounds

Every bound is a constant. `Far` (StepGen) stops the history clocks above every
timing. `MaxRxErr` (Supervisor) stops faults once `rxerr` is that large, which
no branch that tests `rxerr` can tell from a larger value when it exceeds
`RxTimeout + 1`; `MaxQueue` bounds the sockets. `Backlog` is an assumption: when
`read` gives up, at most that many datagrams still wait for the board. With
1 an answer can be a whole period late; were it 2, a late `<CFG` could confirm a
later configuration than the one it answers, because replies have no sequence
number, and TLC finds that `ConfigAgrees` fails. `Timely` (section 4) names this. `Late < Interval` (MainLoop) is an assumption
on the traffic: the loop finds a pass without a frame every `Late` ticks, or is
kept by a reply delay that outlasts the watchdog. With frames back to back the
timers starve (`main.c:163`) and motion would not end. `Startup` bounds the
ticks until the loop is entered.

`Recovers` is conditional: it asks that from some moment on there are no faults and
the reply delay is one the board can wait for (`DelayInReach`). A delay that has
wrapped past it hangs the board in every connection, and no later step of the
module makes it shorter (`MCSupervisor_delay.cfg`). The hangs up to that moment are in
`supervisor_measure`.

`ClockMod` is more than twice what the timers can fall behind, so that a difference
is never taken for a negative one; the firmware's 2^32 is far more. `Fast`
(Servo) allows no fault and no change by the user above that speed, and `Reach` no
velocity command that leads further away: they end what would otherwise accelerate
and wander for ever. `MaxFlight`
(UipTcp) loses what does not fit; as loss is allowed anyway it only removes
behaviours with more copies on the way.

### Fairness

* StepGen: weak fairness of the interrupt (the core timer runs) and of a handler
  that was entered (it runs between interrupts).
* Supervisor: of the servo thread (periodic), of the board taking a datagram (its
  loop polls), of the restart of a board that hangs (the watchdog) or is down.
  Nothing is assumed of the network: it is the oracle `calm` that ends losses.
* EtherDev: of the loop's own steps and the end of a transmission. No frame
  needs to arrive.
* MainLoop: of the clock, the end of a reply delay, the look at the timers, the
  watchdog.
* UipTcp: of receiving what has arrived, and of the two timers, which
  `uip_periodic` runs for every connection. Nothing is assumed of the cable: every
  segment may be lost, and `NeverStuck` still holds because retransmission gives up.
  Polls need not lead to anything.
* Servo: of the servo thread. `calm` ends faults and changes by the user, as in
  Supervisor.

Deadlock is checked in every run but `tcp_stream`: nothing in the machine stops,
while two TCP ends with nothing left to say do.

## 4. Proofs

All are for every value of the constants that satisfies the module's named
assumption. Type correctness of each is part of its inductive invariant.

**StepGenProofs** (`StepGenAssumption`: step length, ranges, and timings
between 1 and `Far`). `TypeCorrect`: in particular no down counter passes zero,
from where it would count on for 2^32 interrupts. The
properties are about the past (when did the pulse begin?) and the program keeps
only down counters, so none is inductive. `IInv` relates the two:
*need <= since + left (+ 1)* for the width (`WidthInv`), the hold (`HoldInv`) and
the setup (`SetupInv`), and says where the reset has got to (`QuietInv`).
`QuietPreserved`, `WidthPreserved`, `HoldPreserved` and `SetupPreserved` prove
each part from the types; `Inductive` combines them, and `Stopped`, `PulseWidth`,
`DirectionHold` and `DirectionSetup` follow, the last three being properties of
steps. `setupLost` is the exception the proof of the setup time needs: a reset
that left `olddir` or `dirsetup` behind the pin (`MCStepGen_reset.cfg`).

The assumption that no timing is zero matters: a dirhold of zero lets DIR change
in the interrupt in which a pulse begins, and the setup time would fail. The host
guarantees it except for zeros set before its first check (section 3).

`StepsCounted` assumes `Paced`: velocities are not negative, and a step lasts at
least a pulse of any configuration and one interrupt, which is the host's limit
(`rt8p8c.comp:453-454`); backwards the property is false (`stepgen_reversal`).
`StepsTrackPosition` speaks of the moments between pulses. `TrackInv` says where
the position may be during one: DIR is never turned (`Forward`); while STEP is
high, the position is past the crossing by less than the part of the width that
is over allows (`InPulse`), so it cannot cross again; otherwise the pulses sent
are the index of the position, or one less when the next interrupt will send the
missing one (`InStep`). `Pace` and the lemmas about `Offset` relate `/`, `%` and the
wrap of the position.

**SupervisorProofs** (`SupervisorAssumption`: a check of accepted parameters changes
nothing; sizes are numbers). `TypeCorrect`. The host's invariant `HostInv` is about
the host alone and so holds against any network and any board: between two functions
of the thread, a reply means silence zero (`ReplyInv`), `ready` or `do_stepgen` mean
TXRXREADY (`OnlineInv`), `do_stepgen` means a reply was just heard (`MotionInv`),
what goes out otherwise stands still (`WireInv`), and the silence of a ready module
is counted by `rxerr` (`SilenceInv`). `OnlyReadyMoves`, `ReadyIsHeard`.

`Agreement` and `MovesAsConfigured` are about both sides and assume `Timely`: an
answer is late by one datagram at most, and a board that restarts is away for
longer than the late answers and the tolerated timeouts last,
`RebootCycles > Backlog + RxTimeout + 2`. Neither half can be had for less: with
`Backlog` 2, or with one period less, TLC finds `ConfigAgrees` violated. `LinkInv`
is the invariant over the datagrams in flight. `SizeInv` bounds how many there are,
`TxInv` says what may be sent in which state, and `OrderInv` where among them a
configuration, or its confirmation, can be: nowhere once the module measures,
configures or moves (`NoneAhead`); only in front, left over from before, while a
reset is awaited (`FirstAhead`); only last, and with the parameters last checked,
while a configuration is (`LastAhead`). `DownInv` counts a board's absence against
what the host can still hear, so that a host that saw no restart is no longer
connected when the board is back with its power-on configuration. `ConfigInv` and
`MovingInv` are then the properties. That a moving command has the parameters last
checked is itself an invariant (`RaceInv`: from `supervisor` to `stepgen` the two are
the same, or the command is marked as raced); without the exception
`MovesAsConfigured` is false, as `MCSupervisor_race.cfg` shows. `OnlyReadyMoves` is
about what goes onto the wire, not about what the board makes of a command that
comes late.

`Measured` assumes `Measurable`: the user's transit time is not above the shortest
reading that counts. `AverageInv` keeps the sum between `count` times that reading
and `count` times the longest, so that their quotient is an average and the
unsigned difference does not wrap.

**ServoProofs** (`ServoAssumption`). `BitOf` is its own inverse and `PortBit` is
injective, so a word survives `pin2int`, the ports and `int2pin` for all settings
and every outside level (`CmdPins`): `PinsAreFollowed`. `AccelerationLimited` is
proved for every acceleration, limit and target, in both modes, from `Ramps`,
`PositionRamps` and `VelocityRamps`, which are about `old_vel`, and `SentInv`, which
says that `old_vel` is what an axis that was not stopped was sent last. It is
about velocities sent to an enabled axis, compared with the one sent before or, after
a stop, with the one before the stop; the jump that remains is in `MCServo_resume.cfg`.
`TypeCorrect` rests on `ReplyInv`.

`FeedbackFollows` proves `FeedbackExact` for every speed `S` the axis keeps
(`Below(S)`) with `6 * S + 1 < Range32`. `FeedbackInv` relates the board's position,
the count read last and the reply under way as words, `MovedInv` bounds the
distance since the last reply by the two commands whose answers may have been lost:
below half the range, a difference of words is the distance (`CountedExact`).
`VelocityModeFeedback` needs no assumption on the speed: in velocity mode the code
keeps the limit by itself (`VelocityModeLimited`), which in position mode it does
not (`MCServo_overspeed.cfg`).

**MainLoopProofs** (`MainLoopAssumption`, in particular `Late < Interval` and a
clock wide enough). Differences modulo the clock are real ages as long as no timer
falls behind by half of it (`Wraps`, `AgoTicks`, `AgoRestarts`), which in turn
is `TimerInv`; so both are one induction. `DelayInv` bounds what keeps the loop,
`MotionInv` orders the last `>CMD` against the starts of the timer.
`OneHost` is the part of `OneClient` that outlasts a poll, and `HostKept` its step:
an answer goes only to the host the connection is bound to, once it is bound.
`TimersKeepUp`, `SilenceStops`, `LiveHostMoves`, `OneClientAnswered`, `TypeCorrect`.

**UipProofs** is about what a datagram meets besides TCP.

*The ARP cache* (`UipArpAssumption`). `ClaimInv`: an entry holds the last claim of
its host; `AgeInv`: a timestamp is the real age or one wrap off, until it is too old
to say. `OneEntry`, `LastClaim`, `FreshEntriesStay`, `TypeCorrect`.

*The arithmetic* (`ChecksumAssumption`: a byte has at least two values).
`CarryComesBack`: one step of `chksum` is ones' complement addition.
`EchoReplyAdjusts`: the comparison and addition on swapped bytes raise the
checksum, in network order, by exactly what the type fell, with the carry put back.

*Sums of any number of words.* The model's sums are folds, and the library's
induction theorems take a predicate, which the provers cannot instantiate. So
induction is had from a set: `Induction` says that a set that has 0 and goes on from
every number to the next has all of them, because what it lacks would have a least
member (`MinOfNaturals`, from the well-foundedness of `<`). `Iterated` shows that the
function inside a fold exists, `Runs` that it runs along the sequence, and
`SumWordsRuns` and `TotalRuns` are the two folds of the model as such runs. Then
`SumIsTotal`: what `chksum` computes is the plain total but for multiples of
`Word - 1`. `Same` is that equality; `TotalChange`, `PairsChange` and `ByteChange`
say that a single byte, high or low, changes a total by less than `Word - 1` and so
never unnoticed.

*The path of a datagram* (`InputAssumption`). `InputInv` says what was sent
(`SentWell`), that what arrived is it but for one byte, and what an answer was made
of. TLC checked it on the instance of `uip_datagrams` before it was proved. Then
`HeaderIntact`: a header sum that verifies leaves the damage to the body, so length
and addresses are as sent; `PayloadIntact`: so does the other sum with the payload.
`GoodIsAccepted` is `SumIsTotal` read in one direction, `HandedAsSent` in the other.
`EchoVerified` follows because `EchoReplyIs` gives the reply the ping's total, damage
included; `AnswersVerify` from it and from `ComplementVerifies`, for the sums the code
computes itself. All four hold for any length of data, any addresses, and bytes of
any size.

**UipTcpProofs** is TCP (`TcpAssumption`: a segment is smaller than the range of the
sequence numbers, nothing else of sizes, and no bound on the network but
`MaxFlight`).

Every action is first shown to be one of five kinds of step of one end
(`EndStep`): it keeps on opening (`Keeps`), leaves (`Leaves`), accepts a SYN
(`Accepts`), or hears something of its peer and answers (`Hears`, `Answers`). All
that follows is about these kinds and not about the code's branches. `TypeInv`
gives `TcpTypeCorrect`. Two invariants then give `OpenInStep`:

* `YoungInv`: as long as a SYN may still be accepted, there is one number `x` that
  every segment, either slot and both sequence numbers go back to (`Opening`), and
  no data passed a SYN. So the SYN of an earlier opening cannot meet a connection
  that is under way.
* `BothInv`: when both ends are open, the queue from each holds, in order, segments
  that the other has or expects next, and acknowledgements that do not fall
  (`Flows`, in both directions `Paired`). `AckTaken` and `DataTaken` are what one
  segment does to a direction. `ClientYoung`, `ServerYoung`, `HeardPaired` and
  `BothStep` keep both invariants through every kind of step.

`InStep` alone is not inductive: a stale acknowledgement in the queue would break
it. `ThereInv` and `GotInv` say that the bytes an end can still receive are the ones
it lacks, and that what it was handed is a prefix. From these, `Transfers` and
`PromiseSteps` show for each kind of step that it is an `Open`, a `Transfer` or a
stutter of `ReliableStream` under the mapping of `Promise`: `StreamsKept`. TLC
checked all four invariants on two instances before they were proved.

**EtherDevProofs** (three buffers). `RxInv` says that a frame handed over lies in
the receive buffer until the exchange and in the CPU's buffer after it, `TxInv`
the same for an answer. `Inductive`; then `Exclusive`, `ReadsWhatArrived`,
`SendsWhatWasGiven`. `Implements` is the refinement: each step of driver, stack and
controller is, under the mapping, a step of `FrameExchange` or a stutter
(`ExchangeSteps`). `OneOwner` is what it takes, since only then does a store by one
hand leave the frames of the others alone.

**ParamsProofs** (`Values` within a word). The lemmas are about `check_params` as
a function: `CheckSettles` (a check leaves no change, for all parameters and old
copies, also where the step period or the limit of dirhold wraps), `NoFlagNoChange` and `NoFlagIsOld` (without a flag the timings are
their old copies). The invariant is that the board has what the old copies say
(`ConfigIsOld`). `Settles`, `UpToDate`.

Only model-checked: liveness (`EveryCmdAnswered`, `Recovers`, `AnnouncedTaken`,
`PortFreed`, `NeverStuck`, `Settles` of `Servo`), which needs fairness and so
`ENABLED`, out of the prover's reach. Every invariant and every action property of the
runs that pass is proved, four of them under the assumption named with them
(`Timely`, `Measurable`, `Paced`) and `FeedbackExact` for the speeds it holds at.

## 5. What is not modelled

* Of uIP: IPv6, reassembly, urgent data, round trip time estimates, windows other
  than one segment or none, address assignment by ping, several connections. All but
  the connections are compiled out too. `uip_add32` is stated byte by byte in
  `Checksum`; `UipTcp` adds modulo the range.
* Fractions of counts and of velocities (`Servo` rounds), and the scale. Changes of
  stepwidth and stepspace in `Servo`: the step limit is a constant there.
* Streams that never end (`UipTcp`): an end whose retransmissions are forgotten because
  data comes in for ever (`uip.c:1714`) is not exercised by finite ones.
* `ether_init` and PHY access, the RTnet socket, the linker script, the test
  clients: straight-line I/O with hardware the repository says nothing about.
* `pwmval` is carried and never used by the code.
* ARP addresses with exactly one zero half: the code tests "in use" with AND in
  one place and OR in another (`uip_arp.c:149, 169`); the address plan has none.
* Losses caused by the ARP cache itself: `uip_arp_out` replaces an answer by a
  request when the entry has expired (`uip_arp.c:387`); `Supervisor` has it as one
  more lost reply.

Two observations outside the models: `etherdev.c:246` has `&& 0x8000` where a mask
for the reset bit would fit the comment above it ("wait until reset is
cleared"), and `buffer_init` reads
`rxdcpt[1]` of an array of one when it links the ring.

## 6. Plan

Done, in this order, what moves the machine first, what tells about it next, what
carries it last: `StepGen`, `Supervisor`, `EtherDev`, `MainLoop`, `UipArp`, `Params`;
`Servo`, `Checksum` and `UipInput`, `UipTcp` and its abstract specification,
`FrameExchange`; and the proofs named in section 4.

Left:

1. `Link`, an abstract specification of what the supervisor promises (a moving
   command is executed under the configuration it was computed with or not at
   all, a change between `supervisor` and `stepgen` excepted), which `Supervisor` implements; `LinkInv` is the invariant it needs.
2. `StepSignal`, what a motor driver is promised, which `StepGen` implements.
3. ARP and supervisor composed, to show the one timeout an expired entry costs.
4. `ether_init`, once what the PHY holds in its registers is known.
