-------------------------------- MODULE Servo --------------------------------
(***************************************************************************)
(* One axis and the io pins between the user and the board: the feedback   *)
(* (hal/rt8p8c.comp:191-209), the velocity of each period (436-598), the   *)
(* words of a >CMD (145-188, 218-247) and what the board does with them    *)
(* (firmware/stepgen.c:68-132, firmware/hardware.h).                       *)
(*                                                                         *)
(* A step is a period of the servo thread: read, supervisor, stepgen,      *)
(* write, and the board's part.  Which of its ways the supervisor goes     *)
(* after a timeout is left open, Supervisor says when.  Positions are in   *)
(* counts, velocities in counts a period, so that dt is 1; the scale is 1, *)
(* and stepwidth and stepspace, which bound the velocity, do not change.   *)
(* Velocities are kept in whole counts where the code keeps fractions.     *)
(***************************************************************************)
EXTENDS Integers, Sequences, FiniteSetsExt

CONSTANTS
    Range32,       \* positions of the board, 2^32
    StepLimit,     \* max_vel by the timing of the steps
    MaxVels,       \* what the user may set maxvel to; 0 is no limit
    MaxAccels,     \* and maxaccel
    Targets,       \* positions the user may command
    Speeds,        \* velocities the user may command
    MaxRxErr,      \* bound: no fault once rxerr is this large
    Fast,          \* bound: no fault and no change by the user above this speed
    Reach,         \* bound: beyond it a velocity command only leads back
    Early,         \* the reply delay is short: the reply holds the position
                   \* from before this period's motion
    Settings,      \* directions and outputs the user may set, dir and out
    Level,         \* bits of the io word that are high where nothing drives them
    Leftover       \* words an earlier frame may have left in a receive buffer,
                   \* where a >CMD has TRIS and LAT: those of a >CMD, the
                   \* dirsetup of a >CFG, or what malloc found there

Pins == 0..15
RX_TIMEOUT == 1

ASSUME ServoAssumption ==
    /\ StepLimit \in Nat \ {0} /\ MaxVels \subseteq Nat /\ MaxAccels \subseteq Nat
    /\ Range32 \in Nat /\ Range32 > 10 * StepLimit
    /\ Targets \subseteq Int /\ Speeds \subseteq Int /\ Reach \in Nat /\ Early \in BOOLEAN
    /\ Fast \in Nat
    /\ MaxRxErr \in Nat /\ MaxRxErr > RX_TIMEOUT
    /\ Settings \subseteq [dir : SUBSET Pins, out : SUBSET Pins] /\ Level \subseteq Pins
    /\ Leftover \subseteq [tris : SUBSET Pins, lat : SUBSET Pins] /\ Leftover # {}

VARIABLES
    enable, mode, cmd,             \* the user's: mode is "velocity" or "position",
    maxvel, maxaccel, pins,        \* cmd the position commanded
    accum, old_count,              \* feedback
    old_vel, old_pos,              \* velocity control
    rxerr                          \* timeouts the supervisor counts

VARIABLES
    position, vel,                 \* the board's
    tris, lat,                     \* ports B and C, as sets of their bits
    reply                          \* the one under way to the host, if any

VARIABLES
    moved,         \* the distance moved since the reply read last
    restarted,     \* the board's position was cleared since then
    sent,          \* the velocity in the >CMD sent last
    commanded,     \* the pins of the >CMD handled last, if it had any
    calm           \* no more faults, no more changes by the user

limits == <<maxvel, maxaccel>>
user == <<enable, mode, cmd, limits, pins, calm>>
feedback == <<accum, old_count>>
control == <<old_vel, old_pos>>
ports == <<tris, lat>>
board == <<position, vel, ports, reply>>
vars == <<user, feedback, control, rxerr, board, moved, restarted, sent, commanded>>

None == [some |-> FALSE]
FaultsAllowed == ~calm /\ rxerr < MaxRxErr /\ old_vel \in -Fast..Fast
NoPins == [dir |-> {-1}, out |-> {}]

-----------------------------------------------------------------------------
(* The io words, sets of bits, and the pins.                               *)

\* "The pin port numbering is different to the physical pinout".
BitOf == [p \in Pins |-> CASE p = 0 -> 3 [] p = 1 -> 4 [] p = 3 -> 0 [] p = 4 -> 1
                           [] p = 6 -> 7 [] p = 7 -> 6 [] OTHER -> p]
pin2int(on) == {BitOf[p] : p \in on}
\* Mutant: two pins are not swapped back.
int2pin_Straight(word) == {p \in Pins : (IF p \in {6, 7} THEN p ELSE BitOf[p]) \in word}
int2pin(word) == {p \in Pins : BitOf[p] \in word}

\* Bit 15 of a word is bit 13 of port C; bit 15 of port B is the PHY's.
PortBit(i) == IF i = 15 THEN <<"C", 13>> ELSE <<"B", i>>
OfIo == {PortBit(i) : i \in Pins}
Onto(port, word) == (port \ OfIo) \cup {PortBit(i) : i \in word}
\* Driven pins read back what drives them.
read_io == {i \in Pins : IF PortBit(i) \in tris' THEN i \in Level ELSE PortBit(i) \in lat'}

-----------------------------------------------------------------------------
(* The board takes a datagram.                                             *)

Signed(n) == LET m == n % Range32 IN IF m >= Range32 \div 2 THEN m - Range32 ELSE m

Move(v) == position' = (position + v) % Range32

\* stepgen_update_input: io words w; the reply may be lost.
Handle(v, w, before) ==
    /\ vel' = v
    /\ tris' = Onto(tris, w.tris) /\ lat' = Onto(lat, w.lat)
    /\ Move(v)
    /\ LET here == IF Early THEN 0 ELSE v
           answer == [some |-> TRUE, pos |-> (position + here) % Range32, word |-> read_io,
                      moved |-> before + here]
       IN reply' \in {answer} \cup IF FaultsAllowed THEN {None} ELSE {}
    /\ moved' = before + v

\* A >CMD that has all its words.
HandleCmd(v, before) ==
    /\ Handle(v, [tris |-> pin2int(pins.dir), lat |-> pin2int(pins.out)], before)
    /\ commanded' = pins

\* send_idle leaves out the last three words; the board copies what it finds.
HandleIdle(before) ==
    /\ \E w \in Leftover : Handle(0, w, before)
    /\ commanded' = NoPins

\* The datagram is lost, and the board goes on.
Lose(before) ==
    /\ FaultsAllowed
    /\ Move(vel) /\ moved' = before + vel
    /\ reply' = None
    /\ UNCHANGED <<vel, ports, commanded>>

-----------------------------------------------------------------------------
(* Velocity control                                                        *)

Abs(x) == IF x < 0 THEN -x ELSE x
Clamp(x, lo, hi) == IF x < lo THEN lo ELSE IF x > hi THEN hi ELSE x
\* Division as the conversion to a whole number rounds it, towards zero.
Quot(a, b) == IF a < 0 THEN -((-a) \div b) ELSE a \div b

AtMost(param, limit) == IF param = 0 \/ param > limit THEN limit ELSE param
max_vel == AtMost(maxvel, StepLimit)
\* In one period: zero to full speed at most.
max_accl == AtMost(maxaccel, max_vel)
\* A parameter above the limit is lowered for good.
Lowered(param, limit) == IF param > limit THEN limit ELSE param

\* Mutant: the acceleration has no limit.
Ramp_Free(v) == v
Ramp(v) == Clamp(v, old_vel - max_accl, old_vel + max_accl)
VelocityMode(speed) == Ramp(Clamp(speed, -max_vel, max_vel))

\* Ramp to the velocity the command moves with.  The error of the position at
\* the end of that ramp, times 2 * max_accl, decides which way.
EstErr(vel_cmd, curr_pos) ==
    LET d == Abs(vel_cmd - old_vel)
        s == IF vel_cmd > old_vel THEN 1 ELSE -1
        est_out == 2 * max_accl * curr_pos + s * (vel_cmd * vel_cmd - old_vel * old_vel)
        est_cmd == 2 * max_accl * cmd + vel_cmd * (2 * d - 3 * max_accl)
    IN est_out - est_cmd

\* Ramping away for one period first makes the error smaller.
OtherWay(err, vel_cmd) ==
    LET d == Abs(vel_cmd - old_vel)
        s == IF vel_cmd > old_vel THEN 1 ELSE -1
    IN Abs(err - 8 * max_accl * s * d) < Abs(err)

\* Mutant: an error of the position is left when the velocity matches.
Correction_None(err) == 0
\* What the velocity takes off to correct the error within two periods.
Correction(err) == Quot(err, 4 * max_accl)

PositionMode(curr_pos) ==
    LET vel_cmd == cmd - old_pos
        err == EstErr(vel_cmd, curr_pos)
        up == vel_cmd > old_vel
    IN IF Abs(vel_cmd - old_vel) < max_accl
       THEN IF err = 0 THEN vel_cmd ELSE Ramp(vel_cmd - Correction(err))
       ELSE IF up # OtherWay(err, vel_cmd) THEN old_vel + max_accl ELSE old_vel - max_accl

\* Limits of the machine stop a velocity command that leads ever further.
Allowed(speed) == Abs(accum) > Reach => speed * accum <= 0

\* A disabled axis is sent 0.
new_vel ==
    IF ~enable THEN {0}
    ELSE IF mode = "velocity" THEN {VelocityMode(s) : s \in {t \in Speeds : Allowed(t)}}
    ELSE {PositionMode(accum')}

\* A disabled axis is left before its limits are looked at: old_vel and old_pos
\* stay too, whatever is sent meanwhile.
stepgen(v) ==
    /\ sent' = v
    /\ \/ ~enable /\ UNCHANGED <<control, limits>>
       \/ /\ enable
          /\ maxvel' = Lowered(maxvel, StepLimit) /\ maxaccel' = Lowered(maxaccel, max_vel)
          /\ old_vel' = v
          /\ old_pos' = IF mode = "position" THEN cmd ELSE old_pos

-----------------------------------------------------------------------------
(* A period of the thread                                                  *)

\* Mutant: the difference is not a signed word.
accum_diff_Wide == reply.pos - old_count
accum_diff == Signed(reply.pos - old_count)

\* A good reply: feedback, and the next command.
GoodReply ==
    /\ reply.some
    /\ accum' = accum + accum_diff
    /\ old_count' = reply.pos
    /\ restarted' = FALSE
    /\ rxerr' = IF rxerr = 0 THEN 0 ELSE rxerr - 1
    /\ \E v \in new_vel :
          /\ stepgen(v)
          /\ HandleCmd(v, moved - reply.moved) \/ Lose(moved - reply.moved)
    /\ UNCHANGED <<enable, mode, cmd, pins, calm>>

\* One timeout is tolerated: an idle command.
Tolerate ==
    /\ ~reply.some /\ rxerr < RX_TIMEOUT /\ rxerr' = rxerr + 1
    /\ HandleIdle(moved) \/ Lose(moved)
    /\ sent' = 0
    /\ UNCHANGED <<user, feedback, control, restarted>>

\* dirsetup or dirhold changed: the board gets a >CFG while it moves on, then an idle
\* command.
Configure ==
    /\ reply.some /\ ~calm
    /\ \E w \in Leftover : tris' = Onto(tris, w.tris) /\ lat' = Onto(lat, w.lat)
    /\ vel' = 0 /\ Move(vel) /\ moved' = moved + vel
    /\ reply' = [some |-> TRUE, pos |-> (position + vel) % Range32,
                 word |-> read_io, moved |-> moved + vel]
    /\ sent' = 0 /\ commanded' = NoPins
    /\ UNCHANGED <<user, feedback, control, rxerr, restarted>>

\* One too many, or an error of the socket: the connection is made anew, and
\* >RST, >CFG and an idle command arrive.  stepgen_reset clears the position
\* and old_count does not know.
Reconnect ==
    /\ ~reply.some
    /\ \/ rxerr >= RX_TIMEOUT /\ rxerr' = rxerr + 1
       \/ FaultsAllowed /\ UNCHANGED rxerr
    /\ \E w \in Leftover : tris' = Onto(tris, w.tris) /\ lat' = Onto(lat, w.lat)
    /\ position' = 0 /\ vel' = 0 /\ moved' = 0 /\ restarted' = TRUE
    /\ reply' = [some |-> TRUE, pos |-> 0, word |-> read_io, moved |-> 0]
    /\ sent' = 0 /\ commanded' = NoPins
    /\ UNCHANGED <<user, feedback, control>>

User ==
    /\ ~calm /\ old_vel \in -Fast..Fast
    /\ \/ enable' \in BOOLEAN /\ UNCHANGED <<mode, cmd, limits, pins, calm>>
       \/ mode' \in {"velocity", "position"} /\ UNCHANGED <<enable, cmd, limits, pins, calm>>
       \/ cmd' \in Targets /\ UNCHANGED <<enable, mode, limits, pins, calm>>
       \/ maxvel' \in MaxVels /\ UNCHANGED <<enable, mode, cmd, maxaccel, pins, calm>>
       \/ maxaccel' \in MaxAccels /\ UNCHANGED <<enable, mode, cmd, maxvel, pins, calm>>
       \/ pins' \in Settings /\ UNCHANGED <<enable, mode, cmd, limits, calm>>
       \/ enable /\ mode = "position" /\ calm' = TRUE
             /\ UNCHANGED <<enable, mode, cmd, limits, pins>>
    /\ UNCHANGED <<feedback, control, rxerr, board, moved, restarted, sent, commanded>>

\* The board is up and configured, and has answered the first idle command.
Init ==
    /\ enable = FALSE /\ mode = "velocity" /\ cmd = 0
    /\ maxvel \in MaxVels /\ maxaccel \in MaxAccels
    /\ pins \in Settings /\ calm = FALSE
    /\ accum = 0 /\ old_count = 0 /\ rxerr = 0
    /\ old_vel = 0 /\ old_pos = 0
    /\ position = 0 /\ vel = 0
    /\ tris = OfIo /\ lat = {}
    /\ reply = [some |-> TRUE, pos |-> 0, word |-> Level, moved |-> 0]
    /\ moved = 0 /\ restarted = FALSE /\ sent = 0 /\ commanded = NoPins

Period == GoodReply \/ Tolerate \/ Configure \/ Reconnect
Next == Period \/ User

Spec == Init /\ [][Next]_vars

\* The thread runs.
FairSpec == Spec /\ WF_vars(Period)

-----------------------------------------------------------------------------

\* Every variable keeps its type.
TypeOK ==
    /\ enable \in BOOLEAN /\ mode \in {"velocity", "position"} /\ calm \in BOOLEAN
    /\ cmd \in Targets \cup {0} /\ pins \in Settings
    /\ maxvel \in MaxVels \cup {StepLimit} /\ maxaccel \in Nat
    /\ accum \in Int /\ old_count \in 0..(Range32 - 1)
    /\ old_vel \in Int /\ old_pos \in Targets \cup {0}
    /\ position \in 0..(Range32 - 1) /\ vel \in Int
    /\ tris \subseteq OfIo /\ lat \subseteq OfIo
    /\ sent \in Int /\ restarted \in BOOLEAN /\ rxerr \in 0..MaxRxErr

\* The 64 bit count moves by the distance the machine moved between two
\* replies, over wraps of the board's position and lost datagrams, unless the
\* board's position was cleared in between (rt8p8c.comp:190-198).
FeedbackExact == [][GoodReply /\ ~restarted => accum' = accum + reply.moved]_vars

\* The board never moves faster than S counts a period.
Below(S) == vel \in (-S)..S

\* The velocity last sent, unless that was the 0 of a stop: a disabled axis and
\* every idle command stop the machine at any speed, and old_vel stays.
Resumed == IF sent = 0 THEN old_vel ELSE sent

\* The velocity sent to an enabled axis differs by max_accl at most from the one
\* sent before, or from the one before the stop if it was stopped; in velocity mode
\* one above the limit comes down (rt8p8c.comp:446-449, 511-528).
MotionLimited ==
    [][GoodReply /\ enable =>
         /\ Abs(sent' - Resumed) <= max_accl
         /\ mode = "velocity" /\ Abs(sent') > max_vel
               => Abs(sent') = Abs(Resumed) - max_accl]_vars

\* In position mode the axis ends at the position commanded, within the count
\* lost in rounding, and stays there (rt8p8c.comp:530-581).
Settles == calm ~> [](old_vel = 0 /\ Abs(accum - cmd) <= 1)

\* The pins follow a >CMD through word and port and back: outputs are driven
\* and read back as set, inputs read what is outside (rt8p8c.comp:149-188,
\* hardware.h:69-92).
PinsFollow ==
    commanded # NoPins =>
        /\ tris \cap OfIo = {PortBit(BitOf[p]) : p \in commanded.dir}
        /\ reply.some => int2pin(reply.word) =
              {p \in Pins : IF p \in commanded.dir THEN BitOf[p] \in Level ELSE p \in commanded.out}

\* "Feedback position in counts": the count changes as the machine moves.
FeedbackKept == [][GoodReply => accum' = accum + reply.moved]_vars

\* "Maximum acceleration", "apply accel limit" (rt8p8c.comp:50, 521): but for one
\* that stops the axis, a velocity sent differs by max_accl at most from the one
\* sent before.
AccelerationKept == [][sent' # 0 => Abs(sent' - sent) <= max_accl]_vars

\* "Maximum velocity".
MaxVelKept == Abs(old_vel) <= StepLimit

\* "Digital IO direction (true = input)": no pin is driven that was an input
\* in every setting.
InputsNotDriven == \A p \in Pins : (\A s \in Settings : p \in s.dir) => PortBit(BitOf[p]) \in tris

=============================================================================
