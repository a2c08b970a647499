----------------------------- MODULE ServoProofs -----------------------------
(***************************************************************************)
(* One axis and the io pins, for every range, limit, setting and command:  *)
(* the pins follow the user through two renumberings and back, the         *)
(* velocities sent to an enabled axis change by the acceleration limit at  *)
(* most but for a stop and the start after it, in both modes, and the 64   *)
(* bit count moves by what the machine moved.                              *)
(***************************************************************************)
EXTENDS Servo, TLAPS

-----------------------------------------------------------------------------
(* Pins, bits and ports                                                    *)

\* The renumbering of the pins undoes itself.
LEMMA BitOfInverse == \A p \in Pins : BitOf[p] \in Pins /\ BitOf[BitOf[p]] = p
<1> DEFINE b(p) == CASE p = 0 -> 3 [] p = 1 -> 4 [] p = 3 -> 0 [] p = 4 -> 1
                     [] p = 6 -> 7 [] p = 7 -> 6 [] OTHER -> p
<1>1. ASSUME NEW p \in Pins PROVE b(p) \in Pins /\ b(b(p)) = p
  BY <1>1 DEF Pins
<1>2. \A p \in Pins : BitOf[p] = b(p)
  BY DEF BitOf
<1> HIDE DEF b
<1> QED
  BY <1>1, <1>2

\* No two bits of a word share a bit of a port.
LEMMA PortBitInjective ==
    ASSUME NEW i \in Pins, NEW j \in Pins, PortBit(i) = PortBit(j) PROVE i = j
  BY DEF PortBit, Pins

\* A word put onto the ports: its bits, and nothing of what was there before.
LEMMA OntoIs ==
    ASSUME NEW port, NEW word \in SUBSET Pins
    PROVE  /\ Onto(port, word) \cap OfIo = {PortBit(i) : i \in word}
           /\ \A i \in Pins : PortBit(i) \in Onto(port, word) <=> i \in word
<1>1. {PortBit(i) : i \in word} \subseteq OfIo
  BY DEF OfIo
<1>2. Onto(port, word) \cap OfIo = {PortBit(i) : i \in word}
  BY <1>1 DEF Onto
<1>3. ASSUME NEW i \in Pins PROVE PortBit(i) \in Onto(port, word) <=> i \in word
  <2>1. PortBit(i) \in OfIo
    BY DEF OfIo
  <2>2. PortBit(i) \in Onto(port, word) <=> \E j \in word : PortBit(i) = PortBit(j)
    BY <1>2, <2>1
  <2> QED
    BY <2>2, PortBitInjective
<1> QED
  BY <1>2, <1>3

\* A pin's bit is in the word of a set of pins when the pin is in the set.
LEMMA Pin2Int ==
    ASSUME NEW on \in SUBSET Pins
    PROVE  /\ pin2int(on) \in SUBSET Pins
           /\ \A p \in Pins : BitOf[p] \in pin2int(on) <=> p \in on
<1>1. ASSUME NEW p \in Pins, NEW q \in Pins, BitOf[p] = BitOf[q] PROVE p = q
  BY <1>1, BitOfInverse
<1> QED
  BY <1>1, BitOfInverse DEF pin2int

-----------------------------------------------------------------------------
(* Pins that follow                                                        *)

\* What the host makes of the word of a reply.
Shown(set) == {p \in Pins : IF p \in set.dir THEN BitOf[p] \in Level ELSE p \in set.out}

PinsInv == pins \in Settings /\ PinsFollow

\* A complete >CMD: the ports hold its setting, and what is read from them is
\* what the host set.
LEMMA CmdPins ==
    ASSUME pins \in Settings,
           tris' = Onto(tris, pin2int(pins.dir)), lat' = Onto(lat, pin2int(pins.out))
    PROVE  /\ tris' \cap OfIo = {PortBit(BitOf[p]) : p \in pins.dir}
           /\ int2pin(read_io) = Shown(pins)
<1>1. pins.dir \in SUBSET Pins /\ pins.out \in SUBSET Pins
  BY ServoAssumption
<1>2. pin2int(pins.dir) \in SUBSET Pins /\ pin2int(pins.out) \in SUBSET Pins
  BY <1>1, Pin2Int
<1>3. tris' \cap OfIo = {PortBit(BitOf[p]) : p \in pins.dir}
  BY <1>2, OntoIs DEF pin2int
<1>4. ASSUME NEW p \in Pins
      PROVE  BitOf[p] \in read_io <=> IF p \in pins.dir THEN BitOf[p] \in Level ELSE p \in pins.out
  <2>1. BitOf[p] \in Pins
    BY BitOfInverse
  <2>2. PortBit(BitOf[p]) \in tris' <=> p \in pins.dir
    BY <1>1, <1>2, <2>1, OntoIs, Pin2Int
  <2>3. PortBit(BitOf[p]) \in lat' <=> p \in pins.out
    BY <1>1, <1>2, <2>1, OntoIs, Pin2Int
  <2> QED
    BY <2>1, <2>2, <2>3 DEF read_io
<1> QED
  BY <1>3, <1>4 DEF int2pin, Shown

\* A reply, if there is one, holds the io word just read.
LEMMA HandleReplies ==
    ASSUME NEW v, NEW w, NEW before, Handle(v, w, before), reply'.some
    PROVE  reply'.word = read_io
<1>1. None.some = FALSE
  BY DEF None
<1> QED
  BY <1>1 DEF Handle

LEMMA CmdKeepsPins ==
    ASSUME PinsInv, UNCHANGED pins, NEW v, NEW before, HandleCmd(v, before)
    PROVE  PinsInv'
<1> DEFINE w == [tris |-> pin2int(pins.dir), lat |-> pin2int(pins.out)]
<1>1. Handle(v, w, before) /\ commanded' = pins /\ pins' = pins /\ pins \in Settings
  BY DEF HandleCmd, PinsInv
<1>2. tris' = Onto(tris, pin2int(pins.dir)) /\ lat' = Onto(lat, pin2int(pins.out))
  BY <1>1 DEF Handle
<1>3. tris' \cap OfIo = {PortBit(BitOf[p]) : p \in pins.dir} /\ int2pin(read_io) = Shown(pins)
  BY <1>1, <1>2, CmdPins
<1>4. reply'.some => reply'.word = read_io
  BY <1>1, HandleReplies
<1>5. reply'.some => int2pin(reply'.word) = Shown(commanded')
  BY <1>1, <1>3, <1>4
<1> QED
  BY <1>1, <1>3, <1>5 DEF PinsInv, PinsFollow, Shown, int2pin

\* A datagram that is lost changes no port and brings no reply.
LEMMA LossKeepsPins ==
    ASSUME PinsInv, UNCHANGED pins, NEW before, Lose(before)
    PROVE  PinsInv'
<1>1. UNCHANGED <<tris, commanded, pins>> /\ ~reply'.some
  BY DEF Lose, ports, None
<1> QED
  BY <1>1 DEF PinsInv, PinsFollow

LEMMA PinsKept == PinsInv /\ [Next]_vars => PinsInv'
<1> SUFFICES ASSUME PinsInv, [Next]_vars PROVE PinsInv'
  OBVIOUS
<1>1. CASE GoodReply
  <2>1. UNCHANGED pins
    BY <1>1 DEF GoodReply, user
  <2>2. \E v, before : HandleCmd(v, before) \/ Lose(before)
    BY <1>1 DEF GoodReply
  <2> QED
    BY <2>1, <2>2, CmdKeepsPins, LossKeepsPins
<1>2. CASE Tolerate
  <2>1. UNCHANGED pins
    BY <1>2 DEF Tolerate, user
  <2>2. CASE HandleIdle(moved)
    BY <2>1, <2>2 DEF HandleIdle, PinsInv, PinsFollow
  <2> QED
    BY <1>2, <2>1, <2>2, LossKeepsPins DEF Tolerate
<1>3. CASE Configure \/ Reconnect
  BY <1>3 DEF Configure, Reconnect, user, PinsInv, PinsFollow
<1>4. CASE User
  <2>1. pins' \in Settings
    BY <1>4 DEF User, PinsInv
  <2>2. UNCHANGED <<commanded, tris, reply>>
    BY <1>4 DEF User, board, ports
  <2> QED
    BY <2>1, <2>2 DEF PinsInv, PinsFollow
<1>5. CASE UNCHANGED vars
  BY <1>5 DEF vars, user, board, ports, PinsInv, PinsFollow
<1> QED
  BY <1>1, <1>2, <1>3, <1>4, <1>5 DEF Next, Period

\* After a complete >CMD the pins are as the user set them, and the next reply
\* shows them so, whatever was commanded before (rt8p8c.comp:149-188,
\* hardware.h:69-92).
THEOREM PinsAreFollowed == Spec => []PinsFollow
<1>1. Init => PinsInv
  BY DEF Init, PinsInv, PinsFollow
<1>2. PinsInv => PinsFollow
  BY DEF PinsInv
<1> QED
  BY <1>1, <1>2, PinsKept, PTL DEF Spec

-----------------------------------------------------------------------------
(* Types                                                                   *)

Counts == 0..(Range32 - 1)

\* What TypeOK rests on: a reply holds a count, and a reply is lost only while
\* faults are allowed.
ReplyInv ==
    /\ reply.some \in BOOLEAN
    /\ reply.some => reply.pos \in Counts
    /\ ~reply.some => rxerr < MaxRxErr

IInv == TypeOK /\ ReplyInv

LEMMA Counted == ASSUME NEW n \in Int PROVE n % Range32 \in Counts
  BY ServoAssumption DEF Counts

LEMMA SignedInt == ASSUME NEW n \in Int PROVE Signed(n) \in Int
<1>1. n % Range32 \in Int /\ Range32 \in Int
  BY Counted, ServoAssumption DEF Counts
<1> QED
  BY <1>1 DEF Signed

\* There is always a limit, and it lets the axis move.
LEMMA Limits ==
    ASSUME TypeOK
    PROVE  /\ max_vel \in Nat /\ max_vel > 0 /\ max_vel <= StepLimit
           /\ max_accl \in Nat /\ max_accl > 0 /\ max_accl <= max_vel
<1>1. maxvel \in Nat /\ maxaccel \in Nat
  BY ServoAssumption DEF TypeOK
<1>2. max_vel \in Nat /\ max_vel > 0 /\ max_vel <= StepLimit
  BY <1>1, ServoAssumption DEF max_vel, AtMost
<1> QED
  BY <1>1, <1>2 DEF max_accl, AtMost

\* Whatever a period sends, what it leaves keeps its type.
LEMMA StepgenTypes ==
    ASSUME TypeOK, NEW v \in Int, stepgen(v)
    PROVE  /\ sent' \in Int /\ old_vel' \in Int /\ old_pos' \in Targets \cup {0}
           /\ maxvel' \in MaxVels \cup {StepLimit} /\ maxaccel' \in Nat
<1>1. sent' = v
  BY DEF stepgen
<1>2. CASE UNCHANGED <<control, limits>>
  BY <1>1, <1>2 DEF control, limits, TypeOK
<1>3. CASE /\ maxvel' = Lowered(maxvel, StepLimit) /\ maxaccel' = Lowered(maxaccel, max_vel)
           /\ old_vel' = v /\ old_pos' = IF mode = "position" THEN cmd ELSE old_pos
  <2>1. maxvel' \in MaxVels \cup {StepLimit} /\ maxaccel' \in Nat
    BY <1>3, Limits DEF Lowered, TypeOK
  <2>2. old_pos' \in Targets \cup {0}
    BY <1>3 DEF TypeOK
  <2> QED
    BY <1>1, <1>3, <2>1, <2>2
<1> QED
  BY <1>2, <1>3 DEF stepgen

LEMMA AbsNat == ASSUME NEW x \in Int PROVE Abs(x) \in Nat /\ (Abs(x) = x \/ Abs(x) = -x)
  BY DEF Abs

LEMMA QuotInt == ASSUME NEW a \in Int, NEW b \in Nat \ {0} PROVE Quot(a, b) \in Int
<1>1. a \div b \in Int /\ (-a) \div b \in Int
  OBVIOUS
<1> QED
  BY <1>1 DEF Quot

\* A ramp stays within one period's acceleration.
LEMMA Ramps ==
    ASSUME TypeOK, NEW v \in Int
    PROVE  Ramp(v) \in Int /\ Ramp(v) - old_vel \in (-max_accl)..max_accl
  BY Limits DEF TypeOK, Ramp, Clamp

LEMMA EstErrInt ==
    ASSUME TypeOK, NEW v \in Int, NEW p \in Int, cmd \in Int PROVE EstErr(v, p) \in Int
<1> DEFINE d == Abs(v - old_vel)
<1>1. old_vel \in Int /\ max_accl \in Int
  BY Limits DEF TypeOK
<1>2. d \in Int
  BY <1>1, AbsNat
<1>3. /\ v * v \in Int /\ old_vel * old_vel \in Int
      /\ 2 * max_accl * p \in Int /\ 2 * max_accl * cmd \in Int
  BY <1>1
<1>4. 2 * d - 3 * max_accl \in Int
  BY <1>1, <1>2
<1>5. v * (2 * d - 3 * max_accl) \in Int
  BY <1>4
<1>6. 1 * (v * v - old_vel * old_vel) \in Int /\ (-1) * (v * v - old_vel * old_vel) \in Int
  BY <1>3
<1> DEFINE s == IF v > old_vel THEN 1 ELSE -1
<1>7. s * (v * v - old_vel * old_vel) \in Int
  BY <1>6
<1>8. EstErr(v, p) = (2 * max_accl * p + s * (v * v - old_vel * old_vel))
                        - (2 * max_accl * cmd + v * (2 * d - 3 * max_accl))
  BY DEF EstErr
<1> HIDE DEF s, d
<1> QED
  BY <1>3, <1>5, <1>7, <1>8

-----------------------------------------------------------------------------
(* What velocity control commands                                          *)

LEMMA Commands == ASSUME TypeOK PROVE cmd \in Int /\ old_pos \in Int /\ old_vel \in Int
  BY ServoAssumption DEF TypeOK

LEMMA PositionRamps ==
    ASSUME TypeOK, NEW p \in Int
    PROVE  PositionMode(p) \in Int /\ PositionMode(p) - old_vel \in (-max_accl)..max_accl
<1> DEFINE vel_cmd == cmd - old_pos
           err == EstErr(vel_cmd, p)
           up == vel_cmd > old_vel
<1>1. vel_cmd \in Int /\ err \in Int /\ old_vel \in Int
  <2>1. vel_cmd \in Int /\ cmd \in Int /\ old_vel \in Int
    BY Commands
  <2> HIDE DEF vel_cmd
  <2> QED
    BY <2>1, EstErrInt
<1>2. PositionMode(p) =
        IF Abs(vel_cmd - old_vel) < max_accl
        THEN IF err = 0 THEN vel_cmd ELSE Ramp(vel_cmd - Correction(err))
        ELSE IF up # OtherWay(err, vel_cmd) THEN old_vel + max_accl ELSE old_vel - max_accl
  BY DEF PositionMode
<1>3. Correction(err) \in Int
  <2>1. 4 * max_accl \in Nat \ {0}
    BY Limits
  <2> QED
    BY <1>1, <2>1, QuotInt DEF Correction
<1>4. Ramp(vel_cmd - Correction(err)) \in Int
      /\ Ramp(vel_cmd - Correction(err)) - old_vel \in (-max_accl)..max_accl
  BY <1>1, <1>3, Ramps
<1>5. Abs(vel_cmd - old_vel) < max_accl => vel_cmd - old_vel \in (-max_accl)..max_accl
  BY <1>1, AbsNat, Limits
<1>6. CASE Abs(vel_cmd - old_vel) < max_accl
  BY <1>1, <1>2, <1>4, <1>5, <1>6
<1>7. CASE ~(Abs(vel_cmd - old_vel) < max_accl)
  <2>1. PositionMode(p) = old_vel + max_accl \/ PositionMode(p) = old_vel - max_accl
    BY <1>2, <1>7
  <2> QED
    BY <1>1, <2>1, Limits
<1> QED
  BY <1>6, <1>7

\* In velocity mode only a ramp down from a velocity above the limit ends above it.
LEMMA VelocityRamps ==
    ASSUME TypeOK, NEW t \in Int
    PROVE  /\ VelocityMode(t) \in Int /\ VelocityMode(t) - old_vel \in (-max_accl)..max_accl
           /\ Abs(VelocityMode(t)) > max_vel => Abs(VelocityMode(t)) = Abs(old_vel) - max_accl
<1> DEFINE c == Clamp(t, -max_vel, max_vel)
<1>1. c \in (-max_vel)..max_vel /\ c \in Int
  BY Limits DEF Clamp
<1>2. VelocityMode(t) = Ramp(c)
  BY DEF VelocityMode
<1> HIDE DEF c
<1>3. Ramp(c) \in Int /\ Ramp(c) - old_vel \in (-max_accl)..max_accl
  BY <1>1, Ramps
<1>4. Abs(Ramp(c)) > max_vel => Abs(Ramp(c)) = Abs(old_vel) - max_accl
  BY <1>1, Limits, Commands DEF Ramp, Clamp, Abs
<1> QED
  BY <1>2, <1>3, <1>4

LEMMA NewVelocity ==
    ASSUME TypeOK, accum' \in Int, NEW v \in new_vel
    PROVE  /\ v \in Int
           /\ enable => v - old_vel \in (-max_accl)..max_accl
           /\ enable /\ mode = "velocity" /\ Abs(v) > max_vel => Abs(v) = Abs(old_vel) - max_accl
<1>1. CASE ~enable
  BY <1>1 DEF new_vel
<1>2. CASE enable /\ mode = "velocity"
  <2>1. PICK t \in Speeds : v = VelocityMode(t)
    BY <1>2 DEF new_vel
  <2>2. t \in Int
    BY ServoAssumption
  <2> QED
    BY <1>2, <2>1, <2>2, VelocityRamps
<1>3. CASE enable /\ mode # "velocity"
  BY <1>3, PositionRamps DEF new_vel
<1> QED
  BY <1>1, <1>2, <1>3

-----------------------------------------------------------------------------
(* The types are kept                                                      *)

LEMMA OntoTypes ==
    ASSUME NEW port \in SUBSET OfIo, NEW word \in SUBSET Pins
    PROVE  Onto(port, word) \in SUBSET OfIo
  BY DEF Onto, OfIo

\* The board moves, answers or not, and its ports hold words.
LEMMA HandleTypes ==
    ASSUME IInv, NEW v \in Int, NEW before,
           NEW w \in [tris : SUBSET Pins, lat : SUBSET Pins], Handle(v, w, before)
    PROVE  /\ position' \in Counts /\ vel' \in Int /\ tris' \subseteq OfIo /\ lat' \subseteq OfIo
           /\ reply'.some \in BOOLEAN /\ (reply'.some => reply'.pos \in Counts)
           /\ ~reply'.some => FaultsAllowed
<1>1. position \in Int /\ tris \in SUBSET OfIo /\ lat \in SUBSET OfIo
  BY ServoAssumption DEF IInv, TypeOK
<1>2. w.tris \in SUBSET Pins /\ w.lat \in SUBSET Pins
  OBVIOUS
<1>3. tris' \subseteq OfIo /\ lat' \subseteq OfIo
  BY <1>1, <1>2, OntoTypes DEF Handle
<1>4. position' \in Counts /\ vel' \in Int
  BY <1>1, Counted DEF Handle, Move
<1> DEFINE here == IF Early THEN 0 ELSE v
           answer == [some |-> TRUE, pos |-> (position + here) % Range32, word |-> read_io,
                      moved |-> before + here]
<1>5. reply' \in {answer} \cup IF FaultsAllowed THEN {None} ELSE {}
  BY DEF Handle
<1>6. (position + here) % Range32 \in Counts
  BY <1>1, Counted
<1>7. answer.some = TRUE /\ answer.pos \in Counts
  BY <1>6
<1>8. None.some = FALSE
  BY DEF None
<1> HIDE DEF answer
<1> QED
  BY <1>3, <1>4, <1>5, <1>7, <1>8

LEMMA LoseTypes ==
    ASSUME IInv, NEW before, Lose(before)
    PROVE  /\ position' \in Counts /\ vel' \in Int /\ tris' \subseteq OfIo /\ lat' \subseteq OfIo
           /\ reply'.some \in BOOLEAN /\ (reply'.some => reply'.pos \in Counts)
           /\ ~reply'.some => FaultsAllowed
<1>1. position \in Int /\ vel \in Int
  BY ServoAssumption DEF IInv, TypeOK
<1>2. position' \in Counts
  BY <1>1, Counted DEF Lose, Move
<1>3. reply'.some = FALSE
  BY DEF Lose, None
<1> QED
  BY <1>2, <1>3 DEF Lose, ports, IInv, TypeOK

LEMMA CmdTypes ==
    ASSUME IInv, NEW v \in Int, NEW before, HandleCmd(v, before) \/ Lose(before)
    PROVE  /\ position' \in Counts /\ vel' \in Int /\ tris' \subseteq OfIo /\ lat' \subseteq OfIo
           /\ reply'.some \in BOOLEAN /\ (reply'.some => reply'.pos \in Counts)
           /\ ~reply'.some => FaultsAllowed
<1>1. pins.dir \in SUBSET Pins /\ pins.out \in SUBSET Pins
  BY ServoAssumption DEF IInv, TypeOK
<1>2. [tris |-> pin2int(pins.dir), lat |-> pin2int(pins.out)] \in [tris : SUBSET Pins, lat : SUBSET Pins]
  BY <1>1, Pin2Int
<1> QED
  BY <1>2, HandleTypes, LoseTypes DEF HandleCmd

LEMMA TypesStart == Init => IInv
<1> SUFFICES ASSUME Init PROVE IInv
  OBVIOUS
<1>1. /\ 0 \in Counts /\ 0 \in Int /\ 0 \in 0..MaxRxErr
      /\ OfIo \subseteq OfIo /\ {} \subseteq OfIo
  BY ServoAssumption DEF Counts
<1>2. reply.some = TRUE /\ reply.pos = 0
  BY DEF Init
<1>3. ReplyInv
  BY <1>1, <1>2 DEF ReplyInv
<1>4. enable \in BOOLEAN /\ calm \in BOOLEAN /\ restarted \in BOOLEAN
  BY Zenon DEF Init
<1>5. maxvel \in MaxVels \cup {StepLimit} /\ maxaccel \in Nat
  BY ServoAssumption DEF Init
<1> QED
  BY <1>1, <1>3, <1>4, <1>5, Zenon DEF Init, IInv, TypeOK, Counts

LEMMA AccumTypes ==
    ASSUME IInv, GoodReply PROVE accum' \in Int /\ old_count' \in Counts
<1>1. reply.pos \in Counts /\ old_count \in Int /\ reply.pos \in Int /\ accum \in Int
  BY ServoAssumption DEF IInv, TypeOK, ReplyInv, GoodReply, Counts
<1>2. accum_diff \in Int
  BY <1>1, SignedInt DEF accum_diff
<1> QED
  BY <1>1, <1>2 DEF GoodReply

LEMMA GoodReplyTypes == ASSUME IInv, GoodReply PROVE IInv'
<1>1. TypeOK /\ ReplyInv
  BY DEF IInv
<1>2. accum' \in Int /\ old_count' \in Counts
  BY AccumTypes
<1>3. PICK v \in new_vel :
        stepgen(v) /\ (HandleCmd(v, moved - reply.moved) \/ Lose(moved - reply.moved))
  BY DEF GoodReply
<1>4. v \in Int
  BY <1>1, <1>2, NewVelocity
<1>5. /\ position' \in Counts /\ vel' \in Int /\ tris' \subseteq OfIo /\ lat' \subseteq OfIo
      /\ reply'.some \in BOOLEAN /\ (reply'.some => reply'.pos \in Counts)
      /\ ~reply'.some => FaultsAllowed
  BY <1>3, <1>4, CmdTypes
<1>6. /\ sent' \in Int /\ old_vel' \in Int /\ old_pos' \in Targets \cup {0}
      /\ maxvel' \in MaxVels \cup {StepLimit} /\ maxaccel' \in Nat
  BY <1>1, <1>3, <1>4, StepgenTypes
<1>7. rxerr' \in 0..MaxRxErr /\ rxerr' <= rxerr
  BY <1>1, ServoAssumption DEF GoodReply, TypeOK
<1>8. ~reply'.some => rxerr' < MaxRxErr
  BY <1>1, <1>5, <1>7, ServoAssumption DEF FaultsAllowed, TypeOK
<1>9. restarted' \in BOOLEAN
  BY Zenon DEF GoodReply
<1>10. UNCHANGED <<enable, mode, cmd, pins, calm>>
  BY DEF GoodReply
<1>11. ReplyInv'
  BY <1>5, <1>8 DEF ReplyInv
<1> QED
  BY <1>1, <1>2, <1>5, <1>6, <1>7, <1>9, <1>10, <1>11, Zenon DEF IInv, TypeOK, Counts

LEMMA TolerateTypes == ASSUME IInv, Tolerate PROVE IInv'
<1>1. TypeOK
  BY DEF IInv
<1>2. /\ position' \in Counts /\ vel' \in Int /\ tris' \subseteq OfIo /\ lat' \subseteq OfIo
      /\ reply'.some \in BOOLEAN /\ (reply'.some => reply'.pos \in Counts)
      /\ ~reply'.some => FaultsAllowed
  <2>1. CASE HandleIdle(moved)
    <3>1. PICK w \in Leftover : Handle(0, w, moved)
      BY <2>1 DEF HandleIdle
    <3>2. w \in [tris : SUBSET Pins, lat : SUBSET Pins] /\ 0 \in Int
      BY ServoAssumption
    <3> QED
      BY <3>1, <3>2, HandleTypes
  <2> QED
    BY <2>1, LoseTypes DEF Tolerate
<1>3. rxerr' \in 0..MaxRxErr /\ rxerr' < MaxRxErr
  BY <1>1, ServoAssumption DEF Tolerate, TypeOK, RX_TIMEOUT
<1>4. UNCHANGED <<user, feedback, control, restarted>>
  BY DEF Tolerate
<1>5. ReplyInv'
  BY <1>2, <1>3 DEF ReplyInv
<1>6. sent' \in Int
  BY DEF Tolerate
<1> QED
  BY <1>1, <1>2, <1>3, <1>4, <1>5, <1>6, Zenon
     DEF IInv, TypeOK, user, limits, feedback, control, Counts

\* A >CFG and a new connection leave an idle board that answered.
LEMMA ConnectTypes == ASSUME IInv, Configure \/ Reconnect PROVE IInv'
<1>1. TypeOK /\ ReplyInv
  BY DEF IInv
<1>2. tris' \in SUBSET OfIo /\ lat' \in SUBSET OfIo
  <2>1. PICK w \in Leftover : tris' = Onto(tris, w.tris) /\ lat' = Onto(lat, w.lat)
    BY DEF Configure, Reconnect
  <2>2. w.tris \in SUBSET Pins /\ w.lat \in SUBSET Pins
    BY ServoAssumption
  <2> QED
    BY <1>1, <2>1, <2>2, OntoTypes DEF TypeOK
<1>3. position \in Int /\ vel \in Int
  BY <1>1, ServoAssumption DEF TypeOK
<1>4. 0 \in Counts /\ (position + vel) % Range32 \in Counts
  <2>1. 0 \in Counts
    BY ServoAssumption DEF Counts
  <2>2. position + vel \in Int
    BY <1>3
  <2> QED
    BY <2>1, <2>2, Counted
<1>5. position' \in Counts /\ vel' \in Int
  BY <1>4 DEF Configure, Reconnect, Move
<1>6. reply'.some = TRUE /\ reply'.pos \in Counts
  BY <1>4 DEF Configure, Reconnect
<1>7. rxerr' \in 0..MaxRxErr
  <2>1. CASE Configure
    BY <1>1, <2>1 DEF Configure, TypeOK
  <2>2. CASE Reconnect
    <3>1. rxerr < MaxRxErr
      BY <1>1, <2>2 DEF Reconnect, ReplyInv
    <3> QED
      BY <1>1, <2>2, <3>1, ServoAssumption DEF Reconnect, TypeOK
  <2> QED
    BY <2>1, <2>2
<1>8. restarted' \in BOOLEAN
  BY <1>1, Zenon DEF Configure, Reconnect, TypeOK
<1>9. UNCHANGED <<user, feedback, control>>
  BY DEF Configure, Reconnect
<1>10. ReplyInv'
  BY <1>6 DEF ReplyInv
<1>11. sent' \in Int
  BY DEF Configure, Reconnect
<1> QED
  BY <1>1, <1>2, <1>5, <1>7, <1>8, <1>9, <1>10, <1>11, Zenon
     DEF IInv, TypeOK, user, limits, feedback, control, Counts

LEMMA UserTypes == ASSUME IInv, User PROVE IInv'
<1>1. TypeOK /\ ReplyInv
  BY DEF IInv
<1>2. enable' \in BOOLEAN /\ calm' \in BOOLEAN /\ mode' \in {"velocity", "position"}
  BY <1>1, Zenon DEF User, TypeOK
<1>3. /\ cmd' \in Targets \cup {0} /\ pins' \in Settings
      /\ maxvel' \in MaxVels \cup {StepLimit} /\ maxaccel' \in Nat
  BY <1>1, ServoAssumption DEF User, TypeOK, limits
<1>4. UNCHANGED <<feedback, control, rxerr, board, restarted, sent>>
  BY DEF User
<1>5. ReplyInv'
  BY <1>1, <1>4 DEF ReplyInv, board
<1> QED
  BY <1>1, <1>2, <1>3, <1>4, <1>5, Zenon DEF IInv, TypeOK, feedback, control, board, ports

LEMMA Inductive == Spec => []IInv
<1>1. IInv /\ [Next]_vars => IInv'
  <2> SUFFICES ASSUME IInv, [Next]_vars PROVE IInv'
    OBVIOUS
  <2>1. CASE UNCHANGED vars
    BY <2>1, Zenon
       DEF vars, IInv, TypeOK, ReplyInv, user, limits, feedback, control, board, ports
  <2> QED
    BY <2>1, GoodReplyTypes, TolerateTypes, ConnectTypes, UserTypes DEF Next, Period
<1> QED
  BY <1>1, TypesStart, PTL DEF Spec

\* Every variable keeps its type; the board's position and the count read last
\* stay words (stepgen.c:68-132, rt8p8c.comp:190-198).
THEOREM TypeCorrect == Spec => []TypeOK
<1>1. IInv => TypeOK
  BY DEF IInv
<1> QED
  BY <1>1, Inductive, PTL

\* old_vel is what was sent last, or what the axis was stopped from.
SentInv == sent \in {0, old_vel}

LEMMA InductiveSent == Spec => []SentInv
<1>1. Init => SentInv
  BY DEF Init, SentInv
<1>2. ASSUME SentInv, [Next]_vars PROVE SentInv'
  <2>1. CASE GoodReply
    <3>1. PICK v \in new_vel : stepgen(v)
      BY <2>1 DEF GoodReply
    <3>2. sent' = v /\ (enable => old_vel' = v) /\ (~enable => v = 0)
      BY <3>1 DEF stepgen, new_vel
    <3> QED
      BY <3>2 DEF SentInv
  <2>2. CASE Tolerate \/ Configure \/ Reconnect
    BY <2>2 DEF Tolerate, Configure, Reconnect, SentInv
  <2>3. CASE UNCHANGED vars \/ User
    BY <1>2, <2>3 DEF vars, User, control, SentInv
  <2> QED
    BY <1>2, <2>1, <2>2, <2>3 DEF Next, Period
<1> QED
  BY <1>1, <1>2, PTL DEF Spec

\* In both modes and through every change of the limits, the velocity sent to an
\* enabled axis differs by the acceleration limit at most from the one before,
\* or from the one the axis was stopped from: a stop is not the only jump, the
\* command after it may be one as large.  In velocity mode one above the limit
\* comes down (rt8p8c.comp:446-449, 511-581).
THEOREM AccelerationLimited == Spec => MotionLimited
<1>1. ASSUME IInv, SentInv, [Next]_vars
      PROVE  [GoodReply /\ enable =>
                /\ Abs(sent' - Resumed) <= max_accl
                /\ mode = "velocity" /\ Abs(sent') > max_vel
                      => Abs(sent') = Abs(Resumed) - max_accl]_vars
  <2> SUFFICES ASSUME GoodReply, enable
               PROVE  /\ Abs(sent' - Resumed) <= max_accl
                      /\ mode = "velocity" /\ Abs(sent') > max_vel
                            => Abs(sent') = Abs(Resumed) - max_accl
    OBVIOUS
  <2>1. TypeOK /\ accum' \in Int
    BY <1>1, AccumTypes DEF IInv
  <2>2. PICK v \in new_vel : stepgen(v)
    BY DEF GoodReply
  <2>3. sent' = v /\ Resumed = old_vel
    BY <1>1, <2>2 DEF stepgen, Resumed, SentInv
  <2>4. /\ v \in Int /\ v - old_vel \in (-max_accl)..max_accl
        /\ mode = "velocity" /\ Abs(v) > max_vel => Abs(v) = Abs(old_vel) - max_accl
    BY <2>1, NewVelocity
  <2>5. Abs(v - old_vel) <= max_accl
    BY <2>1, <2>4, Limits, Commands DEF Abs
  <2> QED
    BY <2>3, <2>4, <2>5
<1> QED
  BY <1>1, Inductive, InductiveSent, PTL DEF Spec, MotionLimited

-----------------------------------------------------------------------------
(* The count of the feedback                                               *)

\* What the board's position, the count read last and the reply under way say
\* of each other: they differ by the distances moved, as words.
FeedbackInv ==
    /\ moved \in Int
    /\ reply.some => /\ reply.moved \in Int
                     /\ position = (reply.pos + (moved - reply.moved)) % Range32
    /\ ~restarted => /\ position = (old_count + moved) % Range32
                     /\ reply.some => reply.pos = (old_count + reply.moved) % Range32

\* How far the axis may have moved at S counts a period since the reply read
\* last: the answers to at most two commands were lost since.
MovedInv(S) ==
    /\ reply.some => /\ moved - reply.moved \in (-S)..S
                     /\ reply.moved \in (-3 * S)..(3 * S) /\ moved \in (-3 * S)..(3 * S)
                     /\ vel # 0 => moved \in (-2 * S)..(2 * S)
    /\ ~reply.some /\ rxerr < RX_TIMEOUT => moved \in (-2 * S)..(2 * S)

\* A product with a whole number that is not zero is no less than the factor.
LEMMA Multiple ==
    ASSUME NEW b \in Nat \ {0}, NEW k \in Int
    PROVE  /\ k >= 1 => b * k >= b
           /\ k <= -1 => b * k <= -b
  OBVIOUS

\* A number is divided in one way.
LEMMA Division ==
    ASSUME NEW b \in Nat \ {0}, NEW h \in Int, NEW l \in 0..(b - 1)
    PROVE  (h * b + l) % b = l
<1> DEFINE n == h * b + l
           d == n \div b
           m == n % b
<1>1. n \in Int /\ d \in Int /\ m \in 0..(b - 1) /\ n = b * d + m
  OBVIOUS
<1>2. b * (h - d) = m - l
  BY <1>1
<1>3. h - d \in Int /\ ~(h - d >= 1) /\ ~(h - d <= -1)
  <2>1. h - d \in Int
    BY <1>1
  <2>2. m - l < b /\ m - l > -b
    BY <1>1
  <2> HIDE DEF n, d, m
  <2> QED
    BY <1>2, <2>1, <2>2, Multiple
<1>4. h = d
  BY <1>1, <1>3
<1> QED
  BY <1>1, <1>2, <1>4

LEMMA DivisionOf ==
    ASSUME NEW b \in Nat \ {0}, NEW n \in Int
    PROVE  n \div b \in Int /\ n % b \in 0..(b - 1) /\ n = b * (n \div b) + (n % b)
  OBVIOUS

\* Reducing a summand does not change the word of the sum.
LEMMA Congruent ==
    ASSUME NEW b \in Nat \ {0}, NEW x \in Int, NEW y \in Int
    PROVE  ((x % b) + y) % b = (x + y) % b
<1> DEFINE q == x \div b
           m == x % b
           d == (m + y) \div b
           l == (m + y) % b
<1>1. q \in Int /\ m \in Int /\ x = b * q + m
  BY DivisionOf
<1>2. d \in Int /\ l \in 0..(b - 1) /\ m + y = b * d + l
  <2>1. m + y \in Int
    BY <1>1
  <2> QED
    BY <2>1, DivisionOf, Zenon
<1> HIDE DEF q, m, d, l
<1>3. x + y = (q + d) * b + l /\ q + d \in Int
  <2>1. (q + d) * b = b * q + b * d /\ b * q \in Int /\ b * d \in Int
    BY <1>1, <1>2
  <2> QED
    BY <1>1, <1>2, <2>1
<1>4. (x + y) % b = l
  BY <1>2, <1>3, Division
<1> QED
  BY <1>4 DEF l, m

\* A distance shorter than half the range survives the signed word.
LEMMA SignedIs ==
    ASSUME NEW n \in Int, NEW d \in Int, n % Range32 = d % Range32,
           -Range32 < 2 * d, 2 * d < Range32 - 1
    PROVE  Signed(n) = d
<1>1. Range32 \in Nat /\ Range32 > 0 /\ Range32 \div 2 \in Nat
      /\ 2 * (Range32 \div 2) <= Range32 /\ Range32 <= 2 * (Range32 \div 2) + 1
  BY ServoAssumption
<1>2. CASE d >= 0
  <2>1. d % Range32 = d
    BY <1>1, <1>2
  <2> QED
    BY <1>1, <1>2, <2>1 DEF Signed
<1>3. CASE d < 0
  <2>1. d % Range32 = d + Range32
    BY <1>1, <1>3
  <2> QED
    BY <1>1, <1>3, <2>1 DEF Signed
<1> QED
  BY <1>2, <1>3

LEMMA CountIs == ASSUME NEW c \in Counts PROVE c % Range32 = c
  BY ServoAssumption DEF Counts

LEMMA RangePositive == Range32 \in Nat \ {0}
  BY ServoAssumption

\* A position that is a word moves on from where it is.
LEMMA MovesOn ==
    ASSUME NEW a \in Int, NEW b \in Int, NEW d \in Int
    PROVE  (((a + b) % Range32) + d) % Range32 = (a + (b + d)) % Range32
<1>1. a + b \in Int /\ (a + b) + d = a + (b + d)
  OBVIOUS
<1>2. (((a + b) % Range32) + d) % Range32 = ((a + b) + d) % Range32
  BY <1>1, Congruent, RangePositive, Zenon
<1> QED
  BY <1>1, <1>2

LEMMA FeedbackStart == Init => FeedbackInv
<1> SUFFICES ASSUME Init PROVE FeedbackInv
  OBVIOUS
<1>1. /\ position = 0 /\ old_count = 0 /\ moved = 0
      /\ reply.pos = 0 /\ reply.moved = 0
  BY DEF Init
<1>2. 0 % Range32 = 0
  BY RangePositive
<1> QED
  BY <1>1, <1>2 DEF FeedbackInv

\* A datagram that is taken moves the position and the distance alike, and the
\* answer takes both at the same moment.
LEMMA HandleFeedback ==
    ASSUME TypeOK, NEW v \in Int, NEW before \in Int, NEW w, Handle(v, w, before)
    PROVE  /\ moved' = before + v /\ vel' = v
           /\ reply'.some =>
                /\ reply'.moved \in Int /\ moved' - reply'.moved \in {0, v}
                /\ position' = (reply'.pos + (moved' - reply'.moved)) % Range32
           /\ \A a \in Int : position = (a + before) % Range32
                => /\ position' = (a + moved') % Range32
                   /\ reply'.some => reply'.pos = (a + reply'.moved) % Range32
<1> DEFINE here == IF Early THEN 0 ELSE v
           answer == [some |-> TRUE, pos |-> (position + here) % Range32, word |-> read_io,
                      moved |-> before + here]
<1>1. /\ moved' = before + v /\ vel' = v /\ position' = (position + v) % Range32
      /\ reply' \in {answer} \cup IF FaultsAllowed THEN {None} ELSE {}
  BY DEF Handle, Move
<1>2. here \in Int /\ v - here \in {0, v} /\ position \in Int
  BY ServoAssumption DEF TypeOK
<1>3. /\ answer.pos = (position + here) % Range32 /\ answer.moved = before + here
      /\ None.some = FALSE
  BY DEF None
<1> HIDE DEF answer, here
<1>4. reply'.some => reply'.pos = (position + here) % Range32 /\ reply'.moved = before + here
  BY <1>1, <1>3
<1>5. ASSUME NEW a \in Int, position = (a + before) % Range32, NEW d \in Int
      PROVE  (position + d) % Range32 = (a + (before + d)) % Range32
  BY <1>5, MovesOn, Zenon
<1>6. ASSUME reply'.some
      PROVE  /\ reply'.moved \in Int /\ moved' - reply'.moved \in {0, v}
             /\ position' = (reply'.pos + (moved' - reply'.moved)) % Range32
  <2>1. reply'.moved = before + here /\ moved' - reply'.moved = v - here
    BY <1>1, <1>2, <1>4, <1>6
  <2>2. position + here \in Int /\ v - here \in Int /\ (position + here) + (v - here) = position + v
    BY <1>2
  <2>3. (((position + here) % Range32) + (v - here)) % Range32 = (position + v) % Range32
    BY <2>2, Congruent, RangePositive
  <2> QED
    BY <1>1, <1>2, <1>4, <1>6, <2>1, <2>3
<1>7. ASSUME NEW a \in Int, position = (a + before) % Range32
      PROVE  /\ position' = (a + moved') % Range32
             /\ reply'.some => reply'.pos = (a + reply'.moved) % Range32
  BY <1>1, <1>2, <1>4, <1>5, <1>7
<1> QED
  BY <1>1, <1>6, <1>7

LEMMA LoseFeedback ==
    ASSUME TypeOK, NEW before \in Int, Lose(before)
    PROVE  /\ moved' = before + vel /\ vel' = vel /\ ~reply'.some
           /\ \A a \in Int : position = (a + before) % Range32
                => position' = (a + moved') % Range32
<1>1. /\ moved' = before + vel /\ vel' = vel /\ position' = (position + vel) % Range32
      /\ ~reply'.some
  BY DEF Lose, Move, None
<1>2. vel \in Int
  BY DEF TypeOK
<1>3. ASSUME NEW a \in Int, position = (a + before) % Range32
      PROVE  position' = (a + moved') % Range32
  BY <1>1, <1>2, <1>3, MovesOn, Zenon
<1> QED
  BY <1>1, <1>3

\* What a good reply leads to: the velocity of a command, or the one before.
LEMMA GoodReplyMoves ==
    ASSUME IInv, FeedbackInv, GoodReply
    PROVE  \E v \in new_vel : /\ v \in Int /\ moved - reply.moved \in Int
                              /\ \/ HandleCmd(v, moved - reply.moved)
                                 \/ Lose(moved - reply.moved)
<1>1. PICK v \in new_vel : HandleCmd(v, moved - reply.moved) \/ Lose(moved - reply.moved)
  BY DEF GoodReply
<1>2. v \in Int
  BY AccumTypes, NewVelocity DEF IInv
<1>3. moved - reply.moved \in Int
  BY DEF FeedbackInv, GoodReply
<1> QED
  BY <1>1, <1>2, <1>3

LEMMA FeedbackGoodReply == ASSUME IInv, FeedbackInv, GoodReply PROVE FeedbackInv'
<1> DEFINE before == moved - reply.moved
<1>1. PICK v \in new_vel : v \in Int /\ before \in Int /\ (HandleCmd(v, before) \/ Lose(before))
  BY GoodReplyMoves
<1>2. /\ TypeOK /\ reply.some /\ reply.pos \in Int /\ vel \in Int
      /\ position = (reply.pos + before) % Range32
  BY ServoAssumption DEF IInv, TypeOK, ReplyInv, Counts, FeedbackInv, GoodReply
<1>3. old_count' = reply.pos
  BY DEF GoodReply
<1> HIDE DEF before
<1>4. CASE HandleCmd(v, before)
  <2>1. PICK w : Handle(v, w, before)
    BY <1>4 DEF HandleCmd
  <2> QED
    BY <1>1, <1>2, <1>3, <2>1, HandleFeedback DEF FeedbackInv
<1>5. CASE Lose(before)
  BY <1>1, <1>2, <1>3, <1>5, LoseFeedback DEF FeedbackInv
<1> QED
  BY <1>1, <1>4, <1>5

LEMMA FeedbackTolerate == ASSUME IInv, FeedbackInv, Tolerate PROVE FeedbackInv'
<1>1. /\ TypeOK /\ moved \in Int /\ vel \in Int /\ old_count \in Int
      /\ ~restarted => position = (old_count + moved) % Range32
  BY ServoAssumption DEF IInv, TypeOK, FeedbackInv
<1>2. old_count' = old_count /\ restarted' = restarted
  BY DEF Tolerate, feedback
<1>3. CASE HandleIdle(moved)
  <2>1. PICK w : Handle(0, w, moved)
    BY <1>3 DEF HandleIdle
  <2>2. /\ moved' = moved
        /\ reply'.some => reply'.moved \in Int
              /\ position' = (reply'.pos + (moved' - reply'.moved)) % Range32
        /\ \A a \in Int : position = (a + moved) % Range32
             => /\ position' = (a + moved') % Range32
                /\ reply'.some => reply'.pos = (a + reply'.moved) % Range32
    BY <1>1, <2>1, HandleFeedback
  <2> QED
    BY <1>1, <1>2, <2>2 DEF FeedbackInv
<1>4. CASE Lose(moved)
  BY <1>1, <1>2, <1>4, LoseFeedback DEF FeedbackInv
<1> QED
  BY <1>3, <1>4 DEF Tolerate

LEMMA FeedbackConnect ==
    ASSUME IInv, FeedbackInv, Configure \/ Reconnect PROVE FeedbackInv'
<1>1. /\ TypeOK /\ moved \in Int /\ vel \in Int /\ old_count \in Int /\ position \in Int
      /\ ~restarted => position = (old_count + moved) % Range32
  BY ServoAssumption DEF IInv, TypeOK, FeedbackInv
<1>2. CASE Configure
  <2>1. /\ moved' = moved + vel /\ position' = (position + vel) % Range32
        /\ reply'.pos = position' /\ reply'.moved = moved'
        /\ old_count' = old_count /\ restarted' = restarted
    BY <1>2 DEF Configure, Move, feedback
  <2>2. position' \in Counts
    BY <1>1, <2>1, Counted
  <2>3. position' = (reply'.pos + (moved' - reply'.moved)) % Range32
    <3>1. moved' - reply'.moved = 0 /\ position' \in Int
      BY <1>1, <2>1, <2>2, ServoAssumption DEF Counts
    <3>2. position' + 0 = position'
      <4>1. \A n \in Int : n + 0 = n
        OBVIOUS
      <4> QED
        BY <3>1, <4>1, Zenon
    <3>3. position' % Range32 = position'
      BY <2>2, CountIs, Zenon
    <3> QED
      BY <2>1, <3>1, <3>2, <3>3
  <2>4. ~restarted => position' = (old_count + moved') % Range32
    <3>1. (((old_count + moved) % Range32) + vel) % Range32 = (old_count + (moved + vel)) % Range32
      BY <1>1, MovesOn, Zenon
    <3> QED
      BY <1>1, <2>1, <3>1
  <2> QED
    BY <1>1, <2>1, <2>3, <2>4 DEF FeedbackInv
<1>3. CASE Reconnect
  <2>1. /\ position' = 0 /\ moved' = 0 /\ restarted' = TRUE
        /\ reply'.pos = 0 /\ reply'.moved = 0
    BY <1>3 DEF Reconnect
  <2>2. 0 % Range32 = 0 /\ 0 - 0 = 0 /\ 0 + 0 = 0
    BY RangePositive
  <2> QED
    BY <2>1, <2>2 DEF FeedbackInv
<1> QED
  BY <1>2, <1>3

LEMMA FeedbackStep == ASSUME IInv, FeedbackInv, [Next]_vars PROVE FeedbackInv'
<1>1. CASE UNCHANGED vars \/ User
  <2>1. UNCHANGED <<moved, reply, position, old_count, restarted>>
    BY <1>1 DEF vars, User, feedback, board
  <2> QED
    BY <2>1, Zenon DEF FeedbackInv
<1> QED
  BY <1>1, FeedbackGoodReply, FeedbackTolerate, FeedbackConnect DEF Next, Period

LEMMA InductiveFeedback == Spec => []FeedbackInv
<1>1. IInv /\ FeedbackInv /\ [Next]_vars => FeedbackInv'
  BY FeedbackStep
<1> QED
  BY <1>1, FeedbackStart, Inductive, PTL DEF Spec

LEMMA MovedStart == ASSUME NEW S \in Nat, Init PROVE MovedInv(S)
<1>1. moved = 0 /\ vel = 0 /\ reply.some = TRUE /\ reply.moved = 0
  BY DEF Init
<1> QED
  BY <1>1 DEF MovedInv

LEMMA MovedStep ==
    ASSUME NEW S \in Nat, IInv, FeedbackInv, MovedInv(S), Below(S), Below(S)', [Next]_vars
    PROVE  MovedInv(S)'
<1>1. /\ TypeOK /\ vel \in (-S)..S /\ vel' \in (-S)..S /\ moved \in Int /\ rxerr \in Nat
      /\ RX_TIMEOUT = 1
  BY DEF IInv, TypeOK, FeedbackInv, Below, RX_TIMEOUT
<1>2. CASE GoodReply
  <2> DEFINE before == moved - reply.moved
  <2>1. PICK v \in new_vel : v \in Int /\ before \in Int /\ (HandleCmd(v, before) \/ Lose(before))
    BY <1>2, GoodReplyMoves
  <2>2. before \in (-S)..S
    BY <1>2 DEF MovedInv, GoodReply
  <2> HIDE DEF before
  <2>3. CASE HandleCmd(v, before)
    <3>1. PICK w : Handle(v, w, before)
      BY <2>3 DEF HandleCmd
    <3>2. /\ moved' = before + v /\ vel' = v
          /\ reply'.some => reply'.moved \in Int /\ moved' - reply'.moved \in {0, v}
      BY <1>1, <2>1, <3>1, HandleFeedback
    <3>3. moved' \in (-2 * S)..(2 * S)
      BY <1>1, <2>1, <2>2, <3>2
    <3>4. reply'.some => /\ moved' - reply'.moved \in (-S)..S
                         /\ reply'.moved \in (-3 * S)..(3 * S)
      BY <1>1, <3>2, <3>3
    <3>5. moved' \in (-3 * S)..(3 * S)
      BY <3>3
    <3> QED
      BY <3>3, <3>4, <3>5, Zenon DEF MovedInv
  <2>4. CASE Lose(before)
    <3>1. moved' = before + vel /\ ~reply'.some
      BY <1>1, <2>1, <2>4, LoseFeedback
    <3>2. moved' \in (-2 * S)..(2 * S)
      BY <1>1, <2>1, <2>2, <3>1
    <3> QED
      BY <3>1, <3>2, Zenon DEF MovedInv
  <2> QED
    BY <2>1, <2>3, <2>4
<1>3. CASE Tolerate
  <2>1. /\ ~reply.some /\ rxerr < RX_TIMEOUT /\ rxerr' = rxerr + 1
        /\ HandleIdle(moved) \/ Lose(moved)
    BY <1>3 DEF Tolerate
  <2>2. moved \in (-2 * S)..(2 * S) /\ ~(rxerr' < RX_TIMEOUT)
    BY <1>1, <2>1 DEF MovedInv
  <2>3. CASE HandleIdle(moved)
    <3>1. PICK w : Handle(0, w, moved)
      BY <2>3 DEF HandleIdle
    <3>2. /\ moved' = moved /\ vel' = 0
          /\ reply'.some => reply'.moved \in Int /\ moved' - reply'.moved = 0
      BY <1>1, <3>1, HandleFeedback
    <3>3. /\ moved' \in (-3 * S)..(3 * S) /\ 0 \in (-S)..S
          /\ reply'.some => reply'.moved \in (-3 * S)..(3 * S)
      BY <2>2, <3>2
    <3> QED
      BY <2>2, <3>2, <3>3, Zenon DEF MovedInv
  <2>4. CASE Lose(moved)
    <3>1. ~reply'.some
      BY <1>1, <2>4, LoseFeedback
    <3> QED
      BY <2>2, <3>1, Zenon DEF MovedInv
  <2> QED
    BY <2>1, <2>3, <2>4
<1>4. CASE Configure
  <2>1. reply.some /\ vel' = 0 /\ moved' = moved + vel /\ reply'.moved = moved' /\ reply'.some
    BY <1>4 DEF Configure
  <2>2. moved \in (-3 * S)..(3 * S) /\ (vel # 0 => moved \in (-2 * S)..(2 * S))
    BY <2>1 DEF MovedInv
  <2>3. moved' \in (-3 * S)..(3 * S) /\ moved' - moved' = 0 /\ 0 \in (-S)..S
    <3>1. CASE vel = 0
      BY <1>1, <2>1, <2>2, <3>1
    <3>2. CASE vel # 0
      BY <1>1, <2>1, <2>2, <3>2
    <3> QED
      BY <3>1, <3>2
  <2> QED
    BY <2>1, <2>3, Zenon DEF MovedInv
<1>5. CASE Reconnect
  <2>1. vel' = 0 /\ moved' = 0 /\ reply'.moved = 0 /\ reply'.some
    BY <1>5 DEF Reconnect
  <2>2. 0 - 0 \in (-S)..S /\ 0 \in (-3 * S)..(3 * S)
    OBVIOUS
  <2> QED
    BY <2>1, <2>2, Zenon DEF MovedInv
<1>6. CASE UNCHANGED vars \/ User
  <2>1. UNCHANGED <<moved, reply, vel, rxerr>>
    BY <1>6 DEF vars, User, board
  <2> QED
    BY <2>1, Zenon DEF MovedInv
<1> QED
  BY <1>2, <1>3, <1>4, <1>5, <1>6 DEF Next, Period

\* A good reply adds the distance the board moved to the count, if its speed
\* keeps six periods of it from wrapping.
LEMMA CountedExact ==
    ASSUME NEW S \in Nat, 6 * S + 1 < Range32,
           IInv, FeedbackInv, MovedInv(S), GoodReply, ~restarted
    PROVE  accum' = accum + reply.moved
<1>1. /\ reply.pos = (old_count + reply.moved) % Range32 /\ reply.moved \in Int
      /\ old_count \in Int
  BY ServoAssumption DEF FeedbackInv, GoodReply, IInv, TypeOK
<1>2. reply.moved \in (-3 * S)..(3 * S)
  BY DEF MovedInv, GoodReply
<1>3. (reply.pos - old_count) % Range32 = reply.moved % Range32
  <2>1. (((old_count + reply.moved) % Range32) + (-old_count)) % Range32
          = (old_count + (reply.moved + (-old_count))) % Range32
    <3>1. -old_count \in Int
      BY <1>1
    <3> QED
      BY <1>1, <3>1, MovesOn, Zenon
  <2>2. old_count + (reply.moved + (-old_count)) = reply.moved
    BY <1>1
  <2>3. reply.pos - old_count = ((old_count + reply.moved) % Range32) + (-old_count)
    <3>1. \A m, n \in Int : m - n = m + (-n)
      OBVIOUS
    <3>2. reply.pos \in Int
      BY ServoAssumption DEF IInv, ReplyInv, GoodReply, Counts
    <3> QED
      BY <1>1, <3>1, <3>2, Zenon
  <2> QED
    BY <2>1, <2>2, <2>3, Zenon
<1>4. -Range32 < 2 * reply.moved /\ 2 * reply.moved < Range32 - 1
  BY <1>2, RangePositive
<1>5. reply.pos - old_count \in Int
  BY <1>1, ServoAssumption DEF IInv, ReplyInv, GoodReply, Counts
<1>6. accum_diff = reply.moved
  BY <1>1, <1>3, <1>4, <1>5, SignedIs DEF accum_diff
<1> QED
  BY <1>6 DEF GoodReply

\* The 64 bit count moves by exactly the distance moved, over wraps and lost
\* datagrams, at every speed six periods of which do not wrap
\* (rt8p8c.comp:190-198).
THEOREM FeedbackFollows ==
    ASSUME NEW S \in Nat, 6 * S + 1 < Range32
    PROVE  Spec /\ []Below(S) => FeedbackExact
<1>1. Init => MovedInv(S)
  BY MovedStart
<1>2. IInv /\ FeedbackInv /\ MovedInv(S) /\ Below(S) /\ Below(S)' /\ [Next]_vars => MovedInv(S)'
  BY MovedStep
<1>3. Spec /\ []Below(S) => []MovedInv(S)
  BY <1>1, <1>2, Inductive, InductiveFeedback, PTL DEF Spec
<1>4. IInv /\ FeedbackInv /\ MovedInv(S) /\ [Next]_vars
        => [GoodReply /\ ~restarted => accum' = accum + reply.moved]_vars
  BY CountedExact
<1> QED
  BY <1>3, <1>4, Inductive, InductiveFeedback, PTL DEF Spec, FeedbackExact

-----------------------------------------------------------------------------
(* Velocity mode                                                           *)

LimitInv == old_vel \in (-StepLimit)..StepLimit /\ Below(StepLimit)

LEMMA LimitKept == ASSUME IInv, LimitInv, mode = "velocity", [Next]_vars PROVE LimitInv'
<1>1. /\ TypeOK /\ old_vel \in (-StepLimit)..StepLimit /\ vel \in (-StepLimit)..StepLimit
      /\ StepLimit \in Nat
  BY ServoAssumption DEF IInv, LimitInv, Below
<1>2. CASE GoodReply
  <2>1. PICK v \in new_vel :
          stepgen(v) /\ (HandleCmd(v, moved - reply.moved) \/ Lose(moved - reply.moved))
    BY <1>2 DEF GoodReply
  <2>2. v \in Int /\ v \in (-StepLimit)..StepLimit
    <3>1. CASE ~enable
      BY <1>1, <3>1 DEF new_vel
    <3>2. CASE enable
      <4>1. PICK t \in Speeds : v = VelocityMode(t)
        BY <3>2 DEF new_vel
      <4>2. /\ v \in Int /\ v - old_vel \in (-max_accl)..max_accl
            /\ Abs(v) > max_vel => Abs(v) = Abs(old_vel) - max_accl
        <5>1. t \in Int
          BY ServoAssumption
        <5> QED
          BY <1>1, <4>1, <5>1, VelocityRamps
      <4>3. Abs(v) <= StepLimit
        <5>1. Abs(old_vel) <= StepLimit /\ Abs(old_vel) \in Nat /\ Abs(v) \in Nat
          BY <1>1, <4>2 DEF Abs
        <5> QED
          BY <1>1, <4>2, <5>1, Limits
      <4> QED
        BY <1>1, <4>2, <4>3 DEF Abs
    <3> QED
      BY <3>1, <3>2
  <2>3. old_vel' \in (-StepLimit)..StepLimit
    BY <1>1, <2>1, <2>2 DEF stepgen, control
  <2>4. vel' = v \/ vel' = vel
    BY <2>1 DEF HandleCmd, Handle, Lose
  <2> QED
    BY <1>1, <2>2, <2>3, <2>4 DEF LimitInv, Below
<1>3. CASE Tolerate \/ Configure \/ Reconnect
  <2>1. old_vel' = old_vel /\ vel' \in {0, vel}
    BY <1>3 DEF Tolerate, Configure, Reconnect, HandleIdle, Handle, Lose, control
  <2> QED
    BY <1>1, <2>1 DEF LimitInv, Below
<1>4. CASE UNCHANGED vars \/ User
  BY <1>1, <1>4 DEF LimitInv, Below, vars, User, control, board
<1> QED
  BY <1>2, <1>3, <1>4 DEF Next, Period

LEMMA LimitStart == Init => LimitInv
  BY ServoAssumption DEF Init, LimitInv, Below

LEMMA InductiveLimit == Spec /\ [](mode = "velocity") => []LimitInv
<1>1. IInv /\ LimitInv /\ mode = "velocity" /\ [Next]_vars => LimitInv'
  BY LimitKept
<1> QED
  BY <1>1, LimitStart, Inductive, PTL DEF Spec

\* An axis that is only ever commanded in velocity mode keeps the limit of its
\* steps, whatever the user sets (rt8p8c.comp:453-528).
THEOREM VelocityModeLimited == Spec /\ [](mode = "velocity") => []MaxVelKept
<1>1. LimitInv => MaxVelKept
  BY ServoAssumption DEF LimitInv, MaxVelKept, Abs
<1> QED
  BY <1>1, InductiveLimit, PTL

\* Such an axis has exact feedback, at every limit the code allows.
THEOREM VelocityModeFeedback == Spec /\ [](mode = "velocity") => FeedbackExact
<1>1. StepLimit \in Nat /\ 6 * StepLimit + 1 < Range32
  BY ServoAssumption
<1>2. LimitInv => Below(StepLimit)
  BY DEF LimitInv
<1>3. Init => MovedInv(StepLimit)
  BY <1>1, MovedStart
<1>4. IInv /\ FeedbackInv /\ MovedInv(StepLimit) /\ Below(StepLimit) /\ Below(StepLimit)'
        /\ [Next]_vars => MovedInv(StepLimit)'
  BY <1>1, MovedStep
<1>5. IInv /\ FeedbackInv /\ MovedInv(StepLimit) /\ [Next]_vars
        => [GoodReply /\ ~restarted => accum' = accum + reply.moved]_vars
  BY <1>1, CountedExact
<1> QED
  BY <1>2, <1>3, <1>4, <1>5, Inductive, InductiveFeedback, InductiveLimit, PTL
  DEF Spec, FeedbackExact

=============================================================================
