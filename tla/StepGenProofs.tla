--------------------------- MODULE StepGenProofs ---------------------------
(***************************************************************************)
(* The step generator keeps its pin timings for every number of channels,  *)
(* step length, velocity, delay and configuration.                         *)
(*                                                                         *)
(* TypeOK is proved first, on its own.  The timings then follow from IInv: *)
(* what is left in a down counter, plus the time that has passed, covers   *)
(* what the driver is owed.  Last, a channel that runs forward sends the   *)
(* steps it reports.                                                       *)
(***************************************************************************)
EXTENDS StepGen, TLAPS

\* A remainder is below its modulus, and zero for zero.
LEMMA Remainder ==
    ASSUME NEW n \in Nat \ {0}, NEW x \in Int
    PROVE  x % n \in 0..(n - 1) /\ 0 % n = 0
  BY SMT

LEMMA PosModPositive == PosMod \in Nat \ {0}
  BY StepGenAssumption DEF PosMod

LEMMA StepBitRange ==
    ASSUME NEW p \in Int
    PROVE  StepBit(p) \in {0, 1} /\ StepBit(0) = 0
<1>1. p \div StepLen \in Int /\ 0 \div StepLen = 0
  BY StepGenAssumption
<1> QED
  BY <1>1 DEF StepBit, StepIndex

\* What one interrupt computes for a channel has the type of what it stores.
LEMMA ChannelTypes ==
    ASSUME TypeOK, NEW i \in Gen
    PROVE  /\ CountDown(input.delay) \in Nat
           /\ SetupLeft(i) \in 0..Far
           /\ WidthLoaded(i) \in 0..Far /\ CountDown(WidthLoaded(i)) \in 0..Far
           /\ HoldLoaded(i) \in 0..Far /\ CountDown(HoldLoaded(i)) \in 0..Far
           /\ NewPosition(i) \in 0..(PosMod - 1)
           /\ NewDirPin(i) \in {0, 1} /\ StepLevel(i) \in {0, 1}
           /\ config[i] \in [stpwdth : 1..Far, dirsetp : 1..Far, dirhold : 1..Far]
           /\ input.velocity[i] \in Int
<1>1. config[i] \in [stpwdth : 1..Far, dirsetp : 1..Far, dirhold : 1..Far]
  BY StepGenAssumption DEF TypeOK
<1>2. input.velocity[i] \in Int
  BY StepGenAssumption DEF TypeOK
<1>3. CountDown(input.delay) \in Nat /\ SetupLeft(i) \in 0..Far
  BY StepGenAssumption DEF TypeOK, CountDown, SetupLeft
<1>4. WidthLoaded(i) \in 0..Far /\ HoldLoaded(i) \in 0..Far
  BY <1>1 DEF TypeOK, WidthLoaded, HoldLoaded
<1>5. CountDown(WidthLoaded(i)) \in 0..Far /\ CountDown(HoldLoaded(i)) \in 0..Far
  BY <1>4, StepGenAssumption DEF CountDown
<1>6. NewPosition(i) \in 0..(PosMod - 1)
  <2>1. position[i] \in 0..(PosMod - 1) /\ position[i] + input.velocity[i] \in Int
    BY <1>2, PosModPositive DEF TypeOK
  <2> QED
    BY <2>1, PosModPositive, Remainder DEF NewPosition
<1>7. NewDirPin(i) \in {0, 1} /\ StepLevel(i) \in {0, 1}
  BY DEF TypeOK, NewDirPin, Sense, StepLevel
<1> QED
  BY <1>1, <1>2, <1>3, <1>4, <1>5, <1>6, <1>7

LEMMA ElapseRange ==
    ASSUME NEW n \in 0..Far
    PROVE  Elapse(n) \in 0..Far /\ (n < Far => Elapse(n) = n + 1) /\ Elapse(n) >= n
  BY StepGenAssumption DEF Elapse

-----------------------------------------------------------------------------

\* Every variable keeps its type; the down counters of the interrupt stay in
\* range (stepgen.c:172-266).
THEOREM TypeCorrect == Spec => []TypeOK
<1>1. Init => TypeOK
  BY StepGenAssumption, PosModPositive
  DEF Init, TypeOK, InputType, DefaultCfg
<1>2. TypeOK /\ [Next]_vars => TypeOK'
  <2> SUFFICES ASSUME TypeOK, [Next]_vars
               PROVE  TypeOK'
    OBVIOUS
  <2> USE DEF TypeOK
  <2>1. CASE stepgen
    <3> USE <2>1 DEF stepgen
    <3>1. /\ cycle_time' \in 0..(CycleMod - 1)
          /\ input' \in [delay : Nat, velocity : [Gen -> Vel],
                         io_tris : TrisWord, io_lat : LatWord]
      <4>1. cycle_time + start_cycle_timer \in Int
        BY StepGenAssumption
      <4>2. cycle_time' \in 0..(CycleMod - 1)
        BY <4>1, Remainder, StepGenAssumption
      <4>3. input.delay \in Nat => CountDown(input.delay) \in Nat
        BY DEF CountDown
      <4> QED
        BY <4>2, <4>3
    <3>2. /\ position' \in [Gen -> 0..(PosMod - 1)]
          /\ oldpos' \in [Gen -> {0, 1}]
      BY ChannelTypes, StepBitRange, PosModPositive
    <3>3. /\ stepwdth' \in [Gen -> 0..Far]
          /\ dir_hold' \in [Gen -> 0..Far]
          /\ dirsetup' \in [Gen -> 0..Far]
      BY ChannelTypes, StepGenAssumption
    <3>4. /\ olddir' \in [Gen -> {0, 1}]
          /\ dirPin' \in [Gen -> {0, 1}]
          /\ stepPin' \in [Gen -> {0, 1}]
      BY ChannelTypes
    <3>5. /\ sinceRise' \in [Gen -> 0..Far]
          /\ sinceDir' \in [Gen -> 0..Far]
      BY ElapseRange, StepGenAssumption DEF ObserveInterrupt
    <3>6. /\ needWidth' \in [Gen -> 0..Far]
          /\ needHold' \in [Gen -> 0..Far]
          /\ needSetup' \in [Gen -> 0..Far]
          /\ setupLost' \in [Gen -> BOOLEAN]
      BY ChannelTypes, StepGenAssumption DEF ObserveInterrupt
    <3>7. emitted' \in [Gen -> 0..(Steps - 1)]
      <4>1. \A i \in Gen : (emitted[i] + 1 - 2 * NewDirPin(i)) % Steps \in 0..(Steps - 1)
        BY ChannelTypes, Remainder, StepGenAssumption
      <4> QED
        BY <4>1 DEF ObserveInterrupt
    <3> QED
      BY <3>1, <3>2, <3>3, <3>4, <3>5, <3>6, <3>7
  <2>2. ASSUME NEW in \in InputType, stepgen_update_input(in)
        PROVE  TypeOK'
    BY <2>2, StepGenAssumption
    DEF stepgen_update_input, InputType, channel, cycle, pins, history
  <2>3. CASE update_io
    BY <2>3 DEF update_io, channel, cycle, pins, history
  <2>4. CASE get_feedback
    BY <2>4, StepGenAssumption DEF get_feedback, channel, pins, history
  <2>5. ASSUME NEW c \in [Gen -> Cfg], stepgen_update_config(c)
        PROVE  TypeOK'
    BY <2>5 DEF stepgen_update_config, channel, cycle, pins, history
  <2>6. CASE stepgen_reset
    <3>1. StoppedInput \in [delay : Nat, velocity : [Gen -> Vel],
                           io_tris : TrisWord, io_lat : LatWord]
      BY StepGenAssumption DEF StoppedInput
    <3>2. /\ position' \in [Gen -> 0..(PosMod - 1)]
          /\ emitted' \in [Gen -> 0..(Steps - 1)]
          /\ cycle_time' \in 0..(CycleMod - 1)
      BY <2>6, StepGenAssumption, PosModPositive DEF stepgen_reset
    <3>3. setupLost' \in [Gen -> BOOLEAN]
      BY <2>6 DEF stepgen_reset
    <3> QED
      BY <2>6, <3>1, <3>2, <3>3, StepGenAssumption DEF stepgen_reset, pins
  <2>7. CASE reset_dir
    BY <2>7, StepGenAssumption DEF reset_dir, channel, cycle
  <2>8. CASE reset_step
    BY <2>8 DEF reset_step, channel, cycle, history
  <2>9. CASE reset_io
    BY <2>9, StepGenAssumption DEF reset_io, channel, cycle, pins, history
  <2>10. CASE UNCHANGED vars
    BY <2>10 DEF vars, code, history
  <2> QED
    BY <2>1, <2>2, <2>3, <2>4, <2>5, <2>6, <2>7, <2>8, <2>9, <2>10
    DEF Next, Reply, FinishReset
<1> QED
  BY <1>1, <1>2, PTL DEF Spec

-----------------------------------------------------------------------------
(* The inductive invariant, one part at a time.                            *)

LEMMA CfgBounds ==
    ASSUME TypeOK, NEW i \in Gen
    PROVE  config[i].stpwdth \in 1..Far /\ config[i].dirsetp \in 1..Far
           /\ config[i].dirhold \in 1..Far
  BY ChannelTypes

\* The only code that starts a pulse leaves STEP high and DIR alone.
LEMMA RisesIsPulse ==
    ASSUME TypeOK, WidthInv, NEW i \in Gen
    PROVE  /\ PulseStarts(i) => StepLevel(i) = 1 /\ ~DrivesDir(i) /\ NewDirPin(i) = dirPin[i]
           /\ Rises(i) => PulseStarts(i)
  BY CfgBounds DEF WidthInv, PulseStarts, StepLevel, DrivesDir, NewDirPin, Rises,
                   WidthLoaded, HoldLoaded, TypeOK

LEMMA QuietStep ==
    ASSUME TypeOK, NEW i \in Gen, Quiet(i), stepgen
    PROVE  /\ Quiet(i)' /\ ~PulseStarts(i) /\ ~Turns(i)
           /\ dirPin'[i] = dirPin[i] /\ stepPin'[i] = 0
<1>1. StepBit(0) = 0 /\ 0 % PosMod = 0
  BY StepBitRange, PosModPositive, Remainder
<1>2. ~StepReady(i) /\ ~PulseStarts(i) /\ NewPosition(i) = 0
  BY <1>1 DEF Quiet, StepReady, PulseStarts, NewPosition
<1>3. ~DrivesDir(i) /\ ~Turns(i) /\ NewDirPin(i) = dirPin[i]
  BY DEF Quiet, DrivesDir, Turns, NewDirPin
<1>4. WidthLoaded(i) = 0
  BY <1>2 DEF Quiet, WidthLoaded
<1>5. stepPin'[i] = 0 /\ dirPin'[i] = dirPin[i]
  BY <1>3, <1>4 DEF stepgen, StepLevel
<1>6. position'[i] = 0 /\ oldpos'[i] = 0 /\ input'.velocity[i] = 0 /\ stepwdth'[i] = 0
  BY <1>2, <1>4 DEF stepgen, Quiet, CountDown, TypeOK
<1>7. needWidth'[i] = 0 /\ needHold'[i] = 0
  BY <1>2 DEF stepgen, ObserveInterrupt, Quiet
<1> QED
  BY <1>2, <1>3, <1>5, <1>6, <1>7 DEF Quiet

LEMMA QuietPreserved ==
    ASSUME TypeOK, QuietInv, [Next]_vars
    PROVE  QuietInv'
<1> USE DEF QuietInv, Resetting
<1>1. CASE stepgen
  <2>1. start_cycle_timer' = start_cycle_timer /\ pc' = pc /\ port' = port
    BY <1>1 DEF stepgen
  <2>2. start_cycle_timer = 0 => cycle_time' = 0
    BY <1>1, Remainder, StepGenAssumption DEF stepgen
  <2> QED
    BY <1>1, <2>1, <2>2, QuietStep
<1>2. ASSUME NEW in \in InputType, stepgen_update_input(in)
      PROVE  QuietInv'
  BY <1>2 DEF stepgen_update_input, cycle
<1>3. CASE update_io
  BY <1>3 DEF update_io, cycle
<1>4. CASE get_feedback
  BY <1>4 DEF get_feedback
<1>5. ASSUME NEW c \in [Gen -> Cfg], stepgen_update_config(c)
      PROVE  QuietInv'
  BY <1>5 DEF stepgen_update_config, cycle, channel, pins, history, Quiet
<1>6. CASE stepgen_reset
  <2>1. \A i \in Gen : Quiet(i)'
    BY <1>6 DEF stepgen_reset, Quiet, StoppedInput, TypeOK
  <2> QED
    BY <1>6, <2>1 DEF stepgen_reset
<1>7. CASE reset_dir
  BY <1>7 DEF reset_dir, cycle, channel, Quiet
<1>8. CASE reset_step
  BY <1>8 DEF reset_step, cycle, channel, history, Quiet
<1>9. CASE reset_io
  BY <1>9 DEF reset_io, cycle, channel, pins, history, Quiet, TypeOK
<1>10. CASE UNCHANGED vars
  BY <1>10 DEF vars, code, history, Quiet
<1> QED
  BY <1>1, <1>2, <1>3, <1>4, <1>5, <1>6, <1>7, <1>8, <1>9, <1>10
  DEF Next, Reply, FinishReset

LEMMA WidthPreserved ==
    ASSUME TypeOK, QuietInv, WidthInv, [Next]_vars
    PROVE  WidthInv'
<1> USE DEF WidthInv
<1>1. CASE stepgen
  <2> SUFFICES ASSUME NEW i \in Gen
               PROVE  /\ needWidth'[i] <= sinceRise'[i] + stepwdth'[i] + 1
                      /\ stepPin'[i] = 0 => stepwdth'[i] = 0
    OBVIOUS
  <2>1. stepwdth'[i] = CountDown(WidthLoaded(i)) /\ stepPin'[i] = StepLevel(i)
    BY <1>1 DEF stepgen
  <2>2. CASE PulseStarts(i)
    <3>1. needWidth'[i] = config[i].stpwdth /\ sinceRise'[i] = 0
      BY <1>1, <2>2 DEF stepgen, ObserveInterrupt
    <3>2. stepwdth'[i] = config[i].stpwdth - 1 /\ stepPin'[i] = 1
      BY <2>1, <2>2, CfgBounds DEF WidthLoaded, CountDown, StepLevel
    <3> QED
      BY <3>1, <3>2, CfgBounds
  <2>3. CASE ~PulseStarts(i)
    <3>1. needWidth'[i] = needWidth[i] /\ sinceRise'[i] = Elapse(sinceRise[i])
      BY <1>1, <2>3 DEF stepgen, ObserveInterrupt
    <3>2. stepwdth'[i] = CountDown(stepwdth[i])
      BY <2>1, <2>3 DEF WidthLoaded
    <3>3. stepPin'[i] = 0 => stepwdth'[i] = 0
      BY <2>1, <2>3 DEF WidthLoaded, CountDown, StepLevel, TypeOK
    <3> QED
      BY <3>1, <3>2, <3>3, StepGenAssumption DEF Elapse, CountDown, TypeOK
  <2> QED
    BY <2>2, <2>3
<1>2. ASSUME NEW in \in InputType, stepgen_update_input(in)
      PROVE  WidthInv'
  BY <1>2 DEF stepgen_update_input, channel, pins, history
<1>3. CASE update_io
  BY <1>3 DEF update_io, channel, pins, history
<1>4. CASE get_feedback
  BY <1>4 DEF get_feedback, channel, pins, history
<1>5. ASSUME NEW c \in [Gen -> Cfg], stepgen_update_config(c)
      PROVE  WidthInv'
  BY <1>5 DEF stepgen_update_config, channel, pins, history
<1>6. CASE stepgen_reset
  BY <1>6 DEF stepgen_reset, pins, TypeOK
<1>7. CASE reset_dir
  BY <1>7 DEF reset_dir, channel
<1>8. CASE reset_step
  BY <1>8 DEF reset_step, channel, history, QuietInv, Resetting, Quiet
<1>9. CASE reset_io
  BY <1>9 DEF reset_io, channel, pins, history
<1>10. CASE UNCHANGED vars
  BY <1>10 DEF vars, code, history
<1> QED
  BY <1>1, <1>2, <1>3, <1>4, <1>5, <1>6, <1>7, <1>8, <1>9, <1>10
  DEF Next, Reply, FinishReset

LEMMA HoldPreserved ==
    ASSUME TypeOK, HoldInv, [Next]_vars
    PROVE  HoldInv'
<1> USE DEF HoldInv
<1>1. CASE stepgen
  <2> SUFFICES ASSUME NEW i \in Gen
               PROVE  needHold'[i] <= sinceRise'[i] + dir_hold'[i] + 1
    OBVIOUS
  <2>1. dir_hold'[i] = CountDown(HoldLoaded(i))
    BY <1>1 DEF stepgen
  <2>2. CASE PulseStarts(i)
    <3>1. /\ needHold'[i] = config[i].dirhold /\ sinceRise'[i] = 0
          /\ dir_hold'[i] = config[i].dirhold - 1
      BY <1>1, <2>1, <2>2, CfgBounds
      DEF stepgen, ObserveInterrupt, HoldLoaded, CountDown
    <3> QED
      BY <3>1, CfgBounds
  <2>3. CASE ~PulseStarts(i)
    <3>1. /\ needHold'[i] = needHold[i] /\ sinceRise'[i] = Elapse(sinceRise[i])
          /\ dir_hold'[i] = CountDown(dir_hold[i])
      BY <1>1, <2>1, <2>3 DEF stepgen, ObserveInterrupt, HoldLoaded
    <3> QED
      BY <3>1, StepGenAssumption DEF Elapse, CountDown, TypeOK
  <2> QED
    BY <2>2, <2>3
<1>2. ASSUME NEW in \in InputType, stepgen_update_input(in)
      PROVE  HoldInv'
  BY <1>2 DEF stepgen_update_input, channel, history
<1>3. CASE update_io
  BY <1>3 DEF update_io, channel, history
<1>4. CASE get_feedback
  BY <1>4 DEF get_feedback, channel, history
<1>5. ASSUME NEW c \in [Gen -> Cfg], stepgen_update_config(c)
      PROVE  HoldInv'
  BY <1>5 DEF stepgen_update_config, channel, history
<1>6. CASE stepgen_reset
  BY <1>6 DEF stepgen_reset, TypeOK
<1>7. CASE reset_dir
  BY <1>7 DEF reset_dir, channel
<1>8. CASE reset_step
  BY <1>8 DEF reset_step, channel, history
<1>9. CASE reset_io
  BY <1>9 DEF reset_io, channel, history
<1>10. CASE UNCHANGED vars
  BY <1>10 DEF vars, code, history
<1> QED
  BY <1>1, <1>2, <1>3, <1>4, <1>5, <1>6, <1>7, <1>8, <1>9, <1>10
  DEF Next, Reply, FinishReset

\* Either the interrupt turns DIR and loads the setup counter, or DIR stays
\* where olddir says it is and the counter and the clock move together.
LEMMA SetupPreserved ==
    ASSUME TypeOK, QuietInv, SetupInv, [Next]_vars
    PROVE  SetupInv'
<1> USE DEF SetupInv
<1>1. CASE stepgen
  <2> SUFFICES ASSUME NEW i \in Gen, ~setupLost'[i]
               PROVE  /\ dirPin'[i] = olddir'[i]
                      /\ needSetup'[i] <= sinceDir'[i] + dirsetup'[i]
                      /\ pc' = "reset_dir" => olddir'[i] = 0
    OBVIOUS
  <2>1. /\ dirPin'[i] = NewDirPin(i) /\ pc' = pc
        /\ olddir'[i] = IF Turns(i) THEN 1 - olddir[i] ELSE olddir[i]
        /\ dirsetup'[i] = IF Turns(i) THEN config[i].dirsetp ELSE SetupLeft(i)
        /\ sinceDir'[i] = IF DirEdge(i) THEN 0 ELSE Elapse(sinceDir[i])
        /\ needSetup'[i] = IF DirEdge(i) THEN config[i].dirsetp ELSE needSetup[i]
        /\ setupLost'[i] = (setupLost[i] /\ ~(Turns(i) /\ DirEdge(i)))
    BY <1>1 DEF stepgen, ObserveInterrupt
  <2>2. pc = "reset_dir" => ~Turns(i)
    BY <1>1, QuietStep DEF QuietInv, Resetting
  <2>3. olddir[i] \in {0, 1} /\ dirPin[i] \in {0, 1}
    BY DEF TypeOK
  <2>4. CASE Turns(i)
    <3>1. NewDirPin(i) = 1 - olddir[i]
      BY <2>3, <2>4 DEF Turns, NewDirPin, Sense
    <3>2. DirEdge(i)
      <4>1. CASE setupLost[i]
        BY <2>1, <4>1
      <4>2. CASE ~setupLost[i]
        BY <2>3, <3>1, <4>2 DEF DirEdge
      <4> QED
        BY <4>1, <4>2
    <3> QED
      BY <2>1, <2>2, <2>4, <3>1, <3>2, CfgBounds
  <2>5. CASE ~Turns(i)
    <3>1. ~setupLost[i]
      BY <2>1, <2>5
    <3>2. NewDirPin(i) = olddir[i] /\ ~DirEdge(i)
      BY <2>3, <2>5, <3>1 DEF Turns, NewDirPin, Sense, DirEdge
    <3>3. needSetup[i] <= Elapse(sinceDir[i]) + SetupLeft(i)
      BY <3>1, StepGenAssumption DEF Elapse, SetupLeft, CountDown, TypeOK
    <3> QED
      BY <2>1, <2>5, <3>1, <3>2, <3>3
  <2> QED
    BY <2>4, <2>5
<1>2. ASSUME NEW in \in InputType, stepgen_update_input(in)
      PROVE  SetupInv'
  BY <1>2 DEF stepgen_update_input, channel, pins, history
<1>3. CASE update_io
  BY <1>3 DEF update_io, channel, pins, history
<1>4. CASE get_feedback
  BY <1>4 DEF get_feedback, channel, pins, history
<1>5. ASSUME NEW c \in [Gen -> Cfg], stepgen_update_config(c)
      PROVE  SetupInv'
  BY <1>5 DEF stepgen_update_config, channel, pins, history
<1>6. CASE stepgen_reset
  <2> SUFFICES ASSUME NEW i \in Gen, ~setupLost'[i]
               PROVE  /\ dirPin'[i] = olddir'[i]
                      /\ needSetup'[i] <= sinceDir'[i] + dirsetup'[i]
                      /\ olddir'[i] = 0
    OBVIOUS
  <2>1. ~setupLost[i] /\ olddir[i] # 1 /\ ~(dirsetup[i] > 0)
    BY <1>6 DEF stepgen_reset
  <2>2. olddir[i] = 0 /\ dirsetup[i] = 0
    BY <2>1 DEF TypeOK
  <2> QED
    BY <1>6, <2>1, <2>2 DEF stepgen_reset, pins
<1>7. CASE reset_dir
  BY <1>7 DEF reset_dir, channel, TypeOK
<1>8. CASE reset_step
  BY <1>8 DEF reset_step, channel, history
<1>9. CASE reset_io
  BY <1>9 DEF reset_io, channel, pins, history
<1>10. CASE UNCHANGED vars
  BY <1>10 DEF vars, code, history
<1> QED
  BY <1>1, <1>2, <1>3, <1>4, <1>5, <1>6, <1>7, <1>8, <1>9, <1>10
  DEF Next, Reply, FinishReset

-----------------------------------------------------------------------------

\* IInv is an invariant of the step generator.
THEOREM Inductive == Spec => []IInv
<1>1. Init => QuietInv /\ WidthInv /\ HoldInv /\ SetupInv
  BY StepGenAssumption
  DEF Init, QuietInv, Resetting, Quiet, WidthInv, HoldInv, SetupInv
<1>2. TypeOK /\ QuietInv /\ WidthInv /\ HoldInv /\ SetupInv /\ [Next]_vars
        => QuietInv' /\ WidthInv' /\ HoldInv' /\ SetupInv'
  BY QuietPreserved, WidthPreserved, HoldPreserved, SetupPreserved
<1> QED
  BY <1>1, <1>2, TypeCorrect, PTL DEF Spec, IInv

\* After a reset the pins rest until the next >CMD (stepgen.c:134-170).
THEOREM Stopped == Spec => []StoppedUntilCommanded
<1>1. IInv => StoppedUntilCommanded
  BY DEF IInv, QuietInv, Quiet, StoppedUntilCommanded
<1> QED
  BY <1>1, Inductive, PTL

\* No pulse is shorter than the width it started with (stepgen.c:199-264).
THEOREM PulseWidth == Spec => MinPulseWidth
<1>1. IInv /\ [Next]_vars =>
        [\A i \in Gen : stepPin[i] = 1 /\ stepPin'[i] = 0
            => sinceRise'[i] >= needWidth'[i]]_vars
  <2> SUFFICES ASSUME IInv, Next, NEW i \in Gen, stepPin[i] = 1, stepPin'[i] = 0
               PROVE  sinceRise'[i] >= needWidth'[i]
    OBVIOUS
  <2> USE DEF IInv
  <2>1. CASE stepgen
    <3>1. StepLevel(i) = 0 /\ ~PulseStarts(i)
      BY <2>1, RisesIsPulse DEF stepgen
    <3>2. stepwdth[i] = 0
      BY <3>1 DEF StepLevel, WidthLoaded, TypeOK
    <3>3. needWidth'[i] = needWidth[i] /\ sinceRise'[i] = Elapse(sinceRise[i])
      BY <2>1, <3>1 DEF stepgen, ObserveInterrupt
    <3> QED
      BY <3>2, <3>3, StepGenAssumption DEF WidthInv, Elapse, TypeOK
  <2>2. CASE reset_step
    BY <2>2 DEF reset_step, history, QuietInv, Resetting, Quiet, TypeOK
  <2>3. CASE ~stepgen /\ ~reset_step
    BY <2>3 DEF Next, Reply, FinishReset, stepgen_update_input, update_io, get_feedback,
                stepgen_update_config, stepgen_reset, reset_dir, reset_io, pins
  <2> QED
    BY <2>1, <2>2, <2>3
<1> QED
  BY <1>1, Inductive, PTL DEF Spec, MinPulseWidth

\* DIR holds for dirhold after every pulse (stepgen.c:206-240).
THEOREM DirectionHold == Spec => DirHold
<1>1. IInv /\ [Next]_vars =>
        [\A i \in Gen : dirPin'[i] # dirPin[i] => sinceRise'[i] >= needHold'[i]]_vars
  <2> SUFFICES ASSUME IInv, Next, NEW i \in Gen, dirPin'[i] # dirPin[i]
               PROVE  sinceRise'[i] >= needHold'[i]
    OBVIOUS
  <2> USE DEF IInv
  <2>1. CASE stepgen
    <3>1. DrivesDir(i) /\ ~PulseStarts(i)
      BY <2>1, RisesIsPulse DEF stepgen, NewDirPin, TypeOK
    <3>2. dir_hold[i] = 0
      BY <3>1 DEF DrivesDir, HoldLoaded
    <3>3. needHold'[i] = needHold[i] /\ sinceRise'[i] = Elapse(sinceRise[i])
      BY <2>1, <3>1 DEF stepgen, ObserveInterrupt
    <3> QED
      BY <3>2, <3>3, StepGenAssumption DEF HoldInv, Elapse, TypeOK
  <2>2. CASE reset_dir
    BY <2>2 DEF reset_dir, QuietInv, Resetting, Quiet, TypeOK
  <2>3. CASE ~stepgen /\ ~reset_dir
    BY <2>3 DEF Next, Reply, FinishReset, stepgen_update_input, update_io, get_feedback,
                stepgen_update_config, stepgen_reset, reset_step, reset_io, pins
  <2> QED
    BY <2>1, <2>2, <2>3
<1> QED
  BY <1>1, Inductive, PTL DEF Spec, DirHold

\* No pulse rises within dirsetp of a change of DIR, unless a reset came
\* between (stepgen.c:185-205).
THEOREM DirectionSetup == Spec => DirSetup
<1>1. IInv /\ [Next]_vars =>
        [\A i \in Gen : stepPin[i] = 0 /\ stepPin'[i] = 1 /\ ~setupLost[i]
            => sinceDir'[i] >= needSetup'[i]]_vars
  <2> SUFFICES ASSUME IInv, Next, NEW i \in Gen,
                      stepPin[i] = 0, stepPin'[i] = 1, ~setupLost[i]
               PROVE  sinceDir'[i] >= needSetup'[i]
    OBVIOUS
  <2> USE DEF IInv
  <2>1. CASE stepgen
    <3>1. PulseStarts(i) /\ ~DirEdge(i)
      BY <2>1, RisesIsPulse DEF stepgen, Rises, DirEdge
    <3>2. SetupLeft(i) = 0
      BY <3>1 DEF PulseStarts
    <3>3. needSetup'[i] = needSetup[i] /\ sinceDir'[i] = Elapse(sinceDir[i])
      BY <2>1, <3>1 DEF stepgen, ObserveInterrupt
    <3> QED
      BY <3>2, <3>3, StepGenAssumption DEF SetupInv, SetupLeft, CountDown, Elapse, TypeOK
  <2>2. CASE ~stepgen
    BY <2>2 DEF Next, Reply, FinishReset, stepgen_update_input, update_io, get_feedback,
                stepgen_update_config, stepgen_reset, reset_dir, reset_step, reset_io, pins
  <2> QED
    BY <2>1, <2>2
<1> QED
  BY <1>1, Inductive, PTL DEF Spec, DirSetup

-----------------------------------------------------------------------------
(* The steps sent are the steps reported.                                  *)

\* How far a position is past its step.
Offset(p) == p - StepLen * StepIndex(p)

LEMMA TimesMonotone ==
    ASSUME NEW n \in Nat, NEW a \in Nat, NEW b \in Nat, a <= b
    PROVE  n * a <= n * b
<1>1. PICK k \in Nat : b = a + k
  BY b - a \in Nat /\ b = a + (b - a)
<1>2. n * b = n * a + n * k /\ n * k \in Nat /\ n * a \in Nat
  BY <1>1
<1> QED
  BY <1>2

\* The quotient of a division is the number whose product is just below.
LEMMA QuotientIs ==
    ASSUME NEW n \in Nat \ {0}, NEW q \in Nat, NEW r \in 0..(n - 1)
    PROVE  (n * q + r) \div n = q
<1> DEFINE x == (n * q + r) \div n
<1>1. n * q \in Nat /\ n * q + r \in Nat /\ x \in Nat /\ n * x \in Nat
  OBVIOUS
<1>2. n * x <= n * q + r /\ n * q + r < n * x + n
  BY <1>1
<1>3. n * (x + 1) = n * x + n /\ n * (q + 1) = n * q + n
  BY <1>1
<1> HIDE DEF x
<1>4. ~(x + 1 <= q)
  BY <1>1, <1>2, <1>3, TimesMonotone
<1>5. ~(q + 1 <= x)
  BY <1>1, <1>2, <1>3, TimesMonotone
<1>6. x = q
  BY <1>1, <1>4, <1>5
<1> QED
  BY <1>6 DEF x

\* A number below twice the modulus wraps at most once.
LEMMA WrapsOnce ==
    ASSUME NEW n \in Nat \ {0}, NEW x \in 0..(2 * n - 1)
    PROVE  (x >= n => x % n = x - n) /\ (x < n => x % n = x)
<1>1. CASE x >= n
  BY <1>1
<1>2. CASE x < n
  BY <1>2
<1> QED
  BY <1>1, <1>2

LEMMA Wraps ==
    ASSUME NEW n \in Nat \ {0}, NEW x \in 0..(n - 1)
    PROVE  x % n = x /\ (n + x) % n = x
<1>1. x \in 0..(2 * n - 1) /\ n + x \in 0..(2 * n - 1) /\ n + x >= n /\ n + x - n = x /\ x < n
  OBVIOUS
<1> QED
  BY <1>1, WrapsOnce

\* A position is a number of steps and an offset into the next one.
LEMMA PositionParts ==
    ASSUME NEW p \in 0..(PosMod - 1)
    PROVE  /\ StepIndex(p) \in 0..(Steps - 1) /\ Offset(p) \in 0..(StepLen - 1)
           /\ p = StepLen * StepIndex(p) + Offset(p)
<1> DEFINE k == p \div StepLen
<1>1. p \in Nat /\ k \in Nat /\ StepLen * k \in Nat /\ PosMod \in Nat
  BY StepGenAssumption, PosModPositive
<1>2. StepLen * k <= p /\ p < StepLen * k + StepLen
  BY StepGenAssumption, <1>1
<1>3. PosMod = StepLen * Steps
  BY StepGenAssumption DEF PosMod
<1> HIDE DEF k
<1>4. ~(Steps <= k)
  BY StepGenAssumption, <1>1, <1>2, <1>3, TimesMonotone
<1>5. StepIndex(p) = k
  BY DEF StepIndex, k
<1> QED
  BY StepGenAssumption, <1>1, <1>2, <1>4, <1>5 DEF Offset

LEMMA PositionIs ==
    ASSUME NEW k \in 0..(Steps - 1), NEW r \in 0..(StepLen - 1)
    PROVE  /\ StepIndex(StepLen * k + r) = k /\ Offset(StepLen * k + r) = r
           /\ StepLen * k + r \in 0..(PosMod - 1)
<1>1. StepIndex(StepLen * k + r) = k
  BY StepGenAssumption, QuotientIs DEF StepIndex
<1>2. StepLen * k \in Nat /\ StepLen * (k + 1) <= StepLen * Steps
      /\ StepLen * (k + 1) = StepLen * k + StepLen /\ PosMod = StepLen * Steps /\ PosMod \in Nat
  BY StepGenAssumption, TimesMonotone, PosModPositive DEF PosMod
<1> QED
  BY StepGenAssumption, <1>1, <1>2 DEF Offset

\* A velocity of at most a step per interrupt moves the position within its
\* step, or into the next one; the counter wraps between two steps.
LEMMA Advance ==
    ASSUME NEW p \in 0..(PosMod - 1), NEW v \in 0..StepLen
    PROVE  /\ Offset(p) + v < StepLen
                => /\ StepIndex((p + v) % PosMod) = StepIndex(p)
                   /\ Offset((p + v) % PosMod) = Offset(p) + v
           /\ Offset(p) + v >= StepLen
                => /\ StepIndex((p + v) % PosMod) = (StepIndex(p) + 1) % Steps
                   /\ Offset((p + v) % PosMod) = Offset(p) + v - StepLen
                   /\ StepBit((p + v) % PosMod) # StepBit(p)
<1> DEFINE k == StepIndex(p)
           r == Offset(p)
<1>1. k \in 0..(Steps - 1) /\ r \in 0..(StepLen - 1) /\ p = StepLen * k + r
  BY PositionParts
<1>2. StepLen * k \in Nat /\ StepLen * (k + 1) = StepLen * k + StepLen
      /\ PosMod = StepLen * Steps /\ StepLen * 0 = 0
  BY StepGenAssumption, <1>1 DEF PosMod
<1> HIDE DEF k, r
<1>3. CASE r + v < StepLen
  <2>1. r + v \in 0..(StepLen - 1) /\ p + v = StepLen * k + (r + v)
    BY StepGenAssumption, <1>1, <1>2, <1>3
  <2>2. p + v \in 0..(PosMod - 1)
    BY <1>1, <2>1, PositionIs
  <2>3. (p + v) % PosMod = StepLen * k + (r + v)
    BY <2>1, <2>2, Wraps, PosModPositive
  <2> QED
    BY StepGenAssumption, <1>1, <1>3, <2>1, <2>3, PositionIs DEF k, r
<1>4. CASE r + v >= StepLen
  <2> DEFINE s == r + v - StepLen
             n == (k + 1) % Steps
  <2>1. s \in 0..(StepLen - 1) /\ p + v = StepLen * (k + 1) + s
    BY StepGenAssumption, <1>1, <1>2, <1>4
  <2>2. n \in 0..(Steps - 1) /\ n = IF k + 1 = Steps THEN 0 ELSE k + 1
    <3>1. k + 1 < Steps => (k + 1) % Steps = k + 1
      BY StepGenAssumption, <1>1, Wraps
    <3>2. Steps % Steps = 0
      <4>1. (Steps + 0) % Steps = 0 /\ Steps + 0 = Steps
        BY StepGenAssumption, Wraps
      <4> QED
        BY <4>1
    <3> QED
      BY StepGenAssumption, <1>1, <3>1, <3>2
  <2>3. n % 2 # k % 2
    BY StepGenAssumption, <1>1, <2>2
  <2> HIDE DEF s, n
  <2>4. (p + v) % PosMod = StepLen * n + s
    <3>1. CASE k + 1 = Steps
      <4>1. s \in 0..(PosMod - 1)
        BY <1>2, <2>1, <2>2, <3>1, PositionIs
      <4>2. p + v = PosMod + s
        BY <1>2, <2>1, <3>1
      <4>3. StepLen * n + s = s
        BY <1>2, <2>1, <2>2, <3>1
      <4> QED
        BY <4>1, <4>2, <4>3, Wraps, PosModPositive
    <3>2. CASE k + 1 # Steps
      <4>1. p + v = StepLen * n + s
        BY <2>1, <2>2, <3>2
      <4>2. StepLen * n + s \in 0..(PosMod - 1)
        BY <2>1, <2>2, PositionIs
      <4> QED
        BY <4>1, <4>2, Wraps, PosModPositive
    <3> QED
      BY <3>1, <3>2
  <2>5. StepIndex((p + v) % PosMod) = n /\ Offset((p + v) % PosMod) = s
    BY <2>1, <2>2, <2>4, PositionIs
  <2>6. ~(Offset(p) + v < StepLen)
    BY StepGenAssumption, <1>1, <1>4 DEF r
  <2>7. StepIndex((p + v) % PosMod) = (StepIndex(p) + 1) % Steps
        /\ Offset((p + v) % PosMod) = Offset(p) + v - StepLen
    BY <2>5, Zenon DEF n, s, k, r
  <2>8. StepBit((p + v) % PosMod) # StepBit(p)
    BY <2>3, <2>5, Zenon DEF StepBit, k
  <2> QED
    BY <2>6, <2>7, <2>8
<1> QED
  <2>1. r + v < StepLen \/ r + v >= StepLen
    BY StepGenAssumption, <1>1
  <2> QED
    BY <1>3, <1>4, <2>1

-----------------------------------------------------------------------------

\* DIR is never turned.
Forward(i) == dirPin[i] = 0 /\ olddir[i] = 0 /\ dirsetup[i] = 0

\* While STEP is high, the position has advanced by no more than the limit of
\* the velocity lets it in the part of the width that is over, and one interrupt.
InPulse(i) ==
    stepPin[i] = 1 =>
        /\ ~StepReady(i)
        /\ stepwdth[i] <= needWidth[i]
        /\ \A v \in Vel : (needWidth[i] + 1) * v <= StepLen
        /\ Offset(position[i])
             < (needWidth[i] - stepwdth[i] + 1) * (StepLen \div (needWidth[i] + 1))

\* A step is counted at once, or at the next interrupt.
InStep(i) ==
    IF StepReady(i)
    THEN /\ \E v \in Vel : Offset(position[i]) < v
         /\ (emitted[i] + 1) % Steps = StepIndex(position[i])
    ELSE emitted[i] = StepIndex(position[i])

TrackInv == \A i \in Gen : Forward(i) /\ InPulse(i) /\ InStep(i)

\* The limit of the velocity as a number of DDS counts.
LEMMA Pace ==
    ASSUME NEW w \in Nat, NEW v \in Nat, (w + 1) * v <= StepLen
    PROVE  /\ v <= StepLen \div (w + 1) /\ StepLen \div (w + 1) \in Nat
           /\ \A n \in 0..(w + 1) : n * (StepLen \div (w + 1)) <= StepLen
<1> DEFINE d == StepLen \div (w + 1)
<1>1. d \in Nat /\ (w + 1) * d \in Nat /\ (w + 1) * v \in Nat /\ w + 1 \in Nat \ {0}
  BY StepGenAssumption
<1>2. (w + 1) * d <= StepLen /\ StepLen < (w + 1) * d + (w + 1)
  <2>1. \A m \in Nat \ {0}, n \in Nat : m * (n \div m) <= n /\ n < m * (n \div m) + m
    OBVIOUS
  <2> QED
    BY StepGenAssumption, <1>1, <2>1, Zenon
<1>3. (w + 1) * (d + 1) = (w + 1) * d + (w + 1)
  BY <1>1
<1> HIDE DEF d
<1>4. ~(d + 1 <= v)
  <2>1. ASSUME d + 1 <= v PROVE FALSE
    <3>1. (w + 1) * (d + 1) <= (w + 1) * v
      BY <1>1, <2>1, TimesMonotone
    <3> QED
      BY StepGenAssumption, <1>1, <1>2, <1>3, <3>1
  <2> QED
    BY <2>1
<1>5. ASSUME NEW n \in 0..(w + 1) PROVE n * d <= StepLen
  <2>1. d * n <= d * (w + 1)
    BY <1>1, TimesMonotone
  <2>2. d * n = n * d /\ d * (w + 1) = (w + 1) * d /\ n * d \in Nat
    BY <1>1
  <2> QED
    BY StepGenAssumption, <1>1, <1>2, <2>1, <2>2
<1> QED
  BY <1>1, <1>4, <1>5 DEF d

\* A velocity is at most half a step, and keeps the pace of every configuration.
LEMMA VelocityPaced ==
    ASSUME Paced, TypeOK, NEW i \in Gen, NEW v \in Vel
    PROVE  v \in Nat /\ 2 * v <= StepLen /\ (config[i].stpwdth + 1) * v <= StepLen
<1>1. v \in Nat /\ (config[i].stpwdth + 1) * v <= StepLen /\ config[i].stpwdth \in 1..Far
  BY StepGenAssumption, CfgBounds DEF Paced, TypeOK
<1>2. \A w \in Nat : w >= 1 => 2 * v <= (w + 1) * v
  <2>1. SUFFICES ASSUME NEW w \in Nat, w >= 1 PROVE 2 * v <= (w + 1) * v
    OBVIOUS
  <2>2. v * 2 <= v * (w + 1)
    BY <1>1, <2>1, TimesMonotone
  <2> QED
    BY <1>1, <2>1, <2>2
<1>3. 2 * v <= (config[i].stpwdth + 1) * v
  BY <1>1, <1>2, StepGenAssumption
<1>4. \A a, b, c \in Int : a <= b /\ b <= c => a <= c
  OBVIOUS
<1>5. 2 * v \in Int /\ (config[i].stpwdth + 1) * v \in Int /\ StepLen \in Int
  BY <1>1, StepGenAssumption
<1> QED
  BY <1>1, <1>3, <1>4, <1>5, Zenon

LEMMA TrackStart == Init => TrackInv
<1> SUFFICES ASSUME Init, NEW i \in Gen PROVE Forward(i) /\ InPulse(i) /\ InStep(i)
  BY DEF TrackInv
<1>1. 0 \div StepLen = 0
  BY StepGenAssumption
<1>2. StepIndex(0) = 0 /\ StepBit(0) = 0
  BY <1>1 DEF StepIndex, StepBit
<1> QED
  BY <1>2 DEF Init, Forward, InPulse, InStep, StepReady

\* One interrupt: no DIR edge, a pulse for every step, and no step too early.
LEMMA TrackInterrupt ==
    ASSUME Paced, TypeOK, WidthInv, NEW i \in Gen,
           Forward(i), InPulse(i), InStep(i), stepgen
    PROVE  Forward(i)' /\ InPulse(i)' /\ InStep(i)'
<1> DEFINE p == position[i]
           v == input.velocity[i]
           q == (p + v) % PosMod
<1>1. /\ p \in 0..(PosMod - 1) /\ v \in Vel /\ v \in Nat /\ 2 * v <= StepLen
      /\ (config[i].stpwdth + 1) * v <= StepLen /\ config[i].stpwdth \in 1..Far
      /\ stepwdth[i] \in 0..Far /\ needWidth[i] \in 0..Far /\ Far \in Nat
      /\ stepPin[i] \in {0, 1} /\ emitted[i] \in 0..(Steps - 1)
      /\ StepLen \in Nat \ {0} /\ Steps \in Nat \ {0}
  BY VelocityPaced, CfgBounds, StepGenAssumption DEF TypeOK
<1>2. /\ SetupLeft(i) = 0 /\ ~Turns(i) /\ NewDirPin(i) = 0
      /\ PulseStarts(i) <=> StepReady(i)
      /\ NewPosition(i) = q
  <2>1. SetupLeft(i) = 0
    BY DEF Forward, SetupLeft, CountDown
  <2>2. input.velocity[i] # 0 => Sense(input.velocity[i]) = 0
    BY <1>1 DEF Sense
  <2>3. ~Turns(i) /\ NewDirPin(i) = 0
    BY <2>2, Zenon DEF Turns, NewDirPin, DrivesDir, Forward
  <2> QED
    BY <2>1, <2>3, Zenon DEF PulseStarts, NewPosition, Stretched
<1>3. /\ position'[i] = q
      /\ oldpos'[i] = IF StepReady(i) THEN StepBit(q) ELSE oldpos[i]
      /\ stepwdth'[i] = CountDown(WidthLoaded(i)) /\ stepPin'[i] = StepLevel(i)
      /\ needWidth'[i] = IF StepReady(i) THEN config[i].stpwdth ELSE needWidth[i]
      /\ emitted'[i] = IF Rises(i) THEN (emitted[i] + 1) % Steps ELSE emitted[i]
  BY <1>1, <1>2 DEF stepgen, ObserveInterrupt
<1>4. Forward(i)'
  BY <1>1, <1>2 DEF stepgen, Forward
<1>5. /\ Offset(p) \in 0..(StepLen - 1) /\ StepIndex(p) \in 0..(Steps - 1)
      /\ Offset(p) + v < StepLen
           => StepIndex(q) = StepIndex(p) /\ Offset(q) = Offset(p) + v
      /\ Offset(p) + v >= StepLen
           => /\ StepIndex(q) = (StepIndex(p) + 1) % Steps
              /\ Offset(q) = Offset(p) + v - StepLen
              /\ StepBit(q) # StepBit(p)
  BY <1>1, PositionParts, Advance
<1>6. stepPin[i] = 0 => stepwdth[i] = 0
  BY DEF WidthInv
<1> HIDE DEF p, v, q
<1>7. CASE StepReady(i)
  <2>1. stepPin[i] = 0 /\ stepwdth[i] = 0
    BY <1>1, <1>6, <1>7 DEF InPulse
  <2>2. PICK u \in Vel : Offset(p) < u
    BY <1>7 DEF InStep, p
  <2>3. u \in Nat /\ 2 * u <= StepLen /\ (config[i].stpwdth + 1) * u <= StepLen
    BY VelocityPaced
  <2>4. Offset(p) + v < StepLen
    BY <1>1, <1>5, <2>2, <2>3
  <2>5. StepBit(q) = oldpos'[i] /\ ~StepReady(i)'
    BY <1>3, <1>7 DEF StepReady
  <2>6. stepwdth'[i] = config[i].stpwdth - 1 /\ stepPin'[i] = 1 /\ Rises(i)
    BY <1>1, <1>2, <1>3, <1>7, <2>1 DEF WidthLoaded, CountDown, StepLevel, Rises
  <2>7. InStep(i)'
    <3>1. emitted'[i] = StepIndex(p)
      BY <1>3, <1>7, <2>6 DEF InStep, p
    <3>2. emitted'[i] = StepIndex(q)
      BY <1>5, <2>4, <3>1
    <3> QED
      BY <1>3, <2>5, <3>2 DEF InStep
  <2>8. InPulse(i)'
    <3> DEFINE w == config[i].stpwdth
               d == StepLen \div (w + 1)
    <3>1. w \in Nat /\ w >= 1
      BY <1>1
    <3>2. (w + 1) * u <= StepLen /\ (w + 1) * v <= StepLen
      BY <1>1, <2>3
    <3> HIDE DEF w
    <3>3. u <= d /\ v <= d /\ d \in Nat
      BY <1>1, <2>3, <3>1, <3>2, Pace
    <3> HIDE DEF d
    <3>4. Offset(p) + v < 2 * d
      BY <1>1, <1>5, <2>2, <2>3, <3>3
    <3>5. /\ needWidth'[i] = w /\ stepwdth'[i] <= needWidth'[i]
          /\ needWidth'[i] - stepwdth'[i] + 1 = 2
      BY <1>3, <1>7, <2>6, <3>1 DEF w
    <3>6. Offset(position'[i]) < 2 * d
      BY <1>3, <1>5, <2>4, <3>4
    <3>7. \A x \in Vel : (w + 1) * x <= StepLen
      BY VelocityPaced DEF w
    <3> QED
      BY <2>5, <3>5, <3>6, <3>7, Zenon DEF InPulse, d
  <2> QED
    BY <1>4, <2>7, <2>8
<1>8. CASE ~StepReady(i)
  <2>1. /\ stepwdth'[i] = CountDown(stepwdth[i]) /\ needWidth'[i] = needWidth[i]
        /\ stepPin'[i] = IF stepwdth[i] > 0 THEN 1 ELSE 0
        /\ oldpos'[i] = oldpos[i] /\ oldpos[i] = StepBit(p)
        /\ emitted[i] = StepIndex(p)
    BY <1>2, <1>3, <1>8 DEF WidthLoaded, StepLevel, StepReady, InStep, p
  <2>2. ~Rises(i) /\ emitted'[i] = StepIndex(p)
    BY <1>3, <1>6, <2>1 DEF Rises
  <2>3. StepReady(i)' <=> StepBit(q) # StepBit(p)
    BY <1>3, <2>1 DEF StepReady
  <2>4. Offset(p) + v < StepLen => ~StepReady(i)'
    BY <1>5, <2>3 DEF StepBit
  <2>5. InStep(i)'
    <3>1. CASE Offset(p) + v < StepLen
      BY <1>3, <1>5, <2>2, <2>4, <3>1 DEF InStep
    <3>2. CASE Offset(p) + v >= StepLen
      <4>1. StepReady(i)' /\ (emitted'[i] + 1) % Steps = StepIndex(position'[i])
        BY <1>3, <1>5, <2>2, <2>3, <3>2
      <4>2. Offset(position'[i]) < v
        BY <1>1, <1>3, <1>5, <3>2
      <4> QED
        BY <1>1, <4>1, <4>2 DEF InStep
    <3> QED
      BY <1>1, <1>5, <3>1, <3>2
  <2>6. InPulse(i)'
    <3> DEFINE w == needWidth[i]
               s == stepwdth[i]
               d == StepLen \div (w + 1)
    <3>1. SUFFICES ASSUME stepPin'[i] = 1 PROVE InPulse(i)'
      BY DEF InPulse
    <3>2. stepPin[i] = 1 /\ s > 0 /\ s <= w /\ stepwdth'[i] = s - 1
      BY <1>1, <1>6, <2>1, <3>1 DEF CountDown, InPulse
    <3>3. w \in Nat /\ s \in Nat /\ Offset(p) < (w - s + 1) * d
      BY <1>1, <3>2 DEF InPulse, p
    <3>4. /\ (w + 1) * v <= StepLen
          /\ \A u \in Vel : (w + 1) * u <= StepLen
      BY <1>1, <3>2, Zenon DEF InPulse
    <3> HIDE DEF w, s
    <3>5. v <= d /\ d \in Nat /\ (w - s + 2) * d <= StepLen
      <4>1. w - s + 2 \in 0..(w + 1)
        BY <3>2, <3>3
      <4> QED
        BY <1>1, <3>3, <3>4, <4>1, Pace
    <3> HIDE DEF d
    <3>6. Offset(p) + v < (w - s + 2) * d
      <4>1. (w - s + 2) * d = (w - s + 1) * d + d /\ (w - s + 1) * d \in Int
        BY <3>3, <3>5
      <4> QED
        BY <1>1, <1>5, <3>3, <3>5, <4>1
    <3>7. Offset(p) + v < StepLen
      <4>1. (w - s + 2) * d \in Int
        BY <3>3, <3>5
      <4> QED
        BY <1>1, <1>5, <3>5, <3>6, <4>1
    <3>8. Offset(position'[i]) < (w - (s - 1) + 1) * d
      <4>1. w - (s - 1) + 1 = w - s + 2
        BY <3>3
      <4> QED
        BY <1>3, <1>5, <3>6, <3>7, <4>1
    <3>9. needWidth'[i] = w /\ stepwdth'[i] = s - 1 /\ s - 1 <= w
      BY <2>1, <3>2, <3>3 DEF w
    <3> QED
      BY <2>4, <3>4, <3>7, <3>8, <3>9, Zenon DEF InPulse, d
  <2> QED
    BY <1>4, <2>5, <2>6
<1> QED
  BY <1>7, <1>8

LEMMA TrackKept ==
    ASSUME Paced, TypeOK, WidthInv, TrackInv, [Next]_vars PROVE TrackInv'
<1> SUFFICES ASSUME NEW i \in Gen PROVE Forward(i)' /\ InPulse(i)' /\ InStep(i)'
  BY DEF TrackInv
<1>1. Forward(i) /\ InPulse(i) /\ InStep(i)
  BY DEF TrackInv
<1>2. ASSUME UNCHANGED <<channel, stepPin, dirPin, needWidth, emitted>>
      PROVE  Forward(i)' /\ InPulse(i)' /\ InStep(i)'
  BY <1>1, <1>2, Zenon DEF channel, Forward, InPulse, InStep, StepReady
<1>3. CASE stepgen
  BY <1>1, <1>3, TrackInterrupt
<1>4. CASE \/ \E in \in InputType : stepgen_update_input(in)
           \/ \E c \in [Gen -> Cfg] : stepgen_update_config(c)
           \/ update_io \/ get_feedback \/ reset_io \/ UNCHANGED vars
  BY <1>2, <1>4 DEF stepgen_update_input, stepgen_update_config, update_io, get_feedback, reset_io,
                    pins, history, vars, code, channel
<1>5. CASE stepgen_reset
  <2>1. /\ position'[i] = 0 /\ oldpos'[i] = 0 /\ stepwdth'[i] = 0 /\ dirsetup'[i] = 0
        /\ olddir'[i] = olddir[i] /\ dirPin'[i] = dirPin[i]
        /\ needWidth'[i] = 0 /\ emitted'[i] = 0
    BY <1>5 DEF stepgen_reset, pins
  <2>2. StepIndex(0) = 0 /\ StepBit(0) = 0 /\ Offset(0) = 0 /\ StepLen \div 1 = StepLen
    <3>1. 0 \div StepLen = 0 /\ StepLen * 0 = 0 /\ StepLen \div 1 = StepLen
      BY StepGenAssumption
    <3> QED
      BY <3>1 DEF StepIndex, StepBit, Offset
  <2>3. ASSUME NEW v \in Vel PROVE (0 + 1) * v <= StepLen
    BY <2>3, VelocityPaced, StepGenAssumption
  <2>4. Offset(0) < (0 - 0 + 1) * (StepLen \div (0 + 1)) /\ 0 <= 0
    BY <2>2, StepGenAssumption
  <2>5. ~StepReady(i)'
    BY <2>1, <2>2 DEF StepReady
  <2>6. InPulse(i)'
    BY <2>1, <2>3, <2>4, <2>5, Zenon DEF InPulse
  <2> QED
    BY <1>1, <2>1, <2>2, <2>5, <2>6, Zenon DEF Forward, InStep
<1>6. CASE reset_dir \/ reset_step
  <2>1. /\ UNCHANGED <<channel, needWidth, emitted>>
        /\ dirPin'[i] = 0 \/ dirPin' = dirPin
        /\ stepPin'[i] = 0 \/ stepPin' = stepPin
    BY <1>6 DEF reset_dir, reset_step, history
  <2> QED
    BY <1>1, <2>1 DEF channel, Forward, InPulse, InStep, StepReady
<1> QED
  BY <1>3, <1>4, <1>5, <1>6 DEF Next, Reply, FinishReset

\* Running forward at the pace the host allows, the channel sends exactly the
\* steps of the position it reports: none is lost, doubled, or merged into the
\* pulse before it, for every width, step length, and change of velocity and
\* configuration (stepgen.c:190-205, 83).
THEOREM StepsCounted == ASSUME Paced PROVE Spec => []StepsTrackPosition
<1>1. IInv /\ TrackInv /\ [Next]_vars => TrackInv'
  BY TrackKept DEF IInv
<1>2. Spec => []TrackInv
  BY <1>1, TrackStart, Inductive, PTL DEF Spec
<1>3. TrackInv => StepsTrackPosition
  BY DEF TrackInv, InStep, StepsTrackPosition
<1> QED
  BY <1>2, <1>3, PTL

=============================================================================
