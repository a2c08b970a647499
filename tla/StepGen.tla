------------------------------ MODULE StepGen ------------------------------
(***************************************************************************)
(* The step generator of the RT-8p8c firmware (firmware/stepgen.c).        *)
(*                                                                         *)
(* The core timer interrupt runs stepgen() every 10 us.  For each channel  *)
(* it advances a DDS accumulator, and drives a STEP and a DIR pin from it. *)
(* The main loop changes what the interrupt reads: a >CMD datagram runs    *)
(* stepgen_update_input(), >CFG runs stepgen_update_config(), >RST and the *)
(* alive timeout run stepgen_reset().  Each of them is a critical section  *)
(* (interrupts disabled) followed by code the interrupt may preempt, and   *)
(* pc says how far the main loop is in it.  The interrupt has the highest  *)
(* priority, so one interrupt is one action.                               *)
(*                                                                         *)
(* Below the program's variables stand history variables: what a motor     *)
(* driver wired to the pins has seen.  No action of the program reads them.*)
(***************************************************************************)
EXTENDS Integers

CONSTANTS
    Gen,       \* the channels, 0..MAXGEN-1 in the code
    StepLen,   \* DDS counts per step, 1 << STEPBIT
    Steps,     \* steps the uint32_t position counter can tell apart
    CycleMod,  \* range of the int32_t cycle_time counter
    Vel,       \* velocities a >CMD may carry, in DDS counts per interrupt
    Delay,     \* reply delays a >CMD may carry, in interrupts
    Cfg,       \* per-channel timings a >CFG may carry, in interrupts
    TrisWord, LatWord, AllIn,  \* io words; AllIn makes every pin an input
    Far        \* history clocks stop here; no timing reaches it

PosMod == Steps * StepLen

DefaultCfg == [stpwdth |-> 1, dirsetp |-> 1, dirhold |-> 1]

\* The host corrects a timing of zero, unless it was zero from the start (see
\* Params); no word has a meaning of its own here.
ASSUME StepGenAssumption ==
    /\ StepLen \in Nat \ {0}
    /\ Steps \in Nat \ {0} /\ Steps % 2 = 0
    /\ CycleMod \in Nat \ {0}
    /\ Far \in Nat
    /\ Vel \subseteq Int /\ 0 \in Vel
    /\ Delay \subseteq Nat /\ 0 \in Delay
    /\ Cfg \subseteq [stpwdth : 1..Far, dirsetp : 1..Far, dirhold : 1..Far]
    /\ DefaultCfg \in Cfg
    /\ AllIn \in TrisWord

VARIABLES
    stepwdth, dirsetup, dir_hold,   \* down counters, one per channel
    olddir,                         \* 0: last direction was positive, 1: negative
    position,                       \* DDS accumulator
    oldpos,                         \* STEPBIT of oldpos[], the only bit ever read
    input,                          \* stepgen_input
    config,                         \* stepgen_config
    cycle_time, start_cycle_timer,
    stepPin, dirPin, port,          \* the output latches
    pc                              \* where the main loop is

code == <<stepwdth, dirsetup, dir_hold, olddir, position, oldpos, input, config,
          cycle_time, start_cycle_timer, stepPin, dirPin, port, pc>>

VARIABLES
    sinceRise, sinceDir,            \* interrupts since a pulse began, since DIR changed
    needWidth, needHold, needSetup, \* timings in force when they did
    setupLost,                      \* a reset left olddir or dirsetup behind the DIR pin
    emitted                         \* net steps the driver counted since the last reset

history == <<sinceRise, sinceDir, needWidth, needHold, needSetup, setupLost, emitted>>

vars == <<code, history>>

channel == <<stepwdth, dirsetup, dir_hold, olddir, position, oldpos>>
cycle == <<cycle_time, start_cycle_timer>>
pins == <<stepPin, dirPin>>

InputType == [delay : Delay, velocity : [Gen -> Vel],
              io_tris : TrisWord, io_lat : LatWord]

StepIndex(p) == p \div StepLen

\* Mutant: STEP_MASK one bit too high.
StepBit_WrongMask(p) == (StepIndex(p) \div 2) % 2
StepBit(p) == StepIndex(p) % 2

\* Mutants: a counter that is not tested before its decrement, and one that
\* stops at one.
CountDown_Unguarded(n) == n - 1
CountDown_StopsAtOne(n) == IF n > 1 THEN n - 1 ELSE n
CountDown(n) == IF n > 0 THEN n - 1 ELSE n

Init ==
    /\ stepwdth = [i \in Gen |-> 0]
    /\ dirsetup = [i \in Gen |-> 0]
    /\ dir_hold = [i \in Gen |-> 0]
    /\ olddir = [i \in Gen |-> 0]
    /\ position = [i \in Gen |-> 0]
    /\ oldpos = [i \in Gen |-> 0]
    /\ input \in {in \in InputType : in.delay = 0 /\ in.velocity = [i \in Gen |-> 0]}
    /\ config = [i \in Gen |-> DefaultCfg]
    /\ cycle_time = 0
    /\ start_cycle_timer = 0
    /\ stepPin = [i \in Gen |-> 0]
    /\ dirPin = [i \in Gen |-> 0]
    /\ port \in [tris : {AllIn}, lat : LatWord]
    /\ pc = "idle"
    /\ sinceRise = [i \in Gen |-> Far]
    /\ sinceDir = [i \in Gen |-> Far]
    /\ needWidth = [i \in Gen |-> 0]
    /\ needHold = [i \in Gen |-> 0]
    /\ needSetup = [i \in Gen |-> 0]
    /\ setupLost = [i \in Gen |-> FALSE]
    /\ emitted = [i \in Gen |-> 0]

-----------------------------------------------------------------------------
(* stepgen(): one pass of the channel loop, as functions of the state the  *)
(* interrupt finds.                                                        *)

\* The direction setup counter after its decrement.
SetupLeft(i) == CountDown(dirsetup[i])

StepReady(i) == StepBit(position[i]) # oldpos[i]

\* The low period is stretched: the position waits for the direction setup.
Stretched(i) == SetupLeft(i) # 0 /\ StepReady(i)

\* Mutant: the pulse does not wait for the direction setup.
PulseStarts_NoSetup(i) == StepReady(i)
PulseStarts(i) == SetupLeft(i) = 0 /\ StepReady(i)

NewPosition(i) ==
    IF Stretched(i) THEN position[i]
    ELSE (position[i] + input.velocity[i]) % PosMod

WidthLoaded(i) == IF PulseStarts(i) THEN config[i].stpwdth ELSE stepwdth[i]
HoldLoaded(i) == IF PulseStarts(i) THEN config[i].dirhold ELSE dir_hold[i]

\* DIR is low for a positive velocity and high for a negative one.
Sense(v) == IF v > 0 THEN 0 ELSE 1

\* Mutant: the hold counter is tested before the pulse of this pass loads it.
DrivesDir_StaleHold(i) == dir_hold[i] = 0 /\ input.velocity[i] # 0
DrivesDir(i) == HoldLoaded(i) = 0 /\ input.velocity[i] # 0
Turns(i) == DrivesDir(i) /\ olddir[i] # Sense(input.velocity[i])
NewDirPin(i) == IF DrivesDir(i) THEN Sense(input.velocity[i]) ELSE dirPin[i]

\* Mutant: the width counter is decremented before it is tested.
StepLevel_ShortByOne(i) == IF CountDown(WidthLoaded(i)) > 0 THEN 1 ELSE 0
StepLevel(i) == IF WidthLoaded(i) > 0 THEN 1 ELSE 0

Rises(i) == stepPin[i] = 0 /\ StepLevel(i) = 1
DirEdge(i) == NewDirPin(i) # dirPin[i]
Elapse(n) == IF n < Far THEN n + 1 ELSE n

ObserveInterrupt ==
    /\ sinceRise' = [i \in Gen |-> IF PulseStarts(i) THEN 0 ELSE Elapse(sinceRise[i])]
    /\ needWidth' = [i \in Gen |-> IF PulseStarts(i) THEN config[i].stpwdth ELSE needWidth[i]]
    /\ needHold' = [i \in Gen |-> IF PulseStarts(i) THEN config[i].dirhold ELSE needHold[i]]
    /\ sinceDir' = [i \in Gen |-> IF DirEdge(i) THEN 0 ELSE Elapse(sinceDir[i])]
    /\ needSetup' = [i \in Gen |-> IF DirEdge(i) THEN config[i].dirsetp ELSE needSetup[i]]
    /\ setupLost' = [i \in Gen |-> setupLost[i] /\ ~(Turns(i) /\ DirEdge(i))]
    /\ emitted' = [i \in Gen |->
            IF Rises(i) THEN (emitted[i] + 1 - 2 * NewDirPin(i)) % Steps ELSE emitted[i]]

\* CoreTimerHandler's call of stepgen().
stepgen ==
    /\ cycle_time' = (cycle_time + start_cycle_timer) % CycleMod
    /\ input' = [input EXCEPT !.delay = CountDown(@)]
    /\ position' = [i \in Gen |-> NewPosition(i)]
    /\ oldpos' = [i \in Gen |-> IF PulseStarts(i) THEN StepBit(NewPosition(i)) ELSE oldpos[i]]
    /\ dir_hold' = [i \in Gen |-> CountDown(HoldLoaded(i))]
    /\ dirsetup' = [i \in Gen |-> IF Turns(i) THEN config[i].dirsetp ELSE SetupLeft(i)]
    /\ olddir' = [i \in Gen |-> IF Turns(i) THEN 1 - olddir[i] ELSE olddir[i]]
    /\ dirPin' = [i \in Gen |-> NewDirPin(i)]
    /\ stepwdth' = [i \in Gen |-> CountDown(WidthLoaded(i))]
    /\ stepPin' = [i \in Gen |-> StepLevel(i)]
    /\ UNCHANGED <<config, start_cycle_timer, port, pc>>
    /\ ObserveInterrupt

-----------------------------------------------------------------------------
(* The main loop.                                                          *)

\* stepgen_update_input(), up to the end of its critical section.
stepgen_update_input(in) ==
    /\ pc = "idle"
    /\ input' = in
    /\ pc' = "update_io"
    /\ UNCHANGED <<channel, config, cycle, pins, port, history>>

\* update_io(): direction and level of the sixteen io pins.
update_io ==
    /\ pc = "update_io"
    /\ port' = [tris |-> input.io_tris, lat |-> input.io_lat]
    /\ pc' = "delay"
    /\ UNCHANGED <<channel, input, config, cycle, pins, history>>

\* get_feedback(): spin until the interrupt has counted the reply delay
\* down, then take the snapshot the reply carries.
get_feedback ==
    /\ pc = "delay"
    /\ input.delay = 0
    /\ cycle_time' = 0
    /\ start_cycle_timer' = 1
    /\ pc' = "idle"
    /\ UNCHANGED <<channel, input, config, pins, port, history>>

stepgen_update_config(c) ==
    /\ pc = "idle"
    /\ config' = c
    /\ UNCHANGED <<channel, input, cycle, pins, port, pc, history>>

\* Mutant: the reset forgets the commanded velocities.
StoppedInput_KeepsVelocity == input
StoppedInput == [input EXCEPT !.velocity = [i \in Gen |-> 0]]

\* The critical section of stepgen_reset().  It gives up the pulses in
\* progress, so their width and hold are not owed any more.
stepgen_reset ==
    /\ pc = "idle"
    /\ stepwdth' = [i \in Gen |-> 0]
    /\ dirsetup' = [i \in Gen |-> 0]
    /\ dir_hold' = [i \in Gen |-> 0]
    /\ position' = [i \in Gen |-> 0]
    /\ oldpos' = [i \in Gen |-> 0]
    /\ input' = StoppedInput
    /\ start_cycle_timer' = 0
    /\ cycle_time' = 0
    /\ pc' = "reset_dir"
    /\ UNCHANGED <<olddir, config, pins, port>>
    /\ needWidth' = [i \in Gen |-> 0]
    /\ needHold' = [i \in Gen |-> 0]
    /\ setupLost' = [i \in Gen |-> setupLost[i] \/ olddir[i] = 1 \/ dirsetup[i] > 0]
    /\ emitted' = [i \in Gen |-> 0]
    /\ UNCHANGED <<sinceRise, sinceDir, needSetup>>

\* The stores after the critical section, with interrupts enabled: DIR_LO_*,
\* STEPLO_*, reset_io().
reset_dir ==
    /\ pc = "reset_dir"
    /\ dirPin' = [i \in Gen |-> 0]
    /\ pc' = "reset_step"
    /\ sinceDir' = [i \in Gen |-> IF dirPin[i] = 1 THEN 0 ELSE sinceDir[i]]
    /\ needSetup' = [i \in Gen |-> IF dirPin[i] = 1 THEN config[i].dirsetp ELSE needSetup[i]]
    /\ UNCHANGED <<channel, input, config, cycle, stepPin, port,
                   sinceRise, needWidth, needHold, setupLost, emitted>>

reset_step ==
    /\ pc = "reset_step"
    /\ stepPin' = [i \in Gen |-> 0]
    /\ pc' = "reset_io"
    /\ UNCHANGED <<channel, input, config, cycle, dirPin, port, history>>

reset_io ==
    /\ pc = "reset_io"
    /\ port' = [port EXCEPT !.tris = AllIn]
    /\ pc' = "idle"
    /\ UNCHANGED <<channel, input, config, cycle, pins, history>>

-----------------------------------------------------------------------------

Reply == update_io \/ get_feedback
FinishReset == reset_dir \/ reset_step \/ reset_io

Next ==
    \/ stepgen
    \/ \E in \in InputType : stepgen_update_input(in)
    \/ \E c \in [Gen -> Cfg] : stepgen_update_config(c)
    \/ stepgen_reset
    \/ Reply
    \/ FinishReset

Spec == Init /\ [][Next]_vars

\* The timer keeps interrupting, and a handler the main loop has entered
\* runs to its end between interrupts.
Fairness == WF_vars(stepgen) /\ WF_vars(Reply) /\ WF_vars(FinishReset)

FairSpec == Spec /\ Fairness

-----------------------------------------------------------------------------

\* Every variable keeps to its range; in particular no down counter of the
\* interrupt (stepgen.c:187, 208, 242) goes below zero, where it would count on.
TypeOK ==
    /\ stepwdth \in [Gen -> 0..Far]
    /\ dirsetup \in [Gen -> 0..Far]
    /\ dir_hold \in [Gen -> 0..Far]
    /\ olddir \in [Gen -> {0, 1}]
    /\ position \in [Gen -> 0..(PosMod - 1)]
    /\ oldpos \in [Gen -> {0, 1}]
    /\ input \in [delay : Nat, velocity : [Gen -> Vel],
                  io_tris : TrisWord, io_lat : LatWord]
    /\ config \in [Gen -> Cfg]
    /\ cycle_time \in 0..(CycleMod - 1)
    /\ start_cycle_timer \in {0, 1}
    /\ stepPin \in [Gen -> {0, 1}]
    /\ dirPin \in [Gen -> {0, 1}]
    /\ port \in [tris : TrisWord, lat : LatWord]
    /\ pc \in {"idle", "update_io", "delay", "reset_dir", "reset_step", "reset_io"}
    /\ sinceRise \in [Gen -> 0..Far]
    /\ sinceDir \in [Gen -> 0..Far]
    /\ needWidth \in [Gen -> 0..Far]
    /\ needHold \in [Gen -> 0..Far]
    /\ needSetup \in [Gen -> 0..Far]
    /\ setupLost \in [Gen -> BOOLEAN]
    /\ emitted \in [Gen -> 0..(Steps - 1)]

\* STEP stays high for the stpwdth in force when its pulse began, whatever
\* the main loop stores in the configuration or the velocity meanwhile; only a
\* reset cuts a pulse short (stepgen.c:199-205, 242-264).
MinPulseWidth ==
    [][\A i \in Gen : stepPin[i] = 1 /\ stepPin'[i] = 0
            => sinceRise'[i] >= needWidth'[i]]_vars

\* DIR does not change before the dirhold in force when the last pulse began
\* has passed since its rising edge (stepgen.c:206-240).
DirHold ==
    [][\A i \in Gen : dirPin'[i] # dirPin[i]
            => sinceRise'[i] >= needHold'[i]]_vars

\* No STEP pulse rises before the dirsetp in force when DIR last changed has
\* passed, as long as no reset left the pin and olddir apart
\* (stepgen.c:185-205, 221-224, 235-238).
DirSetup ==
    [][\A i \in Gen : stepPin[i] = 0 /\ stepPin'[i] = 1 /\ ~setupLost[i]
            => sinceDir'[i] >= needSetup'[i]]_vars

\* The same without the exception: what the timing diagram (stepgen.c:35-47)
\* and the dirsetup parameter (rt8p8c.comp:46) promise a motor driver.
DirSetupAlways ==
    [][\A i \in Gen : stepPin[i] = 0 /\ stepPin'[i] = 1
            => sinceDir'[i] >= needSetup'[i]]_vars

\* The cycle timer is at zero while it is stopped, so the first reply after a
\* reset carries zero; and once a reset is over nothing moves before the next
\* >CMD, although interrupts run between the reset's critical section and its
\* stores to the pins (stepgen.c:153-169).
StoppedUntilCommanded ==
    start_cycle_timer = 0 =>
        /\ cycle_time = 0
        /\ pc = "idle" =>
            /\ port.tris = AllIn
            /\ \A i \in Gen : position[i] = 0 /\ stepPin[i] = 0 /\ dirPin[i] = 0

\* The channels run forward, and no step is shorter than a pulse with a low
\* interrupt after it, as the host's limit of the velocity ensures
\* (rt8p8c.comp:453-454).
Paced == \A v \in Vel, c \in Cfg : 0 <= v /\ (c.stpwdth + 1) * v <= StepLen

\* Between pulses the driver has counted exactly the steps of the position the
\* replies report (stepgen.c:190-205, 83): no crossing of STEPBIT is lost,
\* doubled, or merged into the pulse before it.
StepsTrackPosition ==
    \A i \in Gen : ~StepReady(i) => emitted[i] = StepIndex(position[i])

\* A >CMD is answered: the busy wait for the reply delay (stepgen.c:74) ends
\* because the interrupt counts the delay down.
EveryCmdAnswered == pc = "update_io" ~> pc = "idle"

-----------------------------------------------------------------------------
(* The inductive invariant behind the timing properties: each down counter *)
(* still holds what is left of the time a driver is owed.                  *)

Resetting == pc \in {"reset_dir", "reset_step", "reset_io"}

\* Neither counter nor velocity is left that could move channel i.
Quiet(i) ==
    /\ position[i] = 0 /\ oldpos[i] = 0 /\ input.velocity[i] = 0
    /\ stepwdth[i] = 0
    /\ needWidth[i] = 0 /\ needHold[i] = 0

QuietInv ==
    /\ Resetting => start_cycle_timer = 0
    /\ start_cycle_timer = 0 =>
        /\ cycle_time = 0
        /\ pc \notin {"update_io", "delay"} => \A i \in Gen : Quiet(i)
        /\ pc \in {"reset_step", "reset_io", "idle"} => \A i \in Gen : dirPin[i] = 0
        /\ pc \in {"reset_io", "idle"} => \A i \in Gen : stepPin[i] = 0
        /\ pc = "idle" => port.tris = AllIn

WidthInv ==
    \A i \in Gen :
        /\ needWidth[i] <= sinceRise[i] + stepwdth[i] + 1
        /\ stepPin[i] = 0 => stepwdth[i] = 0

HoldInv == \A i \in Gen : needHold[i] <= sinceRise[i] + dir_hold[i] + 1

SetupInv ==
    \A i \in Gen : ~setupLost[i] =>
        /\ dirPin[i] = olddir[i]
        /\ needSetup[i] <= sinceDir[i] + dirsetup[i]
        /\ pc = "reset_dir" => olddir[i] = 0

IInv == TypeOK /\ QuietInv /\ WidthInv /\ HoldInv /\ SetupInv

=============================================================================
