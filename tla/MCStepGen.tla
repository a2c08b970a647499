----------------------------- MODULE MCStepGen -----------------------------
(***************************************************************************)
(* Small instances of StepGen.  Timings are 1..3 interrupts and a step is  *)
(* four DDS counts; a velocity of half a step per interrupt is the fastest *)
(* the host's frequency limit lets through (stepwidth + stepspace >= 2).   *)
(***************************************************************************)
EXTENDS StepGen

MCVel == -2..2
MCGentle == -1..1
MCForward == 0..2
MCSlow == 0..1
MCOneCfg == {DefaultCfg}
MCCfg == {[stpwdth |-> 1, dirsetp |-> 1, dirhold |-> 1],
          [stpwdth |-> 2, dirsetp |-> 3, dirhold |-> 3]}
MCWideCfg == {[stpwdth |-> w, dirsetp |-> 1, dirhold |-> 1] : w \in 1..3}

=============================================================================
