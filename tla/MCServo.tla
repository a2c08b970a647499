------------------------------- MODULE MCServo -------------------------------
(***************************************************************************)
(* A small axis: positions wrap at zero, three counts a period at most.    *)
(* The pins are all inputs, or five of them outputs.                       *)
(***************************************************************************)
EXTENDS Servo

MCSettings == {[dir |-> Pins, out |-> {}],
               [dir |-> Pins \ {0, 3, 4, 6, 15}, out |-> {0, 6, 15}]}
MCOneSetting == {[dir |-> Pins, out |-> {}]}
MCTargets == {0, 5}
MCNearTargets == {0, 4}
MCSpeeds == {-3, 2}
MCOneSpeed == {-3}
MCLeftover == {[tris |-> {1}, lat |-> {1}]}

=============================================================================
