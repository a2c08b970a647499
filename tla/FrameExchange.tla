---------------------------- MODULE FrameExchange ----------------------------
(***************************************************************************)
(* What an Ethernet driver promises the main loop: frames are taken one at *)
(* a time, belong to the loop alone while it works on them, and an answer  *)
(* goes on the wire as the loop left it.  Each of the variables is empty,  *)
(* or the set of one frame.                                                *)
(***************************************************************************)
CONSTANT Frame

VARIABLES
    pending,     \* received and not taken
    work,        \* taken, and not discarded or sent
    wire         \* being sent

vars == <<pending, work, wire>>

Init == pending = {} /\ work = {} /\ wire = {}

Arrive ==
    /\ pending = {} /\ \E f \in Frame : pending' = {f}
    /\ UNCHANGED <<work, wire>>

Take ==
    /\ pending # {} /\ work = {}
    /\ work' = pending /\ pending' = {}
    /\ UNCHANGED wire

\* Part of a frame is not taken.
Refuse ==
    /\ pending # {} /\ pending' = {}
    /\ UNCHANGED <<work, wire>>

Rework ==
    /\ work # {} /\ \E f \in Frame : work' = {f}
    /\ UNCHANGED <<pending, wire>>

Drop ==
    /\ work # {} /\ work' = {}
    /\ UNCHANGED <<pending, wire>>

Send ==
    /\ work # {} /\ wire = {}
    /\ wire' = work /\ work' = {}
    /\ UNCHANGED pending

Sent ==
    /\ wire # {} /\ wire' = {}
    /\ UNCHANGED <<pending, work>>

Next == Arrive \/ Take \/ Refuse \/ Rework \/ Drop \/ Send \/ Sent

Spec == Init /\ [][Next]_vars

=============================================================================
