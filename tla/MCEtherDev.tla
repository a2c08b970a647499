----------------------------- MODULE MCEtherDev -----------------------------
(***************************************************************************)
(* The three buffers of the firmware, and two frames to tell apart.        *)
(***************************************************************************)
EXTENDS EtherDev

CONSTANTS b0, b1, b2, f0, f1

=============================================================================
