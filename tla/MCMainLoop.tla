----------------------------- MODULE MCMainLoop -----------------------------
(***************************************************************************)
(* An interval of three ticks, the ARP timer at twice that, and a clock    *)
(* that wraps every few ARP intervals.                                     *)
(***************************************************************************)
EXTENDS MainLoop

=============================================================================
