------------------------------ MODULE MCUipArp ------------------------------
(***************************************************************************)
(* Two entries for three hosts, one more host behind a router, and a clock *)
(* that wraps a little after twice the maximum age, as the firmware's does *)
(* (256 and 120).                                                          *)
(***************************************************************************)
EXTENDS UipArp, TLC

CONSTANTS host1, host2, host3, far, mac1, mac2

Symmetry == Permutations({host1, host2, host3}) \cup Permutations({mac1, mac2})

=============================================================================
