------------------------------ MODULE MCParams ------------------------------
(***************************************************************************)
(* Every parameter ranges over 0..2: zero, the least a channel can run on, *)
(* and one that differs; dirhold can so lie below, at and above the step   *)
(* period.  MCParams_hold leaves zero out.                                 *)
(***************************************************************************)
EXTENDS Params

=============================================================================
