---------------------------- MODULE MCSupervisor ----------------------------
(***************************************************************************)
(* Small instances of Supervisor: three parameter settings, one of which   *)
(* check_params does not accept, and short timeouts and measurements.      *)
(***************************************************************************)
EXTENDS Supervisor

CONSTANTS slow, fast, zero

MCParam == {slow, zero}
MCAccepted == [p \in MCParam |-> slow]
MCOneParam == {slow}
MCOneAccepted == [p \in MCOneParam |-> p]
MCTwoParam == {slow, fast}
MCTwoAccepted == [p \in MCTwoParam |-> p]

=============================================================================
