------------------------------ MODULE MCUipTcp ------------------------------
(***************************************************************************)
(* A small instance of UipTcp: the client's three bytes take two segments, *)
(* the server has one byte, and the sequence numbers wrap on the way.      *)
(***************************************************************************)
EXTENDS UipTcp

MCLength == [e \in Ends |-> IF e = Client THEN 3 ELSE 1]

=============================================================================
