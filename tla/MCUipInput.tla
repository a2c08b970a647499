----------------------------- MODULE MCUipInput -----------------------------
(***************************************************************************)
(* A small instance of UipInput: bytes of two bits, so that every sum      *)
(* wraps within a few words, and data of none, one and two bytes.          *)
(***************************************************************************)
EXTENDS UipInput

MCPort == <<1, 2>>
MCSenders == {6, 9}
MCDatas == {<<>>, <<0>>, <<3>>, <<0, 0>>, <<1, 2>>, <<3, 3>>}

=============================================================================
