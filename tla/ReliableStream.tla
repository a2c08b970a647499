--------------------------- MODULE ReliableStream ---------------------------
(***************************************************************************)
(* What TCP promises its two applications (firmware/uip/uip.h:629-660):    *)
(* each is handed the other's bytes in order, none twice and none skipped, *)
(* and is told that bytes were acknowledged only when the other was handed *)
(* them, unless the other has closed its end.                              *)
(***************************************************************************)
EXTENDS Integers, Sequences

CONSTANTS Ends, Length, Peer(_)

VARIABLES
    open,      \* ends that are opening a connection or have one
    acked,     \* bytes of each end it knows to be acknowledged
    got,       \* bytes it was handed in this connection
    most       \* the most bytes it was handed in any

vars == <<open, acked, got, most>>

Prefix(e, n) == [i \in 1..n |-> i]

Init ==
    /\ open = [e \in Ends |-> FALSE]
    /\ acked = [e \in Ends |-> 0] /\ got = [e \in Ends |-> <<>>]
    /\ most = [e \in Ends |-> 0]

\* A new connection begins at the first byte.
Open(e) ==
    /\ ~open[e] /\ open' = [open EXCEPT ![e] = TRUE]
    /\ got' = [got EXCEPT ![e] = <<>>]
    /\ UNCHANGED <<acked, most>>

Confirmable(e) == IF open[Peer(e)] THEN most[Peer(e)] ELSE Length[e]

\* Bytes are handed over and acknowledged; the application may close at once.
Transfer(e) ==
    /\ open[e] /\ \E still \in BOOLEAN : open' = [open EXCEPT ![e] = still]
    /\ \E n \in Len(got[e])..Length[Peer(e)] :
          /\ got' = [got EXCEPT ![e] = Prefix(e, n)]
          /\ most' = [most EXCEPT ![e] = IF n > @ THEN n ELSE @]
    /\ \E a \in acked[e]..Length[e] :
          /\ a > acked[e] => a <= Confirmable(e)
          /\ acked' = [acked EXCEPT ![e] = a]

Next == \E e \in Ends : Open(e) \/ Transfer(e)

Spec == Init /\ [][Next]_vars

=============================================================================
