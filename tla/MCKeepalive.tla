------------------------------ MODULE MCKeepalive ------------------------------
(* Small instances of Keepalive. *)
EXTENDS Keepalive

\* Two early intervals, then idle ones.
ShortStart == <<1, 2>>

\* What no, one and two waits for an acknowledgement come to.
TwoWaits == [k \in 0..2 |-> k]

================================================================================
