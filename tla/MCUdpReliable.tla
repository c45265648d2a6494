----------------------------- MODULE MCUdpReliable -----------------------------
(* Small instances of UdpReliable. *)
EXTENDS UdpReliable, TLC

\* One direction only.
Download3 == Client :> 0 @@ Server :> 3
Download4 == Client :> 0 @@ Server :> 4

AllDecodable == [p \in Peer |-> {}]
FirstUndecodable == [p \in Peer |-> {1}]

================================================================================
