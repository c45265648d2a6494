-------------------------- MODULE ConnectionLifecycle --------------------------
(***************************************************************************)
(* What the user of a connection may observe through state() and the       *)
(* connection state callback: an attempt passes through its phases in      *)
(* order and can be abandoned in any of them, only an established          *)
(* connection is closed or reconnected, and everything that ends, ends in  *)
(* Disconnected.                                                           *)
(***************************************************************************)
VARIABLE connState

Phases == {"DnsResolving", "Pinging", "Connecting"}

States == Phases \cup {"Disconnected", "Connected", "Reconnecting", "Closing"}

Init == connState = "Disconnected"

\* An attempt starts in the phase its destination calls for.
Begin ==
    /\ connState = "Disconnected"
    /\ connState' \in Phases

\* Name resolution comes before pinging, and pinging before connecting.
Proceed ==
    \/ connState = "DnsResolving" /\ connState' \in {"Pinging", "Connecting"}
    \/ connState = "Pinging" /\ connState' = "Connecting"

Establish ==
    /\ connState \in {"Connecting", "Reconnecting"}
    /\ connState' = "Connected"

Lose ==
    /\ connState = "Connected"
    /\ connState' = "Reconnecting"

Close ==
    /\ connState = "Connected"
    /\ connState' = "Closing"

End ==
    /\ connState # "Disconnected"
    /\ connState' = "Disconnected"

Next == Begin \/ Proceed \/ Establish \/ Lose \/ Close \/ End

Spec == Init /\ [][Next]_connState

================================================================================
