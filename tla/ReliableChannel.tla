---------------------------- MODULE ReliableChannel ----------------------------
(***************************************************************************)
(* What the reliable part of qunet's UDP transport promises the            *)
(* application in one direction, with no ids, acks, timers or datagrams:   *)
(* messages are numbered in the order in which they are sent, and are      *)
(* handed over in that order, each at most once.  A message may be skipped *)
(* (it could not be decoded), but nothing overtaken is delivered later.    *)
(***************************************************************************)
EXTENDS Integers, Sequences

VARIABLES
    sent,       \* number of reliable messages the application has sent
    delivered   \* the messages handed to the receiving application so far

chanVars == <<sent, delivered>>

LastDelivered ==
    IF delivered = <<>> THEN 0 ELSE delivered[Len(delivered)]

Init ==
    /\ sent = 0
    /\ delivered = <<>>

Send ==
    /\ sent' = sent + 1
    /\ UNCHANGED delivered

Deliver ==
    /\ \E k \in 1..sent :
          /\ k > LastDelivered
          /\ delivered' = Append(delivered, k)
    /\ UNCHANGED sent

Next == Send \/ Deliver

Spec == Init /\ [][Next]_chanVars

================================================================================
