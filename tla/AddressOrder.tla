------------------------------ MODULE AddressOrder ------------------------------
(***************************************************************************)
(* The comparators with which Connection sorts the addresses it may        *)
(* connect to: by the answers to its pings, and by connection type.        *)
(* std::sort is undefined for one that is not a strict weak order.         *)
(***************************************************************************)
EXTENDS Naturals

CONSTANTS
    PreferIpv6,     \* m_preferIpv6
    PreferredType,  \* m_preferredConnType; "Unknown" prefers none
    Close,          \* response times at most this far apart (25 ms) count as equal
                    \* across address families
    Times           \* response times that are told apart

ConnectionTypes == {"Udp", "Tcp", "Quic", "WebSocket", "WebSocketTls"}

ASSUME AddressOrderAssumption ==
    /\ PreferIpv6 \in BOOLEAN
    /\ PreferredType \in ConnectionTypes \cup {"Unknown"}
    /\ Close \in Nat
    /\ Times \subseteq Nat

\* What an address is sorted by.
Answers == [v6 : BOOLEAN, time : Times]

AbsDiff(x, y) == IF x < y THEN y - x ELSE x - y

\* The comparator of threadPingCandidates.
PingLess(a, b) ==
    IF AbsDiff(a.time, b.time) > Close \/ a.v6 = b.v6 THEN a.time < b.time
    ELSE IF a.v6 /\ ~b.v6 THEN PreferIpv6
    ELSE ~PreferIpv6

\* toNum.
TypeRank(type) ==
    CASE type = "Tcp" -> 10 [] type = "Quic" -> 20 [] type = "Udp" -> 30 [] OTHER -> 40

\* The comparator of threadFinalConnect.
TypeLess(s, t) ==
    IF s = PreferredType /\ t = PreferredType THEN FALSE
    ELSE IF s = PreferredType THEN TRUE
    ELSE IF t = PreferredType THEN FALSE
    ELSE TypeRank(s) < TypeRank(t)

\* The comparator of threadPingCandidates is a strict weak order on a set of answers: nothing
\* comes before itself, and both coming before and not coming before are transitive.
PingOrderedOn(answers) ==
    \A a, b, c \in answers :
        /\ ~PingLess(a, a)
        /\ PingLess(a, b) /\ PingLess(b, c) => PingLess(a, c)
        /\ ~PingLess(a, b) /\ ~PingLess(b, c) => ~PingLess(a, c)

\* The comparator of threadFinalConnect is a strict weak order, whichever type is preferred, and
\* if none is.
TypeOrderConsistent ==
    \A r, s, t \in ConnectionTypes :
        /\ ~TypeLess(r, r)
        /\ TypeLess(r, s) /\ TypeLess(s, t) => TypeLess(r, t)
        /\ ~TypeLess(r, s) /\ ~TypeLess(s, t) => ~TypeLess(r, t)

================================================================================
