----------------------------- MODULE PingCandidates -----------------------------
(***************************************************************************)
(* How Connection chooses what to connect to when the URL names no         *)
(* protocol: threadPingCandidates pings every address and waits for a      *)
(* while, threadFinalConnect then tries address after address until one    *)
(* connects.  The answers come from the Pinger through a channel.          *)
(***************************************************************************)
EXTENDS AddressOrder, Integers, Sequences, SequencesExt, FiniteSets

CONSTANTS
    ChannelSize,   \* capacity of the channel (8)
    Announced      \* the lists a server may announce, of [type, port]

ASSUME PingCandidatesAssumption ==
    /\ ChannelSize \in Nat \ {0}
    /\ Announced \subseteq Seq([type : STRING \ {"WebSocketTls"}, port : Nat])

VARIABLES
    phase,        \* "idle", ..., "pinging", "collecting", "connecting", "connected", "failed"
    addrs,        \* the addresses, [ip, v6, port], in the order of sortAddresses
    pinged,       \* addresses the Pinger has not called back for
    channel,      \* <<address, answer>>
    anyResults,   \* messages taken from the channel
    pingResults,  \* the good ones
    protocols,    \* what their servers speak, in the order of arrival
    clock,        \* milliseconds: "early", "50" or "5000" after the start
    final,        \* what is to be tried, in order
    errors        \* what has been tried in vain

pingVars ==
    <<phase, addrs, pinged, channel, anyResults, pingResults, protocols, clock, final, errors>>

--------------------------------------------------------------------------------

NoPort == -1

Failed == [ok |-> FALSE]

\* What the callback may be called with: a timeout, an error, no protocols; or an answer.
Replies == {Failed} \cup [ok : {TRUE}, time : Times, speaks : Announced]

Key(result) == [v6 |-> result.addr.v6, time |-> result.time]

AddrsOf(results) == [i \in DOMAIN results |-> results[i].addr]

\* The orders std::sort may leave the results in.
SortedByPing(s) ==
    {[i \in DOMAIN s |-> s[p[i]]] : p \in
        {p \in [DOMAIN s -> DOMAIN s] :
            /\ IsInjective(p)
            /\ \A i, j \in DOMAIN s : i < j => ~PingLess(Key(s[p[j]]), Key(s[p[i]]))}}

\* The elements of a finite set from the first to the last: each after those that come before it.
InOrder(set, Before(_, _)) ==
    [k \in 1..Cardinality(set) |->
        CHOOSE x \in set : Cardinality({y \in set : Before(y, x)}) = k - 1]

\* The elements of s at some of its indices, in their order.
Picked(s, indices) ==
    LET chosen == InOrder(indices, LAMBDA i, j : i < j)
    IN  [k \in DOMAIN chosen |-> s[chosen[k]]]

\* Every address with every protocol the client knows, by their places.
Pairs(list, types) ==
    {c \in (DOMAIN list) \X (DOMAIN types) : types[c[2]].type \in ConnectionTypes}

\* The order of the loops over both.
Earlier(c, d) == c[1] < d[1] \/ (c[1] = d[1] /\ c[2] < d[2])

\* std::stable_sort by connection type leaves equivalent candidates in that order.
TypeEarlier(types, c, d) ==
    LET s == types[c[2]].type
        t == types[d[2]].type
    IN  TypeLess(s, t) \/ (~TypeLess(t, s) /\ Earlier(c, d))

\* A candidate has the port of its protocol, if that has one.
Candidate(a, p) ==
    [addr |-> [ip |-> a.ip, v6 |-> a.v6, port |-> IF p.port = NoPort THEN a.port ELSE p.port],
     type |-> p.type]

\* Mutant: the second sort is forgotten.
FinalAddrsUnsorted(list, types) ==
    LET chosen == InOrder(Pairs(list, types), Earlier)
    IN  [k \in DOMAIN chosen |-> Candidate(list[chosen[k][1]], types[chosen[k][2]])]

\* What threadFinalConnect tries, in order.
FinalAddrs(list, types) ==
    LET chosen == InOrder(Pairs(list, types), LAMBDA c, d : TypeEarlier(types, c, d))
    IN  [k \in DOMAIN chosen |-> Candidate(list[chosen[k][1]], types[chosen[k][2]])]

\* Without answers every type is tried, at the port of the address.
AllTypes ==
    <<[type |-> "Udp", port |-> NoPort], [type |-> "Tcp", port |-> NoPort],
      [type |-> "Quic", port |-> NoPort], [type |-> "WebSocket", port |-> NoPort]>>

PingInit ==
    /\ phase = "idle" /\ addrs = <<>> /\ pinged = {}
    /\ channel = <<>> /\ anyResults = 0 /\ pingResults = <<>> /\ protocols = <<>>
    /\ clock = "early" /\ final = <<>> /\ errors = <<>>

--------------------------------------------------------------------------------

\* The locals of a coroutine that is new, or that is gone.
NoPings ==
    /\ pinged' = {} /\ channel' = <<>> /\ anyResults' = 0 /\ pingResults' = <<>>
    /\ protocols' = <<>> /\ clock' = "early" /\ errors' = <<>>

ThreadPingCandidates(list) ==
    /\ phase' = "pinging" /\ addrs' = list /\ final' = <<>> /\ NoPings

\* threadFinalConnect, for the protocol the URL names.
ThreadFinalConnect(list, type) ==
    /\ phase' = "connecting" /\ addrs' = list /\ NoPings
    /\ final' = FinalAddrs(list, <<[type |-> type, port |-> NoPort]>>)

\* Neither is running.
NotYet(p) == phase' = p /\ addrs' = <<>> /\ final' = <<>> /\ NoPings

\* The loop over the addresses: an answer the Pinger remembers is put into the channel, if it
\* fits.
SendPings ==
    /\ phase = "pinging"
    /\ \E cached \in SUBSET ToSet(addrs) :
         /\ \E answer \in [cached -> Replies \ {Failed}] :
              LET known == Picked(addrs, {i \in DOMAIN addrs : addrs[i] \in cached})
              IN  channel' = [i \in 1..(IF Len(known) < ChannelSize THEN Len(known) ELSE ChannelSize)
                                |-> <<known[i], answer[known[i]]>>]
         /\ pinged' = ToSet(addrs) \ cached
    /\ phase' = "collecting"
    /\ UNCHANGED <<addrs, anyResults, pingResults, protocols, clock, final, errors>>

\* The Pinger calls back, from its own task; a full channel loses the answer.  Once nobody
\* receives any more it goes nowhere.
CalledBack ==
    /\ phase = "collecting"
    /\ \E a \in pinged, reply \in Replies :
         /\ pinged' = pinged \ {a}
         /\ channel' = IF Len(channel) < ChannelSize THEN Append(channel, <<a, reply>>) ELSE channel
    /\ UNCHANGED <<phase, addrs, anyResults, pingResults, protocols, clock, final, errors>>

TimePasses ==
    /\ clock # "5000"
    /\ phase = "collecting"
    /\ clock' = IF clock = "early" THEN "50" ELSE "5000"
    /\ UNCHANGED <<phase, pinged, addrs, channel, anyResults, pingResults, protocols, final,
                   errors>>

\* Mutant: without an answer there is no deadline.
DeadlinePassedIfAnswered == clock # "early" /\ pingResults # <<>>

\* 5 seconds after the start, or 50 ms once there is an answer.
DeadlinePassed == clock = "5000" \/ (clock = "50" /\ pingResults # <<>>)

AllIn == anyResults >= Len(addrs)

\* Protocols are added unless one with their id is there, whatever its port.
Merge(known, more) ==
    known \o Picked(more, {j \in DOMAIN more :
                              /\ \A i \in DOMAIN known : known[i].type # more[j].type
                              /\ \A i \in 1..(j - 1) : more[i].type # more[j].type})

\* A result is taken from the channel; protocols are merged.
Receive ==
    /\ phase = "collecting" /\ ~AllIn /\ ~DeadlinePassed
    /\ channel # <<>>
    /\ channel' = Tail(channel)
    /\ anyResults' = anyResults + 1
    /\ LET a == Head(channel)[1]
           reply == Head(channel)[2]
       IN  IF ~reply.ok \/ (reply.ok /\ reply.speaks = <<>>)
           THEN UNCHANGED <<pingResults, protocols>>
           ELSE /\ pingResults' = Append(pingResults, [addr |-> a, time |-> reply.time])
                /\ protocols' = Merge(protocols, reply.speaks)
    /\ UNCHANGED <<phase, pinged, addrs, clock, final, errors>>

\* The loop ends.
EndPinging == phase = "collecting" /\ (AllIn \/ DeadlinePassed) /\ phase' = "connecting"

\* What is to be tried is put together and sorted twice.
FinishPinging ==
    /\ EndPinging
    /\ IF pingResults = <<>>
       THEN final' = FinalAddrs(addrs, AllTypes)
       ELSE \E results \in SortedByPing(pingResults) : final' = FinalAddrs(AddrsOf(results), protocols)
    /\ UNCHANGED <<pinged, addrs, channel, anyResults, pingResults, protocols, clock, errors>>

\* threadEstablishConn of the next candidate fails, the last time for good.
Tried == Len(errors) + 1

TryFails ==
    /\ phase = "connecting" /\ Tried <= Len(final)
    /\ errors' = Append(errors, final[Tried])
    /\ phase' = IF Tried = Len(final) THEN "failed" ELSE phase
    /\ UNCHANGED <<pinged, addrs, channel, anyResults, pingResults, protocols, clock, final>>

TrySucceeds ==
    /\ phase = "connecting" /\ Tried <= Len(final)
    /\ phase' = "connected"
    /\ UNCHANGED <<pinged, addrs, channel, anyResults, pingResults, protocols, clock, final,
                   errors>>

Try == TryFails \/ TrySucceeds

PingNext ==
    \/ SendPings \/ CalledBack \/ TimePasses \/ Receive \/ FinishPinging \/ Try

--------------------------------------------------------------------------------

\* Addresses that differ in the port at most.
SameHost(a, b) == a.ip = b.ip /\ a.v6 = b.v6

Decided == phase \in {"connecting", "connected", "failed"}

\* threadFinalConnect asserts that there is something to try.
SomethingToTry == Decided => final # <<>>

\* The candidates of one type come fastest first: none follows one that is slower by more
\* than the margin, whatever the families.  The preferred type, if there is one, comes before
\* all others, and these come in the default order.
FastestFirst ==
    Decided /\ pingResults # <<>> =>
        \A i, j \in DOMAIN final :
            /\ i < j /\ final[j].type = PreferredType => final[i].type = PreferredType
            /\ i < j /\ PreferredType \notin {final[i].type, final[j].type} =>
                   TypeRank(final[i].type) <= TypeRank(final[j].type)
            /\ i < j /\ final[i].type = final[j].type =>
                   \A r, s \in ToSet(pingResults) :
                       SameHost(r.addr, final[i].addr) /\ SameHost(s.addr, final[j].addr)
                           => r.time <= s.time + Close

================================================================================
