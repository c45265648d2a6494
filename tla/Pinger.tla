-------------------------------- MODULE Pinger --------------------------------
(***************************************************************************)
(* The Pinger: requests from any thread go through a channel to one worker *)
(* task, which sends the pings, matches the pongs by id, gives up the ones *)
(* that take longer than 1.5 seconds and remembers for 15 minutes which    *)
(* protocols a server speaks.  A server that is remembered is asked to     *)
(* leave the protocols out of its answer.                                  *)
(***************************************************************************)
EXTENDS Naturals, Sequences, FiniteSets

CONSTANTS
    Hosts,             \* hosts that can be pinged
    QueueSize,         \* capacity of the channel (128)
    MaxPings,          \* bound: requests
    MaxSocketErrors,   \* bound: errors of the socket, when bound, sending or receiving
    MaxExpired,        \* bound: cache entries that expire or are pushed out
    MaxPongs           \* bound: pongs under way

ASSUME PingerAssumption ==
    /\ QueueSize \in Nat \ {0} /\ MaxPings \in Nat /\ MaxSocketErrors \in Nat
    /\ MaxExpired \in Nat /\ MaxPongs \in Nat

\* An IPv4 address may come as itself or mapped into IPv6.
Addresses == [host : Hosts, form : {"v4", "v6"}]

Requests == 1..MaxPings

VARIABLES
    requested,     \* requests made so far
    resolving,     \* requests of pingUrl waiting for the resolver
    queue,         \* the channel, <<request, address>>
    socket,        \* m_socket is there
    nextPingId,    \* m_nextPingId
    outgoing,      \* m_outgoingPings, which is in the order of the ids; late: sent more than
                   \* 1.5 seconds ago
    cache,         \* m_cache, by address: "none", "empty" or "protocols"
    pings,         \* pings the servers have got
    pongs,         \* pongs under way
    socketErrors, expired,
    (* history *)
    results,       \* what the callback of each request has been called with
    unresolved,    \* requests whose name was not found
    refused,       \* requests the channel had no room for
    lapsed         \* an entry has gone while a ping relied on it

vars == <<requested, resolving, queue, socket, nextPingId, outgoing, cache, pings, pongs,
          socketErrors, expired, results, unresolved, refused, lapsed>>

--------------------------------------------------------------------------------

\* Mutant: a mapped address is another address.
ToV6Identity(a) == a

ToV6(a) == [a EXCEPT !.form = "v6"]

IsCached(a) == cache[ToV6(a)] # "none"

CallBack(r, result) == results' = [results EXCEPT ![r] = Append(@, result)]

Init ==
    /\ requested = 0 /\ resolving = {} /\ queue = <<>>
    /\ socket = FALSE /\ nextPingId = 0 /\ outgoing = {}
    /\ cache = [a \in Addresses |-> "none"]
    /\ pings = {} /\ pongs = {} /\ socketErrors = 0 /\ expired = 0
    /\ results = [r \in Requests |-> <<>>] /\ unresolved = {} /\ refused = {}
    /\ lapsed = FALSE

--------------------------------------------------------------------------------
(* Any thread. *)

\* ping: trySend; if the channel is full the request is gone.
Enqueue(r, a) ==
    \/ Len(queue) < QueueSize /\ queue' = Append(queue, <<r, a>>) /\ UNCHANGED refused
    \/ Len(queue) >= QueueSize /\ refused' = refused \cup {r} /\ UNCHANGED queue

Ping ==
    /\ requested < MaxPings
    /\ requested' = requested + 1
    /\ \E a \in Addresses : Enqueue(requested + 1, a)
    /\ UNCHANGED <<resolving, socket, nextPingId, outgoing, cache, pings, pongs,
                   socketErrors, expired, results, unresolved, lapsed>>

\* pingUrl with a name.
PingUrl ==
    /\ requested < MaxPings
    /\ requested' = requested + 1
    /\ resolving' = resolving \cup {requested + 1}
    /\ UNCHANGED <<queue, socket, nextPingId, outgoing, cache, pings, pongs,
                   socketErrors, expired, results, unresolved, refused, lapsed>>

\* The resolver calls back: the first address is pinged, or nothing more happens.
Resolved ==
    /\ \E r \in resolving :
         /\ resolving' = resolving \ {r}
         /\ \/ \E a \in Addresses : a.form = "v4" /\ Enqueue(r, a) /\ UNCHANGED unresolved
            \/ unresolved' = unresolved \cup {r} /\ UNCHANGED <<queue, refused>>
    /\ UNCHANGED <<requested, socket, nextPingId, outgoing, cache, pings, pongs,
                   socketErrors, expired, results, lapsed>>

--------------------------------------------------------------------------------
(* The worker. *)

RecreateSocket ==
    /\ ~socket
    /\ socket' = TRUE
    /\ UNCHANGED <<requested, resolving, queue, nextPingId, outgoing, cache, pings,
                   pongs, socketErrors, expired, results, unresolved, refused, lapsed>>

\* bindAny fails, and is tried again after 5 seconds.
RecreateSocketFails ==
    /\ ~socket /\ socketErrors < MaxSocketErrors
    /\ socketErrors' = socketErrors + 1
    /\ UNCHANGED <<requested, resolving, queue, socket, nextPingId, outgoing, cache,
                   pings, pongs, expired, results, unresolved, refused, lapsed>>

\* thrDoPing.
DoPing ==
    /\ socket /\ queue # <<>>
    /\ nextPingId' = nextPingId + 1
    /\ queue' = Tail(queue)
    /\ LET r == Head(queue)[1]
           a == Head(queue)[2]
       IN  \/ /\ outgoing' = outgoing \cup {[id |-> nextPingId + 1, request |-> r, late |-> FALSE]}
              /\ pings' = pings \cup
                     {[id |-> nextPingId + 1, host |-> a.host, form |-> a.form, known |-> IsCached(a)]}
              /\ UNCHANGED <<results, socketErrors>>
           \/ /\ socketErrors < MaxSocketErrors
              /\ socketErrors' = socketErrors + 1
              /\ CallBack(r, "errored")
              /\ UNCHANGED <<outgoing, pings>>
    /\ UNCHANGED <<requested, resolving, socket, cache, pongs, expired, unresolved, refused, lapsed>>

Without(id) == {p \in outgoing : p.id # id}

\* Mutant: the ping stays in the list.
DispatchResultAgain ==
    /\ socket
    /\ \E m \in pongs :
         /\ pongs' = pongs \ {m}
         /\ LET key == ToV6(m.from)
                protocols == IF m.protocols = "empty" /\ cache[key] # "none" THEN cache[key] ELSE m.protocols
            IN  \/ /\ \A p \in outgoing : p.id # m.id
                   /\ UNCHANGED <<outgoing, cache, results>>
                \/ \E p \in outgoing :
                     /\ p.id = m.id
                     /\ cache' = [cache EXCEPT ![key] = protocols]
                     /\ CallBack(p.request, protocols)
                     /\ UNCHANGED outgoing
    /\ UNCHANGED <<requested, resolving, queue, socket, nextPingId, pings, socketErrors,
                   expired, unresolved, refused, lapsed>>

\* thrDispatchResult: a pong for a ping that is no longer there is ignored.
DispatchResult ==
    /\ socket
    /\ \E m \in pongs :
         /\ pongs' = pongs \ {m}
         /\ LET key == ToV6(m.from)
                protocols == IF m.protocols = "empty" /\ cache[key] # "none" THEN cache[key] ELSE m.protocols
            IN  \/ /\ \A p \in outgoing : p.id # m.id
                   /\ UNCHANGED <<outgoing, cache, results>>
                \/ \E p \in outgoing :
                     /\ p.id = m.id
                     /\ cache' = [cache EXCEPT ![key] = protocols]
                     /\ CallBack(p.request, protocols)
                     /\ outgoing' = Without(m.id)
    /\ UNCHANGED <<requested, resolving, queue, socket, nextPingId, pings, socketErrors,
                   expired, unresolved, refused, lapsed>>

\* recvFrom fails: the socket is given up, and with it what was on its way to it.
ReceiveFails ==
    /\ socket /\ socketErrors < MaxSocketErrors
    /\ socketErrors' = socketErrors + 1
    /\ socket' = FALSE
    /\ pings' = {} /\ pongs' = {}
    /\ UNCHANGED <<requested, resolving, queue, nextPingId, outgoing, cache, expired,
                   results, unresolved, refused, lapsed>>

TimedOut(p) == p.late

\* Mutant: the callback is not called.
RemoveTimedOutPingsSilently ==
    /\ socket
    /\ \E p \in outgoing : TimedOut(p)
    /\ outgoing' = {p \in outgoing : ~TimedOut(p)}
    /\ UNCHANGED <<requested, resolving, queue, socket, nextPingId, cache, pings, pongs,
                   socketErrors, expired, results, unresolved, refused, lapsed>>

\* thrRemoveTimedOutPings.
RemoveTimedOutPings ==
    /\ socket
    /\ \E p \in outgoing : TimedOut(p)
    /\ results' = [r \in Requests |->
                     IF \E p \in outgoing : TimedOut(p) /\ p.request = r
                     THEN Append(results[r], "timedOut") ELSE results[r]]
    /\ outgoing' = {p \in outgoing : ~TimedOut(p)}
    /\ UNCHANGED <<requested, resolving, queue, socket, nextPingId, cache, pings, pongs,
                   socketErrors, expired, unresolved, refused, lapsed>>

--------------------------------------------------------------------------------
(* Time, the servers and the network. *)

\* Pings are overdue in the order in which they were sent.
Elapse ==
    /\ \E p \in outgoing :
         /\ ~TimedOut(p)
         /\ \A q \in outgoing : q.id < p.id => TimedOut(q)
         /\ outgoing' = (outgoing \ {p}) \cup {[p EXCEPT !.late = TRUE]}
    /\ UNCHANGED <<requested, resolving, queue, socket, nextPingId, cache, pings, pongs,
                   socketErrors, expired, results, unresolved, refused, lapsed>>

\* A server answers; the network may deliver the answer again.  The source of an IPv4 answer
\* may come in either form.
ServerAnswers ==
    /\ \E m \in pings, keep \in BOOLEAN, form \in {"v4", "v6"} :
         /\ m.form = "v6" => form = "v6"
         /\ Cardinality(pongs) < MaxPongs
         /\ pongs' = pongs \cup {[id |-> m.id, from |-> [host |-> m.host, form |-> form],
                                  protocols |-> IF m.known THEN "empty" ELSE "protocols"]}
         /\ pings' = IF keep THEN pings ELSE pings \ {m}
    /\ UNCHANGED <<requested, resolving, queue, socket, nextPingId, outgoing, cache,
                   socketErrors, expired, results, unresolved, refused, lapsed>>

\* An entry of the cache expires after 15 minutes, or is pushed out by the 129th.
Expire ==
    /\ expired < MaxExpired
    /\ expired' = expired + 1
    /\ \E a \in Addresses :
         /\ cache[a] # "none"
         /\ cache' = [cache EXCEPT ![a] = "none"]
         /\ lapsed' = \/ lapsed
                      \/ \E m \in pings : m.known /\ m.host = a.host
                      \/ \E m \in pongs : m.protocols = "empty" /\ m.from.host = a.host
    /\ UNCHANGED <<requested, resolving, queue, socket, nextPingId, outgoing, pings,
                   pongs, socketErrors, results, unresolved, refused>>

Worker == RecreateSocket \/ DoPing \/ DispatchResult \/ RemoveTimedOutPings

Next ==
    \/ Ping \/ PingUrl \/ Resolved
    \/ Worker \/ RecreateSocketFails \/ ReceiveFails
    \/ Elapse \/ ServerAnswers \/ Expire

Spec == Init /\ [][Next]_vars

(* The worker runs, also when there is always something else to do; the resolver calls    *)
(* back; time passes.  No server needs to answer.                                         *)
FairSpec ==
    /\ Spec
    /\ WF_vars(RecreateSocket) /\ SF_vars(DoPing) /\ SF_vars(RemoveTimedOutPings)
    /\ WF_vars(Resolved) /\ WF_vars(Elapse)

--------------------------------------------------------------------------------

\* The callback of a request is called at most once, however the pong, its duplicates, the
\* timeout and the errors of the socket come together; it is a move-only function that is
\* gone with its ping.
CalledOnce == \A r \in Requests : Len(results[r]) <= 1

\* An answer tells the protocols, unless an entry of the cache has gone while a ping that
\* relied on it was under way (the empty answer is then remembered, and spreads).
EmptyOnlyAfterLapse ==
    (\E r \in Requests : "empty" \in {results[r][i] : i \in DOMAIN results[r]}) => lapsed

\* Every request is called back, whatever the socket does and although no server answers,
\* unless its name was not found or the channel to the worker was full.
CalledBack ==
    \A r \in Requests : requested >= r ~> (results[r] # <<>> \/ r \in unresolved \cup refused)

\* Pinger.hpp: "The callback may never be invoked if DNS resolution fails, but timeouts will
\* still be handled": the first exception is the only one.
OnlyUnresolvedNotCalled ==
    \A r \in Requests : requested >= r ~> (results[r] # <<>> \/ r \in unresolved)

================================================================================
