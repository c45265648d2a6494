------------------------------ MODULE UdpReliable ------------------------------
(***************************************************************************)
(* Reliable messages over UDP: ReliableStore together with the paths of    *)
(* UdpTransport that call it (sendMessage, doSendUnfragmentedData,         *)
(* receiveMessageInner, processOne, handleTimerExpiry).                    *)
(*                                                                         *)
(* Two ends talk over a datagram network that loses, reorders and          *)
(* (optionally) duplicates packets.  Client is the code of this            *)
(* repository.  Server is the other end of the symmetric protocol; it is   *)
(* not part of the repository and is assumed to keep the same store.       *)
(*                                                                         *)
(* The application's n-th reliable message is the number n.  The wire      *)
(* carries n only through its message id, a uint16_t that skips 0, so `k`  *)
(* below is the payload and `id` what the store looks at.                  *)
(***************************************************************************)
EXTENDS Integers, Sequences, FiniteSets

CONSTANTS
    Client, Server, \* the two ends
    IdModulus,      \* number of uint16_t values                   (65536)
    DupWindow,      \* how far behind an id still is a duplicate   (16384)
    AckBatch,       \* acks one reliability header carries         (8)
    OooCap,         \* capacity of the out-of-order store          (32)
    UnackedCap,     \* capacity of the store of unacked messages   (64)
    RetransmitCap,  \* retransmissions before a message is given up (10)
    MaxBatch,       \* bound: messages packed in one datagram
    MaxReliable,    \* bound: reliable ones among them
    MaxSends,       \* bound: reliable messages each end sends
    Undecodable,    \* per end, the messages it sends that fail to decode
    Duplicates      \* whether the network duplicates packets

Peer == {Client, Server}

Other(p) == IF p = Client THEN Server ELSE Client

ASSUME PeerAssumption == Client # Server

ASSUME LimitAssumption ==
    /\ IdModulus \in Nat /\ IdModulus > 1
    /\ DupWindow \in Nat
    /\ AckBatch \in Nat \ {0}
    /\ OooCap \in Nat
    /\ UnackedCap \in Nat
    /\ RetransmitCap \in Nat
    /\ MaxBatch \in Nat \ {0}
    /\ MaxReliable \in Nat \ {0}
    /\ MaxSends \in [Peer -> Nat]
    /\ Undecodable \in [Peer -> SUBSET Nat]
    /\ Duplicates \in BOOLEAN

VARIABLES
    net,            \* packets in flight
    failed,         \* the transport of this end returned a fatal error
    (* outgoing half of the store *)
    sent,           \* reliable messages sent so far
    nextLocalId,    \* m_nextLocalId
    localUnacked,   \* m_localUnacked; the deque is ordered by k
    (* incoming half of the store *)
    nextRemoteId,   \* m_nextRemoteId
    remoteUnacked,  \* m_remoteUnacked, oldest first
    outOfOrder,     \* m_remoteOutOfOrder; ids in it are unique
    delayed,        \* m_remoteDelayedQueue
    (* UdpTransport *)
    rx,             \* messages of the datagram being processed
    toReturn,       \* the message receiveMessageInner will return, if any
    pending,        \* m_pendingMessages
    (* application *)
    delivered       \* reliable messages handed to the application

outVars   == <<sent, nextLocalId, localUnacked>>
storeVars == <<nextRemoteId, remoteUnacked, outOfOrder, delayed>>
recvVars  == <<rx, toReturn, pending>>
vars      == <<net, failed, outVars, storeVars, recvVars, delivered>>

--------------------------------------------------------------------------------
(* Ids, packets and queues *)

\* m_nextLocalId++ and m_nextRemoteId++ on uint16_t, skipping 0.
NextId(id) == IF id + 1 = IdModulus THEN 1 ELSE id + 1

\* The id reached from id by n increments, for n below the modulus.
IdAfter(id, n) == IF id + n < IdModulus THEN id + n ELSE id + n - IdModulus + 1

\* A message with payload k: 0 stands for data that is not reliable, among it
\* the explicit ack message, which has no data at all.
Packet(p, id, k, acks) == [src |-> p, id |-> id, k |-> k, acks |-> acks]

\* No message to return yet (std::nullopt).
None == -1

Least(a, b) == IF a < b THEN a ELSE b

\* setOutgoingAcks takes this many ids from the front of the deque.
AckCount(p) == Least(AckBatch, Len(remoteUnacked[p]))

OutgoingAcks(p) == {remoteUnacked[p][i] : i \in 1..AckCount(p)}

RestAfterAcks(p) == SubSeq(remoteUnacked[p], AckCount(p) + 1, Len(remoteUnacked[p]))

OooIds(p) == {m.id : m \in outOfOrder[p]}

\* The worker of an end handles one event at a time: while a datagram is being
\* processed nothing else runs on that end.
Idle(p) == ~failed[p] /\ rx[p] = <<>>

--------------------------------------------------------------------------------
(* Sending *)

\* sendMessage of a reliable data message: acks first, then the id, then the
\* datagram, and only then the store, which may be full.
SendReliable(p) ==
    /\ Idle(p)
    /\ sent[p] < MaxSends[p]
    /\ LET k   == sent[p] + 1
           id  == nextLocalId[p]
           acks == OutgoingAcks(p)
       IN  /\ sent' = [sent EXCEPT ![p] = k]
           /\ nextLocalId' = [nextLocalId EXCEPT ![p] = NextId(id)]
           /\ remoteUnacked' = [remoteUnacked EXCEPT ![p] = RestAfterAcks(p)]
           /\ net' = net \cup {Packet(p, id, k, acks)}
           /\ \/ /\ Cardinality(localUnacked[p]) < UnackedCap
                 /\ localUnacked' = [localUnacked EXCEPT ![p] =
                       @ \cup {[id |-> id, k |-> k, acks |-> acks, attempts |-> 0]}]
                 /\ UNCHANGED failed
              \/ /\ Cardinality(localUnacked[p]) >= UnackedCap   \* TooUnreliable
                 /\ failed' = [failed EXCEPT ![p] = TRUE]
                 /\ UNCHANGED localUnacked
    /\ UNCHANGED <<nextRemoteId, outOfOrder, delayed, recvVars, delivered>>

\* sendMessage of a data message that is not reliable: it still takes acks along.
SendUnreliable(p) ==
    /\ Idle(p)
    /\ remoteUnacked' = [remoteUnacked EXCEPT ![p] = RestAfterAcks(p)]
    /\ net' = net \cup {Packet(p, 0, 0, OutgoingAcks(p))}
    /\ UNCHANGED <<failed, outVars, nextRemoteId, outOfOrder, delayed, recvVars, delivered>>

\* A send or receive on the socket fails; every socket error is fatal.
SocketError(p) ==
    /\ ~failed[p]
    /\ failed' = [failed EXCEPT ![p] = TRUE]
    /\ UNCHANGED <<net, outVars, storeVars, recvVars, delivered>>

--------------------------------------------------------------------------------
(* handleTimerExpiry.  Clocks are abstracted: any message may be due for       *)
(* retransmission and any queued ack may have become urgent.                   *)

\* The due messages up to, and not including, the first one that has used up its
\* retransmissions.
Retransmitted(due) ==
    {m \in due : \A e \in due : e.attempts >= RetransmitCap => m.k < e.k}

RetransmittedPackets(p, due) ==
    {Packet(p, m.id, m.k, m.acks) : m \in Retransmitted(due)}

\* Every due message is sent again, with the acks of its first transmission, and
\* an explicit ack message follows when some ack has waited for 50ms.
RetransmitAndAck(p, due, urgent) ==
    /\ Retransmitted(due) = due
    /\ localUnacked' = [localUnacked EXCEPT ![p] =
          (@ \ due) \cup {[m EXCEPT !.attempts = @ + 1] : m \in due}]
    /\ IF urgent
       THEN /\ net' = net \cup RetransmittedPackets(p, due)
                          \cup {Packet(p, 0, 0, OutgoingAcks(p))}
            /\ remoteUnacked' = [remoteUnacked EXCEPT ![p] = RestAfterAcks(p)]
       ELSE /\ net' = net \cup RetransmittedPackets(p, due)
            /\ UNCHANGED remoteUnacked
    /\ UNCHANGED failed

\* Some due message was retransmitted RetransmitCap times already: TooUnreliable.
GiveUp(p, due) ==
    /\ Retransmitted(due) # due
    /\ net' = net \cup RetransmittedPackets(p, due)
    /\ failed' = [failed EXCEPT ![p] = TRUE]
    /\ UNCHANGED <<localUnacked, remoteUnacked>>

TimerExpiry(p) ==
    /\ Idle(p)
    /\ \E due \in SUBSET localUnacked[p], urgent \in BOOLEAN :
          /\ due # {} \/ urgent
          /\ urgent => remoteUnacked[p] # <<>>
          /\ RetransmitAndAck(p, due, urgent) \/ GiveUp(p, due)
    /\ UNCHANGED <<sent, nextLocalId, nextRemoteId, outOfOrder, delayed, recvVars, delivered>>

--------------------------------------------------------------------------------
(* Receiving *)

\* Mutant: a datagram is read although restored messages wait to be fetched.
RecvBeforeDelayed(p) ==
    /\ Idle(p)
    /\ pending[p] = <<>>
    /\ \E m \in {m \in net : m.src = Other(p)} : rx' = [rx EXCEPT ![p] = <<m>>]
    /\ UNCHANGED <<net, failed, outVars, storeVars, toReturn, pending, delivered>>

\* A server may pack messages into one datagram, the client does not.
Packed(p) == IF p = Client THEN MaxBatch ELSE 1

\* receiveMessageInner with nothing queued: take a datagram from the socket.
RecvDatagram(p) ==
    /\ Idle(p)
    /\ pending[p] = <<>>
    /\ delayed[p] = <<>>
    /\ \E n \in 1..Packed(p) :
       \E d \in [1..n -> {m \in net : m.src = Other(p)}] :
          /\ Duplicates \/ \A i, j \in 1..n : d[i] = d[j] => i = j
          /\ Cardinality({i \in 1..n : d[i].id # 0}) <= MaxReliable
          /\ rx' = [rx EXCEPT ![p] = d]
          /\ net' = IF Duplicates THEN net ELSE net \ {d[i] : i \in 1..n}
    /\ UNCHANGED <<failed, outVars, storeVars, toReturn, pending, delivered>>

\* The datagram is abandoned: what was to be returned is dropped with it.
DropDatagram(p) ==
    /\ rx' = [rx EXCEPT ![p] = <<>>]
    /\ toReturn' = [toReturn EXCEPT ![p] = None]
    /\ UNCHANGED <<pending, delivered>>

\* Mutant: the message is handed over without a look at whether there is one.
HandedUnchecked(p, k) == [delivered EXCEPT ![p] = Append(@, k)]

\* Hand a message over to the application (Connection drops empty data).
Handed(p, k) ==
    IF k > 0 THEN [delivered EXCEPT ![p] = Append(@, k)] ELSE delivered

\* processOne returned nothing: go on with the datagram, or return.
SkipMessage(p) ==
    /\ rx' = [rx EXCEPT ![p] = Tail(@)]
    /\ IF Tail(rx[p]) = <<>>
       THEN /\ toReturn' = [toReturn EXCEPT ![p] = None]
            /\ delivered' = Handed(p, toReturn[p])
       ELSE UNCHANGED <<toReturn, delivered>>
    /\ UNCHANGED pending

\* processOne returned a message: the first of the datagram is returned to the
\* caller, the others go to m_pendingMessages.
ReturnMessage(p, k) ==
    /\ rx' = [rx EXCEPT ![p] = Tail(@)]
    /\ LET first == IF toReturn[p] = None THEN k ELSE toReturn[p]
       IN  IF Tail(rx[p]) = <<>>
           THEN /\ toReturn' = [toReturn EXCEPT ![p] = None]
                /\ delivered' = Handed(p, first)
           ELSE /\ toReturn' = [toReturn EXCEPT ![p] = first]
                /\ UNCHANGED delivered
    /\ pending' = IF toReturn[p] = None THEN pending
                  ELSE [pending EXCEPT ![p] = Append(@, k)]

\* decodePreFinalDataMessage of an accepted message.
DecodeAndReturn(p, m) ==
    \/ m.k \notin Undecodable[m.src] /\ ReturnMessage(p, m.k)
    \/ m.k \in Undecodable[m.src] /\ DropDatagram(p)

\* Mutant: an ack removes the oldest message, whichever it names.
AckOldest(p, m) ==
    localUnacked' = [localUnacked EXCEPT ![p] =
       {u \in @ : m.acks # {} => \E v \in localUnacked[p] : v.k < u.k}]

\* processAcks: forget the local messages the header acknowledges.
AckLocal(p, m) ==
    localUnacked' = [localUnacked EXCEPT ![p] = {u \in @ : u.id \notin m.acks}]

IsDuplicate(p, m) == m.id < nextRemoteId[p] /\ nextRemoteId[p] - m.id < DupWindow

\* How many stored messages follow on from `next` without a gap.
IsRun(p, next, n) ==
    /\ \A i \in 0..(n - 1) : IdAfter(next, i) \in OooIds(p)
    /\ IdAfter(next, n) \notin OooIds(p)

\* pushRemoteUnackedWithId(id) once nextRemoteId is `next`, and the calls of
\* maybeRestoreRemote and pushRemoteUnacked that follow one another from there.
PushRemoteUnacked(p, id, next) ==
    \E n \in 0..OooCap :
       /\ IsRun(p, next, n)
       /\ nextRemoteId' = [nextRemoteId EXCEPT ![p] = IdAfter(next, n)]
       /\ remoteUnacked' = [remoteUnacked EXCEPT ![p] =
             Append(@, id) \o [i \in 1..n |-> IdAfter(next, i - 1)]]
       /\ delayed' = [delayed EXCEPT ![p] = @ \o
             [i \in 1..n |-> CHOOSE m \in outOfOrder[p] : m.id = IdAfter(next, i - 1)]]
       /\ outOfOrder' = [outOfOrder EXCEPT ![p] =
             {m \in @ : \A i \in 0..(n - 1) : m.id # IdAfter(next, i)}]

\* Data that is not reliable: only its acks matter to the store.
AcceptUnreliable(p, m) ==
    /\ m.id = 0
    /\ DecodeAndReturn(p, m)
    /\ UNCHANGED <<storeVars, failed>>

\* Seen before: our ack may have been lost, so acknowledge it again.
RejectDuplicate(p, m) ==
    /\ m.id # 0
    /\ IsDuplicate(p, m)
    /\ IF \E i \in DOMAIN remoteUnacked[p] : remoteUnacked[p][i] = m.id
       THEN UNCHANGED storeVars
       ELSE PushRemoteUnacked(p, m.id, nextRemoteId[p])
    /\ SkipMessage(p)
    /\ UNCHANGED failed

\* Ahead of what is expected: keep it until the gap is filled.
StoreOutOfOrder(p, m) ==
    /\ m.id # 0
    /\ ~IsDuplicate(p, m)
    /\ m.id # nextRemoteId[p]
    /\ \/ /\ Cardinality(outOfOrder[p]) >= OooCap   \* TooUnreliable
          /\ failed' = [failed EXCEPT ![p] = TRUE]
          /\ DropDatagram(p)
          /\ UNCHANGED outOfOrder
       \/ /\ Cardinality(outOfOrder[p]) < OooCap
          /\ outOfOrder' = [outOfOrder EXCEPT ![p] =
                IF m.id \in OooIds(p) THEN @ ELSE @ \cup {m}]
          /\ SkipMessage(p)
          /\ UNCHANGED failed
    /\ UNCHANGED <<nextRemoteId, remoteUnacked, delayed>>

\* Mutant: any message that is not a duplicate is accepted.
AcceptAhead(p, m) ==
    /\ m.id # 0
    /\ ~IsDuplicate(p, m)
    /\ PushRemoteUnacked(p, m.id, NextId(m.id))
    /\ DecodeAndReturn(p, m)
    /\ UNCHANGED failed

\* The expected message: accept it.
AcceptReliable(p, m) ==
    /\ m.id # 0
    /\ m.id = nextRemoteId[p]
    /\ PushRemoteUnacked(p, m.id, NextId(m.id))
    /\ DecodeAndReturn(p, m)
    /\ UNCHANGED failed

\* One turn of the loop over the messages of a datagram.
ProcessOne(p) ==
    /\ ~failed[p]
    /\ rx[p] # <<>>
    /\ LET m == Head(rx[p])
       IN  /\ AckLocal(p, m)
           /\ \/ AcceptUnreliable(p, m)
              \/ RejectDuplicate(p, m)
              \/ StoreOutOfOrder(p, m)
              \/ AcceptReliable(p, m)
    /\ UNCHANGED <<net, sent, nextLocalId>>

\* receiveMessageInner takes a message left over from an earlier datagram first.
PopPending(p) ==
    /\ Idle(p)
    /\ pending[p] # <<>>
    /\ pending' = [pending EXCEPT ![p] = Tail(@)]
    /\ delivered' = Handed(p, Head(pending[p]))
    /\ UNCHANGED <<net, failed, outVars, storeVars, rx, toReturn>>

\* Then a message restored from the out-of-order store, decoded only now.
PopDelayed(p) ==
    /\ Idle(p)
    /\ pending[p] = <<>>
    /\ delayed[p] # <<>>
    /\ LET m == Head(delayed[p])
       IN  delivered' = IF m.k \in Undecodable[m.src] THEN delivered ELSE Handed(p, m.k)
    /\ delayed' = [delayed EXCEPT ![p] = Tail(@)]
    /\ UNCHANGED <<net, failed, outVars, nextRemoteId, remoteUnacked, outOfOrder, recvVars>>

--------------------------------------------------------------------------------

Init ==
    /\ net = {}
    /\ failed = [p \in Peer |-> FALSE]
    /\ sent = [p \in Peer |-> 0]
    /\ nextLocalId = [p \in Peer |-> 1]
    /\ localUnacked = [p \in Peer |-> {}]
    /\ nextRemoteId = [p \in Peer |-> 1]
    /\ remoteUnacked = [p \in Peer |-> <<>>]
    /\ outOfOrder = [p \in Peer |-> {}]
    /\ delayed = [p \in Peer |-> <<>>]
    /\ rx = [p \in Peer |-> <<>>]
    /\ toReturn = [p \in Peer |-> None]
    /\ pending = [p \in Peer |-> <<>>]
    /\ delivered = [p \in Peer |-> <<>>]

Next ==
    \E p \in Peer :
       \/ SendReliable(p)
       \/ SendUnreliable(p)
       \/ SocketError(p)
       \/ TimerExpiry(p)
       \/ RecvDatagram(p)
       \/ ProcessOne(p)
       \/ PopPending(p)
       \/ PopDelayed(p)

Spec == Init /\ [][Next]_vars

--------------------------------------------------------------------------------
(* Fairness.  The worker task runs: a datagram is processed to its end and     *)
(* queued messages are fetched.  Retransmission and ack timers only become     *)
(* more overdue, and the worker returns to its select after every event.       *)

RetryOrGiveUp(p, k) ==
    /\ \E m \in localUnacked[p] : m.k = k
    /\ TimerExpiry(p)
    /\ failed'[p] \/ \A m \in localUnacked[p] : m.k = k => m \notin localUnacked'[p]

SendAcks(p) ==
    /\ TimerExpiry(p)
    /\ remoteUnacked'[p] # remoteUnacked[p]

Fairness ==
    \A p \in Peer :
       /\ WF_vars(ProcessOne(p) \/ PopPending(p) \/ PopDelayed(p))
       /\ SF_vars(SendAcks(p))
       /\ \A k \in 1..MaxSends[p] : SF_vars(RetryOrGiveUp(p, k))

FairSpec == Spec /\ Fairness

--------------------------------------------------------------------------------
(* Properties *)

Packets ==
    [src : Peer, id : Nat, k : Nat, acks : SUBSET Nat]

Unacked ==
    [id : Nat, k : Nat, acks : SUBSET Nat, attempts : Nat]

\* Every variable has its type; ids stay nonzero and below the modulus.
TypeOK ==
    /\ net \in SUBSET Packets
    /\ failed \in [Peer -> BOOLEAN]
    /\ sent \in [Peer -> Nat]
    /\ nextLocalId \in [Peer -> 1..(IdModulus - 1)]
    /\ localUnacked \in [Peer -> SUBSET Unacked]
    /\ nextRemoteId \in [Peer -> 1..(IdModulus - 1)]
    /\ remoteUnacked \in [Peer -> Seq(Nat)]
    /\ outOfOrder \in [Peer -> SUBSET Packets]
    /\ delayed \in [Peer -> Seq(Packets)]
    /\ rx \in [Peer -> Seq(Packets)]
    /\ toReturn \in [Peer -> Nat \cup {None}]
    /\ pending \in [Peer -> Seq(Nat)]
    /\ delivered \in [Peer -> Seq(Nat)]

\* The reliable messages end p has accepted: handed over or queued for it.
Accounted(p) ==
    {delivered[p][i] : i \in DOMAIN delivered[p]}
       \cup {pending[p][i] : i \in DOMAIN pending[p]}
       \cup {delayed[p][i].k : i \in DOMAIN delayed[p]}
       \cup {toReturn[p]}

\* Reliable messages reach the application in the order in which they were sent
\* and none arrives twice, whatever the network does to the datagrams and the
\* acks (handleIncoming, maybeRestoreRemote, receiveMessageInner).
InOrder ==
    \A p \in Peer : \A i, j \in DOMAIN delivered[p] :
       i < j => delivered[p][i] < delivered[p][j]

\* A sender forgets a message only when the other end has accepted it: while the
\* connection lives, a reliable message is in m_localUnacked or was accepted
\* (ackLocal, setOutgoingAcks; stale acks repeated by retransmissions included).
ForgottenOnlyIfAccepted ==
    \A p \in Peer : \A k \in 1..sent[p] :
       \/ failed[p]
       \/ \E m \in localUnacked[p] : m.k = k
       \/ k < nextRemoteId[Other(p)]

\* No accepted message is queued or handed over a second time, also when several
\* arrive in one datagram.
AtMostOnce ==
    \A p \in Peer :
       /\ \A i, j \in DOMAIN delivered[p] : i # j => delivered[p][i] # delivered[p][j]
       /\ \A i \in DOMAIN delivered[p] :
             /\ \A j \in DOMAIN pending[p] : delivered[p][i] # pending[p][j]
             /\ \A j \in DOMAIN delayed[p] : delivered[p][i] # delayed[p][j].k
             /\ delivered[p][i] # toReturn[p]

\* Accepting a message acknowledges it, so it must not get lost afterwards: every
\* accepted message that can be decoded was handed over or is in a queue.
NoSilentLoss ==
    \A p \in Peer : ~failed[p] =>
       \A k \in 1..(nextRemoteId[p] - 1) :
          k \in Accounted(p) \cup Undecodable[Other(p)]

\* The expected message never sits in the out-of-order store, where only a later
\* message could free it (maybeRestoreRemote).
NoStuckMessage ==
    \A p \in Peer : nextRemoteId[p] \notin OooIds(p)

\* What was accepted once is recognised as a duplicate when it comes again, and
\* acknowledged again; it is not kept for later (handleIncoming, isDuplicate).
DuplicatesRecognised ==
    \A p \in Peer : \A m \in outOfOrder[p] : m.k \notin Accounted(p)

\* The weaker half of it, for what the sender is still waiting for: when our ack
\* was lost, the message that comes again is acknowledged again.
LostAckRepeated ==
    \A p \in Peer : \A m \in outOfOrder[p] : \A u \in localUnacked[Other(p)] :
       ~(u.k = m.k /\ m.k \in Accounted(p))

Download == INSTANCE ReliableChannel
               WITH sent <- sent[Server], delivered <- delivered[Client]

Upload == INSTANCE ReliableChannel
             WITH sent <- sent[Client], delivered <- delivered[Server]

\* Each direction implements the abstract in-order channel.
ChannelRefinement == Download!Spec /\ Upload!Spec

\* Every reliable message that can be decoded is handed to the other application,
\* unless one of the ends gives the connection up (retransmission, delayed and
\* explicit acks).  As the ends send only so many, all are delivered at last.
EventuallyDelivered ==
    []<>(\/ \E p \in Peer : failed[p]
         \/ \A p \in Peer : \A k \in (1..sent[p]) \ Undecodable[p] :
               \E i \in DOMAIN delivered[Other(p)] : delivered[Other(p)][i] = k)

================================================================================
