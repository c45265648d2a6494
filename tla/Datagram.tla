-------------------------------- MODULE Datagram --------------------------------
(***************************************************************************)
(* The format of a UDP datagram.  Several messages may share one, each     *)
(* found only by adding up the lengths of the fields before it:            *)
(* QunetUdpMessageIter and decodeMeta walk over them, the decoders of      *)
(* messages.hpp read their fields, receiveMessageInner hands out the first *)
(* message and queues the others, but for those the reliable store drops   *)
(* or holds back.  A byte knows the field it is part of, so that a         *)
(* position that is off by one does not go unnoticed.  Reassembly is       *)
(* FragmentStore's business; acks and the network are UdpReliable's: here  *)
(* a server may put any message into any datagram, so that ids come early, *)
(* late and twice.                                                         *)
(***************************************************************************)
EXTENDS Integers, Sequences, SequencesExt, FiniteSets

CONSTANTS
    OooCap,         \* what the out-of-order store holds (32)
    DownMessages,   \* what a server sends
    UpMessages,     \* what the client sends
    ConnectionIds,  \* m_connectionId; 0 before the handshake
    MaxPacked,      \* bound: messages in a datagram
    MaxDatagrams    \* bound: datagrams

\* The lengths a field of two bytes can hold.
Sizes == {n \in Nat : n < 65536}

ControlTypes ==
    {"Keepalive", "KeepaliveResponse", "HandshakeStart", "HandshakeFinish", "HandshakeFailure",
     "ServerClose", "ClientClose", "ClientReconnect", "ConnectionError", "ConnectionControl",
     "ReconnectSuccess", "ReconnectFailure", "Pong", "Padding", "Unknown"}

\* The code is the one a message carries, the size that of its text.
ControlMessages == [type : ControlTypes, code : Nat, size : Sizes]

\* The size is that of the payload; a header that a message lacks is 0, <<>> or FALSE.
DataMessages ==
    [type : {"Data"}, comp : Nat, rel : Seq(Nat), frag : Nat, boundary : BOOLEAN, size : Sizes]

ASSUME DatagramAssumption ==
    /\ ConnectionIds \subseteq Nat /\ MaxPacked \in Nat \ {0} /\ MaxDatagrams \in Nat
    /\ OooCap \in Nat
    /\ DownMessages \cup UpMessages \subseteq ControlMessages \cup DataMessages

VARIABLES
    datagram,    \* the bytes being read
    incoming,    \* the client reads them; else its server does
    m_server,    \* of the iterator: a connection id is expected in the first message
    m_pos,       \* of QunetUdpMessageIter
    packed,      \* what was put into the datagram
    items,       \* what the iterator has found in it
    failed,      \* reading it has ended with an error
    stage,       \* "idle", "packing" at the server, "reading": receiveMessageInner is in its loop,
                 \* "closed": TooUnreliable
    toReturn, m_pendingMessages,
    nextRemoteId,   \* of ReliableStore
    outOfOrder,  \* [ids -> messages], m_remoteOutOfOrder
    delayed,     \* m_remoteDelayedQueue
    delivered,   \* what receiveMessage has returned
    due,         \* what it should have returned
    late,        \* what became due with the datagram being read, but has come before
    got,         \* [ids -> messages]: the reliable messages that have come
    count        \* datagrams so far

storeVars == <<nextRemoteId, outOfOrder, delayed>>
dueVars == <<due, late, got>>

datagramVars ==
    <<datagram, incoming, m_server, m_pos, packed, items, failed, stage, toReturn,
      m_pendingMessages, storeVars, delivered, dueVars, count>>

--------------------------------------------------------------------------------

\* A field of so many bytes, and bytes without a meaning.
Field(width, value) == [k \in 1..width |-> [width |-> width, part |-> k, value |-> value]]
Payload(size) == [k \in 1..size |-> [width |-> 0, part |-> k, value |-> 0]]

\* Fields of two bytes, one behind the other.
Shorts(values) ==
    [k \in 1..(2 * Len(values)) |->
        [width |-> 2, part |-> IF k % 2 = 1 THEN 1 ELSE 2, value |-> values[(k + 1) \div 2]]]

Garbage == 65535

\* readU16 and its like, from the at-th byte: right only where such a field begins.
Read(bytes, at, width) ==
    IF at + width - 1 <= Len(bytes) /\ bytes[at].part = 1 /\ bytes[at].width = width
    THEN bytes[at].value ELSE Garbage

Sized(size) == Field(2, size) \o Payload(size)

\* The fields of a control message, as encode and decode of its struct have them.
KeepaliveBody(m) ==
    Field(8, 0) \o IF m.type = "Keepalive" THEN Field(1, 0) ELSE Sized(m.size)

HandshakeBody(m) ==
    CASE m.type = "HandshakeStart" -> Field(2, 1) \o Field(2, 2) \o Field(2, 0) \o Payload(16)
      [] m.type = "HandshakeFinish" ->
            Field(8, 0) \o Field(1, m.code)
              \o IF m.code = 0 THEN <<>>
                 ELSE Field(4, 0) \o Field(4, 0) \o Field(4, 0) \o Field(4, m.size) \o Payload(m.size)
      [] m.type = "HandshakeFailure" -> Field(4, m.code) \o IF m.code = 0 THEN Sized(m.size) ELSE <<>>

Body(m) ==
    CASE m.type \in {"Keepalive", "KeepaliveResponse"} -> KeepaliveBody(m)
      [] m.type \in {"HandshakeStart", "HandshakeFinish", "HandshakeFailure"} -> HandshakeBody(m)
      [] m.type = "ServerClose" -> Field(4, m.code) \o IF m.code = 0 THEN Sized(m.size) ELSE <<>>
      [] m.type = "Pong" -> Field(4, 0) \o Field(1, m.code) \o Payload(3 * m.code) \o Sized(m.size)
      [] m.type = "ClientClose" -> Field(1, 0)
      [] m.type = "ClientReconnect" -> Field(8, 0)
      [] m.type = "ConnectionError" -> Field(4, m.code)
      [] m.type = "ConnectionControl" ->
            Field(2, m.code) \o IF m.code = 1 THEN Field(2, m.size) ELSE Sized(m.size)
      [] m.type \in {"ReconnectSuccess", "ReconnectFailure"} -> <<>>
      [] m.type \in {"Padding", "Unknown"} -> Payload(m.size)

\* The first byte: the type, or the bits of a data message.
HeaderBits(m) ==
    IF m.type # "Data" THEN [type |-> m.type]
    ELSE [type |-> "Data", comp |-> m.comp # 0, rel |-> m.rel # <<>>, frag |-> m.frag # 0,
          boundary |-> m.boundary]

HeaderByte(m) == <<[width |-> 1, part |-> 0, value |-> HeaderBits(m)]>>

CompHeader(m) == IF m.comp # 0 THEN Field(4, m.comp) ELSE <<>>
ConnId(id) == IF id # 0 THEN Field(8, id) ELSE <<>>

\* The reliability header is <<id, acknowledgements ...>>.
RelHeader(m) ==
    IF m.rel = <<>> THEN <<>>
    ELSE Field(2, m.rel[1]) \o Field(2, Len(m.rel) - 1) \o Shorts(Tail(m.rel))

FragHeader(m) == IF m.frag # 0 THEN Field(2, m.frag) \o Field(2, 0) ELSE <<>>
Boundary(m) == IF m.boundary THEN Field(2, m.size) ELSE <<>>

\* What a server writes.
ServerEncode(m) ==
    HeaderByte(m)
      \o IF m.type # "Data" THEN Body(m)
         ELSE CompHeader(m) \o RelHeader(m) \o FragHeader(m) \o Boundary(m) \o Payload(m.size)

MinimumUdpPayload == 22
PaddingOf(size) == [type |-> "Padding", code |-> 0, size |-> size]

\* padMessageToMinimum; for the reader the padding is one more message.
PaddingFor(bytes) == PaddingOf(MinimumUdpPayload - Len(bytes) - 1)

EncodeControlMsg(m, id) == HeaderByte(m) \o ConnId(id) \o Body(m)

\* encodeDataHeader, the fragmentation header of a fragment, and the data.
EncodeData(m, id) ==
    HeaderByte(m) \o CompHeader(m) \o ConnId(id) \o RelHeader(m) \o FragHeader(m) \o Payload(m.size)

--------------------------------------------------------------------------------

Invalid == -1

\* How long a control message is, from its type and the lengths in it.
LengthForNonDataMessage(type, bytes) ==
    CASE type = "KeepaliveResponse" -> 8 + 2 + Read(bytes, 9, 2)
      [] type = "HandshakeFinish" ->
            8 + 1 + IF Read(bytes, 9, 1) = 0 THEN 0 ELSE 12 + 4 + Read(bytes, 22, 4)
      [] type \in {"HandshakeFailure", "ServerClose"} ->
            4 + IF Read(bytes, 1, 4) = 0 THEN 2 + Read(bytes, 5, 2) ELSE 0
      [] type = "ConnectionError" -> 4
      [] type \in {"ReconnectSuccess", "ReconnectFailure"} -> 0
      [] type = "ConnectionControl" ->
            CASE Read(bytes, 1, 2) = 1 -> 2 + 2
              [] Read(bytes, 1, 2) = 64 -> 2 + 2 + Read(bytes, 3, 2)
              [] OTHER -> Invalid
      [] type = "Pong" ->
            LET protocols == Read(bytes, 5, 1)
            IN  4 + 1 + 3 * protocols + 2 + Read(bytes, 6 + 3 * protocols, 2)
      [] type = "QdbChunkResponse" -> 4 + 4 + Read(bytes, 5, 4)
      [] type = "Ping" -> 5
      [] type = "Keepalive" -> 9
      [] type = "HandshakeStart" -> 2 + 2 + 2 + 16
      [] type = "ClientClose" -> 1
      [] type \in {"ClientReconnect", "QdbChunkRequest"} -> 8
      [] type = "Padding" -> Len(bytes)
      [] OTHER -> Invalid

Error == [ok |-> FALSE]

\* Mutant: the connection id is not counted.
ControlMetaWithoutId(type, start, bytes) ==
    LET size == LengthForNonDataMessage(type, bytes)
    IN  IF size = Invalid \/ Len(bytes) < size THEN Error
        ELSE [ok |-> TRUE, type |-> type, data |-> SubSeq(bytes, 1, size), dataOffset |-> 1]

\* A control message.
ControlMeta(type, start, bytes) ==
    LET size == LengthForNonDataMessage(type, bytes)
    IN  IF size = Invalid \/ Len(bytes) < size THEN Error
        ELSE [ok |-> TRUE, type |-> type, data |-> SubSeq(bytes, 1, size), dataOffset |-> start]

\* A data message: its headers, and the rest of the datagram or as much as the boundary says.
DataMeta(bits, start, bytes) ==
    LET comp == IF bits.comp THEN 4 ELSE 0
        ackCount == IF bits.rel THEN Read(bytes, comp + 3, 2) ELSE 0
        acksRead == IF ackCount < 8 THEN ackCount ELSE 8
        rel == IF bits.rel THEN 4 + 2 * acksRead ELSE 0
        frag == IF bits.frag THEN 4 ELSE 0
        bound == IF bits.boundary THEN 2 ELSE 0
        begin == comp + rel + frag + bound
        rest == SubSeq(bytes, begin + 1, Len(bytes))
        size == IF bits.boundary THEN Read(bytes, begin - 1, 2) ELSE Len(rest)
    IN  IF Len(bytes) < begin \/ Len(rest) < size THEN Error
        ELSE [ok |-> TRUE, type |-> "Data",
              comp |-> IF bits.comp THEN Read(bytes, 1, 4) ELSE 0,
              rel |-> IF bits.rel
                      THEN <<Read(bytes, comp + 1, 2)>>
                             \o [k \in 1..acksRead |-> Read(bytes, comp + 3 + 2 * k, 2)]
                      ELSE <<>>,
              frag |-> IF bits.frag THEN Read(bytes, comp + rel + 1, 2) ELSE 0,
              data |-> SubSeq(rest, 1, size),
              dataOffset |-> start + comp + (IF bits.rel THEN 4 + 2 * ackCount ELSE 0) + frag + bound]

DecodeMeta(bytes, udpConnId) ==
    LET start == IF udpConnId THEN 9 ELSE 1
        header == bytes[1].value
        rest == SubSeq(bytes, start + 1, Len(bytes))
    IN  IF Len(bytes) < start \/ bytes[1].part # 0 THEN Error
        ELSE IF header.type = "Data" THEN DataMeta(header, start, rest)
        ELSE ControlMeta(header.type, start, rest)

\* decodeWithMeta: the client knows some of the types, and how to read them.
DecodeWithMeta(item) ==
    LET Number(at, width) == Read(item.data, at, width)
        Message(code, size) == [ok |-> TRUE, type |-> item.type, code |-> code, size |-> size]
    IN  CASE item.type = "Keepalive" -> Message(0, 0)
          [] item.type = "KeepaliveResponse" -> Message(0, Number(9, 2))
          [] item.type = "HandshakeFinish" ->
                IF Number(9, 1) = 0 THEN Message(0, 0) ELSE Message(1, Number(22, 4))
          [] item.type \in {"HandshakeFailure", "ServerClose"} ->
                IF Number(1, 4) = 0 THEN Message(0, Number(5, 2)) ELSE Message(Number(1, 4), 0)
          [] item.type = "ConnectionError" -> Message(Number(1, 4), 0)
          [] item.type \in {"ReconnectSuccess", "ReconnectFailure", "Padding"} -> Message(0, 0)
          [] item.type = "ConnectionControl" -> Message(Number(1, 2) % 256, Number(3, 2))
          [] OTHER -> Error

--------------------------------------------------------------------------------

DatagramInit ==
    /\ datagram = <<>> /\ incoming = FALSE /\ m_server = FALSE /\ m_pos = 0 /\ packed = <<>> /\ items = <<>>
    /\ failed = FALSE /\ stage = "idle" /\ toReturn = <<>> /\ m_pendingMessages = <<>>
    /\ nextRemoteId = 1 /\ outOfOrder = <<>> /\ delayed = <<>>
    /\ delivered = <<>> /\ due = <<>> /\ late = <<>> /\ got = <<>> /\ count = 0

\* The fields of a control message and the headers and the payload of a data message.
Content(m) ==
    IF m.type # "Data" THEN [type |-> m.type, data |-> Body(m)]
    ELSE [type |-> "Data", comp |-> m.comp, rel |-> m.rel, frag |-> m.frag, data |-> Payload(m.size)]

\* What the application is to get of a message: nothing of padding and of a fragment alone.
Share(m) ==
    IF m.type = "Padding" \/ (m.type = "Data" /\ m.frag # 0) THEN <<>>
    ELSE IF m.type = "Data" THEN <<Content(m)>>
    ELSE <<[type |-> m.type, code |-> m.code, size |-> m.size]>>

Begin(bytes, messages, server, mine, next) ==
    /\ stage = "idle" /\ count < MaxDatagrams
    /\ datagram' = bytes /\ packed' = messages /\ m_server' = server /\ incoming' = mine
    /\ m_pos' = 0 /\ items' = <<>> /\ failed' = FALSE /\ stage' = next
    /\ count' = count + 1
    /\ UNCHANGED <<toReturn, m_pendingMessages, storeVars, delivered, dueVars>>

\* A server writes the first message of a datagram.
PackFirst ==
    \E m \in DownMessages :
        Begin(ServerEncode(m), <<m>>, FALSE, TRUE, "packing")

\* A message that goes on to the end of the datagram must be its last.
Closed(m) == m.type # "Padding" /\ (m.type = "Data" => m.boundary)

\* It writes another one behind those that are there.
PackAnother ==
    /\ stage = "packing" /\ Len(packed) < MaxPacked /\ Closed(packed[Len(packed)])
    /\ \E m \in DownMessages :
         /\ datagram' = datagram \o ServerEncode(m) /\ packed' = Append(packed, m)
    /\ UNCHANGED <<incoming, m_server, m_pos, items, failed, stage, toReturn, m_pendingMessages,
                   storeVars, delivered, dueVars, count>>

\* receiveMessageInner takes a datagram from the socket once nothing waits in either queue.
Receive ==
    /\ stage = "packing" /\ m_pendingMessages = <<>> /\ delayed = <<>>
    /\ stage' = "reading"
    /\ UNCHANGED <<datagram, incoming, m_server, m_pos, packed, items, failed, toReturn,
                   m_pendingMessages, storeVars, delivered, dueVars, count>>

\* sendMessage; a server reads it.
SendMessage ==
    /\ \E m \in UpMessages, id \in ConnectionIds :
         LET bytes == IF m.type = "Data" THEN EncodeData(m, id) ELSE EncodeControlMsg(m, id)
             pad == PaddingFor(bytes)
         IN  IF m.type = "Data" \/ Len(bytes) >= MinimumUdpPayload
             THEN Begin(bytes, <<m>>, id # 0, FALSE, "reading")
             ELSE Begin(bytes \o ServerEncode(pad), <<m, pad>>, id # 0, FALSE, "reading")

--------------------------------------------------------------------------------

\* An error ends the loop and the call; what was to be returned goes with it.
ReadFails ==
    /\ failed' = TRUE /\ stage' = "idle" /\ toReturn' = <<>>
    /\ UNCHANGED m_pendingMessages

\* The first message is returned in the end, the others are queued.
GiveOut(message) ==
    /\ IF toReturn = <<>>
       THEN toReturn' = <<message>> /\ UNCHANGED m_pendingMessages
       ELSE m_pendingMessages' = Append(m_pendingMessages, message) /\ UNCHANGED toReturn
    /\ UNCHANGED <<failed, stage>>

Nothing == UNCHANGED <<failed, stage, toReturn, m_pendingMessages>>

\* m_nextRemoteId++, n times: 0 is left out.
IdAfter(id, n) == ((id + n - 1) % 65535) + 1

\* maybeRestoreRemote and pushRemoteUnacked, one after the other: with the id `next` expected,
\* the stored messages that follow from there without a gap are moved to the queue.
RestoreFrom(next) ==
    \E n \in 0..OooCap :
        /\ \A i \in 0..(n - 1) : IdAfter(next, i) \in DOMAIN outOfOrder
        /\ IdAfter(next, n) \notin DOMAIN outOfOrder
        /\ nextRemoteId' = IdAfter(next, n)
        /\ delayed' = delayed \o [i \in 1..n |-> outOfOrder[IdAfter(next, i - 1)]]
        /\ outOfOrder' = [id \in DOMAIN outOfOrder \ {IdAfter(next, i) : i \in 0..(n - 1)}
                            |-> outOfOrder[id]]

\* storeRemoteOutOfOrder: the error ends the connection.
StoreOutOfOrder(id, message) ==
    /\ IF Cardinality(DOMAIN outOfOrder) >= OooCap
       THEN /\ stage' = "closed" /\ toReturn' = <<>>
            /\ UNCHANGED <<failed, m_pendingMessages, outOfOrder>>
       ELSE /\ outOfOrder' = [k \in DOMAIN outOfOrder \cup {id} |->
                                IF k \in DOMAIN outOfOrder THEN outOfOrder[k] ELSE message]
            /\ Nothing
    /\ UNCHANGED <<nextRemoteId, delayed>>

IsDuplicate(id) == id < nextRemoteId /\ nextRemoteId - id < 16384

\* Mutant: what is not a duplicate is taken for the message that is expected.
HandleAhead(id, message) ==
    IF IsDuplicate(id) THEN Nothing /\ (RestoreFrom(nextRemoteId) \/ UNCHANGED storeVars)
    ELSE GiveOut(message) /\ RestoreFrom(IdAfter(id, 1))

\* handleIncoming of a message with an id of its own.  Whether the ack of a duplicate is waiting to
\* be sent already decides if the store is looked through once more.
HandleIncoming(id, message) ==
    IF IsDuplicate(id) THEN Nothing /\ (RestoreFrom(nextRemoteId) \/ UNCHANGED storeVars)
    ELSE IF id # nextRemoteId THEN StoreOutOfOrder(id, message)
    ELSE GiveOut(message) /\ RestoreFrom(IdAfter(id, 1))

\* The message of an item, without what only the iterator needs.
Plain(item) ==
    IF item.type # "Data" THEN [type |-> item.type, data |-> item.data]
    ELSE [type |-> "Data", comp |-> item.comp, rel |-> item.rel, frag |-> item.frag, data |-> item.data]

\* Data with an id; a header with the id 0 only brings acks.
Reliable(m) == m.type = "Data" /\ m.rel # <<>> /\ m.rel[1] # 0

IsFragment(m) == m.type = "Data" /\ m.frag # 0

\* Padding is passed over.  processOne: a fragment waits for the others, and a reliable message
\* goes through the store.
ProcessOne(item) ==
    IF ~incoming \/ item.type = "Padding" \/ IsFragment(item) THEN Nothing /\ UNCHANGED storeVars
    ELSE IF Reliable(item) THEN HandleIncoming(item.rel[1], Plain(item))
    ELSE IF item.type = "Data" THEN GiveOut(Plain(item)) /\ UNCHANGED storeVars
    ELSE LET message == DecodeWithMeta(item)
         IN  /\ IF ~message.ok THEN ReadFails
                ELSE GiveOut([type |-> message.type, code |-> message.code, size |-> message.size])
             /\ UNCHANGED storeVars

\* What becomes due with the message m of a server.  One with an id is due when all before it
\* have come, and then those that came too early follow: behind the datagram, not in it.
BecomesDue(m) ==
    IF ~incoming \/ IsFragment(m) \/ ~Reliable(m)
    THEN /\ due' = IF incoming THEN due \o Share(m) ELSE due
         /\ UNCHANGED <<late, got>>
    ELSE LET id == m.rel[1]
             known == DOMAIN got \cup {id}
         IN  /\ got' = [k \in known |-> IF k \in DOMAIN got THEN got[k] ELSE Content(m)]
             /\ IF id \in DOMAIN got \/ ~(1..(id - 1) \subseteq DOMAIN got)
                THEN UNCHANGED <<due, late>>
                ELSE \E n \in 0..Cardinality(known) :
                       /\ (id + 1)..(id + n) \subseteq known /\ id + n + 1 \notin known
                       /\ due' = Append(due, Content(m))
                       /\ late' = late \o [i \in 1..n |-> got[id + i]]

\* One turn of the loop: QunetUdpMessageIter::next and what is done with the item.
NextItem ==
    /\ stage = "reading" /\ m_pos < Len(datagram)
    /\ LET item == DecodeMeta(SubSeq(datagram, m_pos + 1, Len(datagram)), m_pos = 0 /\ m_server)
       IN  IF ~item.ok
           THEN ReadFails /\ UNCHANGED <<m_pos, items, storeVars, dueVars>>
           ELSE /\ m_pos' = m_pos + item.dataOffset + Len(item.data)
                /\ items' = Append(items, Plain(item))
                /\ ProcessOne(item)
                /\ IF Len(items) < Len(packed) THEN BecomesDue(packed[Len(items) + 1])
                   ELSE UNCHANGED dueVars
    /\ UNCHANGED <<datagram, incoming, m_server, packed, delivered, count>>

\* The datagram is read; receiveMessage returns, or goes on without a message.
EndOfDatagram ==
    /\ stage = "reading" /\ m_pos >= Len(datagram)
    /\ stage' = "idle" /\ toReturn' = <<>>
    /\ delivered' = delivered \o toReturn
    /\ due' = due \o late /\ late' = <<>>
    /\ UNCHANGED <<datagram, incoming, m_server, m_pos, packed, items, failed, m_pendingMessages,
                   storeVars, got, count>>

Called == stage \notin {"reading", "closed"}

\* Another call of receiveMessage takes what is pending.
PopPending ==
    /\ Called /\ m_pendingMessages # <<>>
    /\ delivered' = Append(delivered, Head(m_pendingMessages))
    /\ m_pendingMessages' = Tail(m_pendingMessages)
    /\ UNCHANGED <<datagram, incoming, m_server, m_pos, packed, items, failed, stage, toReturn,
                   storeVars, dueVars, count>>

\* Or, when nothing is, what the store has held back.
PopDelayed ==
    /\ Called /\ m_pendingMessages = <<>> /\ delayed # <<>>
    /\ delivered' = Append(delivered, Head(delayed))
    /\ delayed' = Tail(delayed)
    /\ UNCHANGED <<datagram, incoming, m_server, m_pos, packed, items, failed, stage, toReturn,
                   m_pendingMessages, nextRemoteId, outOfOrder, dueVars, count>>

DatagramNext ==
    \/ PackFirst \/ PackAnother \/ Receive \/ SendMessage
    \/ NextItem \/ EndOfDatagram \/ PopPending \/ PopDelayed

DatagramSpec == DatagramInit /\ [][DatagramNext]_datagramVars

--------------------------------------------------------------------------------

\* The iterator finds exactly the messages that were put into the datagram: whatever headers,
\* lengths, boundaries and padding precede a message, it starts where the sum of them says.
ItemsIntact ==
    /\ ~failed
    /\ IsPrefix(items, [i \in DOMAIN packed |-> Content(packed[i])])
    /\ stage = "idle" => Len(items) = Len(packed)

\* The application gets the messages of every datagram in the order in which the server put them
\* in, although receiveMessageInner returns the first and queues the others; a reliable one once,
\* and not before all earlier ids have come; and behind the datagram that fills a gap, those that
\* waited for it, before anything of the next datagram.  With two reliable messages in a datagram
\* this need not be the order of their ids (UdpReliable_batched_order).
DeliveredInOrder ==
    /\ IsPrefix(delivered, due)
    /\ stage = "idle" /\ m_pendingMessages = <<>> /\ delayed = <<>> => delivered = due

\* A message that cannot be read does not take along the one before it, which the reliable
\* store may have acknowledged already.
NeighboursKept == failed /\ m_pendingMessages = <<>> => delivered # <<>> \/ Len(items) < 2

================================================================================
