------------------------------ MODULE QuicStream ------------------------------
(***************************************************************************)
(* The buffers of a QUIC stream, shared by three tasks: the one in sendAll *)
(* writes to the send buffer, the one in receive reads from the receive    *)
(* buffer, and the worker of the QuicConnection moves bytes between them   *)
(* and ngtcp2.  ngtcp2 keeps pointers into the send buffer until a byte is *)
(* acknowledged.                                                           *)
(*                                                                         *)
(* Bytes are numbered: byte k is the k-th byte of the application.  The    *)
(* stream stays open and the worker alive unless a packet cannot be sent.  *)
(***************************************************************************)
EXTENDS Naturals, Sequences, FiniteSetsExt

CONSTANTS
    ToSend,        \* bytes the application sends, in messages of any length
    Initial,       \* INITIAL_BUFFER_SIZE
    MaxBuffer,     \* MAX_BUFFER_SIZE
    MaxPacket,     \* stream bytes in a packet, at most
    Window,        \* initial_max_stream_data_bidi_local, never extended
    Parallel,      \* the runtimes there may be: whether tasks run on more than one thread
    MaxBlocked,    \* bound: writes refused by congestion or flow control, and packets
                   \* without stream data
    MaxFailures    \* bound: packets the socket refuses

ASSUME QuicStreamAssumption ==
    /\ ToSend \in Nat /\ Initial \in Nat \ {0} /\ MaxPacket \in Nat \ {0}
    /\ MaxBuffer \in Nat /\ Initial <= MaxBuffer
    /\ Window \in Nat /\ Window < MaxBuffer
    /\ Parallel \subseteq BOOLEAN
    /\ MaxBlocked \in Nat /\ MaxFailures \in Nat

VARIABLES
    parallel,      \* the tasks run on more than one thread
    sender,        \* where sendAll is
    written,       \* bytes sendAll has written to the send buffer
    capacity,      \* capacity of the send buffer
    ackOffset,     \* m_ackOffset: the send buffer holds the bytes after it
    unacked,       \* m_unackedBytes
    streamOffset,  \* m_streamOffset
    workerPermit,  \* m_workerNotify holds a permit
    worker,        \* where the worker is
    packet,        \* stream bytes in the packet that is being sent
    congestion,    \* m_congestion
    given,         \* the bytes ngtcp2 has taken, by stream offset
    probe,         \* ngtcp2 has a timer armed for a packet without stream data
    reader,        \* where receive is
    received,      \* bytes ngtcp2 has passed to onReceivedData
    recvBuffer,    \* m_recvBuffer: the numbers of the bytes in it
    bytesRead,     \* bytes receive has returned
    blocked, failures,
    (* history *)
    moved          \* the send buffer has grown while ngtcp2 pointed into it

sending   == <<parallel, sender, written, capacity>>
acking    == <<ackOffset, unacked, streamOffset>>
receiving == <<reader, received, recvBuffer, bytesRead>>
vars == <<parallel, sender, written, capacity, ackOffset, unacked, streamOffset, workerPermit, worker,
          packet, congestion, given, probe, reader, received, recvBuffer, bytesRead,
          blocked, failures, moved>>

--------------------------------------------------------------------------------

Size == written - ackOffset

SendCapacity == (IF unacked > 0 THEN capacity ELSE MaxBuffer) - Size

UnflushedBytes == Size - unacked

\* Capacities the buffer may have once it holds n bytes: it grows to what is needed, or
\* doubles.
Grown(n) ==
    IF n <= capacity THEN {capacity}
    ELSE {n} \cup {c \in {2 * capacity} : n <= c /\ c <= MaxBuffer}

\* Mutant: the bytes in flight are sent again.
PeekUnsentDataAll(n) == [k \in 1..n |-> ackOffset + k]

\* The next n unsent bytes of the send buffer.
PeekUnsentData(n) == [k \in 1..n |-> ackOffset + unacked + k]

\* m_writableNotify.notifyAll: whoever is waiting looks again, nothing is remembered.
NotifyWritable == sender' = IF sender = "waiting" THEN "check" ELSE sender

NotifyReadable == reader' = IF reader = "waiting" THEN "check" ELSE reader

\* m_streams is locked by the worker while it sends stream data.
StreamsFree == worker # "sending"

Init ==
    /\ parallel \in Parallel
    /\ sender = (IF ToSend = 0 THEN "done" ELSE "get") /\ written = 0 /\ capacity = Initial
    /\ ackOffset = 0 /\ unacked = 0 /\ streamOffset = 0
    /\ workerPermit = FALSE /\ worker = "writes" /\ packet = 0 /\ congestion = FALSE
    /\ given = <<>> /\ probe = FALSE
    /\ reader = "get" /\ received = 0 /\ recvBuffer = <<>> /\ bytesRead = 0
    /\ blocked = 0 /\ failures = 0 /\ moved = FALSE

--------------------------------------------------------------------------------
(* sendAll and send, on the task of the application. *)

SendGetStream ==
    /\ sender = "get" /\ StreamsFree
    /\ sender' = "check"
    /\ UNCHANGED <<parallel, written, capacity, acking, workerPermit, worker, packet, congestion, given,
                   probe, receiving, blocked, failures, moved>>

\* pollWritable looks at the capacity and waits for a notification if there is none.  On a
\* single thread nothing comes between the two.  (Nothing then comes between the look and
\* write either; the model lets the worker in, which is more than can happen.)
PollWritable ==
    /\ sender = "check"
    /\ sender' = IF SendCapacity > 0 THEN "write" ELSE IF parallel THEN "register" ELSE "waiting"
    /\ UNCHANGED <<parallel, written, capacity, acking, workerPermit, worker, packet, congestion, given,
                   probe, receiving, blocked, failures, moved>>

AwaitWritable ==
    /\ sender = "register"
    /\ sender' = "waiting"
    /\ UNCHANGED <<parallel, written, capacity, acking, workerPermit, worker, packet, congestion, given,
                   probe, receiving, blocked, failures, moved>>

\* Mutant: the worker is not told.
WriteQuietly ==
    /\ sender = "write"
    /\ \E len \in 1..(ToSend - written) :
         LET n == Min({len, SendCapacity})
         IN  /\ written' = written + n
             /\ capacity' \in Grown(Size + n)
             /\ moved' = (moved \/ (capacity' # capacity /\ Len(given) > ackOffset))
             /\ sender' = IF written + n = ToSend THEN "done" ELSE "get"
    /\ UNCHANGED workerPermit
    /\ UNCHANGED <<parallel, acking, worker, packet, congestion, given, probe, receiving,
                   blocked, failures>>

\* write takes what fits of the len bytes that are left of the message, and the worker is
\* told.
Write ==
    /\ sender = "write"
    /\ \E len \in 1..(ToSend - written) :
         LET n == Min({len, SendCapacity})
         IN  /\ written' = written + n
             /\ capacity' \in Grown(Size + n)
             /\ moved' = (moved \/ (capacity' # capacity /\ Len(given) > ackOffset))
             /\ sender' = IF written + n = ToSend THEN "done" ELSE "get"
    /\ workerPermit' = TRUE
    /\ UNCHANGED <<parallel, acking, worker, packet, congestion, given, probe, receiving,
                   blocked, failures>>

--------------------------------------------------------------------------------
(* The worker. *)

\* workerHandleWrites with nothing to send on the stream.
NothingToSend ==
    /\ worker = "writes" /\ UnflushedBytes = 0
    /\ congestion' = FALSE
    /\ worker' = "select"
    /\ UNCHANGED <<sending, acking, workerPermit, packet, given, probe, receiving, blocked,
                   failures, moved>>

\* sendStreamData: ngtcp2 takes the next bytes, and the send buffer is unlocked.
WriteStream ==
    /\ worker = "writes" /\ UnflushedBytes > 0
    /\ congestion' = FALSE
    /\ \E n \in 1..Min({UnflushedBytes, MaxPacket}) :
         /\ given' = given \o PeekUnsentData(n)
         /\ packet' = n
    /\ worker' = "sending"
    /\ UNCHANGED <<sending, acking, workerPermit, probe, receiving, blocked, failures, moved>>

\* sendStreamData: ngtcp2 makes a packet that holds no stream data.
WriteNonStream ==
    /\ worker = "writes" /\ UnflushedBytes > 0
    /\ blocked < MaxBlocked
    /\ blocked' = blocked + 1
    /\ congestion' = FALSE
    /\ packet' = 0
    /\ probe' = TRUE
    /\ worker' = "sending"
    /\ UNCHANGED <<sending, acking, workerPermit, given, receiving, failures, moved>>

\* sendStreamData: congestion or flow control, to be tried again after 25 ms.
WriteBlocked ==
    /\ worker = "writes" /\ UnflushedBytes > 0
    /\ blocked < MaxBlocked
    /\ blocked' = blocked + 1
    /\ congestion' = TRUE
    /\ worker' = "select"
    /\ UNCHANGED <<sending, acking, workerPermit, packet, given, probe, receiving, failures, moved>>

\* Mutant: only the offset is advanced.
AdvanceOffset ==
    /\ worker = "sending"
    /\ worker' = "select"
    /\ streamOffset' = streamOffset + packet
    /\ packet' = 0
    /\ UNCHANGED <<sending, ackOffset, unacked, workerPermit, congestion, given, probe, receiving,
                   blocked, failures, moved>>

\* The packet has been sent: advanceSentData.  A non-stream packet may follow.
AdvanceSentData ==
    /\ worker = "sending"
    /\ worker' = "select"
    /\ unacked' = unacked + packet
    /\ streamOffset' = streamOffset + packet
    /\ packet' = 0
    /\ UNCHANGED <<sending, ackOffset, workerPermit, congestion, given, probe, receiving,
                   blocked, failures, moved>>

\* The socket refuses the packet: the worker stops.
SendFails ==
    /\ worker = "sending" /\ failures < MaxFailures
    /\ failures' = failures + 1
    /\ worker' = "stopped"
    /\ UNCHANGED <<sending, acking, workerPermit, packet, congestion, given, probe, receiving,
                   blocked, moved>>

\* The select of workerLoop: told by write...
TakeNotification ==
    /\ worker = "select" /\ workerPermit
    /\ workerPermit' = FALSE
    /\ worker' = "writes"
    /\ UNCHANGED <<sending, acking, packet, congestion, given, probe, receiving, blocked, failures,
                   moved>>

\* ...the 25 ms after congestion are over...
RetryCongested ==
    /\ worker = "select" /\ congestion
    /\ worker' = "writes"
    /\ UNCHANGED <<sending, acking, workerPermit, packet, congestion, given, probe, receiving,
                   blocked, failures, moved>>

\* ...a timer of ngtcp2 expires...
HandleExpiry ==
    /\ worker = "select"
    /\ probe' = FALSE
    /\ worker' = "writes"
    /\ UNCHANGED <<sending, acking, workerPermit, packet, congestion, given, receiving,
                   blocked, failures, moved>>

\* ...or a packet comes in.  The server has got bytes: onAck drops them from the buffer.
OnAck ==
    /\ worker = "select"
    /\ \E n \in 1..(Len(given) - ackOffset) :
         /\ ackOffset' = ackOffset + n
         /\ unacked' = unacked - n
    /\ NotifyWritable
    /\ worker' = "writes" /\ probe' = FALSE
    /\ UNCHANGED <<parallel, written, capacity, streamOffset, workerPermit, packet, congestion, given,
                   receiving, blocked, failures, moved>>

\* Bytes of the server, up to the window it was given: onReceivedData.
OnReceivedData ==
    /\ worker = "select"
    /\ \E n \in 1..Min({Window - received, MaxPacket}) :
         /\ received' = received + n
         /\ recvBuffer' = IF n < MaxBuffer - Len(recvBuffer)
                          THEN recvBuffer \o [k \in 1..n |-> received + k] ELSE recvBuffer
    /\ NotifyReadable
    /\ worker' = "writes" /\ probe' = FALSE
    /\ UNCHANGED <<sending, acking, workerPermit, packet, congestion, given, bytesRead,
                   blocked, failures, moved>>

--------------------------------------------------------------------------------
(* receive, on the task of the application. *)

ReceiveGetStream ==
    /\ reader = "get" /\ StreamsFree
    /\ reader' = "read"
    /\ UNCHANGED <<sending, acking, workerPermit, worker, packet, congestion, given, probe,
                   received, recvBuffer, bytesRead, blocked, failures, moved>>

\* read returns what there is; receive is called again.
Read ==
    /\ reader = "read"
    /\ \/ /\ recvBuffer = <<>>
          /\ reader' = "check"
          /\ UNCHANGED <<recvBuffer, bytesRead>>
       \/ \E n \in 1..Len(recvBuffer) :
            /\ bytesRead' = bytesRead + n
            /\ recvBuffer' = SubSeq(recvBuffer, n + 1, Len(recvBuffer))
            /\ reader' = "get"
    /\ UNCHANGED <<sending, acking, workerPermit, worker, packet, congestion, given, probe,
                   received, blocked, failures, moved>>

\* pollReadable, as pollWritable.
PollReadable ==
    /\ reader = "check"
    /\ reader' = IF recvBuffer # <<>> THEN "get" ELSE IF parallel THEN "register" ELSE "waiting"
    /\ UNCHANGED <<sending, acking, workerPermit, worker, packet, congestion, given, probe,
                   received, recvBuffer, bytesRead, blocked, failures, moved>>

AwaitReadable ==
    /\ reader = "register"
    /\ reader' = "waiting"
    /\ UNCHANGED <<sending, acking, workerPermit, worker, packet, congestion, given, probe,
                   received, recvBuffer, bytesRead, blocked, failures, moved>>

--------------------------------------------------------------------------------

SenderStep == SendGetStream \/ PollWritable \/ AwaitWritable \/ Write

ReaderStep == ReceiveGetStream \/ Read \/ PollReadable \/ AwaitReadable

WorkerWrites == NothingToSend \/ WriteStream \/ WriteNonStream \/ WriteBlocked \/ AdvanceSentData

WorkerStep ==
    \/ WorkerWrites \/ SendFails
    \/ TakeNotification \/ RetryCongested \/ HandleExpiry \/ OnAck \/ OnReceivedData

Next == SenderStep \/ ReaderStep \/ WorkerStep

Spec == Init /\ [][Next]_vars

(***************************************************************************)
(* Tasks that can run do run, timers expire, and a byte ngtcp2 has is      *)
(* acknowledged in the end, as it is sent again until it is.  A timer of   *)
(* ngtcp2 is relied upon only for a packet without stream data; what the   *)
(* keepalive of the connection wakes up, every 15 seconds, is not.         *)
(***************************************************************************)
Fairness ==
    /\ WF_vars(SenderStep)
    /\ WF_vars(ReaderStep)
    /\ WF_vars(WorkerWrites)
    /\ SF_vars(TakeNotification)
    /\ SF_vars(RetryCongested)
    /\ SF_vars(OnAck)
    /\ SF_vars(probe /\ HandleExpiry)

FairSpec == Spec /\ Fairness

--------------------------------------------------------------------------------

\* Every byte passes once and in order in both directions: the offset ngtcp2 gives a byte is
\* its place in what the application has sent, so that peekUnsentData and advanceSentData skip
\* none and take none twice; and what waits to be read is what has arrived since the last
\* read, none dropped for lack of room, as the window is smaller than the buffer may grow.
StreamIntact ==
    /\ \A k \in DOMAIN given : given[k] = k
    /\ recvBuffer = [k \in 1..(received - bytesRead) |-> bytesRead + k]

\* The assertions of onAck whenever the worker may call it: the acknowledged offset is not
\* beyond the sent one, and the bytes in flight are the ones between the two.
AckAssertions ==
    worker \in {"writes", "select"} =>
        /\ ackOffset <= streamOffset
        /\ unacked = streamOffset - ackOffset

\* sendCapacity: "we cannot grow the buffer if there is data in flight", as ngtcp2 points
\* into it.
NoMoveInFlight == ~moved

\* On a runtime of one thread everything sendAll is asked to send is written and
\* acknowledged, although it has to wait for room, unless the worker stops.
AllSent == <>(ackOffset = ToSend \/ worker = "stopped" \/ parallel)

\* The same on any runtime.
AllSentInParallel == <>(ackOffset = ToSend \/ worker = "stopped")

================================================================================
