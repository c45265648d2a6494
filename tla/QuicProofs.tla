------------------------------- MODULE QuicProofs -------------------------------
(***************************************************************************)
(* QuicStream: the byte streams are intact, the assertions of onAck hold   *)
(* and the send buffer stays within its bounds; for every size of buffers, *)
(* packets and windows, every number of bytes, and every interleaving of   *)
(* the three tasks, on one thread or several.                              *)
(*                                                                         *)
(* QuicConnection: the server is told at most once that the connection is  *)
(* over, and its owner can see that its worker has ended; in every         *)
(* interleaving of the two, whatever fails in between.                     *)
(***************************************************************************)
EXTENDS QuicStream, QuicConnection, Integers, TLAPS

--------------------------------------------------------------------------------
(* The stream: the inductive invariant *)

\* Types of what the properties look at.
TypeInv ==
    /\ written \in Nat /\ capacity \in Nat
    /\ ackOffset \in Nat /\ unacked \in Nat /\ streamOffset \in Nat
    /\ worker \in {"writes", "sending", "select", "stopped"}
    /\ packet \in Nat
    /\ given \in Seq(Nat)
    /\ received \in Nat /\ bytesRead \in Nat
    /\ recvBuffer \in Seq(Nat)

\* The offsets: ngtcp2 has the bytes up to streamOffset and those of the packet that is
\* being sent, and onAck only sees the worker between two packets.
OffsetInv ==
    /\ streamOffset = ackOffset + unacked
    /\ Len(given) = streamOffset + packet
    /\ worker \in {"writes", "select"} => packet = 0

\* Bytes carry their own numbers.
GivenInv == \A k \in 1..Len(given) : given[k] = k

\* Only written bytes are given to ngtcp2, and the buffer holds what is not acknowledged.
BufferInv ==
    /\ Len(given) <= written /\ written <= ToSend
    /\ written - ackOffset <= capacity
    /\ capacity <= MaxBuffer

\* What has arrived and not been read is in the receive buffer.
RecvInv ==
    /\ bytesRead <= received /\ received <= Window
    /\ recvBuffer = [k \in 1..(received - bytesRead) |-> bytesRead + k]

IInv == TypeInv /\ OffsetInv /\ GivenInv /\ BufferInv /\ RecvInv

--------------------------------------------------------------------------------
(* Facts about the operators *)

\* std::min of two numbers.
LEMMA MinFacts ==
    ASSUME NEW a \in Int, NEW b \in Int
    PROVE  /\ Min({a, b}) \in {a, b}
           /\ Min({a, b}) <= a
           /\ Min({a, b}) <= b
  <1>1. \E x \in {a, b} : \A y \in {a, b} : x <= y
    <2>1. CASE a <= b
      BY <2>1
    <2>2. CASE ~(a <= b)
      BY <2>2
    <2> QED BY <2>1, <2>2
  <1> QED BY <1>1 DEF Min

\* A run of numbers followed by the numbers after it is a run.
LEMMA AppendRun ==
    ASSUME NEW s \in Seq(Nat), NEW t \in Seq(Nat), NEW from \in Nat,
           \A k \in 1..Len(s) : s[k] = from + k,
           \A k \in 1..Len(t) : t[k] = from + Len(s) + k
    PROVE  /\ s \o t \in Seq(Nat)
           /\ Len(s \o t) = Len(s) + Len(t)
           /\ \A k \in 1..Len(s \o t) : (s \o t)[k] = from + k
  <1>1. Len(s) \in Nat /\ Len(t) \in Nat
    OBVIOUS
  <1>2. s \o t \in Seq(Nat) /\ Len(s \o t) = Len(s) + Len(t)
    OBVIOUS
  <1>3. ASSUME NEW k \in 1..Len(s \o t)
        PROVE  (s \o t)[k] = from + k
    <2>1. CASE k <= Len(s)
      BY <2>1, <1>1
    <2>2. CASE k > Len(s)
      <3>1. k - Len(s) \in 1..Len(t)
        BY <2>2, <1>1, <1>2
      <3>2. (s \o t)[k] = t[k - Len(s)]
        BY <2>2, <1>1, <1>2
      <3> QED BY <3>1, <3>2, <1>1
    <2> QED BY <2>1, <2>2, <1>1
  <1> QED BY <1>2, <1>3

\* The rest of a run after its first n numbers is a run.
LEMMA RestOfRun ==
    ASSUME NEW s \in Seq(Nat), NEW from \in Nat, NEW n \in 1..Len(s),
           \A k \in 1..Len(s) : s[k] = from + k,
           NEW t, t = SubSeq(s, n + 1, Len(s))
    PROVE  /\ t \in Seq(Nat)
           /\ Len(t) = Len(s) - n
           /\ \A k \in 1..(Len(s) - n) : t[k] = from + n + k
  <1>1. Len(s) \in Nat
    OBVIOUS
  <1>2. t \in Seq(Nat) /\ Len(t) = Len(s) - n
    BY <1>1
  <1>3. \A k \in 1..(Len(s) - n) : t[k] = s[n + k] /\ n + k \in 1..Len(s)
    BY <1>1
  <1>4. ASSUME NEW k \in 1..(Len(s) - n)
        PROVE  t[k] = from + n + k
    <2>1. t[k] = s[n + k] /\ n + k \in 1..Len(s)
      BY <1>3
    <2>2. s[n + k] = from + (n + k)
      BY <2>1
    <2>3. n \in Int /\ k \in Int
      BY <1>1
    <2> QED BY <2>1, <2>2, <2>3
  <1> QED BY <1>2, <1>4

--------------------------------------------------------------------------------
(* The invariant holds initially and is preserved by every action *)

LEMMA InitIInv == Init => IInv
  <1> SUFFICES ASSUME Init PROVE IInv
    OBVIOUS
  <1>1. TypeInv
    BY QuicStreamAssumption DEF Init, TypeInv
  <1>2. OffsetInv /\ GivenInv
    BY DEF Init, OffsetInv, GivenInv
  <1>3. BufferInv
    BY QuicStreamAssumption DEF Init, BufferInv
  <1>4. RecvInv
    <2>1. recvBuffer = [k \in 1..(received - bytesRead) |-> bytesRead + k]
      BY DEF Init
    <2> QED BY <2>1, QuicStreamAssumption DEF Init, RecvInv
  <1> QED BY <1>1, <1>2, <1>3, <1>4 DEF IInv

\* Steps that touch no byte and no offset.
LEMMA QuietStep ==
    ASSUME IInv, worker' \in {"writes", "select", "stopped"} \/ worker' = worker,
           UNCHANGED <<written, capacity, ackOffset, unacked, streamOffset, packet, given,
                       received, recvBuffer, bytesRead>>,
           worker' # worker /\ worker' # "stopped" => worker \in {"writes", "select"}
    PROVE  IInv'
  <1>1. TypeInv'
    BY DEF IInv, TypeInv
  <1>2. OffsetInv' /\ GivenInv'
    BY DEF IInv, OffsetInv, GivenInv
  <1>3. BufferInv' /\ RecvInv'
    BY DEF IInv, BufferInv, RecvInv
  <1> QED BY <1>1, <1>2, <1>3 DEF IInv

\* write adds what fits and grows the buffer to hold it.
LEMMA WriteInv ==
    ASSUME IInv, Write
    PROVE  IInv'
  <1>0. TypeInv /\ OffsetInv /\ GivenInv /\ BufferInv /\ RecvInv
    BY DEF IInv
  <1>1. UNCHANGED <<ackOffset, unacked, streamOffset, worker, packet, given, received,
                    recvBuffer, bytesRead>>
    BY DEF Write, acking, receiving
  <1>2. PICK len \in 1..(ToSend - written) :
           LET n == Min({len, SendCapacity})
           IN  written' = written + n /\ capacity' \in Grown(Size + n)
    BY DEF Write
  <1> DEFINE n == Min({len, SendCapacity})
  <1>3. /\ written \in Nat /\ capacity \in Nat /\ ackOffset \in Nat /\ unacked \in Nat
        /\ ToSend \in Nat /\ MaxBuffer \in Nat /\ Len(given) \in Nat
        /\ Len(given) <= written /\ written <= ToSend
        /\ ackOffset <= written
        /\ written - ackOffset <= capacity /\ capacity <= MaxBuffer
    BY <1>0, QuicStreamAssumption DEF TypeInv, OffsetInv, BufferInv
  <1>4. SendCapacity \in Nat /\ Size \in Nat /\ Size + SendCapacity <= MaxBuffer
        /\ Size <= capacity /\ Size = written - ackOffset
    BY <1>3 DEF SendCapacity, Size
  <1>5. n \in Nat /\ n <= len /\ n <= SendCapacity
    <2>1. len \in Int /\ len >= 0 /\ SendCapacity \in Int
      BY <1>3, <1>4
    <2>2. n \in {len, SendCapacity} /\ n <= len /\ n <= SendCapacity
      BY <2>1, MinFacts, Zenon
    <2> HIDE DEF n
    <2> QED BY <2>1, <2>2, <1>4
  <1>6. written' = written + n /\ capacity' \in Grown(Size + n)
    BY <1>2
  <1> HIDE DEF n
  <1>7. capacity' \in Nat /\ Size + n <= capacity' /\ capacity' <= MaxBuffer
    <2>1. Size + n <= MaxBuffer /\ Size + n \in Nat
      BY <1>3, <1>4, <1>5
    <2>2. CASE Size + n <= capacity
      <3>1. capacity' = capacity
        BY <2>2, <1>6 DEF Grown
      <3> QED BY <3>1, <2>2, <1>3
    <2>3. CASE ~(Size + n <= capacity)
      <3>1. \/ capacity' = Size + n
            \/ capacity' = 2 * capacity /\ Size + n <= 2 * capacity /\ 2 * capacity <= MaxBuffer
        BY <2>3, <1>6 DEF Grown
      <3> QED BY <3>1, <2>1, <1>3
    <2> QED BY <2>2, <2>3
  <1>8. written' \in Nat /\ Len(given) <= written' /\ written' <= ToSend
        /\ written' - ackOffset = Size + n
    BY <1>3, <1>4, <1>5, <1>6
  <1>9. TypeInv'
    BY <1>0, <1>1, <1>7, <1>8 DEF TypeInv
  <1>10. BufferInv'
    BY <1>1, <1>7, <1>8 DEF BufferInv
  <1>11. OffsetInv' /\ GivenInv' /\ RecvInv'
    BY <1>0, <1>1 DEF OffsetInv, GivenInv, RecvInv
  <1> QED BY <1>9, <1>10, <1>11 DEF IInv

\* ngtcp2 takes the bytes that follow the ones it has.
LEMMA WriteStreamInv ==
    ASSUME IInv, WriteStream
    PROVE  IInv'
  <1>0. TypeInv /\ OffsetInv /\ GivenInv /\ BufferInv /\ RecvInv
    BY DEF IInv
  <1>1. /\ worker = "writes" /\ worker' = "sending"
        /\ UNCHANGED <<written, capacity, ackOffset, unacked, streamOffset, received,
                       recvBuffer, bytesRead>>
    BY DEF WriteStream, sending, acking, receiving
  <1>2. PICK n \in 1..Min({UnflushedBytes, MaxPacket}) :
           given' = given \o PeekUnsentData(n) /\ packet' = n
    BY DEF WriteStream
  <1>3. /\ written \in Nat /\ ackOffset \in Nat /\ unacked \in Nat /\ MaxPacket \in Nat
        /\ given \in Seq(Nat) /\ Len(given) = ackOffset + unacked
        /\ streamOffset = ackOffset + unacked
    BY <1>0, <1>1, QuicStreamAssumption DEF TypeInv, OffsetInv
  <1>4. UnflushedBytes \in Int /\ UnflushedBytes = written - Len(given)
    BY <1>3 DEF UnflushedBytes, Size
  <1>5. n \in Nat /\ n <= UnflushedBytes
    <2> DEFINE m == Min({UnflushedBytes, MaxPacket})
    <2>1. UnflushedBytes \in Int /\ MaxPacket \in Int
      BY <1>3, <1>4
    <2>2. m \in {UnflushedBytes, MaxPacket} /\ m <= UnflushedBytes
      BY <2>1, MinFacts, Zenon
    <2>3. n \in 1..m
      OBVIOUS
    <2> HIDE DEF m
    <2> QED BY <2>1, <2>2, <2>3
  <1>6. /\ PeekUnsentData(n) \in Seq(Nat) /\ Len(PeekUnsentData(n)) = n
        /\ \A k \in 1..n : PeekUnsentData(n)[k] = 0 + Len(given) + k
    BY <1>3, <1>5 DEF PeekUnsentData
  <1>7. /\ given' \in Seq(Nat) /\ Len(given') = Len(given) + n
        /\ \A k \in 1..Len(given') : given'[k] = 0 + k
    <2> DEFINE t == PeekUnsentData(n)
    <2>1. \A k \in 1..Len(given) : given[k] = 0 + k
      BY <1>0, <1>3 DEF GivenInv
    <2> HIDE DEF t
    <2>2. t \in Seq(Nat) /\ Len(t) = n /\ \A k \in 1..Len(t) : t[k] = 0 + Len(given) + k
      BY <1>6 DEF t
    <2>3. /\ given \o t \in Seq(Nat)
          /\ Len(given \o t) = Len(given) + Len(t)
          /\ \A k \in 1..Len(given \o t) : (given \o t)[k] = 0 + k
      <3>1. given \in Seq(Nat) /\ 0 \in Nat
        BY <1>3
      <3> QED BY ONLY <3>1, <2>1, <2>2, AppendRun
    <2>4. given' = given \o t
      BY <1>2 DEF t
    <2> QED BY <2>2, <2>3, <2>4
  <1>8. TypeInv'
    BY <1>0, <1>1, <1>2, <1>5, <1>7 DEF TypeInv
  <1>9. OffsetInv'
    BY <1>1, <1>2, <1>3, <1>7 DEF OffsetInv
  <1>10. GivenInv'
    BY <1>7, <1>3, <1>5 DEF GivenInv
  <1>11. BufferInv'
    BY <1>0, <1>1, <1>3, <1>4, <1>5, <1>7 DEF BufferInv
  <1>12. RecvInv'
    BY <1>0, <1>1 DEF RecvInv
  <1> QED BY <1>8, <1>9, <1>10, <1>11, <1>12 DEF IInv

\* A packet without stream bytes.
LEMMA WriteNonStreamInv ==
    ASSUME IInv, WriteNonStream
    PROVE  IInv'
  <1>0. TypeInv /\ OffsetInv /\ GivenInv /\ BufferInv /\ RecvInv
    BY DEF IInv
  <1>1. /\ worker = "writes" /\ worker' = "sending" /\ packet' = 0
        /\ UNCHANGED <<written, capacity, ackOffset, unacked, streamOffset, given, received,
                       recvBuffer, bytesRead>>
    BY DEF WriteNonStream, sending, acking, receiving
  <1>2. TypeInv' /\ OffsetInv'
    BY <1>0, <1>1 DEF TypeInv, OffsetInv
  <1>3. GivenInv' /\ BufferInv' /\ RecvInv'
    BY <1>0, <1>1 DEF GivenInv, BufferInv, RecvInv
  <1> QED BY <1>2, <1>3 DEF IInv

\* advanceSentData moves both counters by the bytes of the packet.
LEMMA AdvanceInv ==
    ASSUME IInv, AdvanceSentData
    PROVE  IInv'
  <1>0. TypeInv /\ OffsetInv /\ GivenInv /\ BufferInv /\ RecvInv
    BY DEF IInv
  <1>1. /\ worker' = "select" /\ packet' = 0
        /\ unacked' = unacked + packet /\ streamOffset' = streamOffset + packet
        /\ UNCHANGED <<written, capacity, ackOffset, given, received, recvBuffer, bytesRead>>
    BY DEF AdvanceSentData, sending, receiving
  <1>2. TypeInv' /\ OffsetInv'
    BY <1>0, <1>1 DEF TypeInv, OffsetInv
  <1>3. GivenInv' /\ BufferInv' /\ RecvInv'
    BY <1>0, <1>1 DEF GivenInv, BufferInv, RecvInv
  <1> QED BY <1>2, <1>3 DEF IInv

\* Acknowledged bytes were sent: the worker is between two packets.
LEMMA OnAckInv ==
    ASSUME IInv, OnAck
    PROVE  IInv'
  <1>0. TypeInv /\ OffsetInv /\ GivenInv /\ BufferInv /\ RecvInv
    BY DEF IInv
  <1>1. /\ worker = "select" /\ worker' = "writes"
        /\ UNCHANGED <<written, capacity, streamOffset, packet, given, received, recvBuffer,
                       bytesRead>>
    BY DEF OnAck, receiving
  <1>2. PICK n \in 1..(Len(given) - ackOffset) :
           ackOffset' = ackOffset + n /\ unacked' = unacked - n
    BY DEF OnAck
  <1>3. /\ written \in Nat /\ ackOffset \in Nat /\ unacked \in Nat /\ capacity \in Nat
        /\ Len(given) = ackOffset + unacked /\ streamOffset = ackOffset + unacked /\ packet = 0
    BY <1>0, <1>1 DEF TypeInv, OffsetInv
  <1>4. n \in Nat /\ n <= unacked
    BY <1>3
  <1>5. TypeInv'
    BY <1>0, <1>1, <1>2, <1>3, <1>4 DEF TypeInv
  <1>6. OffsetInv'
    BY <1>1, <1>2, <1>3, <1>4 DEF OffsetInv
  <1>7. BufferInv'
    BY <1>0, <1>1, <1>2, <1>3, <1>4 DEF BufferInv
  <1>8. GivenInv' /\ RecvInv'
    BY <1>0, <1>1 DEF GivenInv, RecvInv
  <1> QED BY <1>5, <1>6, <1>7, <1>8 DEF IInv

\* What arrives within the window always fits.
LEMMA OnReceivedDataInv ==
    ASSUME IInv, OnReceivedData
    PROVE  IInv'
  <1>0. TypeInv /\ OffsetInv /\ GivenInv /\ BufferInv /\ RecvInv
    BY DEF IInv
  <1>1. /\ worker = "select" /\ worker' = "writes"
        /\ UNCHANGED <<written, capacity, ackOffset, unacked, streamOffset, packet, given,
                       bytesRead>>
    BY DEF OnReceivedData, sending, acking
  <1>2. PICK n \in 1..Min({Window - received, MaxPacket}) :
           /\ received' = received + n
           /\ recvBuffer' = IF n < MaxBuffer - Len(recvBuffer)
                            THEN recvBuffer \o [k \in 1..n |-> received + k] ELSE recvBuffer
    BY DEF OnReceivedData
  <1>3. /\ received \in Nat /\ bytesRead \in Nat /\ bytesRead <= received
        /\ Window \in Nat /\ MaxPacket \in Nat /\ MaxBuffer \in Nat /\ Window < MaxBuffer
        /\ recvBuffer \in Seq(Nat)
        /\ recvBuffer = [k \in 1..(received - bytesRead) |-> bytesRead + k]
    BY <1>0, QuicStreamAssumption DEF TypeInv, RecvInv
  <1>4. /\ Len(recvBuffer) = received - bytesRead
        /\ \A k \in 1..Len(recvBuffer) : recvBuffer[k] = bytesRead + k
    BY <1>3
  <1>5. n \in Nat /\ received + n <= Window
    <2> DEFINE w == Window - received
               m == Min({w, MaxPacket})
    <2>1. w \in Int /\ MaxPacket \in Int
      BY <1>3
    <2>2. m \in {w, MaxPacket} /\ m <= w
      <3> HIDE DEF w
      <3> QED BY <2>1, MinFacts, Zenon
    <2>3. n \in 1..m
      OBVIOUS
    <2> HIDE DEF m
    <2>4. n \in Nat /\ n <= w
      BY <2>1, <2>2, <2>3
    <2> QED BY <2>4, <1>3
  <1> DEFINE t == [k \in 1..n |-> received + k]
  <1>6. recvBuffer' = recvBuffer \o t
    <2>1. n < MaxBuffer - Len(recvBuffer)
      BY <1>3, <1>4, <1>5
    <2> QED BY <2>1, <1>2
  <1>7. /\ recvBuffer' \in Seq(Nat)
        /\ Len(recvBuffer') = received' - bytesRead
        /\ \A k \in 1..(received' - bytesRead) : recvBuffer'[k] = bytesRead + k
    <2>1. t \in Seq(Nat) /\ Len(t) = n /\ \A k \in 1..n : t[k] = received + k
      BY <1>3, <1>5
    <2> HIDE DEF t
    <2>2. \A k \in 1..Len(t) : t[k] = bytesRead + Len(recvBuffer) + k
      BY <2>1, <1>3, <1>4
    <2>3. /\ recvBuffer \o t \in Seq(Nat)
          /\ Len(recvBuffer \o t) = Len(recvBuffer) + Len(t)
          /\ \A k \in 1..Len(recvBuffer \o t) : (recvBuffer \o t)[k] = bytesRead + k
      BY ONLY <1>3, <1>4, <2>1, <2>2, AppendRun
    <2>4. Len(recvBuffer) + n = received' - bytesRead
      BY <1>2, <1>3, <1>4, <1>5
    <2> QED BY <2>1, <2>3, <2>4, <1>6
  <1>8. RecvInv'
    <2>1. recvBuffer' = [k \in 1..(received' - bytesRead) |-> bytesRead + k]
      BY <1>7
    <2> QED BY <2>1, <1>1, <1>2, <1>3, <1>5 DEF RecvInv
  <1>9. TypeInv'
    BY <1>0, <1>1, <1>2, <1>3, <1>5, <1>7 DEF TypeInv
  <1>10. OffsetInv' /\ GivenInv' /\ BufferInv'
    BY <1>0, <1>1 DEF OffsetInv, GivenInv, BufferInv
  <1> QED BY <1>8, <1>9, <1>10 DEF IInv

\* read takes bytes from the front.
LEMMA ReadInv ==
    ASSUME IInv, Read
    PROVE  IInv'
  <1>0. TypeInv /\ OffsetInv /\ GivenInv /\ BufferInv /\ RecvInv
    BY DEF IInv
  <1>1. UNCHANGED <<written, capacity, ackOffset, unacked, streamOffset, worker, packet, given,
                    received>>
    BY DEF Read, sending, acking
  <1>2. CASE UNCHANGED <<recvBuffer, bytesRead>>
    BY <1>1, <1>2, QuietStep
  <1>3. CASE \E n \in 1..Len(recvBuffer) :
                /\ bytesRead' = bytesRead + n
                /\ recvBuffer' = SubSeq(recvBuffer, n + 1, Len(recvBuffer))
    <2>1. PICK n \in 1..Len(recvBuffer) :
                /\ bytesRead' = bytesRead + n
                /\ recvBuffer' = SubSeq(recvBuffer, n + 1, Len(recvBuffer))
      BY <1>3
    <2>2. /\ received \in Nat /\ bytesRead \in Nat /\ bytesRead <= received
          /\ recvBuffer \in Seq(Nat)
          /\ recvBuffer = [k \in 1..(received - bytesRead) |-> bytesRead + k]
      BY <1>0 DEF TypeInv, RecvInv
    <2>3. /\ Len(recvBuffer) = received - bytesRead
          /\ \A k \in 1..Len(recvBuffer) : recvBuffer[k] = bytesRead + k
      BY <2>2
    <2>4. /\ recvBuffer' \in Seq(Nat)
          /\ Len(recvBuffer') = Len(recvBuffer) - n
          /\ \A k \in 1..(Len(recvBuffer) - n) : recvBuffer'[k] = bytesRead + n + k
      BY <2>1, <2>2, <2>3, RestOfRun
    <2>5. n \in Nat /\ bytesRead' \in Nat /\ bytesRead' <= received
          /\ Len(recvBuffer) - n = received - bytesRead'
      BY <2>1, <2>2, <2>3
    <2>6. recvBuffer' = [k \in 1..(received - bytesRead') |-> bytesRead' + k]
      <3>1. \A k \in 1..(received - bytesRead') : recvBuffer'[k] = bytesRead' + k
        BY <2>1, <2>4, <2>5
      <3>2. DOMAIN recvBuffer' = 1..(received - bytesRead')
        BY <2>4, <2>5
      <3> QED BY <3>1, <3>2, <2>4
    <2>7. RecvInv'
      BY <2>5, <2>6, <1>0, <1>1 DEF RecvInv
    <2>8. TypeInv'
      BY <2>4, <2>5, <1>0, <1>1 DEF TypeInv
    <2>9. OffsetInv' /\ GivenInv' /\ BufferInv'
      BY <1>0, <1>1 DEF OffsetInv, GivenInv, BufferInv
    <2> QED BY <2>7, <2>8, <2>9 DEF IInv
  <1> QED BY <1>2, <1>3 DEF Read

\* The invariant is inductive.
LEMMA NextIInv ==
    ASSUME IInv, [Next]_vars
    PROVE  IInv'
  <1>1. ASSUME SendGetStream \/ PollWritable \/ AwaitWritable
        PROVE  IInv'
    BY <1>1, QuietStep DEF SendGetStream, PollWritable, AwaitWritable, acking, receiving
  <1>2. ASSUME ReceiveGetStream \/ PollReadable \/ AwaitReadable
        PROVE  IInv'
    BY <1>2, QuietStep DEF ReceiveGetStream, PollReadable, AwaitReadable, sending, acking
  <1>3. ASSUME NothingToSend \/ WriteBlocked \/ SendFails \/ TakeNotification
               \/ RetryCongested \/ HandleExpiry
        PROVE  IInv'
    BY <1>3, QuietStep DEF NothingToSend, WriteBlocked, SendFails, TakeNotification,
                           RetryCongested, HandleExpiry, sending, acking, receiving
  <1>4. CASE UNCHANGED vars
    BY <1>4, QuietStep DEF vars
  <1> QED BY <1>1, <1>2, <1>3, <1>4, WriteInv, WriteStreamInv, WriteNonStreamInv, AdvanceInv,
             OnAckInv, OnReceivedDataInv, ReadInv
          DEF Next, SenderStep, ReaderStep, WorkerStep, WorkerWrites

--------------------------------------------------------------------------------
(* The stream: the theorems *)

\* The inductive invariant holds in every reachable state of the stream.
THEOREM Invariance == Spec => []IInv
  BY InitIInv, NextIInv, PTL DEF Spec

\* Every byte passes once and in order in both directions (peekUnsentData,
\* advanceSentData, onReceivedData, read), and none is dropped.
THEOREM BytesIntact == Spec => []StreamIntact
  <1>1. IInv => StreamIntact
    BY DEF IInv, TypeInv, GivenInv, RecvInv, StreamIntact
  <1> QED BY <1>1, Invariance, PTL

\* The assertions of onAck hold whenever the worker may call it.
THEOREM AckAssertionsHold == Spec => []AckAssertions
  <1>1. IInv => AckAssertions
    BY DEF IInv, TypeInv, OffsetInv, AckAssertions
  <1> QED BY <1>1, Invariance, PTL

\* The send buffer never holds more than its capacity, nor grows beyond MAX_BUFFER_SIZE,
\* and ngtcp2 is given only bytes that were written: write after a stale look at the
\* capacity included (pollWritable, sendCapacity, write).
THEOREM BufferBounded == Spec => []BufferInv
  <1>1. IInv => BufferInv
    BY DEF IInv
  <1> QED BY <1>1, Invariance, PTL

--------------------------------------------------------------------------------
(* The connection: the inductive invariant *)

\* m_closing is raised by whoever is to say goodbye, and while it is not nobody has.
ClosingInv ==
    /\ ~closing => workerTask # "closePacket" /\ owner # "closePacket" /\ closePackets = 0
    /\ workerTask = "closePacket" => owner # "closePacket" /\ closePackets = 0
    /\ owner = "closePacket" => closePackets = 0
    /\ closePackets \in {0, 1}

\* The owner has not called close() and has not given the connection up.
NotYetClosing == {"none", "connected", "error", "closing", "fullSend", "fullGoodbye"}

\* As long as that is so, only the worker can have raised m_closing; and when the worker has
\* ended all the same, its goodbye was said, or failed.
WorkerClosingInv ==
    /\ connector \in {"init", "handshake"} => owner = "none"
    /\ closing \in BOOLEAN /\ closed \in BOOLEAN /\ closeFailures \in Nat
    /\ owner \in NotYetClosing /\ closing => workerTask \in {"closePacket", "ended"}
    /\ workerTask = "ended" => closing

\* The owner of a connection whose worker is gone can see that it is closed, and so can one
\* that waits for its end once the worker has said goodbye; unless that failed.
EndIsVisible ==
    closeFailures = 0 =>
        /\ workerTask = "ended" /\ owner \in NotYetClosing => closed
        /\ owner = "waiting" => closed \/ workerTask = "closePacket"

LifeInv == ClosingInv /\ WorkerClosingInv /\ EndIsVisible

--------------------------------------------------------------------------------
(* The connection: the actions *)

LEMMA LifeStarts == LifeInit => LifeInv
  <1> SUFFICES ASSUME LifeInit PROVE LifeInv
    OBVIOUS
  <1>1. /\ workerTask = "starting" /\ owner = "none" /\ closePackets = 0 /\ closeFailures = 0
        /\ closing = FALSE /\ closed = FALSE
    BY DEF LifeInit
  <1>2. ClosingInv
    BY <1>1 DEF ClosingInv
  <1>3. WorkerClosingInv
    <2>1. closeFailures \in Nat
      BY <1>1
    <2> QED BY <1>1, <2>1, Zenon DEF WorkerClosingInv
  <1>4. EndIsVisible
    BY <1>1 DEF EndIsVisible, NotYetClosing
  <1> QED BY <1>2, <1>3, <1>4 DEF LifeInv

\* connect(), and the steps of the worker before it closes.
LEMMA LifeConnect ==
    ASSUME LifeInv, Connect
    PROVE  LifeInv'
  <1> USE DEF LifeInv, ClosingInv, WorkerClosingInv, EndIsVisible, NotYetClosing, flags, CloseSync
  <1>1. CASE CreateConn
    BY <1>1 DEF CreateConn
  <1>2. CASE CreateConnFails
    BY <1>2 DEF CreateConnFails
  <1>3. CASE Establish
    BY <1>3 DEF Establish
  <1>4. CASE EstablishFails
    BY <1>4 DEF EstablishFails
  <1> QED BY <1>1, <1>2, <1>3, <1>4 DEF Connect

LEMMA LifeRuns ==
    ASSUME LifeInv, WorkerRuns
    PROVE  LifeInv'
  <1>1. /\ UNCHANGED <<connector, owner, closing, closed, closeFailures, closePackets>>
        /\ workerTask \in {"starting", "connecting", "writes", "select"}
        /\ workerTask' \in {"connecting", "writes", "select", "closing"}
    BY DEF WorkerRuns, WorkerStart, WorkerConnected, HandleWrites,
           HandleWritesFails, Wake, IdleClose
  <1> QED BY <1>1 DEF LifeInv, ClosingInv, WorkerClosingInv, EndIsVisible, NotYetClosing

\* The worker closes: it says goodbye unless the owner is about to.
LEMMA LifeEnds ==
    ASSUME LifeInv, WorkerEnds
    PROVE  LifeInv'
  <1> USE DEF LifeInv, ClosingInv, WorkerClosingInv, EndIsVisible, NotYetClosing, flags, CloseSync
  <1>1. CASE WorkerCancelled
    BY <1>1 DEF WorkerCancelled
  <1>2. CASE WorkerClose
    BY <1>2 DEF WorkerClose
  <1>3. CASE WorkerClosePacket
    BY <1>3 DEF WorkerClosePacket
  <1>4. CASE WorkerClosePacketFails
    BY <1>4 DEF WorkerClosePacketFails
  <1> QED BY <1>1, <1>2, <1>3, <1>4 DEF WorkerEnds

\* The owner sends, notices, closes or gives up.
LEMMA LifeOwner ==
    ASSUME LifeInv, OwnerNotices \/ Disconnect \/ SendWaits \/ SendGoesOn
    PROVE  LifeInv'
  <1> USE DEF LifeInv, ClosingInv, WorkerClosingInv, EndIsVisible, NotYetClosing, flags, CloseSync
  <1>1. CASE SeesClosed \/ SeesFatalError \/ Disconnect \/ SendWaits
    BY <1>1 DEF SeesClosed, SeesFatalError, Disconnect, SendWaits
  <1>2. CASE DropSocket
    BY <1>2 DEF DropSocket
  <1>3. CASE OwnerClose
    BY <1>3 DEF OwnerClose
  <1>4. CASE OwnerClosePacket
    BY <1>4 DEF OwnerClosePacket
  <1>5. CASE OwnerClosePacketFails
    BY <1>5 DEF OwnerClosePacketFails
  <1>6. CASE AwaitClosed
    BY <1>6 DEF AwaitClosed
  <1>7. CASE SendGoesOn
    BY <1>7 DEF SendGoesOn
  <1> QED BY <1>1, <1>2, <1>3, <1>4, <1>5, <1>6, <1>7 DEF OwnerNotices

--------------------------------------------------------------------------------
(* The connection: the theorems *)

LEMMA LifeInvariant == LifeSpec => []LifeInv
  <1>1. LifeInv /\ UNCHANGED lifeVars => LifeInv'
    BY DEF LifeInv, ClosingInv, WorkerClosingInv, EndIsVisible, NotYetClosing, lifeVars
  <1>2. LifeInv /\ [LifeNext]_lifeVars => LifeInv'
    BY <1>1, LifeConnect, LifeRuns, LifeEnds, LifeOwner DEF LifeNext
  <1> QED BY <1>2, LifeStarts, PTL DEF LifeSpec

\* close(): whichever of worker and owner comes first, whatever fails in between, the server is
\* told at most once.
THEOREM GoodbyeOnce == LifeSpec => []OneGoodbye
  <1>1. LifeInv => OneGoodbye
    BY DEF LifeInv, ClosingInv, OneGoodbye
  <1> QED BY <1>1, LifeInvariant, PTL

\* m_closed, which is what the owner looks at, is set before the worker is gone, unless a close
\* packet failed: the safety half of DeadWorkerNoticed and CloseEnds.
THEOREM EndIsSeen == LifeSpec => []EndIsVisible
  <1>1. LifeInv => EndIsVisible
    BY DEF LifeInv
  <1> QED BY <1>1, LifeInvariant, PTL

================================================================================
