----------------------------- MODULE StreamFraming -----------------------------
(***************************************************************************)
(* Messages on a byte stream (TCP and QUIC): each is preceded by its       *)
(* length, and streamcommon::receiveMessage puts them together again from  *)
(* whatever chunks the stream returns, in a circular buffer that outlives  *)
(* the call.  The worker of Connection drops a call that is waiting for    *)
(* data whenever something else happens, and calls again after an error,   *)
(* as none of those below is fatal.                                        *)
(*                                                                         *)
(* A byte is its position in the stream.                                   *)
(***************************************************************************)
EXTENDS Naturals, Sequences, SequencesExt

CONSTANTS
    Lengths,      \* lengths of the messages the server may send
    MaxMessages,  \* bound: messages
    Header,       \* bytes of the length (4)
    Initial,      \* initial capacity of the buffer (512)
    Reserve,      \* bytes there is to be room for before more is read (2048)
    Full,         \* the buffer does not grow from this capacity on (1 MiB)
    StartsOver,   \* the buffer starts over at its beginning once it is empty
    SizeLimit,    \* m_messageSizeLimit, 0 for none
    MaxCancels    \* bound: calls dropped

ASSUME StreamFramingAssumption ==
    /\ Lengths \subseteq Nat /\ MaxMessages \in Nat /\ MaxCancels \in Nat
    /\ Header \in Nat \ {0} /\ Initial \in Nat \ {0} /\ Reserve \in Nat \ {0}
    /\ Full \in Nat /\ SizeLimit \in Nat /\ StartsOver \in BOOLEAN

VARIABLES
    wire,      \* the messages the server has sent: their lengths, and where they start
    arrived,   \* bytes read from the stream
    front,     \* position of the first byte in the buffer
    capacity,  \* of the buffer
    readPos,   \* index of that first byte
    step,      \* where receiveMessage is: "idle", "parse" or "reading"
    window,    \* contiguous room, while reading
    error,     \* of the last call, if it failed
    cancels,
    (* history *)
    returned   \* the messages returned

buffer == <<arrived, front, capacity, readPos>>
framingVars == <<wire, arrived, front, capacity, readPos, step, window, error, cancels, returned>>

--------------------------------------------------------------------------------

\* Bytes a message takes up.  HandshakeStart and ClientReconnect, which the client sends
\* first, have no length; the server sends neither.
Frame(length) == Header + length

\* Bytes the server has sent.
Sent == IF wire = <<>> THEN 0 ELSE Last(wire).at + Frame(Last(wire).len)

\* The length to be read at a position; off the boundaries anything is read.
LengthAt(p) ==
    IF \E k \in DOMAIN wire : wire[k].at = p
    THEN wire[CHOOSE k \in DOMAIN wire : wire[k].at = p].len
    ELSE 1

Size == arrived - front

\* writeWindow: the room from the write position to the end of the buffer, or to the
\* first byte in it.
WriteWindow(cap, rpos) ==
    LET wpos == (rpos + Size) % cap
    IN  IF Size = cap THEN 0 ELSE IF wpos >= rpos THEN cap - wpos ELSE rpos - wpos

\* Where the first byte is once n bytes have been skipped.
Skip(n) == IF StartsOver /\ n = Size THEN 0 ELSE (readPos + n) % capacity

FramingInit ==
    /\ wire = <<>> /\ arrived = 0 /\ front = 0 /\ capacity = Initial /\ readPos = 0
    /\ step = "idle" /\ window = 0 /\ error = "none" /\ cancels = 0 /\ returned = <<>>

--------------------------------------------------------------------------------

ServerSends ==
    /\ Len(wire) < MaxMessages
    /\ \E n \in Lengths : wire' = Append(wire, [at |-> Sent, len |-> n])
    /\ UNCHANGED <<buffer, step, window, error, cancels, returned>>

Call ==
    /\ step = "idle"
    /\ step' = "parse" /\ error' = "none"
    /\ UNCHANGED <<wire, buffer, window, cancels, returned>>

\* Mutant: the buffer is taken to be full as soon as it has no room.
WaitForDataFull ==
    \/ /\ WriteWindow(capacity, readPos) > 0
       /\ window' = WriteWindow(capacity, readPos)
       /\ step' = "reading"
       /\ UNCHANGED <<capacity, readPos, error>>
    \/ /\ WriteWindow(capacity, readPos) = 0
       /\ error' = "NoBufferSpace" /\ step' = "idle"
       /\ UNCHANGED <<window, capacity, readPos>>

\* waitForData, up to the call of receive: make room unless the buffer is large enough.
WaitForData ==
    \/ /\ WriteWindow(capacity, readPos) >= Reserve
       /\ window' = WriteWindow(capacity, readPos)
       /\ step' = "reading"
       /\ UNCHANGED <<capacity, readPos, error>>
    \/ /\ WriteWindow(capacity, readPos) < Reserve /\ capacity >= Full
       /\ error' = "NoBufferSpace" /\ step' = "idle"
       /\ UNCHANGED <<window, capacity, readPos>>
    \/ /\ WriteWindow(capacity, readPos) < Reserve /\ capacity < Full
       /\ \/ /\ capacity - Size >= Reserve       \* reserve has nothing to do
             /\ UNCHANGED <<capacity, readPos>>
          \/ /\ capacity - Size < Reserve        \* the bytes move to the front
             /\ capacity' \in {c \in {Size + Reserve, 2 * capacity} : c >= Size + Reserve}
             /\ readPos' = 0
       /\ window' = WriteWindow(capacity', readPos')
       /\ step' = "reading"
       /\ UNCHANGED error

\* Not enough for the length, or for the message.
NeedData ==
    /\ step = "parse"
    /\ \/ Size < Header
       \/ /\ Size >= Header /\ LengthAt(front) # 0
          /\ SizeLimit = 0 \/ LengthAt(front) <= SizeLimit
          /\ Size < Frame(LengthAt(front))
    /\ WaitForData
    /\ UNCHANGED <<wire, arrived, front, cancels, returned>>

SkipEmpty ==
    /\ step = "parse" /\ Size >= Header /\ LengthAt(front) = 0
    /\ front' = front + Header
    /\ readPos' = Skip(Header)
    /\ UNCHANGED <<wire, arrived, capacity, step, window, error, cancels, returned>>

TooLong ==
    /\ step = "parse" /\ Size >= Header
    /\ SizeLimit > 0 /\ LengthAt(front) > SizeLimit
    /\ error' = "MessageTooLong" /\ step' = "idle"
    /\ UNCHANGED <<wire, buffer, window, cancels, returned>>

\* Mutant: the length is only peeked at.
ReturnWithoutSkip ==
    /\ step = "parse" /\ Size >= Header
    /\ LET n == LengthAt(front)
       IN  /\ n # 0 /\ (SizeLimit = 0 \/ n <= SizeLimit)
           /\ Size >= Frame(n)
           /\ returned' = Append(returned, [at |-> front, len |-> n])
           /\ front' = front + n
           /\ readPos' = Skip(n)
    /\ step' = "idle"
    /\ UNCHANGED <<wire, arrived, capacity, window, error, cancels>>

\* A whole message is taken out and decoded.  It may fail to decode; it is taken out then too.
Return ==
    /\ step = "parse" /\ Size >= Header
    /\ LET n == LengthAt(front)
       IN  /\ n # 0 /\ (SizeLimit = 0 \/ n <= SizeLimit)
           /\ Size >= Frame(n)
           /\ returned' = Append(returned, [at |-> front, len |-> n])
           /\ front' = front + Frame(n)
           /\ readPos' = Skip(Frame(n))
    /\ step' = "idle"
    /\ UNCHANGED <<wire, arrived, capacity, window, error, cancels>>

\* The stream returns a chunk that fits into the window.
DataArrives ==
    /\ step = "reading"
    /\ \E n \in 1..window :
         /\ arrived + n <= Sent
         /\ arrived' = arrived + n
    /\ step' = "parse" /\ window' = 0
    /\ UNCHANGED <<wire, front, capacity, readPos, error, cancels, returned>>

\* The call is dropped: a message to send, a timer, a notification.
Cancel ==
    /\ step = "reading" /\ cancels < MaxCancels
    /\ cancels' = cancels + 1
    /\ step' = "idle" /\ window' = 0
    /\ UNCHANGED <<wire, buffer, error, returned>>

Receiver == Call \/ NeedData \/ SkipEmpty \/ TooLong \/ Return \/ DataArrives

FramingNext == ServerSends \/ Receiver \/ Cancel

FramingSpec == FramingInit /\ [][FramingNext]_framingVars

(* The worker of Connection keeps calling, and the stream returns what has arrived. *)
FairFramingSpec == FramingSpec /\ WF_framingVars(Receiver)

--------------------------------------------------------------------------------

\* receiveMessage returns the messages of the server in order and whole, all of those up to
\* where it is and only those, whatever the chunks and whichever calls are dropped; empty ones
\* are left out.  It is never out of step with the lengths.
MessagesIntact ==
    /\ \A i \in DOMAIN returned : returned[i] \in ToSet(wire) /\ returned[i].len > 0
    /\ \A i, j \in DOMAIN returned : i < j => returned[i].at < returned[j].at
    /\ \A k \in DOMAIN wire : wire[k].at < front /\ wire[k].len > 0 => wire[k] \in ToSet(returned)
    /\ front = Sent \/ \E k \in DOMAIN wire : front = wire[k].at

\* While receive is waiting, the room it was given is free and in one piece, wherever in the
\* circular buffer the bytes are that have not been taken out and however it has grown.
NoOverwrite ==
    /\ Size <= capacity
    /\ step = "reading" =>
           /\ window > 0 /\ Size + window <= capacity
           /\ ((readPos + Size) % capacity) + window <= capacity

\* "No buffer space available": there is none, less than what is to be reserved.
NoSpuriousError == error = "NoBufferSpace" => capacity - Size < Reserve

\* Every message is returned, the buffer growing as needed, whichever calls are dropped;
\* unless one is longer than the limit, or the buffer has reached its largest size and
\* the call fails.
AllReturned ==
    []<>(\/ \A k \in DOMAIN wire : wire[k].len > 0 => wire[k] \in ToSet(returned)
         \/ SizeLimit > 0 /\ \E k \in DOMAIN wire : wire[k].len > SizeLimit
         \/ error = "NoBufferSpace" /\ capacity >= Full)

================================================================================
