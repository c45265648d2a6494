------------------------------ MODULE UdpHandshake -----------------------------
(***************************************************************************)
(* UdpTransport::performHandshake: the client sends HandshakeStart until   *)
(* the server's answer has arrived in full.  The answer may come in chunks *)
(* (the server's database does not fit into one datagram) that are lost,   *)
(* reordered and, as every HandshakeStart is answered, repeated; messages  *)
(* the server sends after it may arrive in the middle of it.               *)
(*                                                                         *)
(* The server is not part of the repository: it answers every              *)
(* HandshakeStart, sends data of its own once it has, and may pack two     *)
(* messages into a datagram, which receiveMessageInner provides for.       *)
(***************************************************************************)
EXTENDS Integers, Sequences, FiniteSets

CONSTANTS
    Chunks,     \* number of chunks of the server's database
    MaxData,    \* bound: data messages the server sends
    MaxIds,     \* bound: connection ids the server gives out, one per answer
    Batching,   \* the servers there may be: whether they pack messages into one datagram
    Partials,   \* whether a datagram may bring only a part of a message
    Refusals    \* whether the server may refuse

ASSUME HandshakeAssumption ==
    /\ Chunks \in Nat \ {0} /\ MaxData \in Nat /\ MaxIds \in Nat \ {0}
    /\ Batching \subseteq BOOLEAN /\ Partials \in BOOLEAN /\ Refusals \in BOOLEAN

VARIABLES
    batching,   \* whether this server packs messages into one datagram
    starts,     \* a HandshakeStart is on its way to the server
    net,        \* datagrams on their way to the client, each a sequence of messages
    ids,        \* connection ids the server has given out
    dataSent,   \* data messages the server has sent
    pc,         \* where performHandshake is
    conn,       \* outMessage.connectionId
    chunks,     \* the chunks collected
    unexpected, \* unexpectedMessages
    pending,    \* m_pendingMessages
    taken       \* history: data messages read off the socket

serverVars == <<batching, ids, dataSent>>
clientVars == <<pc, conn, chunks, unexpected, pending, taken>>
vars == <<starts, net, serverVars, clientVars>>

--------------------------------------------------------------------------------
(* Messages *)

Chunk(c, i) == [kind |-> "chunk", conn |-> c, n |-> i]
Finish(c)   == [kind |-> "finish", conn |-> c, n |-> 0]
Failure     == [kind |-> "failure", conn |-> 0, n |-> 0]
Data(k)     == [kind |-> "data", conn |-> 0, n |-> k]

\* A datagram is the sequence of the whole messages in it: one that brings only a part of a
\* message is empty.
Part == <<>>

NoConn == 0

DataOf(d) == {d[i].n : i \in {j \in DOMAIN d : d[j].kind = "data"}}

--------------------------------------------------------------------------------
(* The server and the network, as long as the handshake lasts *)

Running == pc \in {"polling", "receiving"}

\* Every HandshakeStart is answered, with the database or, if the client seems to
\* have it, without; an answer to a repeated one may bring another connection id.
Answer ==
    /\ Running
    /\ starts
    /\ starts' = FALSE
    /\ \E c \in 1..MaxIds :
          /\ c <= ids + 1
          /\ ids' = IF c > ids THEN c ELSE ids
          /\ \/ net' = net \cup {<<Chunk(c, i)>> : i \in 1..Chunks}
             \/ net' = net \cup {<<Finish(c)>>}
    /\ UNCHANGED <<batching, dataSent, clientVars>>

Refuse ==
    /\ Refusals /\ Running
    /\ starts
    /\ starts' = FALSE
    /\ net' = net \cup {<<Failure>>}
    /\ UNCHANGED <<serverVars, clientVars>>

\* For the server the connection exists as soon as it has answered.
ServerData ==
    /\ Running
    /\ ids > 0
    /\ dataSent < MaxData
    /\ dataSent' = dataSent + 1
    /\ \E d \in {<<Data(dataSent + 1)>>} \cup (IF Partials THEN {Part} ELSE {}) :
          net' = net \cup {d}
    /\ UNCHANGED <<batching, starts, ids, clientVars>>

\* Data shares a datagram with another message; two chunks of the database, each of them
\* as large as a datagram may be, do not.
Pack ==
    /\ batching /\ Running
    /\ \E a, b \in {d \in net : Len(d) = 1} :
          /\ a # b
          /\ "data" \in {a[1].kind, b[1].kind}
          /\ net' = (net \ {a, b}) \cup {a \o b}
    /\ UNCHANGED <<starts, serverVars, clientVars>>

Lose ==
    /\ Running
    /\ \/ starts /\ starts' = FALSE /\ UNCHANGED net
       \/ UNCHANGED starts /\ \E d \in net : net' = net \ {d}
    /\ UNCHANGED <<serverVars, clientVars>>

--------------------------------------------------------------------------------
(* performHandshake *)

\* Mutant: once there is an answer, nothing is sent again.
ResendUntilAnswered ==
    /\ pc = "polling"
    /\ chunks = {}
    /\ starts' = TRUE
    /\ UNCHANGED <<net, serverVars, clientVars>>

\* 750ms without a message since the last one was sent.
Resend ==
    /\ pc = "polling"
    /\ starts' = TRUE
    /\ UNCHANGED <<net, serverVars, clientVars>>

\* Mutant: what was set aside is forgotten.
CompleteForgetting(c, all) ==
    /\ pc' = "done"
    /\ conn' = c
    /\ chunks' = all
    /\ pending' = <<>>
    /\ unexpected' = <<>>

\* The loop ends: what was set aside takes the place of the pending messages.
Complete(c, all) ==
    /\ pc' = "done"
    /\ conn' = c
    /\ chunks' = all
    /\ pending' = unexpected
    /\ unexpected' = <<>>

\* The loop goes on with another turn.
Continue(c, all, queue) ==
    /\ pc' = "polling"
    /\ conn' = c
    /\ chunks' = all
    /\ pending' = queue
    /\ UNCHANGED unexpected

\* The loop ends with an error, or with the server's refusal.
Fail(why, queue) ==
    /\ pc' = why
    /\ pending' = queue
    /\ UNCHANGED <<conn, chunks, unexpected>>

\* A refusal ends the handshake, and so does an answer without a database; anything
\* that is no answer is set aside.
HandleOther(m, queue) ==
    \/ m.kind = "failure" /\ Fail("refused", queue)
    \/ /\ m.kind = "data"
       /\ unexpected' = Append(unexpected, m)
       /\ pc' = "polling"
       /\ pending' = queue
       /\ UNCHANGED <<conn, chunks>>
    \/ m.kind = "finish" /\ Complete(m.conn, {})

\* Mutant: chunks of different answers are put together.
HandleChunkAnyConn(m, queue) ==
    /\ m.kind = "chunk"
    /\ \/ /\ \E c \in chunks : c.n = m.n
          /\ Continue(conn, chunks, queue)
       \/ /\ \A c \in chunks : c.n # m.n
          /\ \/ /\ Cardinality(chunks) + 1 = Chunks
                /\ Complete(m.conn, chunks \cup {m})
             \/ /\ Cardinality(chunks) + 1 # Chunks
                /\ Continue(m.conn, chunks \cup {m}, queue)

\* The first chunk determines the connection id, the others have to agree with it;
\* the sizes of the chunks tell when all of them are there.
HandleChunk(m, queue) ==
    /\ m.kind = "chunk"
    /\ \/ /\ chunks # {}
          /\ m.conn # conn
          /\ Fail("mismatch", queue)
       \/ /\ chunks # {}
          /\ m.conn = conn
          /\ \E c \in chunks : c.n = m.n
          /\ Continue(conn, chunks, queue)
       \/ /\ \/ chunks = {}
             \/ m.conn = conn /\ \A c \in chunks : c.n # m.n
          /\ \/ /\ Cardinality(chunks) + 1 = Chunks
                /\ Complete(m.conn, chunks \cup {m})
             \/ /\ Cardinality(chunks) + 1 # Chunks
                /\ Continue(m.conn, chunks \cup {m}, queue)

Handle(m, queue) == HandleOther(m, queue) \/ HandleChunk(m, queue)

\* The socket is readable, yet receiveMessage looks at m_pendingMessages first.
TakePending ==
    /\ pc = "polling"
    /\ net # {}
    /\ pending # <<>>
    /\ Handle(Head(pending), Tail(pending))
    /\ UNCHANGED <<starts, net, serverVars, taken>>

\* A datagram: its first message is handled, the others are queued.  With nothing
\* in it to return, receiveMessage goes on waiting, without a time limit.
TakeDatagram ==
    /\ Running
    /\ pending = <<>>
    /\ \E d \in net :
          /\ net' = net \ {d}
          /\ taken' = taken \cup DataOf(d)
          /\ \/ /\ d # Part
                /\ Handle(Head(d), Tail(d))
             \/ /\ d = Part
                /\ pc' = "receiving"
                /\ UNCHANGED <<conn, chunks, unexpected, pending>>
    /\ UNCHANGED <<starts, serverVars>>

\* Socket::connect gives the handshake a limited time and drops it afterwards, together
\* with the socket and whatever was on its way to it.
TimeOut ==
    /\ Running
    /\ pc' = "timedOut"
    /\ starts' = FALSE
    /\ net' = {}
    /\ conn' = NoConn
    /\ chunks' = {}
    /\ unexpected' = <<>>
    /\ pending' = <<>>
    /\ taken' = {}
    /\ UNCHANGED serverVars

--------------------------------------------------------------------------------

Init ==
    /\ batching \in Batching
    /\ starts = TRUE
    /\ net = {}
    /\ ids = 0
    /\ dataSent = 0
    /\ pc = "polling"
    /\ conn = NoConn
    /\ chunks = {}
    /\ unexpected = <<>>
    /\ pending = <<>>
    /\ taken = {}

Next ==
    \/ Answer \/ Refuse \/ ServerData \/ Pack \/ Lose
    \/ Resend \/ TakePending \/ TakeDatagram \/ TimeOut

Spec == Init /\ [][Next]_vars

\* The client's loop runs and its timer fires; the network does not lose the same part of
\* the answer for ever, and the server answers.
Fairness ==
    /\ WF_vars(Resend)
    /\ SF_vars(Answer)
    /\ SF_vars(TakePending)
    /\ \A i \in 1..Chunks :
          SF_vars(TakeDatagram /\ \E c \in 1..MaxIds : <<Chunk(c, i)>> \in net \ net')
    /\ SF_vars(TakeDatagram /\ \E c \in 1..MaxIds : <<Finish(c)>> \in net \ net')

FairSpec == Spec /\ Fairness

--------------------------------------------------------------------------------
(* Properties *)

Over == {"done", "refused", "mismatch", "timedOut"}

\* A handshake that is over with the database has all of it, put together from one
\* answer of the server: repeated, reordered and mixed answers notwithstanding.
WholeAnswer ==
    pc = "done" =>
       /\ conn \in 1..ids
       /\ \A c \in chunks : c.conn = conn
       /\ chunks # {} => {c.n : c \in chunks} = 1..Chunks

\* "Messages may arrive out of order, store unexpected messages for later": what
\* was read during the handshake is there to be received after it, if every message
\* came in a datagram of its own.
UnexpectedKept ==
    pc = "done" /\ ~batching => \A k \in taken : \E i \in DOMAIN pending : pending[i] = Data(k)

\* The same whatever the datagrams, which is more than the code keeps: what shares the
\* datagram that completes the handshake is in m_pendingMessages when that is replaced.
BatchedKept ==
    pc = "done" => \A k \in taken : \E i \in DOMAIN pending : pending[i] = Data(k)

\* "If no message arrives within that time, the handshake message is sent again":
\* with nothing to read, the client is always in the part of the loop that does so.
ResendsWhenSilent ==
    pc = "receiving" => net # {}

\* The handshake comes to an end by itself, however many datagrams are lost on the way
\* and however answers mix; unless a datagram without a whole message was the last, after
\* which receiveMessage waits without a time limit and only Socket::connect ends it.
HandshakeEnds == <>(pc \in Over \/ [](pc = "receiving"))

================================================================================
