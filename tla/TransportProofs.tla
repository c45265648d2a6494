---------------------------- MODULE TransportProofs ----------------------------
(***************************************************************************)
(* The parts of the transports below the messages:                         *)
(*                                                                         *)
(* UdpHandshake: a finished handshake has the whole of one answer, and     *)
(* nothing that arrived during it is lost if every message comes in a      *)
(* datagram of its own; for every number of chunks, answers and data       *)
(* messages, however they are lost, repeated, mixed and packed.            *)
(*                                                                         *)
(* Keepalive: a server that has gone away is noticed in time and one that  *)
(* answers is not given up; for all intervals, limits and transports.      *)
(*                                                                         *)
(* StreamFraming: messages come out of a byte stream whole and in order,   *)
(* and nothing in the circular buffer is overwritten; for every header,    *)
(* buffer size and limit, whatever the chunks.                             *)
(*                                                                         *)
(* Datagram: every message of a datagram is found and read, and the        *)
(* application gets them in order; for all messages the two sides know.    *)
(***************************************************************************)
EXTENDS UdpHandshake, Keepalive, StreamFraming, Datagram, FiniteSetTheorems, TLAPS

--------------------------------------------------------------------------------
(* Handshake over UDP: the inductive invariant *)

Messages == [kind : {"chunk", "finish", "failure", "data"}, conn : Nat, n : Nat]

\* A message the server may have sent after it has given out the first `given' ids.
Genuine(m, given) ==
    /\ m \in Messages
    /\ m.kind \in {"chunk", "finish"} => m.conn \in 1..given
    /\ m.kind = "chunk" => m.n \in 1..Chunks
    /\ m.kind = "data" => m = Data(m.n)

AllGenuine(s, given) == s \in Seq(Messages) /\ \A i \in DOMAIN s : Genuine(s[i], given)

\* The numbers of the chunks in a set.
Numbers(set) == {c.n : c \in set}

TypeInv ==
    /\ ids \in Nat /\ dataSent \in Nat
    /\ conn \in Nat
    /\ batching \in BOOLEAN
    /\ \A d \in net : AllGenuine(d, ids)
    /\ AllGenuine(pending, ids)
    /\ AllGenuine(unexpected, ids)

\* The chunks collected belong to one answer, and no two of them are the same part of it:
\* counting them is counting the parts.
ChunksInv ==
    /\ IsFiniteSet(chunks)
    /\ \A c \in chunks : c.conn = conn /\ c.n \in 1..Chunks
    /\ chunks # {} => conn \in 1..ids
    /\ Cardinality(Numbers(chunks)) = Cardinality(chunks)

\* The data messages read so far are in s.
Kept(s) == \A k \in taken : \E i \in DOMAIN s : s[i] = Data(k)

\* One message in a datagram: nothing is ever pending, and what is no answer is set aside.
SingleInv ==
    ~batching =>
       /\ \A d \in net : Len(d) <= 1
       /\ Running => pending = <<>> /\ Kept(unexpected)

IInv == TypeInv /\ ChunksInv /\ WholeAnswer /\ SingleInv /\ UnexpectedKept

--------------------------------------------------------------------------------
(* Facts about the operators *)

\* Another id given out does not make a message less genuine.
LEMMA GenuineMore ==
    ASSUME NEW s, NEW j \in Nat, NEW k \in Nat, j <= k, AllGenuine(s, j)
    PROVE  AllGenuine(s, k)
  <1>1. \A x \in 1..j : x \in 1..k
    OBVIOUS
  <1> QED BY <1>1 DEF AllGenuine, Genuine

\* A datagram of one message.
LEMMA GenuineSingle ==
    ASSUME NEW k \in Nat, NEW m, Genuine(m, k)
    PROVE  AllGenuine(<<m>>, k) /\ Len(<<m>>) = 1
  <1>1. m \in Messages
    BY DEF Genuine
  <1>2. <<m>> \in Seq(Messages) /\ DOMAIN <<m>> = 1..1 /\ <<m>>[1] = m
    BY <1>1
  <1>3. \A i \in 1..1 : i = 1
    OBVIOUS
  <1> QED BY <1>2, <1>3 DEF AllGenuine

\* The first message of a datagram, and the others.
LEMMA GenuineParts ==
    ASSUME NEW k \in Nat, NEW s, AllGenuine(s, k), s # <<>>
    PROVE  /\ Genuine(Head(s), k) /\ Head(s) = s[1]
           /\ AllGenuine(Tail(s), k)
           /\ Len(s) <= 1 => Tail(s) = <<>> /\ DOMAIN s = {1}
  <1>1. s \in Seq(Messages) /\ Len(s) \in Nat \ {0} /\ DOMAIN s = 1..Len(s)
    BY DEF AllGenuine
  <1>2. Head(s) = s[1] /\ 1 \in DOMAIN s
    BY <1>1
  <1>3. /\ Tail(s) \in Seq(Messages) /\ DOMAIN Tail(s) = 1..(Len(s) - 1)
        /\ \A i \in 1..(Len(s) - 1) : Tail(s)[i] = s[i + 1] /\ i + 1 \in DOMAIN s
    BY <1>1
  <1>4. AllGenuine(Tail(s), k)
    BY <1>3 DEF AllGenuine
  <1>5. ASSUME Len(s) <= 1
        PROVE  Tail(s) = <<>> /\ DOMAIN s = {1}
    <2>1. Len(s) = 1
      BY <1>1, <1>5
    <2>2. Len(Tail(s)) = 0
      BY <1>1, <2>1
    <2>3. 1..1 = {1}
      OBVIOUS
    <2> QED BY <1>1, <1>3, <2>1, <2>2, <2>3
  <1> QED BY <1>2, <1>4, <1>5 DEF AllGenuine

LEMMA GenuineAppend ==
    ASSUME NEW k \in Nat, NEW s, AllGenuine(s, k), NEW m, Genuine(m, k)
    PROVE  AllGenuine(Append(s, m), k)
  <1>1. s \in Seq(Messages) /\ Len(s) \in Nat /\ DOMAIN s = 1..Len(s) /\ m \in Messages
    BY DEF AllGenuine, Genuine
  <1>2. /\ Append(s, m) \in Seq(Messages)
        /\ DOMAIN Append(s, m) = 1..(Len(s) + 1)
        /\ \A i \in 1..Len(s) : Append(s, m)[i] = s[i]
        /\ Append(s, m)[Len(s) + 1] = m
    BY <1>1
  <1>3. \A i \in 1..(Len(s) + 1) : i \in 1..Len(s) \/ i = Len(s) + 1
    BY <1>1
  <1> QED BY <1>1, <1>2, <1>3 DEF AllGenuine

\* Two datagrams in one.
LEMMA GenuineConcat ==
    ASSUME NEW k \in Nat, NEW s, AllGenuine(s, k), NEW t, AllGenuine(t, k)
    PROVE  AllGenuine(s \o t, k)
  <1>1. /\ s \in Seq(Messages) /\ Len(s) \in Nat /\ DOMAIN s = 1..Len(s)
        /\ t \in Seq(Messages) /\ Len(t) \in Nat /\ DOMAIN t = 1..Len(t)
    BY DEF AllGenuine
  <1>2. s \o t \in Seq(Messages) /\ DOMAIN (s \o t) = 1..(Len(s) + Len(t))
    BY <1>1
  <1>3. ASSUME NEW i \in 1..(Len(s) + Len(t))
        PROVE  Genuine((s \o t)[i], k)
    <2>1. CASE i <= Len(s)
      <3>1. i \in DOMAIN s /\ (s \o t)[i] = s[i]
        BY <2>1, <1>1
      <3> QED BY <3>1 DEF AllGenuine
    <2>2. CASE i > Len(s)
      <3>1. i - Len(s) \in DOMAIN t /\ (s \o t)[i] = t[i - Len(s)]
        BY <2>2, <1>1
      <3> QED BY <3>1 DEF AllGenuine
    <2> QED BY <2>1, <2>2, <1>1
  <1> QED BY <1>2, <1>3 DEF AllGenuine

\* Another part of the answer: the chunks and their numbers both become one more.
LEMMA ChunkAdded ==
    ASSUME NEW S, IsFiniteSet(S), Cardinality(Numbers(S)) = Cardinality(S),
           \A c \in S : c.n \in 1..Chunks,
           NEW m, m.n \in 1..Chunks, \A c \in S : c.n # m.n
    PROVE  /\ IsFiniteSet(S \cup {m})
           /\ Cardinality(S \cup {m}) = Cardinality(S) + 1
           /\ Cardinality(Numbers(S \cup {m})) = Cardinality(S \cup {m})
  <1>1. IsFiniteSet(1..Chunks)
    BY HandshakeAssumption, FS_Interval DEF HandshakeAssumption
  <1>2. Numbers(S) \in SUBSET (1..Chunks)
    BY DEF Numbers
  <1>3. IsFiniteSet(Numbers(S))
    BY <1>1, <1>2, FS_Subset
  <1>4. m \notin S /\ m.n \notin Numbers(S)
    BY DEF Numbers
  <1>5. Numbers(S \cup {m}) = Numbers(S) \cup {m.n}
    BY DEF Numbers
  <1>6. IsFiniteSet(S \cup {m}) /\ Cardinality(S \cup {m}) = Cardinality(S) + 1
    BY <1>4, FS_AddElement
  <1>7. Cardinality(Numbers(S) \cup {m.n}) = Cardinality(Numbers(S)) + 1
    BY <1>3, <1>4, FS_AddElement
  <1> QED BY <1>5, <1>6, <1>7

\* As many chunks as there are: all of them.
LEMMA AllNumbers ==
    ASSUME NEW S, \A c \in S : c.n \in 1..Chunks, Cardinality(Numbers(S)) = Chunks
    PROVE  Numbers(S) = 1..Chunks
  <1>1. IsFiniteSet(1..Chunks) /\ Cardinality(1..Chunks) = Chunks
    <2>1. 1 \in Int /\ Chunks \in Int /\ Chunks >= 1
      BY HandshakeAssumption DEF HandshakeAssumption
    <2>2. /\ IsFiniteSet(1..Chunks)
          /\ Cardinality(1..Chunks) = IF 1 > Chunks THEN 0 ELSE Chunks - 1 + 1
      BY <2>1, FS_Interval
    <2> QED BY <2>1, <2>2
  <1>2. Numbers(S) \in SUBSET (1..Chunks)
    BY DEF Numbers
  <1> QED BY <1>1, <1>2, FS_Subset

--------------------------------------------------------------------------------
(* performHandshake and a message *)

LEMMA ChunksKept ==
    ASSUME ChunksInv, UNCHANGED <<chunks, conn, ids>>
    PROVE  ChunksInv'
  BY DEF ChunksInv

\* A chunk that was not there yet.
LEMMA NewChunk ==
    ASSUME TypeInv, ChunksInv, NEW m, Genuine(m, ids), m.kind = "chunk",
           chunks = {} \/ (m.conn = conn /\ \A c \in chunks : c.n # m.n),
           conn' = m.conn, chunks' = chunks \cup {m}, ids' = ids
    PROVE  /\ ChunksInv'
           /\ Cardinality(chunks') = Cardinality(chunks) + 1
           /\ conn' \in Nat /\ conn' \in 1..ids
  <1>1. m.conn \in 1..ids /\ m.n \in 1..Chunks
    BY DEF Genuine
  <1>2. /\ IsFiniteSet(chunks \cup {m})
        /\ Cardinality(chunks \cup {m}) = Cardinality(chunks) + 1
        /\ Cardinality(Numbers(chunks \cup {m})) = Cardinality(chunks \cup {m})
    BY <1>1, ChunkAdded DEF ChunksInv
  <1>3. \A c \in chunks \cup {m} : c.conn = m.conn /\ c.n \in 1..Chunks
    BY <1>1 DEF ChunksInv
  <1>4. m.conn \in Nat
    BY DEF Genuine, Messages
  <1> QED BY <1>1, <1>2, <1>3, <1>4 DEF ChunksInv, Numbers

\* Whatever the message, the chunks stay parts of one answer; and when the loop ends with the
\* database, it is all there.
LEMMA HandleGood ==
    ASSUME TypeInv, ChunksInv, NEW m, NEW queue, Genuine(m, ids), AllGenuine(queue, ids),
           Handle(m, queue), ids' = ids
    PROVE  /\ AllGenuine(pending', ids) /\ AllGenuine(unexpected', ids) /\ conn' \in Nat
           /\ ChunksInv' /\ WholeAnswer'
  <1>1. /\ ids \in Nat /\ conn \in Nat
        /\ AllGenuine(pending, ids) /\ AllGenuine(unexpected, ids)
    BY DEF TypeInv
  <1>2. ASSUME NEW why, Fail(why, queue), why # "done"
        PROVE  /\ AllGenuine(pending', ids) /\ AllGenuine(unexpected', ids) /\ conn' \in Nat
               /\ ChunksInv' /\ WholeAnswer'
    <2>1. pc' # "done" /\ pending' = queue /\ UNCHANGED <<conn, chunks, unexpected>>
      BY <1>2 DEF Fail
    <2> QED BY <1>1, <2>1, ChunksKept DEF WholeAnswer
  <1>3. CASE m.kind = "failure" /\ Fail("refused", queue)
    BY <1>2, <1>3
  <1>4. CASE /\ m.kind = "data"
             /\ unexpected' = Append(unexpected, m)
             /\ pc' = "polling"
             /\ pending' = queue
             /\ UNCHANGED <<conn, chunks>>
    <2>1. AllGenuine(unexpected', ids)
      BY <1>1, <1>4, GenuineAppend
    <2>2. ChunksInv' /\ WholeAnswer'
      BY <1>4, ChunksKept DEF WholeAnswer
    <2> QED BY <1>1, <1>4, <2>1, <2>2
  <1>5. CASE m.kind = "finish" /\ Complete(m.conn, {})
    <2>1. chunks' = {} /\ conn' = m.conn /\ pending' = unexpected /\ unexpected' = <<>>
      BY <1>5 DEF Complete
    <2>2. m.conn \in 1..ids /\ m.conn \in Nat
      BY <1>5 DEF Genuine, Messages
    <2>3. Numbers(chunks') = {}
      BY <2>1 DEF Numbers
    <2>4. IsFiniteSet({}) /\ Cardinality({}) = 0
      BY FS_EmptySet
    <2>5. ChunksInv'
      BY <2>1, <2>3, <2>4 DEF ChunksInv, Numbers
    <2>6. WholeAnswer'
      BY <2>1, <2>2 DEF WholeAnswer
    <2>7. AllGenuine(unexpected', ids)
      BY <2>1 DEF AllGenuine
    <2> QED BY <1>1, <2>1, <2>2, <2>5, <2>6, <2>7
  <1>6. CASE HandleChunk(m, queue)
    <2>1. CASE Fail("mismatch", queue)
      BY <1>2, <2>1
    <2>2. CASE Continue(conn, chunks, queue)
      <3>1. pc' # "done" /\ pending' = queue /\ UNCHANGED <<conn, chunks, unexpected>>
        BY <2>2 DEF Continue
      <3> QED BY <1>1, <3>1, ChunksKept DEF WholeAnswer
    <2>3. ASSUME chunks = {} \/ (m.conn = conn /\ \A c \in chunks : c.n # m.n),
                 Cardinality(chunks) + 1 = Chunks, Complete(m.conn, chunks \cup {m})
          PROVE  /\ AllGenuine(pending', ids) /\ AllGenuine(unexpected', ids) /\ conn' \in Nat
                 /\ ChunksInv' /\ WholeAnswer'
      <3>1. /\ chunks' = chunks \cup {m} /\ conn' = m.conn
            /\ pending' = unexpected /\ unexpected' = <<>>
        BY <2>3 DEF Complete
      <3>2. m.kind = "chunk"
        BY <1>6 DEF HandleChunk
      <3>3. /\ ChunksInv'
            /\ Cardinality(chunks') = Cardinality(chunks) + 1
            /\ conn' \in Nat /\ conn' \in 1..ids
        BY <2>3, <3>1, <3>2, NewChunk
      <3>4. /\ Cardinality(Numbers(chunks')) = Chunks
            /\ \A c \in chunks' : c.conn = conn' /\ c.n \in 1..Chunks
        BY <2>3, <3>3 DEF ChunksInv, Numbers
      <3>5. Numbers(chunks') = 1..Chunks
        BY <3>4, AllNumbers
      <3>6. WholeAnswer'
        BY <3>3, <3>4, <3>5 DEF WholeAnswer, Numbers
      <3>7. AllGenuine(unexpected', ids)
        BY <3>1 DEF AllGenuine
      <3> QED BY <1>1, <3>1, <3>3, <3>6, <3>7
    <2>4. ASSUME chunks = {} \/ (m.conn = conn /\ \A c \in chunks : c.n # m.n),
                 Continue(m.conn, chunks \cup {m}, queue)
          PROVE  /\ AllGenuine(pending', ids) /\ AllGenuine(unexpected', ids) /\ conn' \in Nat
                 /\ ChunksInv' /\ WholeAnswer'
      <3>1. /\ chunks' = chunks \cup {m} /\ conn' = m.conn /\ pc' # "done"
            /\ pending' = queue /\ unexpected' = unexpected
        BY <2>4 DEF Continue
      <3>2. m.kind = "chunk"
        BY <1>6 DEF HandleChunk
      <3>3. ChunksInv' /\ conn' \in Nat
        BY <2>4, <3>1, <3>2, NewChunk
      <3> QED BY <1>1, <3>1, <3>3 DEF WholeAnswer
    <2> QED BY <1>6, <2>1, <2>2, <2>3, <2>4 DEF HandleChunk
  <1> QED BY <1>3, <1>4, <1>5, <1>6 DEF Handle, HandleOther

\* A message that came alone: it is set aside, or it is no data.
LEMMA HandleKept ==
    ASSUME NEW m, NEW k \in Nat, Genuine(m, k), Handle(m, <<>>), unexpected \in Seq(Messages),
           Kept(unexpected),
           taken' = taken \cup (IF m.kind = "data" THEN {m.n} ELSE {})
    PROVE  /\ Running' => pending' = <<>> /\ Kept(unexpected)'
           /\ pc' = "done" => Kept(pending)'
  <1>1. CASE m.kind = "data"
    <2>1. unexpected' = Append(unexpected, m) /\ pc' = "polling" /\ pending' = <<>>
      BY <1>1 DEF Handle, HandleOther, HandleChunk
    <2>2. m = Data(m.n) /\ m \in Messages
      BY <1>1 DEF Genuine
    <2>3. /\ Len(unexpected) \in Nat /\ DOMAIN unexpected = 1..Len(unexpected)
          /\ DOMAIN unexpected' = 1..(Len(unexpected) + 1)
          /\ \A i \in 1..Len(unexpected) : unexpected'[i] = unexpected[i]
          /\ unexpected'[Len(unexpected) + 1] = m
      BY <2>1, <2>2
    <2>4. Len(unexpected) + 1 \in DOMAIN unexpected' /\ DOMAIN unexpected \subseteq DOMAIN unexpected'
      BY <2>3
    <2>5. taken' = taken \cup {m.n}
      BY <1>1
    <2>6. ASSUME NEW x \in taken'
          PROVE  \E i \in DOMAIN unexpected' : unexpected'[i] = Data(x)
      <3>1. CASE x = m.n
        BY <3>1, <2>2, <2>3, <2>4
      <3>2. CASE x \in taken
        <4>1. PICK i \in DOMAIN unexpected : unexpected[i] = Data(x)
          BY <3>2 DEF Kept
        <4> QED BY <4>1, <2>3, <2>4
      <3> QED BY <2>5, <3>1, <3>2
    <2>7. Kept(unexpected)'
      BY <2>6 DEF Kept
    <2> QED BY <2>1, <2>7
  <1>2. CASE m.kind # "data"
    <2>1. taken' = taken
      BY <1>2
    <2>2. \/ pc' \in {"refused", "mismatch"}
          \/ pc' = "done" /\ pending' = unexpected
          \/ pc' = "polling" /\ pending' = <<>> /\ unexpected' = unexpected
      BY <1>2 DEF Handle, HandleOther, HandleChunk, Fail, Complete, Continue
    <2> QED BY <2>1, <2>2 DEF Kept, Running
  <1> QED BY <1>1, <1>2

--------------------------------------------------------------------------------
(* The steps *)

\* The client does not take part: what it has stays good when datagrams come and go.
LEMMA ClientUnchanged ==
    ASSUME IInv, UNCHANGED <<clientVars, batching>>, ids' \in Nat, ids <= ids', dataSent' \in Nat,
           \A d \in net' : AllGenuine(d, ids'),
           ~batching => \A d \in net' : Len(d) <= 1
    PROVE  IInv'
  <1>1. /\ pc' = pc /\ conn' = conn /\ chunks' = chunks /\ unexpected' = unexpected
        /\ pending' = pending /\ taken' = taken /\ batching' = batching
    BY DEF clientVars
  <1>2. ids \in Nat
    BY DEF IInv, TypeInv
  <1>3. \A x \in 1..ids : x \in 1..ids'
    BY <1>2
  <1>4. AllGenuine(pending, ids') /\ AllGenuine(unexpected, ids')
    BY <1>2, GenuineMore DEF IInv, TypeInv
  <1>5. TypeInv'
    BY <1>1, <1>4 DEF IInv, TypeInv
  <1>6. ChunksInv'
    BY <1>1, <1>3 DEF IInv, ChunksInv, Numbers
  <1>7. WholeAnswer'
    BY <1>1, <1>3 DEF IInv, WholeAnswer
  <1>8. SingleInv' /\ UnexpectedKept'
    BY <1>1 DEF IInv, SingleInv, UnexpectedKept, Running, Kept
  <1> QED BY <1>5, <1>6, <1>7, <1>8 DEF IInv

LEMMA AnswerStep ==
    ASSUME IInv, Answer
    PROVE  IInv'
  <1>1. UNCHANGED <<clientVars, batching>> /\ dataSent' \in Nat
    BY DEF Answer, IInv, TypeInv
  <1>2. ids \in Nat
    BY DEF IInv, TypeInv
  <1>3. PICK c \in 1..MaxIds :
          /\ ids' = IF c > ids THEN c ELSE ids
          /\ \/ net' = net \cup {<<Chunk(c, i)>> : i \in 1..Chunks}
             \/ net' = net \cup {<<Finish(c)>>}
    BY DEF Answer
  <1>4. ids' \in Nat /\ ids <= ids' /\ c \in 1..ids' /\ c \in Nat
    BY <1>2, <1>3, HandshakeAssumption DEF HandshakeAssumption
  <1>5. \A i \in 1..Chunks : Genuine(Chunk(c, i), ids')
    BY <1>4, HandshakeAssumption DEF Genuine, Chunk, Messages, HandshakeAssumption
  <1>6. Genuine(Finish(c), ids')
    BY <1>4 DEF Genuine, Finish, Messages
  <1>7. /\ \A i \in 1..Chunks : AllGenuine(<<Chunk(c, i)>>, ids') /\ Len(<<Chunk(c, i)>>) = 1
        /\ AllGenuine(<<Finish(c)>>, ids') /\ Len(<<Finish(c)>>) = 1
    BY <1>4, <1>5, <1>6, GenuineSingle
  <1>8. \A d \in net : AllGenuine(d, ids')
    BY <1>2, <1>4, GenuineMore DEF IInv, TypeInv
  <1>9. \A d \in net' : d \in net \/ (AllGenuine(d, ids') /\ Len(d) = 1)
    BY <1>3, <1>7
  <1>10. \A d \in net' : AllGenuine(d, ids')
    BY <1>8, <1>9
  <1>11. ~batching => \A d \in net' : Len(d) <= 1
    <2> SUFFICES ASSUME ~batching, NEW d \in net'
                 PROVE  Len(d) <= 1
      OBVIOUS
    <2>1. CASE d \in net
      BY <2>1 DEF IInv, SingleInv
    <2>2. CASE Len(d) = 1
      BY <2>2
    <2> QED BY <1>9, <2>1, <2>2
  <1> QED BY <1>1, <1>4, <1>10, <1>11, ClientUnchanged

\* Anything else that only adds a datagram, genuine as it is.
LEMMA DatagramAdded ==
    ASSUME IInv, UNCHANGED <<clientVars, batching, ids>>, dataSent' \in Nat,
           NEW d, net' = net \cup {d}, AllGenuine(d, ids), Len(d) \in Nat, Len(d) <= 1
    PROVE  IInv'
  <1>1. ids \in Nat /\ ids <= ids' /\ ids' = ids
    BY DEF IInv, TypeInv
  <1>2. \A e \in net' : AllGenuine(e, ids')
    BY <1>1 DEF IInv, TypeInv
  <1>3. ASSUME ~batching, NEW e \in net'
        PROVE  Len(e) <= 1
    <2>1. CASE e \in net
      BY <2>1, <1>3 DEF IInv, SingleInv
    <2>2. CASE e = d
      BY <2>2
    <2> QED BY <2>1, <2>2
  <1> QED BY <1>1, <1>2, <1>3, ClientUnchanged

LEMMA ServerStep ==
    ASSUME IInv, Refuse \/ ServerData
    PROVE  IInv'
  <1>1. UNCHANGED <<clientVars, batching, ids>> /\ dataSent' \in Nat
    BY DEF Refuse, ServerData, serverVars, IInv, TypeInv
  <1>2. ids \in Nat
    BY DEF IInv, TypeInv
  <1>3. CASE net' = net \cup {<<Failure>>}
    <2>1. Genuine(Failure, ids)
      BY DEF Genuine, Failure, Messages
    <2>2. AllGenuine(<<Failure>>, ids) /\ Len(<<Failure>>) = 1
      BY <1>2, <2>1, GenuineSingle
    <2>3. Len(<<Failure>>) \in Nat /\ Len(<<Failure>>) <= 1
      BY <2>2
    <2> QED BY <1>1, <1>3, <2>2, <2>3, DatagramAdded
  <1>4. ASSUME NEW k \in Nat, net' = net \cup {<<Data(k)>>}
        PROVE  IInv'
    <2>1. Genuine(Data(k), ids)
      BY DEF Genuine, Data, Messages
    <2>2. AllGenuine(<<Data(k)>>, ids) /\ Len(<<Data(k)>>) = 1
      BY <1>2, <2>1, GenuineSingle
    <2>3. Len(<<Data(k)>>) \in Nat /\ Len(<<Data(k)>>) <= 1
      BY <2>2
    <2> QED BY <1>1, <1>4, <2>2, <2>3, DatagramAdded
  <1>5. CASE net' = net \cup {Part}
    <2>1. AllGenuine(Part, ids) /\ Len(Part) = 0
      BY DEF Part, AllGenuine
    <2> QED BY <1>1, <1>5, <2>1, DatagramAdded
  <1>6. dataSent + 1 \in Nat
    BY DEF IInv, TypeInv
  <1> QED BY <1>3, <1>4, <1>5, <1>6 DEF Refuse, ServerData

\* Two messages in one datagram; and datagrams and HandshakeStarts that are lost or sent.
LEMMA NetworkStep ==
    ASSUME IInv, Pack \/ Lose \/ Resend
    PROVE  IInv'
  <1>1. UNCHANGED <<clientVars, batching, ids>> /\ dataSent' \in Nat
    BY DEF Pack, Lose, Resend, serverVars, IInv, TypeInv
  <1>2. ids \in Nat /\ ids <= ids' /\ ids' = ids
    BY <1>1 DEF IInv, TypeInv
  <1>3. CASE Pack
    <2>1. PICK a \in net, b \in net : net' = (net \ {a, b}) \cup {a \o b}
      BY <1>3 DEF Pack
    <2>2. AllGenuine(a, ids) /\ AllGenuine(b, ids)
      BY DEF IInv, TypeInv
    <2>3. AllGenuine(a \o b, ids)
      BY <1>2, <2>2, GenuineConcat
    <2>4. \A d \in net' : AllGenuine(d, ids')
      BY <1>2, <2>1, <2>3 DEF IInv, TypeInv
    <2>5. batching
      BY <1>3 DEF Pack
    <2> QED BY <1>1, <1>2, <2>4, <2>5, ClientUnchanged
  <1>4. CASE Lose \/ Resend
    <2>1. net' \subseteq net
      BY <1>4 DEF Lose, Resend
    <2>2. \A d \in net' : AllGenuine(d, ids')
      BY <1>2, <2>1 DEF IInv, TypeInv
    <2>3. ~batching => \A d \in net' : Len(d) <= 1
      BY <2>1 DEF IInv, SingleInv
    <2> QED BY <1>1, <1>2, <2>2, <2>3, ClientUnchanged
  <1> QED BY <1>3, <1>4

\* With datagrams of one message there is nothing pending.
LEMMA PendingStep ==
    ASSUME IInv, TakePending
    PROVE  IInv'
  <1>1. /\ pending # <<>> /\ Handle(Head(pending), Tail(pending)) /\ Running
        /\ net' = net /\ ids' = ids /\ batching' = batching /\ taken' = taken
        /\ dataSent' = dataSent
    BY DEF TakePending, Running, serverVars
  <1>2. ids \in Nat /\ AllGenuine(pending, ids)
    BY DEF IInv, TypeInv
  <1>3. Genuine(Head(pending), ids) /\ AllGenuine(Tail(pending), ids)
    BY <1>1, <1>2, GenuineParts
  <1>4. /\ AllGenuine(pending', ids) /\ AllGenuine(unexpected', ids) /\ conn' \in Nat
        /\ ChunksInv' /\ WholeAnswer'
    BY <1>1, <1>3, HandleGood DEF IInv
  <1>5. batching
    BY <1>1 DEF IInv, SingleInv, TypeInv
  <1>6. TypeInv'
    BY <1>1, <1>4 DEF IInv, TypeInv
  <1>7. SingleInv' /\ UnexpectedKept'
    BY <1>1, <1>5 DEF SingleInv, UnexpectedKept
  <1> QED BY <1>4, <1>6, <1>7 DEF IInv

LEMMA DatagramStep ==
    ASSUME IInv, TakeDatagram
    PROVE  IInv'
  <1>1. /\ Running /\ ids' = ids /\ batching' = batching /\ pending = <<>>
        /\ dataSent' = dataSent
    BY DEF TakeDatagram, serverVars
  <1>2. PICK d \in net :
          /\ net' = net \ {d}
          /\ taken' = taken \cup DataOf(d)
          /\ \/ d # Part /\ Handle(Head(d), Tail(d))
             \/ /\ d = Part
                /\ pc' = "receiving"
                /\ UNCHANGED <<conn, chunks, unexpected, pending>>
    BY DEF TakeDatagram
  <1>3. ids \in Nat /\ AllGenuine(d, ids)
    BY DEF IInv, TypeInv
  <1>4. CASE d # Part /\ Handle(Head(d), Tail(d))
    <2>1. /\ Genuine(Head(d), ids) /\ AllGenuine(Tail(d), ids) /\ Head(d) = d[1]
          /\ Len(d) <= 1 => Tail(d) = <<>> /\ DOMAIN d = {1}
      BY <1>3, <1>4, GenuineParts DEF Part
    <2>2. /\ AllGenuine(pending', ids) /\ AllGenuine(unexpected', ids) /\ conn' \in Nat
          /\ ChunksInv' /\ WholeAnswer'
      BY <1>1, <1>4, <2>1, HandleGood DEF IInv
    <2>3. TypeInv'
      BY <1>1, <1>2, <2>2 DEF IInv, TypeInv
    <2>4. ASSUME ~batching
          PROVE  /\ Running' => pending' = <<>> /\ Kept(unexpected)'
                 /\ pc' = "done" => Kept(pending)'
      <3>1. Tail(d) = <<>> /\ DOMAIN d = {1}
        BY <2>1, <2>4 DEF IInv, SingleInv
      <3>2. DataOf(d) = IF Head(d).kind = "data" THEN {Head(d).n} ELSE {}
        BY <2>1, <3>1 DEF DataOf
      <3>3. taken' = taken \cup (IF Head(d).kind = "data" THEN {Head(d).n} ELSE {})
        BY <1>2, <3>2
      <3>4. Kept(unexpected)
        BY <1>1, <2>4 DEF IInv, SingleInv
      <3>5. Handle(Head(d), <<>>)
        BY <1>4, <3>1
      <3>6. unexpected \in Seq(Messages)
        BY DEF IInv, TypeInv, AllGenuine
      <3> QED BY <1>3, <2>1, <3>3, <3>4, <3>5, <3>6, HandleKept
    <2>5. SingleInv'
      BY <1>1, <1>2, <2>4 DEF IInv, SingleInv
    <2>6. UnexpectedKept'
      BY <1>1, <2>4 DEF UnexpectedKept, Kept
    <2> QED BY <2>2, <2>3, <2>5, <2>6 DEF IInv
  <1>5. CASE /\ d = Part
             /\ pc' = "receiving"
             /\ UNCHANGED <<conn, chunks, unexpected, pending>>
    <2>1. DataOf(d) = {}
      BY <1>5 DEF DataOf, Part
    <2>2. taken' = taken
      BY <1>2, <2>1
    <2>3. ChunksInv' /\ WholeAnswer' /\ UnexpectedKept'
      BY <1>1, <1>5, ChunksKept DEF IInv, WholeAnswer, UnexpectedKept
    <2>4. TypeInv'
      BY <1>1, <1>2, <1>5 DEF IInv, TypeInv
    <2>5. SingleInv'
      BY <1>1, <1>2, <1>5, <2>2 DEF IInv, SingleInv, Running, Kept
    <2> QED BY <2>3, <2>4, <2>5 DEF IInv
  <1> QED BY <1>2, <1>4, <1>5

LEMMA NoChunks == IsFiniteSet({}) /\ Cardinality(Numbers({})) = Cardinality({})
  <1>1. Numbers({}) = {}
    BY DEF Numbers
  <1> QED BY <1>1, FS_EmptySet

LEMMA TimeOutStep ==
    ASSUME IInv, TimeOut
    PROVE  IInv'
  <1>1. /\ pc' = "timedOut" /\ net' = {} /\ conn' = 0 /\ chunks' = {} /\ unexpected' = <<>>
        /\ pending' = <<>> /\ ids' = ids /\ batching' = batching /\ dataSent' = dataSent
    BY DEF TimeOut, NoConn, serverVars
  <1>2. TypeInv'
    BY <1>1 DEF IInv, TypeInv, AllGenuine
  <1>3. ChunksInv'
    BY <1>1, NoChunks DEF ChunksInv, Numbers
  <1>4. WholeAnswer' /\ SingleInv' /\ UnexpectedKept'
    BY <1>1 DEF WholeAnswer, SingleInv, UnexpectedKept, Running
  <1> QED BY <1>2, <1>3, <1>4 DEF IInv

--------------------------------------------------------------------------------
(* Handshake over UDP: the theorems *)

LEMMA InitInv == Init => IInv
  <1> SUFFICES ASSUME Init PROVE IInv
    OBVIOUS
  <1>1. TypeInv
    BY HandshakeAssumption DEF HandshakeAssumption, Init, TypeInv, AllGenuine, NoConn
  <1>2. ChunksInv
    BY NoChunks DEF Init, ChunksInv, Numbers
  <1>3. WholeAnswer /\ SingleInv /\ UnexpectedKept
    BY DEF Init, WholeAnswer, SingleInv, UnexpectedKept, Kept
  <1> QED BY <1>1, <1>2, <1>3 DEF IInv

\* The invariant of the handshake holds in every state it reaches.
THEOREM Invariance == Spec => []IInv
  <1>1. Init => IInv
    BY InitInv
  <1>2. IInv /\ [Next]_vars => IInv'
    <2> SUFFICES ASSUME IInv, [Next]_vars PROVE IInv'
      OBVIOUS
    <2>1. CASE Answer
      BY <2>1, AnswerStep
    <2>2. CASE Refuse \/ ServerData
      BY <2>2, ServerStep
    <2>3. CASE Pack \/ Lose \/ Resend
      BY <2>3, NetworkStep
    <2>4. CASE TakePending
      BY <2>4, PendingStep
    <2>5. CASE TakeDatagram
      BY <2>5, DatagramStep
    <2>6. CASE TimeOut
      BY <2>6, TimeOutStep
    <2>7. CASE UNCHANGED vars
      <3>1. UNCHANGED <<clientVars, batching, ids, net, dataSent>>
        BY <2>7 DEF vars, serverVars
      <3>2. ids' \in Nat /\ ids <= ids' /\ dataSent' \in Nat
        BY <3>1 DEF IInv, TypeInv
      <3> QED BY <3>1, <3>2, ClientUnchanged DEF IInv, TypeInv, SingleInv
    <2> QED BY <2>1, <2>2, <2>3, <2>4, <2>5, <2>6, <2>7 DEF Next
  <1> QED BY <1>1, <1>2, PTL DEF Spec

\* performHandshake ends with the database only when it has every chunk of one answer, however
\* answers were lost, repeated, reordered and mixed.
THEOREM AnswerIsWhole == Spec => []WholeAnswer
  <1>1. IInv => WholeAnswer
    BY DEF IInv
  <1> QED BY <1>1, Invariance, PTL

\* A message that receiveMessage returned during the handshake is in m_pendingMessages after
\* it, as long as the server packs no two messages into a datagram.
THEOREM UnexpectedIsKept == Spec => []UnexpectedKept
  <1>1. IInv => UnexpectedKept
    BY DEF IInv
  <1> QED BY <1>1, Invariance, PTL

--------------------------------------------------------------------------------
(* Keepalives: the inductive invariant *)

\* Types of what the properties look at.
TimerTypeInv ==
    /\ active \in Nat /\ estimates \in Nat /\ unacked \in Nat /\ manual \in Nat
    /\ sinceActivity \in 0..Horizon /\ sinceKeepalive \in 0..Horizon
    /\ deaf \in 0..Horizon /\ quiet \in 0..Horizon

\* The longest pause before the first keepalive.
LongestPause == AckDelay + IdleAfter

\* Nothing of the client waits for an acknowledgement.
NoneUnacked == DOMAIN localUnacked = {}

\* Everything is answered: the silence is shorter than both ages, of which one is always
\* compared with an interval, but for an acknowledgement that was sent in it.
AnsweredInv ==
    NoneUnacked /\ unacked = 0 =>
        quiet <= AckDelay + sinceActivity /\ quiet <= sinceKeepalive /\ quiet <= LongestPause

\* A keepalive is unanswered: the silence began at most one pause before the first of those, and
\* the next is sent a retry interval after the last.
RetryInv ==
    unacked > 0 =>
        /\ sinceActivity <= RetryAfter
        /\ NoneUnacked =>
            /\ quiet <= LongestPause + Limit * RetryAfter + sinceActivity
            /\ unacked <= Limit + 1 => quiet <= LongestPause + (unacked - 1) * RetryAfter + sinceActivity

\* Every unanswered keepalive but the first and those of the application took a retry
\* interval, so far as it can be told.
SilenceInv ==
    unacked > 0 =>
        deaf = Horizon \/ deaf >= (unacked - 1 - manual) * RetryAfter + sinceActivity

KeepInv == TimerTypeInv /\ AnsweredInv /\ RetryInv /\ SilenceInv /\ NoEarlyTimeout

\* A message that waits for an acknowledgement was sent before the silence began, and is sent
\* again in time.
LocalInv ==
    \A i \in DOMAIN localUnacked :
        /\ localUnacked[i] \in [ago : Nat, attempts : 0..MaxRetransmits]
        /\ localUnacked[i].ago <= LongestBase * Multiple(localUnacked[i].attempts)
        /\ quiet <= LongestBase * Rounds[localUnacked[i].attempts] + localUnacked[i].ago

\* A message that is to be acknowledged arrived before the silence began, a moment ago.
RemoteInv ==
    /\ remoteUnacked \in Seq(Nat)
    /\ \A i \in DOMAIN remoteUnacked : remoteUnacked[i] <= AckDelay /\ quiet <= remoteUnacked[i]

UnackedInv == base \in Bases /\ LocalInv /\ RemoteInv

TimerInv == KeepInv /\ UnackedInv

--------------------------------------------------------------------------------
(* Keepalives: facts about the operators *)

\* The constants, as far as the steps need them.
LEMMA TimerConstants ==
    /\ RetryAfter \in Nat /\ RetryAfter > 0 /\ IdleAfter \in Nat /\ Limit \in Nat
    /\ Horizon \in Nat /\ Limit * RetryAfter <= Horizon /\ Actives \subseteq Nat
  BY KeepaliveAssumption DEF KeepaliveAssumption

LEMMA EarlyFacts ==
    /\ Len(Early) \in Nat
    /\ \A k \in 1..Len(Early) : Early[k] \in Nat /\ Early[k] <= IdleAfter
  <1>1. Early \in Seq(Nat \ {0}) /\ \A k \in DOMAIN Early : Early[k] <= IdleAfter
    BY KeepaliveAssumption DEF KeepaliveAssumption
  <1>2. DOMAIN Early = 1..Len(Early) /\ Len(Early) \in Nat
    BY <1>1
  <1>3. \A k \in 1..Len(Early) : Early[k] \in Nat
    BY <1>1
  <1> QED BY <1>1, <1>2, <1>3

LEMMA PauseFacts ==
    /\ AckDelay \in Nat /\ IdleAfter \in Nat /\ LongestPause \in Nat
    /\ LongestPause = AckDelay + IdleAfter
  BY KeepaliveAssumption DEF KeepaliveAssumption, LongestPause

\* An age grows by one tick, or is not told apart any more.
LEMMA OlderFacts ==
    ASSUME NEW a \in 0..Horizon
    PROVE  /\ Older(a) \in 0..Horizon
           /\ a <= Older(a) /\ Older(a) <= a + 1
           /\ Older(a) = a + 1 \/ (a = Horizon /\ Older(a) = Horizon)
  BY TimerConstants DEF Older, Least

\* untilKeepalive: nothing is due while an answer has been waited for less than the retry
\* interval; or while everything is answered and the age that counts is within the longest
\* interval.
LEMMA NotDue ==
    ASSUME TimerTypeInv, UntilKeepalive(sinceActivity) > 0
    PROVE  /\ unacked > 0 => sinceActivity < RetryAfter
           /\ unacked = 0 => sinceKeepalive < IdleAfter \/ sinceActivity < IdleAfter
  <1> USE TimerConstants, EarlyFacts DEF TimerTypeInv
  <1>1. CASE unacked > 0
    BY <1>1 DEF UntilKeepalive, Minus
  <1>2. CASE unacked = 0 /\ estimates < Len(Early)
    <2>1. Early[estimates + 1] \in Nat /\ Early[estimates + 1] <= IdleAfter
      BY <1>2
    <2>2. /\ OrActive(Early[estimates + 1]) \in Nat
          /\ OrActive(Early[estimates + 1]) <= Early[estimates + 1]
      BY <2>1 DEF OrActive, Least
    <2>3. sinceKeepalive < OrActive(Early[estimates + 1])
      BY <1>2, <2>2 DEF UntilKeepalive, Minus
    <2> QED BY <1>2, <2>1, <2>2, <2>3
  <1>3. CASE unacked = 0 /\ ~(estimates < Len(Early))
    BY <1>3 DEF UntilKeepalive, Minus, Least
  <1> QED BY <1>1, <1>2, <1>3

LEMMA KeepaliveNat ==
    ASSUME TimerTypeInv, NEW idle \in Nat
    PROVE  UntilKeepalive(idle) \in Nat
  <1>1. /\ sinceKeepalive \in Nat /\ active \in Nat /\ estimates \in Nat
        /\ IdleAfter \in Nat /\ RetryAfter \in Nat
    BY TimerConstants DEF TimerTypeInv
  <1>2. \A a, b \in Nat : Minus(a, b) \in Nat /\ Least(a, b) \in Nat
    BY DEF Minus, Least
  <1>3. \A a \in Nat : OrActive(a) \in Nat
    BY <1>1, <1>2 DEF OrActive
  <1>4. estimates < Len(Early) => Early[estimates + 1] \in Nat
    BY <1>1, EarlyFacts
  <1>5. estimates < Len(Early) => Minus(OrActive(Early[estimates + 1]), sinceKeepalive) \in Nat
    BY <1>1, <1>2, <1>3, <1>4
  <1>6. /\ Minus(RetryAfter, idle) \in Nat /\ Minus(IdleAfter, idle) \in Nat
        /\ Minus(active, sinceKeepalive) \in Nat
    BY <1>1, <1>2
  <1>7. Least(Minus(IdleAfter, idle), Minus(active, sinceKeepalive)) \in Nat
    BY <1>2, <1>6
  <1> QED BY <1>5, <1>6, <1>7 DEF UntilKeepalive

\* untilKeepalive while one is unanswered: the retry interval has passed.
LEMMA RetryDue ==
    ASSUME TimerTypeInv, unacked > 0, NEW idle \in Nat, UntilKeepalive(idle) = 0
    PROVE  idle >= RetryAfter
  BY TimerConstants DEF TimerTypeInv, UntilKeepalive, Minus

\* A keepalive more is a retry interval more.
LEMMA OneMore ==
    ASSUME NEW n \in Int, NEW r \in Int
    PROVE  /\ n * r \in Int
           /\ (n + 1) * r = n * r + r
           /\ (n - 1) * r = n * r - r
  OBVIOUS

LEMMA ProductMonotonic ==
    ASSUME NEW m \in Int, NEW n \in Int, NEW r \in Nat, m <= n
    PROVE  m * r <= n * r
  <1>1. (n - m) * r >= 0
    OBVIOUS
  <1>2. (n - m) * r = n * r - m * r
    OBVIOUS
  <1>3. n * r \in Int /\ m * r \in Int
    OBVIOUS
  <1> QED BY <1>1, <1>2, <1>3

LEMMA SumNat ==
    ASSUME NEW a \in Nat, NEW b \in Nat
    PROVE  0 <= a + b
  OBVIOUS

LEMMA StillBelow ==
    ASSUME NEW p \in Int, NEW a \in Int, NEW b \in Int, NEW d \in Int, b <= a, d >= p + a
    PROVE  d >= p + b
  OBVIOUS

LEMMA ProductNat ==
    ASSUME NEW n \in Nat, NEW r \in Nat
    PROVE  n * r \in Nat
  OBVIOUS

LEMMA NonPositive ==
    ASSUME NEW m \in Nat, NEW n \in Nat, NEW r \in Nat, m = 0
    PROVE  (m - n) * r <= 0
  <1>1. m - n <= 0 /\ m - n \in Int
    OBVIOUS
  <1>2. (m - n) * r <= 0 * r
    BY <1>1, ProductMonotonic
  <1> QED BY <1>2

\* calcRetransmissionDeadline: what a wait of a message, and all before it, come to at most.
LEMMA WaitFacts ==
    ASSUME NEW a \in 0..MaxRetransmits, base \in Bases
    PROVE  /\ base * Multiple(a) \in Nat /\ LongestBase * Multiple(a) \in Nat
           /\ base * Multiple(a) <= LongestBase * Multiple(a)
           /\ LongestBase * Rounds[a] \in Nat /\ LongestBase * Rounds[a + 1] \in Nat
           /\ LongestBase * Rounds[a + 1] = LongestBase * Rounds[a] + LongestBase * Multiple(a)
           /\ RetransmitsEnd \in Nat /\ LongestBase * Rounds[a + 1] <= RetransmitsEnd
  <1>1. /\ LongestBase \in Nat /\ base \in Nat /\ base <= LongestBase
        /\ MaxMultiple \in Nat /\ MaxRetransmits \in Nat
        /\ Rounds \in [0..(MaxRetransmits + 1) -> Nat]
        /\ Rounds[a + 1] = Rounds[a] + Multiple(a)
        /\ Rounds[a + 1] <= Rounds[MaxRetransmits + 1]
    BY RetransmitAssumption DEF RetransmitAssumption
  <1>2. Multiple(a) \in Nat
    BY <1>1 DEF Multiple
  <1>3. Rounds[a] \in Nat /\ Rounds[a + 1] \in Nat /\ Rounds[MaxRetransmits + 1] \in Nat
    BY <1>1
  <1> DEFINE m == Multiple(a)
             r == Rounds[a]
             n == Rounds[a + 1]
             z == Rounds[MaxRetransmits + 1]
  <1>4. m \in Nat /\ r \in Nat /\ n \in Nat /\ z \in Nat /\ n = r + m /\ n <= z
    BY <1>1, <1>2, <1>3
  <1> HIDE DEF m, r, n, z
  <1>5. base * m <= LongestBase * m
    BY <1>1, <1>4, ProductMonotonic
  <1>6. base * m \in Nat /\ LongestBase * m \in Nat /\ LongestBase * r \in Nat
    BY <1>1, <1>4
  <1>7. LongestBase * n = LongestBase * r + LongestBase * m
    BY <1>1, <1>4
  <1>8. LongestBase * n <= LongestBase * z /\ LongestBase * z \in Nat /\ LongestBase * n \in Nat
    <2>1. n * LongestBase <= z * LongestBase
      BY <1>1, <1>4, ProductMonotonic
    <2> QED BY <1>1, <1>4, <2>1
  <1> QED BY <1>5, <1>6, <1>7, <1>8 DEF m, r, n, z, RetransmitsEnd

--------------------------------------------------------------------------------
(* Keepalives: the actions *)

\* Time passes: the silences grow with the age of the last activity.
LEMMA TickTimer ==
    ASSUME KeepInv, Tick
    PROVE  KeepInv'
  <1> USE TimerConstants, PauseFacts
  <1>0. TimerTypeInv /\ AnsweredInv /\ RetryInv /\ SilenceInv
    BY DEF KeepInv
  <1>1. /\ status = "up" /\ status' = "up"
        /\ sinceActivity' = Older(sinceActivity)
        /\ sinceKeepalive' = Older(sinceKeepalive)
        /\ deaf' = Older(deaf) /\ quiet' = Older(quiet)
        /\ active' = active /\ unacked' = unacked /\ estimates' = estimates /\ manual' = manual
        /\ NoneUnacked' <=> NoneUnacked
    BY DEF Tick, settings, NoneUnacked
  <1>2. /\ unacked > 0 => sinceActivity < RetryAfter
        /\ unacked = 0 => sinceKeepalive < IdleAfter \/ sinceActivity < IdleAfter
    <2>1. UntilKeepalive(sinceActivity) # 0
      BY DEF Tick, TimerDue
    <2>2. sinceActivity \in Nat
      BY <1>0 DEF TimerTypeInv
    <2>3. UntilKeepalive(sinceActivity) \in Nat
      BY <1>0, <2>2, KeepaliveNat
    <2>4. UntilKeepalive(sinceActivity) > 0
      BY <2>1, <2>3
    <2> QED BY <1>0, <2>4, NotDue
  <1>3. \A a \in {sinceActivity, sinceKeepalive, deaf, quiet} :
          /\ a \in 0..Horizon
          /\ Older(a) \in 0..Horizon
          /\ a <= Older(a) /\ Older(a) <= a + 1
          /\ Older(a) = a + 1 \/ (a = Horizon /\ Older(a) = Horizon)
    BY <1>0, OlderFacts DEF TimerTypeInv
  <1>4. TimerTypeInv'
    BY <1>0, <1>1, <1>3 DEF TimerTypeInv
  <1>5. AnsweredInv'
    BY <1>0, <1>1, <1>2, <1>3 DEF AnsweredInv, TimerTypeInv
  <1>6. RetryInv'
    <2>0. unacked > 0 => sinceActivity' <= RetryAfter
      BY <1>1, <1>2, <1>3
    <2> SUFFICES ASSUME unacked > 0, NoneUnacked
                 PROVE  /\ quiet' <= LongestPause + Limit * RetryAfter + sinceActivity'
                        /\ unacked <= Limit + 1 =>
                             quiet' <= LongestPause + (unacked - 1) * RetryAfter + sinceActivity'
      BY <1>1, <2>0 DEF RetryInv
    <2>1. Limit * RetryAfter \in Nat /\ (unacked - 1) * RetryAfter \in Nat
      BY <1>0, ProductMonotonic, OneMore DEF TimerTypeInv
    <2> DEFINE p == Limit * RetryAfter
               q == (unacked - 1) * RetryAfter
    <2>2. /\ quiet <= LongestPause + p + sinceActivity
          /\ unacked <= Limit + 1 => quiet <= LongestPause + q + sinceActivity
      BY <1>0 DEF RetryInv
    <2>3. p \in Nat /\ q \in Nat
      BY <2>1
    <2> HIDE DEF p, q
    <2>4. /\ quiet' <= LongestPause + p + sinceActivity'
          /\ unacked <= Limit + 1 => quiet' <= LongestPause + q + sinceActivity'
      <3>1. /\ sinceActivity \in 0..Horizon /\ quiet \in 0..Horizon /\ unacked \in Nat
            /\ sinceActivity' = sinceActivity + 1 \/ sinceActivity' = Horizon
            /\ quiet' \in 0..Horizon /\ quiet' <= quiet + 1
        BY <1>0, <1>1, <1>3 DEF TimerTypeInv
      <3> QED BY <2>2, <2>3, <3>1
    <2> QED BY <2>4 DEF p, q
  <1>7. SilenceInv'
    <2> SUFFICES ASSUME unacked > 0
                 PROVE  deaf' = Horizon
                        \/ deaf' >= (unacked - 1 - manual) * RetryAfter + sinceActivity'
      BY <1>1 DEF SilenceInv
    <2> DEFINE p == (unacked - 1 - manual) * RetryAfter
    <2>1. p \in Int
      BY <1>0, OneMore DEF TimerTypeInv
    <2>2. deaf = Horizon \/ deaf >= p + sinceActivity
      BY <1>0 DEF SilenceInv
    <2> HIDE DEF p
    <2>3. deaf' = Horizon \/ deaf' >= p + sinceActivity'
      BY <1>1, <1>3, <2>1, <2>2, SMTT(40)
    <2> QED BY <2>3 DEF p
  <1>8. NoEarlyTimeout'
    BY <1>1 DEF NoEarlyTimeout
  <1> QED BY <1>4, <1>5, <1>6, <1>7, <1>8 DEF KeepInv

\* A keepalive is sent: at the right time, or by the application.
LEMMA SendTimer ==
    ASSUME KeepInv, SendKeepalive, status = "up", status' = "up",
           UNCHANGED <<active, estimates, deaf>>, NoneUnacked' <=> NoneUnacked,
           \/ manual' = manual + 1 /\ quiet' = 0
           \/ /\ UNCHANGED <<manual, quiet>>
              /\ unacked <= Limit /\ (unacked > 0 => sinceActivity >= RetryAfter)
    PROVE  KeepInv'
  <1> USE TimerConstants, PauseFacts
  <1>0. TimerTypeInv /\ AnsweredInv /\ RetryInv /\ SilenceInv
    BY DEF KeepInv
  <1>1. sinceActivity' = 0 /\ sinceKeepalive' = 0 /\ unacked' = unacked + 1
    BY DEF SendKeepalive
  <1>2. TimerTypeInv'
    BY <1>0, <1>1 DEF TimerTypeInv
  <1>3. AnsweredInv'
    BY <1>0, <1>1 DEF AnsweredInv, TimerTypeInv
  <1>4. RetryInv'
    <2>1. Limit * RetryAfter \in Nat /\ unacked * RetryAfter \in Nat
      BY <1>0, ProductMonotonic, OneMore DEF TimerTypeInv
    <2> SUFFICES ASSUME NoneUnacked
                 PROVE  /\ quiet' <= LongestPause + Limit * RetryAfter
                        /\ unacked <= Limit => quiet' <= LongestPause + unacked * RetryAfter
      <3>1. unacked' - 1 = unacked /\ (unacked' <= Limit + 1 <=> unacked <= Limit)
        BY <1>0, <1>1 DEF TimerTypeInv
      <3>2. quiet' \in Nat
        BY <1>2 DEF TimerTypeInv
      <3> QED BY <1>1, <2>1, <3>1, <3>2 DEF RetryInv
    <2>2. CASE quiet' = 0
      BY <2>1, <2>2
    <2>3. CASE /\ UNCHANGED <<manual, quiet>>
               /\ unacked <= Limit /\ (unacked > 0 => sinceActivity >= RetryAfter)
      <3>1. unacked * RetryAfter <= Limit * RetryAfter
        BY <1>0, <2>3, ProductMonotonic DEF TimerTypeInv
      <3>2. quiet <= LongestPause + unacked * RetryAfter
        <4>1. CASE unacked = 0
          BY <1>0, <2>1, <4>1 DEF AnsweredInv, TimerTypeInv
        <4>2. CASE unacked > 0
          <5>1. /\ quiet <= LongestPause + (unacked - 1) * RetryAfter + sinceActivity
                /\ sinceActivity <= RetryAfter
            BY <1>0, <2>3, <4>2 DEF RetryInv, TimerTypeInv
          <5>2. (unacked - 1) * RetryAfter = unacked * RetryAfter - RetryAfter
            BY <1>0, OneMore DEF TimerTypeInv
          <5> QED BY <1>0, <2>1, <5>1, <5>2 DEF TimerTypeInv
        <4> QED BY <1>0, <4>1, <4>2 DEF TimerTypeInv
      <3> QED BY <1>0, <2>1, <2>3, <3>1, <3>2 DEF TimerTypeInv
    <2> QED BY <2>2, <2>3
  <1>5. SilenceInv'
    <2> SUFFICES deaf = Horizon \/ deaf >= (unacked - manual') * RetryAfter
      <3>1. unacked' - 1 - manual' = unacked - manual'
        BY <1>0, <1>1, <1>2 DEF TimerTypeInv
      <3>2. (unacked - manual') * RetryAfter \in Int
        BY <1>0, <1>2, OneMore DEF TimerTypeInv
      <3> QED BY <1>1, <3>1, <3>2 DEF SilenceInv
    <2>1. deaf \in Nat /\ unacked \in Nat /\ manual \in Nat /\ sinceActivity \in Nat
      BY <1>0 DEF TimerTypeInv
    <2>2. CASE unacked = 0
      <3>1. manual' \in Nat
        BY <1>2 DEF TimerTypeInv
      <3>2. (unacked - manual') * RetryAfter <= 0
        BY <2>2, <3>1, NonPositive
      <3>3. (unacked - manual') * RetryAfter \in Int
        BY <2>1, <3>1, OneMore
      <3> QED BY <2>1, <3>2, <3>3
    <2>3. CASE unacked > 0
      <3> DEFINE p == (unacked - 1 - manual) * RetryAfter
      <3>1. deaf = Horizon \/ deaf >= p + sinceActivity
        BY <1>0, <2>3 DEF SilenceInv
      <3>2. p \in Int
        BY <2>1, OneMore
      <3>3. CASE manual' = manual + 1
        <4>1. unacked - manual' = unacked - 1 - manual
          BY <2>1, <3>3
        <4>2. (unacked - manual') * RetryAfter = p
          BY <4>1
        <4> HIDE DEF p
        <4> QED BY <2>1, <3>1, <3>2, <4>2
      <3>4. CASE manual' = manual /\ sinceActivity >= RetryAfter
        <4>1. (unacked - manual') * RetryAfter = p + RetryAfter
          <5>1. unacked - manual' = (unacked - 1 - manual) + 1
            BY <2>1, <3>4
          <5>2. unacked - 1 - manual \in Int
            BY <2>1
          <5>3. ((unacked - 1 - manual) + 1) * RetryAfter = p + RetryAfter
            BY <5>2, OneMore
          <5> QED BY <5>1, <5>3
        <4> HIDE DEF p
        <4> QED BY <2>1, <3>1, <3>2, <3>4, <4>1
      <3> QED BY <2>3, <3>3, <3>4
    <2> QED BY <2>1, <2>2, <2>3
  <1>6. NoEarlyTimeout'
    BY DEF NoEarlyTimeout
  <1> QED BY <1>2, <1>3, <1>4, <1>5, <1>6 DEF KeepInv

\* What the timer sends for the store only makes the activity later.
LEMMA SentForStore ==
    ASSUME KeepInv, status' = "up",
           active' = active, estimates' = estimates, unacked' = unacked, manual' = manual,
           sinceKeepalive' = sinceKeepalive, deaf' = deaf, quiet' = quiet,
           NoneUnacked' <=> NoneUnacked,
           sinceActivity' = 0, NoneUnacked => quiet <= AckDelay
    PROVE  KeepInv'
  <1>0. TimerTypeInv /\ AnsweredInv /\ RetryInv /\ SilenceInv
    BY DEF KeepInv
  <1>1. TimerTypeInv'
    BY <1>0, TimerConstants DEF TimerTypeInv
  <1>2. /\ sinceActivity \in Nat /\ sinceActivity' \in Nat /\ quiet \in Nat /\ deaf \in Nat
        /\ sinceActivity' <= sinceActivity
    BY <1>0, <1>1, TimerConstants DEF TimerTypeInv
  <1>3. AnsweredInv'
    BY <1>0, <1>2, PauseFacts DEF AnsweredInv
  <1>4. RetryInv'
    <2> SUFFICES ASSUME unacked > 0
                 PROVE  NoneUnacked =>
                          /\ quiet <= LongestPause + Limit * RetryAfter
                          /\ quiet <= LongestPause + (unacked - 1) * RetryAfter
      <3>1. Limit * RetryAfter \in Int /\ (unacked - 1) * RetryAfter \in Int
        BY <1>0, OneMore, TimerConstants DEF TimerTypeInv
      <3> QED BY <3>1, TimerConstants, PauseFacts DEF RetryInv
    <2>1. Limit * RetryAfter \in Nat /\ (unacked - 1) * RetryAfter \in Nat
      BY <1>0, ProductNat, TimerConstants DEF TimerTypeInv
    <2> QED BY <1>2, <2>1, PauseFacts
  <1>5. SilenceInv'
    <2> DEFINE p == (unacked - 1 - manual) * RetryAfter
    <2>1. p \in Int
      BY <1>0, OneMore, TimerConstants DEF TimerTypeInv
    <2>2. unacked > 0 => deaf = Horizon \/ deaf >= p + sinceActivity
      BY <1>0 DEF SilenceInv
    <2> HIDE DEF p
    <2>3. unacked > 0 => deaf = Horizon \/ deaf >= p + sinceActivity'
      BY <1>2, <2>1, <2>2
    <2> QED BY <2>3 DEF SilenceInv, p
  <1>6. NoEarlyTimeout'
    BY DEF NoEarlyTimeout
  <1> QED BY <1>1, <1>3, <1>4, <1>5, <1>6 DEF KeepInv

\* handleTimerExpiry: it gives up only once the limit is exceeded, and that took its time.
LEMMA ExpiryTimer ==
    ASSUME KeepInv, UnackedInv, TimerExpiry
    PROVE  KeepInv'
  <1> USE TimerConstants, PauseFacts
  <1>0. TimerTypeInv /\ AnsweredInv /\ RetryInv /\ SilenceInv
    BY DEF KeepInv
  <1>1. /\ status = "up"
        /\ UNCHANGED <<active, estimates, manual, deaf, quiet>>
    BY DEF TimerExpiry, settings
  <1>2. CASE UNCHANGED <<sinceActivity, sinceKeepalive, unacked, store>>
             /\ (status' = "timedOut" => unacked > Limit)
    <2>1. TimerTypeInv' /\ AnsweredInv' /\ RetryInv' /\ SilenceInv'
      BY <1>0, <1>1, <1>2
         DEF TimerTypeInv, AnsweredInv, RetryInv, SilenceInv, NoneUnacked, store
    <2>2. unacked > Limit => deaf >= (Limit - manual) * RetryAfter
      <3> SUFFICES ASSUME unacked > Limit PROVE deaf >= (Limit - manual) * RetryAfter
        OBVIOUS
      <3>1. unacked \in Nat /\ manual \in Nat /\ deaf \in Nat /\ sinceActivity \in Nat
        BY <1>0 DEF TimerTypeInv
      <3>2. (Limit - manual) * RetryAfter <= Limit * RetryAfter
        BY <3>1, ProductMonotonic
      <3>3. (Limit - manual) * RetryAfter <= (unacked - 1 - manual) * RetryAfter
        <4>1. Limit - manual <= unacked - 1 - manual
          BY <3>1
        <4>2. Limit - manual \in Int /\ unacked - 1 - manual \in Int
          BY <3>1
        <4> QED BY <4>1, <4>2, ProductMonotonic
      <3>4. (Limit - manual) * RetryAfter \in Int /\ (unacked - 1 - manual) * RetryAfter \in Int
            /\ Limit * RetryAfter \in Int
        BY <3>1, OneMore
      <3>5. deaf = Horizon \/ deaf >= (unacked - 1 - manual) * RetryAfter + sinceActivity
        BY <1>0, <3>1 DEF SilenceInv
      <3> QED BY <3>1, <3>2, <3>3, <3>4, <3>5
    <2>3. NoEarlyTimeout'
      BY <1>1, <1>2, <2>2 DEF NoEarlyTimeout
    <2> QED BY <2>1, <2>3 DEF KeepInv
  <1>3. CASE unacked <= Limit /\ ~Undeliverable /\ ServeTimer
    <2> DEFINE idle == IF StoreDue THEN 0 ELSE sinceActivity
    <2>1. status' = "up" /\ (NoneUnacked' <=> NoneUnacked)
      BY <1>1, <1>3 DEF ServeTimer, Retransmitted, NoneUnacked
    <2>2. StoreDue /\ NoneUnacked => quiet <= AckDelay
      BY <1>0 DEF UnackedInv, RemoteInv, StoreDue, AckUrgent, NoneUnacked, TimerTypeInv
    <2>3. idle \in Nat /\ idle <= sinceActivity
      BY <1>0 DEF TimerTypeInv
    <2>4. CASE UntilKeepalive(idle) = 0 /\ SendKeepalive
      <3>1. unacked > 0 => sinceActivity >= RetryAfter
        <4>1. unacked > 0 => idle >= RetryAfter
          BY <1>0, <2>3, <2>4, RetryDue
        <4> HIDE DEF idle
        <4> QED BY <1>0, <2>3, <4>1 DEF TimerTypeInv
      <3> QED BY <1>1, <1>3, <2>1, <2>4, <3>1, SendTimer
    <2>5. CASE sinceActivity' = idle /\ UNCHANGED <<sinceKeepalive, unacked, outstanding>>
      <3>1. CASE StoreDue
        BY <1>1, <2>1, <2>2, <2>5, <3>1, SentForStore
      <3>2. CASE ~StoreDue
        <4>1. sinceActivity' = sinceActivity
          BY <2>5, <3>2
        <4>2. TimerTypeInv' /\ AnsweredInv' /\ RetryInv' /\ SilenceInv'
          BY <1>0, <1>1, <2>1, <2>5, <4>1 DEF TimerTypeInv, AnsweredInv, RetryInv, SilenceInv
        <4>3. NoEarlyTimeout'
          BY <2>1 DEF NoEarlyTimeout
        <4> QED BY <4>2, <4>3 DEF KeepInv
      <3> QED BY <3>1, <3>2
    <2> QED BY <1>3, <2>4, <2>5 DEF ServeTimer
  <1> QED BY <1>2, <1>3 DEF TimerExpiry, GiveUp

\* The application sends something, or something arrives: the silence ends.
SilenceBroken ==
    /\ quiet' = 0 /\ status' # "timedOut"
    /\ sinceActivity' \in 0..Horizon /\ sinceActivity' <= sinceActivity
    /\ UNCHANGED <<active, sinceKeepalive, unacked, estimates, manual, deaf>>

LEMMA SilenceEnds ==
    ASSUME KeepInv, SilenceBroken
    PROVE  KeepInv'
  <1>0. TimerTypeInv /\ AnsweredInv /\ RetryInv /\ SilenceInv
    BY DEF KeepInv
  <1>1. TimerTypeInv'
    BY <1>0, TimerConstants DEF TimerTypeInv, SilenceBroken
  <1>2. /\ sinceActivity \in Nat /\ sinceActivity' \in Nat /\ sinceKeepalive' \in Nat
        /\ unacked \in Nat /\ manual \in Nat /\ deaf \in Nat
    BY <1>0, <1>1, TimerConstants DEF TimerTypeInv
  <1>3. AnsweredInv'
    <2>1. 0 <= AckDelay + sinceActivity'
      <3>1. AckDelay \in Nat
        BY PauseFacts
      <3>2. sinceActivity' \in Nat
        BY <1>2
      <3> QED BY <3>1, <3>2, SumNat, Zenon
    <2>2. 0 <= sinceKeepalive' /\ 0 <= LongestPause
      BY <1>2, PauseFacts
    <2> QED BY <2>1, <2>2 DEF AnsweredInv, SilenceBroken
  <1>4. RetryInv'
    <2> SUFFICES ASSUME unacked > 0
                 PROVE  /\ sinceActivity' <= RetryAfter
                        /\ 0 <= LongestPause + Limit * RetryAfter + sinceActivity'
                        /\ 0 <= LongestPause + (unacked - 1) * RetryAfter + sinceActivity'
      BY DEF RetryInv, SilenceBroken
    <2>1. Limit * RetryAfter \in Nat /\ (unacked - 1) * RetryAfter \in Nat
      BY <1>2, ProductNat, TimerConstants
    <2>2. sinceActivity <= RetryAfter /\ sinceActivity' <= sinceActivity
      BY <1>0 DEF RetryInv, SilenceBroken
    <2>3. sinceActivity' <= RetryAfter
      BY <1>2, <2>2, TimerConstants
    <2>4. 0 <= LongestPause + Limit * RetryAfter + sinceActivity'
      BY <1>2, <2>1, PauseFacts
    <2>5. 0 <= LongestPause + (unacked - 1) * RetryAfter + sinceActivity'
      BY <1>2, <2>1, PauseFacts
    <2> QED BY <2>3, <2>4, <2>5
  <1>5. SilenceInv'
    <2> DEFINE p == (unacked - 1 - manual) * RetryAfter
    <2>1. p \in Int
      BY <1>2, OneMore, TimerConstants
    <2>2. unacked > 0 => deaf = Horizon \/ deaf >= p + sinceActivity
      BY <1>0 DEF SilenceInv
    <2> HIDE DEF p
    <2>3. sinceActivity' <= sinceActivity
      BY DEF SilenceBroken
    <2>4. deaf >= p + sinceActivity => deaf >= p + sinceActivity'
      <3>1. sinceActivity \in Int /\ sinceActivity' \in Int /\ deaf \in Int
        BY <1>2
      <3> QED BY <2>1, <2>3, <3>1, StillBelow, Zenon
    <2> QED BY <2>2, <2>4 DEF SilenceInv, SilenceBroken, p
  <1>6. NoEarlyTimeout'
    BY DEF NoEarlyTimeout, SilenceBroken
  <1> QED BY <1>1, <1>3, <1>4, <1>5, <1>6 DEF KeepInv

\* An answer to any keepalive settles all of them.
LEMMA ResponseTimer ==
    ASSUME KeepInv, Response
    PROVE  KeepInv'
  <1>1. /\ status' = "up" /\ unacked' = 0 /\ deaf' = 0 /\ quiet' = 0
        /\ estimates' = Least(estimates + 1, Len(Early))
        /\ UNCHANGED <<active, sinceActivity, sinceKeepalive, manual>>
    BY DEF Response, settings
  <1>2. KeepInv => sinceActivity' \in Nat /\ sinceKeepalive' \in Nat /\ estimates' \in Nat
    BY <1>1, TimerConstants, EarlyFacts DEF KeepInv, TimerTypeInv, Least
  <1> QED BY <1>1, <1>2, TimerConstants, PauseFacts
          DEF KeepInv, TimerTypeInv, AnsweredInv, RetryInv, SilenceInv, NoEarlyTimeout

\* The store: time passes only before a wait is over.
LEMMA TickStore ==
    ASSUME KeepInv, UnackedInv, Tick
    PROVE  UnackedInv'
  <1>1. quiet \in Nat /\ quiet' \in Nat /\ quiet' <= quiet + 1 /\ base' = base
    BY OlderFacts, TimerConstants DEF KeepInv, TimerTypeInv, Tick
  <1>2. LocalInv'
    <2> SUFFICES ASSUME NEW i \in DOMAIN localUnacked'
                 PROVE  /\ localUnacked'[i] \in [ago : Nat, attempts : 0..MaxRetransmits]
                        /\ localUnacked'[i].ago <= LongestBase * Multiple(localUnacked'[i].attempts)
                        /\ quiet' <= LongestBase * Rounds[localUnacked'[i].attempts]
                                     + localUnacked'[i].ago
      BY DEF LocalInv
    <2>1. /\ i \in DOMAIN localUnacked
          /\ localUnacked'[i] = [localUnacked[i] EXCEPT !.ago = @ + 1]
      BY DEF Tick
    <2>2. /\ localUnacked[i] \in [ago : Nat, attempts : 0..MaxRetransmits]
          /\ quiet <= LongestBase * Rounds[localUnacked[i].attempts] + localUnacked[i].ago
      BY <2>1 DEF UnackedInv, LocalInv
    <2>3. ~(localUnacked[i].ago >= base * Multiple(localUnacked[i].attempts))
      BY <2>1 DEF Tick, TimerDue, StoreDue, Overdue
    <2> DEFINE a == localUnacked[i].attempts
               g == localUnacked[i].ago
    <2>4. /\ localUnacked'[i] \in [ago : Nat, attempts : 0..MaxRetransmits]
          /\ localUnacked'[i].attempts = a /\ localUnacked'[i].ago = g + 1
          /\ a \in 0..MaxRetransmits /\ g \in Nat
      BY <2>1, <2>2
    <2>5. /\ base * Multiple(a) \in Nat /\ LongestBase * Multiple(a) \in Nat
          /\ base * Multiple(a) <= LongestBase * Multiple(a)
          /\ LongestBase * Rounds[a] \in Nat
      BY <2>4, WaitFacts DEF UnackedInv
    <2>6. g + 1 <= LongestBase * Multiple(a)
      BY <2>3, <2>4, <2>5
    <2>7. quiet' <= LongestBase * Rounds[a] + (g + 1)
      BY <1>1, <2>2, <2>4, <2>5
    <2> QED BY <2>4, <2>6, <2>7
  <1>3. RemoteInv'
    <2>1. /\ remoteUnacked \in Seq(Nat) /\ AckDelay \in Nat
          /\ remoteUnacked' = [i \in DOMAIN remoteUnacked |-> remoteUnacked[i] + 1]
          /\ \A i \in DOMAIN remoteUnacked :
               ~(remoteUnacked[i] >= AckDelay) /\ quiet <= remoteUnacked[i]
      BY PauseFacts DEF UnackedInv, RemoteInv, Tick, TimerDue, StoreDue, AckUrgent
    <2>2. DOMAIN remoteUnacked = 1..Len(remoteUnacked) /\ Len(remoteUnacked) \in Nat
          /\ \A i \in DOMAIN remoteUnacked : remoteUnacked[i] \in Nat
      BY <2>1
    <2>3. remoteUnacked' \in Seq(Nat) /\ DOMAIN remoteUnacked' = DOMAIN remoteUnacked
      BY <2>1, <2>2
    <2> QED BY <1>1, <2>1, <2>2, <2>3 DEF RemoteInv
  <1> QED BY <1>1, <1>2, <1>3 DEF UnackedInv

\* The acknowledgements that are left were waiting before.
LEMMA AfterAcksFacts ==
    ASSUME RemoteInv
    PROVE  /\ AfterAcks \in Seq(Nat)
           /\ \A i \in DOMAIN AfterAcks : \E k \in DOMAIN remoteUnacked : AfterAcks[i] = remoteUnacked[k]
  <1>1. remoteUnacked \in Seq(Nat) /\ AcksPerMessage \in Nat /\ AcksPerMessage > 0
    BY KeepaliveAssumption DEF RemoteInv, KeepaliveAssumption
  <1> DEFINE n == Len(remoteUnacked)
             k == AcksPerMessage
  <1>2. n \in Nat /\ k \in Nat /\ k > 0
    BY <1>1
  <1>3. CASE k + 1 <= n
    <2>1. Len(AfterAcks) = n - k
      BY <1>1, <1>2, <1>3 DEF AfterAcks
    <2>2. \A i \in 1..(n - k) : AfterAcks[i] = remoteUnacked[i + k]
      BY <1>1, <1>2, <1>3 DEF AfterAcks
    <2>3. AfterAcks \in Seq(Nat)
      BY <1>1, <1>2, <1>3 DEF AfterAcks
    <2>4. \A i \in 1..(n - k) : i + k \in DOMAIN remoteUnacked
      BY <1>1, <1>2
    <2> QED BY <2>1, <2>2, <2>3, <2>4
  <1>4. CASE ~(k + 1 <= n)
    <2>1. AfterAcks = <<>>
      BY <1>1, <1>2, <1>4 DEF AfterAcks
    <2> QED BY <2>1
  <1> QED BY <1>3, <1>4

\* handleTimerExpiry: a wait ends and the next, if there is one, begins.
LEMMA ExpiryStore ==
    ASSUME KeepInv, UnackedInv, TimerExpiry
    PROVE  UnackedInv'
  <1>1. quiet \in Nat /\ quiet' = quiet /\ base' = base
    BY TimerConstants DEF KeepInv, TimerTypeInv, TimerExpiry
  <1>2. CASE UNCHANGED store
    BY <1>1, <1>2 DEF UnackedInv, LocalInv, RemoteInv, store
  <1>3. CASE ~Undeliverable /\ ServeTimer
    <2>1. LocalInv'
      <3> SUFFICES ASSUME NEW i \in DOMAIN localUnacked'
                   PROVE  /\ localUnacked'[i] \in [ago : Nat, attempts : 0..MaxRetransmits]
                          /\ localUnacked'[i].ago
                                <= LongestBase * Multiple(localUnacked'[i].attempts)
                          /\ quiet' <= LongestBase * Rounds[localUnacked'[i].attempts]
                                       + localUnacked'[i].ago
        BY DEF LocalInv
      <3>1. /\ i \in DOMAIN localUnacked
            /\ localUnacked'[i] = IF Overdue(localUnacked[i])
                                  THEN [ago |-> 0, attempts |-> localUnacked[i].attempts + 1]
                                  ELSE localUnacked[i]
        BY <1>3 DEF ServeTimer, Retransmitted
      <3>2. /\ localUnacked[i] \in [ago : Nat, attempts : 0..MaxRetransmits]
            /\ localUnacked[i].ago <= LongestBase * Multiple(localUnacked[i].attempts)
            /\ quiet <= LongestBase * Rounds[localUnacked[i].attempts] + localUnacked[i].ago
        BY <3>1 DEF UnackedInv, LocalInv
      <3>3. CASE ~Overdue(localUnacked[i])
        BY <1>1, <3>1, <3>2, <3>3
      <3>4. CASE Overdue(localUnacked[i])
        <4> DEFINE a == localUnacked[i].attempts
                   g == localUnacked[i].ago
        <4>1. a \in 0..MaxRetransmits /\ a # MaxRetransmits /\ g \in Nat
          BY <1>3, <3>1, <3>2, <3>4 DEF Undeliverable
        <4>2. MaxRetransmits \in Nat
          BY RetransmitAssumption DEF RetransmitAssumption
        <4>3. a + 1 \in 0..MaxRetransmits
          BY <4>1, <4>2
        <4>4. /\ LongestBase * Rounds[a] \in Nat /\ LongestBase * Rounds[a + 1] \in Nat
              /\ LongestBase * Multiple(a) \in Nat
              /\ LongestBase * Rounds[a + 1] = LongestBase * Rounds[a] + LongestBase * Multiple(a)
          BY <4>1, WaitFacts DEF UnackedInv
        <4>5. LongestBase * Multiple(a + 1) \in Nat
          BY <4>3, WaitFacts DEF UnackedInv
        <4>6. quiet <= LongestBase * Rounds[a + 1] + 0
          BY <1>1, <3>2, <4>1, <4>4
        <4>7. /\ localUnacked'[i] \in [ago : Nat, attempts : 0..MaxRetransmits]
              /\ localUnacked'[i].attempts = a + 1 /\ localUnacked'[i].ago = 0
          BY <3>1, <3>4, <4>3
        <4> QED BY <1>1, <4>5, <4>6, <4>7
      <3> QED BY <3>3, <3>4
    <2>2. RemoteInv'
      BY <1>1, <1>3, AfterAcksFacts DEF UnackedInv, RemoteInv, ServeTimer
    <2> QED BY <1>1, <2>1, <2>2 DEF UnackedInv
  <1> QED BY <1>2, <1>3 DEF TimerExpiry, GiveUp

\* The silence ends, and what was or is put into the store is within its waits.
LEMMA SilentStore ==
    ASSUME UnackedInv, quiet' = 0, base' \in Bases, remoteUnacked' \in Seq(Nat),
           \A i \in DOMAIN localUnacked' :
              \/ i \in DOMAIN localUnacked /\ localUnacked'[i] = localUnacked[i]
              \/ localUnacked'[i] = [ago |-> 0, attempts |-> 0],
           \A i \in DOMAIN remoteUnacked' :
              remoteUnacked'[i] = 0 \/ \E k \in DOMAIN remoteUnacked : remoteUnacked'[i] = remoteUnacked[k]
    PROVE  UnackedInv'
  <1>1. \A a \in 0..MaxRetransmits :
          LongestBase * Multiple(a) \in Nat /\ LongestBase * Rounds[a] \in Nat
    BY WaitFacts DEF UnackedInv
  <1>2. 0 \in 0..MaxRetransmits
    BY RetransmitAssumption DEF RetransmitAssumption
  <1>3. LocalInv'
    <2> SUFFICES ASSUME NEW i \in DOMAIN localUnacked'
                 PROVE  /\ localUnacked'[i] \in [ago : Nat, attempts : 0..MaxRetransmits]
                        /\ localUnacked'[i].ago <= LongestBase * Multiple(localUnacked'[i].attempts)
                        /\ 0 <= LongestBase * Rounds[localUnacked'[i].attempts] + localUnacked'[i].ago
      BY DEF LocalInv
    <2>1. /\ localUnacked'[i] \in [ago : Nat, attempts : 0..MaxRetransmits]
          /\ localUnacked'[i].ago <= LongestBase * Multiple(localUnacked'[i].attempts)
      BY <1>1, <1>2 DEF UnackedInv, LocalInv
    <2>2. /\ localUnacked'[i].ago \in Nat
          /\ LongestBase * Rounds[localUnacked'[i].attempts] \in Nat
      BY <1>1, <2>1
    <2> QED BY <2>1, <2>2
  <1>4. RemoteInv'
    <2>1. remoteUnacked \in Seq(Nat) /\ AckDelay \in Nat
          /\ \A k \in DOMAIN remoteUnacked : remoteUnacked[k] \in Nat /\ remoteUnacked[k] <= AckDelay
      BY PauseFacts DEF UnackedInv, RemoteInv
    <2> QED BY <2>1 DEF RemoteInv
  <1> QED BY <1>3, <1>4 DEF UnackedInv

LEMMA DataTimer ==
    ASSUME TimerInv, SendData
    PROVE  TimerInv'
  <1>1. SilenceBroken /\ quiet' = 0 /\ base' = base
    <2>1. sinceActivity \in 0..Horizon /\ Horizon \in Nat
      BY TimerConstants DEF TimerInv, KeepInv, TimerTypeInv
    <2>2. sinceActivity' = 0 \/ sinceActivity' = sinceActivity
      BY DEF SendData
    <2>3. sinceActivity' \in 0..Horizon /\ sinceActivity' <= sinceActivity
      BY <2>1, <2>2
    <2> QED BY <2>3 DEF SendData, SilenceBroken, settings
  <1>2. remoteUnacked' = AfterAcks
    BY DEF SendData
  <1>3. \A i \in DOMAIN localUnacked' :
          \/ i \in DOMAIN localUnacked /\ localUnacked'[i] = localUnacked[i]
          \/ localUnacked'[i] = [ago |-> 0, attempts |-> 0]
    <2>1. CASE UNCHANGED localUnacked
      BY <2>1
    <2>2. ASSUME NEW k \in 1..LocalCap \ DOMAIN localUnacked,
                 localUnacked' = [i \in DOMAIN localUnacked \cup {k} |->
                    IF i = k THEN [ago |-> 0, attempts |-> 0] ELSE localUnacked[i]]
          PROVE  \A i \in DOMAIN localUnacked' :
                   \/ i \in DOMAIN localUnacked /\ localUnacked'[i] = localUnacked[i]
                   \/ localUnacked'[i] = [ago |-> 0, attempts |-> 0]
      BY <2>2
    <2> QED BY <2>1, <2>2 DEF SendData
  <1>4. KeepInv'
    BY <1>1, SilenceEnds DEF TimerInv
  <1>5. UnackedInv'
    BY <1>1, <1>2, <1>3, AfterAcksFacts, SilentStore DEF TimerInv, UnackedInv
  <1> QED BY <1>4, <1>5 DEF TimerInv

LEMMA AppendedZeros ==
    ASSUME NEW s \in Seq(Nat), NEW t \in Seq(Nat), \A i \in 1..Len(t) : t[i] = 0
    PROVE  /\ s \o t \in Seq(Nat)
           /\ \A i \in DOMAIN (s \o t) : (s \o t)[i] = 0 \/ \E k \in DOMAIN s : (s \o t)[i] = s[k]
  <1>1. s \o t \in Seq(Nat) /\ DOMAIN (s \o t) = 1..(Len(s) + Len(t))
    OBVIOUS
  <1>2. ASSUME NEW i \in 1..(Len(s) + Len(t))
        PROVE  (s \o t)[i] = 0 \/ \E k \in DOMAIN s : (s \o t)[i] = s[k]
    <2>1. CASE i <= Len(s)
      <3>1. (s \o t)[i] = s[i] /\ i \in DOMAIN s
        BY <2>1
      <3> QED BY <3>1
    <2>2. CASE i > Len(s)
      <3>1. (s \o t)[i] = t[i - Len(s)] /\ i - Len(s) \in 1..Len(t)
        BY <2>2
      <3> QED BY <3>1
    <2> QED BY <2>1, <2>2
  <1> QED BY <1>1, <1>2

LEMMA ServerTimer ==
    ASSUME TimerInv, FromServer
    PROVE  TimerInv'
  <1>1. SilenceBroken /\ quiet' = 0 /\ base' = base
    <2>1. sinceActivity \in 0..Horizon /\ Horizon \in Nat
      BY TimerConstants DEF TimerInv, KeepInv, TimerTypeInv
    <2> QED BY <2>1 DEF FromServer, SilenceBroken, settings
  <1>2. \A i \in DOMAIN localUnacked' :
          i \in DOMAIN localUnacked /\ localUnacked'[i] = localUnacked[i]
    BY DEF FromServer
  <1>3. /\ remoteUnacked' \in Seq(Nat)
        /\ \A i \in DOMAIN remoteUnacked' :
             remoteUnacked'[i] = 0 \/ \E k \in DOMAIN remoteUnacked : remoteUnacked'[i] = remoteUnacked[k]
    <2>1. remoteUnacked \in Seq(Nat)
      BY DEF TimerInv, UnackedInv, RemoteInv
    <2>2. PICK n \in 0..(MaxToAck - Len(remoteUnacked)) :
            remoteUnacked' = remoteUnacked \o [k \in 1..n |-> 0]
      BY DEF FromServer
    <2> DEFINE new == [k \in 1..n |-> 0]
    <2>3. new \in Seq(Nat) /\ Len(new) = n /\ n \in Nat /\ \A i \in 1..n : new[i] = 0
      <3>1. n \in Nat /\ new \in [1..n -> Nat]
        OBVIOUS
      <3>2. new \in Seq(Nat)
        BY <3>1
      <3>3. Len(new) = n
        BY <3>1
      <3> QED BY <3>1, <3>2, <3>3
    <2>4. remoteUnacked' = remoteUnacked \o new
      BY <2>2
    <2> HIDE DEF new
    <2> QED BY <2>4, <2>1, <2>3, AppendedZeros
  <1>4. KeepInv'
    BY <1>1, SilenceEnds DEF TimerInv
  <1>5. UnackedInv'
    BY <1>1, <1>2, <1>3, SilentStore DEF TimerInv, UnackedInv
  <1> QED BY <1>4, <1>5 DEF TimerInv

--------------------------------------------------------------------------------
(* Keepalives: the theorems *)

LEMMA TimerInvariant == TimerSpec => []TimerInv
  <1>1. TimerInit => TimerInv
    <2> SUFFICES ASSUME TimerInit PROVE TimerInv
      OBVIOUS
    <2>1. KeepInv
      BY TimerConstants, PauseFacts
         DEF TimerInit, KeepInv, TimerTypeInv, AnsweredInv, RetryInv, SilenceInv, NoEarlyTimeout
    <2>2. UnackedInv
      BY DEF TimerInit, UnackedInv, LocalInv, RemoteInv
    <2> QED BY <2>1, <2>2 DEF TimerInv
  <1>2. TimerInv /\ [TimerNext]_timerVars => TimerInv'
    <2> SUFFICES ASSUME TimerInv, [TimerNext]_timerVars PROVE TimerInv'
      OBVIOUS
    <2>0. KeepInv /\ UnackedInv
      BY DEF TimerInv
    <2>1. CASE Tick
      BY <2>0, <2>1, TickTimer, TickStore DEF TimerInv
    <2>2. CASE TimerExpiry
      BY <2>0, <2>2, ExpiryTimer, ExpiryStore DEF TimerInv
    <2>3. CASE SendData
      BY <2>3, DataTimer
    <2>4. CASE ManualKeepalive
      <3>1. /\ status = "up" /\ status' = "up" /\ manual' = manual + 1 /\ quiet' = 0
            /\ SendKeepalive /\ UNCHANGED <<active, estimates, deaf, base, localUnacked, remoteUnacked>>
        BY <2>4 DEF ManualKeepalive, settings, store
      <3>2. NoneUnacked' <=> NoneUnacked
        BY <3>1 DEF NoneUnacked
      <3>3. KeepInv'
        BY <2>0, <3>1, <3>2, SendTimer
      <3>4. UnackedInv'
        BY <2>0, <3>1, SilentStore DEF UnackedInv, RemoteInv
      <3> QED BY <3>3, <3>4 DEF TimerInv
    <2>5. CASE Response
      <3>1. /\ quiet' = 0 /\ UNCHANGED <<localUnacked, remoteUnacked>>
        BY <2>5 DEF Response, store
      <3>2. base' \in Bases
        BY <2>0, <2>5 DEF Response, NewEstimate, UnackedInv
      <3>3. UnackedInv'
        BY <2>0, <3>1, <3>2, SilentStore DEF UnackedInv, RemoteInv
      <3> QED BY <2>0, <2>5, <3>3, ResponseTimer DEF TimerInv
    <2>6. CASE UpdateLatency \/ LoseKeepalive \/ UNCHANGED timerVars
      <3>1. /\ UNCHANGED <<active, status, sinceActivity, sinceKeepalive, deaf, quiet, unacked,
                           manual, localUnacked, remoteUnacked>>
            /\ estimates' = estimates \/ estimates' = Least(estimates + 1, Len(Early))
        BY <2>6 DEF UpdateLatency, LoseKeepalive, timerVars, settings, ages, store
      <3>2. base' \in Bases
        BY <2>0, <2>6 DEF UpdateLatency, LoseKeepalive, timerVars, NewEstimate, UnackedInv
      <3>3. estimates' \in Nat
        BY <2>0, <3>1, EarlyFacts DEF KeepInv, TimerTypeInv, Least
      <3>4. KeepInv'
        BY <2>0, <3>1, <3>3
           DEF KeepInv, TimerTypeInv, AnsweredInv, RetryInv, SilenceInv, NoEarlyTimeout, NoneUnacked
      <3>5. UnackedInv'
        BY <2>0, <3>1, <3>2 DEF UnackedInv, LocalInv, RemoteInv
      <3> QED BY <3>4, <3>5 DEF TimerInv
    <2>7. CASE FromServer
      BY <2>7, ServerTimer
    <2> QED BY <2>1, <2>2, <2>3, <2>4, <2>5, <2>6, <2>7 DEF TimerNext
  <1> QED BY <1>1, <1>2, PTL DEF TimerSpec

\* handleTimerExpiry: a server that has gone away is noticed in time, whatever intervals, limits,
\* waits and transport; what the timer retransmits and acknowledges, keepalives that the application
\* sends, and answers that come late do not postpone it beyond that.
THEOREM DeadPeerIsNoticed == TimerSpec => []DeadPeerNoticed
  <1>1. TimerInv => DeadPeerNoticed
    <2> SUFFICES ASSUME TimerInv
                 PROVE  quiet <= KeepalivesEnd \/ quiet <= RetransmitsEnd
      BY DEF DeadPeerNoticed
    <2> USE TimerConstants, PauseFacts
    <2>1. (Limit + 1) * RetryAfter = Limit * RetryAfter + RetryAfter /\ Limit * RetryAfter \in Nat
      BY OneMore, ProductNat
    <2>2. TimerTypeInv /\ AnsweredInv /\ RetryInv /\ UnackedInv
      BY DEF TimerInv, KeepInv
    <2>3. CASE NoneUnacked /\ unacked = 0
      BY <2>1, <2>2, <2>3 DEF AnsweredInv, TimerTypeInv, KeepalivesEnd
    <2>4. CASE NoneUnacked /\ unacked > 0
      BY <2>1, <2>2, <2>4 DEF RetryInv, TimerTypeInv, KeepalivesEnd
    <2>5. CASE ~NoneUnacked
      <3>1. PICK i \in DOMAIN localUnacked : TRUE
        BY <2>5 DEF NoneUnacked
      <3> DEFINE a == localUnacked[i].attempts
                 g == localUnacked[i].ago
      <3>2. /\ localUnacked[i] \in [ago : Nat, attempts : 0..MaxRetransmits]
            /\ g <= LongestBase * Multiple(a) /\ quiet <= LongestBase * Rounds[a] + g
        BY <2>2, <3>1 DEF UnackedInv, LocalInv
      <3>3. a \in 0..MaxRetransmits /\ g \in Nat /\ quiet \in Nat
        BY <2>2, <3>2 DEF TimerTypeInv
      <3>4. /\ LongestBase * Rounds[a] \in Nat /\ LongestBase * Multiple(a) \in Nat
            /\ LongestBase * Rounds[a + 1] = LongestBase * Rounds[a] + LongestBase * Multiple(a)
            /\ RetransmitsEnd \in Nat /\ LongestBase * Rounds[a + 1] <= RetransmitsEnd
        BY <2>2, <3>3, WaitFacts DEF UnackedInv
      <3> HIDE DEF a, g
      <3>5. quiet <= RetransmitsEnd
        BY <3>2, <3>3, <3>4
      <3> QED BY <3>5
    <2> QED BY <2>2, <2>3, <2>4, <2>5 DEF TimerTypeInv
  <1> QED BY <1>1, TimerInvariant, PTL

\* It does not give up on a server that was heard of in the time those keepalives take, however
\* often UDP's timer expires for another reason.
THEOREM NotGivenUpEarly == TimerSpec => []NoEarlyTimeout
  <1>1. TimerInv => NoEarlyTimeout
    BY DEF TimerInv, KeepInv
  <1> QED BY <1>1, TimerInvariant, PTL

--------------------------------------------------------------------------------
(* Messages on a stream: the inductive invariant *)

\* A message as it lies on the stream: where it starts, and its length.
Placed == [at : Nat, len : Nat]

\* Where the message ends.
EndOf(m) == m.at + Frame(m.len)

FramingTypeInv ==
    /\ wire \in Seq(Placed) /\ returned \in Seq(Placed)
    /\ arrived \in Nat /\ front \in Nat /\ capacity \in Nat /\ readPos \in Nat /\ window \in Nat

\* The server puts its messages one behind the other.
WireInv ==
    /\ wire # <<>> => wire[1].at = 0
    /\ \A k \in 1..Len(wire) : k < Len(wire) => wire[k + 1].at = EndOf(wire[k])
    /\ \A j, k \in 1..Len(wire) : j < k => EndOf(wire[j]) <= wire[k].at

\* The buffer holds a piece of what was sent, and what was returned lies before it.
PieceInv ==
    /\ front <= arrived /\ arrived <= Sent
    /\ \A i \in 1..Len(returned) : returned[i].at < front

\* The circular buffer.
RingInv ==
    /\ capacity > 0 /\ readPos < capacity
    /\ NoOverwrite

FramingInv == FramingTypeInv /\ WireInv /\ PieceInv /\ RingInv /\ MessagesIntact

--------------------------------------------------------------------------------
(* Messages on a stream: facts about the operators *)

\* The constants, as far as the steps need them.
LEMMA FramingConstants ==
    /\ Header \in Nat /\ Header > 0 /\ Initial \in Nat /\ Initial > 0
    /\ Reserve \in Nat /\ Reserve > 0 /\ Full \in Nat /\ SizeLimit \in Nat
    /\ Lengths \subseteq Nat
  BY StreamFramingAssumption DEF StreamFramingAssumption

\* What one wrap of an index leaves.
LEMMA WrapOnce ==
    ASSUME NEW a \in Nat, NEW c \in Nat, c > 0, a < c + c
    PROVE  a % c = IF a < c THEN a ELSE a - c
  OBVIOUS

\* An index taken modulo the capacity lies in the buffer.
LEMMA WrapRange ==
    ASSUME NEW a \in Nat, NEW c \in Nat, c > 0
    PROVE  a % c \in Nat /\ a % c < c
  OBVIOUS

\* The stream ends where the last message does.
LEMMA SentFacts ==
    ASSUME FramingTypeInv
    PROVE  /\ Sent \in Nat
           /\ wire = <<>> => Sent = 0
           /\ wire # <<>> => Len(wire) \in 1..Len(wire) /\ Sent = EndOf(wire[Len(wire)])
           /\ \A k \in 1..Len(wire) : wire[k] \in Placed /\ EndOf(wire[k]) \in Nat
           /\ \A k \in 1..Len(wire) : wire[k].at < EndOf(wire[k])
  <1> USE FramingConstants
  <1>1. \A k \in 1..Len(wire) : wire[k] \in Placed
    BY DEF FramingTypeInv
  <1>2. \A m \in Placed : EndOf(m) \in Nat /\ m.at < EndOf(m)
    BY DEF Placed, EndOf, Frame
  <1>3. wire # <<>> => Len(wire) \in 1..Len(wire)
    BY DEF FramingTypeInv
  <1> QED BY <1>1, <1>2, <1>3 DEF Sent, Last, EndOf, FramingTypeInv

\* writeWindow: the room it finds is free and in one piece; there is some if there is any.
LEMMA WindowFits ==
    ASSUME NEW cap \in Nat, NEW rpos \in Nat, cap > 0, rpos < cap,
           Size \in Nat, Size <= cap
    PROVE  /\ WriteWindow(cap, rpos) \in Nat
           /\ Size + WriteWindow(cap, rpos) <= cap
           /\ ((rpos + Size) % cap) + WriteWindow(cap, rpos) <= cap
           /\ Size < cap => WriteWindow(cap, rpos) > 0
  <1> DEFINE size == Size
             wpos == (rpos + size) % cap
  <1>0. size \in Nat /\ size <= cap /\ Size = size
    OBVIOUS
  <1> HIDE DEF size
  <1>1. wpos = IF rpos + size < cap THEN rpos + size ELSE rpos + size - cap
    <2>1. rpos + size \in Nat /\ rpos + size < cap + cap
      BY <1>0
    <2> DEFINE a == rpos + size
    <2> HIDE DEF a
    <2>2. a \in Nat /\ a < cap + cap
      BY <2>1 DEF a
    <2>3. a % cap = IF a < cap THEN a ELSE a - cap
      BY <2>2, WrapOnce
    <2> QED BY <1>0, <2>1, <2>3 DEF a
  <1>2. WriteWindow(cap, rpos) =
          IF size = cap THEN 0 ELSE IF wpos >= rpos THEN cap - wpos ELSE rpos - wpos
    BY <1>0 DEF WriteWindow
  <1> HIDE DEF wpos
  <1>3. (rpos + Size) % cap = wpos
    BY <1>0 DEF wpos
  <1> QED BY <1>0, <1>1, <1>2, <1>3

\* With a whole length in the buffer the client is at the start of a message, and reads its
\* length; behind it is the next, or nothing.
LEMMA AtFront ==
    ASSUME FramingInv, Size >= Header
    PROVE  \E k \in 1..Len(wire) :
             /\ wire[k].at = front /\ LengthAt(front) = wire[k].len
             /\ EndOf(wire[k]) = Sent
                \/ (k + 1 \in 1..Len(wire) /\ EndOf(wire[k]) = wire[k + 1].at)
             /\ \A j \in 1..Len(wire) : wire[j].at < EndOf(wire[k]) => wire[j].at < front \/ j = k
  <1> USE FramingConstants
  <1>1. front < Sent
    BY SentFacts DEF FramingInv, PieceInv, FramingTypeInv, Size
  <1>2. PICK k \in 1..Len(wire) : wire[k].at = front
    BY <1>1, SentFacts DEF FramingInv, MessagesIntact, FramingTypeInv
  <1>3. \A j \in 1..Len(wire) : j < k => wire[j].at < front
    BY <1>2, SentFacts, SMTT(40) DEF FramingInv, WireInv, Placed
  <1>4. \A j \in 1..Len(wire) : k < j => wire[j].at >= EndOf(wire[k])
    BY <1>2 DEF FramingInv, WireInv
  <1>5. \A j \in 1..Len(wire) : wire[j].at = front => j = k
    BY <1>2, <1>3, <1>4, SentFacts DEF FramingInv, Placed
  <1>6. LengthAt(front) = wire[k].len
    <2>1. DOMAIN wire = 1..Len(wire)
      BY DEF FramingInv, FramingTypeInv
    <2>2. (CHOOSE j \in DOMAIN wire : wire[j].at = front) = k
      BY <1>2, <1>5, <2>1
    <2> QED BY <1>2, <2>1, <2>2 DEF LengthAt
  <1>7. \/ EndOf(wire[k]) = Sent
        \/ k + 1 \in 1..Len(wire) /\ EndOf(wire[k]) = wire[k + 1].at
    <2>1. CASE k = Len(wire)
      BY <2>1, SentFacts DEF FramingInv
    <2>2. CASE k < Len(wire)
      BY <2>2 DEF FramingInv, WireInv, FramingTypeInv
    <2> QED BY <2>1, <2>2 DEF FramingInv, FramingTypeInv
  <1>8. \A j \in 1..Len(wire) : wire[j].at < EndOf(wire[k]) => wire[j].at < front \/ j = k
    <2> SUFFICES ASSUME NEW j \in 1..Len(wire), wire[j].at < EndOf(wire[k]), j # k
                 PROVE  j < k
      BY <1>3
    <2> QED BY <1>4, SentFacts DEF FramingInv, Placed
  <1> QED BY <1>2, <1>6, <1>7, <1>8

--------------------------------------------------------------------------------
(* Messages on a stream: the actions *)

LEMMA FramingStarts ==
    ASSUME FramingInit
    PROVE  FramingInv
  <1> USE FramingConstants DEF FramingInit
  <1>1. FramingTypeInv
    BY DEF FramingTypeInv
  <1>2. Sent = 0
    BY DEF Sent
  <1>3. WireInv /\ PieceInv /\ MessagesIntact
    BY <1>2 DEF WireInv, PieceInv, MessagesIntact
  <1>4. RingInv
    BY DEF RingInv, NoOverwrite, Size
  <1> QED BY <1>1, <1>3, <1>4 DEF FramingInv

\* The server adds a message behind the others: nothing before it changes.
LEMMA SendsFraming ==
    ASSUME FramingInv, ServerSends
    PROVE  FramingInv'
  <1> USE FramingConstants
  <1>1. PICK n \in Lengths : wire' = Append(wire, [at |-> Sent, len |-> n])
    BY DEF ServerSends
  <1> DEFINE m == [at |-> Sent, len |-> n]
  <1>2. /\ UNCHANGED <<arrived, front, capacity, readPos, step, window, returned>>
    BY DEF ServerSends, buffer
  <1>3. /\ Sent \in Nat /\ n \in Nat /\ m \in Placed
        /\ m.at = Sent /\ m.len = n /\ EndOf(m) \in Nat /\ EndOf(m) > Sent
    BY SentFacts DEF FramingInv, Placed, EndOf, Frame
  <1> HIDE DEF m
  <1>4. /\ wire \in Seq(Placed) /\ Len(wire) \in Nat /\ wire' \in Seq(Placed)
        /\ Len(wire') = Len(wire) + 1
        /\ \A k \in 1..Len(wire) : wire'[k] = wire[k]
        /\ wire'[Len(wire) + 1] = m
    <2>1. wire \in Seq(Placed) /\ wire' = Append(wire, m)
      BY <1>1 DEF FramingInv, FramingTypeInv, m
    <2> QED BY <1>3, <2>1
  <1>5. Sent' = EndOf(m)
    <2>1. wire' # <<>>
      BY <1>4
    <2> QED BY <1>4, <2>1 DEF Sent, Last, EndOf
  <1>6. FramingTypeInv'
    BY <1>2, <1>4 DEF FramingInv, FramingTypeInv
  <1>7. WireInv'
    <2>1. wire'[1].at = 0
      <3>1. CASE wire = <<>>
        BY <3>1, <1>3, <1>4, SentFacts DEF FramingInv
      <3>2. CASE wire # <<>>
        BY <3>2, <1>4, SentFacts DEF FramingInv, WireInv
      <3> QED BY <3>1, <3>2
    <2>2. ASSUME NEW k \in 1..Len(wire'), k < Len(wire')
          PROVE  wire'[k + 1].at = EndOf(wire'[k])
      <3>1. k \in 1..Len(wire) /\ wire'[k] = wire[k]
        BY <2>2, <1>4
      <3>2. CASE k < Len(wire)
        BY <3>1, <3>2, <1>4 DEF FramingInv, WireInv
      <3>3. CASE k = Len(wire)
        BY <3>1, <3>3, <1>3, <1>4, SentFacts DEF FramingInv
      <3> QED BY <3>1, <3>2, <3>3, <1>4
    <2>3. ASSUME NEW j \in 1..Len(wire'), NEW k \in 1..Len(wire'), j < k
          PROVE  EndOf(wire'[j]) <= wire'[k].at
      <3>1. j \in 1..Len(wire) /\ wire'[j] = wire[j]
        BY <2>3, <1>4
      <3>2. CASE k \in 1..Len(wire)
        BY <2>3, <3>1, <3>2, <1>4 DEF FramingInv, WireInv
      <3>3. CASE k = Len(wire) + 1
        <4>1. EndOf(wire[j]) <= Sent
          <5>1. CASE j = Len(wire)
            BY <3>1, <5>1, SentFacts DEF FramingInv
          <5>2. CASE j < Len(wire)
            <6>1. wire # <<>> /\ EndOf(wire[j]) <= wire[Len(wire)].at
              BY <3>1, <5>2, <1>4 DEF FramingInv, WireInv
            <6>2. /\ EndOf(wire[j]) \in Nat /\ wire[Len(wire)] \in Placed
                  /\ Sent = EndOf(wire[Len(wire)]) /\ wire[Len(wire)].at < EndOf(wire[Len(wire)])
              BY <6>1, <3>1, SentFacts DEF FramingInv
            <6>3. wire[Len(wire)].at \in Nat
              BY <6>2 DEF Placed
            <6> QED BY <6>1, <6>2, <6>3, <1>3
          <5> QED BY <5>1, <5>2, <3>1, <1>4
        <4> QED BY <3>1, <3>3, <4>1, <1>3, <1>4
      <3> QED BY <3>2, <3>3, <1>4
    <2> QED BY <2>1, <2>2, <2>3 DEF WireInv, EndOf, Frame
  <1>8. PieceInv'
    BY <1>2, <1>3, <1>5 DEF FramingInv, PieceInv, FramingTypeInv
  <1>9. RingInv'
    BY <1>2 DEF FramingInv, RingInv, NoOverwrite, Size
  <1>10. MessagesIntact'
    <2>0. DOMAIN wire = 1..Len(wire) /\ DOMAIN wire' = 1..Len(wire') /\ DOMAIN returned' = DOMAIN returned
      BY <1>2, <1>4
    <2>1. ToSet(returned)' = ToSet(returned)
      BY <1>2 DEF ToSet
    <2>2. ToSet(wire) \subseteq ToSet(wire)'
      BY <1>4, <2>0 DEF ToSet
    <2>3. \A i \in DOMAIN returned : returned[i] \in ToSet(wire)' /\ returned[i].len > 0
      BY <2>2 DEF FramingInv, MessagesIntact
    <2>4. \A i, j \in DOMAIN returned : i < j => returned[i].at < returned[j].at
      BY DEF FramingInv, MessagesIntact
    <2>5. ASSUME NEW k \in DOMAIN wire', wire'[k].at < front, wire'[k].len > 0
          PROVE  wire'[k] \in ToSet(returned)
      <3>1. k \in DOMAIN wire
        BY <2>5, <2>0, <1>3, <1>4 DEF FramingInv, PieceInv, FramingTypeInv
      <3> QED BY <2>5, <3>1, <2>0, <1>4 DEF FramingInv, MessagesIntact
    <2>6. \E k \in DOMAIN wire' : front = wire'[k].at
      <3>1. CASE front = Sent
        BY <3>1, <2>0, <1>3, <1>4
      <3>2. CASE \E k \in DOMAIN wire : front = wire[k].at
        BY <3>2, <2>0, <1>4
      <3> QED BY <3>1, <3>2 DEF FramingInv, MessagesIntact
    <2> QED BY <1>2, <2>0, <2>1, <2>3, <2>4, <2>5, <2>6 DEF MessagesIntact
  <1> QED BY <1>6, <1>7, <1>8, <1>9, <1>10 DEF FramingInv

\* A step that leaves the messages and the bytes in the buffer alone.
LEMMA StreamSame ==
    ASSUME FramingInv, UNCHANGED <<wire, arrived, front, returned>>
    PROVE  WireInv' /\ PieceInv' /\ MessagesIntact' /\ Size' = Size
  <1>1. Sent' = Sent
    BY DEF Sent, Last, Frame
  <1>2. WireInv'
    BY DEF FramingInv, WireInv, EndOf, Frame
  <1>3. PieceInv'
    BY <1>1 DEF FramingInv, PieceInv
  <1>4. MessagesIntact'
    BY <1>1 DEF FramingInv, MessagesIntact, ToSet
  <1>5. Size' = Size
    BY DEF Size
  <1> QED BY <1>2, <1>3, <1>4, <1>5

\* A call that starts, fails or is dropped leaves the buffer as it is.
LEMMA CallFraming ==
    ASSUME FramingInv,
           Call \/ TooLong \/ Cancel
    PROVE  FramingInv'
  <1>1. /\ UNCHANGED <<wire, arrived, front, returned, capacity, readPos>>
        /\ step' # "reading" /\ (window' = window \/ window' = 0)
    BY DEF Call, TooLong, Cancel, buffer
  <1>2. WireInv' /\ PieceInv' /\ MessagesIntact' /\ Size' = Size
    BY <1>1, StreamSame
  <1>3. FramingTypeInv'
    BY <1>1 DEF FramingInv, FramingTypeInv
  <1>4. RingInv'
    BY <1>1, <1>2 DEF FramingInv, RingInv, NoOverwrite
  <1> QED BY <1>2, <1>3, <1>4 DEF FramingInv

\* waitForData: there is room when it reads, before and after the buffer has grown.
LEMMA NeedDataFraming ==
    ASSUME FramingInv, NeedData
    PROVE  FramingInv'
  <1> USE FramingConstants
  <1>1. UNCHANGED <<wire, arrived, front, returned>>
    BY DEF NeedData
  <1>2. WireInv' /\ PieceInv' /\ MessagesIntact' /\ Size' = Size
    BY <1>1, StreamSame
  <1>3. /\ Size \in Nat /\ Size <= capacity
        /\ capacity \in Nat /\ readPos \in Nat /\ capacity > 0 /\ readPos < capacity /\ window \in Nat
    BY SentFacts DEF FramingInv, FramingTypeInv, PieceInv, RingInv, NoOverwrite, Size
  <1>4. SUFFICES /\ capacity' \in Nat /\ readPos' \in Nat /\ window' \in Nat
                 /\ capacity' > 0 /\ readPos' < capacity' /\ Size <= capacity'
                 /\ step' = "reading" =>
                      /\ window' > 0 /\ Size + window' <= capacity'
                      /\ ((readPos' + Size) % capacity') + window' <= capacity'
    <2>1. FramingTypeInv'
      BY <1>1, <1>4 DEF FramingInv, FramingTypeInv
    <2>2. RingInv'
      BY <1>2, <1>4 DEF RingInv, NoOverwrite
    <2> QED BY <1>2, <2>1, <2>2 DEF FramingInv
  <1>5. CASE /\ WriteWindow(capacity, readPos) >= Reserve
             /\ window' = WriteWindow(capacity, readPos)
             /\ UNCHANGED <<capacity, readPos>>
    <2>1. /\ WriteWindow(capacity, readPos) \in Nat
          /\ Size + WriteWindow(capacity, readPos) <= capacity
          /\ ((readPos + Size) % capacity) + WriteWindow(capacity, readPos) <= capacity
      BY <1>3, WindowFits
    <2> QED BY <1>3, <1>5, <2>1
  <1>6. CASE step' = "idle" /\ UNCHANGED <<window, capacity, readPos>>
    BY <1>3, <1>6
  <1>7. CASE /\ \/ capacity - Size >= Reserve /\ UNCHANGED <<capacity, readPos>>
                \/ /\ capacity' \in {c \in {Size + Reserve, 2 * capacity} :
                                         c >= Size + Reserve}
                   /\ readPos' = 0
             /\ window' = WriteWindow(capacity', readPos')
    <2>1. /\ capacity' \in Nat /\ readPos' \in Nat /\ capacity' > 0 /\ readPos' < capacity'
          /\ Size + Reserve <= capacity'
      BY <1>3, <1>7
    <2>2. PICK c \in Nat, p \in Nat :
            c = capacity' /\ p = readPos' /\ window' = WriteWindow(c, p)
      BY <1>7, <2>1 DEF WriteWindow
    <2>3. /\ WriteWindow(c, p) \in Nat
          /\ Size + WriteWindow(c, p) <= c
          /\ ((p + Size) % c) + WriteWindow(c, p) <= c
          /\ WriteWindow(c, p) > 0
      <3>1. c > 0 /\ p < c /\ Size < c
        BY <1>3, <2>1, <2>2
      <3> QED BY <1>3, <3>1, WindowFits
    <2> QED BY <1>3, <2>1, <2>2, <2>3
  <1> QED BY <1>5, <1>6, <1>7 DEF NeedData, WaitForData

\* Bytes taken out: the room grows.
LEMMA SkipRing ==
    ASSUME FramingInv, NEW n \in Nat, n <= Size, step' # "reading",
           front' = front + n, arrived' = arrived, capacity' = capacity,
           readPos' = Skip(n)
    PROVE  front' \in Nat /\ readPos' \in Nat /\ RingInv' /\ front' <= arrived'
  <1>1. /\ Size \in Nat /\ Size <= capacity
        /\ capacity \in Nat /\ readPos \in Nat /\ capacity > 0 /\ front \in Nat /\ arrived \in Nat
    BY DEF FramingInv, FramingTypeInv, PieceInv, RingInv, NoOverwrite, Size
  <1>2. readPos' \in Nat /\ readPos' < capacity
    <2>1. (readPos + n) % capacity \in Nat /\ (readPos + n) % capacity < capacity
      BY <1>1, WrapRange
    <2> QED BY <1>1, <2>1 DEF Skip
  <1>3. Size' \in Nat /\ Size' <= Size
    BY <1>1 DEF Size
  <1>4. front' \in Nat /\ front' <= arrived'
    BY <1>1 DEF Size
  <1> QED BY <1>1, <1>2, <1>3, <1>4 DEF RingInv, NoOverwrite

\* An empty message is skipped: the client is at the next one.
LEMMA SkipEmptyFraming ==
    ASSUME FramingInv, SkipEmpty
    PROVE  FramingInv'
  <1> USE FramingConstants
  <1>1. /\ Size >= Header /\ LengthAt(front) = 0 /\ step' # "reading"
        /\ front' = front + Header /\ readPos' = Skip(Header)
        /\ UNCHANGED <<wire, arrived, capacity, window, returned>>
    BY DEF SkipEmpty
  <1>2. PICK k \in 1..Len(wire) :
             /\ wire[k].at = front /\ LengthAt(front) = wire[k].len
             /\ EndOf(wire[k]) = Sent
                \/ (k + 1 \in 1..Len(wire) /\ EndOf(wire[k]) = wire[k + 1].at)
             /\ \A j \in 1..Len(wire) : wire[j].at < EndOf(wire[k]) => wire[j].at < front \/ j = k
    BY <1>1, AtFront
  <1>3. EndOf(wire[k]) = front' /\ wire[k].len = 0
    BY <1>1, <1>2 DEF EndOf, Frame
  <1>4. front' \in Nat /\ readPos' \in Nat /\ RingInv' /\ front' <= arrived'
    BY <1>1, SkipRing DEF FramingInv, FramingTypeInv, Size
  <1>5. FramingTypeInv'
    BY <1>1, <1>4 DEF FramingInv, FramingTypeInv
  <1>6. Sent' = Sent
    BY <1>1 DEF Sent, Last, Frame
  <1>7. WireInv'
    BY <1>1 DEF FramingInv, WireInv, EndOf, Frame
  <1>8. PieceInv'
    <2>1. \A i \in 1..Len(returned) : returned[i].at \in Nat
      <3>1. \A i \in 1..Len(returned) : returned[i] \in Placed
        BY DEF FramingInv, FramingTypeInv
      <3> QED BY <3>1 DEF Placed
    <2> QED BY <1>1, <1>4, <1>6, <2>1, SMTT(40) DEF FramingInv, PieceInv, FramingTypeInv
  <1>9. MessagesIntact'
    <2>1. DOMAIN wire = 1..Len(wire)
      BY DEF FramingInv, FramingTypeInv
    <2>2. \A j \in DOMAIN wire : wire[j].at < front' /\ wire[j].len > 0 => wire[j].at < front
      BY <1>2, <1>3, <2>1
    <2>3. front' = Sent \/ \E j \in DOMAIN wire : front' = wire[j].at
      BY <1>2, <1>3, <2>1
    <2>4. \A j \in DOMAIN wire : wire[j].at < front' /\ wire[j].len > 0 => wire[j] \in ToSet(returned)
      BY <2>2 DEF FramingInv, MessagesIntact
    <2> QED BY <1>1, <1>6, <2>3, <2>4 DEF FramingInv, MessagesIntact, ToSet
  <1> QED BY <1>4, <1>5, <1>7, <1>8, <1>9 DEF FramingInv

\* A message is returned: it is the one the client is at, all before it were.
LEMMA ReturnFraming ==
    ASSUME FramingInv, Return
    PROVE  FramingInv'
  <1> USE FramingConstants
  <1> DEFINE n == LengthAt(front)
             m == [at |-> front, len |-> n]
  <1>1. /\ Size >= Header /\ n # 0 /\ Size >= Frame(n) /\ step' # "reading"
        /\ front' = front + Frame(n) /\ readPos' = Skip(Frame(n))
        /\ returned' = Append(returned, m)
        /\ UNCHANGED <<wire, arrived, capacity, window>>
    BY DEF Return
  <1>2. PICK k \in 1..Len(wire) :
             /\ wire[k].at = front /\ LengthAt(front) = wire[k].len
             /\ EndOf(wire[k]) = Sent
                \/ (k + 1 \in 1..Len(wire) /\ EndOf(wire[k]) = wire[k + 1].at)
             /\ \A j \in 1..Len(wire) : wire[j].at < EndOf(wire[k]) => wire[j].at < front \/ j = k
    BY <1>1, AtFront
  <1>3. /\ wire[k] \in Placed /\ m = wire[k] /\ n \in Nat /\ n > 0 /\ m.at = front /\ m.len = n
        /\ EndOf(wire[k]) = front'
    <2>1. wire[k] \in Placed
      BY <1>2, SentFacts DEF FramingInv
    <2>2. m = wire[k]
      BY <1>2, <2>1 DEF Placed
    <2> QED BY <1>1, <1>2, <2>1, <2>2 DEF EndOf, Placed
  <1> HIDE DEF n, m
  <1>4. /\ Frame(n) \in Nat /\ Frame(n) > 0
    BY <1>3 DEF Frame
  <1>5. front' \in Nat /\ readPos' \in Nat /\ RingInv' /\ front' <= arrived'
    BY <1>1, <1>4, SkipRing
  <1>6. /\ returned \in Seq(Placed) /\ returned' \in Seq(Placed) /\ Len(returned) \in Nat
        /\ Len(returned') = Len(returned) + 1
        /\ \A i \in 1..Len(returned) : returned'[i] = returned[i]
        /\ returned'[Len(returned) + 1] = m
        /\ DOMAIN returned = 1..Len(returned) /\ DOMAIN returned' = 1..Len(returned')
    <2>1. returned \in Seq(Placed)
      BY DEF FramingInv, FramingTypeInv
    <2> QED BY <1>1, <1>3, <2>1
  <1>7. FramingTypeInv'
    BY <1>1, <1>5, <1>6 DEF FramingInv, FramingTypeInv
  <1>8. Sent' = Sent
    BY <1>1 DEF Sent, Last, Frame
  <1>9. WireInv'
    BY <1>1 DEF FramingInv, WireInv, EndOf, Frame
  <1>10. front < front' /\ front \in Nat
    BY <1>1, <1>4 DEF FramingInv, FramingTypeInv
  <1>11. \A i \in 1..Len(returned) : returned[i].at \in Nat /\ returned[i].at < front
    <2>1. \A i \in 1..Len(returned) : returned[i] \in Placed
      BY DEF FramingInv, FramingTypeInv
    <2> QED BY <2>1 DEF FramingInv, PieceInv, Placed
  <1>12. PieceInv'
    <2>1. \A i \in 1..Len(returned') : returned'[i].at < front'
      BY <1>3, <1>5, <1>6, <1>10, <1>11
    <2> QED BY <1>1, <1>5, <1>8, <2>1 DEF FramingInv, PieceInv
  <1>13. MessagesIntact'
    <2>0. DOMAIN wire = 1..Len(wire)
      BY DEF FramingInv, FramingTypeInv
    <2>1. ToSet(returned) \subseteq ToSet(returned)' /\ m \in ToSet(returned)'
      BY <1>6 DEF ToSet
    <2>2. m \in ToSet(wire)
      BY <1>3, <2>0 DEF ToSet
    <2>3. \A i \in DOMAIN returned' : returned'[i] \in ToSet(wire) /\ returned'[i].len > 0
      <3>1. \A i \in 1..Len(returned) : returned[i] \in ToSet(wire) /\ returned[i].len > 0
        BY <1>6 DEF FramingInv, MessagesIntact
      <3> QED BY <1>3, <1>6, <2>2, <3>1
    <2>4. \A i, j \in DOMAIN returned' : i < j => returned'[i].at < returned'[j].at
      <3>1. \A i, j \in 1..Len(returned) : i < j => returned[i].at < returned[j].at
        BY <1>6 DEF FramingInv, MessagesIntact
      <3> QED BY <1>3, <1>6, <1>11, <3>1
    <2>5. \A j \in DOMAIN wire : wire[j].at < front' /\ wire[j].len > 0 => wire[j] \in ToSet(returned)'
      <3>1. \A j \in DOMAIN wire : wire[j].at < front' => wire[j].at < front \/ wire[j] = m
        BY <1>2, <1>3, <2>0
      <3>2. \A j \in DOMAIN wire : wire[j].at < front /\ wire[j].len > 0 => wire[j] \in ToSet(returned)
        BY DEF FramingInv, MessagesIntact
      <3> QED BY <3>1, <3>2, <2>1
    <2>6. front' = Sent \/ \E j \in DOMAIN wire : front' = wire[j].at
      BY <1>2, <1>3, <2>0
    <2>7. ToSet(wire)' = ToSet(wire)
      BY <1>1 DEF ToSet
    <2> QED BY <1>1, <1>8, <2>3, <2>4, <2>5, <2>6, <2>7 DEF MessagesIntact
  <1> QED BY <1>5, <1>7, <1>9, <1>12, <1>13 DEF FramingInv

\* A chunk fits into the room that was found for it.
LEMMA ArrivesFraming ==
    ASSUME FramingInv, DataArrives
    PROVE  FramingInv'
  <1>1. /\ step = "reading" /\ step' # "reading" /\ window' = 0
        /\ UNCHANGED <<wire, front, capacity, readPos, returned>>
    BY DEF DataArrives
  <1>2. PICK n \in 1..window : arrived + n <= Sent /\ arrived' = arrived + n
    BY DEF DataArrives
  <1>3. FramingTypeInv'
    BY <1>1, <1>2 DEF FramingInv, FramingTypeInv
  <1>4. Sent' = Sent
    BY <1>1 DEF Sent, Last, Frame
  <1>5. WireInv'
    BY <1>1 DEF FramingInv, WireInv, EndOf, Frame
  <1>6. PieceInv'
    BY <1>1, <1>2, <1>4 DEF FramingInv, PieceInv, FramingTypeInv
  <1>7. RingInv'
    <2>1. Size + window <= capacity
      BY <1>1 DEF FramingInv, RingInv, NoOverwrite
    <2>2. Size' <= capacity
      BY <1>1, <1>2, <2>1 DEF FramingInv, FramingTypeInv, PieceInv, Size
    <2> QED BY <1>1, <2>2 DEF FramingInv, RingInv, NoOverwrite
  <1>8. MessagesIntact'
    BY <1>1, <1>4 DEF FramingInv, MessagesIntact, ToSet
  <1> QED BY <1>3, <1>5, <1>6, <1>7, <1>8 DEF FramingInv

--------------------------------------------------------------------------------
(* Messages on a stream: the theorems *)

\* The inductive invariant holds throughout.
THEOREM FramingInvariant == FramingSpec => []FramingInv
  <1>1. FramingInit => FramingInv
    BY FramingStarts
  <1>2. FramingInv /\ [FramingNext]_framingVars => FramingInv'
    <2> SUFFICES ASSUME FramingInv, [FramingNext]_framingVars
                 PROVE  FramingInv'
      OBVIOUS
    <2>1. CASE ServerSends
      BY <2>1, SendsFraming
    <2>2. CASE Call \/ TooLong \/ Cancel
      BY <2>2, CallFraming
    <2>3. CASE NeedData
      BY <2>3, NeedDataFraming
    <2>4. CASE SkipEmpty
      BY <2>4, SkipEmptyFraming
    <2>5. CASE Return
      BY <2>5, ReturnFraming
    <2>6. CASE DataArrives
      BY <2>6, ArrivesFraming
    <2>7. CASE UNCHANGED framingVars
      <3>1. UNCHANGED <<wire, arrived, front, capacity, readPos, step, window, returned>>
        BY <2>7 DEF framingVars
      <3>2. WireInv' /\ PieceInv' /\ MessagesIntact' /\ Size' = Size
        BY <3>1, StreamSame
      <3> QED BY <3>1, <3>2 DEF FramingInv, FramingTypeInv, RingInv, NoOverwrite
    <2> QED BY <2>1, <2>2, <2>3, <2>4, <2>5, <2>6, <2>7 DEF FramingNext, Receiver
  <1> QED BY <1>1, <1>2, PTL DEF FramingSpec

\* receiveMessage returns the messages of the server in order and whole, all of those up to
\* where it is and only those: for every header, every size of the buffer, every limit,
\* whatever the chunks and whichever calls are dropped.
THEOREM FramesIntact == FramingSpec => []MessagesIntact
  <1>1. FramingInv => MessagesIntact
    BY DEF FramingInv
  <1> QED BY <1>1, FramingInvariant, PTL

\* What receive may fill is free and in one piece, wherever in the circular buffer the bytes
\* are that have not been taken out, and however it has grown.
THEOREM RoomIsFree == FramingSpec => []NoOverwrite
  <1>1. FramingInv => NoOverwrite
    BY DEF FramingInv, RingInv
  <1> QED BY <1>1, FramingInvariant, PTL

--------------------------------------------------------------------------------
(* Datagrams: what is where *)

AnyMessage == ControlMessages \cup DataMessages

Byte == [width : Nat, part : Nat, value : Nat \cup {HeaderBits(m) : m \in AnyMessage}]
Bytes == Seq(Byte)

\* The bytes s are in b, behind the first p of them.
At(b, p, s) == p + Len(s) <= Len(b) /\ \A i \in 1..Len(s) : b[p + i] = s[i]

LEMMA FieldFacts ==
    ASSUME NEW w \in Nat, NEW v \in Nat
    PROVE  /\ Field(w, v) \in Bytes /\ Len(Field(w, v)) = w
           /\ \A k \in 1..w : Field(w, v)[k] = [width |-> w, part |-> k, value |-> v]
  <1> DEFINE f == [k \in 1..w |-> [width |-> w, part |-> k, value |-> v]]
  <1>1. \A k \in 1..w : [width |-> w, part |-> k, value |-> v] \in Byte
    BY DEF Byte
  <1>2. f \in Seq(Byte) /\ Len(f) = w
    BY <1>1
  <1> QED BY <1>2 DEF Field, Bytes

LEMMA PayloadFacts ==
    ASSUME NEW n \in Nat
    PROVE  Payload(n) \in Bytes /\ Len(Payload(n)) = n
  <1> DEFINE f == [k \in 1..n |-> [width |-> 0, part |-> k, value |-> 0]]
  <1>1. \A k \in 1..n : [width |-> 0, part |-> k, value |-> 0] \in Byte
    BY DEF Byte
  <1>2. f \in Seq(Byte) /\ Len(f) = n
    BY <1>1
  <1> QED BY <1>2 DEF Payload, Bytes

LEMMA ShortsFacts ==
    ASSUME NEW values \in Seq(Nat)
    PROVE  /\ Shorts(values) \in Bytes /\ Len(Shorts(values)) = 2 * Len(values)
           /\ \A k \in 1..Len(values) :
                  Shorts(values)[2 * k - 1] = [width |-> 2, part |-> 1, value |-> values[k]]
  <1> DEFINE n == 2 * Len(values)
             E(k) == [width |-> 2, part |-> IF k % 2 = 1 THEN 1 ELSE 2, value |-> values[(k + 1) \div 2]]
             f == [k \in 1..n |-> E(k)]
  <1>1. Len(values) \in Nat /\ n \in Nat
    OBVIOUS
  <1>2. ASSUME NEW k \in 1..n
        PROVE  E(k) \in Byte
    <2>1. (k + 1) \div 2 \in 1..Len(values)
      BY <1>1
    <2>2. values[(k + 1) \div 2] \in Nat
      BY <2>1
    <2> QED BY <2>2 DEF Byte
  <1>3. f \in Seq(Byte) /\ Len(f) = n
    <2> HIDE DEF E, n
    <2> QED BY <1>1, <1>2
  <1>4. ASSUME NEW k \in 1..Len(values)
        PROVE  f[2 * k - 1] = [width |-> 2, part |-> 1, value |-> values[k]]
    <2>1. 2 * k - 1 \in 1..n /\ (2 * k - 1) % 2 = 1 /\ (2 * k - 1 + 1) \div 2 = k
      BY <1>1
    <2>2. f[2 * k - 1] = E(2 * k - 1)
      BY <2>1
    <2> QED BY <2>1, <2>2
  <1> HIDE DEF E
  <1>5. Shorts(values) = f
    BY DEF Shorts, E
  <1> QED BY <1>3, <1>4, <1>5 DEF Bytes

LEMMA ConcatFacts ==
    ASSUME NEW s \in Bytes, NEW t \in Bytes
    PROVE  s \o t \in Bytes /\ Len(s \o t) = Len(s) + Len(t)
BY DEF Bytes

\* A sequence of fields is there if each is there behind the ones before it.
LEMMA AtConcat ==
    ASSUME NEW b \in Bytes, NEW p \in Nat, NEW s \in Bytes, NEW t \in Bytes
    PROVE  /\ s \o t \in Bytes /\ Len(s \o t) = Len(s) + Len(t)
           /\ At(b, p, s \o t) <=> At(b, p, s) /\ At(b, p + Len(s), t)
  <1>1. s \o t \in Bytes /\ Len(s \o t) = Len(s) + Len(t)
    BY DEF Bytes
  <1>2. \A i \in 1..Len(s) : (s \o t)[i] = s[i]
    BY DEF Bytes
  <1>3. \A i \in 1..Len(t) : (s \o t)[Len(s) + i] = t[i]
    BY DEF Bytes
  <1>4. Len(s) \in Nat /\ Len(t) \in Nat /\ Len(b) \in Nat
    BY DEF Bytes
  <1>5. ASSUME At(b, p, s \o t)
        PROVE  At(b, p, s) /\ At(b, p + Len(s), t)
    <2>1. p + Len(s) + Len(t) <= Len(b)
      BY <1>1, <1>4, <1>5 DEF At
    <2>2. \A i \in 1..Len(s) : b[p + i] = s[i]
      BY <1>1, <1>2, <1>4, <1>5, SMTT(40) DEF At
    <2>3. ASSUME NEW i \in 1..Len(t)
          PROVE  b[p + Len(s) + i] = t[i]
      <3>1. Len(s) + i \in 1..Len(s \o t) /\ p + (Len(s) + i) = p + Len(s) + i
        BY <1>1, <1>4
      <3>2. b[p + (Len(s) + i)] = (s \o t)[Len(s) + i]
        BY <1>5, <3>1 DEF At
      <3> QED BY <1>3, <3>1, <3>2
    <2> QED BY <1>4, <2>1, <2>2, <2>3 DEF At
  <1>6. ASSUME At(b, p, s), At(b, p + Len(s), t)
        PROVE  At(b, p, s \o t)
    <2>1. p + Len(s \o t) <= Len(b)
      BY <1>1, <1>4, <1>6 DEF At
    <2>2. ASSUME NEW i \in 1..Len(s \o t)
          PROVE  b[p + i] = (s \o t)[i]
      <3>1. CASE i <= Len(s)
        BY <1>2, <1>4, <1>6, <3>1, i \in 1..Len(s) DEF At
      <3>2. CASE ~(i <= Len(s))
        <4>1. i - Len(s) \in 1..Len(t) /\ Len(s) + (i - Len(s)) = i
              /\ p + Len(s) + (i - Len(s)) = p + i
          BY <1>1, <1>4, <3>2
        <4> QED BY <1>3, <1>6, <4>1 DEF At
      <3> QED BY <3>1, <3>2
    <2> QED BY <2>1, <2>2 DEF At
  <1> QED BY <1>1, <1>5, <1>6

\* n bytes.
Wide(s, n) == n \in Nat /\ s \in Bytes /\ Len(s) = n

LEMMA WideField ==
    ASSUME NEW w \in Nat, NEW v \in Nat
    PROVE  Wide(Field(w, v), w)
BY FieldFacts DEF Wide

LEMMA WidePayload ==
    ASSUME NEW n \in Nat
    PROVE  Wide(Payload(n), n)
BY PayloadFacts DEF Wide

LEMMA WideShorts ==
    ASSUME NEW values \in Seq(Nat), NEW n \in Nat, n = 2 * Len(values)
    PROVE  Wide(Shorts(values), n)
BY ShortsFacts DEF Wide

LEMMA WideConcat ==
    ASSUME NEW s, NEW m, NEW t, NEW n, Wide(s, m), Wide(t, n), NEW k, k = m + n
    PROVE  Wide(s \o t, k)
BY AtConcat, ConcatFacts DEF Wide

LEMMA WideEmpty == Wide(<<>>, 0)
BY DEF Wide, Bytes

LEMMA AtBehind ==
    ASSUME NEW b \in Bytes, NEW p \in Nat, NEW s, NEW m, NEW t, NEW n, Wide(s, m), Wide(t, n),
           At(b, p, s \o t), NEW q, q = p + m
    PROVE  At(b, p, s) /\ At(b, q, t)
<1>1. s \in Bytes /\ t \in Bytes /\ q = p + Len(s)
  BY DEF Wide
<1> QED BY <1>1, AtConcat

\* A number is read where its field begins.
LEMMA AtField ==
    ASSUME NEW b \in Bytes, NEW p \in Nat, NEW w \in Nat \ {0}, NEW v \in Nat, At(b, p, Field(w, v)),
           NEW q, q = p + 1
    PROVE  Read(b, q, w) = v
  <1>1. Len(Field(w, v)) = w /\ Field(w, v)[1] = [width |-> w, part |-> 1, value |-> v]
    BY FieldFacts
  <1>2. b[p + 1] = [width |-> w, part |-> 1, value |-> v] /\ p + w <= Len(b)
    BY <1>1 DEF At
  <1>3. p + 1 + w - 1 <= Len(b)
    BY <1>2 DEF Bytes
  <1> QED BY <1>2, <1>3 DEF Read

LEMMA AtShorts ==
    ASSUME NEW b \in Bytes, NEW p \in Nat, NEW values \in Seq(Nat), At(b, p, Shorts(values)),
           NEW k \in 1..Len(values)
    PROVE  Read(b, p + 2 * k - 1, 2) = values[k]
  <1>1. /\ Len(Shorts(values)) = 2 * Len(values)
        /\ Shorts(values)[2 * k - 1] = [width |-> 2, part |-> 1, value |-> values[k]]
    BY ShortsFacts
  <1>2. 2 * k - 1 \in 1..Len(Shorts(values)) /\ p + (2 * k - 1) = p + 2 * k - 1
    BY <1>1
  <1>3. b[p + (2 * k - 1)] = Shorts(values)[2 * k - 1]
    BY <1>2 DEF At
  <1>4. p + 2 * k - 1 + 2 - 1 <= Len(b)
    <2>1. p + 2 * Len(values) <= Len(b) /\ Len(b) \in Int /\ Len(values) \in Int
      BY <1>1 DEF At, Bytes
    <2> QED BY <2>1
  <1> QED BY <1>1, <1>2, <1>3, <1>4 DEF Read

\* What is there can be cut out.
LEMMA AtSubSeq ==
    ASSUME NEW b \in Bytes, NEW p \in Nat, NEW s \in Bytes, At(b, p, s)
    PROVE  SubSeq(b, p + 1, p + Len(s)) = s
  <1>1. Len(b) \in Nat /\ Len(s) \in Nat /\ p + Len(s) <= Len(b) /\ \A i \in 1..Len(s) : b[p + i] = s[i]
    BY DEF At, Bytes
  <1> DEFINE c == SubSeq(b, p + 1, p + Len(s))
  <1>2. c \in Seq(Byte) /\ Len(c) = Len(s) /\ \A i \in 1..Len(s) : c[i] = b[p + i]
    BY <1>1 DEF Bytes
  <1> QED BY <1>1, <1>2 DEF Bytes

\* The rest of b, from behind its first q bytes.
Rest(b, q) == SubSeq(b, q + 1, Len(b))

LEMMA AtRest ==
    ASSUME NEW b \in Bytes, NEW q \in Nat, q <= Len(b)
    PROVE  /\ Rest(b, q) \in Bytes /\ Len(Rest(b, q)) = Len(b) - q
           /\ \A i \in 1..(Len(b) - q) : Rest(b, q)[i] = b[q + i]
           /\ \A p \in Nat : \A s \in Bytes : At(b, q + p, s) <=> At(Rest(b, q), p, s)
  <1>1. Len(b) \in Nat
    BY DEF Bytes
  <1>2. /\ Rest(b, q) \in Bytes /\ Len(Rest(b, q)) = Len(b) - q
        /\ \A i \in 1..(Len(b) - q) : Rest(b, q)[i] = b[q + i]
    BY <1>1 DEF Bytes, Rest
  <1>3. ASSUME NEW p \in Nat, NEW s \in Bytes
        PROVE  At(b, q + p, s) <=> At(Rest(b, q), p, s)
    <2>1. Len(s) \in Nat
      BY DEF Bytes
    <2>2. q + p + Len(s) <= Len(b) <=> p + Len(s) <= Len(Rest(b, q))
      BY <1>1, <1>2, <2>1
    <2>3. ASSUME p + Len(s) <= Len(Rest(b, q)), NEW i \in 1..Len(s)
          PROVE  b[q + p + i] = Rest(b, q)[p + i]
      <3>1. p + i \in 1..(Len(b) - q) /\ q + (p + i) = q + p + i
        BY <1>1, <1>2, <2>1, <2>3
      <3> QED BY <1>2, <3>1
    <2> QED BY <2>2, <2>3 DEF At
  <1> QED BY <1>2, <1>3

--------------------------------------------------------------------------------
(* Datagrams: control messages *)

\* What the client knows how to read.  An acknowledgement more than eight is not looked at.
Known(m) ==
    CASE m.type = "Data" -> Len(m.rel) <= 9
      [] m.type = "KeepaliveResponse" -> m.code = 0
      [] m.type = "HandshakeFinish" -> m.code = 1 \/ (m.code = 0 /\ m.size = 0)
      [] m.type \in {"HandshakeFailure", "ServerClose"} -> m.code = 0 \/ m.size = 0
      [] m.type = "ConnectionError" -> m.size = 0
      [] m.type \in {"ReconnectSuccess", "ReconnectFailure"} -> m.code = 0 /\ m.size = 0
      [] m.type = "ConnectionControl" -> m.code \in {1, 64}
      [] m.type = "Padding" -> TRUE
      [] OTHER -> FALSE

\* What the client sends, without compression; it puts no message behind another that has data.
Uncompressed(m) ==
    CASE m.type = "Data" -> Len(m.rel) <= 9 /\ m.comp = 0 /\ ~m.boundary
      [] OTHER -> m.type \in {"Keepalive", "ClientClose", "HandshakeStart", "ClientReconnect"}

\* What the reader of a control message makes of the bytes b: it is as long as its body, and the
\* client gets its code and its size.
WellRead(m, b) ==
    /\ LengthForNonDataMessage(m.type, b) = Len(Body(m))
    /\ Known(m) /\ m.type # "Padding" =>
         \A item : item.type = m.type /\ item.data = b =>
             DecodeWithMeta(item) = [ok |-> TRUE, type |-> m.type, code |-> m.code, size |-> m.size]

\* This holds wherever b begins with the body; padding goes on to the end of it.
Readable(m, b) ==
    /\ Body(m) \in Bytes
    /\ At(b, 0, Body(m)) /\ (m.type = "Padding" => Len(b) = Len(Body(m))) => WellRead(m, b)

\* Two bytes of length, and the text.
LEMMA WideSized ==
    ASSUME NEW n \in Nat, NEW k, k = 2 + n
    PROVE  Wide(Sized(n), k)
<1>1. Wide(Field(2, n), 2) /\ Wide(Payload(n), n)
  BY WideField, WidePayload
<1> QED BY <1>1, WideConcat DEF Sized

LEMMA AtSized ==
    ASSUME NEW n \in Nat, NEW b \in Bytes, NEW p \in Nat, At(b, p, Sized(n)), NEW q, q = p + 1
    PROVE  Read(b, q, 2) = n
<1>1. Wide(Field(2, n), 2) /\ Wide(Payload(n), n)
  BY WideField, WidePayload
<1>2. At(b, p, Field(2, n))
  BY <1>1, AtBehind DEF Sized
<1> QED BY <1>2, AtField

LEMMA SizeAndCode ==
    ASSUME NEW m \in ControlMessages
    PROVE  m.size \in Nat /\ m.code \in Nat /\ m.type # "Data"
BY DEF ControlMessages, ControlTypes, Sizes

LEMMA KeepaliveRead ==
    ASSUME NEW m \in ControlMessages, m.type = "KeepaliveResponse", Known(m),
           NEW b \in Bytes
    PROVE  Readable(m, b)
  <1>1. m.size \in Nat /\ m.code = 0
    <2>1. m.code = 0
      BY Zenon DEF Known
    <2> QED BY <2>1, SizeAndCode
  <1>2. Body(m) = Field(8, 0) \o Sized(m.size)
    BY DEF Body, KeepaliveBody
  <1>3. Wide(Field(8, 0), 8) /\ Wide(Sized(m.size), 2 + m.size)
    BY <1>1, WideField, WideSized
  <1>4. Wide(Body(m), 10 + m.size)
    <2>1. 10 + m.size = 8 + (2 + m.size)
      BY <1>1
    <2> QED BY <1>2, <1>3, <2>1, WideConcat
  <1> SUFFICES ASSUME At(b, 0, Body(m))
               PROVE  WellRead(m, b)
    BY <1>4 DEF Readable, Wide
  <1>5. At(b, 8, Sized(m.size))
    BY <1>2, <1>3, AtBehind
  <1>6. Read(b, 9, 2) = m.size
    BY <1>1, <1>5, AtSized
  <1>7. LengthForNonDataMessage(m.type, b) = 10 + m.size
    BY <1>1, <1>6 DEF LengthForNonDataMessage
  <1>8. ASSUME NEW item, item.type = m.type, item.data = b
        PROVE  DecodeWithMeta(item) = [ok |-> TRUE, type |-> m.type, code |-> m.code, size |-> m.size]
    BY <1>1, <1>6, <1>8 DEF DecodeWithMeta
  <1> QED BY <1>4, <1>7, <1>8 DEF WellRead, Wide

LEMMA HandshakeFinishRead ==
    ASSUME NEW m \in ControlMessages, m.type = "HandshakeFinish", Known(m),
           NEW b \in Bytes
    PROVE  Readable(m, b)
  <1>1. m.size \in Nat /\ m.code \in Nat /\ (m.code = 1 \/ (m.code = 0 /\ m.size = 0))
    <2>1. m.code = 1 \/ (m.code = 0 /\ m.size = 0)
      BY Zenon DEF Known
    <2> QED BY <2>1, SizeAndCode
  <1> DEFINE start == Field(8, 0) \o Field(1, m.code)
             four == Field(4, 0) \o Field(4, 0) \o Field(4, 0)
             four2 == four \o Field(4, m.size)
             tail == four2 \o Payload(m.size)
             rest == IF m.code = 0 THEN <<>> ELSE tail
             extra == IF m.code = 0 THEN 0 ELSE 16 + m.size
  <1>2. Body(m) = start \o rest
    BY DEF Body, HandshakeBody
  <1>3. /\ Wide(Field(8, 0), 8) /\ Wide(Field(1, m.code), 1) /\ Wide(Field(4, 0), 4)
        /\ Wide(Field(4, m.size), 4) /\ Wide(Payload(m.size), m.size)
    BY <1>1, WideField, WidePayload
  <1>4. Wide(start, 9)
    <2>1. 9 = 8 + 1
      OBVIOUS
    <2> QED BY <1>3, <2>1, WideConcat
  <1>5. Wide(four, 12)
    <2>1. 8 = 4 + 4 /\ 12 = 8 + 4
      OBVIOUS
    <2>2. Wide(Field(4, 0) \o Field(4, 0), 8)
      BY <1>3, <2>1, WideConcat
    <2> QED BY <1>3, <2>1, <2>2, WideConcat
  <1> HIDE DEF four
  <1>6. Wide(four2, 16)
    <2>1. 16 = 12 + 4
      OBVIOUS
    <2> QED BY <1>3, <1>5, <2>1, WideConcat
  <1> HIDE DEF four2
  <1>7. Wide(tail, 16 + m.size)
    BY <1>3, <1>6, WideConcat
  <1> HIDE DEF start, tail
  <1>8. Wide(rest, extra)
    BY <1>7, WideEmpty
  <1> HIDE DEF rest
  <1>9. Wide(Body(m), 9 + extra)
    BY <1>2, <1>4, <1>8, WideConcat
  <1> SUFFICES ASSUME At(b, 0, Body(m))
               PROVE  WellRead(m, b)
    BY <1>9 DEF Readable, Wide
  <1>10. At(b, 0, start) /\ At(b, 9, rest)
    BY <1>2, <1>4, <1>8, AtBehind
  <1>11. Read(b, 9, 1) = m.code
    <2>1. At(b, 8, Field(1, m.code))
      BY <1>3, <1>10, AtBehind DEF start
    <2> QED BY <1>1, <2>1, AtField
  <1>12. ASSUME m.code # 0
         PROVE  Read(b, 22, 4) = m.size
    <2>1. At(b, 9, tail)
      BY <1>10, <1>12 DEF rest
    <2>2. At(b, 9, four2)
      BY <1>3, <1>6, <2>1, AtBehind DEF tail
    <2>3. At(b, 21, Field(4, m.size))
      BY <1>3, <1>5, <2>2, AtBehind DEF four2
    <2> QED BY <1>1, <2>3, AtField
  <1>13. LengthForNonDataMessage(m.type, b) = 9 + extra
    BY <1>1, <1>11, <1>12 DEF LengthForNonDataMessage
  <1>14. ASSUME NEW item, item.type = m.type, item.data = b
         PROVE  DecodeWithMeta(item) = [ok |-> TRUE, type |-> m.type, code |-> m.code, size |-> m.size]
    <2>1. /\ item.type = "HandshakeFinish"
          /\ Read(item.data, 9, 1) = m.code
          /\ m.code # 0 => Read(item.data, 22, 4) = m.size
      BY <1>11, <1>12, <1>14
    <2>2. CASE m.code = 0
      <3>1. DecodeWithMeta(item) = [ok |-> TRUE, type |-> item.type, code |-> 0, size |-> 0]
        BY <2>1, <2>2 DEF DecodeWithMeta
      <3>2. m.size = 0 /\ item.type = m.type
        BY <1>1, <1>14, <2>2
      <3> QED BY <2>2, <3>1, <3>2
    <2>3. CASE m.code # 0
      <3>1. DecodeWithMeta(item) = [ok |-> TRUE, type |-> item.type, code |-> 1, size |-> m.size]
        BY <2>1, <2>3 DEF DecodeWithMeta
      <3> QED BY <1>1, <1>14, <2>3, <3>1
    <2> QED BY <2>2, <2>3
  <1> QED BY <1>9, <1>13, <1>14 DEF WellRead, Wide

LEMMA ReasonRead ==
    ASSUME NEW m \in ControlMessages, m.type \in {"HandshakeFailure", "ServerClose"}, Known(m),
           NEW b \in Bytes
    PROVE  Readable(m, b)
  <1>1. m.size \in Nat /\ m.code \in Nat /\ (m.code = 0 \/ m.size = 0)
    <2>1. m.code = 0 \/ m.size = 0
      BY Zenon DEF Known
    <2> QED BY <2>1, SizeAndCode
  <1> DEFINE start == Field(4, m.code)
             rest == IF m.code = 0 THEN Sized(m.size) ELSE <<>>
             extra == IF m.code = 0 THEN 2 + m.size ELSE 0
  <1>2. Body(m) = start \o rest
    BY DEF Body, HandshakeBody
  <1>3. Wide(start, 4)
    BY <1>1, WideField
  <1>4. Wide(rest, extra)
    BY <1>1, WideSized, WideEmpty
  <1> HIDE DEF start, rest
  <1>5. Wide(Body(m), 4 + extra)
    BY <1>2, <1>3, <1>4, WideConcat
  <1> SUFFICES ASSUME At(b, 0, Body(m))
               PROVE  WellRead(m, b)
    BY <1>5 DEF Readable, Wide
  <1>6. At(b, 0, start) /\ At(b, 4, rest)
    BY <1>2, <1>3, <1>4, AtBehind
  <1>7. Read(b, 1, 4) = m.code
    BY <1>1, <1>6, AtField DEF start
  <1>8. m.code = 0 => Read(b, 5, 2) = m.size
    BY <1>1, <1>6, AtSized DEF rest
  <1>9. LengthForNonDataMessage(m.type, b) = 4 + extra
    BY <1>1, <1>7, <1>8 DEF LengthForNonDataMessage
  <1>10. ASSUME NEW item, item.type = m.type, item.data = b
         PROVE  DecodeWithMeta(item) = [ok |-> TRUE, type |-> m.type, code |-> m.code, size |-> m.size]
    BY <1>1, <1>7, <1>8, <1>10 DEF DecodeWithMeta
  <1> QED BY <1>5, <1>9, <1>10 DEF WellRead, Wide

LEMMA ConnectionControlRead ==
    ASSUME NEW m \in ControlMessages, m.type = "ConnectionControl", Known(m),
           NEW b \in Bytes
    PROVE  Readable(m, b)
  <1>1. m.size \in Nat /\ m.code \in Nat /\ m.code \in {1, 64}
    <2>1. m.code \in {1, 64}
      BY Zenon DEF Known
    <2> QED BY <2>1, SizeAndCode
  <1> DEFINE start == Field(2, m.code)
             rest == IF m.code = 1 THEN Field(2, m.size) ELSE Sized(m.size)
             extra == IF m.code = 1 THEN 2 ELSE 2 + m.size
  <1>2. Body(m) = start \o rest
    BY DEF Body
  <1>3. Wide(start, 2)
    BY <1>1, WideField
  <1>4. Wide(rest, extra)
    BY <1>1, WideField, WideSized
  <1> HIDE DEF start, rest
  <1>5. Wide(Body(m), 2 + extra)
    BY <1>2, <1>3, <1>4, WideConcat
  <1> SUFFICES ASSUME At(b, 0, Body(m))
               PROVE  WellRead(m, b)
    BY <1>5 DEF Readable, Wide
  <1>6. At(b, 0, start) /\ At(b, 2, rest)
    BY <1>2, <1>3, <1>4, AtBehind
  <1>7. Read(b, 1, 2) = m.code
    BY <1>1, <1>6, AtField DEF start
  <1>8. Read(b, 3, 2) = m.size
    BY <1>1, <1>6, AtField, AtSized DEF rest
  <1>9. LengthForNonDataMessage(m.type, b) = 2 + extra
    BY <1>1, <1>7, <1>8 DEF LengthForNonDataMessage
  <1>10. ASSUME NEW item, item.type = m.type, item.data = b
         PROVE  DecodeWithMeta(item) = [ok |-> TRUE, type |-> m.type, code |-> m.code, size |-> m.size]
    <2>1. Read(b, 1, 2) % 256 = m.code
      BY <1>1, <1>7
    <2> QED BY <1>8, <1>10, <2>1 DEF DecodeWithMeta
  <1> QED BY <1>5, <1>9, <1>10 DEF WellRead, Wide

\* Messages without anything that tells their length.
LEMMA FixedRead ==
    ASSUME NEW m \in ControlMessages,
           \/ Known(m) /\ m.type \in {"ConnectionError", "ReconnectSuccess", "ReconnectFailure", "Padding"}
           \/ m.type \in {"Keepalive", "ClientClose", "HandshakeStart", "ClientReconnect"},
           NEW b \in Bytes
    PROVE  Readable(m, b)
  <1>1. m.size \in Nat /\ m.code \in Nat
    BY SizeAndCode
  <1>2. CASE m.type = "ConnectionError" /\ Known(m)
    <2>1. m.size = 0
      BY <1>2, Zenon DEF Known
    <2>2. Body(m) = Field(4, m.code)
      BY <1>2 DEF Body
    <2>3. Wide(Body(m), 4) /\ (At(b, 0, Body(m)) => Read(b, 1, 4) = m.code)
      BY <1>1, <2>2, WideField, AtField
    <2> SUFFICES ASSUME At(b, 0, Body(m))
                 PROVE  WellRead(m, b)
      BY <2>3 DEF Readable, Wide
    <2>4. LengthForNonDataMessage(m.type, b) = 4
      BY <1>2 DEF LengthForNonDataMessage
    <2>5. ASSUME NEW item, item.type = m.type, item.data = b
          PROVE  DecodeWithMeta(item) = [ok |-> TRUE, type |-> m.type, code |-> m.code, size |-> m.size]
      BY <1>1, <1>2, <2>1, <2>3, <2>5 DEF DecodeWithMeta
    <2> QED BY <2>3, <2>4, <2>5 DEF WellRead, Wide, Readable
  <1>3. CASE m.type \in {"ReconnectSuccess", "ReconnectFailure"} /\ Known(m)
    <2>1. m.size = 0 /\ m.code = 0
      BY <1>3, Zenon DEF Known
    <2>2. Body(m) = <<>>
      BY <1>3 DEF Body
    <2>3. LengthForNonDataMessage(m.type, b) = 0
      BY <1>3 DEF LengthForNonDataMessage
    <2>4. ASSUME NEW item, item.type = m.type, item.data = b
          PROVE  DecodeWithMeta(item) = [ok |-> TRUE, type |-> m.type, code |-> m.code, size |-> m.size]
      BY <1>3, <2>1, <2>4 DEF DecodeWithMeta
    <2> QED BY <2>2, <2>3, <2>4, WideEmpty DEF WellRead, Wide, Readable
  <1>4. CASE m.type = "Padding"
    <2>1. Body(m) = Payload(m.size)
      BY <1>4 DEF Body
    <2>2. LengthForNonDataMessage(m.type, b) = Len(b)
      BY <1>4 DEF LengthForNonDataMessage
    <2> QED BY <1>1, <1>4, <2>1, <2>2, WidePayload DEF WellRead, Wide, Readable
  <1>5. CASE m.type = "Keepalive"
    <2>1. Body(m) = Field(8, 0) \o Field(1, 0)
      BY <1>5 DEF Body, KeepaliveBody
    <2>2. Wide(Body(m), 9)
      <3>1. Wide(Field(8, 0), 8) /\ Wide(Field(1, 0), 1) /\ 9 = 8 + 1
        BY WideField
      <3> QED BY <2>1, <3>1, WideConcat
    <2>3. LengthForNonDataMessage(m.type, b) = 9
      BY <1>5 DEF LengthForNonDataMessage
    <2>4. ~Known(m)
      BY <1>5, Zenon DEF Known
    <2> QED BY <2>2, <2>3, <2>4 DEF WellRead, Wide, Readable
  <1>6. CASE m.type = "ClientClose"
    <2>1. Body(m) = Field(1, 0)
      BY <1>6 DEF Body
    <2>2. LengthForNonDataMessage(m.type, b) = 1
      BY <1>6 DEF LengthForNonDataMessage
    <2>3. ~Known(m)
      BY <1>6, Zenon DEF Known
    <2>4. Wide(Body(m), 1)
      BY <2>1, WideField
    <2> QED BY <2>2, <2>3, <2>4 DEF WellRead, Wide, Readable
  <1>7. CASE m.type = "ClientReconnect"
    <2>1. Body(m) = Field(8, 0)
      BY <1>7 DEF Body
    <2>2. LengthForNonDataMessage(m.type, b) = 8
      BY <1>7 DEF LengthForNonDataMessage
    <2>3. ~Known(m)
      BY <1>7, Zenon DEF Known
    <2>4. Wide(Body(m), 8)
      BY <2>1, WideField
    <2> QED BY <2>2, <2>3, <2>4 DEF WellRead, Wide, Readable
  <1>8. CASE m.type = "HandshakeStart"
    <2>1. Body(m) = Field(2, 1) \o Field(2, 2) \o Field(2, 0) \o Payload(16)
      BY <1>8 DEF Body, HandshakeBody
    <2>2. /\ Wide(Field(2, 1), 2) /\ Wide(Field(2, 2), 2) /\ Wide(Field(2, 0), 2)
          /\ Wide(Payload(16), 16)
      BY WideField, WidePayload
    <2>3. 4 = 2 + 2 /\ 6 = 4 + 2 /\ 22 = 6 + 16
      OBVIOUS
    <2>4. Wide(Field(2, 1) \o Field(2, 2), 4)
      BY <2>2, <2>3, WideConcat
    <2>5. Wide(Field(2, 1) \o Field(2, 2) \o Field(2, 0), 6)
      BY <2>2, <2>3, <2>4, WideConcat
    <2>6. Wide(Body(m), 22)
      BY <2>1, <2>2, <2>3, <2>5, WideConcat
    <2>7. LengthForNonDataMessage(m.type, b) = 22
      BY <1>8 DEF LengthForNonDataMessage
    <2>8. ~Known(m)
      BY <1>8, Zenon DEF Known
    <2> QED BY <2>6, <2>7, <2>8 DEF WellRead, Wide, Readable
  <1> QED BY <1>2, <1>3, <1>4, <1>5, <1>6, <1>7, <1>8

\* Every control message the client knows or sends is read as it was written.
LEMMA ControlRead ==
    ASSUME NEW m \in ControlMessages, Known(m) \/ Uncompressed(m),
           NEW b \in Bytes
    PROVE  Readable(m, b)
  <1>1. m.type # "Data"
    BY SizeAndCode
  <1>2. Known(m) => m.type \in {"KeepaliveResponse", "HandshakeFinish", "HandshakeFailure", "ServerClose",
                       "ConnectionError", "ReconnectSuccess", "ReconnectFailure", "ConnectionControl", "Padding"}
    BY <1>1, Zenon DEF Known
  <1>3. Uncompressed(m) => m.type \in {"Keepalive", "ClientClose", "HandshakeStart", "ClientReconnect"}
    BY <1>1, Zenon DEF Uncompressed
  <1>4. CASE Known(m)
    BY <1>2, <1>4, KeepaliveRead, HandshakeFinishRead, ReasonRead, ConnectionControlRead, FixedRead
  <1>5. CASE Uncompressed(m)
    BY <1>3, <1>5, FixedRead
  <1> QED BY <1>4, <1>5

\* An item of the iterator is the message, which takes n bytes.
Found(m, item, n) ==
    /\ item.ok /\ item.type = m.type /\ Plain(item) = Content(m)
    /\ item.dataOffset \in Nat /\ Len(item.data) \in Nat
    /\ item.dataOffset + Len(item.data) = n

\* Its fields are all the client looks at.
LEMMA Understood ==
    ASSUME NEW m \in ControlMessages, Known(m), m.type # "Padding",
           NEW item, item.type = m.type, item.data = Body(m)
    PROVE  DecodeWithMeta(item) = [ok |-> TRUE, type |-> m.type, code |-> m.code, size |-> m.size]
  <1>1. Body(m) \in Bytes
    BY ControlRead, <<>> \in Bytes DEF Readable, Bytes
  <1>2. At(Body(m), 0, Body(m))
    BY <1>1 DEF At, Bytes
  <1>3. WellRead(m, Body(m))
    BY <1>1, <1>2, ControlRead DEF Readable
  <1> QED BY <1>3 DEF WellRead

LEMMA ControlFound ==
    ASSUME NEW m \in ControlMessages, Known(m) \/ Uncompressed(m), NEW b \in Bytes, At(b, 0, Body(m)),
           m.type = "Padding" => Len(b) = Len(Body(m)), NEW start \in Nat
    PROVE  Found(m, ControlMeta(m.type, start, b), start + Len(Body(m)))
  <1> DEFINE size == LengthForNonDataMessage(m.type, b)
  <1>1. m.type # "Data"
    BY SizeAndCode
  <1>2. Body(m) \in Bytes /\ Len(Body(m)) \in Nat /\ size = Len(Body(m)) /\ Len(b) \in Nat
    <2>1. Body(m) \in Bytes /\ WellRead(m, b)
      BY ControlRead DEF Readable
    <2> QED BY <2>1 DEF WellRead, Bytes
  <1>3. Len(b) >= size
    BY <1>2 DEF At
  <1>4. SubSeq(b, 1, size) = Body(m)
    <2>1. SubSeq(b, 0 + 1, 0 + Len(Body(m))) = Body(m)
      BY <1>2, AtSubSeq
    <2>2. 0 + 1 = 1 /\ 0 + Len(Body(m)) = size
      BY <1>2
    <2> QED BY <2>1, <2>2
  <1>5. ControlMeta(m.type, start, b) =
            [ok |-> TRUE, type |-> m.type, data |-> Body(m), dataOffset |-> start]
    <2>1. ControlMeta(m.type, start, b) =
            IF size = Invalid \/ Len(b) < size THEN Error
            ELSE [ok |-> TRUE, type |-> m.type, data |-> SubSeq(b, 1, size), dataOffset |-> start]
      BY DEF ControlMeta
    <2>2. ~(size = Invalid \/ Len(b) < size)
      BY <1>2, <1>3 DEF Invalid
    <2> QED BY <1>4, <2>1, <2>2
  <1> QED BY <1>1, <1>5 DEF Found, Plain, Content

--------------------------------------------------------------------------------
(* Datagrams: data messages *)

CompSize(m) == IF m.comp # 0 THEN 4 ELSE 0
RelSize(m) == IF m.rel # <<>> THEN 4 + 2 * (Len(m.rel) - 1) ELSE 0
FragSize(m) == IF m.frag # 0 THEN 4 ELSE 0
BoundSize(m) == IF m.boundary THEN 2 ELSE 0
HeadersSize(m) == CompSize(m) + RelSize(m) + FragSize(m) + BoundSize(m)

LEMMA DataFacts ==
    ASSUME NEW m \in DataMessages
    PROVE  /\ m.type = "Data" /\ m.comp \in Nat /\ m.rel \in Seq(Nat) /\ m.frag \in Nat
           /\ m.boundary \in BOOLEAN /\ m.size \in Nat
BY DEF DataMessages, Sizes

\* The reliability header: its id, the number of acknowledgements, and they.
LEMMA RelRead ==
    ASSUME NEW m \in DataMessages, m.rel # <<>>, NEW b \in Bytes, NEW c \in Nat, At(b, c, RelHeader(m))
    PROVE  /\ Read(b, c + 1, 2) = m.rel[1]
           /\ Read(b, c + 3, 2) = Len(m.rel) - 1
           /\ \A k \in 1..(Len(m.rel) - 1) : Read(b, c + 3 + 2 * k, 2) = m.rel[k + 1]
  <1> DEFINE id == Field(2, m.rel[1])
             acks == Field(2, Len(m.rel) - 1)
             numbers == Shorts(Tail(m.rel))
             both == id \o acks
  <1>1. /\ m.rel \in Seq(Nat) /\ m.rel[1] \in Nat /\ Len(m.rel) \in Nat /\ Len(m.rel) - 1 \in Nat
        /\ Tail(m.rel) \in Seq(Nat) /\ Len(Tail(m.rel)) = Len(m.rel) - 1
    BY DataFacts
  <1>2. RelHeader(m) = both \o numbers
    BY DEF RelHeader
  <1>3. Wide(id, 2) /\ Wide(acks, 2)
    BY <1>1, WideField
  <1>4. Wide(both, 4)
    <2>1. 4 = 2 + 2
      OBVIOUS
    <2> HIDE DEF id, acks
    <2> QED BY <1>3, <2>1, WideConcat
  <1>5. Wide(numbers, 2 * (Len(m.rel) - 1))
    <2>1. 2 * (Len(m.rel) - 1) \in Nat /\ 2 * (Len(m.rel) - 1) = 2 * Len(Tail(m.rel))
      BY <1>1
    <2> QED BY <1>1, <2>1, WideShorts
  <1> HIDE DEF both, numbers
  <1>6. At(b, c, both) /\ At(b, c + 4, numbers)
    BY <1>2, <1>4, <1>5, AtBehind
  <1>7. At(b, c, id) /\ At(b, c + 2, acks)
    BY <1>3, <1>6, AtBehind DEF both
  <1>8. Read(b, c + 1, 2) = m.rel[1]
    BY <1>1, <1>7, AtField
  <1>9. Read(b, c + 3, 2) = Len(m.rel) - 1
    <2>1. c + 2 \in Nat /\ c + 3 = c + 2 + 1
      OBVIOUS
    <2> QED BY <1>1, <1>7, <2>1, AtField
  <1>10. ASSUME NEW k \in 1..(Len(m.rel) - 1)
         PROVE  Read(b, c + 3 + 2 * k, 2) = m.rel[k + 1]
    <2>1. c + 4 \in Nat /\ c + 3 + 2 * k = c + 4 + 2 * k - 1
      BY <1>1
    <2>2. k \in 1..Len(Tail(m.rel)) /\ Tail(m.rel)[k] = m.rel[k + 1]
      BY <1>1
    <2>3. Read(b, c + 4 + 2 * k - 1, 2) = Tail(m.rel)[k]
      BY <1>1, <1>6, <2>1, <2>2, AtShorts DEF numbers
    <2> QED BY <2>1, <2>2, <2>3
  <1> QED BY <1>8, <1>9, <1>10

LEMMA WideHeaders ==
    ASSUME NEW m \in DataMessages
    PROVE  /\ Wide(CompHeader(m), CompSize(m)) /\ Wide(RelHeader(m), RelSize(m))
           /\ Wide(FragHeader(m), FragSize(m)) /\ Wide(Boundary(m), BoundSize(m))
           /\ Wide(Payload(m.size), m.size)
  <1>1. /\ m.comp \in Nat /\ m.rel \in Seq(Nat) /\ m.frag \in Nat /\ m.boundary \in BOOLEAN
        /\ m.size \in Nat
    BY DataFacts
  <1>2. Wide(CompHeader(m), CompSize(m))
    BY <1>1, WideField, WideEmpty DEF CompHeader, CompSize
  <1>3. Wide(FragHeader(m), FragSize(m))
    <2>1. Wide(Field(2, m.frag), 2) /\ Wide(Field(2, 0), 2) /\ 4 = 2 + 2
      BY <1>1, WideField
    <2> QED BY <2>1, WideConcat, WideEmpty DEF FragHeader, FragSize
  <1>4. Wide(Boundary(m), BoundSize(m))
    BY <1>1, WideField, WideEmpty DEF Boundary, BoundSize
  <1>5. CASE m.rel = <<>>
    BY <1>1, <1>2, <1>3, <1>4, <1>5, WideEmpty, WidePayload DEF RelHeader, RelSize
  <1>6. CASE m.rel # <<>>
    <2>1. /\ m.rel[1] \in Nat /\ Len(m.rel) - 1 \in Nat
          /\ Tail(m.rel) \in Seq(Nat) /\ Len(Tail(m.rel)) = Len(m.rel) - 1
      BY <1>1, <1>6
    <2>2. Wide(Field(2, m.rel[1]), 2) /\ Wide(Field(2, Len(m.rel) - 1), 2) /\ 4 = 2 + 2
      BY <2>1, WideField
    <2>3. Wide(Field(2, m.rel[1]) \o Field(2, Len(m.rel) - 1), 4)
      BY <2>2, WideConcat
    <2>4. Wide(Shorts(Tail(m.rel)), 2 * (Len(m.rel) - 1))
      <3>1. 2 * (Len(m.rel) - 1) \in Nat /\ 2 * (Len(m.rel) - 1) = 2 * Len(Tail(m.rel))
        BY <2>1
      <3> QED BY <2>1, <3>1, WideShorts
    <2>5. Wide(RelHeader(m), 4 + 2 * (Len(m.rel) - 1))
      BY <1>6, <2>3, <2>4, WideConcat DEF RelHeader
    <2> QED BY <1>1, <1>2, <1>3, <1>4, <1>6, <2>5, WidePayload DEF RelSize
  <1> QED BY <1>5, <1>6

\* The headers of a data message and its payload are in b, each where the reader looks for it.
DataThere(m, b) ==
    /\ At(b, 0, CompHeader(m))
    /\ At(b, CompSize(m), RelHeader(m))
    /\ At(b, CompSize(m) + RelSize(m), FragHeader(m))
    /\ At(b, CompSize(m) + RelSize(m) + FragSize(m), Boundary(m))
    /\ At(b, HeadersSize(m), Payload(m.size))
    /\ ~m.boundary => Len(b) = HeadersSize(m) + m.size

LEMMA SameSequence ==
    ASSUME NEW S, NEW s \in Seq(S), NEW t \in Seq(S), Len(s) = Len(t), \A i \in 1..Len(t) : s[i] = t[i]
    PROVE  s = t
OBVIOUS

\* A data message is read as it was written.
LEMMA DataRead ==
    ASSUME NEW m \in DataMessages, Len(m.rel) <= 9, NEW b \in Bytes, DataThere(m, b), NEW start \in Nat
    PROVE  Found(m, DataMeta(HeaderBits(m), start, b), start + HeadersSize(m) + m.size)
  <1> DEFINE bits == HeaderBits(m)
             comp == IF bits.comp THEN 4 ELSE 0
             ackCount == IF bits.rel THEN Read(b, comp + 3, 2) ELSE 0
             acksRead == IF ackCount < 8 THEN ackCount ELSE 8
             rel == IF bits.rel THEN 4 + 2 * acksRead ELSE 0
             frag == IF bits.frag THEN 4 ELSE 0
             bound == IF bits.boundary THEN 2 ELSE 0
             begin == comp + rel + frag + bound
             rest == SubSeq(b, begin + 1, Len(b))
             size == IF bits.boundary THEN Read(b, begin - 1, 2) ELSE Len(rest)
             compRead == IF bits.comp THEN Read(b, 1, 4) ELSE 0
             numbers == [k \in 1..acksRead |-> Read(b, comp + 3 + 2 * k, 2)]
             relRead == IF bits.rel THEN <<Read(b, comp + 1, 2)>> \o numbers ELSE <<>>
             fragRead == IF bits.frag THEN Read(b, comp + rel + 1, 2) ELSE 0
             relSize == IF bits.rel THEN 4 + 2 * ackCount ELSE 0
             data == SubSeq(rest, 1, size)
             offset == start + comp + relSize + frag + bound
  <1>1. DataMeta(bits, start, b) =
            IF Len(b) < begin \/ Len(rest) < size THEN Error
            ELSE [ok |-> TRUE, type |-> "Data", comp |-> compRead, rel |-> relRead, frag |-> fragRead,
                  data |-> data, dataOffset |-> offset]
    BY DEF DataMeta
  <1>2. /\ m.type = "Data" /\ m.comp \in Nat /\ m.rel \in Seq(Nat) /\ m.frag \in Nat
        /\ m.boundary \in BOOLEAN /\ m.size \in Nat /\ Len(m.rel) \in Nat /\ Len(b) \in Nat
    BY DataFacts DEF Bytes
  <1>3. /\ bits.comp <=> m.comp # 0
        /\ bits.rel <=> m.rel # <<>>
        /\ bits.frag <=> m.frag # 0
        /\ bits.boundary <=> m.boundary
    BY <1>2, Zenon DEF HeaderBits
  <1> HIDE DEF bits
  <1>4. comp = CompSize(m) /\ comp \in Nat
    BY <1>3 DEF CompSize
  <1> HIDE DEF comp
  <1>5. m.rel # <<>> =>
          /\ Len(m.rel) - 1 \in 0..8
          /\ Read(b, comp + 1, 2) = m.rel[1] /\ Read(b, comp + 3, 2) = Len(m.rel) - 1
          /\ \A k \in 1..(Len(m.rel) - 1) : Read(b, comp + 3 + 2 * k, 2) = m.rel[k + 1]
    <2>1. At(b, comp, RelHeader(m))
      BY <1>4 DEF DataThere
    <2>2. m.rel # <<>> => Len(m.rel) - 1 \in 0..8
      <3> DEFINE n == Len(m.rel)
      <3>1. m.rel # <<>> => n # 0
        BY <1>2
      <3>2. n \in Nat /\ n <= 9
        BY <1>2
      <3> HIDE DEF n
      <3>3. n # 0 => n - 1 \in 0..8
        BY <3>2
      <3> QED BY <3>1, <3>3 DEF n
    <2> QED BY <1>4, <2>1, <2>2, RelRead
  <1>6. /\ m.rel # <<>> => ackCount = Len(m.rel) - 1
        /\ m.rel = <<>> => ackCount = 0
        /\ ackCount \in 0..8
    BY <1>3, <1>5
  <1>7. acksRead = ackCount
    BY <1>6
  <1> HIDE DEF ackCount, acksRead
  <1>8. rel = RelSize(m) /\ relSize = RelSize(m) /\ rel \in Nat
    BY <1>3, <1>6, <1>7 DEF RelSize
  <1>9. frag = FragSize(m) /\ frag \in Nat /\ bound = BoundSize(m) /\ bound \in Nat
    BY <1>3 DEF FragSize, BoundSize
  <1>10. relRead = m.rel
    <2>1. CASE m.rel = <<>>
      BY <1>3, <2>1
    <2>2. CASE m.rel # <<>>
      <3>1. relRead = <<m.rel[1]>> \o numbers
        BY <1>3, <1>5, <2>2
      <3> DEFINE acks == Len(m.rel) - 1
                 others == [k \in 1..acks |-> m.rel[k + 1]]
      <3>2. acks \in Nat /\ acksRead = acks /\ \A k \in 1..acks : m.rel[k + 1] \in Nat
        <4>1. acks \in Nat /\ acksRead = acks
          BY <1>5, <1>6, <1>7, <2>2
        <4>2. \A k \in 1..acks : k + 1 \in 1..Len(m.rel)
          BY <1>2, <4>1
        <4>3. \A i \in 1..Len(m.rel) : m.rel[i] \in Nat
          BY <1>2
        <4> QED BY <4>1, <4>2, <4>3
      <3>3. numbers = others
        BY <1>5, <2>2, <3>2
      <3>4. others \in Seq(Nat) /\ Len(others) = acks /\ \A k \in 1..acks : others[k] = m.rel[k + 1]
        <4> HIDE DEF acks
        <4> QED BY <3>2
      <3>5. m.rel[1] \in Nat
        BY <1>2, <2>2
      <3> HIDE DEF others, numbers
      <3> DEFINE whole == <<m.rel[1]>> \o others
      <3>6. whole \in Seq(Nat) /\ Len(whole) = Len(m.rel)
        BY <1>2, <3>2, <3>4, <3>5
      <3>7. ASSUME NEW i \in 1..Len(m.rel)
            PROVE  whole[i] = m.rel[i]
        <4>1. CASE i = 1
          BY <3>4, <3>5, <4>1
        <4>2. CASE i # 1
          <5>1. i - 1 \in 1..acks /\ (i - 1) + 1 = i
            BY <1>2, <4>2
          <5>2. whole[i] = others[i - 1]
            BY <1>2, <3>4, <3>5, <4>2
          <5> QED BY <3>4, <5>1, <5>2
        <4> QED BY <4>1, <4>2
      <3>8. whole = m.rel
        <4> HIDE DEF whole
        <4>1. \A i \in 1..Len(m.rel) : whole[i] = m.rel[i]
          BY <3>7
        <4>2. m.rel \in Seq(Nat)
          BY <1>2
        <4> QED BY <3>6, <4>1, <4>2, SameSequence
      <3> QED BY <3>1, <3>3, <3>8
    <2> QED BY <2>1, <2>2
  <1>11. compRead = m.comp
    <2>1. CASE m.comp = 0
      BY <1>3, <2>1
    <2>2. CASE m.comp # 0
      <3>1. At(b, 0, Field(4, m.comp)) /\ 1 = 0 + 1
        BY <2>2 DEF DataThere, CompHeader
      <3> QED BY <1>2, <1>3, <2>2, <3>1, AtField
    <2> QED BY <2>1, <2>2
  <1>12. fragRead = m.frag
    <2>1. CASE m.frag = 0
      BY <1>3, <2>1
    <2>2. CASE m.frag # 0
      <3>1. At(b, comp + rel, Field(2, m.frag) \o Field(2, 0)) /\ comp + rel \in Nat
        BY <1>4, <1>8, <2>2 DEF DataThere, FragHeader
      <3>2. Wide(Field(2, m.frag), 2) /\ Wide(Field(2, 0), 2)
        BY <1>2, WideField
      <3>3. At(b, comp + rel, Field(2, m.frag))
        BY <3>1, <3>2, AtBehind
      <3> QED BY <1>2, <1>3, <2>2, <3>1, <3>3, AtField
    <2> QED BY <2>1, <2>2
  <1> HIDE DEF relRead, compRead, fragRead, rel, relSize, frag
  <1>13. begin = HeadersSize(m) /\ begin \in Nat /\ offset = start + begin
    BY <1>4, <1>8, <1>9, SMTT(40) DEF HeadersSize
  <1> HIDE DEF begin
  <1>14. Payload(m.size) \in Bytes /\ Len(Payload(m.size)) = m.size
    BY <1>2, PayloadFacts
  <1>15. At(b, begin, Payload(m.size)) /\ begin + m.size <= Len(b)
    BY <1>13, <1>14 DEF DataThere, At
  <1>16. /\ rest \in Bytes /\ Len(rest) = Len(b) - begin
         /\ At(rest, 0, Payload(m.size))
    <2>1. rest = Rest(b, begin) /\ begin <= Len(b) /\ begin + 0 = begin /\ 0 \in Nat
      BY <1>2, <1>13, <1>15 DEF Rest
    <2>2. At(b, begin + 0, Payload(m.size))
      BY <1>15, <2>1
    <2>3. /\ Rest(b, begin) \in Bytes /\ Len(Rest(b, begin)) = Len(b) - begin
          /\ At(b, begin + 0, Payload(m.size)) <=> At(Rest(b, begin), 0, Payload(m.size))
      BY <1>13, <1>14, <2>1, AtRest
    <2> HIDE DEF rest
    <2> QED BY <2>1, <2>2, <2>3
  <1>17. size = m.size
    <2>1. CASE ~m.boundary
      BY <1>2, <1>3, <1>13, <1>15, <1>16, <2>1, SMTT(40) DEF DataThere
    <2>2. CASE m.boundary
      <3> DEFINE before == CompSize(m) + RelSize(m) + FragSize(m)
      <3>1. At(b, before, Field(2, m.size)) /\ before \in Nat /\ begin - 1 = before + 1
        <4>1. At(b, before, Field(2, m.size))
          BY <2>2 DEF DataThere, Boundary
        <4>2. before \in Nat
          BY <1>4, <1>8, <1>9
        <4>3. begin = before + 2
          BY <1>13, <2>2 DEF HeadersSize, BoundSize
        <4> HIDE DEF before
        <4> QED BY <4>1, <4>2, <4>3
      <3> HIDE DEF before
      <3>2. Read(b, begin - 1, 2) = m.size
        BY <1>2, <3>1, AtField
      <3> QED BY <1>3, <2>2, <3>2
    <2> QED BY <2>1, <2>2
  <1> HIDE DEF rest, size
  <1>18. data = Payload(m.size)
    <2>1. SubSeq(rest, 0 + 1, 0 + Len(Payload(m.size))) = Payload(m.size)
      BY <1>14, <1>16, AtSubSeq
    <2>2. 0 + 1 = 1 /\ 0 + Len(Payload(m.size)) = size
      BY <1>2, <1>14, <1>17
    <2> QED BY <2>1, <2>2
  <1>19. ~(Len(b) < begin \/ Len(rest) < size)
    BY <1>2, <1>13, <1>15, <1>16, <1>17, SMTT(40)
  <1> HIDE DEF data, offset
  <1>20. DataMeta(bits, start, b) =
            [ok |-> TRUE, type |-> "Data", comp |-> m.comp, rel |-> m.rel, frag |-> m.frag,
             data |-> Payload(m.size), dataOffset |-> start + HeadersSize(m)]
    BY <1>1, <1>10, <1>11, <1>12, <1>13, <1>18, <1>19
  <1>21. DataMeta(bits, start, b) = DataMeta(HeaderBits(m), start, b)
    BY DEF bits
  <1>22. HeadersSize(m) \in Nat
    BY <1>13
  <1> QED BY <1>2, <1>14, <1>20, <1>21, <1>22 DEF Found, Plain, Content

--------------------------------------------------------------------------------
(* Datagrams: messages *)

\* What follows the first byte and the connection id.
TailSize(m) == IF m.type # "Data" THEN Len(Body(m)) ELSE HeadersSize(m) + m.size

TailThere(m, b) ==
    IF m.type # "Data"
    THEN At(b, 0, Body(m)) /\ (m.type = "Padding" => Len(b) = Len(Body(m)))
    ELSE DataThere(m, b)

LEMMA HeaderFacts ==
    ASSUME NEW m \in AnyMessage
    PROVE  /\ Wide(HeaderByte(m), 1) /\ HeaderBits(m).type = m.type
           /\ HeaderByte(m)[1] = [width |-> 1, part |-> 0, value |-> HeaderBits(m)]
  <1> DEFINE byte == [width |-> 1, part |-> 0, value |-> HeaderBits(m)]
  <1>1. byte \in Byte
    BY DEF Byte
  <1>2. HeaderByte(m) = <<byte>>
    BY DEF HeaderByte
  <1>3. HeaderBits(m).type = m.type
    <2>1. CASE m.type = "Data"
      BY <2>1 DEF HeaderBits
    <2>2. CASE m.type # "Data"
      BY <2>2 DEF HeaderBits
    <2> QED BY <2>1, <2>2
  <1> HIDE DEF byte
  <1>4. <<byte>> \in Seq(Byte) /\ Len(<<byte>>) = 1 /\ <<byte>>[1] = byte
    BY <1>1
  <1> QED BY <1>2, <1>3, <1>4 DEF Wide, Bytes, byte

LEMMA KindOf ==
    ASSUME NEW m \in AnyMessage
    PROVE  /\ m.type = "Data" => m \in DataMessages
           /\ m.type # "Data" => m \in ControlMessages
BY SizeAndCode, DataFacts DEF AnyMessage

LEMMA FewAcks ==
    ASSUME NEW m \in DataMessages, Known(m) \/ Uncompressed(m)
    PROVE  Len(m.rel) <= 9
<1>1. m.type = "Data"
  BY DataFacts
<1> QED BY <1>1, Zenon DEF Known, Uncompressed

\* The iterator reads a message whose bytes are in front of it.
LEMMA Decoded ==
    ASSUME NEW m \in AnyMessage, Known(m) \/ Uncompressed(m), NEW u \in BOOLEAN, NEW b \in Bytes,
           NEW start \in Nat, start = IF u THEN 9 ELSE 1, start <= Len(b),
           At(b, 0, HeaderByte(m)), TailThere(m, Rest(b, start))
    PROVE  Found(m, DecodeMeta(b, u), start + TailSize(m))
  <1> DEFINE rest == Rest(b, start)
             header == b[1].value
  <1>1. b[1] = [width |-> 1, part |-> 0, value |-> HeaderBits(m)]
    <2>1. Len(HeaderByte(m)) = 1
      BY HeaderFacts DEF Wide
    <2>2. b[0 + 1] = HeaderByte(m)[1]
      BY <2>1 DEF At
    <2> QED BY <2>2, HeaderFacts
  <1>2. header = HeaderBits(m) /\ header.type = m.type /\ b[1].part = 0
    BY <1>1, HeaderFacts
  <1>3. Len(b) \in Nat /\ rest \in Bytes
    <2>1. Len(b) \in Nat
      BY DEF Bytes
    <2> QED BY <2>1, AtRest
  <1>4. DecodeMeta(b, u) =
            IF header.type = "Data" THEN DataMeta(header, start, rest)
            ELSE ControlMeta(header.type, start, rest)
    <2>1. DecodeMeta(b, u) =
            IF Len(b) < start \/ b[1].part # 0 THEN Error
            ELSE IF header.type = "Data" THEN DataMeta(header, start, rest)
            ELSE ControlMeta(header.type, start, rest)
      BY DEF DecodeMeta, Rest
    <2>2. ~(Len(b) < start \/ b[1].part # 0)
      BY <1>2, <1>3
    <2> QED BY <2>1, <2>2
  <1> HIDE DEF header, rest
  <1>5. CASE m.type = "Data"
    <2>1. m \in DataMessages /\ Len(m.rel) <= 9 /\ m.size \in Nat
      BY <1>5, KindOf, FewAcks, DataFacts
    <2>2. DataThere(m, rest)
      BY <1>5 DEF TailThere, rest
    <2>3. Found(m, DataMeta(HeaderBits(m), start, rest), start + HeadersSize(m) + m.size)
      BY <1>3, <2>1, <2>2, DataRead
    <2>4. DecodeMeta(b, u) = DataMeta(HeaderBits(m), start, rest)
      BY <1>2, <1>4, <1>5
    <2>5. start + HeadersSize(m) + m.size = start + TailSize(m)
      <3>1. HeadersSize(m) \in Nat
        BY <2>1, WideHeaders DEF HeadersSize, Wide
      <3> QED BY <1>5, <2>1, <3>1 DEF TailSize
    <2> QED BY <2>3, <2>4, <2>5
  <1>6. CASE m.type # "Data"
    <2>1. m \in ControlMessages
      BY <1>6, KindOf
    <2>2. At(rest, 0, Body(m)) /\ (m.type = "Padding" => Len(rest) = Len(Body(m)))
      BY <1>6 DEF TailThere, rest
    <2>3. Found(m, ControlMeta(m.type, start, rest), start + Len(Body(m)))
      BY <1>3, <2>1, <2>2, ControlFound
    <2>4. DecodeMeta(b, u) = ControlMeta(m.type, start, rest)
      BY <1>2, <1>4, <1>6
    <2> QED BY <1>6, <2>3, <2>4 DEF TailSize
  <1> QED BY <1>5, <1>6

\* The bytes of the five parts of a data message, one behind the other.
LEMMA DataPlaced ==
    ASSUME NEW m \in DataMessages, NEW b \in Bytes, NEW p \in Nat, p <= Len(b),
           At(b, p, CompHeader(m) \o RelHeader(m) \o FragHeader(m) \o Boundary(m) \o Payload(m.size)),
           ~m.boundary => p + HeadersSize(m) + m.size = Len(b)
    PROVE  DataThere(m, Rest(b, p))
  <1> DEFINE comp == CompHeader(m)
             rel == RelHeader(m)
             frag == FragHeader(m)
             bound == Boundary(m)
             c == CompSize(m)
             r == CompSize(m) + RelSize(m)
             f == r + FragSize(m)
             h == HeadersSize(m)
  <1>1. /\ Wide(comp, CompSize(m)) /\ Wide(rel, RelSize(m)) /\ Wide(frag, FragSize(m))
        /\ Wide(bound, BoundSize(m)) /\ Wide(Payload(m.size), m.size)
    BY WideHeaders
  <1>2. /\ CompSize(m) \in Nat /\ RelSize(m) \in Nat /\ FragSize(m) \in Nat /\ BoundSize(m) \in Nat
        /\ m.size \in Nat /\ Len(b) \in Nat
    BY <1>1 DEF Wide, Bytes
  <1>3. c \in Nat /\ r \in Nat /\ f \in Nat /\ h \in Nat /\ h = f + BoundSize(m)
    BY <1>2 DEF HeadersSize
  <1> HIDE DEF comp, rel, frag, bound
  <1>4. Wide(comp \o rel, r)
    BY <1>1, WideConcat
  <1>5. Wide(comp \o rel \o frag, f)
    BY <1>1, <1>4, WideConcat
  <1>6. Wide(comp \o rel \o frag \o bound, h)
    BY <1>1, <1>3, <1>5, WideConcat
  <1>7. At(b, p, comp \o rel \o frag \o bound \o Payload(m.size))
    BY DEF comp, rel, frag, bound
  <1>8. At(b, p, comp \o rel \o frag \o bound) /\ At(b, p + h, Payload(m.size))
    BY <1>1, <1>6, <1>7, AtBehind
  <1>9. At(b, p, comp \o rel \o frag) /\ At(b, p + f, bound)
    BY <1>1, <1>5, <1>8, AtBehind
  <1>10. At(b, p, comp \o rel) /\ At(b, p + r, frag)
    BY <1>1, <1>4, <1>9, AtBehind
  <1>11. At(b, p, comp) /\ At(b, p + c, rel)
    BY <1>1, <1>10, AtBehind
  <1>12. At(b, p + 0, comp)
    BY <1>11
  <1>13. \A q \in Nat : \A s \in Bytes : At(b, p + q, s) => At(Rest(b, p), q, s)
    BY AtRest
  <1>14. comp \in Bytes /\ rel \in Bytes /\ frag \in Bytes /\ bound \in Bytes /\ Payload(m.size) \in Bytes
    BY <1>1 DEF Wide
  <1>15. /\ At(Rest(b, p), 0, comp) /\ At(Rest(b, p), c, rel) /\ At(Rest(b, p), r, frag)
         /\ At(Rest(b, p), f, bound) /\ At(Rest(b, p), h, Payload(m.size))
    BY <1>3, <1>8, <1>9, <1>10, <1>11, <1>12, <1>13, <1>14
  <1>16. ~m.boundary => Len(Rest(b, p)) = h + m.size
    <2> SUFFICES ASSUME ~m.boundary
                 PROVE  Len(Rest(b, p)) = h + m.size
      OBVIOUS
    <2> DEFINE size == Len(Rest(b, p))
               n == m.size
    <2>1. size = Len(b) - p
      BY AtRest
    <2>2. p + h + n = Len(b)
      OBVIOUS
    <2>3. n \in Nat /\ h \in Nat /\ Len(b) \in Nat
      BY <1>2, <1>3
    <2> HIDE DEF h, n, size
    <2>4. size = h + n
      BY <2>1, <2>2, <2>3
    <2> QED BY <2>4 DEF size, n
  <1> QED BY <1>15, <1>16 DEF DataThere, comp, rel, frag, bound

LEMMA BodyBytes ==
    ASSUME NEW m \in ControlMessages, Known(m) \/ Uncompressed(m)
    PROVE  Wide(Body(m), Len(Body(m)))
<1>1. Body(m) \in Bytes
  BY ControlRead, <<>> \in Bytes DEF Readable, Bytes
<1> QED BY <1>1 DEF Wide, Bytes

LEMMA DataBytes ==
    ASSUME NEW m \in DataMessages
    PROVE  Wide(CompHeader(m) \o RelHeader(m) \o FragHeader(m) \o Boundary(m) \o Payload(m.size),
                HeadersSize(m) + m.size)
  <1> DEFINE comp == CompHeader(m)
             rel == RelHeader(m)
             frag == FragHeader(m)
             bound == Boundary(m)
  <1>1. /\ Wide(comp, CompSize(m)) /\ Wide(rel, RelSize(m)) /\ Wide(frag, FragSize(m))
        /\ Wide(bound, BoundSize(m)) /\ Wide(Payload(m.size), m.size)
    BY WideHeaders
  <1> HIDE DEF comp, rel, frag, bound
  <1>2. Wide(comp \o rel, CompSize(m) + RelSize(m))
    BY <1>1, WideConcat
  <1>3. Wide(comp \o rel \o frag, CompSize(m) + RelSize(m) + FragSize(m))
    BY <1>1, <1>2, WideConcat
  <1>4. Wide(comp \o rel \o frag \o bound, HeadersSize(m))
    BY <1>1, <1>3, WideConcat DEF HeadersSize
  <1>5. Wide(comp \o rel \o frag \o bound \o Payload(m.size), HeadersSize(m) + m.size)
    BY <1>1, <1>4, WideConcat
  <1> QED BY <1>5 DEF comp, rel, frag, bound

\* A message of a server, anywhere in a datagram.
LEMMA DownFound ==
    ASSUME NEW m \in AnyMessage, Known(m)
    PROVE  /\ Wide(ServerEncode(m), 1 + TailSize(m))
           /\ \A b \in Bytes : \A p \in Nat :
                 /\ At(b, p, ServerEncode(m)) 
                 /\ ~Closed(m) => p + Len(ServerEncode(m)) = Len(b)
                 => Found(m, DecodeMeta(Rest(b, p), FALSE), 1 + TailSize(m))
  <1> DEFINE tail == IF m.type # "Data" THEN Body(m)
                     ELSE CompHeader(m) \o RelHeader(m) \o FragHeader(m) \o Boundary(m) \o Payload(m.size)
  <1>1. ServerEncode(m) = HeaderByte(m) \o tail
    BY DEF ServerEncode
  <1>2. Wide(HeaderByte(m), 1)
    BY HeaderFacts
  <1>3. Wide(tail, TailSize(m))
    BY KindOf, BodyBytes, DataBytes DEF TailSize
  <1> HIDE DEF tail
  <1>4. Wide(ServerEncode(m), 1 + TailSize(m))
    BY <1>1, <1>2, <1>3, WideConcat
  <1>5. ASSUME NEW b \in Bytes, NEW p \in Nat, At(b, p, ServerEncode(m)),
               ~Closed(m) => p + Len(ServerEncode(m)) = Len(b)
        PROVE  Found(m, DecodeMeta(Rest(b, p), FALSE), 1 + TailSize(m))
    <2> DEFINE c == Rest(b, p)
    <2>1. /\ Len(b) \in Nat /\ TailSize(m) \in Nat /\ tail \in Bytes /\ HeaderByte(m) \in Bytes
          /\ p + 1 + TailSize(m) <= Len(b) /\ Len(tail) = TailSize(m)
          /\ Len(ServerEncode(m)) = 1 + TailSize(m)
      <3>1. Len(b) \in Nat /\ TailSize(m) \in Nat /\ tail \in Bytes /\ HeaderByte(m) \in Bytes
        BY <1>2, <1>3 DEF Wide, Bytes
      <3>2. Len(tail) = TailSize(m) /\ Len(ServerEncode(m)) = 1 + TailSize(m)
        BY <1>3, <1>4 DEF Wide
      <3>3. p + Len(ServerEncode(m)) <= Len(b)
        BY <1>5 DEF At
      <3> QED BY <3>1, <3>2, <3>3
    <2>2. At(b, p, HeaderByte(m)) /\ At(b, p + 1, tail)
      BY <1>1, <1>2, <1>3, <1>5, AtBehind
    <2>3. c \in Bytes /\ Len(c) = Len(b) - p
      <3>1. p <= Len(b)
        BY <2>1
      <3> QED BY <3>1, AtRest
    <2>4. At(c, 0, HeaderByte(m)) /\ At(c, 1, tail)
      <3>1. At(b, p + 0, HeaderByte(m)) /\ p <= Len(b)
        BY <2>1, <2>2
      <3> QED BY <2>1, <2>2, <3>1, AtRest
    <2>5. 1 + TailSize(m) <= Len(c) /\ (~Closed(m) => 1 + TailSize(m) = Len(c))
      BY <1>5, <2>1, <2>3
    <2> HIDE DEF c
    <2>6. TailThere(m, Rest(c, 1))
      <3>1. CASE m.type = "Data"
        <4>1. m \in DataMessages /\ m.size \in Nat /\ HeadersSize(m) \in Nat
          <5>1. m \in DataMessages
            BY <3>1, KindOf
          <5> QED BY <5>1, DataFacts, WideHeaders DEF HeadersSize, Wide
        <4>2. tail = CompHeader(m) \o RelHeader(m) \o FragHeader(m) \o Boundary(m) \o Payload(m.size)
          BY <3>1 DEF tail
        <4>3. ~m.boundary => 1 + HeadersSize(m) + m.size = Len(c)
          BY <2>5, <3>1, <4>1 DEF Closed, TailSize
        <4>4. 1 <= Len(c)
          BY <2>1, <2>3, <2>5
        <4>5. DataThere(m, Rest(c, 1))
          BY <2>3, <2>4, <4>1, <4>2, <4>3, <4>4, DataPlaced
        <4> QED BY <3>1, <4>5 DEF TailThere
      <3>2. CASE m.type # "Data"
        <4>1. tail = Body(m)
          BY <3>2 DEF tail
        <4>2. 1 <= Len(c) /\ 1 + 0 = 1
          BY <2>1, <2>3, <2>5
        <4>3. At(c, 1 + 0, tail)
          BY <2>4, <4>2
        <4>4. At(Rest(c, 1), 0, tail) /\ Len(Rest(c, 1)) = Len(c) - 1
          BY <2>1, <2>3, <4>2, <4>3, AtRest
        <4>5. m.type = "Padding" => Len(Rest(c, 1)) = Len(Body(m))
          BY <2>1, <2>3, <2>5, <4>1, <4>4 DEF Closed
        <4> QED BY <3>2, <4>1, <4>4, <4>5 DEF TailThere
      <3> QED BY <3>1, <3>2
    <2>7. 1 <= Len(c)
      BY <2>1, <2>3, <2>5
    <2>8. Found(m, DecodeMeta(c, FALSE), 1 + TailSize(m))
      BY <2>3, <2>4, <2>6, <2>7, Decoded
    <2> QED BY <2>8 DEF c
  <1> QED BY <1>4, <1>5

LEMMA NothingAdded ==
    ASSUME NEW s \in Bytes
    PROVE  <<>> \o s = s /\ s \o <<>> = s
  <1>1. s \in Seq(Byte) /\ Len(s) \in Nat /\ <<>> \in Seq(Byte) /\ Len(<<>>) = 0
    BY DEF Bytes
  <1>2. /\ <<>> \o s \in Seq(Byte) /\ Len(<<>> \o s) = Len(s)
        /\ \A i \in 1..Len(s) : (<<>> \o s)[i] = s[i]
    BY <1>1
  <1>3. /\ s \o <<>> \in Seq(Byte) /\ Len(s \o <<>>) = Len(s)
        /\ \A i \in 1..Len(s) : (s \o <<>>)[i] = s[i]
    BY <1>1
  <1> QED BY <1>1, <1>2, <1>3, SameSequence

\* What the client sends.
UpBytes(m, id) == IF m.type = "Data" THEN EncodeData(m, id) ELSE EncodeControlMsg(m, id)
UpStart(id) == IF id # 0 THEN 9 ELSE 1

\* It is in front of its datagram.
LEMMA UpFound ==
    ASSUME NEW m \in AnyMessage, Uncompressed(m), NEW id \in Nat
    PROVE  /\ Wide(UpBytes(m, id), UpStart(id) + TailSize(m))
           /\ \A b \in Bytes :
                 /\ At(b, 0, UpBytes(m, id))
                 /\ ~Closed(m) => Len(UpBytes(m, id)) = Len(b)
                 => Found(m, DecodeMeta(b, id # 0), UpStart(id) + TailSize(m))
  <1> DEFINE head == HeaderByte(m) \o ConnId(id)
             tail == IF m.type # "Data" THEN Body(m) ELSE RelHeader(m) \o FragHeader(m) \o Payload(m.size)
             start == UpStart(id)
  <1>1. start \in Nat \ {0} /\ start = IF id # 0 THEN 9 ELSE 1
    BY DEF UpStart
  <1> HIDE DEF start
  <1>2. Wide(HeaderByte(m), 1)
    BY HeaderFacts
  <1>3. Wide(head, start)
    <2>1. CASE id = 0
      <3>1. Wide(ConnId(id), 0) /\ start = 1 + 0
        BY <1>1, <2>1, WideEmpty DEF ConnId
      <3> QED BY <1>1, <1>2, <3>1, WideConcat
    <2>2. CASE id # 0
      <3>1. Wide(ConnId(id), 8) /\ start = 1 + 8
        BY <1>1, <2>2, WideField DEF ConnId
      <3> QED BY <1>1, <1>2, <3>1, WideConcat
    <2> QED BY <2>1, <2>2
  <1>4. ASSUME m.type = "Data"
        PROVE  /\ m \in DataMessages /\ m.size \in Nat /\ ~m.boundary
               /\ CompHeader(m) = <<>> /\ Boundary(m) = <<>>
               /\ Wide(RelHeader(m), RelSize(m)) /\ Wide(FragHeader(m), FragSize(m))
               /\ Wide(Payload(m.size), m.size)
               /\ HeadersSize(m) = RelSize(m) + FragSize(m)
               /\ UpBytes(m, id) = head \o RelHeader(m) \o FragHeader(m) \o Payload(m.size)
    <2>1. m \in DataMessages /\ m.size \in Nat /\ RelSize(m) \in Nat /\ FragSize(m) \in Nat
      <3>1. m \in DataMessages
        BY <1>4, KindOf
      <3> QED BY <3>1, DataFacts, WideHeaders DEF Wide
    <2>2. m.comp = 0 /\ ~m.boundary
      BY <1>4, Zenon DEF Uncompressed
    <2>3. CompHeader(m) = <<>> /\ Boundary(m) = <<>>
      BY <2>2 DEF CompHeader, Boundary
    <2>4. HeadersSize(m) = RelSize(m) + FragSize(m)
      BY <2>1, <2>2 DEF HeadersSize, CompSize, BoundSize
    <2>5. HeaderByte(m) \o CompHeader(m) = HeaderByte(m)
      BY <1>2, <2>3, NothingAdded DEF Wide
    <2>6. UpBytes(m, id) = head \o RelHeader(m) \o FragHeader(m) \o Payload(m.size)
      BY <1>4, <2>5 DEF UpBytes, EncodeData
    <2> QED BY <2>1, <2>2, <2>3, <2>4, <2>6, WideHeaders
  <1>5. ASSUME m.type # "Data"
        PROVE  /\ m \in ControlMessages /\ Wide(Body(m), Len(Body(m)))
               /\ UpBytes(m, id) = head \o Body(m)
    BY <1>5, KindOf, BodyBytes DEF UpBytes, EncodeControlMsg
  <1> HIDE DEF head
  <1>6. Wide(tail, TailSize(m))
    <2>1. CASE m.type = "Data"
      <3>1. Wide(RelHeader(m) \o FragHeader(m), HeadersSize(m))
        BY <1>4, <2>1, WideConcat
      <3>2. Wide(RelHeader(m) \o FragHeader(m) \o Payload(m.size), HeadersSize(m) + m.size)
        BY <1>4, <2>1, <3>1, WideConcat
      <3> QED BY <2>1, <3>2 DEF TailSize
    <2> QED BY <1>5, <2>1 DEF TailSize
  <1>7. /\ Wide(UpBytes(m, id), start + TailSize(m))
        /\ \A b \in Bytes : At(b, 0, UpBytes(m, id)) => At(b, 0, head) /\ At(b, start, tail)
    <2>1. CASE m.type # "Data"
      <3>1. UpBytes(m, id) = head \o tail
        BY <1>5, <2>1
      <3>2. Wide(UpBytes(m, id), start + TailSize(m))
        BY <1>3, <1>6, <3>1, WideConcat
      <3>3. ASSUME NEW b \in Bytes, At(b, 0, UpBytes(m, id))
            PROVE  At(b, 0, head) /\ At(b, start, tail)
        <4>1. start = 0 + start
          BY <1>1
        <4> QED BY <1>3, <1>6, <3>1, <3>3, <4>1, AtBehind
      <3> QED BY <3>2, <3>3
    <2>2. CASE m.type = "Data"
      <3> DEFINE rel == RelHeader(m)
                 frag == FragHeader(m)
                 data == Payload(m.size)
                 r == RelSize(m)
                 f == FragSize(m)
      <3>1. /\ Wide(rel, r) /\ Wide(frag, f) /\ Wide(data, m.size)
            /\ r \in Nat /\ f \in Nat /\ m.size \in Nat
            /\ UpBytes(m, id) = head \o rel \o frag \o data /\ tail = rel \o frag \o data
            /\ TailSize(m) = r + f + m.size
        BY <1>4, <2>2 DEF TailSize, Wide
      <3> HIDE DEF rel, frag, data, r, f, tail
      <3>2. Wide(head \o rel, start + r)
        BY <1>3, <3>1, WideConcat
      <3>3. Wide(head \o rel \o frag, start + r + f)
        BY <3>1, <3>2, WideConcat
      <3>4. Wide(UpBytes(m, id), start + TailSize(m))
        <4>1. start + TailSize(m) = start + r + f + m.size
          BY <1>1, <3>1
        <4> QED BY <3>1, <3>3, <4>1, WideConcat
      <3>5. ASSUME NEW b \in Bytes, At(b, 0, UpBytes(m, id))
            PROVE  At(b, 0, head) /\ At(b, start, tail)
        <4>1. start + r = 0 + (start + r) /\ start = 0 + start /\ start + r + f = 0 + (start + r + f)
          BY <1>1, <3>1
        <4>2. At(b, 0, head \o rel \o frag) /\ At(b, start + r + f, data)
          BY <3>1, <3>3, <3>5, <4>1, AtBehind
        <4>3. At(b, 0, head \o rel) /\ At(b, start + r, frag)
          BY <3>1, <3>2, <4>1, <4>2, AtBehind
        <4>4. At(b, 0, head) /\ At(b, start, rel)
          BY <1>3, <3>1, <4>1, <4>3, AtBehind
        <4>5. /\ rel \in Bytes /\ frag \in Bytes /\ data \in Bytes /\ Len(rel) = r
              /\ rel \o frag \in Bytes /\ Len(rel \o frag) = r + f
          <5>1. Wide(rel \o frag, r + f)
            BY <3>1, WideConcat
          <5> QED BY <3>1, <5>1 DEF Wide
        <4>6. At(b, start, rel \o frag)
          BY <1>1, <4>3, <4>4, <4>5, AtConcat
        <4>7. start + (r + f) = start + r + f
          BY <1>1, <3>1
        <4>8. At(b, start, rel \o frag \o data)
          BY <1>1, <4>2, <4>5, <4>6, <4>7, AtConcat
        <4> QED BY <3>1, <4>4, <4>8
      <3> QED BY <3>4, <3>5
    <2> QED BY <2>1, <2>2
  <1>8. ASSUME NEW b \in Bytes, At(b, 0, UpBytes(m, id)), ~Closed(m) => Len(UpBytes(m, id)) = Len(b)
        PROVE  Found(m, DecodeMeta(b, id # 0), start + TailSize(m))
    <2>1. At(b, 0, head) /\ At(b, start, tail)
      BY <1>7, <1>8
    <2>2. Len(b) \in Nat /\ TailSize(m) \in Nat /\ tail \in Bytes /\ Len(tail) = TailSize(m)
      BY <1>6 DEF Wide, Bytes
    <2>3. start + TailSize(m) <= Len(b)
      BY <2>1, <2>2 DEF At
    <2>4. start <= Len(b) /\ Len(UpBytes(m, id)) = start + TailSize(m)
      <3>1. Len(UpBytes(m, id)) = start + TailSize(m)
        BY <1>7 DEF Wide
      <3> QED BY <1>1, <2>2, <2>3, <3>1
    <2>5. At(b, 0, HeaderByte(m))
      <3>1. \E n : Wide(ConnId(id), n)
        BY WideField, WideEmpty DEF ConnId
      <3>2. 0 + 1 = 1
        OBVIOUS
      <3> QED BY <1>2, <2>1, <3>1, <3>2, AtBehind DEF head
    <2>6. TailThere(m, Rest(b, start))
      <3>1. CASE m.type = "Data"
        <4>1. At(b, start, RelHeader(m) \o FragHeader(m) \o Payload(m.size))
          BY <2>1, <3>1
        <4>2. RelHeader(m) \in Bytes /\ RelHeader(m) \o FragHeader(m) \in Bytes
          BY <1>4, <3>1, WideConcat DEF Wide
        <4>3. /\ CompHeader(m) \o RelHeader(m) = RelHeader(m)
              /\ RelHeader(m) \o FragHeader(m) \o Boundary(m) = RelHeader(m) \o FragHeader(m)
          BY <1>4, <3>1, <4>2, NothingAdded
        <4>4. At(b, start, CompHeader(m) \o RelHeader(m) \o FragHeader(m) \o Boundary(m) \o Payload(m.size))
          BY <4>1, <4>3
        <4>5. start + HeadersSize(m) + m.size = Len(b)
          <5>1. ~Closed(m) /\ TailSize(m) = HeadersSize(m) + m.size
            BY <1>4, <3>1 DEF Closed, TailSize
          <5>2. HeadersSize(m) \in Nat /\ m.size \in Nat
            BY <1>4, <3>1 DEF Wide
          <5> QED BY <1>1, <1>8, <2>4, <5>1, <5>2
        <4>6. DataThere(m, Rest(b, start))
          BY <1>1, <1>4, <2>4, <3>1, <4>4, <4>5, DataPlaced
        <4> QED BY <3>1, <4>6 DEF TailThere
      <3>2. CASE m.type # "Data"
        <4>1. m.type # "Padding"
          BY <3>2, Zenon DEF Uncompressed
        <4>2. tail = Body(m) /\ start + 0 = start
          BY <1>1, <3>2
        <4>3. At(b, start + 0, tail)
          BY <2>1, <4>2
        <4>4. At(Rest(b, start), 0, tail)
          BY <1>1, <2>2, <2>4, <4>3, AtRest
        <4> QED BY <3>2, <4>1, <4>2, <4>4 DEF TailThere
      <3> QED BY <3>1, <3>2
    <2>7. start = IF id # 0 THEN 9 ELSE 1
      BY <1>1
    <2>8. (id # 0) \in BOOLEAN
      OBVIOUS
    <2> QED BY <1>1, <2>4, <2>5, <2>6, <2>7, <2>8, Decoded
  <1> QED BY <1>7, <1>8 DEF start

--------------------------------------------------------------------------------
(* Datagrams: several messages in one *)

LEMMA RestOfAll ==
    ASSUME NEW b \in Bytes
    PROVE  Rest(b, 0) = b /\ At(b, 0, b)
  <1>1. Len(b) \in Nat /\ b \in Seq(Byte)
    BY DEF Bytes
  <1>2. Rest(b, 0) \in Seq(Byte) /\ Len(Rest(b, 0)) = Len(b) /\ \A i \in 1..Len(b) : Rest(b, 0)[i] = b[i]
    BY <1>1 DEF Rest
  <1> QED BY <1>1, <1>2, SameSequence DEF At

LEMMA InTheMiddle ==
    ASSUME NEW b \in Bytes, NEW s \in Bytes, NEW e \in Bytes
    PROVE  /\ b \o s \o e \in Bytes /\ Len(b) \in Nat /\ At(b \o s \o e, Len(b), s)
           /\ e = <<>> => Len(b) + Len(s) = Len(b \o s \o e)
  <1>1. b \o s \in Bytes /\ Len(b) \in Nat
    BY AtConcat DEF Bytes
  <1>2. b \o s \o e \in Bytes /\ Len(b \o s \o e) = Len(b \o s) + Len(e) /\ Len(b \o s) = Len(b) + Len(s)
    BY <1>1, ConcatFacts
  <1>3. At(b \o s \o e, 0, b \o s \o e)
    BY <1>2, RestOfAll
  <1>4. At(b \o s \o e, 0, b \o s)
    BY <1>1, <1>2, <1>3, AtConcat
  <1>5. At(b \o s \o e, 0 + Len(b), s)
    BY <1>2, <1>4, AtConcat
  <1>6. 0 + Len(b) = Len(b) /\ Len(s) \in Nat
    BY <1>1 DEF Bytes
  <1>7. e = <<>> => Len(e) = 0
    OBVIOUS
  <1> QED BY <1>1, <1>2, <1>5, <1>6, <1>7

LEMMA ConcatAssoc ==
    ASSUME NEW S, NEW r \in Seq(S), NEW s \in Seq(S), NEW t \in Seq(S)
    PROVE  r \o s \o t = r \o (s \o t)
  <1>1. Len(r) \in Nat /\ Len(s) \in Nat /\ Len(t) \in Nat
    OBVIOUS
  <1>2. r \o s \in Seq(S) /\ s \o t \in Seq(S) /\ Len(r \o s) = Len(r) + Len(s) /\ Len(s \o t) = Len(s) + Len(t)
    BY <1>1
  <1> DEFINE a == r \o s \o t
             c == r \o (s \o t)
  <1>3. a \in Seq(S) /\ c \in Seq(S) /\ Len(a) = Len(c) /\ Len(c) = Len(r) + Len(s) + Len(t)
    BY <1>1, <1>2
  <1>4. ASSUME NEW i \in 1..Len(c)
        PROVE  a[i] = c[i]
    <2>1. i \in 1..(Len(r) + Len(s) + Len(t))
      BY <1>3
    <2>2. CASE i <= Len(r)
      BY <1>1, <1>2, <2>1, <2>2
    <2>3. CASE Len(r) < i /\ i <= Len(r) + Len(s)
      BY <1>1, <1>2, <2>1, <2>3
    <2>4. CASE Len(r) + Len(s) < i
      BY <1>1, <1>2, <2>1, <2>4
    <2> QED BY <1>1, <2>1, <2>2, <2>3, <2>4
  <1> HIDE DEF a, c
  <1>5. a = c
    BY <1>3, <1>4, SameSequence
  <1> QED BY <1>5 DEF a, c

\* Behind the first p bytes of a datagram the iterator finds the message, which takes n bytes,
\* whatever is still put into the datagram.
PlacedAt(m, b, p, u, n) ==
    \A e \in Bytes : e = <<>> \/ Closed(m) => Found(m, DecodeMeta(Rest(b \o e, p), u), n)

LEMMA PlacedDown ==
    ASSUME NEW m \in AnyMessage, Known(m), NEW b \in Bytes
    PROVE  /\ ServerEncode(m) \in Bytes /\ Len(ServerEncode(m)) \in Nat \ {0}
           /\ PlacedAt(m, b \o ServerEncode(m), Len(b), FALSE, Len(ServerEncode(m)))
  <1> DEFINE s == ServerEncode(m)
  <1>1. Wide(s, 1 + TailSize(m)) /\ TailSize(m) \in Nat
    <2>1. Wide(s, 1 + TailSize(m))
      BY DownFound
    <2>2. TailSize(m) \in Nat
      BY KindOf, BodyBytes, DataBytes DEF TailSize, Wide
    <2> QED BY <2>1, <2>2
  <1>2. s \in Bytes /\ Len(s) = 1 + TailSize(m)
    BY <1>1 DEF Wide
  <1>3. ASSUME NEW e \in Bytes, e = <<>> \/ Closed(m)
        PROVE  Found(m, DecodeMeta(Rest(b \o s \o e, Len(b)), FALSE), 1 + TailSize(m))
    <2> HIDE DEF s
    <2>1. /\ b \o s \o e \in Bytes /\ Len(b) \in Nat /\ At(b \o s \o e, Len(b), s)
          /\ ~Closed(m) => Len(b) + Len(s) = Len(b \o s \o e)
      BY <1>2, <1>3, InTheMiddle
    <2> QED BY <2>1, DownFound DEF s
  <1>4. Len(s) \in Nat \ {0}
    BY <1>1, <1>2
  <1> QED BY <1>2, <1>3, <1>4 DEF PlacedAt

LEMMA PlacedUp ==
    ASSUME NEW m \in AnyMessage, Uncompressed(m), NEW id \in Nat
    PROVE  /\ UpBytes(m, id) \in Bytes /\ Len(UpBytes(m, id)) \in Nat \ {0}
           /\ PlacedAt(m, UpBytes(m, id), 0, id # 0, Len(UpBytes(m, id)))
  <1> DEFINE s == UpBytes(m, id)
             n == UpStart(id) + TailSize(m)
  <1>1. Wide(s, n) /\ TailSize(m) \in Nat
    <2>1. Wide(s, n)
      BY UpFound
    <2>2. TailSize(m) \in Nat
      BY KindOf, BodyBytes, DataBytes DEF TailSize, Wide
    <2> QED BY <2>1, <2>2
  <1>2. s \in Bytes /\ Len(s) = n
    BY <1>1 DEF Wide
  <1>3. ASSUME NEW e \in Bytes, e = <<>> \/ Closed(m)
        PROVE  Found(m, DecodeMeta(Rest(s \o e, 0), id # 0), n)
    <2> HIDE DEF s
    <2>1. s \o e \in Bytes /\ Len(s) \in Nat
      BY <1>2, AtConcat DEF Bytes
    <2>2. Rest(s \o e, 0) = s \o e /\ At(s \o e, 0, s \o e)
      BY <2>1, RestOfAll
    <2>3. At(s \o e, 0, s)
      BY <1>2, <2>1, <2>2, AtConcat
    <2>4. ~Closed(m) => Len(s) = Len(s \o e)
      BY <1>2, <1>3, NothingAdded
    <2> QED BY <2>1, <2>2, <2>3, <2>4, UpFound DEF s
  <1>4. Len(s) \in Nat \ {0}
    BY <1>1, <1>2 DEF UpStart
  <1> QED BY <1>2, <1>3, <1>4 DEF PlacedAt

LEMMA PlacedLonger ==
    ASSUME NEW m, NEW b \in Bytes, NEW p, NEW u, NEW n, PlacedAt(m, b, p, u, n), Closed(m), NEW t \in Bytes
    PROVE  PlacedAt(m, b \o t, p, u, n)
  <1>1. ASSUME NEW e \in Bytes
        PROVE  Found(m, DecodeMeta(Rest(b \o t \o e, p), u), n)
    <2>1. t \o e \in Bytes
      BY ConcatFacts
    <2>2. b \o t \o e = b \o (t \o e)
      BY ConcatAssoc DEF Bytes
    <2>3. Found(m, DecodeMeta(Rest(b \o (t \o e), p), u), n)
      BY <2>1 DEF PlacedAt
    <2> QED BY <2>2, <2>3
  <1> QED BY <1>1 DEF PlacedAt

LEMMA PlacedNow ==
    ASSUME NEW m, NEW b \in Bytes, NEW p, NEW u, NEW n, PlacedAt(m, b, p, u, n)
    PROVE  Found(m, DecodeMeta(Rest(b, p), u), n)
<1>1. b \o <<>> = b /\ <<>> \in Bytes
  BY NothingAdded DEF Bytes
<1>2. Found(m, DecodeMeta(Rest(b \o <<>>, p), u), n)
  BY <1>1 DEF PlacedAt
<1> QED BY <1>1, <1>2

--------------------------------------------------------------------------------
(* Datagrams: the inductive invariant *)

Contents == {Content(m) : m \in AnyMessage}

\* What the application can get.
Returned == Contents \cup {[type |-> m.type, code |-> m.code, size |-> m.size] : m \in ControlMessages}

DatagramTypeInv ==
    /\ datagram \in Bytes /\ packed \in Seq(AnyMessage) /\ items \in Seq(Contents)
    /\ incoming \in BOOLEAN /\ m_server \in BOOLEAN
    /\ stage \in {"idle", "packing", "reading", "closed"}
    /\ delivered \in Seq(Returned) /\ toReturn \in Seq(Returned)
    /\ m_pendingMessages \in Seq(Returned) /\ delayed \in Seq(Returned)
    /\ due \in Seq(Returned) /\ late \in Seq(Returned)

\* The ids a server gives out before m_nextRemoteId could wrap.
Window == 16384
Numbered(m) == Reliable(m) => m.rel[1] < Window

\* The client knows what its server sends, and only the last message may go on to the end.
PackedInv ==
    /\ incoming => \A i \in 1..Len(packed) : Known(packed[i]) /\ Numbered(packed[i])
    /\ \A i \in 1..(Len(packed) - 1) : Closed(packed[i])
    /\ stage = "packing" => incoming /\ ~m_server /\ items = <<>> /\ packed # <<>>

ItemInv ==
    /\ ~failed
    /\ Len(items) <= Len(packed) /\ \A i \in 1..Len(items) : items[i] = Content(packed[i])
    /\ stage = "idle" => Len(items) = Len(packed)

\* The messages ms are in b, each from where the one before it ends.
Laid(ms, b, u, ends) ==
    /\ ends \in [0..Len(ms) -> 0..Len(b)] /\ ends[0] = 0 /\ ends[Len(ms)] = Len(b)
    /\ \A i \in 1..Len(ms) :
         /\ ends[i - 1] < ends[i]
         /\ PlacedAt(ms[i], b, ends[i - 1], ends[i - 1] = 0 /\ u, ends[i] - ends[i - 1])

\* The iterator is at the end of one of them.
LayoutInv == \E ends : Laid(packed, datagram, m_server, ends) /\ m_pos = ends[Len(items)]

\* What the application has, what the call returns and what is queued.
Got == delivered \o toReturn \o m_pendingMessages

Reading == stage = "reading" /\ incoming

\* The store holds the messages that have come too early, and no others.
StoreInv ==
    /\ nextRemoteId \in 1..Window /\ DOMAIN got \subseteq 1..(Window - 1)
    /\ got \in [DOMAIN got -> Returned] /\ outOfOrder \in [DOMAIN outOfOrder -> Returned]
    /\ DOMAIN got = 1..(nextRemoteId - 1) \cup DOMAIN outOfOrder
    /\ \A i \in DOMAIN outOfOrder : i > nextRemoteId /\ outOfOrder[i] = got[i]

Beginning(s, t) == Len(s) <= Len(t) /\ \A i \in 1..Len(s) : t[i] = s[i]

\* The application has got what is due, or will get it from the queues: in a datagram, what it
\* has filled a gap for comes behind it.
OrderInv ==
    /\ ~Reading => toReturn = <<>>
    /\ Reading => Got = due /\ delayed = late /\ (toReturn = <<>> => m_pendingMessages = <<>>)
    /\ ~Reading /\ stage # "closed" => Got \o delayed = due /\ late = <<>>
    /\ stage # "closed" => StoreInv
    /\ stage = "closed" => Beginning(delivered, due)

DatagramInv == DatagramTypeInv /\ PackedInv /\ ItemInv /\ LayoutInv /\ OrderInv

LEMMA LaidFirst ==
    ASSUME NEW m, NEW b \in Bytes, Len(b) \in Nat \ {0}, NEW u \in BOOLEAN, PlacedAt(m, b, 0, u, Len(b))
    PROVE  \E ends : Laid(<<m>>, b, u, ends) /\ ends[0] = 0
  <1> DEFINE ends == [i \in 0..1 |-> IF i = 0 THEN 0 ELSE Len(b)]
  <1>1. ends \in [0..1 -> 0..Len(b)] /\ ends[0] = 0 /\ ends[1] = Len(b)
    OBVIOUS
  <1>2. Len(<<m>>) = 1 /\ <<m>>[1] = m
    OBVIOUS
  <1> HIDE DEF ends
  <1>3. ASSUME NEW i \in 1..1
        PROVE  /\ ends[i - 1] < ends[i]
               /\ PlacedAt(<<m>>[i], b, ends[i - 1], ends[i - 1] = 0 /\ u, ends[i] - ends[i - 1])
    <2>1. i = 1 /\ ends[i - 1] = 0 /\ ends[i] = Len(b) /\ ends[i] - ends[i - 1] = Len(b)
      BY <1>1
    <2>2. (ends[i - 1] = 0 /\ u) = u
      BY <2>1
    <2> QED BY <1>2, <2>1, <2>2
  <1> QED BY <1>1, <1>2, <1>3 DEF Laid

LEMMA LaidMore ==
    ASSUME NEW ms \in Seq(AnyMessage), ms # <<>>, \A i \in 1..Len(ms) : Closed(ms[i]),
           NEW b \in Bytes, NEW u \in BOOLEAN, NEW ends, Laid(ms, b, u, ends),
           NEW m \in AnyMessage, Known(m)
    PROVE  \E next : Laid(Append(ms, m), b \o ServerEncode(m), u, next) /\ next[0] = 0
  <1> DEFINE s == ServerEncode(m)
             n == Len(ms)
             c == b \o s
             next == [i \in 0..(n + 1) |-> IF i <= n THEN ends[i] ELSE Len(c)]
             more == Append(ms, m)
  <1>1. s \in Bytes /\ Len(s) \in Nat \ {0} /\ PlacedAt(m, c, Len(b), FALSE, Len(s))
    BY PlacedDown
  <1> HIDE DEF s
  <1>2. n \in Nat \ {0} /\ Len(b) \in Nat
    BY DEF Bytes
  <1>3. c \in Bytes /\ Len(c) = Len(b) + Len(s)
    BY <1>1, ConcatFacts
  <1> HIDE DEF c
  <1>4. Len(more) = n + 1 /\ more[n + 1] = m /\ \A i \in 1..n : more[i] = ms[i]
    OBVIOUS
  <1> HIDE DEF more
  <1>5. /\ ends \in [0..n -> 0..Len(b)] /\ ends[0] = 0 /\ ends[n] = Len(b)
        /\ \A i \in 1..n :
             /\ ends[i - 1] < ends[i]
             /\ PlacedAt(ms[i], b, ends[i - 1], ends[i - 1] = 0 /\ u, ends[i] - ends[i - 1])
    BY DEF Laid
  <1>6. \A i \in 1..n : Closed(ms[i])
    OBVIOUS
  <1> HIDE DEF n
  <1>7. /\ next \in [0..(n + 1) -> 0..Len(c)] /\ next[0] = 0 /\ next[n + 1] = Len(c)
        /\ \A i \in 0..n : next[i] = ends[i]
    BY <1>1, <1>2, <1>3, <1>5
  <1> HIDE DEF next
  <1>8. ASSUME NEW i \in 1..(n + 1)
        PROVE  /\ next[i - 1] < next[i]
               /\ PlacedAt(more[i], c, next[i - 1], next[i - 1] = 0 /\ u, next[i] - next[i - 1])
    <2>1. CASE i <= n
      <3>1. i \in 1..n /\ i - 1 \in 0..n
        BY <1>2, <2>1
      <3>2. next[i] = ends[i] /\ next[i - 1] = ends[i - 1] /\ more[i] = ms[i]
        BY <1>2, <1>4, <1>7, <3>1
      <3>3. /\ ends[i - 1] < ends[i] /\ Closed(ms[i])
            /\ PlacedAt(ms[i], b, ends[i - 1], ends[i - 1] = 0 /\ u, ends[i] - ends[i - 1])
        BY <1>5, <1>6, <3>1
      <3>4. PlacedAt(ms[i], c, ends[i - 1], ends[i - 1] = 0 /\ u, ends[i] - ends[i - 1])
        BY <1>1, <3>3, PlacedLonger DEF c
      <3> QED BY <3>2, <3>3, <3>4
    <2>2. CASE i = n + 1
      <3>1. n \in 0..n /\ n \in 1..n /\ n - 1 \in 0..n
        BY <1>2
      <3>2. next[i] = Len(c) /\ next[i - 1] = Len(b) /\ more[i] = m
        <4>1. i - 1 = n
          BY <1>2, <2>2
        <4> QED BY <1>4, <1>5, <1>7, <2>2, <3>1, <4>1
      <3>3. Len(b) > 0
        BY <1>2, <1>5, <3>1
      <3>4. (next[i - 1] = 0 /\ u) = FALSE
        BY <3>2, <3>3
      <3>5. next[i] - next[i - 1] = Len(s) /\ next[i - 1] < next[i]
        BY <1>1, <1>2, <1>3, <3>2
      <3> QED BY <1>1, <3>2, <3>4, <3>5
    <2> QED BY <1>2, <2>1, <2>2
  <1>9. Laid(more, c, u, next)
    BY <1>4, <1>7, <1>8 DEF Laid
  <1> QED BY <1>7, <1>9 DEF more, c, s

LEMMA ShareFacts ==
    ASSUME NEW m \in AnyMessage
    PROVE  /\ Share(m) \in Seq(Returned) /\ Len(Share(m)) \in Nat /\ Content(m) \in Contents
           /\ m.type # "Data" => [type |-> m.type, code |-> m.code, size |-> m.size] \in Returned
           /\ Content(m) \in Returned
  <1>1. Content(m) \in Contents /\ Content(m) \in Returned
    BY DEF Contents, Returned
  <1>2. m.type # "Data" => [type |-> m.type, code |-> m.code, size |-> m.size] \in Returned
    BY KindOf DEF Returned
  <1>3. \/ Share(m) = <<>>
        \/ m.type = "Data" /\ Share(m) = <<Content(m)>>
        \/ m.type # "Data" /\ Share(m) = <<[type |-> m.type, code |-> m.code, size |-> m.size]>>
    BY DEF Share
  <1> DEFINE message == [type |-> m.type, code |-> m.code, size |-> m.size]
  <1> HIDE DEF message
  <1>4. Share(m) \in Seq(Returned)
    <2>1. Share(m) = <<>> \/ Share(m) = <<Content(m)>> \/ (m.type # "Data" /\ Share(m) = <<message>>)
      BY <1>3 DEF message
    <2>2. m.type # "Data" => message \in Returned
      BY <1>2 DEF message
    <2>3. <<>> \in Seq(Returned) /\ \A x \in Returned : <<x>> \in Seq(Returned)
      OBVIOUS
    <2> QED BY <1>1, <2>1, <2>2, <2>3
  <1> QED BY <1>1, <1>2, <1>4

LEMMA NoneAdded ==
    ASSUME NEW S, NEW s \in Seq(S)
    PROVE  <<>> \in Seq(S) /\ s \o <<>> = s
  <1>1. /\ <<>> \in Seq(S)
        /\ s \o <<>> \in Seq(S) /\ Len(s \o <<>>) = Len(s)
        /\ \A i \in 1..Len(s) : (s \o <<>>)[i] = s[i]
    OBVIOUS
  <1> QED BY <1>1, SameSequence

LEMMA OneMoved ==
    ASSUME NEW S, NEW s \in Seq(S), NEW t \in Seq(S), t # <<>>
    PROVE  Append(s, Head(t)) \in Seq(S) /\ Tail(t) \in Seq(S) /\ Append(s, Head(t)) \o Tail(t) = s \o t
  <1> DEFINE a == Append(s, Head(t))
             r == Tail(t)
  <1>1. Len(s) \in Nat /\ Len(t) \in Nat \ {0} /\ Head(t) \in S
    OBVIOUS
  <1>2. /\ a \in Seq(S) /\ Len(a) = Len(s) + 1 /\ a[Len(s) + 1] = t[1]
        /\ \A i \in 1..Len(s) : a[i] = s[i]
    BY <1>1
  <1>3. r \in Seq(S) /\ Len(r) = Len(t) - 1 /\ \A i \in 1..(Len(t) - 1) : r[i] = t[i + 1]
    BY <1>1
  <1> HIDE DEF a, r
  <1> DEFINE left == a \o r
             right == s \o t
  <1>4. left \in Seq(S) /\ right \in Seq(S) /\ Len(left) = Len(right) /\ Len(right) = Len(s) + Len(t)
    <2>1. left \in Seq(S) /\ Len(left) = Len(a) + Len(r)
      <3>1. a \in Seq(S) /\ r \in Seq(S)
        BY <1>2, <1>3
      <3> QED BY <3>1
    <2>2. right \in Seq(S) /\ Len(right) = Len(s) + Len(t)
      OBVIOUS
    <2> HIDE DEF left, right
    <2> QED BY <1>1, <1>2, <1>3, <2>1, <2>2
  <1>5. ASSUME NEW i \in 1..(Len(s) + Len(t))
        PROVE  left[i] = right[i]
    <2>1. CASE i <= Len(s)
      BY <1>1, <1>2, <1>3, <2>1
    <2>2. CASE i = Len(s) + 1
      BY <1>1, <1>2, <1>3, <2>2
    <2>3. CASE i > Len(s) + 1
      <3>1. i - (Len(s) + 1) \in 1..(Len(t) - 1) /\ i - (Len(s) + 1) + 1 = i - Len(s)
        BY <1>1, <2>3
      <3>2. left[i] = r[i - (Len(s) + 1)] /\ right[i] = t[i - Len(s)]
        BY <1>1, <1>2, <1>3, <2>3
      <3> QED BY <1>3, <3>1, <3>2
    <2>4. i <= Len(s) \/ i = Len(s) + 1 \/ i > Len(s) + 1
      BY <1>1
    <2> QED BY <2>1, <2>2, <2>3, <2>4, Zenon
  <1> HIDE DEF left, right
  <1>6. left = right
    BY <1>4, <1>5, SameSequence
  <1> QED BY <1>2, <1>3, <1>6 DEF a, r, left, right

LEMMA GotFacts ==
    ASSUME DatagramTypeInv
    PROVE  Got \in Seq(Returned) /\ Beginning(delivered, Got)
  <1> DEFINE both == delivered \o toReturn
  <1>1. /\ delivered \in Seq(Returned) /\ toReturn \in Seq(Returned) /\ m_pendingMessages \in Seq(Returned)
        /\ Len(delivered) \in Nat /\ Len(toReturn) \in Nat /\ Len(m_pendingMessages) \in Nat
    BY DEF DatagramTypeInv
  <1>2. /\ both \in Seq(Returned) /\ Len(both) = Len(delivered) + Len(toReturn)
        /\ \A i \in 1..Len(delivered) : both[i] = delivered[i]
    BY <1>1
  <1> HIDE DEF both
  <1>3. /\ both \o m_pendingMessages \in Seq(Returned)
        /\ Len(both \o m_pendingMessages) = Len(both) + Len(m_pendingMessages)
        /\ \A i \in 1..Len(both) : (both \o m_pendingMessages)[i] = both[i] /\ Len(both) \in Nat
    <2>1. both \in Seq(Returned) /\ m_pendingMessages \in Seq(Returned)
      BY <1>1, <1>2
    <2> QED BY <2>1
  <1> QED BY <1>1, <1>2, <1>3 DEF Got, Beginning, both

\* Nothing of what the application gets changes.
LEMMA OrderKept ==
    ASSUME OrderInv, ~Reading, stage # "closed", Reading' = FALSE, stage' # "closed",
           UNCHANGED <<toReturn, m_pendingMessages, storeVars, delivered, dueVars>>
    PROVE  OrderInv'
  <1>1. /\ toReturn' = toReturn /\ m_pendingMessages' = m_pendingMessages /\ delivered' = delivered
        /\ nextRemoteId' = nextRemoteId /\ outOfOrder' = outOfOrder /\ delayed' = delayed
        /\ due' = due /\ late' = late /\ got' = got
    BY DEF storeVars, dueVars
  <1>2. Got' = Got /\ StoreInv' = StoreInv
    BY <1>1 DEF Got, StoreInv
  <1> QED BY <1>1, <1>2 DEF OrderInv

--------------------------------------------------------------------------------
(* Datagrams: the store *)

LEMMA WindowFacts == Window \in Nat /\ 1 < Window /\ Window <= 16384
BY DEF Window

LEMMA IdsInARow ==
    ASSUME NEW id \in 1..Window, NEW n \in Nat, id + n <= Window
    PROVE  IdAfter(id, n) = id + n
  <1>1. id + n - 1 \in Nat /\ id + n - 1 < 65535
    BY WindowFacts
  <1>2. ASSUME NEW x \in Nat, x < 65535
        PROVE  x % 65535 = x
    BY <1>2
  <1>3. (id + n - 1) % 65535 = id + n - 1
    BY <1>1, <1>2
  <1> QED BY <1>1, <1>3 DEF IdAfter

\* The stored messages that follow are moved to the queue, up to the first that is missing.
LEMMA Restored ==
    ASSUME StoreInv, NEW next \in 1..Window, RestoreFrom(next)
    PROVE  \E n \in Nat :
             /\ next + n <= Window /\ next..(next + n - 1) \subseteq DOMAIN outOfOrder
             /\ next + n \notin DOMAIN outOfOrder /\ nextRemoteId' = next + n
             /\ delayed' = delayed \o [i \in 1..n |-> outOfOrder[next + (i - 1)]]
             /\ outOfOrder' = [id \in DOMAIN outOfOrder \ (next..(next + n - 1)) |-> outOfOrder[id]]
  <1>1. PICK n \in 0..OooCap :
            /\ \A i \in 0..(n - 1) : IdAfter(next, i) \in DOMAIN outOfOrder
            /\ IdAfter(next, n) \notin DOMAIN outOfOrder
            /\ nextRemoteId' = IdAfter(next, n)
            /\ delayed' = delayed \o [i \in 1..n |-> outOfOrder[IdAfter(next, i - 1)]]
            /\ outOfOrder' = [id \in DOMAIN outOfOrder \ {IdAfter(next, i) : i \in 0..(n - 1)}
                                |-> outOfOrder[id]]
    BY Zenon DEF RestoreFrom
  <1>2. n \in Nat
    BY DatagramAssumption
  <1>3. DOMAIN outOfOrder \subseteq 1..(Window - 1)
    BY DEF StoreInv
  <1>4. next + n <= Window
    <2> SUFFICES ASSUME ~(next + n <= Window)
                 PROVE  FALSE
      OBVIOUS
    <2> DEFINE i == Window - next
    <2>1. i \in 0..(n - 1) /\ i \in Nat /\ next + i = Window
      BY <1>2, WindowFacts
    <2> HIDE DEF i
    <2>2. IdAfter(next, i) = Window
      BY <2>1, IdsInARow
    <2>3. Window \notin 1..(Window - 1)
      BY WindowFacts
    <2> QED BY <1>1, <1>3, <2>1, <2>2, <2>3
  <1>5. \A i \in 0..n : IdAfter(next, i) = next + i
    <2>1. ASSUME NEW i \in 0..n
          PROVE  i \in Nat /\ next + i <= Window
      BY <1>2, <1>4, WindowFacts
    <2> QED BY <2>1, IdsInARow
  <1>6. {IdAfter(next, i) : i \in 0..(n - 1)} = next..(next + n - 1)
    <2>1. \A i \in 0..(n - 1) : i \in 0..n /\ IdAfter(next, i) = next + i
      BY <1>2, <1>5
    <2>2. ASSUME NEW x \in next..(next + n - 1)
          PROVE  x - next \in 0..(n - 1) /\ x = IdAfter(next, x - next)
      BY <1>2, <2>1
    <2>3. \A i \in 0..(n - 1) : next + i \in next..(next + n - 1)
      BY <1>2
    <2> QED BY <2>1, <2>2, <2>3
  <1>7. next..(next + n - 1) \subseteq DOMAIN outOfOrder
    BY <1>1, <1>6
  <1>8. [i \in 1..n |-> outOfOrder[IdAfter(next, i - 1)]] = [i \in 1..n |-> outOfOrder[next + (i - 1)]]
    <2>1. \A i \in 1..n : IdAfter(next, i - 1) = next + (i - 1)
      <3>1. \A i \in 1..n : i - 1 \in 0..n
        BY <1>2
      <3> QED BY <1>5, <3>1
    <2> QED BY <2>1
  <1>9. n \in 0..n
    BY <1>2
  <1> QED BY <1>1, <1>2, <1>4, <1>5, <1>6, <1>7, <1>8, <1>9

\* What has been stored is what has come too early.
LEMMA StoreFacts ==
    ASSUME StoreInv
    PROVE  /\ nextRemoteId \notin DOMAIN got /\ nextRemoteId \notin DOMAIN outOfOrder
           /\ \A id \in 1..(Window - 1) : IsDuplicate(id) <=> id < nextRemoteId
           /\ \A id \in 1..(nextRemoteId - 1) : id \in DOMAIN got
           /\ DOMAIN outOfOrder \subseteq 1..(Window - 1)
           /\ \A id \in 1..(Window - 1) : Cardinality(DOMAIN got \cup {id}) \in Nat
  <1>1. nextRemoteId \in 1..Window /\ DOMAIN got \subseteq 1..(Window - 1)
        /\ DOMAIN got = 1..(nextRemoteId - 1) \cup DOMAIN outOfOrder
        /\ \A i \in DOMAIN outOfOrder : i > nextRemoteId
    BY DEF StoreInv
  <1>2. nextRemoteId \notin DOMAIN outOfOrder /\ nextRemoteId \notin 1..(nextRemoteId - 1)
    BY <1>1
  <1>3. \A id \in 1..(Window - 1) : IsDuplicate(id) <=> id < nextRemoteId
    <2>1. ASSUME NEW id \in 1..(Window - 1)
          PROVE  IsDuplicate(id) <=> id < nextRemoteId
      <3>1. id \in Nat /\ id > 0 /\ nextRemoteId \in Nat /\ nextRemoteId <= 16384
        BY <1>1, WindowFacts
      <3>2. nextRemoteId - id < 16384
        BY <3>1
      <3> QED BY <3>2 DEF IsDuplicate
    <2> QED BY <2>1
  <1>4. ASSUME NEW id \in 1..(Window - 1)
        PROVE  Cardinality(DOMAIN got \cup {id}) \in Nat
    <2>1. DOMAIN got \cup {id} \subseteq 1..(Window - 1) /\ IsFiniteSet(1..(Window - 1))
      <3>1. 1 \in Int /\ Window - 1 \in Int
        BY WindowFacts
      <3> QED BY <1>1, <3>1, FS_Interval
    <2>2. IsFiniteSet(DOMAIN got \cup {id})
      BY <2>1, FS_Subset
    <2> QED BY <2>2, FS_CardinalityType
  <1> QED BY <1>1, <1>2, <1>3, <1>4

--------------------------------------------------------------------------------
(* Datagrams: the steps *)

\* What the client and the servers say to each other: whatever the client knows, with ids that
\* have not wrapped, and nothing that it compresses.
Agreed ==
    /\ \A m \in DownMessages : Known(m) /\ Numbered(m)
    /\ \A m \in UpMessages : Uncompressed(m)

LEMMA DownAndUp ==
    ASSUME Agreed
    PROVE  /\ \A m \in DownMessages : m \in AnyMessage /\ Known(m) /\ Numbered(m)
           /\ \A m \in UpMessages : m \in AnyMessage /\ Uncompressed(m)
           /\ ConnectionIds \subseteq Nat
BY DatagramAssumption DEF Agreed, AnyMessage

LEMMA DatagramInitInv == DatagramInit => DatagramInv
  <1> SUFFICES ASSUME DatagramInit
               PROVE  DatagramInv
    OBVIOUS
  <1> USE DEF DatagramInit
  <1>1. DatagramTypeInv
    <2>1. \A S : <<>> \in Seq(S)
      OBVIOUS
    <2> QED BY <2>1 DEF DatagramTypeInv, Bytes
  <1>2. PackedInv /\ ItemInv
    BY DEF PackedInv, ItemInv
  <1>3. LayoutInv
    <2> DEFINE ends == [i \in 0..0 |-> 0]
    <2>1. ends \in [0..0 -> 0..0] /\ ends[0] = 0
      OBVIOUS
    <2> HIDE DEF ends
    <2>2. Laid(packed, datagram, m_server, ends) /\ m_pos = ends[Len(items)]
      BY <2>1 DEF Laid
    <2> QED BY <2>2 DEF LayoutInv
  <1>4. OrderInv
    <2>1. <<>> \o <<>> = <<>>
      <3>1. <<>> \in Seq(Returned)
        OBVIOUS
      <3> QED BY <3>1, NoneAdded
    <2>2. Got \o delayed = due
      BY <2>1 DEF Got
    <2>3. StoreInv
      <3>1. <<>> \in [DOMAIN <<>> -> Returned] /\ DOMAIN <<>> = {} /\ 1..0 = {}
        OBVIOUS
      <3> QED BY <3>1, WindowFacts DEF StoreInv
    <2> QED BY <2>2, <2>3 DEF OrderInv, Reading
  <1> QED BY <1>1, <1>2, <1>3, <1>4 DEF DatagramInv

LEMMA OneMessage ==
    ASSUME NEW m
    PROVE  Len(<<m>>) = 1 /\ <<m>>[1] = m /\ (\A i \in 1..Len(<<m>>) : i = 1) /\ <<m>> # <<>>
OBVIOUS

LEMMA PackFirstStep ==
    ASSUME Agreed, DatagramInv, PackFirst
    PROVE  DatagramInv'
  <1> USE DEF DatagramInv
  <1>1. PICK m \in DownMessages : Begin(ServerEncode(m), <<m>>, FALSE, TRUE, "packing")
    BY DEF PackFirst
  <1> DEFINE s == ServerEncode(m)
  <1>2. m \in AnyMessage /\ Known(m) /\ Numbered(m)
    BY DownAndUp
  <1>3. s \in Bytes /\ Len(s) \in Nat \ {0} /\ PlacedAt(m, s, 0, FALSE, Len(s))
    <2>1. <<>> \in Bytes /\ Len(<<>>) = 0
      BY DEF Bytes
    <2>2. s \in Bytes /\ Len(s) \in Nat \ {0} /\ PlacedAt(m, <<>> \o s, 0, FALSE, Len(s))
      BY <1>2, <2>1, PlacedDown
    <2>3. <<>> \o s = s
      BY <2>2, NothingAdded
    <2> QED BY <2>2, <2>3
  <1> HIDE DEF s
  <1>4. /\ stage = "idle" /\ datagram' = s /\ packed' = <<m>> /\ m_server' = FALSE /\ incoming' = TRUE
        /\ m_pos' = 0 /\ items' = <<>> /\ failed' = FALSE /\ stage' = "packing"
        /\ UNCHANGED <<toReturn, m_pendingMessages, storeVars, delivered, dueVars>>
    BY <1>1 DEF Begin, s
  <1>5. /\ toReturn' = toReturn /\ m_pendingMessages' = m_pendingMessages /\ delivered' = delivered
        /\ delayed' = delayed /\ due' = due /\ late' = late
    BY <1>4 DEF storeVars, dueVars
  <1>6. DatagramTypeInv'
    <2>1. <<m>> \in Seq(AnyMessage) /\ <<>> \in Seq(Contents)
      BY <1>2
    <2> QED BY <1>3, <1>4, <1>5, <2>1 DEF DatagramTypeInv
  <1>7. PackedInv'
    BY <1>2, <1>4, OneMessage DEF PackedInv
  <1>8. ItemInv'
    BY <1>4 DEF ItemInv
  <1>9. LayoutInv'
    <2>1. PICK ends : Laid(<<m>>, s, FALSE, ends) /\ ends[0] = 0
      BY <1>3, LaidFirst
    <2>2. Len(<<>>) = 0
      OBVIOUS
    <2>3. Laid(packed', datagram', m_server', ends)
      BY <1>4, <2>1, Zenon
    <2>4. m_pos' = ends[Len(items')]
      BY <1>4, <2>1, <2>2
    <2> QED BY <2>3, <2>4 DEF LayoutInv
  <1>10. OrderInv'
    BY <1>4, OrderKept DEF Reading
  <1> QED BY <1>6, <1>7, <1>8, <1>9, <1>10

LEMMA PackAnotherStep ==
    ASSUME Agreed, DatagramInv, PackAnother
    PROVE  DatagramInv'
  <1> USE DEF DatagramInv
  <1>1. PICK m \in DownMessages : datagram' = datagram \o ServerEncode(m) /\ packed' = Append(packed, m)
    BY DEF PackAnother
  <1>2. /\ stage = "packing" /\ Closed(packed[Len(packed)])
        /\ incoming' = incoming /\ m_server' = m_server /\ m_pos' = m_pos /\ items' = items
        /\ failed' = failed /\ stage' = stage
        /\ UNCHANGED <<toReturn, m_pendingMessages, storeVars, delivered, dueVars>>
    BY DEF PackAnother
  <1>3. incoming /\ m_server = FALSE /\ items = <<>> /\ packed # <<>>
    BY <1>2 DEF PackedInv, DatagramTypeInv
  <1>4. m \in AnyMessage /\ Known(m) /\ Numbered(m)
    BY DownAndUp
  <1>5. /\ datagram \in Bytes /\ packed \in Seq(AnyMessage) /\ ServerEncode(m) \in Bytes
    BY <1>4, PlacedDown DEF DatagramTypeInv
  <1>6. Len(packed) \in Nat \ {0}
    BY <1>3, <1>5
  <1>7. /\ Len(packed') = Len(packed) + 1 /\ packed'[Len(packed) + 1] = m
        /\ \A i \in 1..Len(packed) : packed'[i] = packed[i]
    BY <1>1, <1>5
  <1>8. \A i \in 1..Len(packed) : Closed(packed[i])
    <2>1. ASSUME NEW i \in 1..Len(packed)
          PROVE  i \in 1..(Len(packed) - 1) \/ i = Len(packed)
      BY <1>6
    <2> QED BY <1>2, <2>1 DEF PackedInv
  <1>9. DatagramTypeInv'
    <2>1. datagram \o ServerEncode(m) \in Bytes
      BY <1>5, ConcatFacts
    <2>2. Append(packed, m) \in Seq(AnyMessage)
      BY <1>4, <1>5
    <2> QED BY <1>1, <1>2, <2>1, <2>2 DEF DatagramTypeInv, storeVars, dueVars
  <1>10. PackedInv'
    <2>1. \A i \in 1..Len(packed') : Known(packed'[i]) /\ Numbered(packed'[i])
      <3>1. ASSUME NEW i \in 1..Len(packed')
            PROVE  i \in 1..Len(packed) \/ i = Len(packed) + 1
        BY <1>6, <1>7
      <3> QED BY <1>3, <1>4, <1>7, <3>1 DEF PackedInv
    <2>2. \A i \in 1..(Len(packed') - 1) : Closed(packed'[i])
      <3>1. 1..(Len(packed') - 1) = 1..Len(packed)
        BY <1>6, <1>7
      <3> QED BY <1>7, <1>8, <3>1
    <2>3. packed' # <<>>
      BY <1>6, <1>7
    <2> QED BY <1>2, <1>3, <2>1, <2>2, <2>3 DEF PackedInv
  <1>11. ItemInv'
    BY <1>2, <1>3, <1>6, <1>7 DEF ItemInv
  <1>12. LayoutInv'
    <2>1. PICK ends : Laid(packed, datagram, m_server, ends) /\ m_pos = ends[Len(items)]
      BY DEF LayoutInv
    <2>2. PICK next : Laid(Append(packed, m), datagram \o ServerEncode(m), m_server, next) /\ next[0] = 0
      BY <1>3, <1>4, <1>5, <1>8, <2>1, LaidMore
    <2>3. ends[0] = 0 /\ Len(items) = 0
      BY <1>3, <2>1 DEF Laid
    <2>4. Laid(packed', datagram', m_server', next) /\ m_pos' = next[Len(items')]
      BY <1>1, <1>2, <2>1, <2>2, <2>3
    <2> QED BY <2>4 DEF LayoutInv
  <1>13. OrderInv'
    BY <1>2, OrderKept DEF Reading
  <1> QED BY <1>9, <1>10, <1>11, <1>12, <1>13

LEMMA ReceiveStep ==
    ASSUME DatagramInv, Receive
    PROVE  DatagramInv'
  <1> USE DEF DatagramInv
  <1>1. /\ stage = "packing" /\ m_pendingMessages = <<>> /\ delayed = <<>> /\ stage' = "reading"
        /\ datagram' = datagram /\ incoming' = incoming /\ m_server' = m_server /\ m_pos' = m_pos
        /\ packed' = packed /\ items' = items /\ failed' = failed /\ toReturn' = toReturn
        /\ m_pendingMessages' = m_pendingMessages /\ delivered' = delivered /\ due' = due
        /\ nextRemoteId' = nextRemoteId /\ outOfOrder' = outOfOrder /\ delayed' = delayed
        /\ late' = late /\ got' = got
    BY DEF Receive, storeVars, dueVars
  <1>2. incoming
    BY <1>1 DEF PackedInv
  <1>3. DatagramTypeInv' /\ PackedInv' /\ ItemInv'
    BY <1>1 DEF DatagramTypeInv, PackedInv, ItemInv
  <1>4. LayoutInv'
    BY <1>1, Zenon DEF LayoutInv
  <1>5. OrderInv'
    <2>1. Got' = Got /\ StoreInv' = StoreInv
      BY <1>1 DEF Got, StoreInv
    <2>2. Got \o <<>> = Got
      BY GotFacts, NoneAdded
    <2>3. Got = due /\ late = <<>> /\ StoreInv
      BY <1>1, <2>2 DEF OrderInv, Reading
    <2> QED BY <1>1, <1>2, <2>1, <2>3 DEF OrderInv, Reading
  <1> QED BY <1>3, <1>4, <1>5

\* A client datagram, whether padded or not.
LEMMA SentInv ==
    ASSUME DatagramInv, NEW bytes, NEW messages, NEW u \in BOOLEAN,
           Begin(bytes, messages, u, FALSE, "reading"),
           bytes \in Bytes, messages \in Seq(AnyMessage),
           \A i \in 1..(Len(messages) - 1) : Closed(messages[i]),
           \E ends : Laid(messages, bytes, u, ends) /\ ends[0] = 0
    PROVE  DatagramInv'
  <1> USE DEF DatagramInv
  <1>1. /\ stage = "idle" /\ datagram' = bytes /\ packed' = messages /\ m_server' = u /\ incoming' = FALSE
        /\ m_pos' = 0 /\ items' = <<>> /\ failed' = FALSE /\ stage' = "reading"
        /\ UNCHANGED <<toReturn, m_pendingMessages, storeVars, delivered, dueVars>>
    BY DEF Begin
  <1>2. DatagramTypeInv'
    <2>1. <<>> \in Seq(Contents)
      OBVIOUS
    <2> QED BY <1>1, <2>1 DEF DatagramTypeInv, storeVars, dueVars
  <1>3. PackedInv'
    BY <1>1 DEF PackedInv
  <1>4. ItemInv'
    <2>1. Len(<<>>) = 0 /\ Len(messages) \in Nat
      OBVIOUS
    <2> QED BY <1>1, <2>1 DEF ItemInv
  <1>5. LayoutInv'
    <2>1. PICK ends : Laid(messages, bytes, u, ends) /\ ends[0] = 0
      OBVIOUS
    <2>2. Len(<<>>) = 0
      OBVIOUS
    <2>3. Laid(packed', datagram', m_server', ends)
      BY <1>1, <2>1, Zenon
    <2>4. m_pos' = ends[Len(items')]
      BY <1>1, <2>1, <2>2
    <2> QED BY <2>3, <2>4 DEF LayoutInv
  <1>6. OrderInv'
    BY <1>1, OrderKept DEF Reading
  <1> QED BY <1>2, <1>3, <1>4, <1>5, <1>6

LEMMA SendMessageStep ==
    ASSUME Agreed, DatagramInv, SendMessage
    PROVE  DatagramInv'
  <1>1. PICK m \in UpMessages, id \in ConnectionIds :
            LET pad == PaddingFor(UpBytes(m, id))
            IN  IF m.type = "Data" \/ Len(UpBytes(m, id)) >= MinimumUdpPayload
                THEN Begin(UpBytes(m, id), <<m>>, id # 0, FALSE, "reading")
                ELSE Begin(UpBytes(m, id) \o ServerEncode(pad), <<m, pad>>, id # 0, FALSE, "reading")
    BY Zenon DEF SendMessage, UpBytes
  <1> DEFINE bytes == UpBytes(m, id)
             u == id # 0
             pad == PaddingFor(bytes)
  <1>3. m \in AnyMessage /\ Uncompressed(m) /\ id \in Nat
    BY DownAndUp
  <1>4. u \in BOOLEAN
    OBVIOUS
  <1>5. bytes \in Bytes /\ Len(bytes) \in Nat \ {0} /\ PlacedAt(m, bytes, 0, u, Len(bytes))
    BY <1>3, PlacedUp
  <1>6. CASE m.type = "Data" \/ Len(bytes) >= MinimumUdpPayload
    <2>1. Begin(bytes, <<m>>, u, FALSE, "reading")
      BY <1>1, <1>6
    <2> HIDE DEF bytes, u
    <2>2. \E ends : Laid(<<m>>, bytes, u, ends) /\ ends[0] = 0
      BY <1>4, <1>5, LaidFirst
    <2>3. <<m>> \in Seq(AnyMessage) /\ \A i \in 1..(Len(<<m>>) - 1) : Closed(<<m>>[i])
      BY <1>3
    <2> QED BY <1>4, <1>5, <2>1, <2>2, <2>3, SentInv
  <1>7. CASE ~(m.type = "Data" \/ Len(bytes) >= MinimumUdpPayload)
    <2>1. Begin(bytes \o ServerEncode(pad), <<m, pad>>, u, FALSE, "reading")
      BY <1>1, <1>7
    <2>2. pad \in ControlMessages /\ pad.type = "Padding"
      <3>1. MinimumUdpPayload - Len(bytes) - 1 \in Sizes
        BY <1>5, <1>7 DEF MinimumUdpPayload, Sizes
      <3> HIDE DEF bytes
      <3> DEFINE n == MinimumUdpPayload - Len(bytes) - 1
      <3>2. pad = [type |-> "Padding", code |-> 0, size |-> n]
        BY DEF PaddingFor, PaddingOf
      <3>3. "Padding" \in ControlTypes /\ 0 \in Nat /\ n \in Sizes
        BY <3>1 DEF ControlTypes
      <3> HIDE DEF n, pad
      <3> QED BY <3>2, <3>3 DEF ControlMessages
    <2> HIDE DEF bytes, u, pad
    <2>3. pad \in AnyMessage /\ Known(pad)
      <3>1. Known(pad)
        BY <2>2, Zenon DEF Known
      <3> QED BY <2>2, <3>1 DEF AnyMessage
    <2>4. Closed(m)
      <3>1. m.type # "Padding"
        BY <1>3, <1>7, Zenon DEF Uncompressed
      <3> QED BY <1>7, <3>1 DEF Closed
    <2>5. PICK ends : Laid(<<m>>, bytes, u, ends)
      BY <1>4, <1>5, LaidFirst
    <2>6. <<m>> \in Seq(AnyMessage) /\ <<m>> # <<>> /\ \A i \in 1..Len(<<m>>) : Closed(<<m>>[i])
      BY <1>3, <2>4
    <2>7. \E next : Laid(Append(<<m>>, pad), bytes \o ServerEncode(pad), u, next) /\ next[0] = 0
      BY <1>4, <1>5, <2>3, <2>5, <2>6, LaidMore
    <2>8. Append(<<m>>, pad) = <<m, pad>>
      <3>1. /\ Append(<<m>>, pad) \in Seq(AnyMessage) /\ <<m, pad>> \in Seq(AnyMessage)
            /\ Len(Append(<<m>>, pad)) = Len(<<m, pad>>)
            /\ \A i \in 1..Len(<<m, pad>>) : Append(<<m>>, pad)[i] = <<m, pad>>[i]
        BY <1>3, <2>3
      <3> QED BY <3>1, SameSequence, Zenon
    <2>9. <<m, pad>> \in Seq(AnyMessage) /\ \A i \in 1..(Len(<<m, pad>>) - 1) : Closed(<<m, pad>>[i])
      BY <1>3, <2>3, <2>4
    <2>10. bytes \o ServerEncode(pad) \in Bytes
      BY <1>5, <2>3, PlacedDown, ConcatFacts
    <2> QED BY <1>4, <2>1, <2>7, <2>8, <2>9, <2>10, SentInv
  <1> QED BY <1>6, <1>7

\* What is done with an item of a server's datagram: its share is given out, if there is one; a
\* reliable message goes through the store.
LEMMA Handled ==
    ASSUME NEW m \in AnyMessage, NEW item, NEW n, Found(m, item, n), incoming, Known(m), ProcessOne(item)
    PROVE  \/ Share(m) = <<>> /\ Nothing /\ UNCHANGED storeVars /\ (IsFragment(m) \/ ~Reliable(m))
           \/ /\ \E x \in Returned : Share(m) = <<x>> /\ GiveOut(x)
              /\ UNCHANGED storeVars /\ ~Reliable(m)
           \/ Reliable(m) /\ ~IsFragment(m) /\ HandleIncoming(m.rel[1], Content(m))
  <1>1. item.type = m.type /\ Plain(item) = Content(m)
    BY DEF Found
  <1>2. CASE m.type = "Padding"
    BY <1>1, <1>2 DEF ProcessOne, Share, Reliable
  <1>3. CASE m.type = "Data"
    <2>1. item.frag = m.frag /\ item.rel = m.rel
      BY <1>1, <1>3 DEF Plain, Content
    <2>2. (IsFragment(item) <=> IsFragment(m)) /\ (Reliable(item) <=> Reliable(m))
      BY <1>1, <2>1 DEF IsFragment, Reliable
    <2>3. CASE IsFragment(m)
      BY <2>2, <2>3 DEF ProcessOne, Share, IsFragment
    <2>4. CASE ~IsFragment(m) /\ Reliable(m)
      <3>1. HandleIncoming(item.rel[1], Plain(item))
        BY <1>1, <1>3, <2>2, <2>4 DEF ProcessOne
      <3> QED BY <1>1, <2>1, <2>4, <3>1
    <2>5. CASE ~IsFragment(m) /\ ~Reliable(m)
      <3>1. Share(m) = <<Content(m)>>
        BY <1>3, <2>5 DEF Share, IsFragment
      <3>2. GiveOut(Plain(item)) /\ UNCHANGED storeVars
        BY <1>1, <1>3, <2>2, <2>5 DEF ProcessOne
      <3>3. GiveOut(Content(m))
        BY <1>1, <3>2
      <3> QED BY <2>5, <3>1, <3>2, <3>3, ShareFacts
    <2> QED BY <2>3, <2>4, <2>5
  <1>4. CASE m.type # "Padding" /\ m.type # "Data"
    <2> DEFINE message == DecodeWithMeta(item)
    <2>1. m \in ControlMessages /\ item.data = Body(m)
      <3>1. item.data = Body(m)
        BY <1>1, <1>4 DEF Plain, Content
      <3> QED BY <1>4, <3>1, KindOf
    <2>2. message = [ok |-> TRUE, type |-> m.type, code |-> m.code, size |-> m.size]
      BY <1>1, <1>4, <2>1, Understood
    <2>3. /\ ~IsFragment(item) /\ ~Reliable(item) /\ ~Reliable(m)
      BY <1>1, <1>4 DEF IsFragment, Reliable
    <2>4. /\ IF ~message.ok THEN ReadFails
             ELSE GiveOut([type |-> message.type, code |-> message.code, size |-> message.size])
          /\ UNCHANGED storeVars
      BY <1>1, <1>4, <2>3 DEF ProcessOne
    <2> HIDE DEF message
    <2>5. message.ok /\ message.type = m.type /\ message.code = m.code /\ message.size = m.size
      BY <2>2
    <2>6. GiveOut([type |-> m.type, code |-> m.code, size |-> m.size])
      BY <2>4, <2>5
    <2>7. Share(m) = <<[type |-> m.type, code |-> m.code, size |-> m.size]>>
      BY <1>4 DEF Share
    <2>8. [type |-> m.type, code |-> m.code, size |-> m.size] \in Returned
      BY <1>4, ShareFacts
    <2> DEFINE x == [type |-> m.type, code |-> m.code, size |-> m.size]
    <2> HIDE DEF x
    <2> QED BY <2>3, <2>4, <2>6, <2>7, <2>8 DEF x
  <1> QED BY <1>2, <1>3, <1>4

\* The share goes behind what was got before.
LEMMA GivenOut ==
    ASSUME DatagramInv, stage = "reading", incoming, NEW x \in Returned, GiveOut(x), delivered' = delivered
    PROVE  /\ Got' = Got \o <<x>> /\ toReturn' # <<>>
           /\ toReturn' \in Seq(Returned) /\ m_pendingMessages' \in Seq(Returned)
  <1>1. /\ delivered \in Seq(Returned) /\ toReturn \in Seq(Returned) /\ m_pendingMessages \in Seq(Returned)
        /\ toReturn = <<>> => m_pendingMessages = <<>>
    BY DEF DatagramInv, DatagramTypeInv, OrderInv, Reading
  <1>2. <<x>> \in Seq(Returned) /\ <<>> \in Seq(Returned) /\ <<x>> # <<>>
    OBVIOUS
  <1>3. \A s \in Seq(Returned) : <<>> \o s = s /\ s \o <<>> = s
    <2>1. ASSUME NEW s \in Seq(Returned)
          PROVE  <<>> \o s = s /\ s \o <<>> = s
      <3>1. /\ <<>> \o s \in Seq(Returned) /\ Len(<<>> \o s) = Len(s)
            /\ \A i \in 1..Len(s) : (<<>> \o s)[i] = s[i]
        BY <1>2
      <3>2. /\ s \o <<>> \in Seq(Returned) /\ Len(s \o <<>>) = Len(s)
            /\ \A i \in 1..Len(s) : (s \o <<>>)[i] = s[i]
        BY <1>2
      <3> QED BY <3>1, <3>2, SameSequence
    <2> QED BY <2>1
  <1>4. CASE toReturn = <<>>
    <2>1. toReturn' = <<x>> /\ m_pendingMessages' = <<>>
      BY <1>1, <1>4 DEF GiveOut
    <2>2. Got' = delivered \o <<x>> \o <<>>
      BY <2>1 DEF Got
    <2>3. Got = delivered
      BY <1>1, <1>3, <1>4 DEF Got
    <2>4. delivered \o <<x>> \in Seq(Returned)
      BY <1>1, <1>2
    <2> QED BY <1>2, <1>3, <2>1, <2>2, <2>3, <2>4
  <1>5. CASE toReturn # <<>>
    <2>1. toReturn' = toReturn /\ m_pendingMessages' = Append(m_pendingMessages, x)
      BY <1>5 DEF GiveOut
    <2> DEFINE before == delivered \o toReturn
    <2>2. before \in Seq(Returned)
      BY <1>1
    <2>3. Append(m_pendingMessages, x) = m_pendingMessages \o <<x>>
      <3>1. /\ Append(m_pendingMessages, x) \in Seq(Returned)
            /\ m_pendingMessages \o <<x>> \in Seq(Returned)
            /\ Len(Append(m_pendingMessages, x)) = Len(m_pendingMessages \o <<x>>)
            /\ \A i \in 1..Len(m_pendingMessages \o <<x>>) :
                 Append(m_pendingMessages, x)[i] = (m_pendingMessages \o <<x>>)[i]
        BY <1>1, <1>2
      <3> QED BY <3>1, SameSequence
    <2>4. Got' = before \o (m_pendingMessages \o <<x>>)
      BY <2>1, <2>3 DEF Got
    <2>5. Got = before \o m_pendingMessages
      BY DEF Got
    <2> HIDE DEF before
    <2>6. before \o m_pendingMessages \o <<x>> = before \o (m_pendingMessages \o <<x>>)
      BY <1>1, <1>2, <2>2, ConcatAssoc, SMTT(40)
    <2>7. Append(m_pendingMessages, x) \in Seq(Returned)
      BY <1>1
    <2> QED BY <1>1, <1>5, <2>1, <2>4, <2>5, <2>6, <2>7
  <1> QED BY <1>4, <1>5

\* A reliable message whose id is not expected changes nothing: it has come before.
LEMMA Repeated ==
    ASSUME DatagramInv, Reading, NEW m \in AnyMessage, Reliable(m), ~IsFragment(m), m.rel[1] \in 1..(Window - 1),
           IsDuplicate(m.rel[1]), HandleIncoming(m.rel[1], Content(m)), BecomesDue(m),
           delivered' = delivered, incoming' = incoming
    PROVE  /\ UNCHANGED <<failed, stage, toReturn, m_pendingMessages, delayed, due, late>>
           /\ OrderInv'
  <1> DEFINE id == m.rel[1]
             known == DOMAIN got \cup {id}
  <1>1. StoreInv /\ stage # "closed" /\ incoming /\ stage = "reading"
    BY DEF DatagramInv, OrderInv, Reading
  <1>2. Nothing /\ (RestoreFrom(nextRemoteId) \/ UNCHANGED storeVars)
    BY DEF HandleIncoming
  <1>3. nextRemoteId' = nextRemoteId /\ delayed' = delayed /\ outOfOrder' = outOfOrder
    <2>1. CASE UNCHANGED storeVars
      BY <2>1 DEF storeVars
    <2>2. CASE RestoreFrom(nextRemoteId)
      <3>1. nextRemoteId \in 1..Window
        BY <1>1 DEF StoreInv
      <3>2. PICK n \in Nat :
              /\ nextRemoteId + n <= Window /\ nextRemoteId..(nextRemoteId + n - 1) \subseteq DOMAIN outOfOrder
              /\ nextRemoteId + n \notin DOMAIN outOfOrder /\ nextRemoteId' = nextRemoteId + n
              /\ delayed' = delayed \o [i \in 1..n |-> outOfOrder[nextRemoteId + (i - 1)]]
              /\ outOfOrder' = [k \in DOMAIN outOfOrder \ (nextRemoteId..(nextRemoteId + n - 1)) |-> outOfOrder[k]]
        BY <1>1, <2>2, <3>1, Restored, Zenon
      <3>3. n = 0
        <4>1. nextRemoteId \notin DOMAIN outOfOrder
          BY <1>1, StoreFacts
        <4>2. nextRemoteId \in Nat /\ (n > 0 => nextRemoteId \in nextRemoteId..(nextRemoteId + n - 1))
          BY <3>1, <3>2, WindowFacts
        <4> QED BY <3>2, <4>1, <4>2
      <3>4. [i \in 1..n |-> outOfOrder[nextRemoteId + (i - 1)]] = <<>>
        BY <3>3
      <3>5. delayed \in Seq(Returned)
        BY DEF DatagramInv, DatagramTypeInv
      <3>6. delayed' = delayed
        BY <3>2, <3>4, <3>5, NoneAdded
      <3>7. nextRemoteId..(nextRemoteId + n - 1) = {}
        BY <3>1, <3>3
      <3>8. outOfOrder' = [k \in DOMAIN outOfOrder |-> outOfOrder[k]]
        BY <3>2, <3>7
      <3>9. outOfOrder' = outOfOrder
        BY <1>1, <3>8 DEF StoreInv
      <3> QED BY <3>1, <3>2, <3>3, <3>6, <3>9
    <2> QED BY <1>2, <2>1, <2>2
  <1>4. id \in DOMAIN got
    <2>1. id < nextRemoteId
      BY <1>1, StoreFacts
    <2>2. id \in 1..(nextRemoteId - 1)
      BY <1>1, <2>1, WindowFacts DEF StoreInv
    <2> QED BY <1>1, <2>2, StoreFacts
  <1>5. due' = due /\ late' = late /\ got' = [k \in known |-> IF k \in DOMAIN got THEN got[k] ELSE Content(m)]
    BY <1>1, <1>4 DEF BecomesDue
  <1>6. got' = got
    <2>1. known = DOMAIN got
      BY <1>4
    <2>2. got' = [k \in DOMAIN got |-> got[k]]
      BY <1>5, <2>1
    <2> QED BY <1>1, <2>2 DEF StoreInv
  <1>7. StoreInv' = StoreInv
    BY <1>3, <1>6 DEF StoreInv
  <1>8. failed' = failed /\ stage' = stage /\ toReturn' = toReturn /\ m_pendingMessages' = m_pendingMessages
    BY <1>2 DEF Nothing
  <1>9. Got' = Got
    BY <1>8 DEF Got
  <1> QED BY <1>1, <1>3, <1>5, <1>7, <1>8, <1>9 DEF DatagramInv, OrderInv, Reading

\* One that comes too early is stored, and nothing becomes due; or the store is full.
LEMMA Ahead ==
    ASSUME DatagramInv, Reading, NEW m \in AnyMessage, Reliable(m), ~IsFragment(m), m.rel[1] \in 1..(Window - 1),
           ~IsDuplicate(m.rel[1]), m.rel[1] # nextRemoteId, HandleIncoming(m.rel[1], Content(m)), BecomesDue(m),
           delivered' = delivered, incoming' = incoming
    PROVE  /\ UNCHANGED <<failed, m_pendingMessages, delayed, due, late>> /\ toReturn' \in Seq(Returned)
           /\ stage' \in {"reading", "closed"} /\ OrderInv'
  <1> DEFINE id == m.rel[1]
             known == DOMAIN got \cup {id}
  <1>1. StoreInv /\ stage # "closed" /\ incoming /\ stage = "reading" /\ nextRemoteId \in 1..Window
    BY DEF DatagramInv, OrderInv, Reading, StoreInv
  <1>2. StoreOutOfOrder(id, Content(m))
    BY DEF HandleIncoming
  <1>3. id > nextRemoteId
    BY <1>1, StoreFacts
  <1>4. ~(1..(id - 1) \subseteq DOMAIN got)
    BY <1>1, <1>3, StoreFacts
  <1>5. due' = due /\ late' = late /\ got' = [k \in known |-> IF k \in DOMAIN got THEN got[k] ELSE Content(m)]
    BY <1>1, <1>4 DEF BecomesDue
  <1>6. nextRemoteId' = nextRemoteId /\ delayed' = delayed
    BY <1>2 DEF StoreOutOfOrder
  <1>7. /\ delivered \in Seq(Returned) /\ toReturn \in Seq(Returned) /\ <<>> \in Seq(Returned)
        /\ Got = due /\ delayed = late /\ (toReturn = <<>> => m_pendingMessages = <<>>)
    BY DEF DatagramInv, DatagramTypeInv, OrderInv
  <1>8. CASE Cardinality(DOMAIN outOfOrder) >= OooCap
    <2>1. /\ stage' = "closed" /\ toReturn' = <<>> /\ failed' = failed
          /\ m_pendingMessages' = m_pendingMessages
      BY <1>2, <1>8 DEF StoreOutOfOrder
    <2>2. Beginning(delivered, due)
      BY <1>7, GotFacts DEF DatagramInv
    <2>3. Beginning(delivered, due)'
      BY <1>5, <2>2 DEF Beginning
    <2> QED BY <1>5, <1>6, <1>7, <2>1, <2>3 DEF OrderInv, Reading
  <1>9. CASE ~(Cardinality(DOMAIN outOfOrder) >= OooCap)
    <2>1. /\ outOfOrder' = [k \in DOMAIN outOfOrder \cup {id} |->
                              IF k \in DOMAIN outOfOrder THEN outOfOrder[k] ELSE Content(m)]
          /\ Nothing
      BY <1>2, <1>9 DEF StoreOutOfOrder
    <2>2. failed' = failed /\ stage' = stage /\ toReturn' = toReturn /\ m_pendingMessages' = m_pendingMessages
      BY <2>1 DEF Nothing
    <2>3. Got' = Got
      BY <2>2 DEF Got
    <2>4. Content(m) \in Returned
      BY ShareFacts
    <2>5. StoreInv'
      <3>1. id \in DOMAIN got <=> id \in DOMAIN outOfOrder
        BY <1>1, <1>3 DEF StoreInv
      <3>2. /\ DOMAIN got' = DOMAIN got \cup {id} /\ DOMAIN outOfOrder' = DOMAIN outOfOrder \cup {id}
            /\ DOMAIN got \subseteq 1..(Window - 1) /\ DOMAIN got = 1..(nextRemoteId - 1) \cup DOMAIN outOfOrder
        BY <1>1, <1>5, <2>1 DEF StoreInv
      <3>3. got' \in [DOMAIN got' -> Returned] /\ outOfOrder' \in [DOMAIN outOfOrder' -> Returned]
        BY <1>1, <1>5, <2>1, <2>4 DEF StoreInv
      <3>4. ASSUME NEW i \in DOMAIN outOfOrder'
            PROVE  i > nextRemoteId /\ outOfOrder'[i] = got'[i]
        <4>1. CASE i \in DOMAIN outOfOrder
          BY <1>1, <1>5, <2>1, <4>1 DEF StoreInv
        <4>2. CASE i \notin DOMAIN outOfOrder
          BY <1>3, <1>5, <2>1, <3>1, <3>2, <4>2
        <4> QED BY <4>1, <4>2
      <3> QED BY <1>1, <1>6, <3>2, <3>3, <3>4 DEF StoreInv
    <2> QED BY <1>1, <1>5, <1>6, <1>7, <2>2, <2>3, <2>5 DEF OrderInv, Reading
  <1> QED BY <1>8, <1>9

\* The one that is expected is given out, and those stored behind it become due.
LEMMA Expected ==
    ASSUME DatagramInv, Reading, NEW m \in AnyMessage, Reliable(m), ~IsFragment(m), m.rel[1] \in 1..(Window - 1),
           ~IsDuplicate(m.rel[1]), m.rel[1] = nextRemoteId, HandleIncoming(m.rel[1], Content(m)), BecomesDue(m),
           delivered' = delivered, incoming' = incoming
    PROVE  /\ UNCHANGED <<failed, stage>> /\ toReturn' \in Seq(Returned) /\ m_pendingMessages' \in Seq(Returned)
           /\ delayed' \in Seq(Returned) /\ due' \in Seq(Returned) /\ late' \in Seq(Returned)
           /\ OrderInv'
  <1> DEFINE id == m.rel[1]
             known == DOMAIN got \cup {id}
             x == Content(m)
  <1>1. StoreInv /\ stage # "closed" /\ incoming /\ stage = "reading" /\ id \in 1..(Window - 1)
    BY DEF DatagramInv, OrderInv, Reading
  <1>2. x \in Returned
    BY ShareFacts
  <1>3. GiveOut(x) /\ RestoreFrom(IdAfter(id, 1))
    BY DEF HandleIncoming
  <1>4. IdAfter(id, 1) = id + 1 /\ id + 1 \in 1..Window
    <2>1. id \in 1..Window /\ 1 \in Nat /\ id + 1 <= Window
      BY <1>1, WindowFacts
    <2> QED BY <2>1, IdsInARow
  <1>5. DOMAIN got = 1..(id - 1) \cup DOMAIN outOfOrder /\ id \notin DOMAIN got
        /\ \A i \in DOMAIN outOfOrder : i > id /\ i \in 1..(Window - 1) /\ outOfOrder[i] = got[i] /\ i \in DOMAIN got
    BY <1>1, StoreFacts DEF StoreInv
  <1>6. PICK n \in Nat :
          /\ id + 1 + n <= Window /\ (id + 1)..(id + 1 + n - 1) \subseteq DOMAIN outOfOrder
          /\ id + 1 + n \notin DOMAIN outOfOrder /\ nextRemoteId' = id + 1 + n
          /\ delayed' = delayed \o [i \in 1..n |-> outOfOrder[id + 1 + (i - 1)]]
          /\ outOfOrder' = [k \in DOMAIN outOfOrder \ ((id + 1)..(id + 1 + n - 1)) |-> outOfOrder[k]]
    <2>1. RestoreFrom(id + 1)
      BY <1>3, <1>4
    <2> DEFINE next == id + 1
    <2>2. next \in 1..Window
      BY <1>4
    <2> HIDE DEF next
    <2>3. \E n \in Nat :
             /\ next + n <= Window /\ next..(next + n - 1) \subseteq DOMAIN outOfOrder
             /\ next + n \notin DOMAIN outOfOrder /\ nextRemoteId' = next + n
             /\ delayed' = delayed \o [i \in 1..n |-> outOfOrder[next + (i - 1)]]
             /\ outOfOrder' = [k \in DOMAIN outOfOrder \ (next..(next + n - 1)) |-> outOfOrder[k]]
      <3>1. RestoreFrom(next)
        BY <2>1 DEF next
      <3> QED BY <1>1, <2>2, <3>1, Restored, Zenon
    <2> QED BY <2>3 DEF next
  <1>7. got' = [k \in known |-> IF k \in DOMAIN got THEN got[k] ELSE x]
    BY <1>1 DEF BecomesDue
  <1>8. PICK d \in Nat : /\ (id + 1)..(id + d) \subseteq known /\ id + d + 1 \notin known
                         /\ due' = Append(due, x)
                         /\ late' = late \o [i \in 1..d |-> got[id + i]]
    <2>1. 1..(id - 1) \subseteq DOMAIN got /\ id \notin DOMAIN got
      BY <1>5
    <2>2. Cardinality(known) \in Nat
      BY <1>1, StoreFacts
    <2>3. PICK d \in 0..Cardinality(known) :
              /\ (id + 1)..(id + d) \subseteq known /\ id + d + 1 \notin known
              /\ due' = Append(due, x)
              /\ late' = late \o [i \in 1..d |-> got[id + i]]
      BY <1>1, <2>1, Zenon DEF BecomesDue
    <2>4. d \in Nat
      BY <2>2, <2>3
    <2> QED BY <2>3, <2>4
  <1>9. d = n
    <2>1. \A i \in known : i > id => i \in DOMAIN outOfOrder
      BY <1>1, <1>5
    <2>2. DOMAIN outOfOrder \subseteq known
      BY <1>5
    <2>3. CASE n < d
      <3>1. id + 1 + n \in (id + 1)..(id + d) /\ id + 1 + n > id
        BY <1>1, <2>3
      <3> QED BY <1>6, <1>8, <2>1, <3>1
    <2>4. CASE d < n
      <3>1. id + d + 1 \in (id + 1)..(id + 1 + n - 1)
        BY <1>1, <2>4
      <3> QED BY <1>6, <1>8, <2>2, <3>1
    <2> QED BY <2>3, <2>4
  <1> DEFINE moved == [i \in 1..n |-> outOfOrder[id + 1 + (i - 1)]]
  <1>10. \A i \in 1..n : id + i \in DOMAIN outOfOrder /\ id + 1 + (i - 1) = id + i
    <2>1. ASSUME NEW i \in 1..n
          PROVE  id + i \in (id + 1)..(id + 1 + n - 1) /\ id + 1 + (i - 1) = id + i
      BY <1>1
    <2> QED BY <1>6, <2>1
  <1>11. moved = [i \in 1..d |-> got[id + i]]
    <2>1. \A i \in 1..n : outOfOrder[id + 1 + (i - 1)] = got[id + i]
      BY <1>5, <1>10
    <2> QED BY <1>9, <2>1
  <1>12. moved \in Seq(Returned)
    <2>1. \A i \in 1..n : outOfOrder[id + 1 + (i - 1)] \in Returned
      <3>1. \A k \in DOMAIN outOfOrder : outOfOrder[k] \in Returned
        BY <1>1 DEF StoreInv
      <3> QED BY <1>10, <3>1
    <2> QED BY <2>1
  <1>13. /\ delayed \in Seq(Returned) /\ due \in Seq(Returned) /\ late \in Seq(Returned)
         /\ Got = due /\ delayed = late
    BY DEF DatagramInv, DatagramTypeInv, OrderInv
  <1>14. delayed' = delayed \o moved /\ late' = delayed'
    BY <1>6, <1>8, <1>11, <1>13
  <1> HIDE DEF moved
  <1>15. delayed' \in Seq(Returned) /\ late' \in Seq(Returned)
    BY <1>12, <1>13, <1>14
  <1>16. /\ Got' = Got \o <<x>> /\ toReturn' # <<>>
         /\ toReturn' \in Seq(Returned) /\ m_pendingMessages' \in Seq(Returned)
    BY <1>1, <1>2, <1>3, GivenOut
  <1>17. due' \in Seq(Returned) /\ Got' = due'
    <2> HIDE DEF x
    <2>1. Append(due, x) \in Seq(Returned) /\ due \o <<x>> \in Seq(Returned)
          /\ Len(Append(due, x)) = Len(due \o <<x>>)
          /\ \A i \in 1..Len(due \o <<x>>) : Append(due, x)[i] = (due \o <<x>>)[i]
      BY <1>2, <1>13
    <2>2. Append(due, x) = due \o <<x>>
      BY <2>1, SameSequence
    <2> QED BY <1>8, <1>13, <1>16, <2>1, <2>2
  <1>18. failed' = failed /\ stage' = stage
    BY <1>3 DEF GiveOut
  <1>19. StoreInv'
    <2> HIDE DEF x
    <2>1. /\ DOMAIN got' = known
          /\ DOMAIN outOfOrder' = DOMAIN outOfOrder \ ((id + 1)..(id + 1 + n - 1))
      BY <1>6, <1>7
    <2>2. got' \in [DOMAIN got' -> Returned]
      BY <1>1, <1>2, <1>7 DEF StoreInv
    <2>3. outOfOrder' \in [DOMAIN outOfOrder' -> Returned]
      BY <1>1, <1>6 DEF StoreInv
    <2>4. nextRemoteId' \in 1..Window /\ DOMAIN got' \subseteq 1..(Window - 1)
      BY <1>1, <1>6, <2>1 DEF StoreInv
    <2>5. DOMAIN got' = 1..(nextRemoteId' - 1) \cup DOMAIN outOfOrder'
      <3>1. 1..(nextRemoteId' - 1) = 1..(id - 1) \cup {id} \cup ((id + 1)..(id + 1 + n - 1))
        <4>1. id \in Nat /\ id > 0 /\ nextRemoteId' - 1 = id + n
          BY <1>1, <1>6, WindowFacts
        <4> QED BY <1>6, <4>1
      <3> QED BY <1>5, <1>6, <2>1, <3>1
    <2>6. ASSUME NEW i \in DOMAIN outOfOrder'
          PROVE  i > nextRemoteId' /\ outOfOrder'[i] = got'[i]
      <3>1. i \in DOMAIN outOfOrder /\ i \notin (id + 1)..(id + 1 + n - 1) /\ i # id + 1 + n
        BY <1>6, <2>1
      <3>2. i > id /\ i \in 1..(Window - 1) /\ outOfOrder[i] = got[i] /\ i \in DOMAIN got
        BY <1>5, <3>1
      <3>3. i > id + 1 + n
        BY <1>1, <3>1, <3>2
      <3>4. outOfOrder'[i] = outOfOrder[i]
        BY <1>6, <2>1
      <3>5. got'[i] = got[i]
        BY <1>7, <3>2
      <3> QED BY <1>6, <3>2, <3>3, <3>4, <3>5
    <2> QED BY <2>2, <2>3, <2>4, <2>5, <2>6 DEF StoreInv
  <1>20. OrderInv'
    BY <1>1, <1>14, <1>16, <1>17, <1>18, <1>19 DEF OrderInv, Reading
  <1> QED BY <1>15, <1>16, <1>17, <1>18, <1>20

\* What becomes due with a message is given out with it.
LEMMA Dealt ==
    ASSUME DatagramInv, Reading, NEW m \in AnyMessage, Known(m), Numbered(m),
           NEW item, NEW n, Found(m, item, n), ProcessOne(item), BecomesDue(m),
           delivered' = delivered, incoming' = incoming
    PROVE  /\ failed' = failed /\ stage' \in {"reading", "closed"}
           /\ toReturn' \in Seq(Returned) /\ m_pendingMessages' \in Seq(Returned)
           /\ delayed' \in Seq(Returned) /\ due' \in Seq(Returned) /\ late' \in Seq(Returned)
           /\ OrderInv'
  <1>1. /\ incoming /\ stage = "reading" /\ StoreInv /\ Got = due /\ delayed = late
        /\ toReturn \in Seq(Returned) /\ m_pendingMessages \in Seq(Returned) /\ delayed \in Seq(Returned)
        /\ due \in Seq(Returned) /\ late \in Seq(Returned)
    BY DEF DatagramInv, DatagramTypeInv, OrderInv, Reading
  <1>2. ASSUME IsFragment(m) \/ ~Reliable(m), UNCHANGED storeVars
        PROVE  /\ due' = due \o Share(m) /\ late' = late /\ delayed' = delayed
               /\ StoreInv'
    <2>1. due' = due \o Share(m) /\ late' = late /\ got' = got
      BY <1>1, <1>2 DEF BecomesDue
    <2> QED BY <1>1, <1>2, <2>1 DEF storeVars, StoreInv
  <1>3. CASE Share(m) = <<>> /\ Nothing /\ UNCHANGED storeVars /\ (IsFragment(m) \/ ~Reliable(m))
    <2>1. due' = due /\ late' = late /\ delayed' = delayed /\ StoreInv'
      BY <1>1, <1>2, <1>3, NoneAdded
    <2>2. failed' = failed /\ stage' = stage /\ toReturn' = toReturn /\ m_pendingMessages' = m_pendingMessages
      BY <1>3 DEF Nothing
    <2>3. Got' = Got
      BY <2>2 DEF Got
    <2>4. OrderInv'
      BY <1>1, <2>1, <2>2, <2>3 DEF DatagramInv, OrderInv, Reading
    <2> QED BY <1>1, <2>1, <2>2, <2>4
  <1>4. CASE (\E x \in Returned : Share(m) = <<x>> /\ GiveOut(x)) /\ UNCHANGED storeVars /\ ~Reliable(m)
    <2>1. PICK x \in Returned : Share(m) = <<x>> /\ GiveOut(x)
      BY <1>4
    <2>2. due' = due \o <<x>> /\ late' = late /\ delayed' = delayed /\ StoreInv'
      BY <1>2, <1>4, <2>1
    <2>3. /\ Got' = Got \o <<x>> /\ toReturn' # <<>>
          /\ toReturn' \in Seq(Returned) /\ m_pendingMessages' \in Seq(Returned)
      BY <1>1, <2>1, GivenOut
    <2>4. failed' = failed /\ stage' = stage
      BY <2>1 DEF GiveOut
    <2>5. due' \in Seq(Returned)
      BY <1>1, <2>2
    <2>6. OrderInv'
      BY <1>1, <2>2, <2>3, <2>4 DEF OrderInv, Reading
    <2> QED BY <1>1, <2>2, <2>3, <2>4, <2>5, <2>6
  <1>5. CASE Reliable(m) /\ ~IsFragment(m) /\ HandleIncoming(m.rel[1], Content(m))
    <2>1. m.rel[1] \in 1..(Window - 1)
      <3>1. m.rel \in Seq(Nat)
        BY <1>5, KindOf DEF Reliable, DataMessages
      <3>2. m.rel[1] \in Nat
        BY <1>5, <3>1 DEF Reliable
      <3>3. m.rel[1] # 0 /\ m.rel[1] < Window
        BY <1>5 DEF Reliable, Numbered
      <3> QED BY <3>2, <3>3, WindowFacts
    <2>2. CASE IsDuplicate(m.rel[1])
      BY <1>1, <1>5, <2>1, <2>2, Repeated
    <2>3. CASE ~IsDuplicate(m.rel[1]) /\ m.rel[1] # nextRemoteId
      BY <1>1, <1>5, <2>1, <2>3, Ahead
    <2>4. CASE ~IsDuplicate(m.rel[1]) /\ m.rel[1] = nextRemoteId
      BY <1>1, <1>5, <2>1, <2>4, Expected
    <2> QED BY <2>2, <2>3, <2>4
  <1> QED BY <1>1, <1>3, <1>4, <1>5, Handled

LEMMA NextItemStep ==
    ASSUME DatagramInv, NextItem
    PROVE  DatagramInv'
  <1> DEFINE k == Len(items) + 1
             item == DecodeMeta(SubSeq(datagram, m_pos + 1, Len(datagram)), m_pos = 0 /\ m_server)
             m == packed[k]
  <1>1. /\ stage = "reading" /\ m_pos < Len(datagram) /\ datagram' = datagram /\ incoming' = incoming
        /\ m_server' = m_server /\ packed' = packed /\ delivered' = delivered
        /\ IF ~item.ok
           THEN ReadFails /\ UNCHANGED <<m_pos, items, storeVars, dueVars>>
           ELSE /\ m_pos' = m_pos + item.dataOffset + Len(item.data)
                /\ items' = Append(items, Plain(item))
                /\ ProcessOne(item)
                /\ IF Len(items) < Len(packed) THEN BecomesDue(m) ELSE UNCHANGED dueVars
    BY DEF NextItem
  <1>2. PICK ends : Laid(packed, datagram, m_server, ends) /\ m_pos = ends[Len(items)]
    BY DEF DatagramInv, LayoutInv
  <1>3. /\ datagram \in Bytes /\ packed \in Seq(AnyMessage) /\ items \in Seq(Contents)
        /\ Len(datagram) \in Nat /\ Len(packed) \in Nat /\ Len(items) \in Nat /\ Len(items) <= Len(packed)
        /\ incoming \in BOOLEAN
    BY DEF DatagramInv, DatagramTypeInv, ItemInv, Bytes
  <1>4. k \in 1..Len(packed) /\ m \in AnyMessage /\ k - 1 = Len(items) /\ Len(items) \in 0..Len(packed)
        /\ Len(items) < Len(packed)
    <2>1. Len(items) # Len(packed)
      BY <1>1, <1>2, <1>3 DEF Laid
    <2> QED BY <1>3, <2>1
  <1>5. /\ ends[k - 1] \in Nat /\ ends[k] \in Nat
        /\ PlacedAt(m, datagram, ends[k - 1], ends[k - 1] = 0 /\ m_server, ends[k] - ends[k - 1])
    <2>1. ends \in [0..Len(packed) -> 0..Len(datagram)] /\ k \in 0..Len(packed)
      BY <1>2, <1>3, <1>4 DEF Laid
    <2> QED BY <1>2, <1>3, <1>4, <2>1 DEF Laid
  <1>6. Found(m, item, ends[k] - ends[k - 1])
    <2>1. item = DecodeMeta(Rest(datagram, ends[k - 1]), ends[k - 1] = 0 /\ m_server)
      BY <1>2, <1>4 DEF Rest
    <2> HIDE DEF item, m, k
    <2> QED BY <1>3, <1>5, <2>1, PlacedNow
  <1> HIDE DEF item
  <1>7. m_pos' = ends[k] /\ items' = Append(items, Content(m)) /\ ProcessOne(item) /\ BecomesDue(m)
    <2>1. /\ item.ok /\ Plain(item) = Content(m) /\ item.dataOffset \in Nat /\ Len(item.data) \in Nat
          /\ item.dataOffset + Len(item.data) = ends[k] - ends[k - 1]
      BY <1>6 DEF Found
    <2>2. m_pos' = ends[k - 1] + item.dataOffset + Len(item.data)
      BY <1>1, <1>2, <1>4, <2>1
    <2>3. m_pos' = ends[k]
      <3> DEFINE a == ends[k - 1]
                 b == ends[k]
                 c == item.dataOffset
                 d == Len(item.data)
      <3>1. a \in Nat /\ b \in Nat /\ c \in Nat /\ d \in Nat /\ c + d = b - a /\ m_pos' = a + c + d
        BY <1>5, <2>1, <2>2
      <3> HIDE DEF a, b, c, d
      <3>2. m_pos' = b
        BY <3>1
      <3> QED BY <3>2 DEF b
    <2> QED BY <1>1, <1>4, <2>1, <2>3
  <1>8. incoming => Known(m) /\ Numbered(m)
    BY <1>4 DEF DatagramInv, PackedInv
  <1>9. Content(m) \in Contents
    BY <1>4, ShareFacts
  <1>10. /\ Len(items') = k /\ items'[k] = Content(m) /\ items' \in Seq(Contents)
         /\ \A i \in 1..Len(items) : items'[i] = items[i]
    <2> HIDE DEF m
    <2> QED BY <1>3, <1>7, <1>9
  <1> HIDE DEF m, k
  <1>11. /\ failed' = failed /\ stage' \in {"reading", "closed"}
         /\ toReturn' \in Seq(Returned) /\ m_pendingMessages' \in Seq(Returned)
         /\ delayed' \in Seq(Returned) /\ due' \in Seq(Returned) /\ late' \in Seq(Returned)
         /\ OrderInv'
    <2>1. CASE ~incoming
      <3>1. Nothing /\ UNCHANGED storeVars
        BY <1>7, <2>1 DEF ProcessOne
      <3>2. due' = due /\ late' = late /\ got' = got
        BY <1>7, <2>1 DEF BecomesDue
      <3>3. /\ failed' = failed /\ stage' = stage
            /\ UNCHANGED <<toReturn, m_pendingMessages, storeVars, delivered, dueVars>>
        BY <1>1, <3>1, <3>2 DEF Nothing, dueVars
      <3>4. OrderInv'
        BY <1>1, <2>1, <3>3, OrderKept DEF DatagramInv, Reading
      <3>5. delayed' = delayed
        BY <3>1 DEF storeVars
      <3> QED BY <1>1, <3>2, <3>3, <3>4, <3>5 DEF DatagramInv, DatagramTypeInv
    <2>2. CASE incoming
      BY <1>1, <1>4, <1>6, <1>7, <1>8, <2>2, Dealt DEF Reading
    <2> QED BY <2>1, <2>2
  <1>12. DatagramTypeInv'
    BY <1>1, <1>10, <1>11 DEF DatagramInv, DatagramTypeInv
  <1>13. PackedInv'
    BY <1>1, <1>11 DEF DatagramInv, PackedInv
  <1>14. ItemInv'
    <2>1. \A i \in 1..Len(items') : items'[i] = Content(packed'[i])
      <3>1. ASSUME NEW i \in 1..k
            PROVE  i \in 1..Len(items) \/ i = k
        BY <1>3, <1>4
      <3> QED BY <1>1, <1>10, <3>1 DEF DatagramInv, ItemInv, m
    <2>2. Len(items') <= Len(packed')
      BY <1>1, <1>3, <1>4, <1>10
    <2> QED BY <1>1, <1>11, <2>1, <2>2 DEF DatagramInv, ItemInv
  <1>15. LayoutInv'
    <2>1. Laid(packed', datagram', m_server', ends)
      BY <1>1, <1>2
    <2>2. m_pos' = ends[Len(items')]
      BY <1>7, <1>10
    <2> QED BY <2>1, <2>2 DEF LayoutInv
  <1> QED BY <1>11, <1>12, <1>13, <1>14, <1>15 DEF DatagramInv

LEMMA EndOfDatagramStep ==
    ASSUME DatagramInv, EndOfDatagram
    PROVE  DatagramInv'
  <1> USE DEF DatagramInv
  <1>1. /\ stage = "reading" /\ m_pos >= Len(datagram) /\ stage' = "idle" /\ toReturn' = <<>>
        /\ delivered' = delivered \o toReturn /\ datagram' = datagram /\ incoming' = incoming
        /\ m_server' = m_server /\ m_pos' = m_pos /\ packed' = packed /\ items' = items
        /\ failed' = failed /\ m_pendingMessages' = m_pendingMessages
        /\ nextRemoteId' = nextRemoteId /\ outOfOrder' = outOfOrder /\ delayed' = delayed
        /\ due' = due \o late /\ late' = <<>> /\ got' = got
    BY DEF EndOfDatagram, storeVars
  <1>2. PICK ends : Laid(packed, datagram, m_server, ends) /\ m_pos = ends[Len(items)]
    BY DEF LayoutInv
  <1>3. Len(items) = Len(packed)
    <2> SUFFICES ASSUME Len(items) # Len(packed)
                 PROVE  FALSE
      OBVIOUS
    <2> DEFINE k == Len(items) + 1
    <2>1. Len(items) \in Nat /\ Len(packed) \in Nat /\ Len(datagram) \in Nat /\ Len(items) <= Len(packed)
      BY DEF DatagramTypeInv, ItemInv, Bytes
    <2>2. k \in 1..Len(packed) /\ k \in 0..Len(packed) /\ k - 1 = Len(items)
      BY <2>1
    <2> HIDE DEF k
    <2>3. ends[k - 1] < ends[k] /\ ends[k] \in 0..Len(datagram) /\ ends[k - 1] \in 0..Len(datagram)
      <3>1. k - 1 \in 0..Len(packed)
        BY <2>1, <2>2
      <3> QED BY <1>2, <2>2, <3>1 DEF Laid
    <2>4. m_pos = ends[k - 1]
      BY <1>2, <2>2
    <2> QED BY <1>1, <2>1, <2>3, <2>4
  <1>4. /\ delivered \in Seq(Returned) /\ toReturn \in Seq(Returned) /\ m_pendingMessages \in Seq(Returned)
        /\ due \in Seq(Returned) /\ late \in Seq(Returned) /\ delayed \in Seq(Returned)
    BY DEF DatagramTypeInv
  <1>5. delivered \o toReturn \in Seq(Returned) /\ <<>> \in Seq(Returned) /\ due \o late \in Seq(Returned)
    BY <1>4
  <1>6. Got' = Got
    <2>1. Got' = delivered \o toReturn \o <<>> \o m_pendingMessages
      BY <1>1 DEF Got
    <2> DEFINE both == delivered \o toReturn
    <2>2. both \o <<>> = both
      BY <1>5, NoneAdded
    <2> QED BY <2>1, <2>2 DEF Got
  <1>7. DatagramTypeInv'
    BY <1>1, <1>4, <1>5 DEF DatagramTypeInv
  <1>8. PackedInv' /\ ItemInv'
    BY <1>1, <1>3 DEF PackedInv, ItemInv
  <1>9. LayoutInv'
    BY <1>1, <1>2 DEF LayoutInv
  <1>10. OrderInv'
    <2>1. Got' \o delayed' = due'
      <3>1. CASE incoming
        BY <1>1, <1>6, <3>1 DEF OrderInv, Reading
      <3>2. CASE ~incoming
        <4>1. Got \o delayed = due /\ late = <<>>
          BY <1>1, <3>2 DEF OrderInv, Reading
        <4>2. due \o <<>> = due
          BY <1>4, NoneAdded
        <4> QED BY <1>1, <1>6, <4>1, <4>2
      <3> QED BY <3>1, <3>2
    <2>2. StoreInv' = StoreInv
      BY <1>1 DEF StoreInv
    <2> QED BY <1>1, <2>1, <2>2 DEF OrderInv, Reading
  <1> QED BY <1>7, <1>8, <1>9, <1>10

LEMMA PopPendingStep ==
    ASSUME DatagramInv, PopPending
    PROVE  DatagramInv'
  <1> USE DEF DatagramInv
  <1>1. /\ stage # "reading" /\ stage # "closed" /\ m_pendingMessages # <<>>
        /\ delivered' = Append(delivered, Head(m_pendingMessages))
        /\ m_pendingMessages' = Tail(m_pendingMessages)
        /\ datagram' = datagram /\ incoming' = incoming /\ m_server' = m_server /\ m_pos' = m_pos
        /\ packed' = packed /\ items' = items /\ failed' = failed /\ stage' = stage
        /\ toReturn' = toReturn /\ nextRemoteId' = nextRemoteId /\ outOfOrder' = outOfOrder
        /\ delayed' = delayed /\ due' = due /\ late' = late /\ got' = got
    BY DEF PopPending, Called, storeVars, dueVars
  <1>2. /\ delivered \in Seq(Returned) /\ toReturn = <<>> /\ m_pendingMessages \in Seq(Returned)
    BY <1>1 DEF DatagramTypeInv, OrderInv, Reading
  <1>3. /\ delivered' \in Seq(Returned) /\ m_pendingMessages' \in Seq(Returned)
        /\ delivered' \o m_pendingMessages' = delivered \o m_pendingMessages
    BY <1>1, <1>2, OneMoved
  <1>4. Got' = Got
    <2>1. delivered \o <<>> = delivered /\ delivered' \o <<>> = delivered'
      BY <1>2, <1>3, NoneAdded
    <2>2. Got = delivered \o <<>> \o m_pendingMessages /\ Got' = delivered' \o <<>> \o m_pendingMessages'
      BY <1>1, <1>2 DEF Got
    <2> QED BY <1>3, <2>1, <2>2
  <1>5. DatagramTypeInv'
    BY <1>1, <1>3 DEF DatagramTypeInv
  <1>6. PackedInv' /\ ItemInv'
    BY <1>1 DEF PackedInv, ItemInv
  <1>7. LayoutInv'
    BY <1>1, Zenon DEF LayoutInv
  <1>8. OrderInv'
    <2>1. StoreInv' = StoreInv
      BY <1>1 DEF StoreInv
    <2> QED BY <1>1, <1>4, <2>1 DEF OrderInv, Reading
  <1> QED BY <1>5, <1>6, <1>7, <1>8

LEMMA PopDelayedStep ==
    ASSUME DatagramInv, PopDelayed
    PROVE  DatagramInv'
  <1> USE DEF DatagramInv
  <1>1. /\ stage # "reading" /\ stage # "closed" /\ m_pendingMessages = <<>> /\ delayed # <<>>
        /\ delivered' = Append(delivered, Head(delayed)) /\ delayed' = Tail(delayed)
        /\ m_pendingMessages' = m_pendingMessages
        /\ datagram' = datagram /\ incoming' = incoming /\ m_server' = m_server /\ m_pos' = m_pos
        /\ packed' = packed /\ items' = items /\ failed' = failed /\ stage' = stage
        /\ toReturn' = toReturn /\ nextRemoteId' = nextRemoteId /\ outOfOrder' = outOfOrder
        /\ due' = due /\ late' = late /\ got' = got
    BY DEF PopDelayed, Called, dueVars
  <1>2. /\ delivered \in Seq(Returned) /\ toReturn = <<>> /\ delayed \in Seq(Returned)
        /\ Got \o delayed = due /\ late = <<>> /\ StoreInv
    BY <1>1 DEF DatagramTypeInv, OrderInv, Reading
  <1>3. /\ delivered' \in Seq(Returned) /\ delayed' \in Seq(Returned)
        /\ delivered' \o delayed' = delivered \o delayed
    <2>1. /\ Append(delivered, Head(delayed)) \in Seq(Returned) /\ Tail(delayed) \in Seq(Returned)
          /\ Append(delivered, Head(delayed)) \o Tail(delayed) = delivered \o delayed
      BY <1>1, <1>2, OneMoved
    <2> QED BY <1>1, <2>1
  <1>4. Got = delivered /\ Got' = delivered'
    <2>1. delivered \o <<>> = delivered /\ delivered' \o <<>> = delivered'
      BY <1>2, <1>3, NoneAdded
    <2>2. Got = delivered \o <<>> \o <<>> /\ Got' = delivered' \o <<>> \o <<>>
      BY <1>1, <1>2 DEF Got
    <2> QED BY <2>1, <2>2
  <1>5. DatagramTypeInv'
    BY <1>1, <1>3 DEF DatagramTypeInv
  <1>6. PackedInv' /\ ItemInv'
    BY <1>1 DEF PackedInv, ItemInv
  <1>7. LayoutInv'
    BY <1>1, Zenon DEF LayoutInv
  <1>8. OrderInv'
    <2>1. StoreInv' = StoreInv
      BY <1>1 DEF StoreInv
    <2>2. Got' \o delayed' = due'
      BY <1>1, <1>2, <1>3, <1>4
    <2> QED BY <1>1, <1>2, <2>1, <2>2 DEF OrderInv, Reading
  <1> QED BY <1>5, <1>6, <1>7, <1>8

LEMMA DatagramStutter ==
    ASSUME DatagramInv, UNCHANGED datagramVars
    PROVE  DatagramInv'
  <1>1. /\ datagram' = datagram /\ incoming' = incoming /\ m_server' = m_server /\ m_pos' = m_pos
        /\ packed' = packed /\ items' = items /\ failed' = failed /\ stage' = stage
        /\ toReturn' = toReturn /\ m_pendingMessages' = m_pendingMessages /\ delivered' = delivered
        /\ nextRemoteId' = nextRemoteId /\ outOfOrder' = outOfOrder /\ delayed' = delayed
        /\ due' = due /\ late' = late /\ got' = got
    BY DEF datagramVars, storeVars, dueVars
  <1>2. Got' = Got /\ StoreInv' = StoreInv /\ Reading' = Reading /\ Beginning(delivered, due)' = Beginning(delivered, due)
    BY <1>1 DEF Got, StoreInv, Reading, Beginning
  <1>3. DatagramTypeInv' /\ PackedInv' /\ ItemInv'
    BY <1>1 DEF DatagramInv, DatagramTypeInv, PackedInv, ItemInv
  <1>4. LayoutInv'
    BY <1>1, Zenon DEF DatagramInv, LayoutInv
  <1>5. OrderInv'
    BY <1>1, <1>2 DEF DatagramInv, OrderInv
  <1> QED BY <1>3, <1>4, <1>5 DEF DatagramInv

\* Whatever is put into datagrams, one message or many, the invariant holds of every state.
LEMMA DatagramAlways ==
    ASSUME Agreed
    PROVE  DatagramSpec => []DatagramInv
  <1>1. DatagramInit => DatagramInv
    BY DatagramInitInv
  <1>2. DatagramInv /\ [DatagramNext]_datagramVars => DatagramInv'
    BY PackFirstStep, PackAnotherStep, ReceiveStep, SendMessageStep, NextItemStep, EndOfDatagramStep,
       PopPendingStep, PopDelayedStep, DatagramStutter, Zenon DEF DatagramNext
  <1> QED BY <1>1, <1>2, PTL DEF DatagramSpec

\* The iterator finds in a datagram exactly the messages that were put into it, as long as the
\* client knows those of the server and sends none that is compressed (QunetUdpMessageIter::next,
\* decodeMeta and the decoders and encoders of messages.hpp): of any number, of any length, with
\* any headers.
THEOREM ItemsFound ==
    ASSUME Agreed
    PROVE  DatagramSpec => []ItemsIntact
  <1>1. DatagramInv => ItemsIntact
    <2> SUFFICES ASSUME DatagramInv
                 PROVE  ItemsIntact
      OBVIOUS
    <2> DEFINE contents == [i \in DOMAIN packed |-> Content(packed[i])]
    <2>1. /\ packed \in Seq(AnyMessage) /\ items \in Seq(Contents) /\ Len(packed) \in Nat
          /\ Len(items) \in Nat /\ ~failed /\ Len(items) <= Len(packed)
          /\ \A i \in 1..Len(items) : items[i] = Content(packed[i])
          /\ stage = "idle" => Len(items) = Len(packed)
      BY DEF DatagramInv, DatagramTypeInv, ItemInv
    <2>2. contents \in Seq(Contents) /\ Len(contents) = Len(packed)
          /\ \A i \in 1..Len(packed) : contents[i] = Content(packed[i])
      <3>1. DOMAIN packed = 1..Len(packed)
        BY <2>1
      <3>2. \A i \in 1..Len(packed) : Content(packed[i]) \in Contents
        BY <2>1 DEF Contents
      <3> QED BY <2>1, <3>1, <3>2
    <2> HIDE DEF contents
    <2>3. SubSeq(items, 1, Len(items)) = SubSeq(contents, 1, Len(items))
      <3>1. /\ SubSeq(items, 1, Len(items)) \in Seq(Contents) /\ Len(SubSeq(items, 1, Len(items))) = Len(items)
            /\ \A i \in 1..Len(items) : SubSeq(items, 1, Len(items))[i] = items[i]
        BY <2>1
      <3>2. /\ SubSeq(contents, 1, Len(items)) \in Seq(Contents)
            /\ Len(SubSeq(contents, 1, Len(items))) = Len(items)
            /\ \A i \in 1..Len(items) : SubSeq(contents, 1, Len(items))[i] = contents[i]
        BY <2>1, <2>2
      <3>3. \A i \in 1..Len(items) : items[i] = contents[i]
        BY <2>1, <2>2
      <3> QED BY <3>1, <3>2, <3>3, SameSequence
    <2> QED BY <2>1, <2>2, <2>3 DEF ItemsIntact, IsPrefix, contents
  <1> QED BY <1>1, DatagramAlways, PTL

\* The application gets the messages of every datagram in the order in which its server put them
\* in, though receiveMessageInner returns the first and queues the others, and gets them all; a
\* reliable one once, when all before it have come (handleIncoming), and those the store has held
\* back behind the datagram that fills the gap: for all messages with ids below 16384, whatever
\* the order in which they come and however often.
THEOREM MessagesInOrder ==
    ASSUME Agreed
    PROVE  DatagramSpec => []DeliveredInOrder
  <1>1. DatagramInv => DeliveredInOrder
    <2> SUFFICES ASSUME DatagramInv
                 PROVE  DeliveredInOrder
      OBVIOUS
    <2>1. /\ delivered \in Seq(Returned) /\ due \in Seq(Returned) /\ delayed \in Seq(Returned)
          /\ Got \in Seq(Returned) /\ Beginning(delivered, Got)
          /\ Len(due) \in Nat /\ Len(delivered) \in Nat /\ Len(delayed) \in Nat /\ Len(Got) \in Nat
      BY GotFacts DEF DatagramInv, DatagramTypeInv
    <2>2. Beginning(delivered, due)
      <3>1. CASE Reading
        BY <2>1, <3>1 DEF DatagramInv, OrderInv
      <3>2. CASE stage = "closed"
        BY <3>2 DEF DatagramInv, OrderInv
      <3>3. CASE ~Reading /\ stage # "closed"
        <4>1. Got \o delayed = due
          BY <3>3 DEF DatagramInv, OrderInv
        <4>2. /\ Len(Got \o delayed) = Len(Got) + Len(delayed)
              /\ \A i \in 1..Len(Got) : (Got \o delayed)[i] = Got[i]
          BY <2>1
        <4> QED BY <2>1, <4>1, <4>2 DEF Beginning
      <3> QED BY <3>1, <3>2, <3>3
    <2>3. Len(delivered) <= Len(due) /\ \A i \in 1..Len(delivered) : due[i] = delivered[i]
      BY <2>2 DEF Beginning
    <2>4. SubSeq(delivered, 1, Len(delivered)) = SubSeq(due, 1, Len(delivered))
      <3>1. /\ SubSeq(delivered, 1, Len(delivered)) \in Seq(Returned)
            /\ Len(SubSeq(delivered, 1, Len(delivered))) = Len(delivered)
            /\ \A i \in 1..Len(delivered) : SubSeq(delivered, 1, Len(delivered))[i] = delivered[i]
        BY <2>1
      <3>2. /\ SubSeq(due, 1, Len(delivered)) \in Seq(Returned)
            /\ Len(SubSeq(due, 1, Len(delivered))) = Len(delivered)
            /\ \A i \in 1..Len(delivered) : SubSeq(due, 1, Len(delivered))[i] = due[i]
        BY <2>1, <2>3
      <3> QED BY <2>3, <3>1, <3>2, SameSequence
    <2>5. ASSUME stage = "idle", m_pendingMessages = <<>>, delayed = <<>>
          PROVE  delivered = due
      <3>1. Got \o <<>> = due /\ toReturn = <<>>
        BY <2>5 DEF DatagramInv, OrderInv, Reading
      <3>2. Got = delivered \o <<>> \o <<>> /\ delivered \o <<>> = delivered
        BY <2>1, <2>5, <3>1, NoneAdded DEF Got
      <3> QED BY <2>1, <3>1, <3>2
    <2> QED BY <2>3, <2>4, <2>5 DEF DeliveredInOrder, IsPrefix
  <1> QED BY <1>1, DatagramAlways, PTL

================================================================================
