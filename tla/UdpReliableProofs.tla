--------------------------- MODULE UdpReliableProofs ---------------------------
(***************************************************************************)
(* Safety of the reliable UDP transport, proved for every value of its     *)
(* limits and any number of messages that the ids can tell apart.          *)
(*                                                                         *)
(* Two hypotheses are needed, and each is needed by the code: the ids do   *)
(* not wrap around within the duplicate window (NoWrap), and a datagram    *)
(* carries at most one reliable message, among any number of others        *)
(* (MaxReliable = 1).  UdpReliable_wraparound.cfg and                      *)
(* UdpReliable_batched_order.cfg show what is left without them.           *)
(***************************************************************************)
EXTENDS UdpReliable, FiniteSetTheorems, TLAPS

\* No end sends more messages than the ids and the duplicate window distinguish.
NoWrap ==
    \A p \in Peer : MaxSends[p] < IdModulus - 1 /\ MaxSends[p] < DupWindow

--------------------------------------------------------------------------------
(* The inductive invariant *)

\* Ids are the message numbers.
SendInv ==
    \A p \in Peer : sent[p] <= MaxSends[p] /\ nextLocalId[p] = sent[p] + 1

\* A packet carries a message that was sent, and acks of accepted messages only.
PacketOK(m) ==
    /\ m.id = m.k
    /\ m.k <= sent[m.src]
    /\ \A a \in m.acks : a < nextRemoteId[m.src]

NetInv == \A m \in net : PacketOK(m)

UnackedInv ==
    \A p \in Peer : \A u \in localUnacked[p] :
       /\ u.id = u.k
       /\ u.k \in 1..sent[p]
       /\ \A a \in u.acks : a < nextRemoteId[p]

\* What is left of the datagram comes from the other end, and at most one message
\* of it is reliable.
RxInv ==
    \A p \in Peer :
       /\ rx[p] = <<>> => toReturn[p] = None
       /\ \A i \in 1..Len(rx[p]) : rx[p][i].src = Other(p) /\ PacketOK(rx[p][i])
       /\ \A i, j \in 1..Len(rx[p]) : rx[p][i].id # 0 /\ rx[p][j].id # 0 => i = j

\* The messages t (to be returned) and s (pending) hold no reliable message ...
Nothing(t, s) == t <= 0 /\ \A i \in 1..Len(s) : s[i] = 0

\* ... or hold this one ...
Holds(t, s, k) == k > 0 /\ (t = k \/ \E i \in 1..Len(s) : s[i] = k)

\* ... and in no case two.
Single(t, s) ==
    /\ t > 0 => \A i \in 1..Len(s) : s[i] = 0
    /\ \A i, j \in 1..Len(s) : s[i] > 0 /\ s[j] > 0 => i = j

ReliableLeft(p) == \E i \in 1..Len(rx[p]) : rx[p][i].id # 0

\* Between its acceptance and its return a reliable message is the last one before
\* the delayed queue, and nothing is queued before the datagram's is processed.
HeldOK(p) ==
    /\ Single(toReturn[p], pending[p])
    /\ ReliableLeft(p) => delayed[p] = <<>> /\ Nothing(toReturn[p], pending[p])
    /\ \A k \in Nat : Holds(toReturn[p], pending[p], k) =>
          /\ k = nextRemoteId[p] - 1 - Len(delayed[p])
          /\ \A i \in 1..Len(delivered[p]) : delivered[p][i] < k

HeldInv == \A p \in Peer : HeldOK(p)

\* What is stored lies strictly ahead of the expected message and was sent.
StoreInv ==
    \A p \in Peer :
       /\ nextRemoteId[p] <= sent[Other(p)] + 1
       /\ \A m \in outOfOrder[p] :
             /\ m.id = m.k
             /\ nextRemoteId[p] < m.id
             /\ m.id <= sent[Other(p)]

AckInv ==
    \A p \in Peer : \A i \in 1..Len(remoteUnacked[p]) :
       remoteUnacked[p][i] < nextRemoteId[p]

\* The delayed queue holds the last accepted messages, in order.
DelayedInv ==
    \A p \in Peer : \A i \in 1..Len(delayed[p]) :
       delayed[p][i].k = nextRemoteId[p] - 1 - Len(delayed[p]) + i

\* Everything handed over comes before the delayed queue.
DeliveredInv ==
    \A p \in Peer : \A i \in 1..Len(delivered[p]) :
       delivered[p][i] < nextRemoteId[p] - Len(delayed[p])

IInv ==
    /\ TypeOK
    /\ SendInv
    /\ NetInv
    /\ UnackedInv
    /\ RxInv
    /\ HeldInv
    /\ StoreInv
    /\ AckInv
    /\ DelayedInv
    /\ DeliveredInv
    /\ InOrder
    /\ ForgottenOnlyIfAccepted

--------------------------------------------------------------------------------
(* Facts about the operators *)

LEMMA OtherFacts ==
    \A p \in Peer : Other(p) \in Peer /\ Other(p) # p /\ Other(Other(p)) = p
  BY PeerAssumption DEF Other, Peer

\* The acks of a header come from the queue, and the rest stays in it.
LEMMA AckFacts ==
    ASSUME NEW p \in Peer, remoteUnacked[p] \in Seq(Nat)
    PROVE  /\ AckCount(p) \in 0..Len(remoteUnacked[p])
           /\ OutgoingAcks(p) \in SUBSET Nat
           /\ \A a \in OutgoingAcks(p) :
                 \E i \in 1..Len(remoteUnacked[p]) : a = remoteUnacked[p][i]
           /\ RestAfterAcks(p) \in Seq(Nat)
           /\ \A i \in 1..Len(RestAfterAcks(p)) :
                 \E j \in 1..Len(remoteUnacked[p]) :
                    RestAfterAcks(p)[i] = remoteUnacked[p][j]
  <1> DEFINE s == remoteUnacked[p]
  <1>1. AckCount(p) \in 0..Len(s)
    BY LimitAssumption DEF AckCount, Least
  <1>2. /\ OutgoingAcks(p) \in SUBSET Nat
        /\ \A a \in OutgoingAcks(p) : \E i \in 1..Len(s) : a = s[i]
    BY <1>1 DEF OutgoingAcks
  <1>3. /\ RestAfterAcks(p) \in Seq(Nat)
        /\ \A i \in 1..Len(RestAfterAcks(p)) :
              \E j \in 1..Len(s) : RestAfterAcks(p)[i] = s[j]
    <2> DEFINE c == AckCount(p)
    <2>0. c \in Nat /\ c <= Len(s) /\ Len(s) \in Nat
      BY <1>1
    <2>1. RestAfterAcks(p) = SubSeq(s, c + 1, Len(s))
      BY DEF RestAfterAcks
    <2> HIDE DEF c
    <2>2. SubSeq(s, c + 1, Len(s)) \in Seq(Nat)
      BY <2>0
    <2>3. Len(SubSeq(s, c + 1, Len(s))) = Len(s) - c
      BY <2>0
    <2>4. \A i \in 1..(Len(s) - c) : SubSeq(s, c + 1, Len(s))[i] = s[c + i]
      BY <2>0
    <2>5. \A i \in 1..(Len(s) - c) : c + i \in 1..Len(s)
      BY <2>0
    <2> QED BY <2>1, <2>2, <2>3, <2>4, <2>5
  <1> QED BY <1>1, <1>2, <1>3

\* Concatenation, element by element.
LEMMA ConcatFacts ==
    ASSUME NEW T, NEW x \in Seq(T), NEW y \in Seq(T)
    PROVE  /\ x \o y \in Seq(T)
           /\ Len(x \o y) = Len(x) + Len(y)
           /\ \A i \in 1..Len(x) : (x \o y)[i] = x[i]
           /\ \A i \in 1..Len(y) : (x \o y)[Len(x) + i] = y[i]
           /\ \A i \in 1..Len(x \o y) :
                 i \in 1..Len(x) \/ \E j \in 1..Len(y) : i = Len(x) + j
  <1>1. Len(x) \in Nat /\ Len(y) \in Nat
    OBVIOUS
  <1>2. x \o y \in Seq(T) /\ Len(x \o y) = Len(x) + Len(y)
    OBVIOUS
  <1>3. \A i \in 1..Len(x) : (x \o y)[i] = x[i]
    OBVIOUS
  <1>4. \A i \in 1..Len(y) : (x \o y)[Len(x) + i] = y[i]
    OBVIOUS
  <1>5. ASSUME NEW i \in 1..Len(x \o y), i \notin 1..Len(x)
        PROVE  \E j \in 1..Len(y) : i = Len(x) + j
    <2>1. i - Len(x) \in 1..Len(y) /\ i = Len(x) + (i - Len(x))
      BY <1>1, <1>2, <1>5
    <2> QED BY <2>1
  <1> QED BY <1>2, <1>3, <1>4, <1>5

\* What pushRemoteUnacked does once `next` is expected: it advances past the n
\* stored messages that follow, acknowledges them and queues them in order.
PushEffect(p, id, next, n) ==
    /\ next + n <= sent[Other(p)] + 1
    /\ nextRemoteId' = [nextRemoteId EXCEPT ![p] = next + n]
    /\ outOfOrder' \in [Peer -> SUBSET Packets]
    /\ \A q \in Peer : outOfOrder'[q] \subseteq outOfOrder[q]
    /\ \A m \in outOfOrder'[p] : next + n < m.id
    /\ remoteUnacked' \in [Peer -> Seq(Nat)]
    /\ \A q \in Peer : q # p => remoteUnacked'[q] = remoteUnacked[q]
    /\ Len(remoteUnacked'[p]) = Len(remoteUnacked[p]) + 1 + n
    /\ \A i \in 1..Len(remoteUnacked'[p]) :
          \/ i \in 1..Len(remoteUnacked[p])
             /\ remoteUnacked'[p][i] = remoteUnacked[p][i]
          \/ remoteUnacked'[p][i] = id
          \/ remoteUnacked'[p][i] < next + n
    /\ delayed' \in [Peer -> Seq(Packets)]
    /\ \A q \in Peer : q # p => delayed'[q] = delayed[q]
    /\ Len(delayed'[p]) = Len(delayed[p]) + n
    /\ \A i \in 1..Len(delayed[p]) : delayed'[p][i] = delayed[p][i]
    /\ \A i \in 1..n : delayed'[p][Len(delayed[p]) + i].k = next + i - 1
    /\ \A i \in 1..n : delayed'[p][Len(delayed[p]) + i] \in outOfOrder[p]

LEMMA PushFacts ==
    ASSUME NoWrap, TypeOK, SendInv, StoreInv,
           NEW p \in Peer, NEW id \in Nat, NEW next \in Nat,
           next \in {nextRemoteId[p], nextRemoteId[p] + 1},
           next <= sent[Other(p)] + 1,
           PushRemoteUnacked(p, id, next)
    PROVE  \E n \in Nat : PushEffect(p, id, next, n)
  <1> DEFINE S == sent[Other(p)]
             M == IdModulus
  <1>0. /\ S \in Nat /\ M \in Nat /\ S < M - 1 /\ next <= S + 1 /\ next >= 1
        /\ nextRemoteId[p] \in Nat /\ nextRemoteId[p] >= 1
    <2>1. Other(p) \in Peer
      BY OtherFacts
    <2>2. S \in Nat /\ M \in Nat /\ S <= MaxSends[Other(p)] /\ MaxSends[Other(p)] \in Nat
      BY <2>1, LimitAssumption DEF TypeOK, SendInv
    <2>3. nextRemoteId[p] \in 1..(M - 1)
      BY DEF TypeOK
    <2>4. MaxSends[Other(p)] < M - 1
      BY <2>1 DEF NoWrap
    <2> QED BY <2>2, <2>3, <2>4
  <1>1. PICK n \in 0..OooCap :
           /\ IsRun(p, next, n)
           /\ nextRemoteId' = [nextRemoteId EXCEPT ![p] = IdAfter(next, n)]
           /\ remoteUnacked' = [remoteUnacked EXCEPT ![p] =
                 Append(@, id) \o [i \in 1..n |-> IdAfter(next, i - 1)]]
           /\ delayed' = [delayed EXCEPT ![p] = @ \o
                 [i \in 1..n |-> CHOOSE m \in outOfOrder[p] : m.id = IdAfter(next, i - 1)]]
           /\ outOfOrder' = [outOfOrder EXCEPT ![p] =
                 {m \in @ : \A i \in 0..(n - 1) : m.id # IdAfter(next, i)}]
    BY DEF PushRemoteUnacked
  <1>2. n \in Nat
    BY LimitAssumption
  <1>3. \A i \in 0..(n - 1) : IdAfter(next, i) \in OooIds(p)
    BY <1>1 DEF IsRun
  <1>4. \A x \in OooIds(p) : x \in Nat /\ nextRemoteId[p] < x /\ x <= S
    <2>1. \A m \in outOfOrder[p] : m.id \in Nat
      BY DEF TypeOK, Packets
    <2>2. \A m \in outOfOrder[p] : nextRemoteId[p] < m.id /\ m.id <= S
      BY DEF StoreInv
    <2> HIDE DEF S
    <2> QED BY <2>1, <2>2 DEF OooIds
  <1>5. next + n < M
    <2>1. SUFFICES ASSUME next + n >= M PROVE FALSE
      BY <1>0, <1>2
    <2>2. M - 1 - next \in 0..(n - 1)
      BY <2>1, <1>0, <1>2
    <2>3. IdAfter(next, M - 1 - next) = M - 1
      BY <1>0 DEF IdAfter
    <2> QED BY <2>2, <2>3, <1>3, <1>4, <1>0
  <1>6. \A i \in 0..n : IdAfter(next, i) = next + i
    BY <1>5, <1>0, <1>2 DEF IdAfter
  <1>7. next + n <= S + 1
    <2>1. CASE n = 0
      BY <2>1, <1>0
    <2>2. CASE n # 0
      <3>1. n - 1 \in 0..(n - 1) /\ n - 1 \in 0..n
        BY <2>2, <1>2
      <3>2. IdAfter(next, n - 1) <= S
        BY <3>1, <1>3, <1>4
      <3>3. IdAfter(next, n - 1) = next + (n - 1)
        BY <3>1, <1>6
      <3> QED BY <3>2, <3>3, <1>0, <1>2
    <2> QED BY <2>1, <2>2
  <1>8. nextRemoteId' = [nextRemoteId EXCEPT ![p] = next + n]
    <2>1. IdAfter(next, n) = next + n
      BY <1>6, <1>2
    <2> QED BY <2>1, <1>1
  <1>9. /\ outOfOrder' \in [Peer -> SUBSET Packets]
        /\ \A q \in Peer : outOfOrder'[q] \subseteq outOfOrder[q]
    BY <1>1 DEF TypeOK
  <1>10. \A m \in outOfOrder'[p] : next + n < m.id
    <2>1. TAKE m \in outOfOrder'[p]
    <2>2. m \in outOfOrder[p] /\ \A i \in 0..(n - 1) : m.id # IdAfter(next, i)
      BY <1>1 DEF TypeOK
    <2>3. m.id \in OooIds(p) /\ IdAfter(next, n) \notin OooIds(p)
      BY <2>2, <1>1 DEF OooIds, IsRun
    <2>4. m.id \in Nat /\ m.id >= next
      BY <2>3, <1>4, <1>0
    <2>5. m.id # next + n
      BY <2>3, <1>6, <1>2
    <2>6. m.id - next \in 0..(n - 1) => m.id # next + (m.id - next)
      BY <2>2, <1>6, <1>2
    <2> QED BY <2>4, <2>5, <2>6, <1>0, <1>2
  <1>11. /\ remoteUnacked' \in [Peer -> Seq(Nat)]
         /\ \A q \in Peer : q # p => remoteUnacked'[q] = remoteUnacked[q]
         /\ Len(remoteUnacked'[p]) = Len(remoteUnacked[p]) + 1 + n
         /\ \A i \in 1..Len(remoteUnacked'[p]) :
               \/ i \in 1..Len(remoteUnacked[p])
                  /\ remoteUnacked'[p][i] = remoteUnacked[p][i]
               \/ remoteUnacked'[p][i] = id
               \/ remoteUnacked'[p][i] < next + n
    <2> DEFINE s == remoteUnacked[p]
               t == [i \in 1..n |-> IdAfter(next, i - 1)]
               a == Append(s, id)
    <2> HIDE DEF t, a
    <2>1. s \in Seq(Nat) /\ Len(s) \in Nat
      BY DEF TypeOK
    <2>2. \A i \in 1..n : t[i] = next + i - 1 /\ t[i] \in Nat
      BY <1>6, <1>2, <1>0 DEF t
    <2>3. t \in Seq(Nat) /\ Len(t) = n
      <3>1. t = [i \in 1..n |-> t[i]]
        BY DEF t
      <3> QED BY <3>1, <2>2, <1>2
    <2>4. a \in Seq(Nat) /\ Len(a) = Len(s) + 1
             /\ \A i \in 1..Len(a) : a[i] = IF i <= Len(s) THEN s[i] ELSE id
      BY <2>1 DEF a
    <2>5. remoteUnacked' = [remoteUnacked EXCEPT ![p] = a \o t]
      BY <1>1 DEF a, t
    <2>6. /\ a \o t \in Seq(Nat)
          /\ Len(a \o t) = Len(a) + Len(t)
          /\ \A i \in 1..Len(a) : (a \o t)[i] = a[i]
          /\ \A i \in 1..Len(t) : (a \o t)[Len(a) + i] = t[i]
          /\ \A i \in 1..Len(a \o t) :
                i \in 1..Len(a) \/ \E j \in 1..Len(t) : i = Len(a) + j
      <3>1. a \in Seq(Nat) /\ t \in Seq(Nat)
        BY <2>3, <2>4
      <3>2. a \o t \in Seq(Nat) /\ Len(a \o t) = Len(a) + Len(t)
        BY <3>1, ConcatFacts
      <3>3. \A i \in 1..Len(a) : (a \o t)[i] = a[i]
        BY <3>1, ConcatFacts
      <3>4. \A i \in 1..Len(t) : (a \o t)[Len(a) + i] = t[i]
        BY <3>1, ConcatFacts
      <3>5. \A i \in 1..Len(a \o t) :
               i \in 1..Len(a) \/ \E j \in 1..Len(t) : i = Len(a) + j
        BY <3>1, ConcatFacts
      <3> QED BY <3>2, <3>3, <3>4, <3>5
    <2>7. remoteUnacked'[p] = a \o t /\ \A q \in Peer : q # p => remoteUnacked'[q] = remoteUnacked[q]
      BY <2>5 DEF TypeOK
    <2>8. remoteUnacked' \in [Peer -> Seq(Nat)]
      BY <2>5, <2>6 DEF TypeOK
    <2>9. ASSUME NEW i \in 1..Len(a \o t)
          PROVE  \/ i \in 1..Len(s) /\ (a \o t)[i] = s[i]
                 \/ (a \o t)[i] = id
                 \/ (a \o t)[i] < next + n
      <3> DEFINE c == a \o t
      <3>0. \/ i \in 1..Len(a) /\ c[i] = a[i]
            \/ \E j \in 1..Len(t) : c[i] = t[j]
        BY <2>6, <2>9
      <3> HIDE DEF c
      <3>1. CASE i \in 1..Len(a) /\ c[i] = a[i]
        <4>1. a[i] = IF i <= Len(s) THEN s[i] ELSE id
          BY <3>1, <2>4
        <4>2. i <= Len(s) => i \in 1..Len(s)
          BY <3>1, <2>1, <2>4
        <4>3. \/ i \in 1..Len(s) /\ c[i] = s[i]
              \/ c[i] = id
          BY <4>1, <4>2, <3>1
        <4> QED BY <4>3 DEF c
      <3>2. CASE \E j \in 1..Len(t) : c[i] = t[j]
        <4>1. PICK j \in 1..Len(t) : c[i] = t[j]
          BY <3>2
        <4>2. c[i] = next + j - 1
          BY <4>1, <2>2, <2>3
        <4>3. c[i] < next + n
          BY <4>2, <2>3, <1>2
        <4> QED BY <4>3 DEF c
      <3> QED BY <3>0, <3>1, <3>2
    <2>10. Len(a \o t) = Len(s) + 1 + n
      BY <2>6, <2>4, <2>3, <2>1, <1>2
    <2>11. \A i \in 1..Len(a \o t) :
              \/ i \in 1..Len(s) /\ (a \o t)[i] = s[i]
              \/ (a \o t)[i] = id
              \/ (a \o t)[i] < next + n
      BY <2>9
    <2> QED BY <2>7, <2>8, <2>10, <2>11, Zenon
  <1>12. /\ delayed' \in [Peer -> Seq(Packets)]
         /\ \A q \in Peer : q # p => delayed'[q] = delayed[q]
         /\ Len(delayed'[p]) = Len(delayed[p]) + n
         /\ \A i \in 1..Len(delayed[p]) : delayed'[p][i] = delayed[p][i]
         /\ \A i \in 1..n : delayed'[p][Len(delayed[p]) + i].k = next + i - 1
         /\ \A i \in 1..n : delayed'[p][Len(delayed[p]) + i] \in outOfOrder[p]
    <2> DEFINE s == delayed[p]
               pick(i) == CHOOSE m \in outOfOrder[p] : m.id = IdAfter(next, i - 1)
               t == [i \in 1..n |-> pick(i)]
    <2>1. s \in Seq(Packets) /\ Len(s) \in Nat
      BY DEF TypeOK
    <2>2. ASSUME NEW i \in 1..n
          PROVE  pick(i) \in outOfOrder[p] /\ pick(i).id = next + i - 1
      <3>1. i - 1 \in 0..(n - 1) /\ i - 1 \in 0..n
        BY <1>2
      <3>2. IdAfter(next, i - 1) = next + i - 1
        BY <3>1, <1>6, <1>0
      <3>3. \E m \in outOfOrder[p] : m.id = IdAfter(next, i - 1)
        BY <3>1, <1>3 DEF OooIds
      <3> QED BY <3>2, <3>3
    <2> HIDE DEF pick, t
    <2>3. \A i \in 1..n : t[i] \in outOfOrder[p] /\ t[i] \in Packets /\ t[i].k = next + i - 1
      BY <2>2 DEF TypeOK, StoreInv, t
    <2>4. t \in Seq(Packets) /\ Len(t) = n
      <3>1. t = [i \in 1..n |-> t[i]]
        BY DEF t
      <3> QED BY <3>1, <2>3, <1>2
    <2>5. delayed' = [delayed EXCEPT ![p] = s \o t]
      BY <1>1 DEF pick, t
    <2>6. /\ s \o t \in Seq(Packets)
          /\ Len(s \o t) = Len(s) + Len(t)
          /\ \A i \in 1..Len(s) : (s \o t)[i] = s[i]
          /\ \A i \in 1..Len(t) : (s \o t)[Len(s) + i] = t[i]
      <3>1. s \in Seq(Packets) /\ t \in Seq(Packets)
        BY <2>1, <2>4
      <3>2. s \o t \in Seq(Packets) /\ Len(s \o t) = Len(s) + Len(t)
        BY <3>1, ConcatFacts
      <3>3. \A i \in 1..Len(s) : (s \o t)[i] = s[i]
        BY <3>1, ConcatFacts
      <3>4. \A i \in 1..Len(t) : (s \o t)[Len(s) + i] = t[i]
        BY <3>1, ConcatFacts
      <3> QED BY <3>2, <3>3, <3>4
    <2>7. delayed'[p] = s \o t /\ \A q \in Peer : q # p => delayed'[q] = delayed[q]
      BY <2>5 DEF TypeOK
    <2>8. delayed' \in [Peer -> Seq(Packets)]
      BY <2>5, <2>6 DEF TypeOK
    <2>9. \A i \in 1..n : /\ delayed'[p][Len(s) + i].k = next + i - 1
                          /\ delayed'[p][Len(s) + i] \in outOfOrder[p]
      <3>1. TAKE i \in 1..n
      <3>2. delayed'[p][Len(s) + i] = t[i]
        BY <2>4, <2>6, <2>7
      <3> QED BY <3>2, <2>3
    <2>10. \A i \in 1..Len(s) : delayed'[p][i] = s[i]
      BY <2>6, <2>7
    <2>11. Len(delayed'[p]) = Len(s) + n
      BY <2>4, <2>6, <2>7
    <2> QED BY <2>7, <2>8, <2>9, <2>10, <2>11
  <1> QED BY <1>2, <1>7, <1>8, <1>9, <1>10, <1>11, <1>12, Zenon DEF PushEffect

\* A packet stays in order when ends send and accept more.
LEMMA PacketOKStable ==
    ASSUME TypeOK, TypeOK',
           \A q \in Peer : sent[q] <= sent'[q] /\ nextRemoteId[q] <= nextRemoteId'[q],
           NEW m \in Packets, PacketOK(m)
    PROVE  PacketOK(m)'
  <1>1. m.src \in Peer /\ m.k \in Nat /\ m.acks \in SUBSET Nat
    BY DEF Packets
  <1>2. /\ sent[m.src] \in Nat /\ sent'[m.src] \in Nat
        /\ nextRemoteId[m.src] \in Int /\ nextRemoteId'[m.src] \in Int
    BY <1>1 DEF TypeOK
  <1>3. m.k <= sent'[m.src]
    BY <1>1, <1>2 DEF PacketOK
  <1>4. \A a \in m.acks : a < nextRemoteId'[m.src]
    BY <1>1, <1>2 DEF PacketOK
  <1> QED BY <1>3, <1>4 DEF PacketOK

\* What is held, in terms of the message.
LEMMA HeldFacts ==
    ASSUME NEW t \in Nat \cup {None}, NEW s \in Seq(Nat)
    PROVE  /\ Nothing(t, s) => Single(t, s)
           /\ Nothing(t, s) => \A k \in Nat : ~Holds(t, s, k)
           /\ ~Nothing(t, s) => \E k \in Nat \ {0} : Holds(t, s, k)
  <1>0. None = -1 /\ \A i \in 1..Len(s) : s[i] \in Nat
    BY DEF None
  <1>1. Nothing(t, s) => Single(t, s)
    BY <1>0 DEF Nothing, Single
  <1>2. Nothing(t, s) => \A k \in Nat : ~Holds(t, s, k)
    BY <1>0 DEF Nothing, Holds
  <1>3. ASSUME ~Nothing(t, s) PROVE \E k \in Nat \ {0} : Holds(t, s, k)
    <2>1. CASE t > 0
      <3>1. t \in Nat \ {0}
        BY <2>1, <1>0
      <3> QED BY <2>1, <3>1 DEF Holds
    <2>2. CASE ~(t > 0)
      <3>1. PICK i \in 1..Len(s) : s[i] # 0
        BY <1>3, <2>2, <1>0 DEF Nothing
      <3>2. s[i] \in Nat \ {0} /\ s[i] > 0
        BY <3>1, <1>0
      <3>3. Holds(t, s, s[i])
        BY <3>2 DEF Holds
      <3> QED BY <3>2, <3>3
    <2> QED BY <2>1, <2>2
  <1> QED BY <1>1, <1>2, <1>3

\* A message joins m_pendingMessages.
LEMMA HeldAppend ==
    ASSUME NEW t \in Nat \cup {None}, NEW s \in Seq(Nat), NEW x \in Nat
    PROVE  /\ Nothing(t, s) => Single(t, Append(s, x))
           /\ Single(t, s) => Single(t, Append(s, 0))
           /\ \A k \in Nat : Holds(t, Append(s, x), k) <=>
                 (Holds(t, s, k) \/ (k = x /\ x > 0))
  <1>0. None = -1 /\ (\A i \in 1..Len(s) : s[i] \in Nat) /\ Len(s) \in Nat
    BY DEF None
  <1>1. ASSUME NEW y \in Nat
        PROVE  /\ Len(Append(s, y)) = Len(s) + 1
               /\ \A i \in 1..Len(s) : Append(s, y)[i] = s[i]
               /\ Append(s, y)[Len(s) + 1] = y
    OBVIOUS
  <1>2. \A i \in 1..(Len(s) + 1) : i \in 1..Len(s) \/ i = Len(s) + 1
    BY <1>0
  <1>3. Nothing(t, s) => Single(t, Append(s, x))
    BY <1>0, <1>1, <1>2 DEF Nothing, Single
  <1>4. Single(t, s) => Single(t, Append(s, 0))
    BY <1>0, <1>1, <1>2 DEF Single
  <1>5. ASSUME NEW k \in Nat
        PROVE  Holds(t, Append(s, x), k) <=> (Holds(t, s, k) \/ (k = x /\ x > 0))
    <2>1. (\E i \in 1..Len(Append(s, x)) : Append(s, x)[i] = k)
             <=> ((\E i \in 1..Len(s) : s[i] = k) \/ x = k)
      <3> DEFINE a == Append(s, x)
      <3>1. /\ Len(a) = Len(s) + 1
            /\ \A i \in 1..Len(s) : a[i] = s[i]
            /\ a[Len(s) + 1] = x
        BY <1>1
      <3> HIDE DEF a
      <3>2. /\ \A i \in 1..Len(s) : i \in 1..(Len(s) + 1)
            /\ Len(s) + 1 \in 1..(Len(s) + 1)
        BY <1>0
      <3>3. (\E i \in 1..Len(a) : a[i] = k) <=> ((\E i \in 1..Len(s) : s[i] = k) \/ x = k)
        BY <3>1, <3>2, <1>2
      <3> QED BY <3>3 DEF a
    <2> QED BY <2>1 DEF Holds
  <1> QED BY <1>3, <1>4, <1>5

\* The message to return is the first of the datagram, or is returned.
LEMMA HeldReturn ==
    ASSUME NEW t \in Nat \cup {None}, NEW s \in Seq(Nat), NEW x \in Nat \cup {None}
    PROVE  /\ Single(t, s) => Single(None, s) /\ Single(0, s)
           /\ Single(t, s) /\ t > 0 => Nothing(None, s)
           /\ ~(t > 0) => \A k \in Nat : /\ Holds(None, s, k) <=> Holds(t, s, k)
                                         /\ Holds(0, s, k) <=> Holds(t, s, k)
           /\ t > 0 => Holds(t, s, t)
           /\ Nothing(t, s) => /\ Nothing(None, s)
                               /\ Single(x, s)
                               /\ \A k \in Nat : Holds(x, s, k) <=> (k = x /\ x > 0)
  BY DEF None, Single, Nothing, Holds

\* receiveMessageInner takes the first of m_pendingMessages.
LEMMA HeldTail ==
    ASSUME NEW s \in Seq(Nat), s # <<>>, Single(None, s)
    PROVE  /\ Head(s) \in Nat /\ Tail(s) \in Seq(Nat)
           /\ Single(None, Tail(s))
           /\ Head(s) > 0 => Nothing(None, Tail(s)) /\ Holds(None, s, Head(s))
           /\ ~(Head(s) > 0) => \A k \in Nat : Holds(None, Tail(s), k) <=> Holds(None, s, k)
  <1>1. /\ Head(s) = s[1] /\ 1 \in 1..Len(s) /\ s[1] \in Nat /\ Tail(s) \in Seq(Nat)
        /\ Len(Tail(s)) = Len(s) - 1 /\ Len(s) \in Nat
        /\ \A i \in 1..(Len(s) - 1) : Tail(s)[i] = s[i + 1]
    OBVIOUS
  <1> DEFINE u == Tail(s)
             n == Len(s)
  <1>2. /\ Len(u) = n - 1 /\ n \in Nat /\ n > 0
        /\ \A i \in 1..(n - 1) : u[i] = s[i + 1] /\ i + 1 \in 1..n /\ i + 1 # 1
        /\ \A i \in 1..n : s[i] \in Nat
    BY <1>1
  <1>3. \A i \in 1..n : i = 1 \/ (i - 1 \in 1..(n - 1) /\ u[i - 1] = s[i])
    <2> TAKE i \in 1..n
    <2>1. CASE i # 1
      <3>1. i - 1 \in 1..(n - 1) /\ (i - 1) + 1 = i
        BY <2>1, <1>2
      <3> QED BY <3>1, <1>2
    <2> QED BY <2>1
  <1>4. \A i, j \in 1..n : s[i] > 0 /\ s[j] > 0 => i = j
    BY DEF Single
  <1> HIDE DEF u, n
  <1>5. Single(None, u)
    <2>1. \A i, j \in 1..(n - 1) : u[i] > 0 /\ u[j] > 0 => i = j
      <3> SUFFICES ASSUME NEW i \in 1..(n - 1), NEW j \in 1..(n - 1), u[i] > 0, u[j] > 0
                   PROVE  i = j
        OBVIOUS
      <3>1. i + 1 = j + 1
        BY <1>2, <1>4
      <3> QED BY <3>1, <1>2
    <2> QED BY <2>1, <1>2 DEF Single, None
  <1>6. ASSUME s[1] > 0 PROVE Nothing(None, u) /\ Holds(None, s, s[1])
    <2>1. \A i \in 1..(n - 1) : u[i] = 0
      <3> TAKE i \in 1..(n - 1)
      <3>1. ~(s[i + 1] > 0)
        <4>1. 1 \in 1..n
          BY <1>2
        <4> QED BY <4>1, <1>2, <1>4, <1>6
      <3> QED BY <3>1, <1>2
    <2>2. Holds(None, s, s[1])
      BY <1>6, <1>1 DEF Holds
    <2> QED BY <2>1, <2>2, <1>2 DEF Nothing, None
  <1>7. ASSUME ~(s[1] > 0), NEW k \in Nat
        PROVE  Holds(None, u, k) <=> Holds(None, s, k)
    <2>1. s[1] = 0
      BY <1>7, <1>1
    <2>2. ASSUME k > 0
          PROVE  (\E i \in 1..(n - 1) : u[i] = k) <=> (\E i \in 1..n : s[i] = k)
      <3>1. ASSUME NEW i \in 1..(n - 1), u[i] = k PROVE \E j \in 1..n : s[j] = k
        BY <3>1, <1>2
      <3>2. ASSUME NEW i \in 1..n, s[i] = k PROVE \E j \in 1..(n - 1) : u[j] = k
        BY <3>2, <2>1, <2>2, <1>3
      <3> QED BY <3>1, <3>2
    <2> QED BY <2>2, <1>2 DEF Holds, None, n
  <1> QED BY <1>1, <1>5, <1>6, <1>7 DEF u

--------------------------------------------------------------------------------
(* The invariant holds initially and is preserved by every action *)

\* Nothing changes for an end whose receiving half is left alone.
LEMMA HeldStable ==
    ASSUME NEW q \in Peer, HeldOK(q),
           rx'[q] = rx[q], toReturn'[q] = toReturn[q], pending'[q] = pending[q],
           delayed'[q] = delayed[q], nextRemoteId'[q] = nextRemoteId[q],
           delivered'[q] = delivered[q]
    PROVE  HeldOK(q)'
  BY DEF HeldOK, ReliableLeft

\* The datagram being processed stays in order when ends send and accept more.
LEMMA RxStable ==
    ASSUME TypeOK, RxInv, NEW q \in Peer, rx'[q] = rx[q], toReturn'[q] = toReturn[q],
           \A m \in Packets : PacketOK(m) => PacketOK(m)'
    PROVE  /\ rx'[q] = <<>> => toReturn'[q] = None
           /\ \A i \in 1..Len(rx'[q]) : rx'[q][i].src = Other(q) /\ PacketOK(rx[q][i])'
           /\ \A i, j \in 1..Len(rx'[q]) : rx'[q][i].id # 0 /\ rx'[q][j].id # 0 => i = j
  <1>1. rx[q] \in Seq(Packets)
    BY DEF TypeOK
  <1>2. ASSUME NEW i \in 1..Len(rx[q])
        PROVE  PacketOK(rx[q][i])'
    <2>1. PICK x \in Packets : x = rx[q][i]
      BY <1>1
    <2>2. PacketOK(x)
      BY <2>1 DEF RxInv
    <2>3. PacketOK(x)'
      BY <2>2
    <2>4. (rx[q][i])' = x
      BY <2>1
    <2> QED BY <2>3, <2>4 DEF PacketOK
  <1> QED BY <1>2 DEF RxInv

LEMMA InitIInv == Init => IInv
  <1> SUFFICES ASSUME Init PROVE IInv
    OBVIOUS
  <1>1. TypeOK
    <2>1. 1 \in 1..(IdModulus - 1)
      BY LimitAssumption
    <2> QED BY <2>1 DEF Init, TypeOK
  <1>2. SendInv /\ NetInv /\ UnackedInv
    BY LimitAssumption DEF Init, SendInv, NetInv, UnackedInv
  <1>3. RxInv /\ HeldInv
    BY DEF Init, RxInv, HeldInv, HeldOK, ReliableLeft, Single, Nothing, Holds, None
  <1>4. StoreInv
    BY OtherFacts DEF Init, StoreInv
  <1>5. AckInv /\ DelayedInv /\ DeliveredInv /\ InOrder
    BY DEF Init, AckInv, DelayedInv, DeliveredInv, InOrder
  <1>6. ForgottenOnlyIfAccepted
    BY DEF Init, ForgottenOnlyIfAccepted
  <1> QED BY <1>1, <1>2, <1>3, <1>4, <1>5, <1>6 DEF IInv

LEMMA SendReliableInv ==
    ASSUME NoWrap, IInv, NEW p \in Peer, SendReliable(p)
    PROVE  IInv'
  <1> DEFINE k == sent[p] + 1
             acks == OutgoingAcks(p)
             pk == Packet(p, nextLocalId[p], k, acks)
             un == [id |-> nextLocalId[p], k |-> k, acks |-> acks, attempts |-> 0]
  <1>0. TypeOK /\ SendInv /\ NetInv /\ UnackedInv /\ RxInv /\ HeldInv /\ StoreInv /\ AckInv
        /\ DelayedInv /\ DeliveredInv /\ InOrder /\ ForgottenOnlyIfAccepted
    BY DEF IInv
  <1>1. /\ sent[p] \in Nat /\ sent[p] < MaxSends[p] /\ MaxSends[p] \in Nat
        /\ nextLocalId[p] = k /\ k \in Nat /\ k < IdModulus - 1 /\ IdModulus \in Nat
    BY <1>0, LimitAssumption DEF TypeOK, SendInv, SendReliable, NoWrap
  <1>2. NextId(k) = k + 1 /\ k + 1 \in 1..(IdModulus - 1)
    BY <1>1 DEF NextId
  <1>3. /\ acks \in SUBSET Nat
        /\ \A a \in acks : a < nextRemoteId[p]
        /\ RestAfterAcks(p) \in Seq(Nat)
        /\ \A i \in 1..Len(RestAfterAcks(p)) : RestAfterAcks(p)[i] < nextRemoteId[p]
    <2>1. remoteUnacked[p] \in Seq(Nat)
      BY <1>0 DEF TypeOK
    <2> QED BY <2>1, <1>0, AckFacts DEF AckInv
  <1> HIDE DEF acks
  <1>4. pk \in Packets /\ un \in Unacked
    BY <1>1, <1>3 DEF Packet, Packets, Unacked
  <1>5. /\ sent' = [sent EXCEPT ![p] = k]
        /\ nextLocalId' = [nextLocalId EXCEPT ![p] = NextId(nextLocalId[p])]
        /\ remoteUnacked' = [remoteUnacked EXCEPT ![p] = RestAfterAcks(p)]
        /\ net' = net \cup {pk}
        /\ UNCHANGED <<nextRemoteId, outOfOrder, delayed, rx, toReturn, pending, delivered>>
    BY DEF SendReliable, acks, recvVars
  <1>6. \/ localUnacked' = [localUnacked EXCEPT ![p] = @ \cup {un}] /\ UNCHANGED failed
        \/ failed' = [failed EXCEPT ![p] = TRUE] /\ UNCHANGED localUnacked
    BY DEF SendReliable, acks
  <1>a. /\ sent \in [Peer -> Nat]
        /\ nextLocalId \in [Peer -> 1..(IdModulus - 1)]
        /\ nextRemoteId \in [Peer -> 1..(IdModulus - 1)]
    BY <1>0 DEF TypeOK
  <1>b. localUnacked \in [Peer -> SUBSET Unacked] /\ failed \in [Peer -> BOOLEAN]
    BY <1>0 DEF TypeOK
  <1>c. /\ net \in SUBSET Packets
        /\ outOfOrder \in [Peer -> SUBSET Packets]
        /\ remoteUnacked \in [Peer -> Seq(Nat)]
    BY <1>0 DEF TypeOK
  <1>d. sent'[p] = k /\ \A q \in Peer : q # p => sent'[q] = sent[q]
    BY <1>a, <1>5
  <1>7. localUnacked' \in [Peer -> SUBSET Unacked] /\ failed' \in [Peer -> BOOLEAN]
    <2> HIDE DEF un
    <2>1. CASE localUnacked' = [localUnacked EXCEPT ![p] = @ \cup {un}] /\ UNCHANGED failed
      BY <2>1, <1>b, <1>4
    <2>2. CASE failed' = [failed EXCEPT ![p] = TRUE] /\ UNCHANGED localUnacked
      BY <2>2, <1>b
    <2> QED BY <2>1, <2>2, <1>6
  <1>8. /\ net' \in SUBSET Packets
        /\ sent' \in [Peer -> Nat]
        /\ nextLocalId' \in [Peer -> 1..(IdModulus - 1)]
        /\ remoteUnacked' \in [Peer -> Seq(Nat)]
    <2> HIDE DEF pk
    <2>1. net' \in SUBSET Packets
      BY <1>c, <1>4, <1>5
    <2>2. sent' \in [Peer -> Nat]
      BY <1>a, <1>1, <1>5
    <2>3. nextLocalId' \in [Peer -> 1..(IdModulus - 1)]
      BY <1>a, <1>1, <1>2, <1>5
    <2>4. remoteUnacked' \in [Peer -> Seq(Nat)]
      BY <1>c, <1>3, <1>5
    <2> QED BY <2>1, <2>2, <2>3, <2>4
  <1>9. TypeOK'
    BY <1>0, <1>5, <1>7, <1>8 DEF TypeOK
  <1>10. SendInv'
    <2> SUFFICES ASSUME NEW q \in Peer
                 PROVE  sent'[q] <= MaxSends[q] /\ nextLocalId'[q] = sent'[q] + 1
      BY DEF SendInv
    <2>1. CASE q = p
      BY <2>1, <1>a, <1>d, <1>1, <1>2, <1>5
    <2>2. CASE q # p
      <3>1. sent'[q] = sent[q] /\ nextLocalId'[q] = nextLocalId[q]
        BY <2>2, <1>a, <1>d, <1>5
      <3> QED BY <3>1, <1>0 DEF SendInv
    <2> QED BY <2>1, <2>2
  <1>11. \A q \in Peer : sent[q] \in Nat /\ sent'[q] \in Nat /\ sent[q] <= sent'[q]
                         /\ nextRemoteId'[q] = nextRemoteId[q]
    <2> TAKE q \in Peer
    <2>1. sent[q] \in Nat /\ nextRemoteId'[q] = nextRemoteId[q]
      BY <1>a, <1>5
    <2>2. CASE q = p
      BY <2>1, <2>2, <1>d, <1>1
    <2>3. CASE q # p
      BY <2>1, <2>3, <1>d
    <2> QED BY <2>1, <2>2, <2>3
  <1>12. \A m \in Packets : PacketOK(m) => PacketOK(m)'
    <2> SUFFICES ASSUME NEW m \in Packets, PacketOK(m) PROVE PacketOK(m)'
      OBVIOUS
    <2>1. \A q \in Peer : nextRemoteId[q] <= nextRemoteId'[q]
      BY <1>a, <1>11
    <2> QED BY <1>0, <1>9, <1>11, <2>1, PacketOKStable
  <1>13. NetInv'
    <2>1. ASSUME NEW m \in Packets, m = pk PROVE PacketOK(m)'
      <3>1. m.src = p /\ m.id = nextLocalId[p] /\ m.k = k /\ m.acks = acks
        BY <2>1 DEF Packet
      <3>2. sent'[p] = k /\ nextRemoteId'[p] = nextRemoteId[p]
        BY <1>d, <1>5
      <3>3. m.k <= sent'[m.src]
        BY <3>1, <3>2, <1>1
      <3>4. \A x \in m.acks : x < nextRemoteId'[m.src]
        BY <3>1, <3>2, <1>3
      <3> QED BY <3>1, <3>3, <3>4, <1>1 DEF PacketOK
    <2> HIDE DEF pk
    <2>2. \A m \in net : PacketOK(m)'
      BY <1>0, <1>c, <1>12 DEF NetInv
    <2> QED BY <2>1, <2>2, <1>4, <1>5 DEF NetInv
  <1>14. UnackedInv'
    <2> SUFFICES ASSUME NEW q \in Peer, NEW u \in localUnacked'[q]
                 PROVE  u.id = u.k /\ u.k \in 1..sent'[q] /\ \A a \in u.acks : a < nextRemoteId'[q]
      BY DEF UnackedInv
    <2>1. CASE u \in localUnacked[q]
      BY <2>1, <1>0, <1>11 DEF UnackedInv
    <2>2. CASE q = p /\ u = un
      BY <2>2, <1>1, <1>3, <1>5, <1>0 DEF TypeOK
    <2>3. u \in localUnacked[q] \/ (q = p /\ u = un)
      BY <1>0, <1>6 DEF TypeOK
    <2> QED BY <2>1, <2>2, <2>3
  <1>15. RxInv' /\ HeldInv'
    <2>1. RxInv'
      BY <1>0, <1>5, <1>12, RxStable DEF RxInv
    <2>2. HeldInv'
      BY <1>0, <1>5, HeldStable DEF HeldInv
    <2> QED BY <2>1, <2>2
  <1>16. StoreInv'
    <2> SUFFICES ASSUME NEW q \in Peer
                 PROVE  /\ nextRemoteId'[q] <= sent'[Other(q)] + 1
                        /\ \A m \in outOfOrder'[q] :
                              m.id = m.k /\ nextRemoteId'[q] < m.id /\ m.id <= sent'[Other(q)]
      BY DEF StoreInv
    <2>0. Other(q) \in Peer
      BY OtherFacts
    <2>1. /\ nextRemoteId[q] \in Int /\ sent[Other(q)] \in Nat /\ sent'[Other(q)] \in Nat
          /\ sent[Other(q)] <= sent'[Other(q)]
          /\ \A m \in outOfOrder[q] : m.id \in Nat
      BY <2>0, <1>a, <1>c, <1>11 DEF Packets
    <2>2. outOfOrder'[q] = outOfOrder[q] /\ nextRemoteId'[q] = nextRemoteId[q]
      BY <1>5
    <2> QED BY <2>1, <2>2, <1>0 DEF StoreInv
  <1>17. AckInv'
    BY <1>0, <1>3, <1>5 DEF AckInv, TypeOK
  <1>18. DelayedInv' /\ DeliveredInv' /\ InOrder'
    BY <1>0, <1>5 DEF DelayedInv, DeliveredInv, InOrder
  <1>19. ForgottenOnlyIfAccepted'
    <2> SUFFICES ASSUME NEW q \in Peer, NEW j \in 1..sent'[q], ~failed'[q]
                 PROVE  \/ \E m \in localUnacked'[q] : m.k = j
                        \/ j < nextRemoteId'[Other(q)]
      BY DEF ForgottenOnlyIfAccepted
    <2>1. ~failed[q] /\ localUnacked[q] \subseteq localUnacked'[q]
      BY <1>0, <1>6 DEF TypeOK
    <2>2. CASE j \in 1..sent[q]
      BY <2>1, <2>2, <1>0, <1>11, OtherFacts DEF ForgottenOnlyIfAccepted
    <2>3. CASE j \notin 1..sent[q]
      <3>1. q = p /\ j = k
        BY <2>3, <1>1, <1>5, <1>0 DEF TypeOK
      <3>2. un \in localUnacked'[p]
        BY <3>1, <1>0, <1>6 DEF TypeOK
      <3>3. un.k = j
        BY <3>1
      <3> QED BY <3>1, <3>2, <3>3
    <2> QED BY <2>2, <2>3
  <1> QED BY <1>9, <1>10, <1>13, <1>14, <1>15, <1>16, <1>17, <1>18, <1>19 DEF IInv

\* Acks that are put into a header, and those left, are of accepted messages.
LEMMA AckInvFacts ==
    ASSUME TypeOK, AckInv, NEW p \in Peer
    PROVE  /\ OutgoingAcks(p) \in SUBSET Nat
           /\ \A a \in OutgoingAcks(p) : a < nextRemoteId[p]
           /\ RestAfterAcks(p) \in Seq(Nat)
           /\ \A i \in 1..Len(RestAfterAcks(p)) : RestAfterAcks(p)[i] < nextRemoteId[p]
  <1>1. remoteUnacked[p] \in Seq(Nat)
    BY DEF TypeOK
  <1> QED BY <1>1, AckFacts DEF AckInv

\* Steps of the sending half that send no new reliable message: they put legal
\* packets on the wire, take acks from the queue and may count retransmissions.
LEMMA SenderStepInv ==
    ASSUME IInv,
           UNCHANGED <<sent, nextLocalId, nextRemoteId, outOfOrder, delayed,
                       rx, toReturn, pending, delivered>>,
           net' \in SUBSET Packets,
           \A m \in net' : PacketOK(m),
           localUnacked' \in [Peer -> SUBSET Unacked],
           \A q \in Peer : \A u \in localUnacked'[q] : \E v \in localUnacked[q] :
              u.id = v.id /\ u.k = v.k /\ u.acks = v.acks,
           \A q \in Peer : \A v \in localUnacked[q] : \E u \in localUnacked'[q] : u.k = v.k,
           remoteUnacked' \in [Peer -> Seq(Nat)],
           \A q \in Peer : \A i \in 1..Len(remoteUnacked'[q]) :
              remoteUnacked'[q][i] < nextRemoteId[q],
           failed' \in [Peer -> BOOLEAN],
           \A q \in Peer : failed[q] => failed'[q]
    PROVE  IInv'
  <1>0. TypeOK /\ SendInv /\ NetInv /\ UnackedInv /\ RxInv /\ HeldInv /\ StoreInv /\ AckInv
        /\ DelayedInv /\ DeliveredInv /\ InOrder /\ ForgottenOnlyIfAccepted
    BY DEF IInv
  <1>1. TypeOK'
    BY <1>0 DEF TypeOK
  <1>2. SendInv' /\ StoreInv' /\ DelayedInv' /\ DeliveredInv' /\ InOrder'
    BY <1>0 DEF SendInv, StoreInv, DelayedInv, DeliveredInv, InOrder
  <1>3. \A m : PacketOK(m) => PacketOK(m)'
    BY DEF PacketOK
  <1>4. NetInv'
    BY <1>3 DEF NetInv
  <1>5. RxInv' /\ HeldInv'
    <2>1. RxInv'
      BY <1>0, <1>3, RxStable DEF RxInv
    <2>2. HeldInv'
      BY <1>0, HeldStable DEF HeldInv
    <2> QED BY <2>1, <2>2
  <1>6. UnackedInv'
    BY <1>0 DEF UnackedInv
  <1>7. AckInv'
    BY DEF AckInv
  <1>8. ForgottenOnlyIfAccepted'
    BY <1>0 DEF ForgottenOnlyIfAccepted
  <1> QED BY <1>1, <1>2, <1>4, <1>5, <1>6, <1>7, <1>8 DEF IInv

LEMMA SendUnreliableInv ==
    ASSUME IInv, NEW p \in Peer, SendUnreliable(p)
    PROVE  IInv'
  <1> DEFINE acks == OutgoingAcks(p)
             pk == Packet(p, 0, 0, acks)
  <1>0. TypeOK /\ NetInv /\ AckInv
    BY DEF IInv
  <1>1. /\ net \in SUBSET Packets
        /\ remoteUnacked \in [Peer -> Seq(Nat)]
        /\ localUnacked \in [Peer -> SUBSET Unacked]
        /\ failed \in [Peer -> BOOLEAN]
        /\ sent \in [Peer -> Nat]
    BY <1>0 DEF TypeOK
  <1>2. /\ acks \in SUBSET Nat
        /\ \A a \in acks : a < nextRemoteId[p]
        /\ RestAfterAcks(p) \in Seq(Nat)
        /\ \A i \in 1..Len(RestAfterAcks(p)) : RestAfterAcks(p)[i] < nextRemoteId[p]
    BY <1>0, AckInvFacts
  <1>3. /\ net' = net \cup {pk}
        /\ remoteUnacked' = [remoteUnacked EXCEPT ![p] = RestAfterAcks(p)]
        /\ UNCHANGED <<failed, sent, nextLocalId, localUnacked, nextRemoteId, outOfOrder,
                       delayed, rx, toReturn, pending, delivered>>
    BY DEF SendUnreliable, outVars, recvVars
  <1> HIDE DEF acks
  <1>4. pk \in Packets /\ PacketOK(pk)
    BY <1>1, <1>2 DEF Packet, Packets, PacketOK
  <1> HIDE DEF pk
  <1>5. net' \in SUBSET Packets /\ \A m \in net' : PacketOK(m)
    BY <1>0, <1>1, <1>3, <1>4 DEF NetInv
  <1>6. /\ remoteUnacked' \in [Peer -> Seq(Nat)]
        /\ \A q \in Peer : \A i \in 1..Len(remoteUnacked'[q]) :
              remoteUnacked'[q][i] < nextRemoteId[q]
    BY <1>0, <1>1, <1>2, <1>3 DEF AckInv
  <1> QED BY <1>1, <1>3, <1>5, <1>6, SenderStepInv

LEMMA SocketErrorInv ==
    ASSUME IInv, NEW p \in Peer, SocketError(p)
    PROVE  IInv'
  <1>0. TypeOK /\ NetInv /\ AckInv
    BY DEF IInv
  <1>1. /\ net \in SUBSET Packets
        /\ remoteUnacked \in [Peer -> Seq(Nat)]
        /\ localUnacked \in [Peer -> SUBSET Unacked]
        /\ failed \in [Peer -> BOOLEAN]
    BY <1>0 DEF TypeOK
  <1>2. /\ failed' = [failed EXCEPT ![p] = TRUE]
        /\ UNCHANGED <<net, sent, nextLocalId, localUnacked, nextRemoteId, remoteUnacked,
                       outOfOrder, delayed, rx, toReturn, pending, delivered>>
    BY DEF SocketError, outVars, storeVars, recvVars
  <1>3. failed' \in [Peer -> BOOLEAN] /\ \A q \in Peer : failed[q] => failed'[q]
    BY <1>1, <1>2
  <1> QED BY <1>0, <1>1, <1>2, <1>3, SenderStepInv DEF NetInv, AckInv

LEMMA TimerExpiryInv ==
    ASSUME IInv, NEW p \in Peer, TimerExpiry(p)
    PROVE  IInv'
  <1>0. TypeOK /\ NetInv /\ AckInv /\ UnackedInv
    BY DEF IInv
  <1>1. /\ net \in SUBSET Packets
        /\ remoteUnacked \in [Peer -> Seq(Nat)]
        /\ localUnacked \in [Peer -> SUBSET Unacked]
        /\ failed \in [Peer -> BOOLEAN]
        /\ sent \in [Peer -> Nat]
    BY <1>0 DEF TypeOK
  <1>2. /\ OutgoingAcks(p) \in SUBSET Nat
        /\ \A a \in OutgoingAcks(p) : a < nextRemoteId[p]
        /\ RestAfterAcks(p) \in Seq(Nat)
        /\ \A i \in 1..Len(RestAfterAcks(p)) : RestAfterAcks(p)[i] < nextRemoteId[p]
    BY <1>0, AckInvFacts
  <1>3. PICK due \in SUBSET localUnacked[p], urgent \in BOOLEAN :
           RetransmitAndAck(p, due, urgent) \/ GiveUp(p, due)
    BY DEF TimerExpiry
  <1>4. UNCHANGED <<sent, nextLocalId, nextRemoteId, outOfOrder, delayed,
                    rx, toReturn, pending, delivered>>
    BY DEF TimerExpiry, recvVars
  <1>5. \A m \in RetransmittedPackets(p, due) : m \in Packets /\ PacketOK(m)
    <2> SUFFICES ASSUME NEW u \in Retransmitted(due)
                 PROVE  Packet(p, u.id, u.k, u.acks) \in Packets
                        /\ PacketOK(Packet(p, u.id, u.k, u.acks))
      BY DEF RetransmittedPackets
    <2>1. u \in localUnacked[p] /\ u \in Unacked
      BY <1>1 DEF Retransmitted
    <2>2. u.id \in Nat /\ u.k \in Nat /\ u.acks \in SUBSET Nat
      BY <2>1 DEF Unacked
    <2>3. u.id = u.k /\ u.k <= sent[p] /\ \A a \in u.acks : a < nextRemoteId[p]
      BY <2>1, <1>0, <1>1 DEF UnackedInv
    <2> QED BY <2>2, <2>3 DEF Packet, Packets, PacketOK
  <1>6. ASSUME NEW pk, pk = Packet(p, 0, 0, OutgoingAcks(p))
        PROVE  pk \in Packets /\ PacketOK(pk)
    BY <1>1, <1>2, <1>6 DEF Packet, Packets, PacketOK
  <1>7. CASE GiveUp(p, due)
    <2>1. /\ net' = net \cup RetransmittedPackets(p, due)
          /\ failed' = [failed EXCEPT ![p] = TRUE]
          /\ UNCHANGED <<localUnacked, remoteUnacked>>
      BY <1>7 DEF GiveUp
    <2>2. net' \in SUBSET Packets /\ \A m \in net' : PacketOK(m)
      BY <2>1, <1>0, <1>1, <1>5 DEF NetInv
    <2>3. failed' \in [Peer -> BOOLEAN] /\ \A q \in Peer : failed[q] => failed'[q]
      BY <2>1, <1>1
    <2> QED BY <2>1, <2>2, <2>3, <1>0, <1>1, <1>4, SenderStepInv DEF AckInv
  <1>8. CASE RetransmitAndAck(p, due, urgent)
    <2>1. /\ localUnacked' = [localUnacked EXCEPT ![p] =
                (@ \ due) \cup {[m EXCEPT !.attempts = @ + 1] : m \in due}]
          /\ failed' = failed
      BY <1>8 DEF RetransmitAndAck
    <2>2. /\ \/ net' = net \cup RetransmittedPackets(p, due)
             \/ net' = net \cup RetransmittedPackets(p, due)
                           \cup {Packet(p, 0, 0, OutgoingAcks(p))}
          /\ \/ remoteUnacked' = remoteUnacked
             \/ remoteUnacked' = [remoteUnacked EXCEPT ![p] = RestAfterAcks(p)]
      BY <1>8 DEF RetransmitAndAck
    <2>3. net' \in SUBSET Packets /\ \A m \in net' : PacketOK(m)
      <3>1. \A m \in net' : m \in net \/ m \in RetransmittedPackets(p, due)
                            \/ m = Packet(p, 0, 0, OutgoingAcks(p))
        BY <2>2
      <3> QED BY <3>1, <1>0, <1>1, <1>5, <1>6 DEF NetInv
    <2>4. /\ remoteUnacked' \in [Peer -> Seq(Nat)]
          /\ \A q \in Peer : \A i \in 1..Len(remoteUnacked'[q]) :
                remoteUnacked'[q][i] < nextRemoteId[q]
      <3>1. CASE remoteUnacked' = remoteUnacked
        BY <3>1, <1>0, <1>1 DEF AckInv
      <3>2. CASE remoteUnacked' = [remoteUnacked EXCEPT ![p] = RestAfterAcks(p)]
        BY <3>2, <1>0, <1>1, <1>2 DEF AckInv
      <3> QED BY <3>1, <3>2, <2>2
    <2>5. \A u \in Unacked : /\ [u EXCEPT !.attempts = @ + 1] \in Unacked
                             /\ [u EXCEPT !.attempts = @ + 1].id = u.id
                             /\ [u EXCEPT !.attempts = @ + 1].k = u.k
                             /\ [u EXCEPT !.attempts = @ + 1].acks = u.acks
      BY DEF Unacked
    <2>6. /\ \A q \in Peer : q # p => localUnacked'[q] = localUnacked[q]
          /\ localUnacked'[p] = (localUnacked[p] \ due)
                                   \cup {[m EXCEPT !.attempts = @ + 1] : m \in due}
      BY <2>1, <1>1
    <2>7. due \subseteq Unacked
      BY <1>1
    <2>8. \A u \in localUnacked'[p] :
             /\ u \in Unacked
             /\ \E v \in localUnacked[p] : u.id = v.id /\ u.k = v.k /\ u.acks = v.acks
      <3> TAKE u \in localUnacked'[p]
      <3>1. CASE u \in localUnacked[p]
        BY <3>1, <1>1
      <3>2. CASE \E v \in due : u = [v EXCEPT !.attempts = @ + 1]
        BY <3>2, <2>5, <2>7
      <3> QED BY <3>1, <3>2, <2>6
    <2>9. \A v \in localUnacked[p] : \E u \in localUnacked'[p] : u.k = v.k
      <3> TAKE v \in localUnacked[p]
      <3>1. CASE v \notin due
        BY <3>1, <2>6
      <3>2. CASE v \in due
        <4>1. [v EXCEPT !.attempts = @ + 1] \in localUnacked'[p]
          BY <3>2, <2>6
        <4>2. [v EXCEPT !.attempts = @ + 1].k = v.k
          BY <3>2, <2>5, <2>7
        <4> QED BY <4>1, <4>2
      <3> QED BY <3>1, <3>2
    <2>10. localUnacked' \in [Peer -> SUBSET Unacked]
      <3>1. localUnacked'[p] \in SUBSET Unacked
        BY <2>8
      <3>2. localUnacked' = [localUnacked EXCEPT ![p] = localUnacked'[p]]
        BY <2>1, <2>6, <1>1
      <3> QED BY <3>1, <3>2, <1>1
    <2>11. \A q \in Peer : \A u \in localUnacked'[q] : \E v \in localUnacked[q] :
              u.id = v.id /\ u.k = v.k /\ u.acks = v.acks
      BY <2>6, <2>8
    <2>12. \A q \in Peer : \A v \in localUnacked[q] : \E u \in localUnacked'[q] : u.k = v.k
      BY <2>6, <2>9
    <2> QED BY <2>1, <2>3, <2>4, <2>10, <2>11, <2>12, <1>1, <1>4, SenderStepInv
  <1> QED BY <1>3, <1>7, <1>8

\* A set with at most one element has no two.
LEMMA AtMostOneElement ==
    ASSUME NEW S, IsFiniteSet(S), Cardinality(S) <= 1, NEW x \in S, NEW y \in S
    PROVE  x = y
  <1> SUFFICES ASSUME x # y PROVE FALSE
    OBVIOUS
  <1>1. IsFiniteSet({x}) /\ Cardinality({x}) = 1
    BY FS_Singleton
  <1>2. Cardinality({x} \cup {y}) = 2
    <2>1. y \notin {x}
      OBVIOUS
    <2>2. Cardinality({x} \cup {y}) =
            IF y \in {x} THEN Cardinality({x}) ELSE Cardinality({x}) + 1
      BY <1>1, FS_AddElement, ZenonT(60)
    <2>3. Cardinality({x} \cup {y}) = Cardinality({x}) + 1
      BY <2>1, <2>2
    <2> QED BY <1>1, <2>3
  <1>3. {x} \cup {y} \in SUBSET S
    OBVIOUS
  <1>4. Cardinality({x} \cup {y}) <= Cardinality(S)
    BY <1>3, FS_Subset
  <1>5. Cardinality(S) \in Nat
    BY FS_CardinalityType
  <1> QED BY <1>2, <1>4, <1>5

LEMMA RecvDatagramInv ==
    ASSUME MaxReliable = 1, IInv, NEW p \in Peer, RecvDatagram(p)
    PROVE  IInv'
  <1>0. TypeOK /\ SendInv /\ NetInv /\ UnackedInv /\ RxInv /\ HeldInv /\ StoreInv /\ AckInv
        /\ DelayedInv /\ DeliveredInv /\ InOrder /\ ForgottenOnlyIfAccepted
    BY DEF IInv
  <1>1. /\ net \in SUBSET Packets
        /\ rx \in [Peer -> Seq(Packets)]
    BY <1>0 DEF TypeOK
  <1> DEFINE From == {m \in net : m.src = Other(p)}
  <1>2. PICK n \in 1..Packed(p) :
           \E d \in [1..n -> From] :
              /\ Cardinality({i \in 1..n : d[i].id # 0}) <= MaxReliable
              /\ rx' = [rx EXCEPT ![p] = d]
              /\ net' = IF Duplicates THEN net ELSE net \ {d[i] : i \in 1..n}
    BY DEF RecvDatagram
  <1>3. PICK d \in [1..n -> From] :
              /\ Cardinality({i \in 1..n : d[i].id # 0}) <= MaxReliable
              /\ rx' = [rx EXCEPT ![p] = d]
              /\ net' = IF Duplicates THEN net ELSE net \ {d[i] : i \in 1..n}
    BY <1>2
  <1>4. /\ n \in Nat /\ n > 0 /\ d \in Seq(Packets) /\ Len(d) = n /\ d # <<>>
        /\ \A i \in 1..n : d[i] \in net /\ d[i].src = Other(p)
    <2>1. n \in Nat /\ n > 0
      BY LimitAssumption DEF Packed
    <2>2. \A i \in 1..n : d[i] \in net /\ d[i].src = Other(p)
      OBVIOUS
    <2>3. d \in [1..n -> Packets]
      BY <2>2, <1>1
    <2>4. d \in Seq(Packets) /\ Len(d) = n
      BY <2>1, <2>3
    <2>5. d # <<>>
      BY <2>1, <2>4
    <2> QED BY <2>1, <2>2, <2>4, <2>5
  <1> HIDE DEF From
  <1>a. \A i, j \in 1..n : d[i].id # 0 /\ d[j].id # 0 => i = j
    <2> DEFINE R == {i \in 1..n : d[i].id # 0}
    <2>1. R \in SUBSET (1..n)
      OBVIOUS
    <2>2. IsFiniteSet(1..n)
      BY <1>4, FS_Interval
    <2>3. IsFiniteSet(R)
      BY <2>1, <2>2, FS_Subset
    <2>4. Cardinality(R) <= 1
      BY <1>3
    <2>5. \A i, j \in R : i = j
      <3> HIDE DEF R
      <3> QED BY <2>3, <2>4, AtMostOneElement
    <2> QED BY <2>5
  <1>5. net' \subseteq net
    BY <1>3
  <1>6. UNCHANGED <<failed, sent, nextLocalId, localUnacked, nextRemoteId, remoteUnacked,
                    outOfOrder, delayed, toReturn, pending, delivered>>
    BY DEF RecvDatagram, outVars, storeVars
  <1>b. /\ rx'[p] = d
        /\ \A q \in Peer : q # p => rx'[q] = rx[q]
        /\ rx' \in [Peer -> Seq(Packets)]
    BY <1>1, <1>3, <1>4
  <1>7. TypeOK'
    <2>1. net' \in SUBSET Packets
      BY <1>1, <1>5
    <2> QED BY <2>1, <1>b, <1>0, <1>6 DEF TypeOK
  <1>8. \A m : PacketOK(m) => PacketOK(m)'
    BY <1>6 DEF PacketOK
  <1>9. NetInv'
    BY <1>0, <1>5, <1>8 DEF NetInv
  <1>10. RxInv'
    <2> SUFFICES ASSUME NEW q \in Peer
                 PROVE  /\ rx'[q] = <<>> => toReturn'[q] = None
                        /\ \A i \in 1..Len(rx'[q]) :
                              rx'[q][i].src = Other(q) /\ PacketOK(rx[q][i])'
                        /\ \A i, j \in 1..Len(rx'[q]) :
                              rx'[q][i].id # 0 /\ rx'[q][j].id # 0 => i = j
      BY DEF RxInv
    <2>1. CASE q = p
      <3>1. ASSUME NEW i \in 1..n PROVE PacketOK(rx[p][i])'
        <4>1. PacketOK(d[i])'
          BY <1>0, <1>4, <1>8 DEF NetInv
        <4>2. (rx[p][i])' = d[i]
          BY <1>b
        <4> QED BY <4>1, <4>2 DEF PacketOK
      <3> QED BY <2>1, <3>1, <1>4, <1>a, <1>b
    <2>2. CASE q # p
      BY <2>2, <1>0, <1>6, <1>8, <1>b, RxStable
    <2> QED BY <2>1, <2>2
  <1>c. HeldInv'
    <2> SUFFICES ASSUME NEW q \in Peer PROVE HeldOK(q)'
      BY DEF HeldInv
    <2>1. CASE q = p
      <3>1. rx[p] = <<>> /\ pending[p] = <<>> /\ delayed[p] = <<>>
        BY DEF RecvDatagram, Idle
      <3>2. toReturn[p] = None
        BY <3>1, <1>0 DEF RxInv
      <3>3. Nothing(toReturn[p], pending[p])
        BY <3>1, <3>2 DEF Nothing, None
      <3>4. HeldOK(p)
        BY <1>0 DEF HeldInv
      <3> QED BY <2>1, <3>1, <3>3, <3>4, <1>6 DEF HeldOK
    <2>2. CASE q # p
      BY <2>2, <1>0, <1>6, <1>b, HeldStable DEF HeldInv
    <2> QED BY <2>1, <2>2
  <1>11. SendInv' /\ UnackedInv' /\ StoreInv' /\ AckInv'
    BY <1>0, <1>6 DEF SendInv, UnackedInv, StoreInv, AckInv
  <1>12. DelayedInv' /\ DeliveredInv' /\ InOrder' /\ ForgottenOnlyIfAccepted'
    BY <1>0, <1>6 DEF DelayedInv, DeliveredInv, InOrder, ForgottenOnlyIfAccepted
  <1> QED BY <1>7, <1>9, <1>10, <1>c, <1>11, <1>12 DEF IInv

\* Only end p's side of the application changes, and by one message at most.
ReturnsAt(p) ==
    /\ toReturn' \in [Peer -> Nat \cup {None}]
    /\ pending' \in [Peer -> Seq(Nat)]
    /\ delivered' \in [Peer -> Seq(Nat)]
    /\ \A q \in Peer : q # p => /\ toReturn'[q] = toReturn[q]
                                /\ pending'[q] = pending[q]
                                /\ delivered'[q] = delivered[q]

\* One message of the datagram is done with, or the whole datagram is.
ShortensRx(p) ==
    /\ \/ rx' = [rx EXCEPT ![p] = Tail(@)]
       \/ rx' = [rx EXCEPT ![p] = <<>>]
    /\ rx'[p] = <<>> => toReturn'[p] = None

\* Nothing is handed over and the same message is held, if any.
Keeps(p) ==
    /\ delivered'[p] = delivered[p]
    /\ Single(toReturn'[p], pending'[p])
    /\ \A k \in Nat : Holds(toReturn'[p], pending'[p], k) <=> Holds(toReturn[p], pending[p], k)

\* Message k, and no other, is held from now on.
Takes(p, k) ==
    /\ delivered'[p] = delivered[p]
    /\ Single(toReturn'[p], pending'[p])
    /\ \A j \in Nat : Holds(toReturn'[p], pending'[p], j) <=> (j = k)

\* Message k is handed over and nothing is held any more.
Gives(p, k) ==
    /\ k > 0
    /\ delivered'[p] = Append(delivered[p], k)
    /\ Nothing(toReturn'[p], pending'[p])

\* What is held is dropped with the datagram.
Loses(p) ==
    /\ delivered'[p] = delivered[p]
    /\ Nothing(toReturn'[p], pending'[p])

\* What is left of a datagram once a message of it was processed.
LEMMA RxShortened ==
    ASSUME TypeOK, RxInv, NEW p \in Peer, rx[p] # <<>>, ShortensRx(p)
    PROVE  /\ rx' \in [Peer -> Seq(Packets)]
           /\ \A q \in Peer : q # p => rx'[q] = rx[q]
           /\ \A i \in 1..Len(rx'[p]) : i + 1 \in 1..Len(rx[p]) /\ rx'[p][i] = rx[p][i + 1]
           /\ ReliableLeft(p)' => ReliableLeft(p) /\ Head(rx[p]).id = 0
  <1>1. rx \in [Peer -> Seq(Packets)]
    BY DEF TypeOK
  <1> DEFINE s == rx[p]
  <1>2. s \in Seq(Packets) /\ s # <<>>
    BY <1>1
  <1>3. /\ Tail(s) \in Seq(Packets) /\ Head(s) = s[1] /\ Len(s) \in Nat /\ 1 \in 1..Len(s)
        /\ Len(Tail(s)) = Len(s) - 1
        /\ \A i \in 1..(Len(s) - 1) : Tail(s)[i] = s[i + 1] /\ i + 1 \in 1..Len(s)
    <2> HIDE DEF s
    <2> QED BY <1>2
  <1>4. /\ rx' \in [Peer -> Seq(Packets)]
        /\ \A q \in Peer : q # p => rx'[q] = rx[q]
        /\ rx'[p] = Tail(s) \/ rx'[p] = <<>>
    <2>1. CASE rx' = [rx EXCEPT ![p] = Tail(@)]
      <3>1. rx' = [rx EXCEPT ![p] = Tail(s)]
        BY <2>1
      <3> QED BY <3>1, <1>1, <1>3
    <2>2. CASE rx' = [rx EXCEPT ![p] = <<>>]
      BY <2>2, <1>1
    <2> QED BY <2>1, <2>2 DEF ShortensRx
  <1>5. \A i \in 1..Len(rx'[p]) : i + 1 \in 1..Len(s) /\ rx'[p][i] = s[i + 1]
    <2>1. CASE rx'[p] = Tail(s)
      BY <2>1, <1>3
    <2>2. CASE rx'[p] = <<>>
      BY <2>2
    <2> QED BY <2>1, <2>2, <1>4
  <1>6. ASSUME ReliableLeft(p)' PROVE ReliableLeft(p) /\ s[1].id = 0
    <2>1. PICK i \in 1..Len(rx'[p]) : rx'[p][i].id # 0
      BY <1>6 DEF ReliableLeft
    <2>2. i + 1 \in 1..Len(s) /\ s[i + 1].id # 0 /\ i + 1 # 1
      BY <2>1, <1>5
    <2>3. \A j, k \in 1..Len(s) : s[j].id # 0 /\ s[k].id # 0 => j = k
      BY DEF RxInv
    <2>4. s[1].id = 0
      BY <2>2, <2>3, <1>3
    <2> QED BY <2>2, <2>4 DEF ReliableLeft
  <1> QED BY <1>3, <1>4, <1>5, <1>6

\* What processing one message shares, whatever the store decides about it.
LEMMA ProcessStepInv ==
    ASSUME IInv, NEW p \in Peer, NEW m \in Packets, m.src = Other(p), PacketOK(m),
           UNCHANGED <<net, sent, nextLocalId>>,
           AckLocal(p, m),
           rx[p] # <<>>, ReturnsAt(p), ShortensRx(p), HeldOK(p)',
           failed' \in [Peer -> BOOLEAN],
           \A q \in Peer : failed[q] => failed'[q],
           nextRemoteId' \in [Peer -> 1..(IdModulus - 1)],
           \A q \in Peer : nextRemoteId[q] <= nextRemoteId'[q],
           \A q \in Peer : q # p => /\ delayed'[q] = delayed[q]
                                    /\ nextRemoteId'[q] = nextRemoteId[q],
           outOfOrder' \in [Peer -> SUBSET Packets],
           remoteUnacked' \in [Peer -> Seq(Nat)],
           delayed' \in [Peer -> Seq(Packets)],
           StoreInv', AckInv', DelayedInv', DeliveredInv', InOrder'
    PROVE  IInv'
  <1>0. TypeOK /\ SendInv /\ NetInv /\ UnackedInv /\ RxInv /\ HeldInv
        /\ ForgottenOnlyIfAccepted
    BY DEF IInv
  <1>1. /\ net \in SUBSET Packets
        /\ localUnacked \in [Peer -> SUBSET Unacked]
        /\ rx \in [Peer -> Seq(Packets)]
        /\ nextRemoteId \in [Peer -> 1..(IdModulus - 1)]
        /\ sent \in [Peer -> Nat]
    BY <1>0 DEF TypeOK
  <1>2. /\ localUnacked' \in [Peer -> SUBSET Unacked]
        /\ \A q \in Peer : localUnacked'[q] \subseteq localUnacked[q]
        /\ \A q \in Peer : q # p => localUnacked'[q] = localUnacked[q]
        /\ \A u \in localUnacked[p] : u \in localUnacked'[p] \/ u.id \in m.acks
    BY <1>1 DEF AckLocal
  <1>3. /\ rx' \in [Peer -> Seq(Packets)]
        /\ \A q \in Peer : q # p => rx'[q] = rx[q]
        /\ \A i \in 1..Len(rx'[p]) : i + 1 \in 1..Len(rx[p]) /\ rx'[p][i] = rx[p][i + 1]
    BY <1>0, RxShortened
  <1>4. TypeOK'
    BY <1>0, <1>2, <1>3 DEF TypeOK, ReturnsAt
  <1>5. SendInv'
    BY <1>0 DEF SendInv
  <1>6. \A x \in Packets : PacketOK(x) => PacketOK(x)'
    <2> SUFFICES ASSUME NEW x \in Packets, PacketOK(x) PROVE PacketOK(x)'
      OBVIOUS
    <2>1. \A q \in Peer : sent[q] <= sent'[q]
      BY <1>1
    <2> QED BY <1>0, <1>4, <2>1, PacketOKStable
  <1>7. NetInv'
    BY <1>0, <1>1, <1>6 DEF NetInv
  <1>8. UnackedInv'
    <2> SUFFICES ASSUME NEW q \in Peer, NEW u \in localUnacked'[q]
                 PROVE  u.id = u.k /\ u.k \in 1..sent'[q] /\ \A a \in u.acks : a < nextRemoteId'[q]
      BY DEF UnackedInv
    <2>1. u \in localUnacked[q] /\ u.acks \in SUBSET Nat
      BY <1>1, <1>2 DEF Unacked
    <2>2. u.id = u.k /\ u.k \in 1..sent[q] /\ \A a \in u.acks : a < nextRemoteId[q]
      BY <2>1, <1>0 DEF UnackedInv
    <2>3. nextRemoteId[q] \in Int /\ nextRemoteId'[q] \in Int /\ nextRemoteId[q] <= nextRemoteId'[q]
      BY <1>1
    <2> QED BY <2>1, <2>2, <2>3
  <1>9. RxInv'
    <2> SUFFICES ASSUME NEW q \in Peer
                 PROVE  /\ rx'[q] = <<>> => toReturn'[q] = None
                        /\ \A i \in 1..Len(rx'[q]) :
                              rx'[q][i].src = Other(q) /\ PacketOK(rx[q][i])'
                        /\ \A i, j \in 1..Len(rx'[q]) :
                              rx'[q][i].id # 0 /\ rx'[q][j].id # 0 => i = j
      BY DEF RxInv
    <2>1. CASE q = p
      <3>1. rx'[p] = <<>> => toReturn'[p] = None
        BY DEF ShortensRx
      <3>2. ASSUME NEW i \in 1..Len(rx'[p])
            PROVE  rx'[p][i].src = Other(p) /\ PacketOK(rx[p][i])'
        <4>1. PICK x \in Packets : x = rx[p][i + 1]
          BY <1>1, <1>3
        <4>2. x.src = Other(p) /\ PacketOK(x)
          BY <4>1, <1>0, <1>3 DEF RxInv
        <4>3. PacketOK(x)'
          BY <4>2, <1>6
        <4>4. (rx[p][i])' = x
          BY <4>1, <1>3
        <4> QED BY <4>2, <4>3, <4>4 DEF PacketOK
      <3>3. ASSUME NEW i \in 1..Len(rx'[p]), NEW j \in 1..Len(rx'[p]),
                   rx'[p][i].id # 0, rx'[p][j].id # 0
            PROVE  i = j
        <4>1. /\ i + 1 \in 1..Len(rx[p]) /\ rx[p][i + 1].id # 0
              /\ j + 1 \in 1..Len(rx[p]) /\ rx[p][j + 1].id # 0
          BY <3>3, <1>3
        <4>2. \A a, b \in 1..Len(rx[p]) : rx[p][a].id # 0 /\ rx[p][b].id # 0 => a = b
          BY <1>0 DEF RxInv
        <4>3. i + 1 = j + 1
          BY <4>1, <4>2
        <4>4. i \in Int /\ j \in Int
          OBVIOUS
        <4> QED BY <4>3, <4>4
      <3> QED BY <2>1, <3>1, <3>2, <3>3
    <2>2. CASE q # p
      BY <2>2, <1>0, <1>3, <1>6, RxStable DEF ReturnsAt
    <2> QED BY <2>1, <2>2
  <1>11. HeldInv'
    <2> SUFFICES ASSUME NEW q \in Peer, q # p PROVE HeldOK(q)'
      BY DEF HeldInv
    <2> QED BY <1>0, <1>3, HeldStable DEF HeldInv, ReturnsAt
  <1>10. ForgottenOnlyIfAccepted'
    <2> SUFFICES ASSUME NEW q \in Peer, NEW k \in 1..sent'[q], ~failed'[q]
                 PROVE  \/ \E u \in localUnacked'[q] : u.k = k
                        \/ k < nextRemoteId'[Other(q)]
      BY DEF ForgottenOnlyIfAccepted
    <2>0. Other(q) \in Peer /\ k \in Nat
      <3>1. sent'[q] \in Nat
        BY <1>1
      <3> QED BY <3>1, OtherFacts
    <2>1. /\ nextRemoteId[Other(q)] \in Int /\ nextRemoteId'[Other(q)] \in Int
          /\ nextRemoteId[Other(q)] <= nextRemoteId'[Other(q)]
      BY <2>0, <1>1
    <2>2. CASE k < nextRemoteId[Other(q)]
      BY <2>0, <2>1, <2>2
    <2>3. CASE \E u \in localUnacked[q] : u.k = k
      <3>1. PICK u \in localUnacked[q] : u.k = k
        BY <2>3
      <3>2. CASE u \in localUnacked'[q]
        BY <3>1, <3>2
      <3>3. CASE u \notin localUnacked'[q]
        <4>1. q = p /\ u.id \in m.acks
          BY <3>3, <1>2
        <4>2. u.id = k
          BY <3>1, <1>0 DEF UnackedInv
        <4>3. k < nextRemoteId[Other(q)]
          BY <4>1, <4>2 DEF PacketOK
        <4> QED BY <4>3, <2>2
      <3> QED BY <3>2, <3>3
    <2>4. \/ \E u \in localUnacked[q] : u.k = k
          \/ k < nextRemoteId[Other(q)]
      BY <1>0 DEF ForgottenOnlyIfAccepted
    <2> QED BY <2>2, <2>3, <2>4
  <1> QED BY <1>4, <1>5, <1>7, <1>8, <1>9, <1>10, <1>11 DEF IInv

\* The message of a datagram that is processed now; when it is reliable, nothing
\* is held or delayed.
LEMMA HeadFacts ==
    ASSUME IInv, NEW p \in Peer, rx[p] # <<>>
    PROVE  /\ Head(rx[p]) \in Packets
           /\ Head(rx[p]).src = Other(p)
           /\ PacketOK(Head(rx[p]))
           /\ Head(rx[p]).id # 0 => /\ delayed[p] = <<>>
                                    /\ Nothing(toReturn[p], pending[p])
  <1>1. rx[p] \in Seq(Packets)
    BY DEF IInv, TypeOK
  <1>2. 1 \in 1..Len(rx[p]) /\ Head(rx[p]) = rx[p][1] /\ rx[p][1] \in Packets
    BY <1>1
  <1>3. rx[p][1].src = Other(p) /\ PacketOK(rx[p][1])
    BY <1>2 DEF IInv, RxInv
  <1>4. rx[p][1].id # 0 => delayed[p] = <<>> /\ Nothing(toReturn[p], pending[p])
    BY <1>2 DEF IInv, HeldInv, HeldOK, ReliableLeft
  <1> QED BY <1>2, <1>3, <1>4

\* The types of what SkipMessage, DropDatagram and ReturnMessage leave behind.
LEMMA ReturnTypes ==
    ASSUME TypeOK, NEW p \in Peer, NEW k \in Nat,
           SkipMessage(p) \/ DropDatagram(p) \/ ReturnMessage(p, k)
    PROVE  ReturnsAt(p) /\ ShortensRx(p)
  <1>1. /\ toReturn \in [Peer -> Nat \cup {None}]
        /\ pending \in [Peer -> Seq(Nat)]
        /\ delivered \in [Peer -> Seq(Nat)]
        /\ rx \in [Peer -> Seq(Packets)]
    BY DEF TypeOK
  <1>2. \A x \in Nat \cup {None} :
           /\ Handed(p, x) \in [Peer -> Seq(Nat)]
           /\ \A q \in Peer : q # p => Handed(p, x)[q] = delivered[q]
    <2> TAKE x \in Nat \cup {None}
    <2>1. CASE x > 0
      <3>1. x \in Nat /\ delivered[p] \in Seq(Nat)
        BY <2>1, <1>1 DEF None
      <3>2. Append(delivered[p], x) \in Seq(Nat)
        BY <3>1
      <3>3. Handed(p, x) = [delivered EXCEPT ![p] = Append(delivered[p], x)]
        BY <2>1 DEF Handed
      <3> QED BY <3>2, <3>3, <1>1
    <2>2. CASE ~(x > 0)
      BY <2>2, <1>1 DEF Handed
    <2> QED BY <2>1, <2>2
  <1>3. toReturn[p] \in Nat \cup {None}
    BY <1>1
  <1>4. delivered' = delivered \/ \E x \in Nat \cup {None} : delivered' = Handed(p, x)
    BY <1>3 DEF SkipMessage, DropDatagram, ReturnMessage
  <1>5. /\ delivered' \in [Peer -> Seq(Nat)]
        /\ \A q \in Peer : q # p => delivered'[q] = delivered[q]
    BY <1>1, <1>2, <1>4
  <1>6. \E x \in Nat \cup {None} : toReturn' = [toReturn EXCEPT ![p] = x]
    <2>1. toReturn = [toReturn EXCEPT ![p] = toReturn[p]]
      BY <1>1
    <2> QED BY <2>1, <1>3 DEF SkipMessage, DropDatagram, ReturnMessage
  <1>7. /\ toReturn' \in [Peer -> Nat \cup {None}]
        /\ \A q \in Peer : q # p => toReturn'[q] = toReturn[q]
    BY <1>1, <1>6
  <1>8. pending' = pending \/ pending' = [pending EXCEPT ![p] = Append(pending[p], k)]
    BY DEF SkipMessage, DropDatagram, ReturnMessage
  <1>9. /\ pending' \in [Peer -> Seq(Nat)]
        /\ \A q \in Peer : q # p => pending'[q] = pending[q]
    <2>1. Append(pending[p], k) \in Seq(Nat)
      <3>1. pending[p] \in Seq(Nat)
        BY <1>1
      <3> QED BY <3>1
    <2> QED BY <2>1, <1>1, <1>8
  <1>10. ShortensRx(p)
    BY <1>1 DEF SkipMessage, DropDatagram, ReturnMessage, ShortensRx
  <1> QED BY <1>5, <1>7, <1>9, <1>10 DEF ReturnsAt

\* Going on to the next message, or abandoning the datagram, when nothing is held.
LEMMA SkipFacts ==
    ASSUME TypeOK, NEW p \in Peer, Nothing(toReturn[p], pending[p]),
           SkipMessage(p) \/ DropDatagram(p)
    PROVE  ReturnsAt(p) /\ ShortensRx(p) /\ Keeps(p)
  <1> DEFINE t == toReturn[p]
             s == pending[p]
  <1>1. ReturnsAt(p) /\ ShortensRx(p)
    BY ReturnTypes, 0 \in Nat
  <1>2. /\ toReturn \in [Peer -> Nat \cup {None}] /\ pending \in [Peer -> Seq(Nat)]
        /\ t \in Nat \cup {None} /\ s \in Seq(Nat)
    BY DEF TypeOK
  <1>3. delivered' = delivered
    <2>1. ~(t > 0)
      BY <1>2 DEF Nothing, None
    <2> QED BY <2>1 DEF SkipMessage, DropDatagram, Handed
  <1>4. pending'[p] = s /\ (toReturn'[p] = t \/ toReturn'[p] = None)
    BY <1>2 DEF SkipMessage, DropDatagram
  <1> HIDE DEF t, s
  <1>5. Nothing(t, s)
    BY DEF t, s
  <1>6. /\ Single(toReturn'[p], s)
        /\ \A k \in Nat : Holds(toReturn'[p], s, k) <=> Holds(t, s, k)
    <2>1. CASE toReturn'[p] = t
      BY <2>1, <1>2, <1>5, HeldFacts
    <2>2. CASE toReturn'[p] = None
      <3>1. ~(t > 0)
        BY <1>5, <1>2 DEF Nothing, None
      <3>2. Single(t, s)
        BY <1>2, <1>5, HeldFacts
      <3> QED BY <2>2, <3>1, <3>2, <1>2, HeldReturn
    <2> QED BY <2>1, <2>2, <1>4
  <1> QED BY <1>1, <1>3, <1>4, <1>6 DEF Keeps, t, s

\* A reliable message is handed over at once, held until the end of the datagram,
\* or cannot be decoded.
LEMMA ReturnReliable ==
    ASSUME TypeOK, NEW p \in Peer, Nothing(toReturn[p], pending[p]),
           NEW m \in Packets, m.k > 0, DecodeAndReturn(p, m)
    PROVE  /\ ReturnsAt(p) /\ ShortensRx(p)
           /\ \/ m.k \in Undecodable[m.src] /\ Keeps(p)
              \/ Takes(p, m.k)
              \/ Gives(p, m.k)
  <1> DEFINE t == toReturn[p]
             s == pending[p]
             k == m.k
  <1>1. /\ toReturn \in [Peer -> Nat \cup {None}] /\ pending \in [Peer -> Seq(Nat)]
        /\ delivered \in [Peer -> Seq(Nat)]
        /\ t \in Nat \cup {None} /\ s \in Seq(Nat) /\ k \in Nat /\ k > 0
    BY DEF TypeOK, Packets
  <1>2. CASE k \in Undecodable[m.src] /\ DropDatagram(p)
    BY <1>2, SkipFacts
  <1>3. CASE ReturnMessage(p, k)
    <2>1. ReturnsAt(p) /\ ShortensRx(p)
      BY <1>1, <1>3, ReturnTypes
    <2>2. CASE t = None
      <3>1. pending'[p] = s
        BY <1>3, <2>2 DEF ReturnMessage
      <3>2. \/ toReturn'[p] = None /\ delivered' = Handed(p, k)
            \/ toReturn'[p] = k /\ delivered' = delivered
        BY <1>1, <1>3, <2>2 DEF ReturnMessage
      <3>3. Handed(p, k)[p] = Append(delivered[p], k)
        BY <1>1 DEF Handed
      <3> HIDE DEF t, s, k
      <3>4. Nothing(t, s)
        BY DEF t, s
      <3>5. /\ Nothing(None, s)
            /\ Single(k, s)
            /\ \A j \in Nat : Holds(k, s, j) <=> (j = k /\ k > 0)
        BY <3>4, <1>1, HeldReturn
      <3>6. Takes(p, k) \/ Gives(p, k)
        BY <3>1, <3>2, <3>3, <3>5, <1>1 DEF Takes, Gives
      <3> QED BY <3>6, <2>1 DEF k
    <2>3. CASE t # None
      <3>0. t = 0
        BY <2>3, <1>1 DEF Nothing, None
      <3>1. pending'[p] = Append(s, k)
        BY <1>1, <1>3, <2>3 DEF ReturnMessage
      <3>2. /\ toReturn'[p] = None \/ toReturn'[p] = t
            /\ delivered' = delivered
        BY <1>1, <1>3, <2>3, <3>0 DEF ReturnMessage, Handed
      <3> HIDE DEF t, s, k
      <3>4. Nothing(t, s) /\ Nothing(None, s)
        BY <1>1, HeldReturn DEF t, s
      <3>5. ASSUME NEW x \in Nat \cup {None}, Nothing(x, s)
            PROVE  /\ Single(x, Append(s, k))
                   /\ \A j \in Nat : Holds(x, Append(s, k), j) <=> (j = k)
        BY <3>5, <1>1, HeldAppend, HeldFacts
      <3>6. Takes(p, k)
        BY <3>1, <3>2, <3>4, <3>5, <1>1 DEF Takes
      <3> QED BY <3>6, <2>1 DEF k
    <2> QED BY <2>2, <2>3
  <1> QED BY <1>2, <1>3 DEF DecodeAndReturn

\* An unreliable message leaves what is held alone; at the end of the datagram the
\* message to return is handed over, and it is lost when decoding fails.
LEMMA ReturnUnreliable ==
    ASSUME TypeOK, NEW p \in Peer, Single(toReturn[p], pending[p]),
           NEW m \in Packets, m.k = 0, DecodeAndReturn(p, m)
    PROVE  /\ ReturnsAt(p) /\ ShortensRx(p)
           /\ \/ Keeps(p)
              \/ \E k \in Nat : Holds(toReturn[p], pending[p], k) /\ Gives(p, k)
              \/ /\ 0 \in Undecodable[m.src]
                 /\ ~Nothing(toReturn[p], pending[p])
                 /\ Loses(p)
  <1> DEFINE t == toReturn[p]
             s == pending[p]
  <1>1. /\ toReturn \in [Peer -> Nat \cup {None}] /\ pending \in [Peer -> Seq(Nat)]
        /\ delivered \in [Peer -> Seq(Nat)]
        /\ t \in Nat \cup {None} /\ s \in Seq(Nat)
    BY DEF TypeOK
  <1>0. ReturnsAt(p) /\ ShortensRx(p)
    BY ReturnTypes, 0 \in Nat DEF DecodeAndReturn
  <1>a. Single(t, s)
    OBVIOUS
  <1>2. CASE 0 \in Undecodable[m.src] /\ DropDatagram(p)
    <2>1. toReturn'[p] = None /\ pending'[p] = s /\ delivered'[p] = delivered[p]
      BY <1>1, <1>2 DEF DropDatagram
    <2> HIDE DEF t, s
    <2>2. CASE t > 0
      <3>1. Nothing(None, s)
        BY <2>2, <1>1, <1>a, HeldReturn
      <3>2. Loses(p)
        BY <2>1, <3>1 DEF Loses
      <3>3. ~Nothing(t, s)
        BY <2>2, <1>1 DEF Nothing, None
      <3> QED BY <3>2, <3>3, <1>0, <1>2 DEF t, s
    <2>3. CASE ~(t > 0)
      <3>1. Single(None, s) /\ \A k \in Nat : Holds(None, s, k) <=> Holds(t, s, k)
        BY <2>3, <1>1, <1>a, HeldReturn
      <3>2. Keeps(p)
        BY <2>1, <3>1 DEF Keeps, t, s
      <3> QED BY <3>2, <1>0
    <2> QED BY <2>2, <2>3
  <1>3. CASE ReturnMessage(p, 0)
    <2>1. CASE t = None
      <3>1. pending'[p] = s /\ delivered'[p] = delivered[p]
            /\ (toReturn'[p] = None \/ toReturn'[p] = 0)
        BY <1>1, <1>3, <2>1 DEF ReturnMessage, Handed
      <3>2. ~(t > 0)
        BY <2>1 DEF None
      <3> HIDE DEF t, s
      <3>3. /\ Single(None, s) /\ Single(0, s)
            /\ \A k \in Nat : /\ Holds(None, s, k) <=> Holds(t, s, k)
                              /\ Holds(0, s, k) <=> Holds(t, s, k)
        BY <3>2, <1>1, <1>a, HeldReturn
      <3>4. Keeps(p)
        BY <3>1, <3>3 DEF Keeps, t, s
      <3> QED BY <3>4, <1>0
    <2>2. CASE t # None
      <3>1. pending'[p] = Append(s, 0)
        BY <1>1, <1>3, <2>2 DEF ReturnMessage
      <3>2. \/ toReturn'[p] = t /\ delivered' = delivered
            \/ toReturn'[p] = None /\ delivered' = Handed(p, t)
        BY <1>1, <1>3, <2>2 DEF ReturnMessage
      <3>3. /\ t > 0 => Handed(p, t)[p] = Append(delivered[p], t)
            /\ ~(t > 0) => Handed(p, t) = delivered
        BY <1>1 DEF Handed
      <3> HIDE DEF t, s
      <3>4. ASSUME NEW x \in Nat \cup {None}, Single(x, s)
            PROVE  /\ Single(x, Append(s, 0))
                   /\ \A k \in Nat : Holds(x, Append(s, 0), k) <=> Holds(x, s, k)
        <4>1. 0 \in Nat /\ ~(0 > 0)
          OBVIOUS
        <4> QED BY <3>4, <4>1, <1>1, HeldAppend
      <3>5. CASE toReturn'[p] = t /\ delivered' = delivered
        <4>1. Keeps(p)
          BY <3>1, <3>4, <3>5, <1>1, <1>a DEF Keeps, t, s
        <4> QED BY <4>1, <1>0
      <3>6. CASE toReturn'[p] = None /\ delivered' = Handed(p, t) /\ t > 0
        <4>1. Nothing(None, s) /\ Holds(t, s, t) /\ t \in Nat
          BY <3>6, <1>1, <1>a, HeldReturn DEF None
        <4>2. Nothing(None, Append(s, 0))
          <5>1. /\ Len(Append(s, 0)) = Len(s) + 1
                /\ \A i \in 1..(Len(s) + 1) :
                      (Append(s, 0)[i] = s[i] /\ i \in 1..Len(s)) \/ Append(s, 0)[i] = 0
            BY <1>1
          <5> QED BY <4>1, <5>1 DEF Nothing
        <4>3. Gives(p, t)
          BY <3>1, <3>3, <3>6, <4>2 DEF Gives
        <4> QED BY <4>1, <4>3, <1>0 DEF t, s
      <3>7. CASE toReturn'[p] = None /\ delivered' = Handed(p, t) /\ ~(t > 0)
        <4>1. /\ Single(None, s)
              /\ \A k \in Nat : Holds(None, s, k) <=> Holds(t, s, k)
          BY <3>7, <1>1, <1>a, HeldReturn
        <4>2. Keeps(p)
          BY <3>1, <3>3, <3>4, <3>7, <4>1 DEF Keeps, t, s
        <4> QED BY <4>2, <1>0
      <3> QED BY <3>2, <3>5, <3>6, <3>7
    <2> QED BY <2>1, <2>2
  <1> QED BY <1>2, <1>3 DEF DecodeAndReturn

\* Accepting a message, or repeating the ack of an old one, with the restored
\* messages that follow: the store invariants hold again.
LEMMA PushInv ==
    ASSUME NoWrap, IInv, NEW p \in Peer, NEW m \in Packets, m.src = Other(p), PacketOK(m),
           m.id > 0, delayed[p] = <<>>,
           NEW next \in Nat, ReturnsAt(p),
           \/ next = nextRemoteId[p] /\ m.id < next /\ delivered'[p] = delivered[p]
           \/ /\ next = nextRemoteId[p] + 1
              /\ m.id = nextRemoteId[p]
              /\ \/ delivered'[p] = delivered[p]
                 \/ delivered'[p] = Append(delivered[p], m.k),
           PushRemoteUnacked(p, m.id, next),
           UNCHANGED sent
    PROVE  /\ nextRemoteId' \in [Peer -> 1..(IdModulus - 1)]
           /\ \A q \in Peer : nextRemoteId[q] <= nextRemoteId'[q]
           /\ \A q \in Peer : q # p => /\ delayed'[q] = delayed[q]
                                       /\ nextRemoteId'[q] = nextRemoteId[q]
           /\ nextRemoteId'[p] - 1 - Len(delayed'[p]) = next - 1
           /\ \A i \in 1..Len(delivered[p]) : delivered[p][i] < nextRemoteId[p]
           /\ outOfOrder' \in [Peer -> SUBSET Packets]
           /\ remoteUnacked' \in [Peer -> Seq(Nat)]
           /\ delayed' \in [Peer -> Seq(Packets)]
           /\ StoreInv' /\ AckInv' /\ DelayedInv' /\ DeliveredInv' /\ InOrder'
  <1> DEFINE nr == nextRemoteId[p]
             S == sent[Other(p)]
  <1>0. TypeOK /\ SendInv /\ StoreInv /\ AckInv /\ DelayedInv /\ DeliveredInv /\ InOrder
    BY DEF IInv
  <1>1. /\ nextRemoteId \in [Peer -> 1..(IdModulus - 1)]
        /\ remoteUnacked \in [Peer -> Seq(Nat)]
        /\ delivered \in [Peer -> Seq(Nat)]
        /\ delayed \in [Peer -> Seq(Packets)]
        /\ outOfOrder \in [Peer -> SUBSET Packets]
        /\ sent \in [Peer -> Nat]
    BY <1>0 DEF TypeOK
  <1>2. /\ nr \in Nat /\ S \in Nat /\ m.id \in Nat /\ m.k = m.id /\ m.id <= S
        /\ IdModulus \in Nat /\ S < IdModulus - 1 /\ nr <= S + 1
    <2>1. Other(p) \in Peer
      BY OtherFacts
    <2>2. m.id \in Nat /\ m.k = m.id /\ m.id <= S
      BY DEF Packets, PacketOK
    <2>3. S \in Nat /\ S <= MaxSends[Other(p)] /\ MaxSends[Other(p)] \in Nat
          /\ IdModulus \in Nat
      BY <2>1, <1>0, <1>1, LimitAssumption DEF SendInv
    <2>4. MaxSends[Other(p)] < IdModulus - 1
      BY <2>1 DEF NoWrap
    <2>5. nr \in Nat /\ nr <= S + 1
      BY <1>0, <1>1 DEF StoreInv
    <2> QED BY <2>2, <2>3, <2>4, <2>5
  <1>3. next \in {nr, nr + 1} /\ next <= S + 1 /\ m.id < next
    BY <1>2
  <1>4. PICK n \in Nat : PushEffect(p, m.id, next, n)
    BY <1>0, <1>2, <1>3, PushFacts
  <1>a. /\ next + n <= S + 1
        /\ nextRemoteId' = [nextRemoteId EXCEPT ![p] = next + n]
        /\ outOfOrder' \in [Peer -> SUBSET Packets]
        /\ \A q \in Peer : outOfOrder'[q] \subseteq outOfOrder[q]
        /\ \A x \in outOfOrder'[p] : next + n < x.id
        /\ remoteUnacked' \in [Peer -> Seq(Nat)]
        /\ \A q \in Peer : q # p => remoteUnacked'[q] = remoteUnacked[q]
        /\ \A i \in 1..Len(remoteUnacked'[p]) :
              \/ i \in 1..Len(remoteUnacked[p])
                 /\ remoteUnacked'[p][i] = remoteUnacked[p][i]
              \/ remoteUnacked'[p][i] = m.id
              \/ remoteUnacked'[p][i] < next + n
        /\ delayed' \in [Peer -> Seq(Packets)]
        /\ \A q \in Peer : q # p => delayed'[q] = delayed[q]
        /\ Len(delayed'[p]) = Len(delayed[p]) + n
        /\ \A i \in 1..n : delayed'[p][Len(delayed[p]) + i].k = next + i - 1
    BY <1>4 DEF PushEffect
  <1>5. nextRemoteId'[p] = next + n /\ \A q \in Peer : q # p => nextRemoteId'[q] = nextRemoteId[q]
    BY <1>1, <1>a
  <1>6. /\ nextRemoteId' \in [Peer -> 1..(IdModulus - 1)]
        /\ \A q \in Peer : nextRemoteId[q] <= nextRemoteId'[q]
    <2>0. next + n <= S + 1
      BY <1>a
    <2>1. next + n \in 1..(IdModulus - 1) /\ nr <= next + n
      BY <2>0, <1>2, <1>3
    <2>2. nextRemoteId' \in [Peer -> 1..(IdModulus - 1)]
      BY <2>1, <1>1, <1>a
    <2>3. \A q \in Peer : nextRemoteId[q] <= nextRemoteId'[q]
      <3> TAKE q \in Peer
      <3>1. nextRemoteId[q] \in Int
        BY <1>1
      <3> QED BY <2>1, <3>1, <1>5
    <2> QED BY <2>2, <2>3
  <1>7. StoreInv'
    <2> SUFFICES ASSUME NEW q \in Peer
                 PROVE  /\ nextRemoteId'[q] <= sent'[Other(q)] + 1
                        /\ \A x \in outOfOrder'[q] :
                              x.id = x.k /\ nextRemoteId'[q] < x.id /\ x.id <= sent'[Other(q)]
      BY DEF StoreInv
    <2>1. \A x \in outOfOrder'[q] : x.id = x.k /\ nextRemoteId[q] < x.id /\ x.id <= sent[Other(q)]
      BY <1>0, <1>a DEF StoreInv
    <2>2. nextRemoteId[q] <= sent[Other(q)] + 1
      BY <1>0 DEF StoreInv
    <2> QED BY <2>1, <2>2, <1>a, <1>5
  <1>8. AckInv'
    <2> SUFFICES ASSUME NEW q \in Peer, NEW i \in 1..Len(remoteUnacked'[q])
                 PROVE  remoteUnacked'[q][i] < nextRemoteId'[q]
      BY DEF AckInv
    <2>1. CASE q # p
      BY <2>1, <1>0, <1>a, <1>5 DEF AckInv
    <2>2. CASE q = p
      <3>1. \A j \in 1..Len(remoteUnacked[p]) :
               remoteUnacked[p][j] \in Nat /\ remoteUnacked[p][j] < nr
        <4> TAKE j \in 1..Len(remoteUnacked[p])
        <4>1. remoteUnacked[p][j] < nr
          BY <1>0 DEF AckInv
        <4>2. remoteUnacked[p][j] \in Nat
          <5>1. remoteUnacked[p] \in Seq(Nat)
            BY <1>1
          <5> QED BY ONLY <5>1, j \in 1..Len(remoteUnacked[p])
        <4> QED BY <4>1, <4>2
      <3>2. remoteUnacked'[p][i] < nr \/ remoteUnacked'[p][i] = m.id
            \/ remoteUnacked'[p][i] < next + n
        BY <2>2, <3>1, <1>a
      <3>3. remoteUnacked'[p][i] \in Nat
        BY <2>2, <1>a
      <3> QED BY <2>2, <3>2, <3>3, <1>2, <1>3, <1>5
    <2> QED BY <2>1, <2>2
  <1>9. Len(delayed[p]) = 0
    OBVIOUS
  <1>10. DelayedInv'
    <2> SUFFICES ASSUME NEW q \in Peer, NEW i \in 1..Len(delayed'[q])
                 PROVE  delayed'[q][i].k = nextRemoteId'[q] - 1 - Len(delayed'[q]) + i
      BY DEF DelayedInv
    <2>1. CASE q # p
      <3>1. delayed'[q] = delayed[q] /\ nextRemoteId'[q] = nextRemoteId[q]
        BY <2>1, <1>a, <1>5
      <3> QED BY <3>1, <1>0 DEF DelayedInv
    <2>2. CASE q = p
      <3>1. Len(delayed'[p]) = n /\ i \in 1..n
        BY <2>2, <1>a, <1>9
      <3>2. delayed'[p][0 + i].k = next + i - 1
        BY <3>1, <1>a, <1>9
      <3>3. delayed'[p][i].k = next + i - 1
        BY <3>1, <3>2
      <3> QED BY <2>2, <3>1, <3>3, <1>5
    <2> QED BY <2>1, <2>2
  <1>11. /\ delivered' \in [Peer -> Seq(Nat)]
         /\ \A q \in Peer : q # p => delivered'[q] = delivered[q]
         /\ \/ delivered'[p] = delivered[p]
            \/ m.k = nr /\ next = nr + 1 /\ delivered'[p] = Append(delivered[p], m.k)
    BY <1>2 DEF ReturnsAt
  <1>12. \A i \in 1..Len(delivered[p]) : delivered[p][i] \in Nat /\ delivered[p][i] < nr
    <2> TAKE i \in 1..Len(delivered[p])
    <2>1. delivered[p][i] < nr - Len(delayed[p])
      BY <1>0 DEF DeliveredInv
    <2>2. delivered[p][i] \in Nat
      <3>1. delivered[p] \in Seq(Nat)
        BY <1>1
      <3> QED BY ONLY <3>1, i \in 1..Len(delivered[p])
    <2> QED BY <2>1, <2>2, <1>2, <1>9
  <1>13. DeliveredInv'
    <2> SUFFICES ASSUME NEW q \in Peer, NEW i \in 1..Len(delivered'[q])
                 PROVE  delivered'[q][i] < nextRemoteId'[q] - Len(delayed'[q])
      BY DEF DeliveredInv
    <2>1. CASE q # p
      BY <2>1, <1>0, <1>a, <1>5, <1>11 DEF DeliveredInv
    <2>2. CASE q = p
      <3>1. nextRemoteId'[p] - Len(delayed'[p]) = next
        BY <1>a, <1>5, <1>9
      <3>2. CASE delivered'[p] = delivered[p]
        BY <2>2, <3>1, <3>2, <1>12, <1>2, <1>3
      <3>3. CASE m.k = nr /\ next = nr + 1 /\ delivered'[p] = Append(delivered[p], m.k)
        <4>1. delivered[p] \in Seq(Nat) /\ m.k \in Nat
          BY <1>1, <1>2
        <4>2. i \in 1..Len(delivered[p]) \/ i = Len(delivered[p]) + 1
          BY <2>2, <3>3, <4>1
        <4>3. delivered'[p][i] \in Nat /\ delivered'[p][i] <= nr
          BY <3>3, <4>1, <4>2, <1>2, <1>12
        <4> QED BY <2>2, <3>1, <3>3, <4>3, <1>2
      <3> QED BY <3>2, <3>3, <1>11
    <2> QED BY <2>1, <2>2
  <1>14. InOrder'
    <2> SUFFICES ASSUME NEW q \in Peer, NEW i \in DOMAIN delivered'[q],
                        NEW j \in DOMAIN delivered'[q], i < j
                 PROVE  delivered'[q][i] < delivered'[q][j]
      BY DEF InOrder
    <2>1. CASE delivered'[q] = delivered[q]
      BY <2>1, <1>0 DEF InOrder
    <2>2. CASE q = p /\ m.k = nr /\ delivered'[p] = Append(delivered[p], m.k)
      <3>1. delivered[p] \in Seq(Nat) /\ m.k \in Nat
        BY <1>1, <1>2
      <3>2. i \in 1..Len(delivered[p]) /\ (j \in 1..Len(delivered[p]) \/ j = Len(delivered[p]) + 1)
        BY <2>2, <3>1
      <3>3. CASE j \in 1..Len(delivered[p])
        <4>1. delivered'[p][i] = delivered[p][i] /\ delivered'[p][j] = delivered[p][j]
          BY <2>2, <3>1, <3>2, <3>3
        <4>2. i \in DOMAIN delivered[p] /\ j \in DOMAIN delivered[p]
          BY <3>1, <3>2, <3>3
        <4> QED BY <2>2, <4>1, <4>2, <1>0 DEF InOrder
      <3>4. CASE j = Len(delivered[p]) + 1
        <4>1. delivered'[p][i] = delivered[p][i] /\ delivered'[p][j] = nr
          BY <2>2, <3>1, <3>2, <3>4
        <4> QED BY <2>2, <4>1, <3>2, <1>12
      <3> QED BY <3>2, <3>3, <3>4
    <2> QED BY <2>1, <2>2, <1>11
  <1>15. nextRemoteId'[p] - 1 - Len(delayed'[p]) = next - 1
    BY <1>2, <1>3, <1>5, <1>9, <1>a
  <1> QED BY <1>a, <1>5, <1>6, <1>7, <1>8, <1>10, <1>12, <1>13, <1>14, <1>15

\* A message that was held is handed over while the store stays as it is: it is
\* newer than all handed over before and older than the delayed ones.
LEMMA GiveInv ==
    ASSUME IInv, NEW p \in Peer, ReturnsAt(p), UNCHANGED <<nextRemoteId, delayed>>,
           \/ delivered'[p] = delivered[p]
           \/ \E k \in Nat : Holds(toReturn[p], pending[p], k) /\ Gives(p, k)
    PROVE  DeliveredInv' /\ InOrder'
  <1>0. TypeOK /\ HeldInv /\ DeliveredInv /\ InOrder
    BY DEF IInv
  <1>1. /\ delivered \in [Peer -> Seq(Nat)] /\ delayed \in [Peer -> Seq(Packets)]
        /\ nextRemoteId \in [Peer -> 1..(IdModulus - 1)]
    BY <1>0 DEF TypeOK
  <1>2. \A q \in Peer : q # p => delivered'[q] = delivered[q]
    BY DEF ReturnsAt
  <1>3. CASE delivered'[p] = delivered[p]
    <2>1. \A q \in Peer : delivered'[q] = delivered[q]
      BY <1>2, <1>3
    <2> QED BY <2>1, <1>0 DEF DeliveredInv, InOrder
  <1>4. ASSUME NEW k \in Nat, Holds(toReturn[p], pending[p], k), Gives(p, k)
        PROVE  DeliveredInv' /\ InOrder'
    <2> DEFINE d == delivered[p]
               e == delivered'[p]
    <2>1. d \in Seq(Nat) /\ e = Append(d, k)
      BY <1>1, <1>4 DEF Gives
    <2>2. /\ k = nextRemoteId[p] - 1 - Len(delayed[p])
          /\ \A i \in 1..Len(d) : d[i] < k
      BY <1>0, <1>4 DEF HeldInv, HeldOK
    <2>a. nextRemoteId[p] \in Int /\ Len(delayed[p]) \in Nat
      BY <1>1
    <2> HIDE DEF d, e
    <2>3. /\ Len(d) \in Nat /\ Len(e) = Len(d) + 1 /\ DOMAIN e = 1..Len(e)
          /\ \A i \in 1..Len(d) : e[i] = d[i] /\ d[i] \in Nat
          /\ e[Len(d) + 1] = k
      BY <2>1
    <2>4. DeliveredInv'
      <3> SUFFICES ASSUME NEW q \in Peer, NEW i \in 1..Len(delivered'[q])
                   PROVE  delivered'[q][i] < nextRemoteId'[q] - Len(delayed'[q])
        BY DEF DeliveredInv
      <3>1. CASE q # p
        BY <3>1, <1>0, <1>2 DEF DeliveredInv
      <3>2. CASE q = p
        <4>1. i \in 1..Len(d) \/ i = Len(d) + 1
          BY <3>2, <2>3 DEF e
        <4>2. e[i] \in Nat /\ e[i] <= k
          BY <4>1, <2>2, <2>3
        <4> QED BY <3>2, <4>2, <2>2, <2>a DEF e
      <3> QED BY <3>1, <3>2
    <2>5. InOrder'
      <3> SUFFICES ASSUME NEW q \in Peer, NEW i \in DOMAIN delivered'[q],
                          NEW j \in DOMAIN delivered'[q], i < j
                   PROVE  delivered'[q][i] < delivered'[q][j]
        BY DEF InOrder
      <3>1. CASE q # p
        BY <3>1, <1>0, <1>2 DEF InOrder
      <3>2. CASE q = p
        <4>1. i \in 1..Len(d) /\ (j \in 1..Len(d) \/ j = Len(d) + 1)
          BY <3>2, <2>3 DEF e
        <4>2. CASE j \in 1..Len(d)
          <5>1. i \in DOMAIN d /\ j \in DOMAIN d
            BY <4>1, <4>2, <2>1
          <5>2. d[i] < d[j]
            BY <5>1, <1>0 DEF InOrder, d
          <5> QED BY <3>2, <4>1, <4>2, <5>2, <2>3 DEF e
        <4>3. CASE j = Len(d) + 1
          BY <3>2, <4>1, <4>3, <2>2, <2>3 DEF e
        <4> QED BY <4>1, <4>2, <4>3
      <3> QED BY <3>1, <3>2
    <2> QED BY <2>4, <2>5
  <1> QED BY <1>3, <1>4

\* An end that holds nothing, and has no reliable message left, is in order.
LEMMA HeldNothing ==
    ASSUME NEW p \in Peer, Nothing(toReturn'[p], pending'[p]),
           toReturn'[p] \in Nat \cup {None}, pending'[p] \in Seq(Nat),
           ReliableLeft(p)' => delayed'[p] = <<>>
    PROVE  HeldOK(p)'
  <1>1. /\ Single(toReturn'[p], pending'[p])
        /\ \A k \in Nat : ~Holds(toReturn'[p], pending'[p], k)
    BY HeldFacts
  <1> QED BY <1>1 DEF HeldOK

\* Holding the same message as before keeps it the last one before the delayed
\* queue; an end that held nothing still holds nothing.
LEMMA KeepsNothing ==
    ASSUME TypeOK, NEW p \in Peer, ReturnsAt(p), Keeps(p)
    PROVE  Nothing(toReturn'[p], pending'[p]) <=> Nothing(toReturn[p], pending[p])
  <1> DEFINE t == toReturn[p]
             s == pending[p]
             tt == toReturn'[p]
             ss == pending'[p]
  <1>1. /\ t \in Nat \cup {None} /\ s \in Seq(Nat)
        /\ tt \in Nat \cup {None} /\ ss \in Seq(Nat)
    BY DEF TypeOK, ReturnsAt
  <1>2. \A k \in Nat : Holds(tt, ss, k) <=> Holds(t, s, k)
    BY DEF Keeps
  <1> HIDE DEF t, s, tt, ss
  <1>3. Nothing(tt, ss) <=> Nothing(t, s)
    BY <1>1, <1>2, HeldFacts
  <1> QED BY <1>3 DEF t, s, tt, ss

LEMMA ProcessOneInv ==
    ASSUME NoWrap, IInv, NEW p \in Peer, ProcessOne(p)
    PROVE  IInv'
  <1>0. TypeOK /\ SendInv /\ RxInv /\ HeldInv /\ StoreInv /\ AckInv /\ DelayedInv
        /\ DeliveredInv /\ InOrder
    BY DEF IInv
  <1>1. /\ nextRemoteId \in [Peer -> 1..(IdModulus - 1)]
        /\ failed \in [Peer -> BOOLEAN]
        /\ sent \in [Peer -> Nat]
        /\ outOfOrder \in [Peer -> SUBSET Packets]
        /\ remoteUnacked \in [Peer -> Seq(Nat)]
        /\ delayed \in [Peer -> Seq(Packets)]
        /\ delivered \in [Peer -> Seq(Nat)]
    BY <1>0 DEF TypeOK
  <1>r. rx[p] # <<>>
    BY DEF ProcessOne
  <1>2. PICK m \in Packets : m = Head(rx[p])
    BY <1>r, HeadFacts
  <1>3. /\ m.src = Other(p) /\ PacketOK(m)
        /\ m.id # 0 => delayed[p] = <<>> /\ Nothing(toReturn[p], pending[p])
    BY <1>r, <1>2, HeadFacts
  <1>4. /\ AckLocal(p, m)
        /\ AcceptUnreliable(p, m) \/ RejectDuplicate(p, m)
           \/ StoreOutOfOrder(p, m) \/ AcceptReliable(p, m)
        /\ UNCHANGED <<net, sent, nextLocalId>>
    BY <1>2 DEF ProcessOne
  <1>5. ShortensRx(p) /\ ReliableLeft(p)' => ReliableLeft(p) /\ m.id = 0
    BY <1>0, <1>r, <1>2, RxShortened
  <1>6. /\ m.id \in Nat /\ m.k = m.id /\ m.id <= sent[Other(p)]
        /\ sent[Other(p)] \in Nat /\ sent[Other(p)] < DupWindow
        /\ sent[Other(p)] < IdModulus - 1
        /\ DupWindow \in Nat /\ IdModulus \in Nat
        /\ nextRemoteId[p] \in Nat /\ nextRemoteId[p] <= sent[Other(p)] + 1
    <2>1. Other(p) \in Peer
      BY OtherFacts
    <2>2. m.id \in Nat /\ m.k = m.id /\ m.id <= sent[Other(p)]
      BY <1>3 DEF Packets, PacketOK
    <2>3. /\ sent[Other(p)] \in Nat /\ sent[Other(p)] <= MaxSends[Other(p)]
          /\ MaxSends[Other(p)] \in Nat /\ DupWindow \in Nat /\ IdModulus \in Nat
      BY <2>1, <1>0, <1>1, LimitAssumption DEF SendInv
    <2>4. MaxSends[Other(p)] < IdModulus - 1 /\ MaxSends[Other(p)] < DupWindow
      BY <2>1 DEF NoWrap
    <2>5. nextRemoteId[p] \in Nat /\ nextRemoteId[p] <= sent[Other(p)] + 1
      BY <1>0, <1>1 DEF StoreInv
    <2> QED BY <2>2, <2>3, <2>4, <2>5
  <1>7. \A q \in Peer : nextRemoteId[q] <= nextRemoteId[q]
    BY <1>1
  <1>8. ASSUME UNCHANGED <<storeVars, failed>>, ReturnsAt(p), ShortensRx(p), HeldOK(p)',
               \/ delivered'[p] = delivered[p]
               \/ \E k \in Nat : Holds(toReturn[p], pending[p], k) /\ Gives(p, k)
        PROVE  IInv'
    <2>1. UNCHANGED <<nextRemoteId, remoteUnacked, outOfOrder, delayed, failed, sent>>
      BY <1>8, <1>4 DEF storeVars
    <2>2. StoreInv' /\ AckInv' /\ DelayedInv'
      BY <2>1, <1>0 DEF StoreInv, AckInv, DelayedInv
    <2>3. DeliveredInv' /\ InOrder'
      BY <1>8, <2>1, GiveInv
    <2> QED BY <1>8, <2>1, <2>2, <2>3, <1>r, <1>1, <1>3, <1>4, <1>7, ProcessStepInv
  <1>a. ASSUME m.id # 0, ReturnsAt(p), ShortensRx(p), Keeps(p)
        PROVE  HeldOK(p)'
    <2>1. Nothing(toReturn'[p], pending'[p])
      BY <1>a, <1>0, <1>3, KeepsNothing
    <2>2. ~ReliableLeft(p)'
      BY <1>a, <1>5
    <2> QED BY <1>a, <2>1, <2>2, HeldNothing DEF ReturnsAt
  <1>9. ASSUME NEW next \in Nat, m.id > 0, ReturnsAt(p), ShortensRx(p),
               \/ next = nextRemoteId[p] /\ m.id < next /\ Keeps(p)
               \/ /\ next = nextRemoteId[p] + 1
                  /\ m.id = nextRemoteId[p]
                  /\ Keeps(p) \/ Takes(p, m.k) \/ Gives(p, m.k),
               PushRemoteUnacked(p, m.id, next),
               UNCHANGED failed
        PROVE  IInv'
    <2>0. delayed[p] = <<>> /\ Nothing(toReturn[p], pending[p])
      BY <1>9, <1>3, <1>6
    <2>1. \/ next = nextRemoteId[p] /\ m.id < next /\ delivered'[p] = delivered[p]
          \/ /\ next = nextRemoteId[p] + 1
             /\ m.id = nextRemoteId[p]
             /\ \/ delivered'[p] = delivered[p]
                \/ delivered'[p] = Append(delivered[p], m.k)
      BY <1>9 DEF Keeps, Takes, Gives
    <2>2. /\ nextRemoteId' \in [Peer -> 1..(IdModulus - 1)]
          /\ \A q \in Peer : nextRemoteId[q] <= nextRemoteId'[q]
          /\ \A q \in Peer : q # p => /\ delayed'[q] = delayed[q]
                                      /\ nextRemoteId'[q] = nextRemoteId[q]
          /\ nextRemoteId'[p] - 1 - Len(delayed'[p]) = next - 1
          /\ \A i \in 1..Len(delivered[p]) : delivered[p][i] < nextRemoteId[p]
          /\ outOfOrder' \in [Peer -> SUBSET Packets]
          /\ remoteUnacked' \in [Peer -> Seq(Nat)]
          /\ delayed' \in [Peer -> Seq(Packets)]
          /\ StoreInv' /\ AckInv' /\ DelayedInv' /\ DeliveredInv' /\ InOrder'
      BY <1>3, <1>4, <1>9, <2>0, <2>1, PushInv
    <2>3. ~ReliableLeft(p)'
      BY <1>9, <1>5
    <2>4. HeldOK(p)'
      <3>1. CASE Keeps(p)
        BY <3>1, <1>9, <1>6, <1>a
      <3>2. CASE Gives(p, m.k)
        BY <3>2, <2>3, <1>9, HeldNothing DEF Gives, ReturnsAt
      <3>3. CASE next = nextRemoteId[p] + 1 /\ m.id = nextRemoteId[p] /\ Takes(p, m.k)
        <4>1. m.k = nextRemoteId[p] /\ next - 1 = m.k
          BY <3>3, <1>6
        <4>2. ASSUME NEW k \in Nat, Holds(toReturn'[p], pending'[p], k)
              PROVE  /\ k = nextRemoteId'[p] - 1 - Len(delayed'[p])
                     /\ \A i \in 1..Len(delivered'[p]) : delivered'[p][i] < k
          <5>1. k = m.k /\ delivered'[p] = delivered[p]
            BY <3>3, <4>2 DEF Takes
          <5> QED BY <4>1, <5>1, <2>2
        <4>3. Single(toReturn'[p], pending'[p])
          BY <3>3 DEF Takes
        <4> QED BY <4>2, <4>3, <2>3 DEF HeldOK
      <3> QED BY <3>1, <3>2, <3>3, <1>9
    <2> QED BY <2>2, <2>4, <1>r, <1>1, <1>3, <1>4, <1>9, ProcessStepInv
  <1>10. CASE AcceptUnreliable(p, m)
    <2>1. m.k = 0 /\ DecodeAndReturn(p, m) /\ UNCHANGED <<storeVars, failed>>
      BY <1>10, <1>6 DEF AcceptUnreliable
    <2>2. HeldOK(p) /\ Single(toReturn[p], pending[p])
      BY <1>0 DEF HeldInv, HeldOK
    <2>3. /\ ReturnsAt(p) /\ ShortensRx(p)
          /\ \/ Keeps(p)
             \/ \E k \in Nat : Holds(toReturn[p], pending[p], k) /\ Gives(p, k)
             \/ Loses(p)
      BY <2>1, <2>2, <1>0, ReturnUnreliable
    <2>4. ReliableLeft(p)' => delayed'[p] = <<>> /\ Nothing(toReturn[p], pending[p])
      BY <2>1, <2>2, <2>3, <1>5 DEF HeldOK, storeVars
    <2>5. CASE Keeps(p)
      <3>1. /\ delivered'[p] = delivered[p] /\ Single(toReturn'[p], pending'[p])
            /\ \A k \in Nat : Holds(toReturn'[p], pending'[p], k) =>
                  Holds(toReturn[p], pending[p], k)
        BY <2>5 DEF Keeps
      <3>2. ReliableLeft(p)' => Nothing(toReturn'[p], pending'[p])
        BY <2>3, <2>4, <2>5, <1>0, KeepsNothing
      <3>3. UNCHANGED <<nextRemoteId, delayed>>
        BY <2>1 DEF storeVars
      <3>4. HeldOK(p)'
        BY <2>2, <2>4, <3>1, <3>2, <3>3 DEF HeldOK
      <3> QED BY <2>1, <2>3, <3>1, <3>4, <1>8
    <2>6. CASE Loses(p) \/ \E k \in Nat : Holds(toReturn[p], pending[p], k) /\ Gives(p, k)
      <3>1. Nothing(toReturn'[p], pending'[p])
        BY <2>6 DEF Loses, Gives
      <3>2. HeldOK(p)'
        BY <2>3, <2>4, <3>1, HeldNothing DEF ReturnsAt
      <3>3. \/ delivered'[p] = delivered[p]
            \/ \E k \in Nat : Holds(toReturn[p], pending[p], k) /\ Gives(p, k)
        BY <2>6 DEF Loses
      <3> QED BY <2>1, <2>3, <3>2, <3>3, <1>8
    <2> QED BY <2>3, <2>5, <2>6
  <1>11. CASE RejectDuplicate(p, m)
    <2>1. m.id > 0 /\ m.id # 0 /\ m.id < nextRemoteId[p]
      BY <1>11, <1>6 DEF RejectDuplicate, IsDuplicate
    <2>2. SkipMessage(p) /\ UNCHANGED failed
      BY <1>11 DEF RejectDuplicate
    <2>3. UNCHANGED storeVars \/ PushRemoteUnacked(p, m.id, nextRemoteId[p])
      BY <1>11 DEF RejectDuplicate
    <2>4. ReturnsAt(p) /\ ShortensRx(p) /\ Keeps(p)
      BY <2>1, <2>2, <1>0, <1>3, SkipFacts
    <2>5. HeldOK(p)' /\ delivered'[p] = delivered[p]
      BY <2>1, <2>4, <1>a DEF Keeps
    <2> QED BY <2>1, <2>2, <2>3, <2>4, <2>5, <1>6, <1>8, <1>9
  <1>12. CASE AcceptReliable(p, m)
    <2>1. m.id > 0 /\ m.id # 0 /\ m.id = nextRemoteId[p] /\ m.k > 0
      BY <1>12, <1>6 DEF AcceptReliable
    <2>2. NextId(m.id) = nextRemoteId[p] + 1 /\ nextRemoteId[p] + 1 \in Nat
      BY <2>1, <1>6 DEF NextId
    <2>3. PushRemoteUnacked(p, m.id, nextRemoteId[p] + 1)
      BY <2>2, <1>12 DEF AcceptReliable
    <2>4. DecodeAndReturn(p, m) /\ UNCHANGED failed
      BY <1>12 DEF AcceptReliable
    <2>5. /\ ReturnsAt(p) /\ ShortensRx(p)
          /\ Keeps(p) \/ Takes(p, m.k) \/ Gives(p, m.k)
      BY <2>1, <2>4, <1>0, <1>3, ReturnReliable
    <2> QED BY <2>1, <2>2, <2>3, <2>4, <2>5, <1>9
  <1>13. CASE StoreOutOfOrder(p, m)
    <2>1. nextRemoteId[p] < m.id /\ m.id # 0
      BY <1>13, <1>6 DEF StoreOutOfOrder, IsDuplicate
    <2>2. /\ SkipMessage(p) \/ DropDatagram(p)
          /\ UNCHANGED <<nextRemoteId, remoteUnacked, delayed>>
      BY <1>13 DEF StoreOutOfOrder
    <2>a. ReturnsAt(p) /\ ShortensRx(p) /\ Keeps(p)
      BY <2>1, <2>2, <1>0, <1>3, SkipFacts
    <2>b. HeldOK(p)' /\ delivered'[p] = delivered[p]
      BY <2>1, <2>a, <1>a DEF Keeps
    <2>3. /\ failed' \in [Peer -> BOOLEAN]
          /\ \A q \in Peer : failed[q] => failed'[q]
      BY <1>13, <1>1 DEF StoreOutOfOrder
    <2>4. /\ outOfOrder' \in [Peer -> SUBSET Packets]
          /\ \A q \in Peer : \A x \in outOfOrder'[q] : x \in outOfOrder[q] \/ (q = p /\ x = m)
      <3>1. \/ outOfOrder' = outOfOrder
            \/ outOfOrder' = [outOfOrder EXCEPT ![p] = outOfOrder[p] \cup {m}]
        <4>1. [outOfOrder EXCEPT ![p] = @] = outOfOrder
          BY <1>1
        <4> QED BY <4>1, <1>13 DEF StoreOutOfOrder
      <3> QED BY <3>1, <1>1
    <2>5. StoreInv'
      <3> SUFFICES ASSUME NEW q \in Peer
                   PROVE  /\ nextRemoteId'[q] <= sent'[Other(q)] + 1
                          /\ \A x \in outOfOrder'[q] :
                                x.id = x.k /\ nextRemoteId'[q] < x.id /\ x.id <= sent'[Other(q)]
        BY DEF StoreInv
      <3>1. nextRemoteId[q] <= sent[Other(q)] + 1
        BY <1>0 DEF StoreInv
      <3>2. \A x \in outOfOrder[q] :
               x.id = x.k /\ nextRemoteId[q] < x.id /\ x.id <= sent[Other(q)]
        BY <1>0 DEF StoreInv
      <3> QED BY <3>1, <3>2, <2>1, <2>2, <2>4, <1>4, <1>6
    <2>6. AckInv' /\ DelayedInv'
      BY <2>2, <1>0 DEF AckInv, DelayedInv
    <2>7. DeliveredInv' /\ InOrder'
      BY <2>2, <2>a, <2>b, GiveInv
    <2> QED BY <2>2, <2>3, <2>4, <2>5, <2>6, <2>7, <2>a, <2>b, <1>r, <1>1, <1>3, <1>4, <1>7,
               ProcessStepInv
  <1> QED BY <1>4, <1>10, <1>11, <1>12, <1>13

\* Taking a pending message hands over the reliable one that was held, or leaves
\* it where it is.
LEMMA PopPendingFacts ==
    ASSUME IInv, NEW p \in Peer, PopPending(p)
    PROVE  /\ ReturnsAt(p)
           /\ \/ Keeps(p)
              \/ \E k \in Nat : Holds(toReturn[p], pending[p], k) /\ Gives(p, k)
  <1> DEFINE s == pending[p]
  <1>1. /\ toReturn \in [Peer -> Nat \cup {None}] /\ pending \in [Peer -> Seq(Nat)]
        /\ delivered \in [Peer -> Seq(Nat)]
    BY DEF IInv, TypeOK
  <1>2. /\ s \in Seq(Nat) /\ s # <<>> /\ toReturn[p] = None
        /\ pending' = [pending EXCEPT ![p] = Tail(s)]
        /\ delivered' = Handed(p, Head(s))
        /\ toReturn' = toReturn
    BY <1>1 DEF PopPending, Idle, IInv, RxInv
  <1>3. Single(None, s)
    BY <1>2 DEF IInv, HeldInv, HeldOK
  <1> DEFINE h == Head(s)
             u == Tail(s)
  <1>4. /\ h \in Nat /\ u \in Seq(Nat)
        /\ Single(None, u)
        /\ h > 0 => Nothing(None, u) /\ Holds(None, s, h)
        /\ ~(h > 0) => \A k \in Nat : Holds(None, u, k) <=> Holds(None, s, k)
    BY <1>2, <1>3, HeldTail
  <1> HIDE DEF h, u
  <1>5. /\ pending' \in [Peer -> Seq(Nat)] /\ pending'[p] = u
        /\ \A q \in Peer : q # p => pending'[q] = pending[q]
    BY <1>1, <1>2, <1>4 DEF u
  <1>6. CASE h > 0
    <2>1. delivered' = [delivered EXCEPT ![p] = Append(delivered[p], h)]
      BY <1>2, <1>6 DEF Handed, h
    <2>2. Append(delivered[p], h) \in Seq(Nat)
      <3>1. delivered[p] \in Seq(Nat)
        BY <1>1
      <3> QED BY <3>1, <1>4
    <2>3. ReturnsAt(p)
      BY <2>1, <2>2, <1>1, <1>2, <1>5 DEF ReturnsAt
    <2>4. Gives(p, h)
      <3>1. delivered'[p] = Append(delivered[p], h)
        BY <2>1, <1>1
      <3> QED BY <3>1, <1>2, <1>4, <1>5, <1>6 DEF Gives
    <2>5. Holds(toReturn[p], pending[p], h)
      BY <1>2, <1>4, <1>6
    <2> QED BY <2>3, <2>4, <2>5, <1>4
  <1>7. CASE ~(h > 0)
    <2>1. delivered' = delivered
      BY <1>2, <1>7 DEF Handed, h
    <2>2. ReturnsAt(p)
      BY <2>1, <1>1, <1>2, <1>5 DEF ReturnsAt
    <2>3. Keeps(p)
      BY <2>1, <1>2, <1>4, <1>5, <1>7 DEF Keeps
    <2> QED BY <2>2, <2>3
  <1> QED BY <1>6, <1>7

LEMMA PopPendingInv ==
    ASSUME IInv, NEW p \in Peer, PopPending(p)
    PROVE  IInv'
  <1>0. TypeOK /\ SendInv /\ NetInv /\ UnackedInv /\ RxInv /\ HeldInv /\ StoreInv /\ AckInv
        /\ DelayedInv /\ ForgottenOnlyIfAccepted
    BY DEF IInv
  <1>1. /\ rx[p] = <<>>
        /\ UNCHANGED <<net, failed, sent, nextLocalId, localUnacked, nextRemoteId,
                       remoteUnacked, outOfOrder, delayed, rx, toReturn>>
    BY DEF PopPending, Idle, outVars, storeVars
  <1>2. /\ ReturnsAt(p)
        /\ \/ Keeps(p)
           \/ \E k \in Nat : Holds(toReturn[p], pending[p], k) /\ Gives(p, k)
    BY PopPendingFacts
  <1>3. DeliveredInv' /\ InOrder'
    BY <1>1, <1>2, GiveInv DEF Keeps
  <1>4. TypeOK'
    BY <1>0, <1>1, <1>2 DEF TypeOK, ReturnsAt
  <1>5. SendInv' /\ NetInv' /\ UnackedInv' /\ StoreInv' /\ AckInv' /\ DelayedInv'
        /\ ForgottenOnlyIfAccepted'
    BY <1>0, <1>1 DEF SendInv, NetInv, UnackedInv, StoreInv, AckInv, DelayedInv, PacketOK,
                      ForgottenOnlyIfAccepted, Other
  <1>6. RxInv'
    <2>1. \A m \in Packets : PacketOK(m) => PacketOK(m)'
      BY <1>1 DEF PacketOK
    <2> QED BY <2>1, <1>0, <1>1, RxStable DEF RxInv
  <1>7. HeldInv'
    <2> SUFFICES ASSUME NEW q \in Peer PROVE HeldOK(q)'
      BY DEF HeldInv
    <2>1. CASE q # p
      BY <2>1, <1>0, <1>1, <1>2, HeldStable DEF HeldInv, ReturnsAt
    <2>2. ~ReliableLeft(p)'
      BY <1>1 DEF ReliableLeft
    <2>3. CASE q = p /\ Keeps(p)
      <3>1. HeldOK(p)
        BY <1>0 DEF HeldInv
      <3> QED BY <2>2, <2>3, <3>1, <1>1 DEF HeldOK, Keeps
    <2>4. CASE q = p /\ \E k \in Nat : Holds(toReturn[p], pending[p], k) /\ Gives(p, k)
      BY <2>2, <2>4, <1>2, HeldNothing DEF Gives, ReturnsAt
    <2> QED BY <2>1, <2>3, <2>4, <1>2
  <1> QED BY <1>3, <1>4, <1>5, <1>6, <1>7 DEF IInv

\* The head of the delayed queue is the oldest message not handed over yet.
LEMMA PopDelayedInv ==
    ASSUME IInv, NEW p \in Peer, PopDelayed(p)
    PROVE  IInv'
  <1>0. TypeOK /\ SendInv /\ NetInv /\ UnackedInv /\ RxInv /\ HeldInv /\ StoreInv /\ AckInv
        /\ DelayedInv /\ DeliveredInv /\ InOrder /\ ForgottenOnlyIfAccepted
    BY DEF IInv
  <1>1. /\ delayed \in [Peer -> Seq(Packets)]
        /\ delivered \in [Peer -> Seq(Nat)]
        /\ nextRemoteId \in [Peer -> 1..(IdModulus - 1)]
    BY <1>0 DEF TypeOK
  <1>2. /\ delayed' = [delayed EXCEPT ![p] = Tail(@)]
        /\ rx[p] = <<>> /\ delayed[p] # <<>>
        /\ UNCHANGED <<net, failed, sent, nextLocalId, localUnacked, nextRemoteId,
                       remoteUnacked, outOfOrder, rx, toReturn, pending>>
    BY DEF PopDelayed, Idle, outVars, recvVars
  <1> DEFINE s == delayed[p]
             h == Head(delayed[p]).k
             nr == nextRemoteId[p]
  <1>3. s \in Seq(Packets) /\ Len(s) \in Nat /\ Len(s) > 0 /\ nr \in Nat
    BY <1>1, <1>2
  <1>4. h = nr - Len(s) /\ h \in Nat
    <2>1. 1 \in 1..Len(s) /\ Head(s) = s[1] /\ Head(s) \in Packets
      BY <1>3
    <2>2. s[1].k = nr - 1 - Len(s) + 1
      BY <2>1, <1>0 DEF DelayedInv
    <2>3. h \in Nat
      BY <2>1 DEF Packets
    <2> QED BY <2>1, <2>2, <2>3, <1>3
  <1>5. /\ Tail(s) \in Seq(Packets) /\ Len(Tail(s)) = Len(s) - 1
        /\ \A i \in 1..Len(Tail(s)) : Tail(s)[i] = s[i + 1]
    BY <1>3
  <1>6. /\ delayed'[p] = Tail(s)
        /\ \A q \in Peer : q # p => delayed'[q] = delayed[q]
        /\ delayed' \in [Peer -> Seq(Packets)]
    BY <1>1, <1>2, <1>5
  <1>7. /\ delivered' \in [Peer -> Seq(Nat)]
        /\ \A q \in Peer : q # p => delivered'[q] = delivered[q]
        /\ \/ delivered'[p] = delivered[p]
           \/ delivered'[p] = Append(delivered[p], h)
    <2>1. delivered' = delivered \/ delivered' = [delivered EXCEPT ![p] = Append(@, h)]
      BY DEF PopDelayed, Handed
    <2>2. Append(delivered[p], h) \in Seq(Nat)
      <3>1. delivered[p] \in Seq(Nat) /\ h \in Nat
        BY <1>1, <1>4
      <3> HIDE DEF h
      <3> QED BY <3>1
    <2> HIDE DEF h
    <2> QED BY <2>1, <2>2, <1>1
  <1> HIDE DEF h, s, nr
  <1>8. TypeOK'
    BY <1>0, <1>2, <1>6, <1>7 DEF TypeOK
  <1>9. SendInv' /\ NetInv' /\ UnackedInv' /\ StoreInv' /\ AckInv' /\ ForgottenOnlyIfAccepted'
    BY <1>0, <1>2 DEF SendInv, NetInv, UnackedInv, StoreInv, AckInv, PacketOK,
                      ForgottenOnlyIfAccepted, Other
  <1>10. RxInv'
    <2>1. \A m \in Packets : PacketOK(m) => PacketOK(m)'
      BY <1>2 DEF PacketOK
    <2> QED BY <2>1, <1>0, <1>2, RxStable DEF RxInv
  <1>15. HeldInv'
    <2> SUFFICES ASSUME NEW q \in Peer PROVE HeldOK(q)'
      BY DEF HeldInv
    <2>1. CASE q # p
      BY <2>1, <1>0, <1>2, <1>6, <1>7, HeldStable DEF HeldInv
    <2>2. CASE q = p
      <3>1. pending[p] = <<>> /\ toReturn[p] = None
        BY <1>0, <1>2 DEF PopDelayed, RxInv
      <3>2. Nothing(toReturn'[p], pending'[p]) /\ ~ReliableLeft(p)'
        BY <3>1, <1>2 DEF Nothing, None, ReliableLeft
      <3>3. toReturn'[p] \in Nat \cup {None} /\ pending'[p] \in Seq(Nat)
        BY <1>8 DEF TypeOK
      <3> QED BY <2>2, <3>2, <3>3, HeldNothing
    <2> QED BY <2>1, <2>2
  <1>11. DelayedInv'
    <2> SUFFICES ASSUME NEW q \in Peer, NEW i \in 1..Len(delayed'[q])
                 PROVE  delayed'[q][i].k = nextRemoteId'[q] - 1 - Len(delayed'[q]) + i
      BY DEF DelayedInv
    <2>1. CASE q # p
      <3>1. delayed'[q] = delayed[q] /\ nextRemoteId'[q] = nextRemoteId[q]
        BY <2>1, <1>2, <1>6
      <3> QED BY <3>1, <1>0 DEF DelayedInv
    <2>2. CASE q = p
      <3>1. i \in 1..(Len(s) - 1) /\ delayed'[p][i] = s[i + 1] /\ Len(delayed'[p]) = Len(s) - 1
        BY <2>2, <1>5, <1>6
      <3>2. i + 1 \in 1..Len(s)
        BY <3>1, <1>3
      <3>3. s[i + 1].k = nr - 1 - Len(s) + (i + 1)
        BY <3>2, <1>0 DEF DelayedInv, s, nr
      <3>4. nextRemoteId'[p] = nr
        BY <1>2 DEF nr
      <3> QED BY <2>2, <3>1, <3>3, <3>4, <1>3
    <2> QED BY <2>1, <2>2
  <1>12. \A i \in 1..Len(delivered[p]) : delivered[p][i] \in Nat /\ delivered[p][i] < h
    <2> TAKE i \in 1..Len(delivered[p])
    <2>1. delivered[p][i] < nr - Len(s)
      BY <1>0 DEF DeliveredInv, nr, s
    <2>2. delivered[p] \in Seq(Nat)
      BY <1>1
    <2> QED BY <2>1, <2>2, <1>4
  <1>13. DeliveredInv'
    <2> SUFFICES ASSUME NEW q \in Peer, NEW i \in 1..Len(delivered'[q])
                 PROVE  delivered'[q][i] < nextRemoteId'[q] - Len(delayed'[q])
      BY DEF DeliveredInv
    <2>1. CASE q # p
      <3>1. /\ delayed'[q] = delayed[q] /\ nextRemoteId'[q] = nextRemoteId[q]
            /\ delivered'[q] = delivered[q]
        BY <2>1, <1>2, <1>6, <1>7
      <3> QED BY <3>1, <1>0 DEF DeliveredInv
    <2>2. CASE q = p
      <3>1. nextRemoteId'[p] - Len(delayed'[p]) = h + 1
        <4>1. nextRemoteId'[p] = nr
          BY <1>2 DEF nr
        <4> QED BY <4>1, <1>3, <1>4, <1>5, <1>6
      <3>2. delivered[p] \in Seq(Nat)
        BY <1>1
      <3>3. delivered'[p][i] \in Nat /\ delivered'[p][i] <= h
        <4>1. CASE delivered'[p] = delivered[p]
          BY <2>2, <4>1, <1>4, <1>12
        <4>2. CASE delivered'[p] = Append(delivered[p], h)
          <5>1. i \in 1..Len(delivered[p]) \/ i = Len(delivered[p]) + 1
            BY <2>2, <4>2, <3>2, <1>4
          <5> QED BY <4>2, <5>1, <3>2, <1>4, <1>12
        <4> QED BY <4>1, <4>2, <1>7
      <3> QED BY <2>2, <3>1, <3>3, <1>4
    <2> QED BY <2>1, <2>2
  <1>14. InOrder'
    <2> SUFFICES ASSUME NEW q \in Peer, NEW i \in DOMAIN delivered'[q],
                        NEW j \in DOMAIN delivered'[q], i < j
                 PROVE  delivered'[q][i] < delivered'[q][j]
      BY DEF InOrder
    <2>1. CASE delivered'[q] = delivered[q]
      BY <2>1, <1>0 DEF InOrder
    <2>2. CASE q = p /\ delivered'[p] = Append(delivered[p], h)
      <3>1. delivered[p] \in Seq(Nat)
        BY <1>1
      <3>2. i \in 1..Len(delivered[p]) /\ (j \in 1..Len(delivered[p]) \/ j = Len(delivered[p]) + 1)
        BY <2>2, <3>1, <1>4
      <3>3. CASE j \in 1..Len(delivered[p])
        <4>1. delivered'[p][i] = delivered[p][i] /\ delivered'[p][j] = delivered[p][j]
          BY <2>2, <3>1, <3>2, <3>3, <1>4
        <4>2. i \in DOMAIN delivered[p] /\ j \in DOMAIN delivered[p]
          BY <3>1, <3>2, <3>3
        <4> QED BY <2>2, <4>1, <4>2, <1>0 DEF InOrder
      <3>4. CASE j = Len(delivered[p]) + 1
        <4>1. delivered'[p][i] = delivered[p][i] /\ delivered'[p][j] = h
          BY <2>2, <3>1, <3>2, <3>4, <1>4
        <4> QED BY <2>2, <4>1, <3>2, <1>12
      <3> QED BY <3>2, <3>3, <3>4
    <2> QED BY <2>1, <2>2, <1>7
  <1> QED BY <1>8, <1>9, <1>10, <1>11, <1>13, <1>14, <1>15 DEF IInv

LEMMA StutterInv ==
    ASSUME IInv, UNCHANGED vars
    PROVE  IInv'
  <1>1. UNCHANGED <<net, failed, sent, nextLocalId, localUnacked, nextRemoteId, remoteUnacked,
                    outOfOrder, delayed, rx, toReturn, pending, delivered>>
    BY DEF vars, outVars, storeVars, recvVars
  <1>2. TypeOK' /\ SendInv' /\ NetInv'
    BY <1>1 DEF IInv, TypeOK, SendInv, NetInv, PacketOK
  <1>3. UnackedInv' /\ RxInv' /\ HeldInv' /\ StoreInv' /\ AckInv'
    BY <1>1 DEF IInv, UnackedInv, RxInv, PacketOK, HeldInv, HeldOK, ReliableLeft, StoreInv,
                AckInv
  <1>4. DelayedInv' /\ DeliveredInv' /\ InOrder' /\ ForgottenOnlyIfAccepted'
    BY <1>1 DEF IInv, DelayedInv, DeliveredInv, InOrder, ForgottenOnlyIfAccepted
  <1> QED BY <1>2, <1>3, <1>4 DEF IInv

\* The invariant is inductive.
LEMMA NextIInv ==
    ASSUME NoWrap, MaxReliable = 1, IInv, [Next]_vars
    PROVE  IInv'
  <1>1. ASSUME NEW p \in Peer, SendReliable(p) PROVE IInv'
    BY <1>1, SendReliableInv
  <1>2. ASSUME NEW p \in Peer, SendUnreliable(p) PROVE IInv'
    BY <1>2, SendUnreliableInv
  <1>3. ASSUME NEW p \in Peer, SocketError(p) PROVE IInv'
    BY <1>3, SocketErrorInv
  <1>4. ASSUME NEW p \in Peer, TimerExpiry(p) PROVE IInv'
    BY <1>4, TimerExpiryInv
  <1>5. ASSUME NEW p \in Peer, RecvDatagram(p) PROVE IInv'
    BY <1>5, RecvDatagramInv
  <1>6. ASSUME NEW p \in Peer, ProcessOne(p) PROVE IInv'
    BY <1>6, ProcessOneInv
  <1>7. ASSUME NEW p \in Peer, PopPending(p) PROVE IInv'
    BY <1>7, PopPendingInv
  <1>8. ASSUME NEW p \in Peer, PopDelayed(p) PROVE IInv'
    BY <1>8, PopDelayedInv
  <1>9. CASE UNCHANGED vars
    BY <1>9, StutterInv
  <1> QED BY <1>1, <1>2, <1>3, <1>4, <1>5, <1>6, <1>7, <1>8, <1>9 DEF Next

--------------------------------------------------------------------------------
(* What follows from the invariant *)

\* Nothing accepted lies in the out-of-order store.
LEMMA IInvDuplicates ==
    ASSUME IInv
    PROVE  DuplicatesRecognised
  <1> SUFFICES ASSUME NEW p \in Peer, NEW m \in outOfOrder[p], m.k \in Accounted(p)
               PROVE  FALSE
    BY DEF DuplicatesRecognised
  <1>1. /\ delivered[p] \in Seq(Nat) /\ delayed[p] \in Seq(Packets)
        /\ nextRemoteId[p] \in Nat /\ m \in Packets
    BY DEF IInv, TypeOK
  <1>2. m.k \in Nat /\ nextRemoteId[p] < m.k
    BY <1>1 DEF IInv, StoreInv, Packets
  <1>3. ~Holds(toReturn[p], pending[p], m.k)
    <2>1. \A k \in Nat : Holds(toReturn[p], pending[p], k) =>
             k = nextRemoteId[p] - 1 - Len(delayed[p])
      BY DEF IInv, HeldInv, HeldOK
    <2>2. Len(delayed[p]) \in Nat
      BY <1>1
    <2> QED BY <2>1, <2>2, <1>1, <1>2
  <1>4. CASE \E i \in DOMAIN delivered[p] : m.k = delivered[p][i]
    <2>1. PICK i \in 1..Len(delivered[p]) : m.k = delivered[p][i]
      BY <1>1, <1>4
    <2>2. delivered[p][i] < nextRemoteId[p] - Len(delayed[p])
      BY DEF IInv, DeliveredInv
    <2> QED BY <1>1, <1>2, <2>1, <2>2
  <1>5. CASE \E i \in DOMAIN delayed[p] : m.k = delayed[p][i].k
    <2>0. DOMAIN delayed[p] = 1..Len(delayed[p])
      BY <1>1
    <2>1. PICK i \in 1..Len(delayed[p]) : m.k = delayed[p][i].k
      BY <2>0, <1>5, Zenon
    <2>2. delayed[p][i].k = nextRemoteId[p] - 1 - Len(delayed[p]) + i
      BY DEF IInv, DelayedInv
    <2> QED BY <1>1, <1>2, <2>1, <2>2
  <1>6. m.k # toReturn[p] /\ ~\E i \in DOMAIN pending[p] : m.k = pending[p][i]
    <2>1. pending[p] \in Seq(Nat) /\ m.k > 0
      BY <1>1, <1>2 DEF IInv, TypeOK
    <2>2. DOMAIN pending[p] = 1..Len(pending[p])
      BY <2>1
    <2> QED BY <2>1, <2>2, <1>3 DEF Holds
  <1> QED BY <1>4, <1>5, <1>6 DEF Accounted

\* The out-of-order store never holds the message that is expected next.
LEMMA IInvNoStuck ==
    ASSUME IInv
    PROVE  NoStuckMessage
  <1> SUFFICES ASSUME NEW p \in Peer, NEW m \in outOfOrder[p], m.id = nextRemoteId[p]
               PROVE  FALSE
    BY DEF NoStuckMessage, OooIds
  <1>1. m.id \in Nat /\ nextRemoteId[p] \in Nat
    BY DEF IInv, TypeOK, Packets
  <1>2. nextRemoteId[p] < m.id
    BY DEF IInv, StoreInv
  <1> QED BY <1>1, <1>2

--------------------------------------------------------------------------------
(* Nothing accepted is lost, and each direction is an in-order channel *)

\* Every message below this one was handed over or could not be decoded; it and the
\* ones up to the expected one are on their way: first the one that is held, if
\* any, then the delayed queue.
HandedUpTo(p) ==
    nextRemoteId[p] - Len(delayed[p])
       - (IF Nothing(toReturn[p], pending[p]) THEN 0 ELSE 1)

\* The packets end p keeps come from the other end.
FromOther(p) == {m \in Packets : m.src = Other(p)}

QueueInv ==
    \A p \in Peer :
       /\ outOfOrder[p] \subseteq FromOther(p)
       /\ delayed[p] \in Seq(FromOther(p))
       /\ nextRemoteId[p] - Len(delayed[p]) >= 1

HandedInv ==
    \A p \in Peer : \A k \in 1..(HandedUpTo(p) - 1) :
       \/ k \in Undecodable[Other(p)]
       \/ \E i \in 1..Len(delivered[p]) : delivered[p][i] = k

\* A step hands nothing to end p, or it settles exactly the message HandedUpTo(p):
\* it hands it over, fails to decode it, or drops it because an unreliable message
\* after it in the datagram cannot be decoded.
HandsOver(p) ==
    \/ /\ HandedUpTo(p)' = HandedUpTo(p)
       /\ delivered'[p] = delivered[p]
    \/ /\ HandedUpTo(p)' = HandedUpTo(p) + 1
       /\ HandedUpTo(p) \in 1..sent[Other(p)]
       /\ \/ /\ HandedUpTo(p) \in Undecodable[Other(p)]
             /\ delivered'[p] = delivered[p]
          \/ /\ 0 \in Undecodable[Other(p)]
             /\ delivered'[p] = delivered[p]
          \/ delivered'[p] = Append(delivered[p], HandedUpTo(p))

\* The application only ever gets messages that were sent as reliable.
PositiveInv ==
    \A p \in Peer : \A i \in 1..Len(delivered[p]) : delivered[p][i] > 0

LEMMA InitQueue == Init => QueueInv /\ HandedInv /\ PositiveInv
  <1> SUFFICES ASSUME Init PROVE QueueInv /\ HandedInv /\ PositiveInv
    OBVIOUS
  <1>1. \A p \in Peer : outOfOrder[p] = {} /\ delayed[p] = <<>> /\ nextRemoteId[p] = 1
                        /\ delivered[p] = <<>> /\ toReturn[p] = -1 /\ pending[p] = <<>>
    BY DEF Init, None
  <1>2. QueueInv
    <2> SUFFICES ASSUME NEW p \in Peer
                 PROVE  /\ outOfOrder[p] \subseteq FromOther(p)
                        /\ delayed[p] \in Seq(FromOther(p))
                        /\ nextRemoteId[p] - Len(delayed[p]) >= 1
      BY DEF QueueInv
    <2>1. outOfOrder[p] = {} /\ delayed[p] = <<>> /\ nextRemoteId[p] = 1
      BY <1>1
    <2>2. <<>> \in Seq(FromOther(p)) /\ 1 - Len(<<>>) >= 1
      OBVIOUS
    <2> QED BY <2>1, <2>2
  <1>3. HandedInv
    <2>1. \A p \in Peer : Nothing(toReturn[p], pending[p])
      BY <1>1 DEF Nothing
    <2>2. \A p \in Peer : HandedUpTo(p) = 1
      BY <2>1, <1>1 DEF HandedUpTo
    <2> QED BY <2>2 DEF HandedInv
  <1>4. PositiveInv
    BY <1>1 DEF PositiveInv
  <1> QED BY <1>2, <1>3, <1>4

\* HandedUpTo is the message that is held, or the one the delayed queue starts with.
LEMMA UpToFacts ==
    ASSUME IInv, NEW p \in Peer
    PROVE  /\ nextRemoteId[p] \in Nat /\ Len(delayed[p]) \in Nat
           /\ nextRemoteId[p] <= sent[Other(p)] + 1 /\ sent[Other(p)] \in Nat
           /\ HandedUpTo(p) \in Int
           /\ Nothing(toReturn[p], pending[p]) =>
                 HandedUpTo(p) = nextRemoteId[p] - Len(delayed[p])
           /\ ~Nothing(toReturn[p], pending[p]) =>
                 /\ HandedUpTo(p) = nextRemoteId[p] - Len(delayed[p]) - 1
                 /\ HandedUpTo(p) \in 1..sent[Other(p)]
                 /\ Holds(toReturn[p], pending[p], HandedUpTo(p))
           /\ \A k \in Nat : Holds(toReturn[p], pending[p], k) =>
                 /\ ~Nothing(toReturn[p], pending[p])
                 /\ k = HandedUpTo(p)
  <1> DEFINE t == toReturn[p]
             s == pending[p]
  <1>1. /\ t \in Nat \cup {None} /\ s \in Seq(Nat) /\ delayed[p] \in Seq(Packets)
        /\ nextRemoteId[p] \in 1..(IdModulus - 1)
    BY DEF IInv, TypeOK
  <1>2. /\ nextRemoteId[p] \in Nat /\ Len(delayed[p]) \in Nat
        /\ nextRemoteId[p] <= sent[Other(p)] + 1 /\ sent[Other(p)] \in Nat
    <2>1. sent[Other(p)] \in Nat
      BY OtherFacts DEF IInv, TypeOK
    <2>2. nextRemoteId[p] <= sent[Other(p)] + 1
      BY DEF IInv, StoreInv
    <2> QED BY <2>1, <2>2, <1>1
  <1>3. \A k \in Nat : Holds(t, s, k) => k > 0 /\ k = nextRemoteId[p] - 1 - Len(delayed[p])
    BY DEF IInv, HeldInv, HeldOK, Holds
  <1>4. HandedUpTo(p) = nextRemoteId[p] - Len(delayed[p]) - (IF Nothing(t, s) THEN 0 ELSE 1)
    BY DEF HandedUpTo
  <1> HIDE DEF t, s
  <1>5. Nothing(t, s) => \A k \in Nat : ~Holds(t, s, k)
    BY <1>1, HeldFacts
  <1>6. ASSUME ~Nothing(t, s)
        PROVE  /\ HandedUpTo(p) = nextRemoteId[p] - Len(delayed[p]) - 1
               /\ HandedUpTo(p) \in 1..sent[Other(p)]
               /\ Holds(t, s, HandedUpTo(p))
    <2>1. PICK k \in Nat : Holds(t, s, k)
      BY <1>1, <1>6, HeldFacts
    <2>2. k > 0 /\ k = nextRemoteId[p] - 1 - Len(delayed[p])
      BY <2>1, <1>3
    <2>3. HandedUpTo(p) = nextRemoteId[p] - Len(delayed[p]) - 1
      BY <1>4, <1>6
    <2>4. HandedUpTo(p) = k
      BY <2>2, <2>3, <1>2
    <2> QED BY <2>1, <2>2, <2>3, <2>4, <1>2
  <1>7. Nothing(t, s) => HandedUpTo(p) = nextRemoteId[p] - Len(delayed[p])
    BY <1>2, <1>4
  <1>8. HandedUpTo(p) \in Int
    BY <1>2, <1>6, <1>7
  <1>9. ASSUME NEW k \in Nat, Holds(t, s, k)
        PROVE  ~Nothing(t, s) /\ k = HandedUpTo(p)
    <2>1. ~Nothing(t, s)
      BY <1>5, <1>9
    <2>2. k = nextRemoteId[p] - 1 - Len(delayed[p])
      BY <1>3, <1>9
    <2> QED BY <2>1, <2>2, <1>2, <1>6
  <1> QED BY <1>2, <1>6, <1>7, <1>8, <1>9 DEF t, s

\* The actions that leave the receiving half of an end alone hand nothing over.
LEMMA QuietEnd ==
    ASSUME NEW q \in Peer,
           toReturn'[q] = toReturn[q], pending'[q] = pending[q], delivered'[q] = delivered[q],
           delayed'[q] = delayed[q], nextRemoteId'[q] = nextRemoteId[q]
    PROVE  HandsOver(q)
  BY DEF HandsOver, HandedUpTo

LEMMA QuietStep ==
    ASSUME QueueInv,
           UNCHANGED <<nextRemoteId, outOfOrder, delayed, delivered, toReturn, pending>>
    PROVE  QueueInv' /\ \A q \in Peer : HandsOver(q)
  <1>1. QueueInv'
    BY DEF QueueInv, FromOther
  <1> QED BY <1>1, QuietEnd

\* With the store left as it is, what is held stays held, is handed over, or lost.
LEMMA HeldHands ==
    ASSUME IInv, NEW p \in Peer, ReturnsAt(p), UNCHANGED <<nextRemoteId, delayed>>,
           \/ Keeps(p)
           \/ \E k \in Nat : Holds(toReturn[p], pending[p], k) /\ Gives(p, k)
           \/ /\ 0 \in Undecodable[Other(p)]
              /\ ~Nothing(toReturn[p], pending[p])
              /\ Loses(p)
    PROVE  \A q \in Peer : HandsOver(q)
  <1>0. TypeOK
    BY DEF IInv
  <1>1. \A q \in Peer : q # p => HandsOver(q)
    BY QuietEnd DEF ReturnsAt
  <1>2. CASE Keeps(p)
    <2>1. Nothing(toReturn'[p], pending'[p]) <=> Nothing(toReturn[p], pending[p])
      BY <1>0, <1>2, KeepsNothing
    <2>2. HandedUpTo(p)' = HandedUpTo(p) /\ delivered'[p] = delivered[p]
      BY <1>2, <2>1 DEF Keeps, HandedUpTo
    <2> QED BY <2>2, <1>1 DEF HandsOver
  <1>3. CASE ~Nothing(toReturn[p], pending[p]) /\ Nothing(toReturn'[p], pending'[p])
    <2>1. /\ HandedUpTo(p) = nextRemoteId[p] - Len(delayed[p]) - 1
          /\ HandedUpTo(p) \in 1..sent[Other(p)]
          /\ nextRemoteId[p] \in Nat /\ Len(delayed[p]) \in Nat
      BY <1>3, UpToFacts
    <2>2. HandedUpTo(p)' = nextRemoteId[p] - Len(delayed[p]) - 0
      BY <1>3 DEF HandedUpTo
    <2>3. HandedUpTo(p)' = HandedUpTo(p) + 1
      BY <2>1, <2>2
    <2>4. CASE 0 \in Undecodable[Other(p)] /\ Loses(p)
      BY <2>1, <2>3, <2>4, <1>1 DEF HandsOver, Loses
    <2>5. CASE \E k \in Nat : Holds(toReturn[p], pending[p], k) /\ Gives(p, k)
      <3>1. PICK k \in Nat : Holds(toReturn[p], pending[p], k) /\ Gives(p, k)
        BY <2>5
      <3>2. k = HandedUpTo(p)
        BY <3>1, UpToFacts
      <3> QED BY <2>1, <2>3, <3>1, <3>2, <1>1 DEF HandsOver, Gives
    <2> QED BY <2>4, <2>5, <1>2
  <1>4. (\E k \in Nat : Holds(toReturn[p], pending[p], k) /\ Gives(p, k))
           => ~Nothing(toReturn[p], pending[p]) /\ Nothing(toReturn'[p], pending'[p])
    BY UpToFacts DEF Gives
  <1>5. Loses(p) => Nothing(toReturn'[p], pending'[p])
    BY DEF Loses
  <1> QED BY <1>2, <1>3, <1>4, <1>5

\* Pushing acks moves the front of the delayed queue to `next`: the restored
\* messages are all queued.
LEMMA PushQueue ==
    ASSUME NoWrap, IInv, QueueInv, NEW p \in Peer, delayed[p] = <<>>,
           NEW id \in Nat, NEW next \in Nat,
           next \in {nextRemoteId[p], nextRemoteId[p] + 1},
           next <= sent[Other(p)] + 1,
           PushRemoteUnacked(p, id, next)
    PROVE  /\ QueueInv'
           /\ nextRemoteId'[p] - Len(delayed'[p]) = next
           /\ \A q \in Peer : q # p => /\ nextRemoteId'[q] = nextRemoteId[q]
                                       /\ delayed'[q] = delayed[q]
  <1>0. TypeOK /\ SendInv /\ StoreInv
    BY DEF IInv
  <1>1. /\ nextRemoteId \in [Peer -> 1..(IdModulus - 1)]
        /\ outOfOrder \in [Peer -> SUBSET Packets]
        /\ delayed \in [Peer -> Seq(Packets)]
    BY <1>0 DEF TypeOK
  <1>a. PICK n \in Nat : PushEffect(p, id, next, n)
    BY <1>0, PushFacts
  <1>2. /\ nextRemoteId' = [nextRemoteId EXCEPT ![p] = next + n]
        /\ \A q \in Peer : outOfOrder'[q] \subseteq outOfOrder[q]
        /\ delayed' \in [Peer -> Seq(Packets)]
        /\ \A q \in Peer : q # p => delayed'[q] = delayed[q]
        /\ Len(delayed'[p]) = Len(delayed[p]) + n
        /\ \A i \in 1..n : delayed'[p][Len(delayed[p]) + i] \in outOfOrder[p]
    BY <1>a DEF PushEffect
  <1>3. Len(delayed[p]) = 0 /\ Len(delayed'[p]) = n
    BY <1>2
  <1>4. nextRemoteId'[p] = next + n /\ \A q \in Peer : q # p => nextRemoteId'[q] = nextRemoteId[q]
    BY <1>1, <1>2
  <1>5. nextRemoteId'[p] - Len(delayed'[p]) = next
    BY <1>3, <1>4
  <1>7. delayed'[p] \in Seq(FromOther(p))
    <2> DEFINE d == delayed'[p]
               T == FromOther(p)
    <2>1. d \in Seq(Packets) /\ Len(d) = n
      BY <1>2, <1>3
    <2>2. \A i \in 1..n : d[i] \in T
      <3> TAKE i \in 1..n
      <3>1. d[0 + i] \in outOfOrder[p] /\ 0 + i = i
        BY <1>2, <1>3
      <3>2. outOfOrder[p] \subseteq T
        BY DEF QueueInv
      <3> QED BY <3>1, <3>2
    <2> HIDE DEF d, T
    <2>3. d = [i \in 1..n |-> d[i]]
      BY <2>1
    <2>4. d \in Seq(T)
      BY <2>2, <2>3
    <2> QED BY <2>4 DEF d, T
  <1>8. QueueInv'
    <2> SUFFICES ASSUME NEW q \in Peer
                 PROVE  /\ outOfOrder'[q] \subseteq FromOther(q)
                        /\ delayed'[q] \in Seq(FromOther(q))
                        /\ nextRemoteId'[q] - Len(delayed'[q]) >= 1
      BY DEF QueueInv, FromOther
    <2>1. outOfOrder'[q] \subseteq FromOther(q)
      BY <1>2 DEF QueueInv
    <2>2. CASE q = p
      <3>1. nextRemoteId[p] \in Nat /\ nextRemoteId[p] >= 1
        BY <1>1
      <3> QED BY <2>1, <2>2, <3>1, <1>5, <1>7
    <2>3. CASE q # p
      BY <2>1, <2>3, <1>2, <1>4 DEF QueueInv
    <2> QED BY <2>2, <2>3
  <1> QED BY <1>2, <1>4, <1>5, <1>8

\* receiveMessageInner settles the reliable message of a datagram, in its turn.
LEMMA ProcessOneHands ==
    ASSUME NoWrap, IInv, QueueInv, NEW p \in Peer, ProcessOne(p)
    PROVE  QueueInv' /\ \A q \in Peer : HandsOver(q)
  <1>0. TypeOK /\ SendInv /\ RxInv /\ HeldInv /\ StoreInv
    BY DEF IInv
  <1>1. /\ nextRemoteId \in [Peer -> 1..(IdModulus - 1)]
        /\ outOfOrder \in [Peer -> SUBSET Packets]
    BY <1>0 DEF TypeOK
  <1>r. rx[p] # <<>>
    BY DEF ProcessOne
  <1>2. PICK m \in FromOther(p) : m = Head(rx[p])
    BY <1>r, HeadFacts DEF FromOther
  <1>3. /\ m \in Packets /\ m.src = Other(p) /\ PacketOK(m)
        /\ m.id # 0 => delayed[p] = <<>> /\ Nothing(toReturn[p], pending[p])
    BY <1>r, <1>2, HeadFacts DEF FromOther
  <1>4. /\ AcceptUnreliable(p, m) \/ RejectDuplicate(p, m)
           \/ StoreOutOfOrder(p, m) \/ AcceptReliable(p, m)
        /\ UNCHANGED sent
    BY <1>2 DEF ProcessOne
  <1>5. /\ m.id \in Nat /\ m.k = m.id /\ m.id <= sent[Other(p)] /\ sent[Other(p)] \in Nat
        /\ IdModulus \in Nat /\ sent[Other(p)] < IdModulus - 1
        /\ nextRemoteId[p] \in Nat /\ nextRemoteId[p] >= 1
        /\ nextRemoteId[p] <= sent[Other(p)] + 1
    <2>1. Other(p) \in Peer
      BY OtherFacts
    <2>2. m.id \in Nat /\ m.k = m.id /\ m.id <= sent[Other(p)]
      BY <1>3 DEF Packets, PacketOK
    <2>3. /\ sent[Other(p)] \in Nat /\ sent[Other(p)] <= MaxSends[Other(p)]
          /\ MaxSends[Other(p)] \in Nat /\ IdModulus \in Nat
      BY <2>1, <1>0, LimitAssumption DEF SendInv, TypeOK
    <2>4. MaxSends[Other(p)] < IdModulus - 1
      BY <2>1 DEF NoWrap
    <2>5. nextRemoteId[p] \in Nat /\ nextRemoteId[p] >= 1
          /\ nextRemoteId[p] <= sent[Other(p)] + 1
      BY <1>0, <1>1 DEF StoreInv
    <2> QED BY <2>2, <2>3, <2>4, <2>5
  <1>6. m.id # 0 => HandedUpTo(p) = nextRemoteId[p]
    <2>1. delayed[p] = <<>> => nextRemoteId[p] - Len(delayed[p]) = nextRemoteId[p]
      BY <1>5
    <2> QED BY <2>1, <1>3, UpToFacts
  <1>7. ASSUME m.id # 0, SkipMessage(p) \/ DropDatagram(p)
        PROVE  ReturnsAt(p) /\ Keeps(p)
    BY <1>7, <1>0, <1>3, SkipFacts
  <1>8. CASE AcceptUnreliable(p, m)
    <2>1. m.k = 0 /\ DecodeAndReturn(p, m) /\ UNCHANGED storeVars
      BY <1>8, <1>5 DEF AcceptUnreliable
    <2>2. Single(toReturn[p], pending[p])
      BY <1>0 DEF HeldInv, HeldOK
    <2>3. /\ ReturnsAt(p)
          /\ \/ Keeps(p)
             \/ \E k \in Nat : Holds(toReturn[p], pending[p], k) /\ Gives(p, k)
             \/ /\ 0 \in Undecodable[Other(p)]
                /\ ~Nothing(toReturn[p], pending[p])
                /\ Loses(p)
      BY <2>1, <2>2, <1>0, <1>3, ReturnUnreliable
    <2>4. UNCHANGED <<nextRemoteId, delayed, outOfOrder>>
      BY <2>1 DEF storeVars
    <2>5. QueueInv'
      BY <2>4 DEF QueueInv, FromOther
    <2> QED BY <2>3, <2>4, <2>5, HeldHands
  <1>9. CASE RejectDuplicate(p, m)
    <2>1. m.id # 0 /\ ReturnsAt(p) /\ Keeps(p)
      BY <1>9, <1>7 DEF RejectDuplicate
    <2>2. CASE UNCHANGED storeVars
      <3>1. UNCHANGED <<nextRemoteId, delayed, outOfOrder>>
        BY <2>2 DEF storeVars
      <3>2. QueueInv'
        BY <3>1 DEF QueueInv, FromOther
      <3> QED BY <2>1, <3>1, <3>2, HeldHands
    <2>3. CASE PushRemoteUnacked(p, m.id, nextRemoteId[p])
      <3>1. /\ QueueInv'
            /\ nextRemoteId'[p] - Len(delayed'[p]) = nextRemoteId[p]
            /\ \A q \in Peer : q # p => /\ nextRemoteId'[q] = nextRemoteId[q]
                                        /\ delayed'[q] = delayed[q]
        BY <2>1, <2>3, <1>3, <1>5, PushQueue
      <3>2. Nothing(toReturn'[p], pending'[p])
        BY <2>1, <1>0, <1>3, KeepsNothing
      <3>3. HandedUpTo(p)' = nextRemoteId[p]
        BY <3>1, <3>2, <1>5 DEF HandedUpTo
      <3>4. HandsOver(p)
        BY <2>1, <3>3, <1>6 DEF HandsOver, Keeps
      <3>5. \A q \in Peer : q # p => HandsOver(q)
        BY <2>1, <3>1, QuietEnd DEF ReturnsAt
      <3> QED BY <3>1, <3>4, <3>5
    <2> QED BY <2>2, <2>3, <1>9 DEF RejectDuplicate
  <1>10. CASE StoreOutOfOrder(p, m)
    <2>1. ReturnsAt(p) /\ Keeps(p) /\ UNCHANGED <<nextRemoteId, delayed>>
      BY <1>10, <1>7 DEF StoreOutOfOrder
    <2>2. \A q \in Peer : outOfOrder'[q] \subseteq outOfOrder[q]
                          \/ (q = p /\ outOfOrder'[q] = outOfOrder[q] \cup {m})
      BY <1>10, <1>1 DEF StoreOutOfOrder
    <2>3. \A q \in Peer : outOfOrder'[q] \subseteq FromOther(q)
      BY <2>2, <1>2 DEF QueueInv
    <2>4. QueueInv'
      BY <2>1, <2>3 DEF QueueInv, FromOther
    <2> QED BY <2>1, <2>4, HeldHands
  <1>11. CASE AcceptReliable(p, m)
    <2>1. m.id > 0 /\ m.id # 0 /\ m.id = nextRemoteId[p] /\ m.k > 0
      BY <1>11, <1>5 DEF AcceptReliable
    <2>2. NextId(m.id) = nextRemoteId[p] + 1
      BY <2>1, <1>5 DEF NextId
    <2>3. /\ QueueInv'
          /\ nextRemoteId'[p] - Len(delayed'[p]) = nextRemoteId[p] + 1
          /\ \A q \in Peer : q # p => /\ nextRemoteId'[q] = nextRemoteId[q]
                                      /\ delayed'[q] = delayed[q]
      <3>1. PushRemoteUnacked(p, m.id, nextRemoteId[p] + 1)
        BY <2>2, <1>11 DEF AcceptReliable
      <3>2. nextRemoteId[p] + 1 \in Nat /\ nextRemoteId[p] + 1 <= sent[Other(p)] + 1
        BY <2>1, <1>5
      <3> QED BY <2>1, <3>1, <3>2, <1>3, <1>5, PushQueue
    <2>4. /\ ReturnsAt(p)
          /\ \/ m.k \in Undecodable[Other(p)] /\ Keeps(p)
             \/ Takes(p, m.k)
             \/ Gives(p, m.k)
      BY <2>1, <1>11, <1>0, <1>3, ReturnReliable DEF AcceptReliable
    <2>5. m.k = HandedUpTo(p) /\ HandedUpTo(p) = nextRemoteId[p]
          /\ HandedUpTo(p) \in 1..sent[Other(p)]
      BY <2>1, <1>5, <1>6
    <2>6. ASSUME Takes(p, m.k) PROVE HandsOver(p)
      <3>1. Holds(toReturn'[p], pending'[p], m.k) /\ delivered'[p] = delivered[p]
        BY <2>6, <1>5 DEF Takes
      <3>2. ~Nothing(toReturn'[p], pending'[p])
        BY <3>1, <2>4, <1>5, HeldFacts DEF ReturnsAt
      <3>3. HandedUpTo(p)' = (nextRemoteId'[p] - Len(delayed'[p])) - 1
        BY <3>2 DEF HandedUpTo
      <3>4. HandedUpTo(p)' = HandedUpTo(p)
        BY <3>3, <2>3, <2>5, <1>5
      <3> QED BY <3>1, <3>4 DEF HandsOver
    <2>7. ASSUME \/ m.k \in Undecodable[Other(p)] /\ Keeps(p)
                 \/ Gives(p, m.k)
          PROVE  HandsOver(p)
      <3>1. Nothing(toReturn'[p], pending'[p])
        BY <2>1, <2>4, <2>7, <1>0, <1>3, KeepsNothing DEF Gives
      <3>2. HandedUpTo(p)' = (nextRemoteId'[p] - Len(delayed'[p])) - 0
        BY <3>1 DEF HandedUpTo
      <3>3. HandedUpTo(p)' = HandedUpTo(p) + 1
        BY <3>2, <2>3, <2>5, <1>5
      <3>4. \/ m.k \in Undecodable[Other(p)] /\ delivered'[p] = delivered[p]
            \/ delivered'[p] = Append(delivered[p], m.k)
        BY <2>7 DEF Keeps, Gives
      <3> QED BY <2>5, <3>3, <3>4 DEF HandsOver
    <2>8. \A q \in Peer : q # p => HandsOver(q)
      BY <2>3, <2>4, QuietEnd DEF ReturnsAt
    <2> QED BY <2>3, <2>4, <2>6, <2>7, <2>8
  <1> QED BY <1>4, <1>8, <1>9, <1>10, <1>11

\* The head of the delayed queue is the message HandedUpTo(p).
LEMMA PopDelayedHands ==
    ASSUME IInv, QueueInv, NEW p \in Peer, PopDelayed(p)
    PROVE  QueueInv' /\ \A q \in Peer : HandsOver(q)
  <1> DEFINE d == delayed[p]
             m == Head(delayed[p])
  <1>1. /\ delayed \in [Peer -> Seq(Packets)]
        /\ delivered \in [Peer -> Seq(Nat)]
        /\ nextRemoteId \in [Peer -> 1..(IdModulus - 1)]
        /\ sent \in [Peer -> Nat]
    BY DEF IInv, TypeOK
  <1>2. /\ d # <<>>
        /\ delivered' = IF m.k \in Undecodable[m.src] THEN delivered ELSE Handed(p, m.k)
        /\ delayed' = [delayed EXCEPT ![p] = Tail(d)]
        /\ UNCHANGED <<nextRemoteId, outOfOrder, toReturn, pending>>
    BY DEF PopDelayed, recvVars
  <1>n. Nothing(toReturn[p], pending[p])
    <2>1. toReturn[p] = None /\ pending[p] = <<>>
      BY DEF PopDelayed, Idle, IInv, RxInv
    <2> QED BY <2>1 DEF Nothing, None
  <1>3. /\ d \in Seq(FromOther(p)) /\ Len(d) \in Nat /\ Len(d) > 0
        /\ m = d[1] /\ m \in FromOther(p)
        /\ Tail(d) \in Seq(FromOther(p)) /\ Len(Tail(d)) = Len(d) - 1
    <2>1. d \in Seq(FromOther(p))
      BY DEF QueueInv
    <2> HIDE DEF d
    <2> QED BY <2>1, <1>2 DEF d
  <1>4. m.src = Other(p) /\ m.k = HandedUpTo(p) /\ HandedUpTo(p) >= 1
        /\ HandedUpTo(p) = nextRemoteId[p] - Len(d)
    <2>1. d[1].k = nextRemoteId[p] - 1 - Len(d) + 1
      BY <1>3 DEF IInv, DelayedInv
    <2>2. nextRemoteId[p] \in Int
      BY <1>1
    <2>3. HandedUpTo(p) = nextRemoteId[p] - Len(d)
      BY <1>n, UpToFacts
    <2>4. nextRemoteId[p] - Len(d) >= 1
      BY DEF QueueInv
    <2> QED BY <2>1, <2>2, <2>3, <2>4, <1>3 DEF FromOther
  <1>5. HandedUpTo(p) \in 1..sent[Other(p)]
    <2>1. nextRemoteId[p] <= sent[Other(p)] + 1 /\ nextRemoteId[p] \in Int
      BY <1>1 DEF IInv, StoreInv
    <2>2. sent[Other(p)] \in Nat
      BY <1>1, OtherFacts
    <2> QED BY <2>1, <2>2, <1>3, <1>4
  <1> HIDE DEF m, d
  <1>6. /\ delayed'[p] = Tail(d) /\ \A q \in Peer : q # p => delayed'[q] = delayed[q]
    BY <1>1, <1>2
  <1>7. HandedUpTo(p)' = HandedUpTo(p) + 1
    <2>1. nextRemoteId[p] \in Int /\ nextRemoteId' = nextRemoteId
      BY <1>1, <1>2
    <2>2. Len(delayed'[p]) = Len(d) - 1 /\ Len(d) \in Nat
      BY <1>3, <1>6
    <2>3. HandedUpTo(p)' = nextRemoteId[p] - (Len(d) - 1) - 0
      BY <2>1, <2>2, <1>2, <1>n DEF HandedUpTo
    <2> QED BY <2>1, <2>2, <2>3, <1>4
  <1>8. QueueInv'
    <2> SUFFICES ASSUME NEW q \in Peer
                 PROVE  /\ outOfOrder'[q] \subseteq FromOther(q)
                        /\ delayed'[q] \in Seq(FromOther(q))
                        /\ nextRemoteId'[q] - Len(delayed'[q]) >= 1
      BY DEF QueueInv, FromOther
    <2>1. outOfOrder'[q] \subseteq FromOther(q)
      BY <1>2 DEF QueueInv
    <2>2. CASE q = p
      <3>1. nextRemoteId[p] \in Int /\ nextRemoteId[p] - Len(d) >= 1
        BY <1>1, <1>4
      <3> QED BY <2>1, <2>2, <3>1, <1>2, <1>3, <1>6
    <2>3. CASE q # p
      BY <2>1, <2>3, <1>2, <1>6 DEF QueueInv
    <2> QED BY <2>2, <2>3
  <1>9. /\ \A q \in Peer : q # p => delivered'[q] = delivered[q]
        /\ \/ m.k \in Undecodable[Other(p)] /\ delivered'[p] = delivered[p]
           \/ delivered'[p] = Append(delivered[p], m.k)
    BY <1>1, <1>2, <1>4, <1>5 DEF Handed
  <1>10. HandsOver(p)
    BY <1>4, <1>5, <1>7, <1>9 DEF HandsOver
  <1>11. \A q \in Peer : q # p => HandsOver(q)
    BY <1>2, <1>6, <1>9, QuietEnd
  <1> QED BY <1>8, <1>10, <1>11

\* Every step of the transport hands over the next message or nothing.
LEMMA NextHands ==
    ASSUME NoWrap, IInv, QueueInv, [Next]_vars
    PROVE  QueueInv' /\ \A q \in Peer : HandsOver(q)
  <1> DEFINE Goal == QueueInv' /\ \A q \in Peer : HandsOver(q)
  <1>1. ASSUME NEW p \in Peer,
               SendReliable(p) \/ SendUnreliable(p) \/ SocketError(p)
               \/ TimerExpiry(p) \/ RecvDatagram(p)
        PROVE  Goal
    <2>1. UNCHANGED <<nextRemoteId, outOfOrder, delayed, delivered, toReturn, pending>>
      BY <1>1 DEF SendReliable, SendUnreliable, SocketError, TimerExpiry, RecvDatagram,
                  storeVars, recvVars
    <2> QED BY <2>1, QuietStep
  <1>2. ASSUME NEW p \in Peer, ProcessOne(p) PROVE Goal
    BY <1>2, ProcessOneHands
  <1>3. ASSUME NEW p \in Peer, PopPending(p) PROVE Goal
    <2>1. UNCHANGED <<nextRemoteId, delayed, outOfOrder>>
      BY <1>3 DEF PopPending, storeVars
    <2>2. QueueInv'
      BY <2>1 DEF QueueInv, FromOther
    <2>3. /\ ReturnsAt(p)
          /\ \/ Keeps(p)
             \/ \E k \in Nat : Holds(toReturn[p], pending[p], k) /\ Gives(p, k)
      BY <1>3, PopPendingFacts
    <2> QED BY <2>1, <2>2, <2>3, HeldHands
  <1>4. ASSUME NEW p \in Peer, PopDelayed(p) PROVE Goal
    BY <1>4, PopDelayedHands
  <1>5. CASE UNCHANGED vars
    BY <1>5, QuietStep DEF vars, storeVars, recvVars
  <1> QED BY <1>1, <1>2, <1>3, <1>4, <1>5 DEF Next

\* Whatever is handed over is the number of a message that was sent.
LEMMA NextPositive ==
    ASSUME TypeOK, PositiveInv, \A q \in Peer : HandsOver(q)
    PROVE  PositiveInv'
  <1> SUFFICES ASSUME NEW p \in Peer, NEW i \in 1..Len(delivered'[p])
               PROVE  delivered'[p][i] > 0
    BY DEF PositiveInv
  <1>1. CASE delivered'[p] = delivered[p]
    BY <1>1 DEF PositiveInv
  <1>2. CASE /\ HandedUpTo(p) \in 1..sent[Other(p)]
             /\ delivered'[p] = Append(delivered[p], HandedUpTo(p))
    <2> DEFINE d == delivered[p]
               h == HandedUpTo(p)
    <2>1. d \in Seq(Nat) /\ h \in Nat /\ h > 0 /\ i \in 1..Len(Append(d, h))
      <3>1. sent[Other(p)] \in Nat
        BY OtherFacts DEF TypeOK
      <3>2. h \in Nat /\ h > 0
        BY <3>1, <1>2
      <3>3. d \in Seq(Nat)
        BY DEF TypeOK
      <3>4. i \in 1..Len(Append(d, h))
        BY <1>2
      <3> QED BY <3>2, <3>3, <3>4
    <2>2. \A j \in 1..Len(d) : d[j] > 0
      BY DEF PositiveInv
    <2> HIDE DEF d, h
    <2>3. Append(d, h)[i] > 0
      BY <2>1, <2>2
    <2> QED BY <2>3, <1>2 DEF d, h
  <1> QED BY <1>1, <1>2 DEF HandsOver

\* What was handed over is in no queue any more.
LEMMA IInvAtMostOnce ==
    ASSUME IInv, PositiveInv
    PROVE  AtMostOnce
  <1> SUFFICES ASSUME NEW p \in Peer
               PROVE  /\ \A i, j \in DOMAIN delivered[p] :
                            i # j => delivered[p][i] # delivered[p][j]
                      /\ \A i \in DOMAIN delivered[p] :
                            /\ \A j \in DOMAIN pending[p] : delivered[p][i] # pending[p][j]
                            /\ \A j \in DOMAIN delayed[p] : delivered[p][i] # delayed[p][j].k
                            /\ delivered[p][i] # toReturn[p]
    BY DEF AtMostOnce
  <1>1. /\ delivered[p] \in Seq(Nat) /\ delayed[p] \in Seq(Packets)
        /\ nextRemoteId[p] \in Nat
    BY DEF IInv, TypeOK
  <1>2. pending[p] \in Seq(Nat) /\ toReturn[p] \in Nat \cup {None}
    BY DEF IInv, TypeOK
  <1>3. ASSUME NEW i \in DOMAIN delivered[p], NEW j \in DOMAIN delivered[p], i # j
        PROVE  delivered[p][i] # delivered[p][j]
    <2>1. i \in Nat /\ j \in Nat /\ delivered[p][i] \in Nat /\ delivered[p][j] \in Nat
      BY <1>1
    <2>2. i < j \/ j < i
      BY <1>3, <2>1
    <2>3. /\ i < j => delivered[p][i] < delivered[p][j]
          /\ j < i => delivered[p][j] < delivered[p][i]
      BY DEF IInv, InOrder
    <2> QED BY <2>1, <2>2, <2>3
  <1>4. ASSUME NEW i \in DOMAIN delivered[p], NEW j \in DOMAIN delayed[p]
        PROVE  delivered[p][i] # delayed[p][j].k
    <2>1. i \in 1..Len(delivered[p]) /\ j \in 1..Len(delayed[p]) /\ delivered[p][i] \in Nat
      BY <1>1
    <2>2. delivered[p][i] < nextRemoteId[p] - Len(delayed[p])
      BY <2>1 DEF IInv, DeliveredInv
    <2>3. delayed[p][j].k = nextRemoteId[p] - 1 - Len(delayed[p]) + j
      BY <2>1 DEF IInv, DelayedInv
    <2> QED BY <1>1, <2>1, <2>2, <2>3
  <1>5. ASSUME NEW i \in DOMAIN delivered[p]
        PROVE  /\ \A j \in DOMAIN pending[p] : delivered[p][i] # pending[p][j]
               /\ delivered[p][i] # toReturn[p]
    <2>1. i \in 1..Len(delivered[p]) /\ delivered[p][i] \in Nat
      BY <1>1
    <2>2. delivered[p][i] > 0
      BY <2>1 DEF PositiveInv
    <2>3. ~Holds(toReturn[p], pending[p], delivered[p][i])
      <3>1. Holds(toReturn[p], pending[p], delivered[p][i])
               => delivered[p][i] < delivered[p][i]
        BY <2>1 DEF IInv, HeldInv, HeldOK
      <3> QED BY <3>1, <2>1
    <2>4. DOMAIN pending[p] = 1..Len(pending[p])
      BY <1>2
    <2> QED BY <2>2, <2>3, <2>4 DEF Holds
  <1> QED BY <1>3, <1>4, <1>5

\* What was settled stays settled, and the message a step settles joins it.
LEMMA NextHandedInv ==
    ASSUME TypeOK, HandedInv, \A q \in Peer : HandsOver(q),
           \A q \in Peer : 0 \notin Undecodable[q]
    PROVE  HandedInv'
  <1> SUFFICES ASSUME NEW p \in Peer, NEW k \in 1..(HandedUpTo(p)' - 1)
               PROVE  \/ k \in Undecodable[Other(p)]
                      \/ \E i \in 1..Len(delivered'[p]) : delivered'[p][i] = k
    BY DEF HandedInv
  <1>1. delivered[p] \in Seq(Nat) /\ HandedUpTo(p) \in Int
    <2>1. delivered[p] \in Seq(Nat) /\ delayed[p] \in Seq(Packets) /\ nextRemoteId[p] \in Int
      BY DEF TypeOK
    <2> QED BY <2>1 DEF HandedUpTo
  <1>2. HandsOver(p) /\ 0 \notin Undecodable[Other(p)]
    BY OtherFacts
  <1>3. \A j \in 1..(HandedUpTo(p) - 1) :
           \/ j \in Undecodable[Other(p)]
           \/ \E i \in 1..Len(delivered[p]) : delivered[p][i] = j
    BY DEF HandedInv
  <1>4. CASE HandedUpTo(p)' = HandedUpTo(p) /\ delivered'[p] = delivered[p]
    BY <1>3, <1>4
  <1>5. CASE /\ HandedUpTo(p)' = HandedUpTo(p) + 1
             /\ HandedUpTo(p) \in Undecodable[Other(p)]
             /\ delivered'[p] = delivered[p]
    <2>1. k \in 1..(HandedUpTo(p) - 1) \/ k = HandedUpTo(p)
      BY <1>1, <1>5
    <2> QED BY <2>1, <1>3, <1>5
  <1>6. CASE /\ HandedUpTo(p)' = HandedUpTo(p) + 1
             /\ HandedUpTo(p) \in 1..sent[Other(p)]
             /\ delivered'[p] = Append(delivered[p], HandedUpTo(p))
    <2> DEFINE d == delivered[p]
               h == HandedUpTo(p)
    <2>1. d \in Seq(Nat) /\ h \in Int /\ delivered'[p] = Append(d, h)
      BY <1>1, <1>6
    <2>2. k \in 1..(h - 1) \/ k = h
      BY <1>1, <1>6
    <2>3. CASE k \in 1..(h - 1)
      <3>1. CASE k \in Undecodable[Other(p)]
        BY <3>1
      <3>2. CASE \E i \in 1..Len(d) : d[i] = k
        <4> HIDE DEF d, h
        <4>1. PICK i \in 1..Len(d) : d[i] = k
          BY <3>2
        <4>2. i \in 1..Len(Append(d, h)) /\ Append(d, h)[i] = d[i]
          BY <2>1
        <4> QED BY <2>1, <4>1, <4>2
      <3> QED BY <2>3, <3>1, <3>2, <1>3
    <2>4. CASE k = h
      <3> HIDE DEF d, h
      <3>1. Len(d) + 1 \in 1..Len(Append(d, h)) /\ Append(d, h)[Len(d) + 1] = h
        BY <2>1
      <3> QED BY <2>1, <2>4, <3>1
    <2> QED BY <2>2, <2>3, <2>4
  <1> QED BY <1>2, <1>4, <1>5, <1>6 DEF HandsOver

\* A message that is accepted was settled, is held, or waits in the delayed queue.
LEMMA HandedNoSilentLoss ==
    ASSUME IInv, HandedInv
    PROVE  NoSilentLoss
  <1> SUFFICES ASSUME NEW p \in Peer, NEW k \in 1..(nextRemoteId[p] - 1)
               PROVE  k \in Accounted(p) \cup Undecodable[Other(p)]
    BY DEF NoSilentLoss
  <1>1. /\ delivered[p] \in Seq(Nat) /\ delayed[p] \in Seq(Packets)
        /\ nextRemoteId[p] \in Int /\ Len(delayed[p]) \in Nat
    BY DEF IInv, TypeOK
  <1>2. CASE k \in 1..(HandedUpTo(p) - 1)
    <2>1. CASE \E i \in 1..Len(delivered[p]) : delivered[p][i] = k
      <3>1. DOMAIN delivered[p] = 1..Len(delivered[p])
        BY <1>1
      <3> QED BY <2>1, <3>1 DEF Accounted
    <2> QED BY <2>1, <1>2 DEF HandedInv
  <1>3. CASE k = HandedUpTo(p) /\ ~Nothing(toReturn[p], pending[p])
    <2>1. Holds(toReturn[p], pending[p], k)
      BY <1>3, UpToFacts
    <2>2. pending[p] \in Seq(Nat)
      BY DEF IInv, TypeOK
    <2>3. DOMAIN pending[p] = 1..Len(pending[p])
      BY <2>2
    <2> QED BY <2>1, <2>3 DEF Holds, Accounted
  <1>4. CASE /\ k \notin 1..(HandedUpTo(p) - 1)
             /\ ~(k = HandedUpTo(p) /\ ~Nothing(toReturn[p], pending[p]))
    <2> DEFINE i == k - (nextRemoteId[p] - 1 - Len(delayed[p]))
    <2>0. k >= nextRemoteId[p] - Len(delayed[p])
      <3>1. CASE Nothing(toReturn[p], pending[p])
        <4>1. HandedUpTo(p) = nextRemoteId[p] - Len(delayed[p])
          BY <3>1, UpToFacts
        <4> QED BY <4>1, <1>1, <1>4
      <3>2. CASE ~Nothing(toReturn[p], pending[p])
        <4>1. HandedUpTo(p) = nextRemoteId[p] - Len(delayed[p]) - 1
          BY <3>2, UpToFacts
        <4> QED BY <3>2, <4>1, <1>1, <1>4
      <3> QED BY <3>1, <3>2
    <2>1. i \in 1..Len(delayed[p])
      BY <2>0, <1>1
    <2>2. delayed[p][i].k = k
      <3>1. delayed[p][i].k = nextRemoteId[p] - 1 - Len(delayed[p]) + i
        BY <2>1 DEF IInv, DelayedInv
      <3> QED BY <3>1, <1>1
    <2> HIDE DEF i
    <2>3. i \in DOMAIN delayed[p]
      BY <2>1, <1>1
    <2> QED BY <2>2, <2>3 DEF Accounted
  <1> QED BY <1>2, <1>3, <1>4

\* Only sendMessage counts a message, and it delivers nothing.
LEMMA SentFacts ==
    ASSUME TypeOK, [Next]_vars
    PROVE  \/ UNCHANGED sent
           \/ /\ UNCHANGED delivered
              /\ \A q \in Peer : sent'[q] = sent[q] \/ sent'[q] = sent[q] + 1
  <1>1. ASSUME NEW p \in Peer, SendReliable(p)
        PROVE  /\ UNCHANGED delivered
               /\ \A q \in Peer : sent'[q] = sent[q] \/ sent'[q] = sent[q] + 1
    <2>1. sent' = [sent EXCEPT ![p] = sent[p] + 1] /\ UNCHANGED delivered
      BY <1>1 DEF SendReliable
    <2> QED BY <2>1 DEF TypeOK
  <1>2. ASSUME NEW p \in Peer,
               \/ SendUnreliable(p) \/ SocketError(p) \/ TimerExpiry(p) \/ RecvDatagram(p)
               \/ ProcessOne(p) \/ PopPending(p) \/ PopDelayed(p)
        PROVE  UNCHANGED sent
    BY <1>2 DEF SendUnreliable, SocketError, TimerExpiry, RecvDatagram, ProcessOne,
                PopPending, PopDelayed, outVars
  <1>3. CASE UNCHANGED vars
    BY <1>3 DEF vars, outVars
  <1> QED BY <1>1, <1>2, <1>3 DEF Next

\* One direction, seen from its receiving end: a step sends a message, or delivers
\* one that was sent and is newer than all delivered before, or does neither.
LEMMA ChannelStep ==
    ASSUME NEW p \in Peer, IInv, HandsOver(p), [Next]_vars
    PROVE  \/ /\ sent'[Other(p)] = sent[Other(p)] + 1
              /\ delivered'[p] = delivered[p]
           \/ /\ sent'[Other(p)] = sent[Other(p)]
              /\ \E k \in 1..sent[Other(p)] :
                    /\ k > IF delivered[p] = <<>> THEN 0 ELSE delivered[p][Len(delivered[p])]
                    /\ delivered'[p] = Append(delivered[p], k)
           \/ /\ sent'[Other(p)] = sent[Other(p)]
              /\ delivered'[p] = delivered[p]
  <1> DEFINE d == delivered[p]
             h == HandedUpTo(p)
  <1>1. TypeOK /\ Other(p) \in Peer
    BY OtherFacts DEF IInv
  <1>2. CASE ~UNCHANGED sent
    BY <1>1, <1>2, SentFacts
  <1>3. CASE UNCHANGED sent
    <2>1. CASE delivered'[p] = d
      BY <2>1, <1>3
    <2>2. CASE h \in 1..sent[Other(p)] /\ delivered'[p] = Append(d, h)
      <3>1. d \in Seq(Nat)
        BY <1>1 DEF TypeOK
      <3>2. h > IF d = <<>> THEN 0 ELSE d[Len(d)]
        <4>1. CASE d = <<>>
          BY <4>1, <2>2
        <4>2. CASE d # <<>>
          <5>1. Len(d) \in 1..Len(d)
            BY <3>1, <4>2
          <5>2. d[Len(d)] < h
            <6>1. CASE Nothing(toReturn[p], pending[p])
              <7>1. h = nextRemoteId[p] - Len(delayed[p])
                BY <6>1, UpToFacts
              <7> QED BY <5>1, <7>1 DEF IInv, DeliveredInv
            <6>2. CASE ~Nothing(toReturn[p], pending[p])
              <7>1. Holds(toReturn[p], pending[p], h) /\ h \in Nat
                BY <6>2, UpToFacts
              <7> QED BY <5>1, <7>1 DEF IInv, HeldInv, HeldOK
            <6> QED BY <6>1, <6>2
          <5>3. d[Len(d)] \in Nat /\ h \in Int
            BY <3>1, <5>1, <2>2
          <5> QED BY <4>2, <5>2, <5>3
        <4> QED BY <4>1, <4>2
      <3> QED BY <2>2, <3>2, <1>3
    <2> QED BY <2>1, <2>2 DEF HandsOver
  <1> QED BY <1>2, <1>3

--------------------------------------------------------------------------------
(* Theorems *)

\* The inductive invariant holds in every reachable state of the transport.
THEOREM Invariance ==
    ASSUME NoWrap, MaxReliable = 1
    PROVE  Spec => []IInv
  <1>1. Init => IInv
    BY InitIInv
  <1>2. IInv /\ [Next]_vars => IInv'
    BY NextIInv
  <1> QED BY <1>1, <1>2, PTL DEF Spec

\* Every variable of both stores keeps its type: no id ever becomes 0, which would
\* turn a reliable message into an unreliable one (nextMessageId, pushRemoteUnacked).
THEOREM TypeCorrect ==
    ASSUME NoWrap, MaxReliable = 1
    PROVE  Spec => []TypeOK
  <1>1. IInv => TypeOK
    BY DEF IInv
  <1> QED BY <1>1, Invariance, PTL

\* Reliable messages reach the application in the order of sending and at most
\* once, for every loss, duplication and reordering of datagrams and acks.
THEOREM OrderedDelivery ==
    ASSUME NoWrap, MaxReliable = 1
    PROVE  Spec => []InOrder
  <1>1. IInv => InOrder
    BY DEF IInv
  <1> QED BY <1>1, Invariance, PTL

\* A handed-over message is in none of the receive queues any more.
THEOREM DeliveredOnce ==
    ASSUME NoWrap, MaxReliable = 1
    PROVE  Spec => []AtMostOnce
  <1>1. Init => IInv /\ QueueInv /\ PositiveInv
    BY InitIInv, InitQueue
  <1>2. IInv /\ QueueInv /\ PositiveInv /\ [Next]_vars => (IInv /\ QueueInv /\ PositiveInv)'
    <2> SUFFICES ASSUME IInv, QueueInv, PositiveInv, [Next]_vars
                 PROVE  IInv' /\ QueueInv' /\ PositiveInv'
      OBVIOUS
    <2>1. QueueInv' /\ \A q \in Peer : HandsOver(q)
      BY NextHands
    <2>2. TypeOK
      BY DEF IInv
    <2> QED BY <2>1, <2>2, NextIInv, NextPositive
  <1>3. IInv /\ QueueInv /\ PositiveInv => AtMostOnce
    BY IInvAtMostOnce
  <1> QED BY <1>1, <1>2, <1>3, PTL DEF Spec

\* ackLocal only forgets what the other end accepted, although retransmissions
\* repeat acks that are arbitrarily old.
THEOREM AcksAreTruthful ==
    ASSUME NoWrap, MaxReliable = 1
    PROVE  Spec => []ForgottenOnlyIfAccepted
  <1>1. IInv => ForgottenOnlyIfAccepted
    BY DEF IInv
  <1> QED BY <1>1, Invariance, PTL

\* isDuplicate recognises every accepted message that comes again.
THEOREM DuplicatesAreRecognised ==
    ASSUME NoWrap, MaxReliable = 1
    PROVE  Spec => []DuplicatesRecognised
  <1>1. IInv => DuplicatesRecognised
    BY IInvDuplicates
  <1> QED BY <1>1, Invariance, PTL

\* maybeRestoreRemote never leaves the expected message in the store.
THEOREM NothingStuck ==
    ASSUME NoWrap, MaxReliable = 1
    PROVE  Spec => []NoStuckMessage
  <1>1. IInv => NoStuckMessage
    BY IInvNoStuck
  <1> QED BY <1>1, Invariance, PTL

\* No accepted message gets lost between its ack and the application: whatever is
\* acknowledged was handed over, waits in a queue, or could not be decoded
\* (pushRemoteUnacked, maybeRestoreRemote, receiveMessageInner).  The unreliable
\* messages of the datagram must decode: receiveMessageInner returns the error of
\* a later one and drops the message it was about to return.
THEOREM AcceptedIsKept ==
    ASSUME NoWrap, MaxReliable = 1, \A p \in Peer : 0 \notin Undecodable[p]
    PROVE  Spec => []NoSilentLoss
  <1>1. Init => IInv /\ QueueInv /\ HandedInv
    BY InitIInv, InitQueue
  <1>2. IInv /\ QueueInv /\ HandedInv /\ [Next]_vars => (IInv /\ QueueInv /\ HandedInv)'
    <2> SUFFICES ASSUME IInv, QueueInv, HandedInv, [Next]_vars
                 PROVE  IInv' /\ QueueInv' /\ HandedInv'
      OBVIOUS
    <2>1. QueueInv' /\ \A q \in Peer : HandsOver(q)
      BY NextHands
    <2>2. TypeOK
      BY DEF IInv
    <2> QED BY <2>1, <2>2, NextIInv, NextHandedInv
  <1>3. IInv /\ QueueInv /\ HandedInv => NoSilentLoss
    BY HandedNoSilentLoss
  <1> QED BY <1>1, <1>2, <1>3, PTL DEF Spec

\* The transport implements the abstract in-order channel in each direction: every
\* step of the two stores is a send, a delivery in order, or invisible.
THEOREM ImplementsChannel ==
    ASSUME NoWrap, MaxReliable = 1
    PROVE  Spec => ChannelRefinement
  <1>0. /\ Client \in Peer /\ Server \in Peer
        /\ Other(Client) = Server /\ Other(Server) = Client
    BY PeerAssumption DEF Peer, Other
  <1>1. Init => IInv /\ QueueInv
    BY InitIInv, InitQueue
  <1>2. IInv /\ QueueInv /\ [Next]_vars => (IInv /\ QueueInv)'
    BY NextIInv, NextHands
  <1>3. Init => Download!Init /\ Upload!Init
    BY <1>0 DEF Init, Download!Init, Upload!Init
  <1>4. IInv /\ QueueInv /\ [Next]_vars
           => /\ [Download!Next]_(Download!chanVars)
              /\ [Upload!Next]_(Upload!chanVars)
    <2> SUFFICES ASSUME IInv, QueueInv, [Next]_vars
                 PROVE  /\ [Download!Next]_(Download!chanVars)
                        /\ [Upload!Next]_(Upload!chanVars)
      OBVIOUS
    <2>1. HandsOver(Client) /\ HandsOver(Server)
      BY <1>0, NextHands
    <2>2. [Download!Next]_(Download!chanVars)
      BY <2>1, <1>0, ChannelStep
         DEF Download!Next, Download!Send, Download!Deliver, Download!LastDelivered,
             Download!chanVars
    <2>3. [Upload!Next]_(Upload!chanVars)
      BY <2>1, <1>0, ChannelStep
         DEF Upload!Next, Upload!Send, Upload!Deliver, Upload!LastDelivered,
             Upload!chanVars
    <2> QED BY <2>2, <2>3
  <1>5. Spec => Download!Spec
    BY <1>1, <1>2, <1>3, <1>4, PTL DEF Spec, Download!Spec
  <1>6. Spec => Upload!Spec
    BY <1>1, <1>2, <1>3, <1>4, PTL DEF Spec, Upload!Spec
  <1> QED BY <1>5, <1>6 DEF ChannelRefinement

================================================================================
