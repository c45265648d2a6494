-------------------------- MODULE FragmentStoreProofs --------------------------
(***************************************************************************)
(* Fragmentation and reassembly, proved for every MTU, every header and    *)
(* message size and any number of transmissions.                           *)
(*                                                                         *)
(* Two hypotheses where ids and indices matter: no fragment id is used     *)
(* twice (NoIdReuse), and the indices of a message stay clear of the       *)
(* last-fragment bit (FitsIndex).                                          *)
(***************************************************************************)
EXTENDS FragmentStore, FiniteSetTheorems, TLAPS

NoIdReuse == MaxTransmissions < IdModulus

FitsIndex == \A m \in Message : \A i \in Indices(m) : i < IndexModulus

--------------------------------------------------------------------------------
(* Arithmetic of doSendUnfragmentedData *)

\* There is room for data in every fragment.
LEMMA PayloadType ==
    ASSUME NEW m \in Message
    PROVE  /\ FirstPayload(m) \in Nat \ {0}
           /\ RestPayload \in Nat \ {0}
           /\ Size[m] \in Nat
           /\ Header[m] \in Nat
<1>1. /\ Header[m] \in Nat
      /\ Size[m] \in Nat
      /\ CommonHeader + FragHeader + Header[m] < Mtu
      /\ Mtu \in Nat /\ CommonHeader \in Nat /\ FragHeader \in Nat
  BY FragmentAssumption
<1> QED BY <1>1 DEF FirstPayload, RestPayload

\* A fragment starts where the one before it has no more room.
LEMMA OffsetStep ==
    ASSUME NEW m \in Message, NEW i \in Nat
    PROVE  /\ Offset(m, i) \in Nat
           /\ Payload(m, i) \in Nat \ {0}
           /\ Offset(m, i + 1) = Offset(m, i) + Payload(m, i)
<1> DEFINE a == FirstPayload(m)  r == RestPayload
<1>1. a \in Nat \ {0} /\ r \in Nat \ {0}  BY PayloadType
<1>2. /\ Offset(m, i) = IF i = 0 THEN 0 ELSE a + (i - 1) * r
      /\ Offset(m, i + 1) = a + i * r
      /\ Payload(m, i) = IF i = 0 THEN a ELSE r
  <2>1. i + 1 # 0 /\ (i + 1) - 1 = i  OBVIOUS
  <2> QED BY <2>1 DEF Offset, Payload
<1> HIDE DEF a, r
<1>3. CASE i = 0
  <2>1. i * r = 0  BY <1>1, <1>3
  <2> QED BY <1>1, <1>2, <1>3, <2>1
<1>4. CASE i # 0
  <2>1. i - 1 \in Nat  BY <1>4
  <2>2. (i - 1) * r \in Nat  BY <1>1, <2>1
  <2>3. i * r = (i - 1) * r + r  BY <1>1, <2>1
  <2> QED BY <1>1, <1>2, <1>4, <2>2, <2>3
<1> QED BY <1>3, <1>4

\* Later fragments start further on.
LEMMA OffsetMonotonic ==
    ASSUME NEW m \in Message, NEW i \in Nat, NEW j \in Nat, i <= j
    PROVE  Offset(m, i) <= Offset(m, j)
<1> DEFINE a == FirstPayload(m)  r == RestPayload
<1>1. a \in Nat \ {0} /\ r \in Nat \ {0}  BY PayloadType
<1>2. \A k \in Nat : Offset(m, k) = IF k = 0 THEN 0 ELSE a + (k - 1) * r
  BY DEF Offset
<1>3. Offset(m, j) \in Nat  BY OffsetStep
<1> HIDE DEF a, r
<1>4. CASE i = 0
  BY <1>2, <1>3, <1>4
<1>5. CASE i # 0
  <2>1. i - 1 \in Nat /\ j - 1 \in Nat /\ j # 0 /\ i - 1 <= j - 1  BY <1>5
  <2>2. PICK d \in Nat : j - 1 = (i - 1) + d  BY <2>1
  <2>3. d * r \in Nat /\ (i - 1) * r \in Nat  BY <1>1, <2>1
  <2>4. (j - 1) * r = (i - 1) * r + d * r  BY <1>1, <2>1, <2>2
  <2> QED BY <1>1, <1>2, <1>5, <2>1, <2>3, <2>4
<1> QED BY <1>4, <1>5

\* No fragment comes after the one that is marked as the last.
LEMMA LastIsLast ==
    ASSUME NEW m \in Message, NEW i \in Indices(m), NEW j \in Indices(m), IsLast(m, j)
    PROVE  i <= j
<1>1. i \in Nat /\ j \in Nat /\ Size[m] \in Nat /\ Offset(m, i) < Size[m]
  BY PayloadType DEF Indices
<1>2. SUFFICES ASSUME i >= j + 1 PROVE FALSE  BY <1>1
<1>3. Offset(m, j + 1) <= Offset(m, i)  BY <1>1, <1>2, OffsetMonotonic
<1>4. Offset(m, j + 1) >= Size[m]  BY <1>1, OffsetStep DEF IsLast
<1>5. Offset(m, i) \in Nat /\ Offset(m, j + 1) \in Nat  BY <1>1, OffsetStep
<1> QED BY <1>1, <1>3, <1>4, <1>5

\* A fragment that is not the last is full.
LEMMA NotLast ==
    ASSUME NEW m \in Message, NEW i \in Nat, i + 1 \in Indices(m)
    PROVE  /\ ~IsLast(m, i)
           /\ Offset(m, i + 1) = Offset(m, i) + Length(m, i)
<1>1. Offset(m, i + 1) = Offset(m, i) + Payload(m, i)  BY OffsetStep
<1>2. Offset(m, i + 1) < Size[m]  BY DEF Indices
<1>3. Size[m] \in Nat /\ Offset(m, i) \in Nat /\ Payload(m, i) \in Nat
  BY PayloadType, OffsetStep
<1>4. ~IsLast(m, i)  BY <1>1, <1>2, <1>3 DEF IsLast
<1> QED BY <1>1, <1>4 DEF Length

\* Within the range of indices, the wire carries index and flag faithfully.
LEMMA FragmentFields ==
    ASSUME FitsIndex, NEW m \in Message, NEW i \in Indices(m),
           NEW t \in Nat, NEW id \in Ids
    PROVE  /\ Fragment(t, m, id, i) \in Packets
           /\ Fragment(t, m, id, i) =
                [tx |-> t, id |-> id, index |-> i, last |-> IsLast(m, i),
                 offset |-> Offset(m, i), length |-> Length(m, i),
                 header |-> IF i = 0 THEN Header[m] ELSE 0]
<1>1. i \in Nat /\ i < IndexModulus /\ IndexModulus \in Nat
  BY FragmentAssumption DEF FitsIndex, Indices
<1>2. WireIndex(i) = i  BY <1>1 DEF WireIndex
<1>3. WireLast(m, i) = IsLast(m, i)
  <2>1. ~(i >= IndexModulus)  BY <1>1
  <2> QED BY <2>1 DEF WireLast, IsLast
<1>4. /\ Offset(m, i) \in Nat /\ Payload(m, i) \in Nat
      /\ Size[m] \in Nat /\ Header[m] \in Nat /\ Offset(m, i) < Size[m]
  BY <1>1, OffsetStep, PayloadType DEF Indices
<1>5. Length(m, i) \in Nat  BY <1>4 DEF Length
<1>6. IsLast(m, i) \in BOOLEAN  BY DEF IsLast
<1>7. Fragment(t, m, id, i) =
        [tx |-> t, id |-> id, index |-> i, last |-> IsLast(m, i),
         offset |-> Offset(m, i), length |-> Length(m, i),
         header |-> IF i = 0 THEN Header[m] ELSE 0]
  BY <1>2, <1>3 DEF Fragment
<1> QED BY <1>1, <1>4, <1>5, <1>6, <1>7 DEF Packets

--------------------------------------------------------------------------------
(* The inductive invariant *)

\* A fragment of transmission tr, which used tr as its id, cut as it should be.
Cut(tr, tx, p) ==
    /\ tx \in DOMAIN tr
    /\ p.index \in Indices(tr[tx])
    /\ p = Fragment(tx, tr[tx], tx, p.index)

\* All fragments of an entry are of one transmission, each under its own index;
\* the count comes from the last of them, and the headers from the first.
EntryOK(tr, id, e) ==
    /\ IsEntry(e)
    /\ \A i \in Seen(e) : Cut(tr, id, e.frags[i]) /\ e.frags[i].index = i
    /\ e.total # Unknown => e.total - 1 \in Seen(e) /\ e.frags[e.total - 1].last
    /\ e.header = IF 0 \in Seen(e) THEN e.frags[0].header ELSE 0

CounterInv ==
    /\ Len(transmitted) <= MaxTransmissions
    /\ Len(transmitted) < MaxTransmissions => nextMessageId = Len(transmitted) + 1

NetInv == \A p \in net : Cut(transmitted, p.tx, p)

StoreInv == \A id \in Ids : EntryOK(transmitted, id, store[id])

IInv ==
    /\ TypeOK
    /\ CounterInv
    /\ NetInv
    /\ StoreInv
    /\ NoCompleteLeft
    /\ Integrity
    /\ NoGap

--------------------------------------------------------------------------------
(* Entries of the store *)

LEMMA EmptyEntry ==
    ASSUME NEW tr, NEW id
    PROVE  /\ EntryOK(tr, id, Empty)
           /\ ~IsComplete(Empty)
           /\ Seen(Empty) = {}
<1>1. Seen(Empty) = {}  BY DEF Seen, Empty
<1>2. IsEntry(Empty)  BY <1>1 DEF IsEntry, Empty, Unknown
<1> QED BY <1>1, <1>2 DEF EntryOK, IsComplete, Empty

\* Adding a fragment of its own transmission keeps an entry in order.
LEMMA AddEntry ==
    ASSUME FitsIndex, NEW tr \in Seq(Message), NEW id \in Ids, NEW e,
           EntryOK(tr, id, e), NEW p \in Packets, Cut(tr, id, p), p.index \notin Seen(e)
    PROVE  EntryOK(tr, id, AddFragment(e, p))
<1> DEFINE f == AddFragment(e, p)  m == tr[id]
<1>1. id \in DOMAIN tr /\ m \in Message /\ p.index \in Indices(m)  BY DEF Cut
<1>2. /\ id \in Nat
      /\ p = [tx |-> id, id |-> id, index |-> p.index, last |-> IsLast(m, p.index),
              offset |-> Offset(m, p.index), length |-> Length(m, p.index),
              header |-> IF p.index = 0 THEN Header[m] ELSE 0]
  <2>1. id \in Nat  BY FragmentAssumption DEF Ids
  <2> QED BY <1>1, <2>1, FragmentFields DEF Cut
<1>3. /\ f.frags = [i \in Seen(e) \cup {p.index} |-> IF i = p.index THEN p ELSE e.frags[i]]
      /\ f.total = IF p.last THEN p.index + 1 ELSE e.total
      /\ f.header = IF p.header # 0 THEN p.header ELSE e.header
      /\ f.stale = e.stale
      /\ f = [frags |-> f.frags, total |-> f.total, header |-> f.header, stale |-> f.stale]
  BY DEF AddFragment
<1>4. Seen(f) = Seen(e) \cup {p.index}  BY <1>3 DEF Seen
<1>5. /\ \A i \in Seen(e) : f.frags[i] = e.frags[i]
      /\ f.frags[p.index] = p
  BY <1>3, <1>4
<1>6. /\ p.index \in Nat /\ p.header \in Nat /\ p.last \in BOOLEAN
  BY DEF Packets
<1> HIDE DEF f, m
<1>7. IsEntry(f)
  <2>1. IsEntry(e)  BY DEF EntryOK
  <2>2. Seen(f) \subseteq Nat  BY <1>4, <1>6, <2>1 DEF IsEntry
  <2>3. \A i \in Seen(f) : f.frags[i] \in Packets  BY <1>4, <1>5, <2>1 DEF IsEntry
  <2>4. f.total \in Nat \cup {Unknown} /\ f.header \in Nat /\ f.stale \in BOOLEAN
    BY <1>3, <1>6, <2>1 DEF IsEntry
  <2> QED BY <1>3, <2>2, <2>3, <2>4 DEF IsEntry
<1>8. \A i \in Seen(f) : Cut(tr, id, f.frags[i]) /\ f.frags[i].index = i
  BY <1>4, <1>5 DEF EntryOK
<1>9. f.total # Unknown => f.total - 1 \in Seen(f) /\ f.frags[f.total - 1].last
  <2>1. CASE p.last
    <3>1. f.total - 1 = p.index  BY <1>3, <1>6, <2>1
    <3> QED BY <1>4, <1>5, <2>1, <3>1
  <2>2. CASE ~p.last
    BY <1>3, <1>4, <1>5, <2>2 DEF EntryOK
  <2> QED BY <2>1, <2>2
<1>10. f.header = IF 0 \in Seen(f) THEN f.frags[0].header ELSE 0
  <2>1. CASE p.index = 0
    <3>1. e.header = 0  BY <2>1 DEF EntryOK
    <3> QED BY <1>3, <1>4, <1>5, <1>6, <2>1, <3>1
  <2>2. CASE p.index # 0
    <3>1. p.header = 0  BY <1>2, <2>2
    <3>2. 0 \in Seen(f) <=> 0 \in Seen(e)  BY <1>4, <2>2
    <3> QED BY <1>3, <1>5, <3>1, <3>2 DEF EntryOK
  <2> QED BY <2>1, <2>2
<1> QED BY <1>7, <1>8, <1>9, <1>10 DEF EntryOK, f

\* A complete entry is one whole transmission.
LEMMA CompleteIsWhole ==
    ASSUME FitsIndex, NEW tr \in Seq(Message), NEW id \in Ids, NEW e,
           EntryOK(tr, id, e), IsComplete(e)
    PROVE  /\ Reassemble(e) = Outcome("message", e.frags, e.header)
           /\ id \in DOMAIN tr
           /\ \A i \in DOMAIN e.frags : e.frags[i].tx = id
           /\ Tiles(e.frags, Size[tr[id]])
           /\ e.header = Header[tr[id]]
<1> DEFINE m == tr[id]  n == Cardinality(Seen(e))
<1>1. PICK j \in Seen(e) : TRUE  BY DEF IsComplete
<1>2. id \in DOMAIN tr /\ m \in Message  BY <1>1 DEF EntryOK, Cut
<1>3. \A i \in Seen(e) :
         /\ i \in Indices(m)
         /\ e.frags[i].tx = id
         /\ e.frags[i].last = IsLast(m, i)
         /\ e.frags[i].offset = Offset(m, i)
         /\ e.frags[i].length = Length(m, i)
         /\ i = 0 => e.frags[i].header = Header[m]
  <2>1. id \in Nat  BY FragmentAssumption DEF Ids
  <2>2. TAKE i \in Seen(e)
  <2>3. i \in Indices(m) /\ e.frags[i] = Fragment(id, m, id, i)  BY DEF EntryOK, Cut
  <2> QED BY <1>2, <2>1, <2>3, FragmentFields
<1>4. Size[m] \in Nat  BY <1>2, PayloadType
<1>5. IsFiniteSet(Seen(e)) /\ n \in Nat
  <2>1. IsFiniteSet(0..Size[m])  BY <1>4, FS_Interval
  <2>2. Seen(e) \in SUBSET (0..Size[m])  BY <1>3 DEF Indices
  <2>3. IsFiniteSet(Seen(e))  BY <2>1, <2>2, FS_Subset
  <2> QED BY <2>3, FS_CardinalityType
<1>6. e.total = n /\ e.total # Unknown  BY <1>5 DEF IsComplete, Unknown
<1> HIDE DEF m, n
<1>7. n - 1 \in Seen(e) /\ e.frags[n - 1].last  BY <1>6 DEF EntryOK
<1>8. IsLast(m, n - 1) /\ n - 1 \in Indices(m)  BY <1>3, <1>7
<1>9. n \in Nat \ {0}  BY <1>5, <1>8 DEF Indices
<1>10. Seen(e) = 0..(n - 1)
  <2>1. \A i \in Seen(e) : i \in Nat /\ i <= n - 1
    <3>1. TAKE i \in Seen(e)
    <3>2. i \in Indices(m)  BY <1>3
    <3>3. i <= n - 1  BY <1>2, <1>8, <3>2, LastIsLast
    <3> QED BY <3>2, <3>3 DEF Indices
  <2>2. Seen(e) \in SUBSET (0..(n - 1))  BY <1>9, <2>1
  <2>3. IsFiniteSet(0..(n - 1)) /\ Cardinality(0..(n - 1)) = n
    <3>1. n - 1 \in Int /\ ~(0 > n - 1) /\ (n - 1) - 0 + 1 = n  BY <1>9
    <3> QED BY <3>1, FS_Interval
  <2> QED BY <2>2, <2>3, FS_Subset DEF n
<1>11. Reassemble(e) = Outcome("message", e.frags, e.header)
  BY <1>6, <1>10 DEF Reassemble
<1>12. e.header = Header[m]
  <2>1. 0 \in Seen(e)  BY <1>9, <1>10
  <2> QED BY <1>3, <2>1 DEF EntryOK
<1>13. Tiles(e.frags, Size[m])
  <2>1. DOMAIN e.frags = 0..(n - 1) /\ Cardinality(DOMAIN e.frags) = n
    BY <1>10 DEF Seen, n
  <2>2. e.frags[0].offset = 0
    <3>1. 0 \in Seen(e)  BY <1>9, <1>10
    <3> QED BY <1>3, <3>1 DEF Offset
  <2>3. \A i \in 1..(n - 1) :
           e.frags[i].offset = e.frags[i - 1].offset + e.frags[i - 1].length
    <3>1. TAKE i \in 1..(n - 1)
    <3>2. i - 1 \in Nat /\ i \in Seen(e) /\ i - 1 \in Seen(e) /\ (i - 1) + 1 = i
      BY <1>9, <1>10
    <3>3. /\ e.frags[i].offset = Offset(m, i)
          /\ e.frags[i - 1].offset = Offset(m, i - 1)
          /\ e.frags[i - 1].length = Length(m, i - 1)
          /\ i \in Indices(m)
      BY <1>3, <3>2
    <3>4. Offset(m, i) = Offset(m, i - 1) + Length(m, i - 1)
      BY <1>2, <3>2, <3>3, NotLast
    <3> QED BY <3>3, <3>4
  <2>4. e.frags[n - 1].offset + e.frags[n - 1].length = Size[m]
    <3>1. Length(m, n - 1) = Size[m] - Offset(m, n - 1)  BY <1>8 DEF Length
    <3>2. Offset(m, n - 1) \in Nat
      <4>1. n - 1 \in Nat  BY <1>9
      <4> QED BY <1>2, <4>1, OffsetStep
    <3>3. /\ e.frags[n - 1].offset = Offset(m, n - 1)
          /\ e.frags[n - 1].length = Length(m, n - 1)
      BY <1>3, <1>7
    <3> QED BY <1>4, <3>1, <3>2, <3>3
  <2> QED BY <2>1, <2>2, <2>3, <2>4 DEF Tiles
<1> QED BY <1>2, <1>3, <1>11, <1>12, <1>13 DEF Seen, m

--------------------------------------------------------------------------------
(* Invariance *)

LEMMA InitIInv == Init => IInv
<1> SUFFICES ASSUME Init PROVE IInv  OBVIOUS
<1>1. /\ net = {} /\ nextMessageId = 1 /\ transmitted = <<>>
      /\ store = [id \in Ids |-> Empty] /\ result = Nothing
  BY DEF Init
<1>2. \A id \in Ids : EntryOK(transmitted, id, store[id]) /\ ~IsComplete(store[id])
  BY <1>1, EmptyEntry
<1>3. TypeOK
  <2>1. nextMessageId \in Ids  BY <1>1, FragmentAssumption DEF Ids
  <2>2. <<>> \in Seq(Message)  OBVIOUS
  <2>3. \A id \in Ids : IsEntry(store[id])  BY <1>2 DEF EntryOK
  <2>4. result.kind = "nothing"  BY <1>1 DEF Nothing, Outcome
  <2> QED BY <1>1, <2>1, <2>2, <2>3, <2>4 DEF TypeOK
<1>4. CounterInv  BY <1>1, FragmentAssumption DEF CounterInv
<1>5. Integrity /\ NoGap  BY <1>1 DEF Integrity, NoGap, Nothing, Outcome
<1> QED BY <1>1, <1>2, <1>3, <1>4, <1>5 DEF IInv, NetInv, StoreInv, NoCompleteLeft

\* What was cut stays cut when more is transmitted.
LEMMA CutExtends ==
    ASSUME NEW tr \in Seq(Message), NEW m \in Message, NEW tx, NEW p, Cut(tr, tx, p)
    PROVE  Cut(Append(tr, m), tx, p)
<1>1. tx \in 1..Len(tr)  BY DEF Cut
<1>2. tx \in DOMAIN Append(tr, m) /\ Append(tr, m)[tx] = tr[tx]  BY <1>1
<1> QED BY <1>2 DEF Cut

LEMMA TransmitInv ==
    ASSUME NoIdReuse, FitsIndex, IInv, NEW m \in Message, Transmit(m)
    PROVE  IInv'
<1> DEFINE t == Len(transmitted) + 1
<1>1. /\ Len(transmitted) < MaxTransmissions
      /\ net' = net \cup {Fragment(t, m, nextMessageId, i) : i \in Indices(m)}
      /\ nextMessageId' = NextMessageId(nextMessageId)
      /\ transmitted' = Append(transmitted, m)
      /\ store' = store /\ result' = result
  BY DEF Transmit
<1>2. /\ TypeOK /\ CounterInv /\ NetInv /\ StoreInv /\ NoCompleteLeft /\ Integrity /\ NoGap
  BY DEF IInv
<1>3. /\ transmitted \in Seq(Message) /\ Len(transmitted) \in Nat
      /\ t \in Nat /\ t >= 1 /\ nextMessageId = t /\ t \in Ids
      /\ IdModulus \in Nat /\ MaxTransmissions \in Nat
  BY <1>1, <1>2, FragmentAssumption DEF TypeOK, CounterInv
<1>4. /\ transmitted' \in Seq(Message) /\ Len(transmitted') = t /\ DOMAIN transmitted' = 1..t
      /\ transmitted'[t] = m
      /\ \A k \in DOMAIN transmitted : k \in DOMAIN transmitted' /\ transmitted'[k] = transmitted[k]
  BY <1>1, <1>3
<1> HIDE DEF t
<1>5. \A i \in Indices(m) :
         LET p == Fragment(t, m, nextMessageId, i)
         IN  p \in Packets /\ Cut(transmitted', p.tx, p)
  <2>1. TAKE i \in Indices(m)
  <2> DEFINE p == Fragment(t, m, t, i)
  <2>2. p \in Packets /\ p.tx = t /\ p.index = i  BY <1>3, FragmentFields
  <2>3. t \in DOMAIN transmitted'  BY <1>3, <1>4
  <2>4. p = Fragment(t, transmitted'[t], t, p.index)  BY <1>4, <2>2
  <2> HIDE DEF p
  <2>5. Cut(transmitted', p.tx, p)  BY <1>4, <2>2, <2>3, <2>4 DEF Cut
  <2> QED BY <1>3, <2>2, <2>5 DEF p
<1>6. TypeOK'
  <2>1. net' \subseteq Packets  BY <1>1, <1>2, <1>5 DEF TypeOK
  <2>2. nextMessageId' \in Ids
    BY <1>1, <1>3, FragmentAssumption DEF NextMessageId, Ids
  <2> QED BY <1>1, <1>2, <1>4, <2>1, <2>2 DEF TypeOK
<1>7. CounterInv'
  <2>1. Len(transmitted') <= MaxTransmissions  BY <1>1, <1>3, <1>4 DEF t
  <2>2. ASSUME Len(transmitted') < MaxTransmissions
        PROVE  nextMessageId' = Len(transmitted') + 1
    <3>1. t + 1 # IdModulus  BY <1>3, <1>4, <2>2 DEF NoIdReuse
    <3> QED BY <1>1, <1>3, <1>4, <3>1 DEF NextMessageId
  <2> QED BY <2>1, <2>2 DEF CounterInv
<1>8. NetInv'
  <2>1. \A p \in net : Cut(transmitted', p.tx, p)
    BY <1>1, <1>2, <1>3, CutExtends DEF NetInv
  <2> QED BY <1>1, <1>5, <2>1 DEF NetInv
<1>9. StoreInv'
  <2>1. ASSUME NEW id \in Ids PROVE EntryOK(transmitted', id, store[id])
    <3>1. EntryOK(transmitted, id, store[id])  BY <1>2 DEF StoreInv
    <3>2. \A i \in Seen(store[id]) : Cut(transmitted', id, store[id].frags[i])
      BY <1>1, <1>3, <3>1, CutExtends DEF EntryOK
    <3> QED BY <3>1, <3>2 DEF EntryOK
  <2> QED BY <1>1, <2>1 DEF StoreInv
<1>10. NoCompleteLeft' /\ NoGap'  BY <1>1, <1>2 DEF NoCompleteLeft, NoGap
<1>11. Integrity'
  <2> SUFFICES ASSUME result.kind = "message"
               PROVE  \E k \in DOMAIN transmitted' :
                         /\ \A i \in DOMAIN result.frags : result.frags[i].tx = k
                         /\ Tiles(result.frags, Size[transmitted'[k]])
                         /\ result.header = Header[transmitted'[k]]
    BY <1>1 DEF Integrity
  <2>1. PICK k \in DOMAIN transmitted :
                         /\ \A i \in DOMAIN result.frags : result.frags[i].tx = k
                         /\ Tiles(result.frags, Size[transmitted[k]])
                         /\ result.header = Header[transmitted[k]]
    BY <1>2 DEF Integrity
  <2> QED BY <1>4, <2>1
<1> QED BY <1>6, <1>7, <1>8, <1>9, <1>10, <1>11 DEF IInv

LEMMA ProcessFragmentInv ==
    ASSUME FitsIndex, IInv, NEW p \in net, ProcessFragment(p)
    PROVE  IInv'
<1>1. net' = net /\ nextMessageId' = nextMessageId /\ transmitted' = transmitted
  BY DEF ProcessFragment
<1>2. /\ TypeOK /\ CounterInv /\ NetInv /\ StoreInv /\ NoCompleteLeft /\ Integrity /\ NoGap
  BY DEF IInv
<1>3. /\ p \in Packets /\ p.id \in Ids /\ Cut(transmitted, p.tx, p)
      /\ transmitted \in Seq(Message)
  BY <1>2 DEF TypeOK, NetInv, Packets
<1>4. p.id = p.tx
  BY <1>3 DEF Cut, Fragment
<1>5. CounterInv' /\ NetInv'  BY <1>1, <1>2 DEF CounterInv, NetInv
<1>6. SUFFICES /\ StoreInv' /\ NoCompleteLeft' /\ Integrity' /\ NoGap'
               /\ DOMAIN store' = Ids /\ result'.kind \in {"nothing", "message", "error"}
  <2>1. ASSUME StoreInv', DOMAIN store' = Ids, result'.kind \in {"nothing", "message", "error"}
        PROVE  TypeOK'
    BY <1>1, <1>2, <2>1 DEF TypeOK, StoreInv, EntryOK
  <2> QED BY <1>5, <2>1 DEF IInv
<1>7. CASE p.index \in Seen(store[p.id]) /\ result' = Nothing /\ UNCHANGED store
  BY <1>1, <1>2, <1>7
     DEF StoreInv, NoCompleteLeft, Integrity, NoGap, Nothing, Outcome, TypeOK
<1>8. CASE /\ p.index \notin Seen(store[p.id])
           /\ ProcessStored([store EXCEPT ![p.id] = AddFragment(@, p)])
  <2> DEFINE s == [store EXCEPT ![p.id] = AddFragment(@, p)]
  <2>1. \A id \in Ids : EntryOK(transmitted, id, s[id])
    <3>1. EntryOK(transmitted, p.id, AddFragment(store[p.id], p))
      BY <1>2, <1>3, <1>4, <1>8, AddEntry DEF StoreInv
    <3> QED BY <1>2, <1>3, <3>1 DEF StoreInv, TypeOK
  <2>2. \A id \in Ids : id # p.id => ~IsComplete(s[id])
    BY <1>2 DEF NoCompleteLeft, TypeOK
  <2>3. ProcessStored(s)  BY <1>8
  <2> HIDE DEF s
  <2>4. CASE \E c \in Ids :
                /\ IsComplete(s[c])
                /\ \E visited \in SUBSET {i \in Ids : s[i].stale /\ ~IsComplete(s[i])} :
                      store' = [i \in Ids |-> IF i = c \/ i \in visited THEN Empty ELSE s[i]]
                /\ result' = Reassemble(s[c])
    <3>1. PICK c \in Ids :
                /\ IsComplete(s[c])
                /\ \E visited \in SUBSET {i \in Ids : s[i].stale /\ ~IsComplete(s[i])} :
                      store' = [i \in Ids |-> IF i = c \/ i \in visited THEN Empty ELSE s[i]]
                /\ result' = Reassemble(s[c])
      BY <2>4
    <3>2. PICK visited \in SUBSET {i \in Ids : s[i].stale /\ ~IsComplete(s[i])} :
                      store' = [i \in Ids |-> IF i = c \/ i \in visited THEN Empty ELSE s[i]]
      BY <3>1
    <3>3. c = p.id  BY <2>2, <3>1
    <3>4. EntryOK(transmitted, c, s[c])  BY <2>1
    <3>5. /\ result' = Outcome("message", s[c].frags, s[c].header)
          /\ c \in DOMAIN transmitted
          /\ \A i \in DOMAIN s[c].frags : s[c].frags[i].tx = c
          /\ Tiles(s[c].frags, Size[transmitted[c]])
          /\ s[c].header = Header[transmitted[c]]
      BY <1>3, <3>1, <3>4, CompleteIsWhole
    <3>6. /\ result'.kind = "message" /\ result'.frags = s[c].frags
          /\ result'.header = s[c].header
      BY <3>5 DEF Outcome
    <3>7. Integrity' /\ NoGap'  BY <1>1, <3>5, <3>6 DEF Integrity, NoGap
    <3>8. \A id \in Ids : store'[id] = Empty \/ (store'[id] = s[id] /\ id # c)  BY <3>2
    <3>9. StoreInv'  BY <1>1, <2>1, <3>8, EmptyEntry DEF StoreInv
    <3>10. NoCompleteLeft'  BY <2>2, <3>3, <3>8, EmptyEntry DEF NoCompleteLeft
    <3> QED BY <3>2, <3>6, <3>7, <3>9, <3>10
  <2>5. CASE /\ \A i \in Ids : ~IsComplete(s[i])
             /\ store' = [i \in Ids |-> IF s[i].stale THEN Empty ELSE s[i]]
             /\ result' = Nothing
    <3>1. \A id \in Ids : store'[id] = Empty \/ store'[id] = s[id]  BY <2>5
    <3>2. result'.kind = "nothing"  BY <2>5 DEF Nothing, Outcome
    <3>3. StoreInv'  BY <1>1, <2>1, <3>1, EmptyEntry DEF StoreInv
    <3>4. NoCompleteLeft'  BY <2>5, <3>1, EmptyEntry DEF NoCompleteLeft
    <3>5. Integrity' /\ NoGap'  BY <3>2 DEF Integrity, NoGap
    <3> QED BY <2>5, <3>2, <3>3, <3>4, <3>5
  <2> QED BY <2>3, <2>4, <2>5 DEF ProcessStored
<1> QED BY <1>7, <1>8 DEF ProcessFragment

LEMMA ElapseInv ==
    ASSUME IInv, NEW id \in Ids, Elapse(id)
    PROVE  IInv'
<1>1. /\ store' = [store EXCEPT ![id].stale = TRUE]
      /\ net' = net /\ nextMessageId' = nextMessageId
      /\ transmitted' = transmitted /\ result' = result
  BY DEF Elapse
<1>2. /\ TypeOK /\ CounterInv /\ NetInv /\ StoreInv /\ NoCompleteLeft /\ Integrity /\ NoGap
  BY DEF IInv
<1>3. DOMAIN store = Ids /\ IsEntry(store[id])  BY <1>2 DEF TypeOK
<1>4. /\ DOMAIN store' = Ids
      /\ \A k \in Ids : k # id => store'[k] = store[k]
      /\ store'[id] = [store[id] EXCEPT !.stale = TRUE]
  BY <1>1, <1>3
<1>5. /\ store'[id].frags = store[id].frags /\ store'[id].total = store[id].total
      /\ store'[id].header = store[id].header /\ store'[id].stale = TRUE
      /\ store'[id] = [frags |-> store'[id].frags, total |-> store'[id].total,
                       header |-> store'[id].header, stale |-> store'[id].stale]
  BY <1>3, <1>4 DEF IsEntry
<1>6. EntryOK(transmitted, id, store'[id])
  <2>1. EntryOK(transmitted, id, store[id])  BY <1>2 DEF StoreInv
  <2>2. Seen(store'[id]) = Seen(store[id])  BY <1>5 DEF Seen
  <2>3. IsEntry(store'[id])  BY <1>3, <1>5, <2>2 DEF IsEntry
  <2> QED BY <1>5, <2>1, <2>2, <2>3, Zenon DEF EntryOK
<1>7. ~IsComplete(store'[id])
  BY <1>2, <1>5 DEF NoCompleteLeft, IsComplete, Seen
<1>8. StoreInv'  BY <1>1, <1>2, <1>4, <1>6 DEF StoreInv
<1>9. NoCompleteLeft'  BY <1>2, <1>4, <1>7 DEF NoCompleteLeft
<1>10. TypeOK'  BY <1>1, <1>2, <1>4, <1>8 DEF TypeOK, StoreInv, EntryOK
<1> QED
  BY <1>1, <1>2, <1>8, <1>9, <1>10 DEF IInv, CounterInv, NetInv, Integrity, NoGap

\* Nothing changes when no variable does.
LEMMA StutterInv == ASSUME IInv, UNCHANGED vars PROVE IInv'
BY DEF IInv, vars, TypeOK, CounterInv, NetInv, StoreInv, NoCompleteLeft, Integrity, NoGap

\* The inductive invariant holds in every reachable state of the specification.
THEOREM Invariance == ASSUME NoIdReuse, FitsIndex PROVE Spec => []IInv
<1>1. Init => IInv  BY InitIInv
<1>2. IInv /\ [Next]_vars => IInv'
  <2> SUFFICES ASSUME IInv, [Next]_vars PROVE IInv'  OBVIOUS
  <2>1. ASSUME NEW m \in Message, Transmit(m) PROVE IInv'  BY <2>1, TransmitInv
  <2>2. ASSUME NEW p \in net, ProcessFragment(p) PROVE IInv'  BY <2>2, ProcessFragmentInv
  <2>3. ASSUME NEW id \in Ids, Elapse(id) PROVE IInv'  BY <2>3, ElapseInv
  <2>4. CASE UNCHANGED vars  BY <2>4, StutterInv
  <2> QED BY <2>1, <2>2, <2>3, <2>4 DEF Next
<1> QED BY <1>1, <1>2, PTL DEF Spec

\* Every variable keeps its type (FragmentStore and the sender's counter).
THEOREM TypeCorrect == ASSUME NoIdReuse, FitsIndex PROVE Spec => []TypeOK
<1>1. IInv => TypeOK  BY DEF IInv
<1> QED BY <1>1, Invariance, PTL

\* What processFragment returns is one transmission of one message, complete, in
\* order and with its headers, whatever the network does.
THEOREM ReassembledIntact == ASSUME NoIdReuse, FitsIndex PROVE Spec => []Integrity
<1>1. IInv => Integrity  BY DEF IInv
<1> QED BY <1>1, Invariance, PTL

\* reassemble never reports a gap for what doSendUnfragmentedData cut.
THEOREM NeverAGap == ASSUME NoIdReuse, FitsIndex PROVE Spec => []NoGap
<1>1. IInv => NoGap  BY DEF IInv
<1> QED BY <1>1, Invariance, PTL

\* No complete message is left in the store by processStored.
THEOREM CompleteIsReturned == ASSUME NoIdReuse, FitsIndex PROVE Spec => []NoCompleteLeft
<1>1. IInv => NoCompleteLeft  BY DEF IInv
<1> QED BY <1>1, Invariance, PTL

\* What a step does to the fragments of one entry: they stay, or they are returned.
StaysOrReturned(id) ==
    \/ Seen(store[id]) \subseteq Seen(store'[id])
    \/ /\ result'.kind # "nothing"
       /\ \A i \in Seen(store[id]) :
             i \in DOMAIN result'.frags /\ result'.frags[i] = store[id].frags[i]

LEMMA ProcessFragmentKeeps ==
    ASSUME FitsIndex, IInv, NEW p \in net, ProcessFragment(p), NEW id \in Ids, ~store[id].stale
    PROVE  StaysOrReturned(id)
<1>1. /\ TypeOK /\ NetInv /\ StoreInv /\ NoCompleteLeft
      /\ p \in Packets /\ p.id \in Ids /\ Cut(transmitted, p.tx, p)
      /\ transmitted \in Seq(Message) /\ DOMAIN store = Ids
  BY DEF IInv, TypeOK, NetInv, Packets
<1>2. p.id = p.tx
  BY <1>1 DEF Cut, Fragment
<1>3. CASE UNCHANGED store
  BY <1>3 DEF StaysOrReturned
<1>4. CASE /\ p.index \notin Seen(store[p.id])
           /\ ProcessStored([store EXCEPT ![p.id] = AddFragment(@, p)])
  <2> DEFINE s == [store EXCEPT ![p.id] = AddFragment(@, p)]
  <2>1. /\ s[p.id] = AddFragment(store[p.id], p)
        /\ \A k \in Ids : k # p.id => s[k] = store[k]
    BY <1>1
  <2>2. ProcessStored(s)  BY <1>4
  <2> HIDE DEF s
  <2>3. /\ Seen(store[p.id]) \subseteq Seen(s[p.id])
        /\ s[p.id].stale = store[p.id].stale
        /\ \A i \in Seen(store[p.id]) : s[p.id].frags[i] = store[p.id].frags[i]
    BY <1>4, <2>1 DEF AddFragment, Seen
  <2>4. Seen(store[id]) \subseteq Seen(s[id]) /\ ~s[id].stale
    BY <2>1, <2>3
  <2>5. \A i \in Seen(store[id]) : s[id].frags[i] = store[id].frags[i]
    BY <2>1, <2>3
  <2>6. CASE store'[id] = s[id]
    BY <2>4, <2>6 DEF StaysOrReturned
  <2>7. ASSUME NEW c \in Ids, IsComplete(s[c]), result' = Reassemble(s[c]), id = c
        PROVE  StaysOrReturned(id)
    <3>1. c = p.id
      BY <1>1, <2>1, <2>7 DEF NoCompleteLeft
    <3>2. EntryOK(transmitted, c, s[c])
      BY <1>1, <1>2, <1>4, <2>1, <3>1, AddEntry DEF StoreInv
    <3>3. result' = Outcome("message", s[c].frags, s[c].header)
      BY <1>1, <2>7, <3>2, CompleteIsWhole
    <3>4. result'.kind # "nothing" /\ result'.frags = s[c].frags
      BY <3>3 DEF Outcome
    <3> QED BY <2>4, <2>5, <2>7, <3>4 DEF StaysOrReturned, Seen
  <2>8. ASSUME NEW c \in Ids,
               NEW visited \in SUBSET {i \in Ids : s[i].stale /\ ~IsComplete(s[i])},
               store' = [i \in Ids |-> IF i = c \/ i \in visited THEN Empty ELSE s[i]],
               id # c
        PROVE  StaysOrReturned(id)
    BY <2>4, <2>6, <2>8
  <2>9. CASE store' = [i \in Ids |-> IF s[i].stale THEN Empty ELSE s[i]]
    BY <2>4, <2>6, <2>9
  <2> QED BY <2>2, <2>7, <2>8, <2>9 DEF ProcessStored
<1> QED BY <1>3, <1>4 DEF ProcessFragment

\* Until they are 10 seconds old, fragments leave the store only as the message processFragment
\* returns: no other message that is complete, stale or new drives them out.
THEOREM FreshFragmentsKept == ASSUME NoIdReuse, FitsIndex PROVE Spec => FreshKept
<1>1. IInv /\ [Next]_vars => \A id \in Ids : ~store[id].stale => StaysOrReturned(id)
  <2> SUFFICES ASSUME IInv, [Next]_vars, NEW id \in Ids, ~store[id].stale
               PROVE  StaysOrReturned(id)
    OBVIOUS
  <2>1. ASSUME NEW m \in Message, Transmit(m) PROVE StaysOrReturned(id)
    BY <2>1 DEF Transmit, StaysOrReturned
  <2>2. ASSUME NEW p \in net, ProcessFragment(p) PROVE StaysOrReturned(id)
    BY <2>2, ProcessFragmentKeeps
  <2>3. ASSUME NEW k \in Ids, Elapse(k) PROVE StaysOrReturned(id)
    <3>1. DOMAIN store = Ids /\ IsEntry(store[k])  BY DEF IInv, TypeOK
    <3>2. Seen(store'[id]) = Seen(store[id])
      BY <2>3, <3>1 DEF Elapse, Seen, IsEntry
    <3> QED BY <3>2 DEF StaysOrReturned
  <2>4. CASE UNCHANGED vars
    BY <2>4 DEF vars, StaysOrReturned
  <2> QED BY <2>1, <2>2, <2>3, <2>4 DEF Next
<1>2. [Next]_vars /\ IInv
        => [\A id \in Ids :
              ~store[id].stale =>
                 \/ Seen(store[id]) \subseteq Seen(store'[id])
                 \/ /\ result'.kind # "nothing"
                    /\ \A i \in Seen(store[id]) :
                          i \in DOMAIN result'.frags /\ result'.frags[i] = store[id].frags[i]]_vars
  BY <1>1 DEF StaysOrReturned
<1> QED BY <1>2, Invariance, PTL DEF Spec, FreshKept

================================================================================
