----------------------------- MODULE FragmentStore -----------------------------
(***************************************************************************)
(* Messages larger than a datagram: the loop of doSendUnfragmentedData     *)
(* that cuts a message into fragments, and the FragmentStore that puts     *)
(* them together again on the other side of a network that loses,          *)
(* reorders and duplicates them.                                           *)
(*                                                                         *)
(* A message is sent whole or, when it is reliable, again and again: every *)
(* transmission takes a fragment id of its own, so fragments of several    *)
(* transmissions of one message are under way at once.  Bytes are          *)
(* abstracted to ranges: a fragment carries [offset, offset + length).     *)
(***************************************************************************)
EXTENDS Integers, Sequences, FiniteSets

CONSTANTS
    IdModulus,        \* number of uint16_t values                     (65536)
    IndexModulus,     \* indices that fit beside the last-fragment bit (32768)
    Mtu,              \* m_mtu                                          (1200)
    CommonHeader,     \* header byte and connection id                     (9)
    FragHeader,       \* fragmentation header                              (4)
    Message,          \* messages the sender may be asked to send
    Size,             \* for each of them, the bytes of its data
    Header,           \* and of its reliability and compression headers
    MaxTransmissions  \* bound: transmissions, first ones and repeated ones

ASSUME FragmentAssumption ==
    /\ IdModulus \in Nat /\ IdModulus > 1
    /\ IndexModulus \in Nat \ {0}
    /\ Mtu \in Nat /\ CommonHeader \in Nat /\ FragHeader \in Nat
    /\ Size \in [Message -> Nat]
    /\ Header \in [Message -> Nat]
    /\ \A m \in Message : CommonHeader + FragHeader + Header[m] < Mtu
    /\ MaxTransmissions \in Nat

VARIABLES
    net,            \* fragments on their way; any of them may arrive, or not, or twice
    nextMessageId,  \* m_nextMessageId of the sender
    transmitted,    \* the messages transmitted so far, one entry per transmission
    store,          \* m_messages of the receiver; Empty where there is no entry
    result          \* what processFragment returned last

vars == <<net, nextMessageId, transmitted, store, result>>

Ids == 0..(IdModulus - 1)

--------------------------------------------------------------------------------
(* Sending *)

FirstPayload(m) == Mtu - Header[m] - FragHeader - CommonHeader
RestPayload == Mtu - FragHeader - CommonHeader

\* Where fragment i starts, and how many bytes there is room for in it.
Offset(m, i) == IF i = 0 THEN 0 ELSE FirstPayload(m) + (i - 1) * RestPayload
Payload(m, i) == IF i = 0 THEN FirstPayload(m) ELSE RestPayload

\* The loop goes on while offset < data.size().
Indices(m) == {i \in 0..Size[m] : Offset(m, i) < Size[m]}

IsLast(m, i) == Offset(m, i) + Payload(m, i) >= Size[m]

Length(m, i) ==
    IF IsLast(m, i) THEN Size[m] - Offset(m, i) ELSE Payload(m, i)

\* One uint16_t carries the index and, in its top bit, the last-fragment flag.
WireIndex(i) == IF i < IndexModulus THEN i ELSE i % IndexModulus
WireLast(m, i) ==
    IsLast(m, i) \/ (i >= IndexModulus /\ (i \div IndexModulus) % 2 = 1)

\* Only the first fragment takes the reliability and compression headers along.
\* tx tells which transmission it belongs to; the receiver does not see it.
Fragment(t, m, id, i) ==
    [tx |-> t, id |-> id, index |-> WireIndex(i), last |-> WireLast(m, i),
     offset |-> Offset(m, i), length |-> Length(m, i),
     header |-> IF i = 0 THEN Header[m] ELSE 0]

\* m_nextMessageId++ on uint16_t; here 0 is an id like any other.
NextMessageId(id) == IF id + 1 = IdModulus THEN 0 ELSE id + 1

\* doSendUnfragmentedData of a message that does not fit, first time or not.
Transmit(m) ==
    /\ Len(transmitted) < MaxTransmissions
    /\ CommonHeader + Header[m] + Size[m] > Mtu
    /\ net' = net \cup
          {Fragment(Len(transmitted) + 1, m, nextMessageId, i) : i \in Indices(m)}
    /\ nextMessageId' = NextMessageId(nextMessageId)
    /\ transmitted' = Append(transmitted, m)
    /\ UNCHANGED <<store, result>>

--------------------------------------------------------------------------------
(* Receiving *)

\* totalFragmentCount before the last fragment has been seen.
Unknown == -1

Empty == [frags |-> <<>>, total |-> Unknown, header |-> 0, stale |-> FALSE]

Outcome(kind, frags, header) == [kind |-> kind, frags |-> frags, header |-> header]

Nothing == Outcome("nothing", <<>>, 0)

Seen(e) == DOMAIN e.frags

\* Mutant: every fragment overwrites the headers, those without any as well.
AddFragmentHeaderless(e, p) ==
    [frags  |-> [i \in Seen(e) \cup {p.index} |-> IF i = p.index THEN p ELSE e.frags[i]],
     total  |-> IF p.last THEN p.index + 1 ELSE e.total,
     header |-> p.header,
     stale  |-> e.stale]

\* A fragment that was not there yet is kept, with what its headers say.
AddFragment(e, p) ==
    [frags  |-> [i \in Seen(e) \cup {p.index} |-> IF i = p.index THEN p ELSE e.frags[i]],
     total  |-> IF p.last THEN p.index + 1 ELSE e.total,
     header |-> IF p.header # 0 THEN p.header ELSE e.header,
     stale  |-> e.stale]

IsComplete(e) == Seen(e) # {} /\ e.total = Cardinality(Seen(e))

\* The fragments in the order of their indices, which must have no gap.
Reassemble(e) ==
    IF Seen(e) = 0..(e.total - 1)
    THEN Outcome("message", e.frags, e.header)
    ELSE Outcome("error", <<>>, 0)

\* Mutant: the loop ends with the first entry it removes, a stale one included.
ProcessStoredOnce(s) ==
    \/ \E c \in Ids :
          /\ IsComplete(s[c])
          /\ store' = [s EXCEPT ![c] = Empty]
          /\ result' = Reassemble(s[c])
    \/ \E c \in Ids :
          /\ s[c].stale
          /\ store' = [s EXCEPT ![c] = Empty]
          /\ result' = Nothing
    \/ /\ \A i \in Ids : ~IsComplete(s[i]) /\ ~s[i].stale
       /\ store' = s
       /\ result' = Nothing

\* Mutant: with a complete message, everything is cleared.
ProcessStoredClearing(s) ==
    \/ \E c \in Ids :
          /\ IsComplete(s[c])
          /\ store' = [i \in Ids |-> Empty]
          /\ result' = Reassemble(s[c])
    \/ /\ \A i \in Ids : ~IsComplete(s[i])
       /\ store' = [i \in Ids |-> IF s[i].stale THEN Empty ELSE s[i]]
       /\ result' = Nothing

\* processStored goes through the table in an order of its own: up to the first
\* complete message, which it takes out and returns, stale ones are removed.
ProcessStored(s) ==
    \/ \E c \in Ids :
          /\ IsComplete(s[c])
          /\ \E visited \in SUBSET {i \in Ids : s[i].stale /\ ~IsComplete(s[i])} :
                store' = [i \in Ids |-> IF i = c \/ i \in visited THEN Empty ELSE s[i]]
          /\ result' = Reassemble(s[c])
    \/ /\ \A i \in Ids : ~IsComplete(s[i])
       /\ store' = [i \in Ids |-> IF s[i].stale THEN Empty ELSE s[i]]
       /\ result' = Nothing

\* processFragment.
ProcessFragment(p) ==
    /\ \/ /\ p.index \in Seen(store[p.id])
          /\ result' = Nothing
          /\ UNCHANGED store
       \/ /\ p.index \notin Seen(store[p.id])
          /\ ProcessStored([store EXCEPT ![p.id] = AddFragment(@, p)])
    /\ UNCHANGED <<net, nextMessageId, transmitted>>

\* 10 seconds have passed since the first fragment of an entry.
Elapse(id) ==
    /\ Seen(store[id]) # {}
    /\ ~store[id].stale
    /\ store' = [store EXCEPT ![id].stale = TRUE]
    /\ UNCHANGED <<net, nextMessageId, transmitted, result>>

--------------------------------------------------------------------------------

Init ==
    /\ net = {}
    /\ nextMessageId = 1
    /\ transmitted = <<>>
    /\ store = [id \in Ids |-> Empty]
    /\ result = Nothing

Next ==
    \/ \E m \in Message : Transmit(m)
    \/ \E p \in net : ProcessFragment(p)
    \/ \E id \in Ids : Elapse(id)

Spec == Init /\ [][Next]_vars

--------------------------------------------------------------------------------
(* Properties *)

Packets ==
    [tx : Nat, id : Ids, index : Nat, last : BOOLEAN,
     offset : Nat, length : Nat, header : Nat]

IsEntry(e) ==
    /\ e = [frags |-> e.frags, total |-> e.total, header |-> e.header, stale |-> e.stale]
    /\ Seen(e) \subseteq Nat
    /\ \A i \in Seen(e) : e.frags[i] \in Packets
    /\ e.total \in Nat \cup {Unknown}
    /\ e.header \in Nat
    /\ e.stale \in BOOLEAN

\* Every variable has its type.
TypeOK ==
    /\ net \subseteq Packets
    /\ nextMessageId \in Ids
    /\ transmitted \in Seq(Message)
    /\ DOMAIN store = Ids
    /\ \A id \in Ids : IsEntry(store[id])
    /\ result.kind \in {"nothing", "message", "error"}

\* Put one after the other, the fragments are the bytes 0 to size - 1.
Tiles(frags, size) ==
    LET n == Cardinality(DOMAIN frags)
    IN  /\ DOMAIN frags = 0..(n - 1)
        /\ frags[0].offset = 0
        /\ \A i \in 1..(n - 1) :
              frags[i].offset = frags[i - 1].offset + frags[i - 1].length
        /\ frags[n - 1].offset + frags[n - 1].length = size

\* A reassembled message is one transmission of one message, all its bytes in
\* order and its headers with it: whatever fragments were lost, repeated or left
\* over from other transmissions (processFragment, reassemble, and the offsets
\* and flags doSendUnfragmentedData gives out).
Integrity ==
    result.kind = "message" =>
       \E t \in DOMAIN transmitted :
          /\ \A i \in DOMAIN result.frags : result.frags[i].tx = t
          /\ Tiles(result.frags, Size[transmitted[t]])
          /\ result.header = Header[transmitted[t]]

\* What this sender cuts, this receiver can join: reassemble never finds a gap.
NoGap == result.kind # "error"

\* processStored returns one message a call, and duplicates do not get that far:
\* still no complete message ever stays behind in the store.
NoCompleteLeft == \A id \in Ids : ~IsComplete(store[id])

\* Until they are 10 seconds old, the fragments of a message leave the store only
\* as the message that is returned, whatever happens to other entries.
FreshKept ==
    [][ \A id \in Ids :
          ~store[id].stale =>
             \/ Seen(store[id]) \subseteq Seen(store'[id])
             \/ /\ result'.kind # "nothing"
                /\ \A i \in Seen(store[id]) :
                      i \in DOMAIN result'.frags /\ result'.frags[i] = store[id].frags[i]
      ]_vars

================================================================================
