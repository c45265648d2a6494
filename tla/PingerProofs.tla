------------------------------ MODULE PingerProofs ------------------------------
(***************************************************************************)
(* A request to the Pinger is called back at most once and is never        *)
(* forgotten, and an answer without protocols is only given after an entry *)
(* of the cache has gone: for every number of hosts, requests, errors and  *)
(* duplicated pongs, and every size of the channel.                        *)
(***************************************************************************)
EXTENDS Pinger, TLAPS

--------------------------------------------------------------------------------
(* The inductive invariant *)

Outcomes == {"errored", "timedOut", "empty", "protocols"}

\* The requests in a channel, and in a list of pings.
QueuedIn(q) == {q[i][1] : i \in DOMAIN q}
SentIn(o) == {p.request : p \in o}

TypeInv ==
    /\ requested \in Nat /\ requested <= MaxPings
    /\ resolving \subseteq Requests
    /\ queue \in Seq(Requests \X Addresses)
    /\ nextPingId \in Nat
    /\ outgoing \subseteq [id : Nat, request : Requests, late : BOOLEAN]
    /\ cache \in [Addresses -> {"none", "empty", "protocols"}]
    /\ pings \subseteq [id : Nat, host : Hosts, form : {"v4", "v6"}, known : BOOLEAN]
    /\ pongs \subseteq [id : Nat, from : Addresses, protocols : {"empty", "protocols"}]
    /\ results \in [Requests -> Seq(Outcomes)]
    /\ lapsed \in BOOLEAN

\* The channel holds a request once.
QueueInv == \A i, j \in DOMAIN queue : queue[i][1] = queue[j][1] => i = j

\* A request has one ping, and a ping has an id of its own.
OutgoingInv ==
    /\ \A p, q \in outgoing : p.request = q.request => p = q
    /\ \A p, q \in outgoing : p.id = q.id => p = q
    /\ \A p \in outgoing : p.id <= nextPingId

\* A request that waits for something waits for one thing.
ApartInv ==
    /\ resolving \cap QueuedIn(queue) = {}
    /\ resolving \cap SentIn(outgoing) = {}
    /\ QueuedIn(queue) \cap SentIn(outgoing) = {}

Pending == resolving \cup QueuedIn(queue) \cup SentIn(outgoing)

\* A request that waits has been made and has not been called back.
PendingInv ==
    /\ Pending \subseteq 1..requested
    /\ \A r \in Pending : results[r] = <<>>
    /\ \A r \in Requests : r > requested => results[r] = <<>>

\* A request that was made and not called back is waiting somewhere, unless its name was not
\* found or the channel was full: what CalledBack needs in order to be true.
NeverForgotten ==
    \A r \in 1..requested : results[r] = <<>> => r \in Pending \cup unresolved \cup refused

\* Entries are kept by the address that IPv6 has for a host.
CacheInv == \A a \in Addresses : a.form # "v6" => cache[a] = "none"

\* As long as no entry has gone that a ping relied on: no outcome and no entry is empty, and
\* who left the protocols out of an answer, or is asked to, is remembered.
LapseInv ==
    ~lapsed =>
       /\ \A r \in Requests : \A i \in DOMAIN results[r] : results[r][i] # "empty"
       /\ \A a \in Addresses : cache[a] # "empty"
       /\ \A m \in pings : m.known => cache[[host |-> m.host, form |-> "v6"]] # "none"
       /\ \A m \in pongs :
             m.protocols = "empty" => cache[[host |-> m.from.host, form |-> "v6"]] # "none"

WaitInv == QueueInv /\ OutgoingInv /\ ApartInv /\ PendingInv

\* What concerns the requests, and what concerns the cache.
ReqInv == WaitInv /\ CalledOnce /\ NeverForgotten
MemInv == CacheInv /\ LapseInv

IInv == TypeInv /\ ReqInv /\ MemInv

--------------------------------------------------------------------------------
(* Facts about the operators *)

\* An address in either form has the same entry.
LEMMA ToV6Facts ==
    ASSUME NEW a \in Addresses
    PROVE  /\ ToV6(a) = [host |-> a.host, form |-> "v6"]
           /\ ToV6(a) \in Addresses
  BY DEF ToV6, Addresses

\* A request is added to the channel.
LEMMA AppendFacts ==
    ASSUME queue \in Seq(Requests \X Addresses), QueueInv,
           NEW r \in Requests, NEW a \in Addresses, r \notin QueuedIn(queue),
           queue' = Append(queue, <<r, a>>)
    PROVE  /\ queue' \in Seq(Requests \X Addresses)
           /\ QueueInv'
           /\ QueuedIn(queue)' = QueuedIn(queue) \cup {r}
  <1>1. <<r, a>> \in Requests \X Addresses
    OBVIOUS
  <1>2. queue' \in Seq(Requests \X Addresses)
    BY <1>1
  <1>3. Len(queue) \in Nat /\ DOMAIN queue = 1..Len(queue)
    OBVIOUS
  <1>4. DOMAIN queue' = 1..(Len(queue) + 1)
    BY <1>1, <1>2
  <1>5. \A i \in DOMAIN queue : queue'[i] = queue[i]
    BY <1>1, <1>3
  <1>6. queue'[Len(queue) + 1] = <<r, a>>
    BY <1>1, <1>3
  <1>7. \A i \in DOMAIN queue : queue[i][1] # r
    BY DEF QueuedIn
  <1>8. QueueInv'
    BY <1>3, <1>4, <1>5, <1>6, <1>7 DEF QueueInv
  <1>9. QueuedIn(queue)' = QueuedIn(queue) \cup {r}
    BY <1>3, <1>4, <1>5, <1>6 DEF QueuedIn
  <1> QED BY <1>2, <1>8, <1>9

\* The first request is taken from the channel.
LEMMA TailFacts ==
    ASSUME queue \in Seq(Requests \X Addresses), QueueInv, queue # <<>>,
           queue' = Tail(queue)
    PROVE  /\ queue' \in Seq(Requests \X Addresses)
           /\ QueueInv'
           /\ Head(queue)[1] \in QueuedIn(queue)
           /\ Head(queue)[1] \in Requests
           /\ Head(queue)[2] \in Addresses
           /\ QueuedIn(queue)' = QueuedIn(queue) \ {Head(queue)[1]}
  <1>1. Len(queue) \in Nat \ {0} /\ DOMAIN queue = 1..Len(queue)
    OBVIOUS
  <1>2. queue' \in Seq(Requests \X Addresses) /\ Len(queue') = Len(queue) - 1
    OBVIOUS
  <1>3. DOMAIN queue' = 1..(Len(queue) - 1)
    BY <1>2
  <1>4. \A i \in DOMAIN queue' : i + 1 \in DOMAIN queue /\ queue'[i] = queue[i + 1]
    BY <1>1, <1>3
  <1>5. Head(queue) = queue[1] /\ 1 \in DOMAIN queue
    BY <1>1
  <1>6. QueueInv'
    <2> SUFFICES ASSUME NEW i \in DOMAIN queue', NEW j \in DOMAIN queue',
                        queue'[i][1] = queue'[j][1]
                 PROVE  i = j
      BY DEF QueueInv
    <2>1. i + 1 = j + 1
      BY <1>4 DEF QueueInv
    <2> QED BY <2>1, <1>1, <1>3
  <1>7. Head(queue)[1] \in QueuedIn(queue)
    BY <1>5 DEF QueuedIn
  <1>8. queue[1] \in Requests \X Addresses
    BY <1>5
  <1>9. QueuedIn(queue)' \subseteq QueuedIn(queue) \ {Head(queue)[1]}
    <2> SUFFICES ASSUME NEW i \in DOMAIN queue'
                 PROVE  queue'[i][1] \in QueuedIn(queue) \ {queue[1][1]}
      BY <1>5 DEF QueuedIn
    <2>1. i + 1 # 1 /\ i + 1 \in DOMAIN queue /\ queue'[i] = queue[i + 1]
      BY <1>1, <1>3, <1>4
    <2>2. queue[i + 1][1] # queue[1][1]
      BY <2>1, <1>5 DEF QueueInv
    <2> QED BY <2>1, <2>2 DEF QueuedIn
  <1>10. QueuedIn(queue) \ {Head(queue)[1]} \subseteq QueuedIn(queue)'
    <2> SUFFICES ASSUME NEW i \in DOMAIN queue, queue[i][1] # queue[1][1]
                 PROVE  queue[i][1] \in QueuedIn(queue)'
      BY <1>5 DEF QueuedIn
    <2>1. i # 1
      OBVIOUS
    <2>2. i - 1 \in DOMAIN queue' /\ (i - 1) + 1 = i
      BY <2>1, <1>1, <1>3
    <2>3. queue'[i - 1] = queue[i]
      BY <2>2, <1>4
    <2> QED BY <2>2, <2>3 DEF QueuedIn
  <1> QED BY <1>2, <1>5, <1>6, <1>7, <1>8, <1>9, <1>10

\* The invariant about the requests, when only the other variables change.
LEMMA WaitKept ==
    ASSUME WaitInv, UNCHANGED <<requested, resolving, queue, nextPingId, outgoing, results>>
    PROVE  WaitInv'
  BY DEF WaitInv, QueueInv, OutgoingInv, ApartInv, PendingInv, Pending, QueuedIn, SentIn

LEMMA ForgottenKept ==
    ASSUME NeverForgotten,
           UNCHANGED <<requested, resolving, queue, outgoing, results, unresolved, refused>>
    PROVE  NeverForgotten'
  BY DEF NeverForgotten, Pending, QueuedIn, SentIn

\* ping, of a request that is not in the channel.
LEMMA EnqueueFacts ==
    ASSUME queue \in Seq(Requests \X Addresses), QueueInv,
           NEW r \in Requests, NEW a \in Addresses, r \notin QueuedIn(queue),
           Enqueue(r, a)
    PROVE  /\ queue' \in Seq(Requests \X Addresses)
           /\ QueueInv'
           /\ \/ QueuedIn(queue)' = QueuedIn(queue) \cup {r} /\ refused' = refused
              \/ QueuedIn(queue)' = QueuedIn(queue) /\ refused' = refused \cup {r}
  <1>1. CASE queue' = Append(queue, <<r, a>>) /\ refused' = refused
    BY <1>1, AppendFacts
  <1>2. CASE queue' = queue /\ refused' = refused \cup {r}
    BY <1>2 DEF QueueInv, QueuedIn
  <1> QED BY <1>1, <1>2 DEF Enqueue

--------------------------------------------------------------------------------
(* Requests: where they wait and what they are told *)

\* Any thread makes a request: it has not been there before.
LEMMA NewRequest ==
    ASSUME TypeInv, ReqInv, PingerAssumption, requested < MaxPings
    PROVE  /\ requested + 1 \in Requests
           /\ requested + 1 \notin Pending
           /\ results[requested + 1] = <<>>
  BY DEF TypeInv, ReqInv, PingerAssumption, WaitInv, PendingInv, Requests

\* ping and pingUrl.
LEMMA PingReq ==
    ASSUME TypeInv, ReqInv, PingerAssumption, Ping
    PROVE  ReqInv' /\ queue' \in Seq(Requests \X Addresses)
  <1>1. requested < MaxPings /\ requested' = requested + 1 /\ requested \in Nat
    BY DEF Ping, TypeInv
  <1>2. PICK a \in Addresses : Enqueue(requested + 1, a)
    BY DEF Ping
  <1>3. /\ resolving' = resolving /\ outgoing' = outgoing /\ results' = results
        /\ nextPingId' = nextPingId /\ unresolved' = unresolved
    BY DEF Ping
  <1>4. /\ requested + 1 \in Requests /\ requested + 1 \notin Pending
        /\ results[requested + 1] = <<>>
    BY <1>1, NewRequest
  <1>5. requested + 1 \notin QueuedIn(queue)
    BY <1>4 DEF Pending
  <1>6. /\ queue' \in Seq(Requests \X Addresses)
        /\ QueueInv'
        /\ \/ QueuedIn(queue)' = QueuedIn(queue) \cup {requested + 1} /\ refused' = refused
           \/ QueuedIn(queue)' = QueuedIn(queue) /\ refused' = refused \cup {requested + 1}
    BY <1>2, <1>4, <1>5, EnqueueFacts DEF TypeInv, ReqInv, WaitInv
  <1>7. SentIn(outgoing)' = SentIn(outgoing)
    BY <1>3 DEF SentIn
  <1>8. Pending' = Pending \/ Pending' = Pending \cup {requested + 1}
    BY <1>3, <1>6, <1>7 DEF Pending
  <1>9. requested + 1 \in Pending' \cup refused'
    BY <1>6 DEF Pending
  <1>10. OutgoingInv'
    BY <1>3 DEF OutgoingInv, ReqInv, WaitInv
  <1>11. ApartInv'
    BY <1>3, <1>4, <1>6, <1>7 DEF ApartInv, ReqInv, WaitInv, Pending
  <1>12. PendingInv'
    <2>1. Pending \subseteq 1..requested
      BY DEF ReqInv, WaitInv, PendingInv
    <2>2. Pending' \subseteq 1..requested'
      <3>1. \A r \in 1..requested : r \in 1..requested'
        BY <1>1
      <3>2. requested + 1 \in 1..requested'
        BY <1>1
      <3> QED BY <2>1, <1>8, <3>1, <3>2
    <2>3. \A r \in Pending' : results'[r] = <<>>
      BY <1>3, <1>4, <1>8 DEF ReqInv, WaitInv, PendingInv
    <2>4. \A r \in Requests : r > requested' => results'[r] = <<>>
      BY <1>1, <1>3 DEF ReqInv, WaitInv, PendingInv, Requests
    <2> QED BY <2>2, <2>3, <2>4 DEF PendingInv
  <1>13. CalledOnce'
    BY <1>3 DEF CalledOnce, ReqInv
  <1>14. NeverForgotten'
    <2> SUFFICES ASSUME NEW r \in 1..requested', results'[r] = <<>>
                 PROVE  r \in Pending' \cup unresolved' \cup refused'
      BY DEF NeverForgotten
    <2>1. CASE r = requested + 1
      BY <2>1, <1>9
    <2>2. CASE r # requested + 1
      <3>1. r \in 1..requested
        BY <2>2, <1>1
      <3>2. r \in Pending \cup unresolved \cup refused
        BY <3>1, <1>3 DEF NeverForgotten, ReqInv
      <3> QED BY <3>2, <1>3, <1>6, <1>8
    <2> QED BY <2>1, <2>2
  <1> QED BY <1>6, <1>10, <1>11, <1>12, <1>13, <1>14 DEF ReqInv, WaitInv

LEMMA PingUrlReq ==
    ASSUME TypeInv, ReqInv, PingerAssumption, PingUrl
    PROVE  ReqInv'
  <1>1. requested < MaxPings /\ requested' = requested + 1 /\ requested \in Nat
    BY DEF PingUrl, TypeInv
  <1>2. resolving' = resolving \cup {requested + 1}
    BY DEF PingUrl
  <1>3. /\ queue' = queue /\ outgoing' = outgoing /\ results' = results
        /\ nextPingId' = nextPingId /\ unresolved' = unresolved /\ refused' = refused
    BY DEF PingUrl
  <1>4. /\ requested + 1 \in Requests /\ requested + 1 \notin Pending
        /\ results[requested + 1] = <<>>
    BY <1>1, NewRequest
  <1>5. QueuedIn(queue)' = QueuedIn(queue) /\ SentIn(outgoing)' = SentIn(outgoing)
    BY <1>3 DEF SentIn, QueuedIn
  <1>6. Pending' = Pending \cup {requested + 1}
    BY <1>2, <1>5 DEF Pending
  <1>7. QueueInv' /\ OutgoingInv'
    BY <1>3 DEF OutgoingInv, QueueInv, ReqInv, WaitInv
  <1>8. ApartInv'
    BY <1>2, <1>4, <1>5 DEF ApartInv, ReqInv, WaitInv, Pending
  <1>9. PendingInv'
    <2>1. Pending \subseteq 1..requested
      BY DEF ReqInv, WaitInv, PendingInv
    <2>2. Pending' \subseteq 1..requested'
      BY <2>1, <1>1, <1>6
    <2>3. \A r \in Pending' : results'[r] = <<>>
      BY <1>3, <1>4, <1>6 DEF ReqInv, WaitInv, PendingInv
    <2>4. \A r \in Requests : r > requested' => results'[r] = <<>>
      BY <1>1, <1>3 DEF ReqInv, WaitInv, PendingInv, Requests
    <2> QED BY <2>2, <2>3, <2>4 DEF PendingInv
  <1>10. CalledOnce'
    BY <1>3 DEF CalledOnce, ReqInv
  <1>11. NeverForgotten'
    <2> SUFFICES ASSUME NEW r \in 1..requested', results'[r] = <<>>
                 PROVE  r \in Pending' \cup unresolved' \cup refused'
      BY DEF NeverForgotten
    <2>1. CASE r = requested + 1
      BY <2>1, <1>6
    <2>2. CASE r # requested + 1
      <3>1. r \in 1..requested
        BY <2>2, <1>1
      <3>2. r \in Pending \cup unresolved \cup refused
        BY <3>1, <1>3 DEF NeverForgotten, ReqInv
      <3> QED BY <3>2, <1>3, <1>6
    <2> QED BY <2>1, <2>2
  <1> QED BY <1>7, <1>8, <1>9, <1>10, <1>11 DEF ReqInv, WaitInv

\* A resolved name is pinged, or nothing more happens to its request.
LEMMA ResolvedReq ==
    ASSUME TypeInv, ReqInv, Resolved
    PROVE  ReqInv' /\ queue' \in Seq(Requests \X Addresses)
  <1>1. /\ requested' = requested /\ outgoing' = outgoing /\ results' = results
        /\ nextPingId' = nextPingId
    BY DEF Resolved
  <1>2. PICK r \in resolving :
          /\ resolving' = resolving \ {r}
          /\ \/ \E a \in Addresses : a.form = "v4" /\ Enqueue(r, a) /\ UNCHANGED unresolved
             \/ unresolved' = unresolved \cup {r} /\ UNCHANGED <<queue, refused>>
    BY DEF Resolved
  <1>3. r \in Requests /\ r \notin QueuedIn(queue) /\ r \notin SentIn(outgoing)
    BY DEF TypeInv, ReqInv, WaitInv, ApartInv
  <1>4. /\ queue' \in Seq(Requests \X Addresses)
        /\ QueueInv'
        /\ \/ /\ QueuedIn(queue)' = QueuedIn(queue) \cup {r}
              /\ refused' = refused /\ unresolved' = unresolved
           \/ /\ QueuedIn(queue)' = QueuedIn(queue)
              /\ refused' = refused \cup {r} /\ unresolved' = unresolved
           \/ /\ QueuedIn(queue)' = QueuedIn(queue)
              /\ refused' = refused /\ unresolved' = unresolved \cup {r}
    <2>1. CASE \E a \in Addresses : a.form = "v4" /\ Enqueue(r, a) /\ UNCHANGED unresolved
      BY <2>1, <1>3, EnqueueFacts DEF TypeInv, ReqInv, WaitInv
    <2>2. CASE unresolved' = unresolved \cup {r} /\ UNCHANGED <<queue, refused>>
      BY <2>2 DEF TypeInv, ReqInv, WaitInv, QueueInv, QueuedIn
    <2> QED BY <1>2, <2>1, <2>2
  <1>5. SentIn(outgoing)' = SentIn(outgoing)
    BY <1>1 DEF SentIn
  <1>6. Pending' \subseteq Pending
    BY <1>2, <1>4, <1>5 DEF Pending
  <1>7. Pending \subseteq Pending' \cup {r}
    BY <1>2, <1>4, <1>5 DEF Pending
  <1>8. r \in Pending' \cup refused' \cup unresolved'
    BY <1>4 DEF Pending
  <1>9. OutgoingInv'
    BY <1>1 DEF OutgoingInv, ReqInv, WaitInv
  <1>10. ApartInv'
    BY <1>2, <1>3, <1>4, <1>5 DEF ApartInv, ReqInv, WaitInv
  <1>11. PendingInv'
    BY <1>1, <1>6 DEF PendingInv, ReqInv, WaitInv
  <1>12. CalledOnce'
    BY <1>1 DEF CalledOnce, ReqInv
  <1>13. NeverForgotten'
    BY <1>1, <1>4, <1>7, <1>8 DEF NeverForgotten, ReqInv
  <1> QED BY <1>4, <1>9, <1>10, <1>11, <1>12, <1>13 DEF ReqInv, WaitInv

\* Pings that are given up: their requests, and only those, are called back, once.
LEMMA GoneReq ==
    ASSUME TypeInv, ReqInv, NEW gone \in SUBSET outgoing,
           results' \in [Requests -> Seq(Outcomes)],
           \A r \in Requests : r \notin SentIn(gone) => results'[r] = results[r],
           \A r \in SentIn(gone) : Len(results'[r]) = 1,
           outgoing' = outgoing \ gone,
           UNCHANGED <<requested, resolving, queue, nextPingId, unresolved, refused>>
    PROVE  ReqInv'
  <1>1. QueuedIn(queue)' = QueuedIn(queue) /\ QueueInv'
    BY DEF QueuedIn, QueueInv, ReqInv, WaitInv
  <1>2. SentIn(outgoing)' = SentIn(outgoing) \ SentIn(gone)
    BY DEF SentIn, ReqInv, WaitInv, OutgoingInv
  <1>3. SentIn(gone) \subseteq SentIn(outgoing)
    BY DEF SentIn
  <1>4. Pending' = Pending \ SentIn(gone)
    BY <1>1, <1>2, <1>3 DEF Pending, ReqInv, WaitInv, ApartInv
  <1>5. OutgoingInv'
    BY DEF OutgoingInv, ReqInv, WaitInv
  <1>6. ApartInv'
    BY <1>1, <1>2 DEF ApartInv, ReqInv, WaitInv
  <1>7. SentIn(gone) \subseteq 1..requested
    BY <1>3 DEF ReqInv, WaitInv, PendingInv, Pending
  <1>8. SentIn(gone) \subseteq Requests
    BY DEF SentIn, TypeInv
  <1>9. Pending \subseteq 1..requested /\ 1..requested \subseteq Requests
    BY PingerAssumption DEF PingerAssumption, ReqInv, WaitInv, PendingInv, TypeInv, Requests
  <1>10. PendingInv'
    <2>1. \A r \in Pending' : results'[r] = <<>>
      BY <1>4, <1>9 DEF ReqInv, WaitInv, PendingInv
    <2>2. ASSUME NEW r \in Requests, r > requested
          PROVE  results'[r] = <<>>
      <3>1. r \notin 1..requested
        BY <2>2 DEF TypeInv, Requests
      <3> QED BY <2>2, <3>1, <1>7 DEF ReqInv, WaitInv, PendingInv
    <2> QED BY <2>1, <2>2, <1>4, <1>9 DEF PendingInv
  <1>11. CalledOnce'
    <2> SUFFICES ASSUME NEW r \in Requests
                 PROVE  Len(results'[r]) <= 1
      BY DEF CalledOnce
    <2>1. CASE r \in SentIn(gone)
      <3>1. Len(results'[r]) = 1
        BY <2>1
      <3> QED BY <3>1
    <2>2. CASE r \notin SentIn(gone)
      BY <2>2 DEF ReqInv, CalledOnce
    <2> QED BY <2>1, <2>2
  <1>12. NeverForgotten'
    <2> SUFFICES ASSUME NEW r \in 1..requested, results'[r] = <<>>
                 PROVE  r \in Pending' \cup unresolved \cup refused
      BY DEF NeverForgotten
    <2>1. r \notin SentIn(gone)
      <3>1. Len(<<>>) # 1
        OBVIOUS
      <3> QED BY <3>1
    <2>2. r \in Requests
      BY <1>9
    <2>3. r \in Pending \cup unresolved \cup refused
      BY <2>1, <2>2 DEF NeverForgotten, ReqInv
    <2> QED BY <2>1, <2>3, <1>4
  <1> QED BY <1>1, <1>5, <1>6, <1>10, <1>11, <1>12 DEF ReqInv, WaitInv

\* A step that tells requests nothing but result.
ToldOnly(result) ==
    \A r \in Requests : \A i \in DOMAIN results'[r] :
       \/ results'[r][i] = result
       \/ i \in DOMAIN results[r] /\ results'[r][i] = results[r][i]

\* thrDoPing.
LEMMA DoPingReq ==
    ASSUME TypeInv, ReqInv, DoPing
    PROVE  /\ ReqInv'
           /\ queue' \in Seq(Requests \X Addresses)
           /\ outgoing' \subseteq [id : Nat, request : Requests, late : BOOLEAN]
           /\ results' \in [Requests -> Seq(Outcomes)]
           /\ ToldOnly("errored")
  <1> DEFINE r == Head(queue)[1]
             new == [id |-> nextPingId + 1, request |-> r, late |-> FALSE]
  <1>1. /\ queue # <<>> /\ queue' = Tail(queue) /\ nextPingId' = nextPingId + 1
        /\ requested' = requested /\ resolving' = resolving
        /\ unresolved' = unresolved /\ refused' = refused
    BY DEF DoPing
  <1>2. /\ queue' \in Seq(Requests \X Addresses)
        /\ QueueInv'
        /\ r \in QueuedIn(queue) /\ r \in Requests
        /\ QueuedIn(queue)' = QueuedIn(queue) \ {r}
    BY <1>1, TailFacts DEF TypeInv, ReqInv, WaitInv
  <1>3. /\ r \notin SentIn(outgoing) /\ r \notin resolving
        /\ r \in 1..requested /\ results[r] = <<>>
    BY <1>2 DEF ReqInv, WaitInv, ApartInv, PendingInv, Pending
  <1>4. nextPingId \in Nat /\ nextPingId + 1 \in Nat /\ nextPingId < nextPingId + 1
    BY DEF TypeInv
  <1> HIDE DEF r
  <1>5. CASE outgoing' = outgoing \cup {new} /\ results' = results
    <2>1. new \in [id : Nat, request : Requests, late : BOOLEAN] /\ new.request = r
          /\ new.id = nextPingId + 1
      BY <1>2, <1>4
    <2> HIDE DEF new
    <2>2. SentIn(outgoing)' = SentIn(outgoing) \cup {r}
      BY <1>5, <2>1 DEF SentIn
    <2>3. Pending' = Pending
      BY <1>1, <1>2, <2>2 DEF Pending
    <2>4. OutgoingInv'
      <3>1. \A p \in outgoing : p.request # r
        BY <1>3 DEF SentIn
      <3>2. \A p \in outgoing : p.id \in Nat /\ p.id <= nextPingId
        BY DEF TypeInv, ReqInv, WaitInv, OutgoingInv
      <3>3. \A p \in outgoing : p.id # nextPingId + 1 /\ p.id <= nextPingId + 1
        BY <3>2, <1>4
      <3> QED BY <3>1, <3>3, <2>1, <1>1, <1>4, <1>5 DEF OutgoingInv, ReqInv, WaitInv
    <2>5. ApartInv'
      BY <1>1, <1>2, <1>3, <2>2 DEF ApartInv, ReqInv, WaitInv
    <2>6. PendingInv' /\ CalledOnce' /\ NeverForgotten'
      BY <1>1, <1>5, <2>3 DEF PendingInv, CalledOnce, NeverForgotten, ReqInv, WaitInv
    <2> QED BY <1>2, <1>5, <2>1, <2>4, <2>5, <2>6 DEF ReqInv, WaitInv, TypeInv, ToldOnly
  <1>6. CASE outgoing' = outgoing /\ CallBack(r, "errored")
    <2>1. SentIn(outgoing)' = SentIn(outgoing)
      BY <1>6 DEF SentIn
    <2>2. results' = [results EXCEPT ![r] = Append(results[r], "errored")]
      BY <1>6 DEF CallBack
    <2>3. results'[r] = <<"errored">> /\ \A s \in Requests : s # r => results'[s] = results[s]
      BY <2>2, <1>2, <1>3 DEF TypeInv
    <2>4. results' \in [Requests -> Seq(Outcomes)]
      BY <2>2, <1>2 DEF TypeInv, Outcomes
    <2>5. Pending' = Pending \ {r}
      BY <1>1, <1>2, <1>3, <2>1 DEF Pending
    <2>6. OutgoingInv'
      BY <1>1, <1>4, <1>6 DEF OutgoingInv, ReqInv, WaitInv, TypeInv
    <2>7. ApartInv'
      BY <1>1, <1>2, <2>1 DEF ApartInv, ReqInv, WaitInv
    <2>8. PendingInv'
      <3>1. Pending \subseteq 1..requested /\ 1..requested \subseteq Requests
        BY PingerAssumption DEF PingerAssumption, ReqInv, WaitInv, PendingInv, TypeInv, Requests
      <3>2. \A s \in Pending' : results'[s] = <<>>
        BY <2>3, <2>5, <3>1 DEF ReqInv, WaitInv, PendingInv
      <3>3. \A s \in Requests : s > requested => s # r
        BY <1>3 DEF TypeInv, Requests
      <3>4. \A s \in Requests : s > requested => results'[s] = <<>>
        BY <2>3, <3>3 DEF ReqInv, WaitInv, PendingInv
      <3> QED BY <3>1, <3>2, <3>4, <2>5, <1>1 DEF PendingInv
    <2>9. CalledOnce'
      <3> SUFFICES ASSUME NEW s \in Requests
                   PROVE  Len(results'[s]) <= 1
        BY DEF CalledOnce
      <3>1. CASE s = r
        <4>1. results'[s] = <<"errored">>
          BY <2>3, <3>1
        <4> QED BY <4>1
      <3>2. CASE s # r
        BY <2>3, <3>2 DEF CalledOnce, ReqInv
      <3> QED BY <3>1, <3>2
    <2>10. NeverForgotten'
      <3> SUFFICES ASSUME NEW s \in 1..requested, results'[s] = <<>>
                   PROVE  s \in Pending' \cup unresolved \cup refused
        BY <1>1 DEF NeverForgotten
      <3>1. s # r
        BY <2>3
      <3>2. s \in Requests
        BY PingerAssumption DEF PingerAssumption, TypeInv, Requests
      <3>3. s \in Pending \cup unresolved \cup refused
        BY <2>3, <3>1, <3>2 DEF NeverForgotten, ReqInv
      <3> QED BY <3>1, <3>3, <2>5
    <2>11. ToldOnly("errored")
      <3> SUFFICES ASSUME NEW s \in Requests, NEW i \in DOMAIN results'[s]
                   PROVE  \/ results'[s][i] = "errored"
                          \/ i \in DOMAIN results[s] /\ results'[s][i] = results[s][i]
        BY DEF ToldOnly
      <3>1. CASE s = r
        BY <2>3, <3>1
      <3>2. CASE s # r
        BY <2>3, <3>2
      <3> QED BY <3>1, <3>2
    <2> QED BY <1>2, <1>6, <2>4, <2>6, <2>7, <2>8, <2>9, <2>10, <2>11
            DEF ReqInv, WaitInv, TypeInv
  <1> QED BY <1>5, <1>6 DEF DoPing, r

\* A callback that has not been called before.
LEMMA CallBackFacts ==
    ASSUME TypeInv, NEW r \in Requests, NEW result \in Outcomes, results[r] = <<>>,
           CallBack(r, result)
    PROVE  /\ results' \in [Requests -> Seq(Outcomes)]
           /\ Len(results'[r]) = 1
           /\ \A s \in Requests : s # r => results'[s] = results[s]
           /\ ToldOnly(result)
  <1>1. results' = [results EXCEPT ![r] = Append(results[r], result)]
    BY DEF CallBack
  <1>2. results'[r] = <<result>> /\ \A s \in Requests : s # r => results'[s] = results[s]
    BY <1>1 DEF TypeInv
  <1>3. results' \in [Requests -> Seq(Outcomes)]
    BY <1>1 DEF TypeInv
  <1>4. Len(<<result>>) = 1
    OBVIOUS
  <1>5. ToldOnly(result)
    <2> SUFFICES ASSUME NEW s \in Requests, NEW i \in DOMAIN results'[s]
                 PROVE  \/ results'[s][i] = result
                        \/ i \in DOMAIN results[s] /\ results'[s][i] = results[s][i]
      BY DEF ToldOnly
    <2>1. CASE s = r
      BY <2>1, <1>2
    <2>2. CASE s # r
      BY <2>2, <1>2
    <2> QED BY <2>1, <2>2
  <1> QED BY <1>2, <1>3, <1>4, <1>5

\* What thrDispatchResult makes of the protocols in a pong.
ProtocolsOf(m) ==
    IF m.protocols = "empty" /\ cache[ToV6(m.from)] # "none"
    THEN cache[ToV6(m.from)] ELSE m.protocols

\* thrDispatchResult with a ping that is still there.
LEMMA MatchedReq ==
    ASSUME TypeInv, ReqInv, NEW m \in pongs, NEW p \in outgoing, p.id = m.id,
           CallBack(p.request, ProtocolsOf(m)), outgoing' = Without(m.id),
           UNCHANGED <<requested, resolving, queue, nextPingId, unresolved, refused>>
    PROVE  /\ ReqInv'
           /\ results' \in [Requests -> Seq(Outcomes)]
           /\ ToldOnly(ProtocolsOf(m))
           /\ ProtocolsOf(m) \in {"empty", "protocols"}
  <1>1. m.from \in Addresses /\ m.protocols \in {"empty", "protocols"}
    BY DEF TypeInv
  <1>2. cache[ToV6(m.from)] \in {"none", "empty", "protocols"}
    BY <1>1, ToV6Facts DEF TypeInv
  <1>3. ProtocolsOf(m) \in {"empty", "protocols"} /\ ProtocolsOf(m) \in Outcomes
    BY <1>1, <1>2 DEF ProtocolsOf, Outcomes
  <1>4. p.request \in SentIn(outgoing) /\ p.request \in Requests
    BY DEF SentIn, TypeInv
  <1>5. results[p.request] = <<>>
    BY <1>4 DEF ReqInv, WaitInv, PendingInv, Pending
  <1>6. /\ results' \in [Requests -> Seq(Outcomes)]
        /\ Len(results'[p.request]) = 1
        /\ \A s \in Requests : s # p.request => results'[s] = results[s]
        /\ ToldOnly(ProtocolsOf(m))
    BY <1>3, <1>4, <1>5, CallBackFacts
  <1>7. outgoing' = outgoing \ {p}
    BY DEF Without, ReqInv, WaitInv, OutgoingInv
  <1>8. SentIn({p}) = {p.request}
    BY DEF SentIn
  <1>9. ReqInv'
    BY <1>6, <1>7, <1>8, GoneReq
  <1> QED BY <1>3, <1>6, <1>9

\* thrRemoveTimedOutPings.
LEMMA TimedOutReq ==
    ASSUME TypeInv, ReqInv, RemoveTimedOutPings
    PROVE  /\ ReqInv'
           /\ results' \in [Requests -> Seq(Outcomes)]
           /\ ToldOnly("timedOut")
  <1> DEFINE gone == {p \in outgoing : TimedOut(p)}
  <1>1. /\ outgoing' = outgoing \ gone
        /\ UNCHANGED <<requested, resolving, queue, nextPingId, unresolved, refused>>
        /\ results' = [r \in Requests |-> IF \E p \in outgoing : TimedOut(p) /\ p.request = r
                                          THEN Append(results[r], "timedOut") ELSE results[r]]
    BY DEF RemoveTimedOutPings
  <1>2. \A r \in Requests : r \in SentIn(gone) <=> \E p \in outgoing : TimedOut(p) /\ p.request = r
    BY DEF SentIn
  <1>3. SentIn(gone) \subseteq SentIn(outgoing) /\ SentIn(gone) \subseteq Requests
    BY DEF SentIn, TypeInv
  <1>4. \A r \in SentIn(gone) : results[r] = <<>>
    BY <1>3 DEF ReqInv, WaitInv, PendingInv, Pending
  <1>5. gone \in SUBSET outgoing
    OBVIOUS
  <1> HIDE DEF gone
  <1>6. \A r \in Requests : r \notin SentIn(gone) => results'[r] = results[r]
    BY <1>1, <1>2
  <1>7. \A r \in SentIn(gone) : results'[r] = <<"timedOut">>
    <2> SUFFICES ASSUME NEW r \in SentIn(gone)
                 PROVE  results'[r] = <<"timedOut">>
      OBVIOUS
    <2>1. results'[r] = Append(results[r], "timedOut")
      BY <1>1, <1>2, <1>3
    <2>2. results'[r] = Append(<<>>, "timedOut")
      BY <2>1, <1>4
    <2> QED BY <2>2
  <1>8. results' \in [Requests -> Seq(Outcomes)]
    <2>1. "timedOut" \in Outcomes
      BY DEF Outcomes
    <2> QED BY <1>1, <2>1 DEF TypeInv
  <1>9. \A r \in SentIn(gone) : Len(results'[r]) = 1
    <2>1. Len(<<"timedOut">>) = 1
      OBVIOUS
    <2> QED BY <1>7, <2>1
  <1>10. ReqInv'
    BY <1>1, <1>5, <1>6, <1>8, <1>9, GoneReq
  <1>11. ToldOnly("timedOut")
    <2> SUFFICES ASSUME NEW s \in Requests, NEW i \in DOMAIN results'[s]
                 PROVE  \/ results'[s][i] = "timedOut"
                        \/ i \in DOMAIN results[s] /\ results'[s][i] = results[s][i]
      BY DEF ToldOnly
    <2>1. CASE s \in SentIn(gone)
      <3>1. results'[s] = <<"timedOut">>
        BY <2>1, <1>7
      <3> QED BY <3>1
    <2>2. CASE s \notin SentIn(gone)
      BY <2>2, <1>6
    <2> QED BY <2>1, <2>2
  <1> QED BY <1>8, <1>10, <1>11

\* Time passes for a ping.
LEMMA ElapseReq ==
    ASSUME TypeInv, ReqInv, Elapse
    PROVE  /\ ReqInv'
           /\ outgoing' \subseteq [id : Nat, request : Requests, late : BOOLEAN]
  <1>1. /\ UNCHANGED <<requested, resolving, queue, nextPingId, results, unresolved, refused>>
    BY DEF Elapse
  <1>2. PICK p \in outgoing : outgoing' = (outgoing \ {p}) \cup {[p EXCEPT !.late = TRUE]}
    BY DEF Elapse
  <1> DEFINE late == [p EXCEPT !.late = TRUE]
  <1>3. /\ late \in [id : Nat, request : Requests, late : BOOLEAN]
        /\ late.id = p.id /\ late.request = p.request
    BY DEF TypeInv
  <1>4. outgoing' = (outgoing \ {p}) \cup {late}
    BY <1>2
  <1> HIDE DEF late
  <1>5. SentIn(outgoing)' = SentIn(outgoing)
    BY <1>3, <1>4 DEF SentIn
  <1>6. OutgoingInv'
    BY <1>1, <1>3, <1>4 DEF OutgoingInv, ReqInv, WaitInv
  <1>7. QueuedIn(queue)' = QueuedIn(queue) /\ QueueInv'
    BY <1>1 DEF QueuedIn, QueueInv, ReqInv, WaitInv
  <1>8. Pending' = Pending
    BY <1>1, <1>5, <1>7 DEF Pending
  <1>9. ApartInv'
    BY <1>1, <1>5, <1>7 DEF ApartInv, ReqInv, WaitInv
  <1>10. PendingInv' /\ CalledOnce' /\ NeverForgotten'
    BY <1>1, <1>8 DEF PendingInv, CalledOnce, NeverForgotten, ReqInv, WaitInv
  <1> QED BY <1>3, <1>4, <1>6, <1>7, <1>9, <1>10 DEF ReqInv, WaitInv, TypeInv

--------------------------------------------------------------------------------
(* The cache *)

\* Requests are told something, or nothing; the cache stays as it is.
LEMMA ToldMem ==
    ASSUME MemInv, NEW result, result # "empty", ToldOnly(result),
           UNCHANGED <<cache, lapsed>>, pings' \subseteq pings, pongs' \subseteq pongs
    PROVE  MemInv'
  BY DEF MemInv, CacheInv, LapseInv, ToldOnly

LEMMA QuietMem ==
    ASSUME MemInv, UNCHANGED <<results, cache, lapsed, pings, pongs>>
    PROVE  MemInv'
  BY DEF MemInv, CacheInv, LapseInv

\* thrDoPing asks a server to leave the protocols out only if it is remembered.
LEMMA DoPingMem ==
    ASSUME TypeInv, ReqInv, MemInv, DoPing
    PROVE  /\ MemInv'
           /\ pings' \subseteq [id : Nat, host : Hosts, form : {"v4", "v6"}, known : BOOLEAN]
  <1> DEFINE a == Head(queue)[2]
             new == [id |-> nextPingId + 1, host |-> a.host, form |-> a.form, known |-> IsCached(a)]
  <1>1. UNCHANGED <<cache, lapsed, pongs>> /\ (pings' = pings \/ pings' = pings \cup {new})
    BY DEF DoPing
  <1>2. ToldOnly("errored")
    BY DoPingReq
  <1>3. a \in Addresses
    BY TailFacts DEF DoPing, TypeInv, ReqInv, WaitInv
  <1>4. a.host \in Hosts /\ a.form \in {"v4", "v6"} /\ IsCached(a) \in BOOLEAN
    BY <1>3 DEF Addresses, IsCached
  <1>5. /\ new \in [id : Nat, host : Hosts, form : {"v4", "v6"}, known : BOOLEAN]
        /\ new.host = a.host /\ new.known = IsCached(a)
    BY <1>4 DEF TypeInv
  <1>6. new.known => cache[[host |-> new.host, form |-> "v6"]] # "none"
    BY <1>3, <1>5, ToV6Facts DEF IsCached
  <1> HIDE DEF new
  <1>7. \A m \in pings' : m \in pings \/ m = new
    BY <1>1
  <1>8. LapseInv'
    <2>1. SUFFICES ASSUME ~lapsed
                   PROVE  /\ \A r \in Requests : \A i \in DOMAIN results'[r] : results'[r][i] # "empty"
                          /\ \A m \in pings' : m.known => cache[[host |-> m.host, form |-> "v6"]] # "none"
      BY <1>1 DEF LapseInv, MemInv
    <2>2. \A r \in Requests : \A i \in DOMAIN results'[r] : results'[r][i] # "empty"
      BY <2>1, <1>2 DEF LapseInv, MemInv, ToldOnly
    <2>3. \A m \in pings' : m.known => cache[[host |-> m.host, form |-> "v6"]] # "none"
      BY <2>1, <1>6, <1>7 DEF LapseInv, MemInv
    <2> QED BY <2>2, <2>3
  <1> QED BY <1>1, <1>5, <1>7, <1>8 DEF MemInv, CacheInv, TypeInv

\* thrDispatchResult remembers the protocols it tells the request.
LEMMA MatchedMem ==
    ASSUME TypeInv, MemInv, NEW m \in pongs, ToldOnly(ProtocolsOf(m)),
           ProtocolsOf(m) \in {"empty", "protocols"},
           cache' = [cache EXCEPT ![ToV6(m.from)] = ProtocolsOf(m)],
           pongs' = pongs \ {m}, UNCHANGED <<pings, lapsed>>
    PROVE  MemInv' /\ cache' \in [Addresses -> {"none", "empty", "protocols"}]
  <1> DEFINE key == ToV6(m.from)
  <1>1. /\ m.from \in Addresses /\ m.protocols \in {"empty", "protocols"}
        /\ key = [host |-> m.from.host, form |-> "v6"] /\ key \in Addresses
        /\ key.form = "v6"
    BY ToV6Facts DEF TypeInv
  <1> HIDE DEF key
  <1>2. cache' \in [Addresses -> {"none", "empty", "protocols"}]
    BY <1>1 DEF TypeInv, key
  <1>3. /\ cache'[key] = ProtocolsOf(m)
        /\ \A a \in Addresses : a # key => cache'[a] = cache[a]
    BY <1>1 DEF TypeInv, key
  <1>4. CacheInv'
    BY <1>1, <1>3 DEF CacheInv, MemInv
  <1>5. \A h \in Hosts : [host |-> h, form |-> "v6"] \in Addresses
    BY DEF Addresses
  <1>6. \A h \in Hosts : cache[[host |-> h, form |-> "v6"]] # "none"
                            => cache'[[host |-> h, form |-> "v6"]] # "none"
    BY <1>3, <1>5
  <1>7. \A n \in pings : n.host \in Hosts
    BY DEF TypeInv
  <1>8. \A n \in pongs : n.from.host \in Hosts
    BY DEF TypeInv, Addresses
  <1>9. ASSUME ~lapsed
        PROVE  ProtocolsOf(m) # "empty"
    <2>1. CASE m.protocols = "empty"
      <3>1. cache[key] # "none" /\ cache[key] # "empty"
        BY <1>1, <1>9, <2>1 DEF LapseInv, MemInv
      <3> QED BY <3>1, <2>1 DEF ProtocolsOf, key
    <2>2. CASE m.protocols # "empty"
      BY <2>2 DEF ProtocolsOf
    <2> QED BY <2>1, <2>2
  <1>10. LapseInv'
    <2> SUFFICES ASSUME ~lapsed
                 PROVE  /\ \A r \in Requests : \A i \in DOMAIN results'[r] : results'[r][i] # "empty"
                        /\ \A a \in Addresses : cache'[a] # "empty"
                        /\ \A n \in pings :
                              n.known => cache'[[host |-> n.host, form |-> "v6"]] # "none"
                        /\ \A n \in pongs \ {m} :
                              n.protocols = "empty" => cache'[[host |-> n.from.host, form |-> "v6"]] # "none"
      BY DEF LapseInv
    <2>1. \A r \in Requests : \A i \in DOMAIN results'[r] : results'[r][i] # "empty"
      BY <1>9 DEF LapseInv, MemInv, ToldOnly
    <2>2. \A a \in Addresses : cache'[a] # "empty"
      BY <1>3, <1>9 DEF LapseInv, MemInv
    <2>3. \A n \in pings : n.known => cache'[[host |-> n.host, form |-> "v6"]] # "none"
      BY <1>6, <1>7 DEF LapseInv, MemInv
    <2>4. \A n \in pongs \ {m} :
             n.protocols = "empty" => cache'[[host |-> n.from.host, form |-> "v6"]] # "none"
      BY <1>6, <1>8 DEF LapseInv, MemInv
    <2> QED BY <2>1, <2>2, <2>3, <2>4
  <1> QED BY <1>2, <1>4, <1>10 DEF MemInv

\* A server leaves out the protocols only if it was asked to.
LEMMA AnswersMem ==
    ASSUME TypeInv, MemInv, ServerAnswers
    PROVE  /\ MemInv'
           /\ pings' \subseteq pings
           /\ pongs' \subseteq [id : Nat, from : Addresses, protocols : {"empty", "protocols"}]
  <1>1. UNCHANGED <<results, cache, lapsed>>
    BY DEF ServerAnswers
  <1>2. PICK m \in pings, keep \in BOOLEAN, form \in {"v4", "v6"} :
          /\ pongs' = pongs \cup {[id |-> m.id, from |-> [host |-> m.host, form |-> form],
                                   protocols |-> IF m.known THEN "empty" ELSE "protocols"]}
          /\ pings' = IF keep THEN pings ELSE pings \ {m}
    BY DEF ServerAnswers
  <1> DEFINE new == [id |-> m.id, from |-> [host |-> m.host, form |-> form],
                     protocols |-> IF m.known THEN "empty" ELSE "protocols"]
  <1>3. m.id \in Nat /\ m.host \in Hosts /\ m.known \in BOOLEAN
    BY DEF TypeInv
  <1>4. [host |-> m.host, form |-> form] \in Addresses
    BY <1>3 DEF Addresses
  <1>5. /\ new \in [id : Nat, from : Addresses, protocols : {"empty", "protocols"}]
        /\ new.from.host = m.host
        /\ new.protocols = "empty" => m.known
    BY <1>3, <1>4
  <1>6. pongs' = pongs \cup {new} /\ pings' \subseteq pings
    BY <1>2
  <1> HIDE DEF new
  <1>7. LapseInv'
    BY <1>1, <1>5, <1>6 DEF LapseInv, MemInv
  <1> QED BY <1>1, <1>5, <1>6, <1>7 DEF MemInv, CacheInv, TypeInv

\* An entry that a ping relies on does not go unnoticed.
LEMMA ExpireMem ==
    ASSUME TypeInv, MemInv, Expire
    PROVE  /\ MemInv'
           /\ cache' \in [Addresses -> {"none", "empty", "protocols"}]
           /\ lapsed' \in BOOLEAN
  <1>1. UNCHANGED <<results, pings, pongs>>
    BY DEF Expire
  <1>2. PICK a \in Addresses :
          /\ cache[a] # "none"
          /\ cache' = [cache EXCEPT ![a] = "none"]
          /\ lapsed' = \/ lapsed
                       \/ \E m \in pings : m.known /\ m.host = a.host
                       \/ \E m \in pongs : m.protocols = "empty" /\ m.from.host = a.host
    BY DEF Expire
  <1>3. cache' \in [Addresses -> {"none", "empty", "protocols"}]
    BY <1>2 DEF TypeInv
  <1>4. cache'[a] = "none" /\ \A b \in Addresses : b # a => cache'[b] = cache[b]
    BY <1>2 DEF TypeInv
  <1>5. CacheInv'
    BY <1>4 DEF CacheInv, MemInv
  <1>6. lapsed' \in BOOLEAN
    BY <1>2
  <1>7. \A h \in Hosts : /\ [host |-> h, form |-> "v6"] \in Addresses
                         /\ h # a.host => [host |-> h, form |-> "v6"] # a
    BY DEF Addresses
  <1>8. \A h \in Hosts : h # a.host /\ cache[[host |-> h, form |-> "v6"]] # "none"
                            => cache'[[host |-> h, form |-> "v6"]] # "none"
    BY <1>4, <1>7
  <1>9. \A m \in pings : m.host \in Hosts
    BY DEF TypeInv
  <1>10. \A m \in pongs : m.from.host \in Hosts
    BY DEF TypeInv, Addresses
  <1>11. LapseInv'
    <2>1. SUFFICES ASSUME ~lapsed'
                   PROVE  /\ \A r \in Requests : \A i \in DOMAIN results[r] : results[r][i] # "empty"
                          /\ \A b \in Addresses : cache'[b] # "empty"
                          /\ \A m \in pings :
                                m.known => cache'[[host |-> m.host, form |-> "v6"]] # "none"
                          /\ \A m \in pongs :
                                m.protocols = "empty" => cache'[[host |-> m.from.host, form |-> "v6"]] # "none"
      BY <1>1 DEF LapseInv
    <2>2. /\ ~lapsed
          /\ \A m \in pings : m.known => m.host # a.host
          /\ \A m \in pongs : m.protocols = "empty" => m.from.host # a.host
      BY <2>1, <1>2
    <2>3. \A b \in Addresses : cache'[b] # "empty"
      BY <2>2, <1>4 DEF LapseInv, MemInv
    <2>4. \A m \in pings : m.known => cache'[[host |-> m.host, form |-> "v6"]] # "none"
      BY <2>2, <1>8, <1>9 DEF LapseInv, MemInv
    <2>5. \A m \in pongs :
             m.protocols = "empty" => cache'[[host |-> m.from.host, form |-> "v6"]] # "none"
      BY <2>2, <1>8, <1>10 DEF LapseInv, MemInv
    <2> QED BY <2>2, <2>3, <2>4, <2>5 DEF LapseInv, MemInv
  <1> QED BY <1>3, <1>5, <1>6, <1>11 DEF MemInv

--------------------------------------------------------------------------------
(* The theorems *)

LEMMA InitInv == Init => IInv
  <1> SUFFICES ASSUME Init PROVE IInv
    OBVIOUS
  <1>1. TypeInv
    <2>1. requested \in Nat /\ requested <= MaxPings
      BY PingerAssumption DEF PingerAssumption, Init
    <2>2. results \in [Requests -> Seq(Outcomes)]
      BY DEF Init
    <2>3. queue \in Seq(Requests \X Addresses)
      BY DEF Init
    <2>4. cache \in [Addresses -> {"none", "empty", "protocols"}]
      BY DEF Init
    <2> QED BY <2>1, <2>2, <2>3, <2>4 DEF Init, TypeInv
  <1>2. QueuedIn(queue) = {} /\ SentIn(outgoing) = {} /\ Pending = {}
    BY DEF Init, QueuedIn, SentIn, Pending
  <1>3. \A r \in Requests : results[r] = <<>>
    BY DEF Init
  <1>4. ReqInv
    <2>1. QueueInv /\ OutgoingInv
      BY DEF Init, QueueInv, OutgoingInv
    <2>2. ApartInv /\ PendingInv
      BY <1>2, <1>3 DEF ApartInv, PendingInv
    <2>3. CalledOnce
      BY <1>3 DEF CalledOnce
    <2>4. NeverForgotten
      BY DEF Init, NeverForgotten
    <2> QED BY <2>1, <2>2, <2>3, <2>4 DEF ReqInv, WaitInv
  <1>5. MemInv
    BY <1>3 DEF Init, MemInv, CacheInv, LapseInv
  <1> QED BY <1>1, <1>4, <1>5 DEF IInv

\* Every step keeps the invariant.
LEMMA NextInv == IInv /\ [Next]_vars => IInv'
  <1> SUFFICES ASSUME IInv, [Next]_vars PROVE IInv'
    OBVIOUS
  <1> USE DEF IInv
  <1>1. CASE Ping
    <2>1. ReqInv' /\ queue' \in Seq(Requests \X Addresses)
      BY <1>1, PingReq, PingerAssumption
    <2>2. MemInv'
      BY <1>1, QuietMem DEF Ping
    <2>3. TypeInv'
      BY <1>1, <2>1, PingerAssumption DEF Ping, TypeInv, PingerAssumption
    <2> QED BY <2>1, <2>2, <2>3
  <1>2. CASE PingUrl
    <2>1. ReqInv'
      BY <1>2, PingUrlReq, PingerAssumption
    <2>2. MemInv'
      BY <1>2, QuietMem DEF PingUrl
    <2>3. requested + 1 \in Requests
      BY <1>2, NewRequest, PingerAssumption DEF PingUrl
    <2>4. TypeInv'
      BY <1>2, <2>3, PingerAssumption DEF PingUrl, TypeInv, PingerAssumption
    <2> QED BY <2>1, <2>2, <2>4
  <1>3. CASE Resolved
    <2>1. ReqInv' /\ queue' \in Seq(Requests \X Addresses)
      BY <1>3, ResolvedReq
    <2>2. MemInv'
      BY <1>3, QuietMem DEF Resolved
    <2>3. TypeInv'
      BY <1>3, <2>1 DEF Resolved, TypeInv
    <2> QED BY <2>1, <2>2, <2>3
  <1>4. CASE RecreateSocket \/ RecreateSocketFails
    <2>1. UNCHANGED <<requested, resolving, queue, nextPingId, outgoing, cache, pings, pongs,
                      expired, results, unresolved, refused, lapsed>>
      BY <1>4 DEF RecreateSocket, RecreateSocketFails
    <2>2. ReqInv'
      BY <2>1, WaitKept, ForgottenKept DEF ReqInv, CalledOnce
    <2>3. MemInv'
      BY <2>1, QuietMem
    <2>4. TypeInv'
      BY <2>1 DEF TypeInv
    <2> QED BY <2>2, <2>3, <2>4
  <1>5. CASE DoPing
    <2>1. /\ ReqInv'
          /\ queue' \in Seq(Requests \X Addresses)
          /\ outgoing' \subseteq [id : Nat, request : Requests, late : BOOLEAN]
          /\ results' \in [Requests -> Seq(Outcomes)]
      BY <1>5, DoPingReq
    <2>2. /\ MemInv'
          /\ pings' \subseteq [id : Nat, host : Hosts, form : {"v4", "v6"}, known : BOOLEAN]
      BY <1>5, DoPingMem
    <2>3. TypeInv'
      BY <1>5, <2>1, <2>2 DEF DoPing, TypeInv
    <2> QED BY <2>1, <2>2, <2>3
  <1>6. CASE DispatchResult
    <2>1. UNCHANGED <<requested, resolving, queue, nextPingId, pings, unresolved, refused, lapsed>>
      BY <1>6 DEF DispatchResult
    <2>2. PICK m \in pongs :
            /\ pongs' = pongs \ {m}
            /\ \/ UNCHANGED <<outgoing, cache, results>>
               \/ \E p \in outgoing :
                    /\ p.id = m.id
                    /\ cache' = [cache EXCEPT ![ToV6(m.from)] = ProtocolsOf(m)]
                    /\ CallBack(p.request, ProtocolsOf(m))
                    /\ outgoing' = Without(m.id)
      BY <1>6 DEF DispatchResult, ProtocolsOf
    <2>3. CASE UNCHANGED <<outgoing, cache, results>>
      <3>1. ReqInv'
        BY <2>1, <2>3, WaitKept, ForgottenKept DEF ReqInv, CalledOnce
      <3>2. MemInv'
        BY <2>1, <2>2, <2>3 DEF MemInv, CacheInv, LapseInv
      <3>3. TypeInv'
        BY <2>1, <2>2, <2>3 DEF TypeInv
      <3> QED BY <3>1, <3>2, <3>3
    <2>4. ASSUME NEW p \in outgoing, p.id = m.id,
                 cache' = [cache EXCEPT ![ToV6(m.from)] = ProtocolsOf(m)],
                 CallBack(p.request, ProtocolsOf(m)), outgoing' = Without(m.id)
          PROVE  IInv'
      <3>1. /\ ReqInv'
            /\ results' \in [Requests -> Seq(Outcomes)]
            /\ ToldOnly(ProtocolsOf(m))
            /\ ProtocolsOf(m) \in {"empty", "protocols"}
        BY <2>1, <2>4, MatchedReq
      <3>2. MemInv' /\ cache' \in [Addresses -> {"none", "empty", "protocols"}]
        BY <2>1, <2>2, <2>4, <3>1, MatchedMem
      <3>3. outgoing' \subseteq outgoing /\ pongs' \subseteq pongs
        BY <2>2, <2>4 DEF Without
      <3>4. TypeInv'
        BY <2>1, <3>1, <3>2, <3>3 DEF TypeInv
      <3> QED BY <3>1, <3>2, <3>4
    <2> QED BY <2>2, <2>3, <2>4
  <1>7. CASE ReceiveFails
    <2>1. UNCHANGED <<requested, resolving, queue, nextPingId, outgoing, cache,
                      results, unresolved, refused, lapsed>>
      BY <1>7 DEF ReceiveFails
    <2>2. pings' = {} /\ pongs' = {}
      BY <1>7 DEF ReceiveFails
    <2>3. ReqInv'
      BY <2>1, WaitKept, ForgottenKept DEF ReqInv, CalledOnce
    <2>4. MemInv'
      BY <2>1, <2>2 DEF MemInv, CacheInv, LapseInv
    <2>5. TypeInv'
      BY <2>1, <2>2 DEF TypeInv
    <2> QED BY <2>3, <2>4, <2>5
  <1>8. CASE RemoveTimedOutPings
    <2>1. /\ ReqInv'
          /\ results' \in [Requests -> Seq(Outcomes)]
          /\ ToldOnly("timedOut")
      BY <1>8, TimedOutReq
    <2>2. UNCHANGED <<requested, resolving, queue, nextPingId, cache, pings, pongs, lapsed>>
      BY <1>8 DEF RemoveTimedOutPings
    <2>3. outgoing' \subseteq outgoing
      BY <1>8 DEF RemoveTimedOutPings
    <2>4. MemInv'
      BY <2>1, <2>2, ToldMem
    <2>5. TypeInv'
      BY <2>1, <2>2, <2>3 DEF TypeInv
    <2> QED BY <2>1, <2>4, <2>5
  <1>9. CASE Elapse
    <2>1. /\ ReqInv'
          /\ outgoing' \subseteq [id : Nat, request : Requests, late : BOOLEAN]
      BY <1>9, ElapseReq
    <2>2. UNCHANGED <<requested, resolving, queue, nextPingId, cache, pings, pongs, results, lapsed>>
      BY <1>9 DEF Elapse
    <2>3. MemInv'
      BY <2>2, QuietMem
    <2>4. TypeInv'
      BY <2>1, <2>2 DEF TypeInv
    <2> QED BY <2>1, <2>3, <2>4
  <1>10. CASE ServerAnswers
    <2>1. UNCHANGED <<requested, resolving, queue, nextPingId, outgoing, cache,
                      results, unresolved, refused, lapsed>>
      BY <1>10 DEF ServerAnswers
    <2>2. /\ MemInv'
          /\ pings' \subseteq pings
          /\ pongs' \subseteq [id : Nat, from : Addresses, protocols : {"empty", "protocols"}]
      BY <1>10, AnswersMem
    <2>3. ReqInv'
      BY <2>1, WaitKept, ForgottenKept DEF ReqInv, CalledOnce
    <2>4. TypeInv'
      BY <2>1, <2>2 DEF TypeInv
    <2> QED BY <2>2, <2>3, <2>4
  <1>11. CASE Expire
    <2>1. UNCHANGED <<requested, resolving, queue, nextPingId, outgoing, pings, pongs,
                      results, unresolved, refused>>
      BY <1>11 DEF Expire
    <2>2. /\ MemInv'
          /\ cache' \in [Addresses -> {"none", "empty", "protocols"}]
          /\ lapsed' \in BOOLEAN
      BY <1>11, ExpireMem
    <2>3. ReqInv'
      BY <2>1, WaitKept, ForgottenKept DEF ReqInv, CalledOnce
    <2>4. TypeInv'
      BY <2>1, <2>2 DEF TypeInv
    <2> QED BY <2>2, <2>3, <2>4
  <1>12. CASE UNCHANGED vars
    <2>1. UNCHANGED <<requested, resolving, queue, nextPingId, outgoing, cache, pings, pongs,
                      results, unresolved, refused, lapsed>>
      BY <1>12 DEF vars
    <2>2. ReqInv'
      BY <2>1, WaitKept, ForgottenKept DEF ReqInv, CalledOnce
    <2>3. MemInv'
      BY <2>1, QuietMem
    <2>4. TypeInv'
      BY <2>1 DEF TypeInv
    <2> QED BY <2>2, <2>3, <2>4
  <1> QED BY <1>1, <1>2, <1>3, <1>4, <1>5, <1>6, <1>7, <1>8, <1>9, <1>10, <1>11, <1>12
          DEF Next, Worker

\* The invariant of the Pinger holds in every state it reaches.
THEOREM Invariance == Spec => []IInv
  <1>1. Init => IInv
    BY InitInv
  <1>2. IInv /\ [Next]_vars => IInv'
    BY NextInv
  <1> QED BY <1>1, <1>2, PTL DEF Spec

\* The callback of ping and pingUrl is called at most once, whatever pongs, timeouts, errors of
\* the socket and duplicates come together.
THEOREM CallbackCalledOnce == Spec => []CalledOnce
  <1>1. IInv => CalledOnce
    BY DEF IInv, ReqInv
  <1> QED BY <1>1, Invariance, PTL

\* A request that has not been called back is still with the resolver, in the channel or in
\* m_outgoingPings, unless its name was not found or the channel was full.
THEOREM NoRequestForgotten == Spec => []NeverForgotten
  <1>1. IInv => NeverForgotten
    BY DEF IInv, ReqInv
  <1> QED BY <1>1, Invariance, PTL

\* A request is told of no protocols only after an entry of m_cache has gone while a ping that
\* had asked to leave the protocols out was under way.
THEOREM EmptyAnswersExplained == Spec => []EmptyOnlyAfterLapse
  <1>1. IInv => EmptyOnlyAfterLapse
    BY DEF IInv, MemInv, LapseInv, EmptyOnlyAfterLapse
  <1> QED BY <1>1, Invariance, PTL

================================================================================
