# Specifications of qunet

qunet is the client side of a game networking protocol: a `Connection` that an application
drives from any thread, over UDP, TCP, QUIC or WebSocket. This directory holds TLA+
specifications of it, written from `src/src` and `src/include`: what is modelled, what TLC
checks on small instances, and what TLAPS proves for instances of any size.

## 1. The system

### Components

| Component | State | Operations | Talks to |
|---|---|---|---|
| **Connection** (`Connection.cpp`) | `m_connState`, `m_connectChan` (2), `m_msgChan` (512), `m_disconnectReq`, `m_lastError`, `m_socket`, `m_data` (address, reconnect attempt) | user threads: `connect`, `connectWait`, `disconnect`, `sendData`, `simulateConnectionDrop`, `destroy`; worker task: `workerThreadLoop`, `threadConnect`, `threadTryReconnect`, `onFatalError` | channels and notifications between users and the worker; the worker owns the socket |
| **Choice of address and protocol** (`UrlParser.hpp`, `threadConnect` to `threadFinalConnect`) | the URL, what was looked up, ping results, merged protocols, candidates; `connectHostname` and `connectPath`, which outlive an attempt | read the URL, look up SRV and addresses, collect pings, sort, try in order | Resolver; Pinger, by callback and a channel of 8 |
| **Resolver** (`ResolverAres.cpp`, `Resolver.cpp`) | queries with c-ares, three caches | `queryA`, `queryAAAA`, `querySRV`, the callback on the c-ares thread, `wrapSync` with its timeout of ten seconds | c-ares; its callers, through a channel per call |
| **Pinger** (`Pinger.cpp`) | queue of 128 requests, `m_outgoingPings`, cache of protocols | `ping`, `pingUrl` from any thread; worker: send, dispatch, time out, recreate the socket | resolver, servers |
| **Socket** (`Socket.cpp`, `QunetDatabase.cpp`) | one transport, `m_usedQdb`, the compression contexts | `createSocket`, `connect` with the database file, `reconnect`, the choice of a compression | transports; the file, on another thread; the reconnect loop of Connection |
| **Message codec** (`QunetMessage.cpp`, `messages.hpp`, `Padding.hpp`) | the position of `QunetUdpMessageIter` | `decodeMeta`, `lengthForNonDataMessage`, `decodeWithMeta`, encoding, padding | UDP transport |
| **UDP transport** (`UdpTransport.cpp`) | `m_pendingMessages`, keepalive clocks | handshake, send, receive, timer | ReliableStore, FragmentStore |
| **ReliableStore** | unacked messages (64), out-of-order store (32), delayed queue, acks owed | `handleIncoming`, `pushLocalUnacked`, `setOutgoingAcks`, `maybeRetransmit` | the peer, over a lossy network |
| **FragmentStore** | fragments by message id, age | `processFragment`, `nextMessageId` | UDP transport |
| **Keepalives** (`BaseTransport.cpp`) | `m_lastActivity`, `m_lastKeepalive`, `m_unackedKeepalives`, latency estimates | `untilKeepalive`, `handleTimerExpiry`, `sendKeepalive` | all transports but QUIC |
| **Stream framing** (`Common.hpp`) | circular receive buffer | `sendMessage`, `receiveMessage` | TCP and QUIC transports |
| **QUIC stream** (`QuicStream.cpp`) | send and receive buffer, `m_ackOffset`, `m_unackedBytes`, `m_streamOffset` | `write`, `read`, `peekUnsentData`, `advanceSentData`, `onAck`, `onReceivedData` | sender, reader and worker tasks; ngtcp2 |
| **QUIC connection** (`QuicConnection.cpp`) | `m_conn`, `m_connected`, `m_closing`, `m_closed`, `m_cancel`, `m_fatalError` | `connect`, `workerLoop`, `close`, `closeSync`, `handleExpiry` | its worker task and the worker of Connection |
| StatTracker, TLS, WebSocket framing, logging, tester | | | see section 8 |

### What is hard about it

* *Interleaving.* User threads check the state and act later; the worker misses notifications
  while it is not listening; `close()` of a QUIC connection is called by two tasks; a QUIC
  stream is shared by three.
* *Unreliable delivery.* Datagrams, acks, fragments, handshake chunks and pongs are lost,
  repeated and reordered; every retry produces more of them.
* *Order.* Accepted messages sit in two queues (`m_pendingMessages`, the delayed queue) and an
  out-of-order store; what is fetched first decides what the application sees.
* *Timeouts.* Retransmission, delayed acks and keepalives share a timer; pings are given up;
  attempts to connect, handshakes and closing have to end.
* *Stale state.* DNS answers come after their call was given up; a hostname, a path, a session or a
  dictionary outlives the attempt it belongs to; the server may have restarted, the database file
  may have been replaced in between.
* *Limits.* 16-bit ids, stores of 32 and 64, channels of 2, 8, 128 and 512, buffers that grow
  up to a limit or must not move.

### What makes the components correct

* Reliable messages are handed over in order, once, and none is acknowledged and lost.
* A reassembled message is one message, whole.
* A handshake that succeeds has one whole answer, and what arrived meanwhile is kept.
* A dead server is noticed, a live one is not given up.
* The state an application sees follows a fixed lifecycle; a request to disconnect is honoured,
  a connection not asked to close is not closed; a message of one session is not sent in another.
* ngtcp2 gets every byte once and in order, what the server sends is read as sent.
* Every ping is called back once. The order of candidates is well defined.
* What is tried belongs to the URL of this attempt, and every attempt ends.
* Both ends of a session use the same dictionary; the application knows which session it is in.
* The messages of a datagram are found where they begin, and handed over in their order.

`PROJECT.json` lists the hazards one by one, each at its line with the properties that cover it.

## 2. Modules

| Module | Models | Extended or instantiated by |
|---|---|---|
| `ReliableChannel` | abstract: one direction of reliable delivery is an in-order channel | `UdpReliable` |
| `UdpReliable` | ReliableStore at both ends with the paths of UdpTransport that use it, and the network | `MCUdpReliable`, `UdpReliableProofs` |
| `ConnectionLifecycle` | abstract: the states a connection may show, and in which order | `Connection` |
| `Connection` | the worker and the user threads | `MCConnection`, `ConnectionProofs` |
| `FragmentStore` | cutting, the network, the store, reassembly, expiry | `MCFragmentStore`, `FragmentStoreProofs` |
| `UdpHandshake` | `performHandshake`, the server's answers, the deadline of `Socket::connect` | `TransportProofs` |
| `Keepalive` | `untilKeepalive` and the timers of UDP, TCP and WebSocket | `MCKeepalive`, `TransportProofs` |
| `QuicStream` | buffers and counters of the main stream, its sender, reader and worker | `QuicProofs` |
| `QuicConnection` | life and death of a QUIC connection | `QuicProofs` |
| `StreamFraming` | `streamcommon::receiveMessage` and its circular buffer | `TransportProofs` |
| `Pinger` | requests, worker, cache | `PingerProofs` |
| `AddressOrder` | the two comparators, pure | `PingCandidates` |
| `PingCandidates` | pinging, sorting and trying the candidates | `NameLookup` |
| `NameLookup` | URL, SRV and address lookups, Resolver; composed with `PingCandidates` | `MCNameLookup`, `NameLookupProofs` |
| `Socket` | handshake, reconnect and stateless reconnect, database file, compression | `MCSocket`, `SocketProofs` |
| `Datagram` | the layout of a datagram, its iterator and the order of what it yields | `MCDatagram`, `TransportProofs` |

`MC*` modules only give TLC its small functions and sequences; modules without one need none.
A module that is extended together with others gives its specification a name of its own: `TimerSpec`
(`Keepalive`), `FramingSpec` (`StreamFraming`), `LifeSpec` (`QuicConnection`), `DatagramSpec` (`Datagram`),
`PingInit` and `PingNext` (`PingCandidates`).
Operators called "Mutant" in a comment are deliberate errors, each placed before the definition
it could replace; no specification uses them. With one in place, TLC reports the property that
`PROJECT.json` names for it, which shows that the property is about the code.

### How state and actions correspond to the code

**UdpReliable.** Per end: `localUnacked` is `m_localUnacked`, `nextRemoteId`, `remoteUnacked`,
`outOfOrder` and `delayed` are the fields of the same names, `rx` is the rest of the datagram that
is being processed, `toReturn` the message `receiveMessageInner` is going to return and `pending` is
`m_pendingMessages`. `SendReliable`, `SendUnreliable`, `TimerExpiry` (give up, retransmit, or send
the acks that are owed), `RecvDatagram` and `ProcessOne` (one turn of the loop over a datagram:
`ackLocal`, then duplicate, out of order or accepted, with `pushRemoteUnacked` and
`maybeRestoreRemote` inside) and `PopPending`/`PopDelayed` are the operations; `SocketError` the
fatal error of a send. The application's k-th message carries the number k, the store sees only its
id. An undecodable message is accepted, acknowledged and then dropped with its datagram, as in the
code. The retransmission time is abstracted: a timer may expire whenever something is unacked.

**Connection.** The variable `pc` is where the worker is suspended, or a place in between where a
user thread can see a difference (between `setState(Connected)` and the drain of the channel, for
instance). `waiter` is the listener on `m_disconnectNotify`: notifying stores nothing, so a worker
that is not `armed` misses it. `connectWait` has a Notify of its own that keeps one permit.
Resolving, pinging and each attempt have outcomes instead of durations. A queued message carries its
history with it: whether it was queued in this session, in an earlier session of this connection or before
this connection, and whether its sender saw `Connected` but queued it too late for the drain (`late`); a stateless
reconnect that succeeds begins a new session. `asked` is history, too. `Next` leaves out `simulateConnectionDrop`, a debugging aid; `DropSpec` has it.

**FragmentStore.** Messages have sizes; a fragment is an index, a length and a last-fragment flag,
cut as `doSendUnfragmentedData` cuts it, with the flag and the index in one field (`WireIndex`,
`WireLast`). `ProcessFragment` adds a fragment, then `ProcessStored` purges stale entries and
returns a complete one; `Elapse` makes entries stale.

**UdpHandshake.** `pc = "polling"` is the loop with its limit of 750 ms, `"receiving"` is inside
`receiveMessage`, which has none. Datagrams hold one message or, with a server that packs them,
data together with another one; a datagram from which no whole message can be read is `Part`.

**Keepalive.** Time is counted in ticks; ages beyond `Horizon` are not told apart. No tick passes
while anything is due, as the worker sleeps for `untilTimerExpiry`. `TimerExpiry` is `handleTimerExpiry`: with UDP it
serves the reliable store first (`StoreDue`: `Retransmitted`, `AfterAcks`), and what it sends there counts as
activity, which puts a keepalive off; a message that was sent again as often as it may be ends the connection.
`localUnacked` holds, for each place taken in the store, the time since the message was sent and the number of
retransmissions, `remoteUnacked` the ages of what is to be acknowledged. The shortest wait for an acknowledgement (`base`)
follows the latency, which any answer may change; `Multiple` is the growth of the waits and `Rounds` what so many of
them add up to.

**QuicStream.** Bytes are numbered. `WriteStream` to `AdvanceSentData` is the window in which ngtcp2
has the bytes and the counters do not. `parallel` tells whether a task can be overtaken between
looking at a condition and waiting for it.

**NameLookup.** `phase` is where the coroutine of `threadConnect` is suspended; `call` holds, per record
type, the channel of `wrapSync`; `queries` what c-ares still has. A query knows the attempt it was
made for: its callback fills the cache in any case, but reaches only the channel of its own
call. `Timeout` and `ThreadCancelConnection` leave the query with c-ares. `Parse` is `UrlParser`
on a URL of a scheme, a host or an address, a port and a path. `NameLookup` extends `PingCandidates`: both
keep their own variables, and `ThreadConnectWithIps` hands over. Sorting is by rank: `InOrder` puts every
pair behind those its comparator places before it. `FinalAddrs` is the two sorts of the code, the second of
which is stable.

**Socket.** `stage` is where `createSocket` and `connect` or `reconnect` are suspended, `kind` which of the
three ways to connect is under way, `new` the Socket under construction, `socket` is `m_socket` with its
connection id and the dictionaries of its two compression contexts. A hash stands for the database
it is of. `NextAttempt` and `OnReconnectFailure` are the Reconnecting state of the worker with
`m_reconnectAttempt` and `m_tryStatelessReconnect`. The server restarts, forgets sessions and changes its
database; the file is written in the background and by others. What Connection does around this is
an outcome in `Connection`, whose `pc` values `reconnect` and `reconnectStateless` are the attempts here.

**Datagram.** `stage` says whose turn it is: a server packs messages into a datagram one after the other
(`PackFirst`, `PackAnother`, the latter only behind a message that says where it ends), `Receive` takes it from
the socket once neither `m_pendingMessages` nor the store's `delayed` messages wait, and `NextItem` to
`EndOfDatagram` is the loop of `receiveMessageInner`. `HandleIncoming` is the store's decision about a reliable
message: give it out, drop it, or hold it back (`outOfOrder`) until `RestoreFrom` moves it to `delayed`. A byte is part of a field of some width and knows which part it is: reading a number
anywhere but at its first byte gives garbage. Messages are those of `messages.hpp`, with the lengths in
them, not their contents. The iterator, `lengthForNonDataMessage` and the decoders compute positions each on
its own, as in the code. Fragments and acks are only passed over here; `FragmentStore` and
`UdpReliable` model what becomes of them. `due` is what the application should have got, computed from the messages
that have come (`got`) and not from the store.

**Pinger.** `outgoing` is `m_outgoingPings`, each ping with its id and whether its 1.5 seconds (`PING_TIMEOUT`) have passed;
`queue` is the channel, `resolving` the requests that are with the resolver.

**QuicConnection, StreamFraming, Pinger, PingCandidates.** One action per step between suspension
points; the comment at each action names the function.

### External parts

These are not in the repository, and are modelled from how it uses them: the server and the
network; `arc::Notify` (`notifyAll` wakes who waits and stores nothing, `notifyOne` stores a
permit), `arc` channels (bounded, `trySend` fails when full) and `select` (drops the branches that
lose); `dbuf::CircularByteBuffer` (capacity grows to what is needed or doubles; whether it starts
over when empty is a constant, `StartsOver`); ngtcp2 (takes any number of the bytes it is offered,
acknowledges in order); `asp::Cache` (entries may go at any time); c-ares (calls back once per query, at any
time, with the published records or an error) and the name servers; zstd and lz4 (a result of some
size); the file system; the clock.

## 3. Runs

All runs have `CHECK_DEADLOCK FALSE` but `FragmentStore_lossy`: a bounded number of calls comes to an end, a
handshake, a ping or a choice of address is over at some time, and a connection may stay idle. Times
are for two workers.

| Run | Bounds | States | Properties |
|---|---|---|---|
| `UdpReliable_download` | 3 messages from the server, the first undecodable; a datagram of the server holds one message, or a reliable one and another; acks one at a time; stores of 1 (out of order) and 2 (unacked); 1 retransmission | 377 000 | `InOrder`, `NoSilentLoss`, `ForgottenOnlyIfAccepted`, `ChannelRefinement`, `EventuallyDelivered` |
| `Connection_main` | 2 users, one with `connectWait`; 2 connects, 2 sends, 1 disconnect, 1 destroy; 2 candidates; third reconnect attempt is the last; valid, direct and invalid URLs | 235 000 | `WorkerHasSocket`, `NoSpuriousClose`, `StaleNeverSent`, `LifecycleRefinement`, `DisconnectHonoured`, `ConnectWaitReturns` |
| `FragmentStore_lossy` | messages of 2 and 3 fragments, 4 transmissions, 5 ids | 160 000 | `Integrity`, `NoCompleteLeft`, `FreshKept` |
| `UdpHandshake_main` | 2 chunks, 2 connection ids, 1 data or partial message, refusals, both kinds of server | 101 000 | `WholeAnswer`, `UnexpectedKept`, `HandshakeEnds` |
| `Keepalive_main` | limit of 1 unanswered keepalive, retries after 1 tick, early intervals of 1 and 2, idle interval of 2, active interval 0 or 1; with UDP shortest waits of 1 or 3 ticks, 1 retransmission, 2 places in the store, 2 messages to acknowledge, 1 acknowledgement per message and after 1 tick; 1 keepalive of the application, horizon 7 | 2 604 000 | `DeadPeerNoticed`, `NoEarlyTimeout` |
| `QuicStream_main` | 5 bytes, buffer 2 growing to 4, packets of up to 2, window 3; 1 refused write, 1 failed send; one thread or several | 936 000 | `StreamIntact`, `AckAssertions`, `AllSent` |
| `QuicConnection_main` | 2 failures (`MaxSendFailures`), 2 failed close packets | 155 | `OneGoodbye`, `DeadWorkerNoticed`, `CloseEnds` |
| `StreamFraming_main` | 3 messages of 0, 1, 3 or 5 bytes, limit (`SizeLimit`) 4, buffer from 1 to 8 and beyond, 1 dropped call | 22 000 | `MessagesIntact`, `AllReturned` |
| `Pinger_main` | 3 requests, channel of 1, 1 socket error, 1 expired entry | 171 000 | `CalledOnce`, `EmptyOnlyAfterLapse`, `CalledBack` |
| `NameLookup_main` | 2 connects; 10 URLs: names with an SRV record and with a port, localhost, addresses of both families with and without brackets and port, some that cannot be read; both families or IPv4 alone; 2 response times, channel of 1 | 473 000 | `AddressesRight`, `OneFamilySuffices`, `FastestFirst`, `ConnectEnds` |
| `Socket_main` | 5 databases: two usable, one without a dictionary, one zstd refuses, one that cannot be decoded; 3 sessions, 2 restarts, fourth attempt is the last; 6 payloads around the thresholds | 226 000 | `MessagesReadable`, `ResetTold`, `DatabaseErrorsHonest`, `ReconnectEnds` |
| `Datagram_main` | 2 datagrams of 1 or 2 messages out of 20 with every header and length field at zero and beyond, ids 1 and 2 in every order; out-of-order store of 1; 7 messages of the client, one a fragment, with and without a connection id | 550 000 | `ItemsIntact`, `DeliveredInOrder` |

Why the bounds are enough for the cases in question:

* Three messages are the least that can go wrong in order: one fills the gap, one is restored, one
  arrives before the restored one is fetched. The first is undecodable, so the gap is filled by a
  message that is dropped. Stores of one and two overflow. With two messages in a datagram one
  of them waits in `m_pendingMessages`; with two reliable ones the order is lost (section 4).
* Four transmissions of two messages give two transmissions of each that overlap with those of the
  other, and five ids let the counter wrap.
* Two connects by two users give a request that waits behind a connection; the second user can
  disconnect or send at every point of the first one's attempt.
* Two chunks under two ids give every mix of answers that completes or mismatches.
* With a buffer of 2 that may grow to 4, five bytes need waiting, growing and a partial write.
* Response times 1 and 4 with a margin of 2 give pairs within it and beyond it; the order of pairs
  at the margin itself is proved (`PingOrderIsConsistent`). A name has up to two addresses, of two families.
* In `Keepalive_main` both ways to notice a dead server matter: with a shortest wait of 1 the keepalives come last, and an
  acknowledgement just due puts the first of them off; with a shortest wait of 3 the retransmissions last longer
  (6 ticks against 5). With the delay of an acknowledgement or the waits of the retransmissions left out of
  the bound, TLC finds a violation.
* With two connects, every query of the first can be answered or lapse before, during and after each wait of
  the second, for the same name or another one.
* Three sessions are a connect, a stateless reconnect and another one; two restarts change the database
  between them and back.
* Two messages in a datagram suffice for positions: what follows the second starts where it ends,
  as the second does after the first. The second datagram finds the queue as the first leaves it, and the ids 1 and 2
  come in order, the other way round and repeated; longer gaps and runs are covered by the proof (`MessagesInOrder`).

What the properties say is stated in front of each definition. Some need a word more:

* `UnexpectedKept`, `AllSent`, `CloseEnds`, `DeadWorkerNoticed`, `CalledBack`, `ConnectWaitReturns`,
  `HandshakeEnds`, `AllReturned`, `StaleNeverSent` and `DisconnectHonoured` each name an exception. The exceptions are what the code does
  not do; section 4 lists them, with a configuration each.
* `MessagesReadable` is checked with servers that keep a database (`Offers`), `ItemsIntact` with client
  messages that are not compressed, `DeliveredInOrder` with messages the client knows: section 4 again.
* `DeliveredInOrder` says that a message held back comes behind the datagram that fills the gap, which is the order of
  the ids as long as that datagram has no other reliable message; `UdpReliable_batched_order` has one that does.
* `StaleNeverSent` excepts a message whose sender saw `Connected` and queued it after `onFatalError` had drained the
  channel: neither a reconnect nor a stateless one drains it again, and the message is sent in the new session.
* `DisconnectHonoured` excepts a worker that stays in a call of the socket for ever (`sendMessage`,
  `handleTimerExpiry`, `close`, none of which has a timeout) or polls `isClosed` of a socket that never says so.
  `DeadWorkerNoticed` excepts an owner that waits for room in the send buffer, or whose close packet failed.
* `OneFamilySuffices` is about the two lookups together: `DomainNotFound` is reported only if none of
  the enabled families gave an address. Why there was none the code does not tell apart.
* `DeadPeerNoticed` counts the time in which the server is silent and so is the application: sending postpones
  keepalives. Over UDP so do the retransmissions of what the application sent last, which is why the bound is the later of two:
  50 ms, 30 s and 6 times 2 s (`KeepalivesEnd`), or 46 times the shortest wait (`RetransmitsEnd`), which is 1.6 round
  trips and 50 ms: some 42 seconds, or 76 with a round trip of a second.
* `Keepalive` assumes that the first intervals are no longer than the idle one, which is so in the code: 3, 3, 8, 12
  and 20 seconds against 30 for UDP, 3, 10 and 25 against 45 for TCP and WebSocket; and a `Horizon` that all retries
  fit in, without which `NoEarlyTimeout` could not be stated. The waits of the retransmissions are bounded by `LongestBase`: no
  latency is larger than that; `Rounds` is their sum, given as a function.
* `NoEarlyTimeout` allows for keepalives that the application sends itself, which count as well.

### Fairness

Weak fairness of the worker tasks: the runtime polls a task that can go on, and every sleep and every attempt to
connect has a timeout. In `Connection` only `Prompt` is fair, the steps of the worker that do not wait for its socket:
`sendMessage`, `handleTimerExpiry`, `close` and the wait for `isClosed` have no timeout, and nothing is assumed of
them (`InSocket`). In `QuicConnection` room in the send buffer need never come (`WaitsForRoom`). A user thread that has entered a call goes on with it,
but nobody has to call. Strong fairness is used where an event comes back again and again in
competition with others in a `select`: a retransmission or ack that is due, a notification with a
stored permit, an answer to a handshake that is repeated (the network does not lose the same part of it for
ever). In `NameLookup` the worker and its timers are fair each on their own, as both can be due at once; no
name server, pinged server or c-ares has to answer. The end of pinging, by an answer or by time, is fair as one
step (`EndPinging`). In `Socket` each of the worker's steps is fair, the timeout
of the handshake and the return of the blocking call that writes the file included; the server
does nothing by obligation. `UdpReliable` assumes nothing about the network: with a network that loses everything the
sender gives up, which `EventuallyDelivered` allows. `Pinger` does not rely on any server. In `UdpHandshake` the deadline is not assumed to fire, else `HandshakeEnds` would say nothing.
In `QuicStream` the 15-second keepalive of ngtcp2, which would wake up a worker by accident, is not
relied upon.

## 4. Where code and comments disagree

Each of the following configurations checks what the code's own comments, assertions or tests
state; TLC shows a short counterexample. They are not part of the runs. Where one checks several
properties, TLC stops at the first that it finds violated; each of them is violated when it is the only one checked.

| Configuration (module) | Property | What happens | The comment |
|---|---|---|---|
| `UdpReliable_wraparound` (`MCUdpReliable`) | `LostAckRepeated` | ids are compared as plain integers: after the wrap an id from before it looks new, is stored as out of order and its ack not repeated | "because of wraparound", `ReliableStore.cpp:25` |
| `UdpReliable_batched_order` (`MCUdpReliable`) | `InOrder` | a second message in a datagram waits in `m_pendingMessages`, which is emptied before the delayed queue | "everything is fine and in order", `ReliableStore.cpp:43` |
| `UdpHandshake_promises` | `BatchedKept` | `m_pendingMessages` is replaced at the end of the handshake, and what shared the last datagram is lost | "store unexpected messages for later", `UdpTransport.cpp:95` |
| the same | `ResendsWhenSilent` | after a datagram without a whole message `receiveMessage` waits without a limit | "Polls are limited to 750ms", `UdpTransport.cpp:72` |
| `Keepalive_active` (`MCKeepalive`) | `ActiveOnTime` | while a keepalive is unanswered only activity counts, so traffic postpones the next | "they will always be sent at the given interval", `Connection.hpp:266` |
| `Connection_drop_assert` (`MCConnection`) | `ReconnectHasAddress` | `simulateConnectionDrop` runs `onFatalError` on the caller's thread and can reset the address under the worker, whose assertion in `threadTryReconnect` then fails | "causing a reconnect attempt", `Connection.hpp:309` |
| `Connection_promises` (`MCConnection`) | `WaitsForOutcome` | `connectWait` returns on the state change of another caller's attempt | "will wait for the connection to be established, or fail", `Connection.hpp:211` |
| the same | `NoDropWhileConnected` | `Connected` is visible before the channel is drained; a message accepted in between is dropped | "Returns true on success", `Connection.hpp:293` |
| the same | `SentInOwnSession` | a `sendData` that saw `Connected` may queue its message after the drain of `onFatalError`; it is sent after a stateless reconnect | "an entirely new connection has to be made, and with it, some connection state has to be reset", `Connection.hpp:228` |
| the same | `DisconnectEnds` | the worker awaits calls of the socket that have no timeout, and nothing else meanwhile: the request is not looked at | "Disconnect from the server, or aborts the current connection attempt", `Connection.hpp:215` |
| `QuicStream_promises` | `AllSentInParallel` | on several threads the last ack can come between the look at the capacity and the wait | "notify any waiters", `QuicStream.cpp:147` |
| the same | `NoMoveInFlight` | between ngtcp2 taking bytes and `advanceSentData` a write may grow the buffer | "we cannot grow the buffer if there is data in flight", `QuicStream.cpp:75` |
| `QuicConnection_promises` | `FailedCloseEnds` | a close packet that fails leaves `m_closing` set and `m_closed` not; the owner waits for ever | "wait for the socket to close", `Connection.cpp:464` |
| the same | `ClosesExistingConn` | a worker cancelled before there is an `m_conn` writes a close packet for it | "if we terminated on our own terms", `QuicConnection.cpp:201` |
| the same | `FullSendEnds` | `send` looks at `m_closed` on entry only; one that waits for room is woken by nothing when the worker has ended | "Returns the number of bytes sent, or an error", `QuicConnection.hpp:57` |
| `StreamFraming_spurious` | `NoSpuriousError` | the contiguous room at the end of a full-size buffer may be small while it is nearly empty | "error if too much space is already reserved", `Common.hpp:86` |
| `Pinger_overflow` | `OnlyUnresolvedNotCalled` | a request that meets a full channel is dropped with its callback | "may never be invoked if DNS resolution fails, but timeouts will still be handled", `Pinger.hpp:45` |
| `NameLookup_promises` (`MCNameLookup`) | `SomethingToTry` | a server that announces only unknown protocols leaves nothing to try, and the assertion fails | `ARC_ASSERT(!addrs.empty())`, `Connection.cpp:872` |
| the same | `OnlyEnabledFamilies` | the families are looked at for names only: an IPv4 address is tried with IPv4 disabled | "only IPv6 connections will be attempted", `Connection.hpp:245` |
| the same | `PathKept` | `threadConnect` sets the path, `threadConnectIp` clears it again | "parse the path (for ws/wss)", `UrlParser.hpp:47` |
| the same | `NotFoundMeansNone` | lookups that time out or fail end in `DomainNotFound` as well, even of a name that has addresses | "dns resolution succeeded but the domain was not found", `Connection.hpp:62` |
| `Socket_promises` (`MCSocket`) | `DictionariesAgree` | a server that has no database any more sends none; the client takes that for "the one you have" and uses the dictionary in its file | `else if (m_usedQdb)`, `Socket.cpp:183` |
| the same | `NeverCrashes` | with less than a millisecond left, `createSocket` calls `close()` on the pointer it has just moved from | `ConnectionTimedOut` is to be returned, `Socket.cpp:44` |
| `Datagram_unknown` (`MCDatagram`) | `NeighboursKept` | an item that cannot be read ends the call, and the first message of the datagram, which was to be returned, is lost, though acknowledged | "everything is fine and in order", `ReliableStore.cpp:43` |
| `Datagram_up_compressed` (`MCDatagram`) | `ItemsIntact` | `encodeDataHeader` puts the compression header before the connection id, where `decodeMeta` reads the id first | "connection id" right after the header byte, `tests/QunetMessage.cpp:63` |

Also met, without a configuration: `connectWait` with a URL that does not parse waits for ever, as the
state never leaves `Disconnected` (the reason for the condition in `ConnectWaitReturns`). `ConnectionControl`
is encoded with a type of one byte and decoded with one of two; the client only decodes it. An IPv6 address
without brackets and a port after it are read as one longer address, and one in brackets without a port as the name `[:` with
the last group as its port, or as no URL at all (`Parse`).

## 5. Proofs

TLAPS checks every proof; no theorem rests on an unproved fact. `*Proofs` modules extend the
specifications the runs use, unchanged.

| Theorem | Hypotheses | Statement |
|---|---|---|
| `UdpReliableProofs!TypeCorrect`, `OrderedDelivery`, `DeliveredOnce`, `AcksAreTruthful`, `DuplicatesAreRecognised`, `NothingStuck`, `AcceptedIsKept`, `ImplementsChannel` | `NoWrap` (fewer messages than ids and than the duplicate window), `MaxReliable = 1` (a datagram has one reliable message among any others); for `AcceptedIsKept` also that unreliable messages decode | `Spec => []P` for `TypeOK`, `InOrder`, `AtMostOnce`, `ForgottenOnlyIfAccepted`, `DuplicatesRecognised`, `NoStuckMessage`, `NoSilentLoss`, and the refinement of `ReliableChannel`; any capacities, any number of retransmissions, any network, duplicates included |
| `ConnectionProofs!TypeCorrect`, `SocketPresent`, `LoopStates`, `CloseIsAskedFor`, `SessionsSeparate`, `FailureIsExplained`, `LifecycleImplemented` | none but `ConnectionAssumption` | `TypeOK`, `WorkerHasSocket`, `NoIntermediateState`, `NoSpuriousClose`, `StaleNeverSent`, `FailureHasError` and the refinement of `ConnectionLifecycle`; any users, calls and limits |
| `FragmentStoreProofs!TypeCorrect`, `ReassembledIntact`, `NeverAGap`, `CompleteIsReturned`, `FreshFragmentsKept` | `NoIdReuse`, `FitsIndex` (indices below 32768) | `TypeOK`, `Integrity`, `NoGap`, `NoCompleteLeft` and the action property `FreshKept`; any messages, sizes and MTU |
| `QuicProofs!BytesIntact`, `AckAssertionsHold`, `BufferBounded` | none but `QuicStreamAssumption` | `StreamIntact`, `AckAssertions`, `BufferInv`; any buffers, packets, windows and numbers of bytes, every interleaving of the three tasks |
| `QuicProofs!GoodbyeOnce`, `EndIsSeen` | none but `QuicConnectionAssumption` | `OneGoodbye`, `EndIsVisible`; any number of failures, worker and owner in any order |
| `SocketProofs!SessionsAreTold`, `FileIsHarmless` | none but `SocketAssumption` | `ResetTold`, `DatabaseErrorsHonest`; any databases, sessions, restarts and attempts |
| `SocketProofs!SameDictionary`, `MessagesAreReadable` | `HasDatabase` (the server never is without one) | `DictionariesAgree`, `MessagesReadable`; the same, with payloads of any size |
| `TransportProofs!AnswerIsWhole`, `UnexpectedIsKept` | none but `HandshakeAssumption` | `WholeAnswer`, `UnexpectedKept`; any number of chunks, answers and other messages |
| `TransportProofs!DeadPeerIsNoticed`, `NotGivenUpEarly` | none but `KeepaliveAssumption`, `RetransmitAssumption` | `DeadPeerNoticed`, `NoEarlyTimeout`; any intervals, limit and transport, any waits, latencies and store sizes, any keepalives and messages of the application and of the server |
| `TransportProofs!FramesIntact`, `RoomIsFree` | none but `StreamFramingAssumption` | `MessagesIntact`, `NoOverwrite`; any header, lengths, limit and buffer sizes, any chunks and dropped calls |
| `TransportProofs!ItemsFound`, `MessagesInOrder` | `Agreed` (the client knows the types and codes of the server's messages, none has more than 8 acks or an id beyond 16383, and it sends none compressed) | `ItemsIntact`, `DeliveredInOrder`; any messages with any headers and lengths, any number in a datagram and any number of datagrams |
| `PingerProofs!CallbackCalledOnce`, `NoRequestForgotten`, `EmptyAnswersExplained` | none but `PingerAssumption` | `CalledOnce`, `NeverForgotten`, `EmptyOnlyAfterLapse`; any hosts, requests, errors and pongs |
| `NameLookupProofs!OneFamilyIsEnough`, `HostnameOfThisAttempt` | none but `NameLookupAssumption` | `OneFamilySuffices`, `HostnameRight`; any URLs and published records |
| `NameLookupProofs!AddressesAreRight`, `FastestIsFirst` | none but `NameLookupAssumption`, `PingCandidatesAssumption`, `AddressOrderAssumption` | `AddressesRight`, `FastestFirst`; the same, with any response times, margin, preferences and protocols announced |
| `NameLookupProofs!PingOrderIsConsistent`, `TypeOrderIsConsistent` | none but `AddressOrderAssumption` | both comparators are strict weak orders, for every margin, all times and every preference, `Unknown` (none) included; so `std::sort` is used as it may be, whatever results are collected |

The hypotheses are about the code, not about the proofs: without `NoWrap`, and with two reliable messages in a
datagram, the properties fail (section 4), and a fragment id used again while fragments of its first use
are about mixes two messages. An unreliable message that cannot be decoded takes the reliable one before it in the
datagram along (section 4), hence the third hypothesis of `AcceptedIsKept`.
A server that has dropped its database leaves the client with a dictionary of its own (section 4), hence
`HasDatabase`. `Agreed` leaves out the two kinds of datagrams of section 4 of which an item is lost or misread: a server that uses
a type or a code the client does not know, and a client that compresses. It also leaves out more than 8 acks in a
message: the reader takes 8 and looks for what follows them right there, and `setOutgoingAcks` writes no more. `PingCandidatesAssumption` says that no
number in an announcement stands for wss, which is what `ConnectionType` has it for.
Each inductive invariant below was checked by TLC on a small instance before it was proved.

*UdpReliable.* `InOrder` is not inductive: that what is delivered next is larger depends on where
the messages in the queues come from. `IInv` adds that ids and payloads agree in everything under way
(`NetInv`, `RxInv`, `UnackedInv`, `SendInv`: a packet with id i holds the sender's message i), that
the out-of-order store holds only what lies beyond `nextRemoteId` (`StoreInv`), that acks owed
and acks under way name accepted messages (`AckInv`, also in `NetInv` and `UnackedInv`, where the stale
ones are), and that the delayed queue is exactly the last accepted messages, in order, with
everything delivered before them (`DelayedInv`, `DeliveredInv`). `PushFacts` is the central lemma:
what `pushRemoteUnacked` and `maybeRestoreRemote` move into the delayed queue is the run that
follows the accepted message. A reliable message that shares its datagram with others is held in `toReturn` or
`m_pendingMessages` for a while; `HeldInv` says that there is one such message at most, that it is the last one before
the delayed queue, and that nothing is held or delayed while the reliable message of a datagram is still to come, so
emptying `m_pendingMessages` first does no harm. Every step keeps the held message, takes one, gives it to the
application or loses it (`Keeps`, `Takes`, `Gives`, `Loses`). One lemma per action shows that it preserves `IInv`.
For `NoSilentLoss`, `HandedInv` says that the accepted messages that are neither held nor delayed were handed over or
could not be decoded; `QueueInv` that both stores hold packets of the other end. `AtMostOnce` also needs
`PositiveInv`, that what is delivered are reliable messages. For the refinement, `HandsOver` says that a step
settles no message or exactly the next one (`HandedUpTo`), which the abstract channel then delivers or leaves out.

*Connection.* `PcInv` ties the state to the worker's place (only the worker sets it), `SocketInv` says
where the worker has a socket and an address, `AskedInv` that a raised flag or a worker woken by it means a
`disconnect()` since the request was taken, `QueueInv` that outside the window between `Connected` and the drain
all that is queued is of this session or late, and all that is queued while reconnecting is late, `ErrorInv` where `m_lastError` must be set. The refinement follows from `IInv` and
one lemma per kind of step.

*FragmentStore.* `StoreInv` says that an entry holds only fragments of the transmission that its id
was given to, with the payloads it was cut into. `CompleteIsWhole` shows that an entry that is complete by
its last fragment and its number of fragments is the whole message, `OffsetMonotonic` that the
payloads of a message tile it. For `FreshKept`, `ProcessFragmentKeeps` shows that one call of `processFragment` removes the
entry it returns and stale ones, and no other.

*QuicStream.* The counters are offsets into one sequence: `OffsetInv` says that `m_streamOffset` is `m_ackOffset`
plus `m_unackedBytes`, and that ngtcp2 has been given that much and the packet under way, which is why the
window between `WriteStream` and `AdvanceSentData` harms neither order nor assertions. `BufferInv` bounds what
is written: a look at the capacity that is stale errs on the safe side, as only the sender fills the buffer.

*Socket.* `StageInv`, `RequestInv` and `AnswerInv` relate what the server sees and what the client gets to the
attempt under way; `ToldInv` says which session `m_socket` is in; `FileInv` that a database in the file has
been used before, so it is not one that would be refused. For the dictionaries a second invariant, `DInv`, follows a hash
from the file through the request to the answer: "no database in the answer" means the one that was asked with.

*UdpHandshake.* The code counts the chunks it has; `ChunksInv` says that all of them are of one answer and no two the
same part, so that counting chunks is counting parts (a fact on cardinalities). `SingleInv` says that without
packing `m_pendingMessages` is empty during the handshake, so replacing it at the end loses nothing.

*Keepalive.* Neither property is inductive, as neither mentions how many keepalives are unanswered. As long as nothing waits
for an acknowledgement, `AnsweredInv` bounds the silence by the idle interval and the delay of an
acknowledgement while no keepalive is unanswered (`RemoteInv`: what the client has to acknowledge came before the silence,
so the last such activity is early); `RetryInv` says that it began at most that long before the first
unanswered one, and that each of those added at most a retry interval. While a message waits, `LocalInv` bounds the silence by
its waits so far, as it was sent before the silence began; since nothing acknowledges it without ending the silence, it
stays until the connection is given up. `SilenceInv`, the other way round, says that each keepalive but
the first and those of the application took a retry interval in full.

*StreamFraming.* `WireInv` describes the stream: each message starts where the one before it ends. `PieceInv`
says that the buffer holds a piece of it, with what was returned before it. As `MessagesIntact` keeps the buffer at the
start of a message, what is parsed there is its header (`AtFront`).
`RingInv` says that the bytes in the ring and the room that `receive` may fill together fit into it, in one
piece (`WindowFits`, for a buffer that wraps around). Offsets into the stream make sums of lengths superfluous.

*QuicConnection.* `ClosingInv` says that nobody has written a close packet before `m_closing` was raised, and that worker
and owner do not both write one. `WorkerClosingInv` says that until the owner closes or gives up, `m_closing` is the
worker's doing, and that a worker that has ended has raised it. `EndIsVisible` needs both.

*Datagram.* `At(b, p, s)` says that the bytes s are at position p of b. Each kind of message has a lemma of its own, by
which the length that `lengthForNonDataMessage` computes is that of the body and the decoder gets the code and
the size that were encoded (`WellRead`); `DataRead` does the headers of data messages one after the
other. So the iterator, standing where a message begins, finds it, whatever follows or is yet appended
(`Found`, `PlacedAt`). `LayoutInv` adds where they begin: each where the one before ends, and the iterator at
the end of one. `OrderInv` says that what was delivered, what is about to be returned, `m_pendingMessages` and
`delayed` make up, in this order, what is due. For that `StoreInv` ties the store to the messages that have come: they
are the ids below `nextRemoteId` and those in `outOfOrder`, so that the run `RestoreFrom` moves is the run that becomes
due (`Restored`, `Expected`). Ids stay below 16384 there; beyond, `IsDuplicate` errs (`UdpReliable_wraparound`).

*Pinger.* `ApartInv`, `QueueInv` and `OutgoingInv` say that a request waits in one place and once, `PendingInv` that
what waits has not been called back: hence `CalledOnce`. `NeverForgotten` is the converse. `LapseInv` is about
the cache: as long as no entry has gone, every ping that asked to leave the protocols out is for an address whose
entry is there.

*NameLookup.* `CallInv` says that during and after the wait exactly the enabled families have been asked,
`CacheInv` that no record of addresses without an address is remembered, so an empty answer is an error of the
lookup. For `AddressesRight`, `LookupInv` says that the queries of an attempt are for one host, that the cache holds
what is published for the host it is filed under, and that nobody asks for localhost. For `FastestFirst`, `PingInv`
says that an address is waited for, in the channel or counted, once, and `FinalInv` that `final` is what the two
sorts leave. The number of predecessors in a strict order is a bijection between a finite set and its
positions, so sorting by rank returns everything once and in order; the stable sort keeps the order of response times
within a type. `PingLessAcross`, for the comparators: between families one time is compared with the other
plus the margin, which is why the two criteria do not contradict each other.

The types, `AtMostOnce`, `NoStuckMessage`, `NoGap`, `FailureHasError`, `BufferInv`, `NeverForgotten`, `HostnameRight`,
`NoOverwrite`, `EndIsVisible` and the orders of `AddressOrder` are proved for every instance and not listed with the runs.

### Only model-checked

Every invariant, every action property and every refinement that a run checks is also proved, under the hypotheses
above. What stays with TLC is liveness: `EventuallyDelivered`, `DisconnectHonoured`, `ConnectWaitReturns`,
`HandshakeEnds`, `AllSent`, `DeadWorkerNoticed`, `CloseEnds`, `AllReturned`, `CalledBack`, `ConnectEnds` and
`ReconnectEnds`. The prover handles neither fairness nor `ENABLED`. The safety halves of some of them are proved:
`NeverForgotten` of `CalledBack`, `EndIsVisible` of `DeadWorkerNoticed` and `CloseEnds`, `NoStuckMessage` of
`EventuallyDelivered`.

The bytes of a message and its lengths enter the proofs as they are in the model: sizes stand for contents, and what
a decompressor or a parser of contents returns is not modelled (section 8).

## 6. Running

    tlc -workers 2 -config Connection_main.cfg MCConnection
    tlapm ConnectionProofs.tla

`PROJECT.json` names the module of every run, the code every definition translates, and a mutant for
every property.

## 7. Plan

Done: the modules above, in the order reliable delivery, connection, fragments, handshake,
keepalives, QUIC, framing, pinging, lookups, socket, datagrams.

Left to model: the streams a QUIC server opens and closes, and `Connection` with the steps of `Socket` in place
of outcomes (the product of the two is too large for TLC; the interface between them is small).

## 8. Not modelled

* **StatTracker**: counters and timestamps for debugging; nothing in the protocol reads them.
* **Characters and bytes**: the characters of a URL, the sections of a database file, the contents of
  messages and the compression algorithms are sequential functions without state. That something
  cannot be read is an input of the models.
* **Custom name servers** and their transport: settings handed to c-ares.
* **TLS**: glue to a library; a failure is an outcome of `QuicConnection`.
* **WebSocket framing**: done by the library. Its timer is in `Keepalive`.
* **Logging and error texts**, **tester**: nothing depends on them.
* **Real time.** Except in `Keepalive` durations are not modelled, only that deadlines may pass; `UdpReliable`
  leaves the retransmission interval and its growth out.
* **Memory.** Lifetimes and torn reads of non-atomic fields are left out, such as `m_fatalError`,
  which is written by the worker and read by the owner.
