------------------------------- MODULE Connection ------------------------------
(***************************************************************************)
(* A client connection: its worker task (workerThreadLoop and the thread*  *)
(* functions it calls) and the user threads that call connect,             *)
(* connectWait, disconnect, sendData, simulateConnectionDrop and destroy.  *)
(*                                                                         *)
(* The worker owns the socket; users reach it through the state, two       *)
(* bounded channels, the disconnect flag and the disconnect notification.  *)
(* A worker step runs from one suspension point (or one place where a user *)
(* thread can see the difference) to the next.                             *)
(***************************************************************************)
EXTENDS Integers, Sequences

CONSTANTS
    Users,          \* user threads
    Waiter,         \* the one that uses connectWait instead of connect
    Urls,           \* destinations: [valid, dns, ping], each BOOLEAN
    ConnectCap,     \* capacity of m_connectChan         (2)
    MsgCap,         \* capacity of m_msgChan             (512)
    ReconnectLimit, \* the attempt that is not made any more (7)
    MaxCandidates,  \* bound: address and protocol combinations to try
    MaxConnect,     \* bound: calls of connect and connectWait
    MaxSend,        \* bound: calls of sendData
    MaxDisconnect,  \* bound: calls of disconnect
    MaxDrop,        \* bound: calls of simulateConnectionDrop
    MaxDestroy      \* bound: calls of destroy

ASSUME ConnectionAssumption ==
    /\ Waiter \in Users
    /\ Urls \subseteq [valid : BOOLEAN, dns : BOOLEAN, ping : BOOLEAN]
    /\ ConnectCap \in Nat /\ MsgCap \in Nat
    /\ ReconnectLimit \in Nat \ {0}
    /\ MaxCandidates \in Nat \ {0}
    /\ MaxConnect \in Nat /\ MaxSend \in Nat /\ MaxDisconnect \in Nat
    /\ MaxDrop \in Nat /\ MaxDestroy \in Nat

VARIABLES
    (* shared between the worker and the users *)
    connState,      \* m_connState
    connectChan,    \* m_connectChan: [url, by]
    msgChan,        \* m_msgChan: for each message, when it was queued
    disconnectReq,  \* m_disconnectReq
    waiter,         \* the worker and m_disconnectNotify: off, armed or woken
    taskWake,       \* a permit stored in m_taskWakeNotify
    lastError,      \* m_lastError: is it an error, or Success
    (* the worker *)
    pc,             \* where the worker is
    target,         \* the request being served
    candidates,     \* combinations left to try in threadFinalConnect
    current,        \* the message being sent
    socket,         \* m_socket holds a socket
    address,        \* m_data.m_address is set
    attempt,        \* m_data.m_reconnectAttempt
    tryStateless,   \* m_data.m_tryStatelessReconnect
    (* the users *)
    userPc,         \* where each user thread is
    permit,         \* a permit stored in connectWait's own Notify
    calls,          \* calls made so far, by operation
    (* history *)
    asked           \* disconnect() ran since the current request was taken

chanVars   == <<connectChan, msgChan>>
notifyVars == <<disconnectReq, waiter, taskWake>>
dataVars   == <<socket, address, attempt, tryStateless>>
workVars   == <<pc, target, candidates, current>>
userVars   == <<userPc, calls>>
vars == <<connState, chanVars, notifyVars, lastError, workVars, dataVars, userVars, permit, asked>>

--------------------------------------------------------------------------------

NoRequest == [url |-> [valid |-> FALSE, dns |-> FALSE, ping |-> FALSE], by |-> Waiter]

\* A message was queued in this session, in an earlier session of this connection or
\* before this connection was made; "late" is one whose sender saw Connected but
\* queued it when the connection was not connected any more.
Messages == [origin : {"session", "connection", "past"}, late : BOOLEAN]
NoMessage == [origin |-> "session", late |-> FALSE]

\* What becomes of the queued messages when the server knows nothing of the client:
\* after a stateless reconnect, and when a connection is made.
InEarlierSession(q) ==
    [i \in DOMAIN q |-> [q[i] EXCEPT !.origin = IF @ = "session" THEN "connection" ELSE @]]
InPastConnection(q) == [i \in DOMAIN q |-> [q[i] EXCEPT !.origin = "past"]]

ConnectPcs   == {"resolving", "pinging", "connecting"}
ReconnectPcs == {"reconnect", "reconnectStateless", "backoff"}
SelectPcs    == ConnectPcs \cup ReconnectPcs \cup {"idle"}

\* connectWait has its state callback installed.
CallbackSet == userPc[Waiter] \in {"preConnect", "connect", "waiting"}

\* Mutant: connectWait is told of success only.
PublishSuccess(s) ==
    /\ connState' = s
    /\ permit' = (permit \/ (CallbackSet /\ connState # s /\ s = "Connected"))

\* setState: publish the state, tell connectWait, and forget about reconnecting
\* once connected.  The other fields of m_data are left alone.
Publish(s) ==
    /\ connState' = s
    /\ permit' = (permit \/ (CallbackSet /\ connState # s /\ s \in {"Connected", "Disconnected"}))

SetState(s) ==
    /\ Publish(s)
    /\ IF s = "Connected" /\ connState # s
       THEN attempt' = 0 /\ tryStateless' = FALSE
       ELSE UNCHANGED <<attempt, tryStateless>>

\* Mutant: the request to disconnect survives the connection.
ResetDataOnly ==
    /\ socket' = FALSE
    /\ address' = FALSE
    /\ attempt' = 0
    /\ tryStateless' = FALSE
    /\ UNCHANGED disconnectReq

\* resetConnectionState, and setState(Disconnected) that follows it everywhere.
ResetData ==
    /\ socket' = FALSE
    /\ address' = FALSE
    /\ attempt' = 0
    /\ tryStateless' = FALSE
    /\ disconnectReq' = FALSE

BackToDisconnected == ResetData /\ Publish("Disconnected")

\* threadCancelConnection, at the end of the worker's turn.
Cancel ==
    /\ BackToDisconnected
    /\ pc' = "loop"
    /\ waiter' = "off"

\* Mutant: the connection data is reset before reconnecting, too.
OnFatalErrorReset ==
    /\ lastError' = TRUE
    /\ \/ /\ connState = "Connected"
          /\ msgChan' = <<>>
          /\ ResetData
          /\ Publish("Reconnecting")
       \/ /\ BackToDisconnected
          /\ UNCHANGED msgChan

\* Mutant: reconnect from any state.
OnFatalErrorAlways ==
    /\ lastError' = TRUE
    /\ \/ /\ msgChan' = <<>>
          /\ SetState("Reconnecting")
          /\ UNCHANGED <<socket, address, disconnectReq>>
       \/ /\ BackToDisconnected
          /\ UNCHANGED msgChan

\* onFatalError; the user's callback decides whether to reconnect.
OnFatalError ==
    /\ lastError' = TRUE
    /\ \/ /\ connState = "Connected"
          /\ msgChan' = <<>>
          /\ SetState("Reconnecting")
          /\ UNCHANGED <<socket, address, disconnectReq>>
       \/ /\ BackToDisconnected
          /\ UNCHANGED msgChan

--------------------------------------------------------------------------------
(* The worker: Disconnected, and an attempt to connect *)

\* The switch of workerThreadLoop is entered again and again.
EnterDisconnected ==
    /\ pc = "loop"
    /\ connState = "Disconnected"
    /\ pc' = "recvConnect"
    /\ UNCHANGED <<connState, chanVars, notifyVars, lastError, target, candidates, current,
                   dataVars, userVars, permit, asked>>

\* A phase of threadConnect starts with its setState and suspends.
StartPhase(url, resolved, pinged) ==
    IF url.dns /\ ~resolved
    THEN pc' = "resolving" /\ Publish("DnsResolving") /\ candidates' = 0
    ELSE IF url.ping /\ ~pinged
    THEN pc' = "pinging" /\ Publish("Pinging") /\ candidates' = 0
    ELSE pc' = "connecting" /\ Publish("Connecting") /\ candidates' \in 1..MaxCandidates

\* threadConnect returned an error: onFatalError, and the channel is drained.
ConnectFailed ==
    /\ lastError' = TRUE
    /\ BackToDisconnected
    /\ msgChan' = <<>>
    /\ pc' = "loop"
    /\ waiter' = "off"
    /\ candidates' = 0

\* A request arrives.  An invalid URL fails at once; otherwise the old data is
\* reset and the first phase begins, not yet listening to disconnect().
RecvUrl ==
    /\ pc = "recvConnect"
    /\ connectChan # <<>>
    /\ connectChan' = Tail(connectChan)
    /\ target' = Head(connectChan)
    /\ asked' = FALSE
    /\ \/ /\ ~Head(connectChan).url.valid
          /\ ConnectFailed
       \/ /\ Head(connectChan).url.valid
          /\ ResetData
          /\ StartPhase(Head(connectChan).url, FALSE, FALSE)
          /\ waiter' = "off"
          /\ UNCHANGED <<msgChan, lastError>>
    /\ UNCHANGED <<taskWake, current, userVars>>

\* The select polls m_disconnectNotify.notified() for the first time.
Arm ==
    /\ pc \in SelectPcs
    /\ waiter = "off"
    /\ waiter' = "armed"
    /\ UNCHANGED <<connState, chanVars, disconnectReq, taskWake, lastError, workVars,
                   dataVars, userVars, permit, asked>>

\* threadConnectDomain: the name has addresses, or none.
Resolved ==
    /\ pc = "resolving"
    /\ waiter # "off"
    /\ \/ /\ StartPhase(target.url, TRUE, FALSE)
          /\ UNCHANGED <<msgChan, lastError, waiter, disconnectReq, dataVars>>
       \/ ConnectFailed
    /\ UNCHANGED <<connectChan, taskWake, target, current, userVars, asked>>

\* threadPingCandidates: with or without answers there is something to try.
Pinged ==
    /\ pc = "pinging"
    /\ waiter # "off"
    /\ StartPhase(target.url, TRUE, TRUE)
    /\ UNCHANGED <<chanVars, notifyVars, lastError, target, current, dataVars,
                   userVars, asked>>

\* threadFinalConnect: one combination after the other, until one works.
TryCandidate ==
    /\ pc = "connecting"
    /\ waiter # "off"
    /\ \/ /\ candidates > 1
          /\ candidates' = candidates - 1
          /\ UNCHANGED <<connState, msgChan, disconnectReq, waiter, lastError, pc,
                         dataVars, permit>>
       \/ /\ candidates = 1
          /\ ConnectFailed
       \/ /\ socket' = TRUE
          /\ address' = TRUE
          /\ SetState("Connected")
          /\ msgChan' = InPastConnection(msgChan)
          /\ candidates' = 0
          /\ pc' = "established"
          /\ waiter' = "off"
          /\ UNCHANGED <<disconnectReq, lastError>>
    /\ UNCHANGED <<connectChan, taskWake, target, current, userVars, asked>>

\* Mutant: the channel is not drained.
EstablishedUndrained ==
    /\ pc = "established"
    /\ lastError' = FALSE
    /\ pc' = "loop"
    /\ UNCHANGED <<connState, chanVars, notifyVars, target, candidates, current,
                   dataVars, userVars, permit, asked>>

\* Connected is visible to everyone; the channel is drained only now.
Established ==
    /\ pc = "established"
    /\ lastError' = FALSE
    /\ msgChan' = <<>>
    /\ pc' = "loop"
    /\ UNCHANGED <<connState, connectChan, notifyVars, target, candidates, current,
                   dataVars, userVars, permit, asked>>

\* disconnect() during the attempt: drop the future and cancel.
CancelConnect ==
    /\ pc \in ConnectPcs
    /\ waiter = "woken"
    /\ Cancel
    /\ candidates' = 0
    /\ UNCHANGED <<chanVars, taskWake, lastError, target, current, userVars, asked>>

--------------------------------------------------------------------------------
(* The worker: Connected *)

\* Mutant: the flag is not looked at, only the notification.
EnterConnectedBlindly ==
    /\ pc = "loop"
    /\ connState = "Connected"
    /\ pc' = "idle"
    /\ UNCHANGED <<connState, chanVars, notifyVars, lastError, target, candidates, current,
                   dataVars, userVars, permit, asked>>

EnterConnected ==
    /\ pc = "loop"
    /\ connState = "Connected"
    /\ \/ /\ disconnectReq
          /\ SetState("Closing")
          /\ UNCHANGED pc
       \/ /\ ~disconnectReq
          /\ pc' = "idle"
          /\ UNCHANGED <<connState, permit, attempt, tryStateless>>
    /\ UNCHANGED <<chanVars, notifyVars, lastError, target, candidates, current, socket,
                   address, userVars, asked>>

\* The select was won by a message to send.
SendNext ==
    /\ pc = "idle"
    /\ waiter # "off"
    /\ msgChan # <<>>
    /\ msgChan' = Tail(msgChan)
    /\ current' = Head(msgChan)
    /\ pc' = "sending"
    /\ waiter' = "off"
    /\ UNCHANGED <<connState, connectChan, disconnectReq, taskWake, lastError, target,
                   candidates, dataVars, userVars, permit, asked>>

\* The select was won by the transport's timer.
TimerFires ==
    /\ pc = "idle"
    /\ waiter # "off"
    /\ pc' = "busy"
    /\ waiter' = "off"
    /\ UNCHANGED <<connState, chanVars, disconnectReq, taskWake, lastError, target, candidates,
                   current, dataVars, userVars, permit, asked>>

\* What sendMessage, handleTimerExpiry or receiveMessage came back with: a result,
\* a recoverable error, or a fatal one (a server close message included).
SocketOutcome ==
    /\ \/ UNCHANGED <<connState, msgChan, lastError, disconnectReq, dataVars, permit>>
       \/ /\ lastError' = TRUE
          /\ UNCHANGED <<connState, msgChan, disconnectReq, dataVars, permit>>
       \/ OnFatalError
    /\ pc' = "loop"
    /\ waiter' = "off"
    /\ current' = NoMessage
    /\ UNCHANGED <<connectChan, taskWake, target, candidates, userVars, asked>>

SocketDone ==
    /\ pc \in {"sending", "busy"}
    /\ SocketOutcome

Receive ==
    /\ pc = "idle"
    /\ waiter # "off"
    /\ SocketOutcome

\* The select was won by disconnect().
DisconnectSeen ==
    /\ pc = "idle"
    /\ waiter = "woken"
    /\ SetState("Closing")
    /\ pc' = "loop"
    /\ waiter' = "off"
    /\ UNCHANGED <<chanVars, disconnectReq, taskWake, lastError, target, candidates, current,
                   socket, address, userVars, asked>>

\* The select was won by simulateConnectionDrop().
TaskWoken ==
    /\ pc = "idle"
    /\ waiter # "off"
    /\ taskWake
    /\ taskWake' = FALSE
    /\ pc' = "loop"
    /\ waiter' = "off"
    /\ UNCHANGED <<connState, chanVars, disconnectReq, lastError, target, candidates, current,
                   dataVars, userVars, permit, asked>>

--------------------------------------------------------------------------------
(* The worker: Reconnecting and Closing *)

\* The request flag first, then the number of attempts.
EnterReconnecting ==
    /\ pc = "loop"
    /\ connState = "Reconnecting"
    /\ \/ /\ disconnectReq \/ attempt + 1 >= ReconnectLimit
          /\ Cancel
       \/ /\ ~disconnectReq
          /\ attempt + 1 < ReconnectLimit
          /\ attempt' = attempt + 1
          /\ pc' = IF tryStateless THEN "reconnectStateless" ELSE "reconnect"
          /\ UNCHANGED <<connState, permit, socket, address, tryStateless, disconnectReq, waiter>>
    /\ UNCHANGED <<chanVars, taskWake, lastError, target, candidates, current, userVars, asked>>

\* threadTryReconnect: success, a rejection by the server, or any other failure.  A
\* stateless reconnect is a new session, and the channel is not drained.
ReconnectDone ==
    /\ pc \in {"reconnect", "reconnectStateless"}
    /\ waiter = "armed"
    /\ address                                       \* QN_ASSERT
    /\ \/ /\ socket' = TRUE
          /\ SetState("Connected")
          /\ msgChan' = IF pc = "reconnectStateless" THEN InEarlierSession(msgChan) ELSE msgChan
          /\ pc' = "loop"
          /\ waiter' = "off"
       \/ /\ pc = "reconnect"
          /\ tryStateless' = TRUE
          /\ pc' = "loop"
          /\ waiter' = "off"
          /\ UNCHANGED <<connState, permit, msgChan, socket, attempt>>
       \/ /\ pc' = "backoff"
          /\ UNCHANGED <<connState, permit, msgChan, socket, attempt, tryStateless, waiter>>
    /\ UNCHANGED <<connectChan, disconnectReq, taskWake, lastError, target, candidates, current,
                   address, userVars, asked>>

BackoffOver ==
    /\ pc = "backoff"
    /\ waiter = "armed"
    /\ pc' = "loop"
    /\ waiter' = "off"
    /\ UNCHANGED <<connState, chanVars, disconnectReq, taskWake, lastError, target, candidates,
                   current, dataVars, userVars, permit, asked>>

CancelReconnect ==
    /\ pc \in ReconnectPcs
    /\ waiter = "woken"
    /\ Cancel
    /\ UNCHANGED <<chanVars, taskWake, lastError, target, candidates, current, userVars, asked>>

EnterClosing ==
    /\ pc = "loop"
    /\ connState = "Closing"
    /\ socket
    /\ pc' = "closing"
    /\ UNCHANGED <<connState, chanVars, notifyVars, lastError, target, candidates, current,
                   dataVars, userVars, permit, asked>>

\* The close message was sent (or not) and the socket closed, or failed to.
CloseDone ==
    /\ pc = "closing"
    /\ \/ /\ OnFatalError
          /\ pc' = "loop"
       \/ /\ pc' = "waitClosed"
          /\ UNCHANGED <<connState, msgChan, disconnectReq, lastError, dataVars, permit>>
    /\ UNCHANGED <<connectChan, waiter, taskWake, target, candidates, current, userVars, asked>>

\* isClosed() holds at last.
Closed ==
    /\ pc = "waitClosed"
    /\ Cancel
    /\ UNCHANGED <<chanVars, taskWake, lastError, target, candidates, current, userVars, asked>>

--------------------------------------------------------------------------------
(* The users *)

Call(op, bound) ==
    /\ calls[op] < bound
    /\ calls' = [calls EXCEPT ![op] = @ + 1]

Goto(u, to) == userPc' = [userPc EXCEPT ![u] = to]

\* connectWait installs its callback before it calls connect.
ConnectWait(u) ==
    /\ u = Waiter
    /\ userPc[u] = "idle"
    /\ Call("connect", MaxConnect)
    /\ Goto(u, "preConnect")
    /\ permit' = FALSE
    /\ UNCHANGED <<connState, chanVars, notifyVars, lastError, workVars, dataVars, asked>>

\* connect reads the state ...
ConnectCheck(u) ==
    /\ IF u = Waiter THEN userPc[u] = "preConnect" /\ UNCHANGED calls
       ELSE userPc[u] = "idle" /\ Call("connect", MaxConnect)
    /\ Goto(u, IF connState = "Disconnected" THEN "connect" ELSE "idle")
    /\ UNCHANGED <<connState, chanVars, notifyVars, lastError, workVars, dataVars, permit, asked>>

\* ... and then sends the destination to the worker, if there is room.
ConnectSend(u) ==
    /\ userPc[u] = "connect"
    /\ \/ /\ Len(connectChan) < ConnectCap
          /\ \E url \in Urls : connectChan' = Append(connectChan, [url |-> url, by |-> u])
          /\ Goto(u, IF u = Waiter THEN "waiting" ELSE "idle")
       \/ /\ Len(connectChan) >= ConnectCap
          /\ Goto(u, "idle")
          /\ UNCHANGED connectChan
    /\ UNCHANGED <<connState, msgChan, notifyVars, lastError, workVars, dataVars, calls, permit, asked>>

\* connectWait was notified and returns.
ConnectWaitReturn(u) ==
    /\ u = Waiter
    /\ userPc[u] = "waiting"
    /\ permit
    /\ permit' = FALSE
    /\ Goto(u, "idle")
    /\ UNCHANGED <<connState, chanVars, notifyVars, lastError, workVars, dataVars, calls, asked>>

\* sendMsgToThread reads the state ...
SendCheck(u) ==
    /\ userPc[u] = "idle"
    /\ Call("send", MaxSend)
    /\ connState = "Connected"
    /\ Goto(u, "send")
    /\ UNCHANGED <<connState, chanVars, notifyVars, lastError, workVars, dataVars, permit, asked>>

\* ... and then queues the message, if there is room.
SendPush(u) ==
    /\ userPc[u] = "send"
    /\ \/ /\ Len(msgChan) < MsgCap
          /\ msgChan' = Append(msgChan, [origin |-> "session", late |-> connState # "Connected"])
       \/ /\ Len(msgChan) >= MsgCap
          /\ UNCHANGED msgChan
    /\ Goto(u, "idle")
    /\ UNCHANGED <<connState, connectChan, notifyVars, lastError, workVars, dataVars, calls, permit, asked>>

\* disconnect raises the flag ...
Disconnect(u) ==
    /\ userPc[u] = "idle"
    /\ Call("disconnect", MaxDisconnect)
    /\ disconnectReq' = TRUE
    /\ asked' = TRUE
    /\ Goto(u, "notify")
    /\ UNCHANGED <<connState, chanVars, waiter, taskWake, lastError, workVars, dataVars, permit>>

\* ... and then wakes the worker, if the worker listens: nothing is stored.
DisconnectNotify(u) ==
    /\ userPc[u] = "notify"
    /\ waiter' = IF waiter = "armed" THEN "woken" ELSE waiter
    /\ asked' = TRUE
    /\ Goto(u, "idle")
    /\ UNCHANGED <<connState, chanVars, disconnectReq, taskWake, lastError, workVars, dataVars,
                   calls, permit>>

\* simulateConnectionDrop runs onFatalError on the user's thread: it records the
\* error and reads the state ...
DropCheck(u) ==
    /\ userPc[u] = "idle"
    /\ Call("drop", MaxDrop)
    /\ lastError' = TRUE
    /\ Goto(u, IF connState = "Connected" THEN "dropConnected" ELSE "dropOther")
    /\ UNCHANGED <<connState, chanVars, notifyVars, workVars, dataVars, permit, asked>>

\* ... and acts on what it read, whatever the worker did meanwhile.
DropApply(u) ==
    /\ \/ /\ userPc[u] = "dropConnected"
          /\ msgChan' = <<>>
          /\ SetState("Reconnecting")
          /\ UNCHANGED <<socket, address, disconnectReq>>
       \/ /\ userPc[u] \in {"dropConnected", "dropOther"}
          /\ BackToDisconnected
          /\ UNCHANGED msgChan
    /\ taskWake' = TRUE
    /\ Goto(u, "idle")
    /\ UNCHANGED <<connectChan, waiter, lastError, workVars, calls, asked>>

\* destroy aborts the worker wherever it is.
Destroy(u) ==
    /\ userPc[u] = "idle"
    /\ pc # "gone"
    /\ Call("destroy", MaxDestroy)
    /\ pc' = "gone"
    /\ waiter' = "off"
    /\ UNCHANGED <<connState, chanVars, disconnectReq, taskWake, lastError, target, candidates,
                   current, dataVars, userPc, permit, asked>>

--------------------------------------------------------------------------------

Init ==
    /\ connState = "Disconnected"
    /\ connectChan = <<>>
    /\ msgChan = <<>>
    /\ disconnectReq = FALSE
    /\ waiter = "off"
    /\ taskWake = FALSE
    /\ lastError = FALSE
    /\ pc = "loop"
    /\ target = NoRequest
    /\ candidates = 0
    /\ current = NoMessage
    /\ socket = FALSE
    /\ address = FALSE
    /\ attempt = 0
    /\ tryStateless = FALSE
    /\ userPc = [u \in Users |-> "idle"]
    /\ permit = FALSE
    /\ calls = [op \in {"connect", "send", "disconnect", "drop", "destroy"} |-> 0]
    /\ asked = FALSE

\* The steps that wait for a call of the socket alone, ...
InSocket == SocketDone \/ CloseDone \/ Closed

\* ... and all the others: attempts and sleeps have a timeout, and a select has several
\* ways to go on.
Prompt ==
    \/ EnterDisconnected \/ RecvUrl \/ Arm \/ Resolved \/ Pinged \/ TryCandidate
    \/ Established \/ CancelConnect
    \/ EnterConnected \/ SendNext \/ TimerFires \/ Receive \/ DisconnectSeen
    \/ EnterReconnecting \/ ReconnectDone \/ BackoffOver \/ CancelReconnect
    \/ EnterClosing

Worker == Prompt \/ InSocket

User(u) ==
    \/ ConnectWait(u) \/ ConnectCheck(u) \/ ConnectSend(u) \/ ConnectWaitReturn(u)
    \/ SendCheck(u) \/ SendPush(u)
    \/ Disconnect(u) \/ DisconnectNotify(u)
    \/ Destroy(u)

Next == Worker \/ \E u \in Users : User(u)

Spec == Init /\ [][Next]_vars

\* simulateConnectionDrop is a debugging aid; DropSpec is a connection with which it is used.
Drop == TaskWoken \/ \E u \in Users : DropCheck(u) \/ DropApply(u)

DropSpec == Init /\ [][Next \/ Drop]_vars

--------------------------------------------------------------------------------
(* Fairness: the runtime polls the worker task whenever it can make progress,  *)
(* and a user thread that has entered a call goes on with it.  Attempts and    *)
(* sleeps end, by timeouts of their own; sendMessage, handleTimerExpiry and    *)
(* close have none, and a closed socket need not ever say so: nothing is       *)
(* assumed of InSocket.                                                        *)

Fairness ==
    /\ WF_vars(Prompt)
    /\ \A u \in Users :
          /\ WF_vars(ConnectSend(u))
          /\ WF_vars(ConnectWaitReturn(u))
          /\ WF_vars(DisconnectNotify(u))

FairSpec == Spec /\ Fairness

--------------------------------------------------------------------------------
(* Properties *)

States == {"Disconnected", "DnsResolving", "Pinging", "Connecting", "Connected",
           "Reconnecting", "Closing"}

Pcs == SelectPcs \cup {"loop", "recvConnect", "established", "sending", "busy",
                       "closing", "waitClosed", "gone"}

UserPcs == {"idle", "preConnect", "connect", "waiting", "send", "notify",
            "dropConnected", "dropOther"}

Requests == [url : [valid : BOOLEAN, dns : BOOLEAN, ping : BOOLEAN], by : Users]

\* Every variable has its type.
TypeOK ==
    /\ connState \in States
    /\ connectChan \in Seq(Requests)
    /\ msgChan \in Seq(Messages)
    /\ disconnectReq \in BOOLEAN
    /\ waiter \in {"off", "armed", "woken"}
    /\ taskWake \in BOOLEAN
    /\ lastError \in BOOLEAN
    /\ pc \in Pcs
    /\ target \in Requests
    /\ candidates \in 0..MaxCandidates
    /\ current \in Messages
    /\ socket \in BOOLEAN
    /\ address \in BOOLEAN
    /\ attempt \in 0..(ReconnectLimit - 1)
    /\ tryStateless \in BOOLEAN
    /\ userPc \in [Users -> UserPcs]
    /\ permit \in BOOLEAN
    /\ calls \in [{"connect", "send", "disconnect", "drop", "destroy"} -> Nat]
    /\ asked \in BOOLEAN

\* The worker never reaches for a socket that is not there: not while connected
\* or closing, and not for the connection id of the socket it reconnects.
WorkerHasSocket ==
    /\ pc \in {"established", "idle", "sending", "busy", "closing", "waitClosed"} => socket
    /\ pc = "reconnect" => socket
    /\ pc = "loop" /\ connState \in {"Connected", "Reconnecting", "Closing"} => socket

\* threadTryReconnect asserts, as an attempt starts, that it knows where to
\* reconnect to: nobody resets m_data under a worker that is about to reconnect.
ReconnectHasAddress ==
    pc \in {"reconnect", "reconnectStateless"} /\ waiter = "off" => address

\* "These are intermediary states and should never occur here": whichever way an
\* attempt ends, the loop is not entered again in the middle of one.
NoIntermediateState ==
    pc = "loop" => connState \notin {"DnsResolving", "Pinging", "Connecting"}

\* A connection is closed by its user only: a disconnect() from before the request
\* was taken, which "does nothing if disconnected", does not close it.
NoSpuriousClose ==
    connState = "Closing" => asked

\* The drains: what was queued in a session is sent in that session or not at all.  The
\* one way out: sendData saw Connected, its message was queued when onFatalError had
\* drained the channel already, and a stateless reconnect followed.
StaleNeverSent ==
    pc = "sending" =>
       \/ current.origin = "session"
       \/ current.origin = "connection" /\ current.late

\* After a stateless reconnect "an entirely new connection has to be made, and with it,
\* some connection state has to be reset" (Connection.hpp:228): nothing queued before it
\* is sent after it.
SentInOwnSession ==
    pc = "sending" => current.origin = "session"

\* When connectWait is about to report a failure, there is an error to report,
\* unless somebody called disconnect().
FailureHasError ==
    /\ userPc[Waiter] = "waiting"
    /\ permit
    /\ connState # "Connected"
    /\ calls["disconnect"] = 0
    => lastError

Lifecycle == INSTANCE ConnectionLifecycle

\* What the states show is the life of a connection.
LifecycleRefinement == Lifecycle!Spec

\* The worker awaits a call of the socket, or polls isClosed, with nothing else to wake it.
SocketCalls == {"sending", "busy", "closing", "waitClosed"}

\* A connection that is asked to disconnect does so, whatever the worker is doing
\* when the flag is raised or the notification is missed, unless a call of the socket
\* never ends.
DisconnectHonoured ==
    (disconnectReq /\ connState # "Disconnected") ~>
       (connState = "Disconnected" \/ pc = "gone" \/ [](pc \in SocketCalls))

\* disconnect() "disconnects from the server, or aborts the current connection attempt"
\* (Connection.hpp:215), whatever the worker is waiting for.
DisconnectEnds ==
    (disconnectReq /\ connState # "Disconnected") ~>
       (connState = "Disconnected" \/ pc = "gone")

\* connectWait is waiting, and its request with a URL that parses is in the channel.
WaitsForValid ==
    /\ userPc[Waiter] = "waiting"
    /\ \E i \in DOMAIN connectChan : connectChan[i].by = Waiter /\ connectChan[i].url.valid

\* connectWait returns, whatever becomes of its attempt and of the ones before it, if its
\* URL parses.
ConnectWaitReturns ==
    WaitsForValid ~> (userPc[Waiter] # "waiting" \/ pc = "gone")

\* connectWait does not return before the attempt it asked for is over.
WaitsForOutcome ==
    userPc[Waiter] = "idle" =>
       /\ \A i \in DOMAIN connectChan : connectChan[i].by # Waiter
       /\ pc \in ConnectPcs => target.by # Waiter

Queued(q) == Len(SelectSeq(q, LAMBDA m : m.origin = "session"))

\* sendData returned true for a message: while the connection stays up, the message
\* leaves the queue only to be sent.
NoDropWhileConnected ==
    [][ connState = "Connected" /\ connState' = "Connected" /\ pc' # "sending"
          => Queued(msgChan') >= Queued(msgChan) ]_vars

================================================================================
