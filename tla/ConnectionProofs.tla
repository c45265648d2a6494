---------------------------- MODULE ConnectionProofs ---------------------------
(***************************************************************************)
(* Safety of the connection's worker and its users, proved for any number  *)
(* of user threads, calls, messages, candidates and reconnect attempts.    *)
(*                                                                         *)
(* Spec leaves out simulateConnectionDrop, which runs the worker's error   *)
(* handling on a user thread: what is proved here does not hold with it.   *)
(***************************************************************************)
EXTENDS Connection, TLAPS

--------------------------------------------------------------------------------
(* The inductive invariant *)

\* Only the worker changes the state, so its place determines the state.
PcInv ==
    /\ pc = "recvConnect" => connState = "Disconnected"
    /\ pc = "resolving" => connState = "DnsResolving"
    /\ pc = "pinging" => connState = "Pinging"
    /\ pc = "connecting" => connState = "Connecting"
    /\ pc \in {"established", "idle", "sending", "busy"} => connState = "Connected"
    /\ pc \in ReconnectPcs => connState = "Reconnecting"
    /\ pc \in {"closing", "waitClosed"} => connState = "Closing"
    /\ pc = "loop" => connState \in {"Disconnected", "Connected", "Reconnecting", "Closing"}

\* A connection that is or was up has its socket and its address.
SocketInv ==
    connState \in {"Connected", "Reconnecting", "Closing"} => socket /\ address

\* Flag and wakeup come from a disconnect() since the request was taken.
AskedInv ==
    /\ disconnectReq => asked
    /\ waiter = "woken" => asked
    /\ connState = "Closing" => asked

\* Queued in this session, or late in an earlier session of this connection.
Sendable(m) ==
    \/ m.origin = "session"
    \/ m.origin = "connection" /\ m.late

\* Outside the window between Connected and the drain, all messages in the channel may
\* be sent; those queued since the connection was lost are late.
QueueInv ==
    /\ pc \notin {"established", "gone"} =>
          \A i \in 1..Len(msgChan) :
             /\ Sendable(msgChan[i])
             /\ connState = "Reconnecting" => msgChan[i].late
    /\ pc = "sending" => Sendable(current)

\* Without a disconnect(), every way out of Connected records an error.
ErrorInv ==
    calls["disconnect"] = 0 =>
       /\ ~disconnectReq
       /\ waiter # "woken"
       /\ \A u \in Users : userPc[u] # "notify"
       /\ connState # "Closing"
       /\ connState = "Reconnecting" => lastError
       /\ permit /\ connState # "Connected" => lastError

IInv ==
    /\ TypeOK
    /\ PcInv
    /\ SocketInv
    /\ AskedInv
    /\ QueueInv
    /\ ErrorInv

LEMMA InitIInv == Init => IInv
  <1> SUFFICES ASSUME Init PROVE IInv
    OBVIOUS
  <1> USE ConnectionAssumption DEF Init
  <1>1. TypeOK
    <2>1. NoRequest \in Requests
      BY DEF NoRequest, Requests
    <2>2. /\ calls \in [{"connect", "send", "disconnect", "drop", "destroy"} -> Nat]
          /\ userPc \in [Users -> UserPcs]
      BY DEF UserPcs
    <2>3. /\ pc \in Pcs /\ connState \in States
          /\ connectChan \in Seq(Requests) /\ msgChan \in Seq(Messages)
          /\ candidates \in 0..MaxCandidates /\ attempt \in 0..(ReconnectLimit - 1)
          /\ current \in Messages
      BY DEF Pcs, States, NoMessage, Messages
    <2> QED BY <2>1, <2>2, <2>3 DEF TypeOK
  <1>2. PcInv /\ SocketInv /\ AskedInv
    BY DEF PcInv, SocketInv, AskedInv, ReconnectPcs
  <1>3. QueueInv /\ ErrorInv
    BY DEF QueueInv, ErrorInv
  <1> QED BY <1>1, <1>2, <1>3 DEF IInv

--------------------------------------------------------------------------------
(* What the shared pieces of the steps do *)

LEMMA PublishFacts ==
    ASSUME TypeOK, NEW s \in States, Publish(s)
    PROVE  /\ connState' = s
           /\ permit' \in BOOLEAN
           /\ permit' => permit \/ s \in {"Connected", "Disconnected"}
  BY Zenon DEF Publish, TypeOK

LEMMA SetStateFacts ==
    ASSUME TypeOK, NEW s \in States, SetState(s)
    PROVE  /\ connState' = s
           /\ permit' \in BOOLEAN
           /\ permit' => permit \/ s \in {"Connected", "Disconnected"}
           /\ attempt' \in 0..(ReconnectLimit - 1)
           /\ tryStateless' \in BOOLEAN
  <1>1. Publish(s) /\ (attempt' = 0 \/ attempt' = attempt)
                   /\ (tryStateless' = FALSE \/ tryStateless' = tryStateless)
    BY DEF SetState
  <1>2. attempt' \in 0..(ReconnectLimit - 1)
    BY <1>1, ConnectionAssumption DEF TypeOK
  <1>3. tryStateless' \in BOOLEAN
    BY <1>1, Zenon DEF TypeOK
  <1> QED BY <1>1, <1>2, <1>3, PublishFacts

LEMMA BackFacts ==
    ASSUME TypeOK, BackToDisconnected
    PROVE  /\ connState' = "Disconnected"
           /\ permit' \in BOOLEAN
           /\ socket' = FALSE /\ address' = FALSE /\ disconnectReq' = FALSE
           /\ attempt' \in 0..(ReconnectLimit - 1)
           /\ tryStateless' \in BOOLEAN
  <1>1. Publish("Disconnected") /\ ResetData /\ "Disconnected" \in States
    BY DEF BackToDisconnected, States
  <1>2. connState' = "Disconnected" /\ permit' \in BOOLEAN
    BY <1>1, PublishFacts
  <1>3. /\ socket' = FALSE /\ address' = FALSE /\ disconnectReq' = FALSE
        /\ tryStateless' = FALSE /\ attempt' = 0
    BY <1>1 DEF ResetData
  <1>4. 0 \in 0..(ReconnectLimit - 1)
    BY ConnectionAssumption
  <1> QED BY <1>2, <1>3, <1>4

\* An error is recorded, and the connection reconnects or ends.
LEMMA OnFatalErrorFacts ==
    ASSUME IInv, OnFatalError
    PROVE  /\ lastError' = TRUE
           /\ permit' \in BOOLEAN
           /\ attempt' \in 0..(ReconnectLimit - 1)
           /\ tryStateless' \in BOOLEAN
           /\ msgChan' = <<>> \/ msgChan' = msgChan
           /\ \/ /\ connState = "Connected" /\ connState' = "Reconnecting"
                 /\ msgChan' = <<>>
                 /\ UNCHANGED <<socket, address, disconnectReq>>
              \/ /\ connState' = "Disconnected"
                 /\ socket' = FALSE /\ address' = FALSE /\ disconnectReq' = FALSE
  <1>0. TypeOK /\ "Reconnecting" \in States
    BY DEF IInv, States
  <1>1. CASE /\ connState = "Connected"
             /\ msgChan' = <<>>
             /\ SetState("Reconnecting")
             /\ UNCHANGED <<socket, address, disconnectReq>>
    BY <1>0, <1>1, SetStateFacts DEF OnFatalError
  <1>2. CASE BackToDisconnected /\ UNCHANGED msgChan
    BY <1>0, <1>2, BackFacts DEF OnFatalError
  <1> QED BY <1>1, <1>2 DEF OnFatalError

\* The end of an attempt, of reconnecting and of closing.
LEMMA CancelInv ==
    ASSUME IInv, Cancel, pc \notin {"established", "gone"},
           calls["disconnect"] # 0 \/ lastError,
           candidates' \in 0..MaxCandidates,
           UNCHANGED <<chanVars, taskWake, lastError, target, current, userVars, asked>>
    PROVE  IInv'
  <1>0. TypeOK
    BY DEF IInv
  <1>1. /\ connState' = "Disconnected" /\ permit' \in BOOLEAN
        /\ socket' = FALSE /\ address' = FALSE /\ disconnectReq' = FALSE
        /\ attempt' \in 0..(ReconnectLimit - 1) /\ tryStateless' \in BOOLEAN
        /\ pc' = "loop" /\ waiter' = "off"
    BY <1>0, BackFacts DEF Cancel
  <1>2. UNCHANGED <<connectChan, msgChan, taskWake, lastError, target, current, userPc, calls,
                    asked>>
    BY DEF chanVars, userVars
  <1>3. TypeOK'
    BY <1>0, <1>1, <1>2 DEF TypeOK, States, Pcs
  <1>4. PcInv' /\ SocketInv' /\ AskedInv'
    BY <1>1, <1>2 DEF IInv, PcInv, SocketInv, AskedInv, ReconnectPcs
  <1>5. QueueInv'

    BY <1>1, <1>2 DEF IInv, QueueInv
  <1>6. ErrorInv'
    BY <1>1, <1>2 DEF IInv, ErrorInv
  <1> QED BY <1>3, <1>4, <1>5, <1>6 DEF IInv

--------------------------------------------------------------------------------
(* The worker: Disconnected, and an attempt to connect *)

LEMMA EnterDisconnectedInv ==
    ASSUME IInv, EnterDisconnected
    PROVE  IInv'
  <1>1. /\ pc = "loop" /\ connState = "Disconnected" /\ pc' = "recvConnect"
        /\ UNCHANGED <<connState, connectChan, msgChan, disconnectReq, waiter, taskWake,
                       lastError, target, candidates, current, socket, address, attempt,
                       tryStateless, userPc, calls, permit, asked>>
    BY DEF EnterDisconnected, chanVars, notifyVars, dataVars, userVars
  <1>2. TypeOK'
    BY <1>1 DEF IInv, TypeOK, Pcs
  <1>3. PcInv' /\ SocketInv' /\ AskedInv'
    BY <1>1 DEF IInv, PcInv, SocketInv, AskedInv, ReconnectPcs
  <1>4. QueueInv' /\ ErrorInv'
    BY <1>1 DEF IInv, QueueInv, ErrorInv
  <1> QED BY <1>2, <1>3, <1>4 DEF IInv

\* An attempt that failed leaves nothing behind.
LEMMA ConnectFailedInv ==
    ASSUME IInv, ConnectFailed,
           connectChan' \in Seq(Requests), target' \in Requests,
           asked' = asked \/ (pc = "recvConnect" /\ asked' = FALSE),
           UNCHANGED <<taskWake, current, userPc, calls>>
    PROVE  IInv'
  <1>0. TypeOK
    BY DEF IInv
  <1>1. /\ connState' = "Disconnected" /\ permit' \in BOOLEAN
        /\ socket' = FALSE /\ address' = FALSE /\ disconnectReq' = FALSE
        /\ attempt' \in 0..(ReconnectLimit - 1) /\ tryStateless' \in BOOLEAN
    BY <1>0, BackFacts DEF ConnectFailed
  <1>2. /\ lastError' = TRUE /\ msgChan' = <<>> /\ pc' = "loop" /\ waiter' = "off"
        /\ candidates' = 0
    BY DEF ConnectFailed
  <1>3. asked' \in BOOLEAN /\ candidates' \in 0..MaxCandidates
    <2>1. asked' \in BOOLEAN
      BY <1>0, Zenon DEF TypeOK
    <2> QED BY <2>1, <1>2, ConnectionAssumption
  <1>4. TypeOK'
    <2>1. msgChan' \in Seq(Messages) /\ lastError' \in BOOLEAN
      BY <1>2
    <2>2. pc' \in Pcs /\ connState' \in States /\ waiter' \in {"off", "armed", "woken"}
      BY <1>1, <1>2 DEF Pcs, States
    <2> QED BY <2>1, <2>2, <1>0, <1>1, <1>3 DEF TypeOK
  <1>5. PcInv' /\ SocketInv' /\ AskedInv'
    BY <1>1, <1>2 DEF IInv, PcInv, SocketInv, AskedInv, ReconnectPcs
  <1>6. QueueInv' /\ ErrorInv'
    BY <1>1, <1>2 DEF IInv, QueueInv, ErrorInv
  <1> QED BY <1>4, <1>5, <1>6 DEF IInv

\* A phase begins with the state that belongs to it.
LEMMA StartPhaseFacts ==
    ASSUME TypeOK, NEW url, NEW resolved, NEW pinged, StartPhase(url, resolved, pinged)
    PROVE  /\ candidates' \in 0..MaxCandidates
           /\ permit' \in BOOLEAN
           /\ permit' => permit
           /\ \/ pc' = "resolving" /\ connState' = "DnsResolving"
              \/ pc' = "pinging" /\ connState' = "Pinging"
              \/ pc' = "connecting" /\ connState' = "Connecting"
  <1>1. \E s \in {"DnsResolving", "Pinging", "Connecting"} :
           /\ Publish(s)
           /\ \/ pc' = "resolving" /\ s = "DnsResolving" /\ candidates' = 0
              \/ pc' = "pinging" /\ s = "Pinging" /\ candidates' = 0
              \/ pc' = "connecting" /\ s = "Connecting" /\ candidates' \in 1..MaxCandidates
    BY DEF StartPhase
  <1>2. candidates' \in 0..MaxCandidates
    BY <1>1, ConnectionAssumption
  <1>3. PICK s \in {"DnsResolving", "Pinging", "Connecting"} :
           /\ Publish(s)
           /\ \/ pc' = "resolving" /\ s = "DnsResolving"
              \/ pc' = "pinging" /\ s = "Pinging"
              \/ pc' = "connecting" /\ s = "Connecting"
    BY <1>1
  <1>4. s \in States /\ s \notin {"Connected", "Disconnected"}
    BY DEF States
  <1>5. connState' = s /\ permit' \in BOOLEAN /\ (permit' => permit)
    BY <1>3, <1>4, PublishFacts
  <1> QED BY <1>2, <1>3, <1>5

\* Going on to a phase keeps the invariant: no phase has a socket yet.
LEMMA PhaseInv ==
    ASSUME IInv, pc \in {"recvConnect", "resolving", "pinging"},
           NEW url, NEW resolved, NEW pinged, StartPhase(url, resolved, pinged),
           connectChan' \in Seq(Requests), target' \in Requests,
           \/ UNCHANGED <<disconnectReq, waiter, socket, address, attempt, tryStateless, asked>>
           \/ ResetData /\ waiter' = "off" /\ asked' = FALSE,
           UNCHANGED <<msgChan, lastError, taskWake, current, userPc, calls>>
    PROVE  IInv'
  <1>0. TypeOK
    BY DEF IInv
  <1>1. /\ candidates' \in 0..MaxCandidates
        /\ permit' \in BOOLEAN
        /\ permit' => permit
        /\ \/ pc' = "resolving" /\ connState' = "DnsResolving"
           \/ pc' = "pinging" /\ connState' = "Pinging"
           \/ pc' = "connecting" /\ connState' = "Connecting"
    BY <1>0, StartPhaseFacts
  <1>2. connState' \in States /\ pc' \in Pcs /\ connState # "Connected"
    BY <1>1 DEF States, Pcs, SelectPcs, ConnectPcs, IInv, PcInv
  <1>3. /\ disconnectReq' \in BOOLEAN /\ waiter' \in {"off", "armed", "woken"}
        /\ socket' \in BOOLEAN /\ address' \in BOOLEAN /\ tryStateless' \in BOOLEAN
        /\ asked' \in BOOLEAN
    BY <1>0, Zenon DEF TypeOK, ResetData
  <1>4. attempt' \in 0..(ReconnectLimit - 1)
    BY <1>0, ConnectionAssumption DEF TypeOK, ResetData
  <1>5. TypeOK'
    BY <1>0, <1>1, <1>2, <1>3, <1>4 DEF TypeOK
  <1>6. PcInv' /\ SocketInv'
    BY <1>1 DEF IInv, PcInv, SocketInv, ReconnectPcs
  <1>7. AskedInv'
    BY <1>1 DEF IInv, AskedInv, ResetData
  <1>8. QueueInv'
    BY <1>1 DEF IInv, QueueInv
  <1>9. ErrorInv'
    BY <1>1, <1>2 DEF IInv, ErrorInv, ResetData
  <1> QED BY <1>5, <1>6, <1>7, <1>8, <1>9 DEF IInv

LEMMA RecvUrlInv ==
    ASSUME IInv, RecvUrl
    PROVE  IInv'
  <1>1. /\ connectChan \in Seq(Requests) /\ connectChan # <<>>
        /\ connectChan' = Tail(connectChan) /\ target' = Head(connectChan)
        /\ pc = "recvConnect" /\ asked' = FALSE
        /\ UNCHANGED <<taskWake, current, userPc, calls>>
    BY DEF IInv, TypeOK, RecvUrl, userVars
  <1>2. connectChan' \in Seq(Requests) /\ target' \in Requests
    BY <1>1
  <1>3. CASE ConnectFailed
    BY <1>1, <1>2, <1>3, ConnectFailedInv
  <1>4. CASE /\ ResetData
             /\ StartPhase(Head(connectChan).url, FALSE, FALSE)
             /\ waiter' = "off"
             /\ UNCHANGED <<msgChan, lastError>>
    BY <1>1, <1>2, <1>4, PhaseInv
  <1> QED BY <1>3, <1>4 DEF RecvUrl

LEMMA ArmInv ==
    ASSUME IInv, Arm
    PROVE  IInv'
  <1>1. /\ waiter' = "armed"
        /\ UNCHANGED <<connState, connectChan, msgChan, disconnectReq, taskWake, pc,
                       lastError, target, candidates, current, socket, address, attempt,
                       tryStateless, userPc, calls, permit, asked>>
    BY DEF Arm, chanVars, dataVars, workVars, userVars
  <1>2. TypeOK'
    BY <1>1 DEF IInv, TypeOK
  <1>3. PcInv' /\ SocketInv' /\ AskedInv'
    BY <1>1 DEF IInv, PcInv, SocketInv, AskedInv, ReconnectPcs
  <1>4. QueueInv' /\ ErrorInv'
    BY <1>1 DEF IInv, QueueInv, ErrorInv
  <1> QED BY <1>2, <1>3, <1>4 DEF IInv

LEMMA ResolvedInv ==
    ASSUME IInv, Resolved
    PROVE  IInv'
  <1>1. /\ pc = "resolving"
        /\ connectChan \in Seq(Requests) /\ target \in Requests
        /\ UNCHANGED <<connectChan, taskWake, target, current, userPc, calls, asked>>
    BY DEF IInv, TypeOK, Resolved, userVars
  <1>2. CASE /\ StartPhase(target.url, TRUE, FALSE)
             /\ UNCHANGED <<msgChan, lastError, waiter, disconnectReq, dataVars>>
    <2>1. UNCHANGED <<msgChan, lastError, waiter, disconnectReq, socket, address, attempt,
                      tryStateless>>
      BY <1>2 DEF dataVars
    <2> QED BY <1>1, <1>2, <2>1, PhaseInv
  <1>3. CASE ConnectFailed
    BY <1>1, <1>3, ConnectFailedInv
  <1> QED BY <1>2, <1>3 DEF Resolved

LEMMA PingedInv ==
    ASSUME IInv, Pinged
    PROVE  IInv'
  <1>1. /\ pc = "pinging"
        /\ connectChan \in Seq(Requests) /\ target \in Requests
        /\ StartPhase(target.url, TRUE, TRUE)
        /\ UNCHANGED <<connectChan, msgChan, disconnectReq, waiter, taskWake, lastError, target,
                       current, socket, address, attempt, tryStateless, userPc, calls,
                       asked>>
    BY DEF IInv, TypeOK, Pinged, chanVars, notifyVars, dataVars, userVars
  <1> QED BY <1>1, PhaseInv

LEMMA IsASeq ==
    ASSUME NEW S, NEW n \in Nat, NEW f \in [1..n -> S]
    PROVE  f \in Seq(S) /\ Len(f) = n
  OBVIOUS

\* The channel keeps its messages when a session or a connection begins.
LEMMA InPastConnectionFacts ==
    ASSUME NEW q \in Seq(Messages)
    PROVE  InPastConnection(q) \in Seq(Messages)
  <1>1. DOMAIN q = 1..Len(q) /\ Len(q) \in Nat
    BY DEF Messages
  <1>2. InPastConnection(q) = [i \in 1..Len(q) |-> [q[i] EXCEPT !.origin = "past"]]
    BY <1>1 DEF InPastConnection
  <1>3. ASSUME NEW i \in 1..Len(q)
        PROVE  [q[i] EXCEPT !.origin = "past"] \in Messages
    <2>1. q[i] \in Messages
      OBVIOUS
    <2> QED BY <2>1 DEF Messages
  <1> HIDE DEF Messages
  <1>4. InPastConnection(q) \in [1..Len(q) -> Messages]
    BY <1>2, <1>3
  <1> QED BY <1>1, <1>4, IsASeq

LEMMA InEarlierSessionFacts ==
    ASSUME NEW q \in Seq(Messages)
    PROVE  /\ InEarlierSession(q) \in Seq(Messages)
           /\ Len(InEarlierSession(q)) = Len(q)
           /\ \A i \in 1..Len(q) :
                 /\ InEarlierSession(q)[i] \in Messages
                 /\ InEarlierSession(q)[i].late = q[i].late
                 /\ q[i].origin \in {"session", "connection"} =>
                       InEarlierSession(q)[i].origin = "connection"
  <1> DEFINE Older(m) == [m EXCEPT !.origin = IF @ = "session" THEN "connection" ELSE @]
  <1>1. DOMAIN q = 1..Len(q) /\ Len(q) \in Nat
    BY DEF Messages
  <1>2. InEarlierSession(q) = [i \in 1..Len(q) |-> Older(q[i])]
    BY <1>1 DEF InEarlierSession
  <1>3. ASSUME NEW m \in Messages
        PROVE  /\ Older(m) \in Messages /\ Older(m).late = m.late
               /\ m.origin \in {"session", "connection"} => Older(m).origin = "connection"
    BY DEF Messages
  <1>4. \A i \in 1..Len(q) : q[i] \in Messages
    OBVIOUS
  <1> HIDE DEF Older
  <1>5. InEarlierSession(q) \in [1..Len(q) -> Messages]
    BY <1>2, <1>3, <1>4
  <1>6. InEarlierSession(q) \in Seq(Messages) /\ Len(InEarlierSession(q)) = Len(q)
    BY <1>1, <1>5, IsASeq
  <1> QED BY <1>2, <1>3, <1>4, <1>6

LEMMA TryCandidateInv ==
    ASSUME IInv, TryCandidate
    PROVE  IInv'
  <1>0. TypeOK /\ candidates \in 0..MaxCandidates /\ MaxCandidates \in Nat
    BY ConnectionAssumption DEF IInv, TypeOK
  <1>1. /\ pc = "connecting"
        /\ connectChan \in Seq(Requests) /\ target \in Requests
        /\ UNCHANGED <<connectChan, taskWake, target, current, userPc, calls, asked>>
    BY <1>0 DEF TypeOK, TryCandidate, userVars
  <1>2. CASE /\ candidates > 1
             /\ candidates' = candidates - 1
             /\ UNCHANGED <<connState, msgChan, disconnectReq, waiter, lastError, pc,
                            dataVars, permit>>
    <2>1. candidates' \in 0..MaxCandidates
      BY <1>0, <1>2
    <2>2. UNCHANGED <<connState, msgChan, disconnectReq, waiter, lastError, pc, socket, address,
                      attempt, tryStateless, permit>>
      BY <1>2 DEF dataVars
    <2>3. TypeOK'
      BY <2>1, <2>2, <1>0, <1>1 DEF TypeOK
    <2>4. PcInv' /\ SocketInv' /\ AskedInv'
      BY <2>2, <1>1 DEF IInv, PcInv, SocketInv, AskedInv, ReconnectPcs
    <2>5. QueueInv' /\ ErrorInv'
      BY <2>2, <1>1 DEF IInv, QueueInv, ErrorInv
    <2> QED BY <2>3, <2>4, <2>5 DEF IInv
  <1>3. CASE ConnectFailed
    BY <1>1, <1>3, ConnectFailedInv
  <1>4. CASE /\ socket' = TRUE
             /\ address' = TRUE
             /\ SetState("Connected")
             /\ msgChan' = InPastConnection(msgChan)
             /\ candidates' = 0
             /\ pc' = "established"
             /\ waiter' = "off"
             /\ UNCHANGED <<disconnectReq, lastError>>
    <2>1. "Connected" \in States
      BY DEF States
    <2>2. /\ connState' = "Connected" /\ permit' \in BOOLEAN
          /\ attempt' \in 0..(ReconnectLimit - 1) /\ tryStateless' \in BOOLEAN
      BY <2>1, <1>0, <1>4, SetStateFacts
    <2>3. msgChan' \in Seq(Messages) /\ candidates' \in 0..MaxCandidates
      BY <1>0, <1>4, InPastConnectionFacts DEF TypeOK
    <2>4. TypeOK'
      BY <2>1, <2>2, <2>3, <1>0, <1>1, <1>4 DEF TypeOK, Pcs
    <2>5. PcInv' /\ SocketInv' /\ AskedInv'
      BY <2>2, <1>1, <1>4 DEF IInv, PcInv, SocketInv, AskedInv, ReconnectPcs
    <2>6. QueueInv' /\ ErrorInv'
      BY <2>2, <1>1, <1>4 DEF IInv, QueueInv, ErrorInv
    <2> QED BY <2>4, <2>5, <2>6 DEF IInv
  <1> QED BY <1>2, <1>3, <1>4 DEF TryCandidate

LEMMA EstablishedInv ==
    ASSUME IInv, Established
    PROVE  IInv'
  <1>1. /\ pc = "established" /\ pc' = "loop" /\ msgChan' = <<>> /\ lastError' = FALSE
        /\ UNCHANGED <<connState, connectChan, disconnectReq, waiter, taskWake, target,
                       candidates, current, socket, address, attempt,
                       tryStateless, userPc, calls, permit, asked>>
    BY DEF Established, notifyVars, dataVars, userVars
  <1>2. TypeOK'
    <2>1. msgChan' \in Seq(Messages)
      BY <1>1
    <2>2. lastError' \in BOOLEAN /\ pc' \in Pcs
      BY <1>1 DEF Pcs
    <2> QED BY <2>1, <2>2, <1>1 DEF IInv, TypeOK
  <1>3. PcInv' /\ SocketInv' /\ AskedInv'
    BY <1>1 DEF IInv, PcInv, SocketInv, AskedInv, ReconnectPcs
  <1>4. QueueInv' /\ ErrorInv'
    BY <1>1 DEF IInv, QueueInv, ErrorInv, PcInv
  <1> QED BY <1>2, <1>3, <1>4 DEF IInv

LEMMA CancelConnectInv ==
    ASSUME IInv, CancelConnect
    PROVE  IInv'
  <1>1. /\ pc \notin {"established", "gone"} /\ waiter = "woken" /\ Cancel
        /\ candidates' \in 0..MaxCandidates
        /\ UNCHANGED <<chanVars, taskWake, lastError, target, current, userVars, asked>>
    BY ConnectionAssumption DEF CancelConnect, ConnectPcs
  <1>2. calls["disconnect"] # 0
    BY <1>1 DEF IInv, ErrorInv
  <1> QED BY <1>1, <1>2, CancelInv

--------------------------------------------------------------------------------
(* The worker: Connected *)

LEMMA EnterConnectedInv ==
    ASSUME IInv, EnterConnected
    PROVE  IInv'
  <1>0. TypeOK /\ "Closing" \in States
    BY DEF IInv, States
  <1>1. /\ pc = "loop" /\ connState = "Connected"
        /\ UNCHANGED <<connectChan, msgChan, disconnectReq, waiter, taskWake, lastError, target,
                       candidates, current, socket, address, userPc, calls, asked>>
    BY DEF EnterConnected, chanVars, notifyVars, userVars
  <1>2. CASE disconnectReq /\ SetState("Closing") /\ UNCHANGED pc
    <2>1. /\ connState' = "Closing" /\ permit' \in BOOLEAN /\ (permit' => permit)
          /\ attempt' \in 0..(ReconnectLimit - 1) /\ tryStateless' \in BOOLEAN
      BY <1>0, <1>2, SetStateFacts
    <2>2. TypeOK'
      BY <2>1, <1>0, <1>1, <1>2 DEF TypeOK
    <2>3. PcInv' /\ SocketInv' /\ AskedInv'
      BY <2>1, <1>1, <1>2 DEF IInv, PcInv, SocketInv, AskedInv, ReconnectPcs
    <2>4. QueueInv' /\ ErrorInv'
      BY <2>1, <1>1, <1>2 DEF IInv, QueueInv, ErrorInv
    <2> QED BY <2>2, <2>3, <2>4 DEF IInv
  <1>3. CASE /\ ~disconnectReq /\ pc' = "idle"
             /\ UNCHANGED <<connState, permit, attempt, tryStateless>>
    <2>2. TypeOK'
      BY <1>0, <1>1, <1>3 DEF TypeOK, Pcs, SelectPcs
    <2>3. PcInv' /\ SocketInv' /\ AskedInv'
      BY <1>1, <1>3 DEF IInv, PcInv, SocketInv, AskedInv, ReconnectPcs
    <2>4. QueueInv' /\ ErrorInv'
      BY <1>1, <1>3 DEF IInv, QueueInv, ErrorInv
    <2> QED BY <2>2, <2>3, <2>4 DEF IInv
  <1> QED BY <1>2, <1>3 DEF EnterConnected

\* The message taken from the channel may be sent.
LEMMA SendNextInv ==
    ASSUME IInv, SendNext
    PROVE  IInv'
  <1>0. msgChan \in Seq(Messages)
    BY DEF IInv, TypeOK
  <1>1. /\ pc = "idle" /\ pc' = "sending" /\ waiter' = "off" /\ msgChan # <<>>
        /\ msgChan' = Tail(msgChan) /\ current' = Head(msgChan)
        /\ UNCHANGED <<connState, connectChan, disconnectReq, taskWake, lastError, target,
                       candidates, socket, address, attempt,
                       tryStateless, userPc, calls, permit, asked>>
    BY DEF SendNext, dataVars, userVars
  <1>2. /\ msgChan' \in Seq(Messages) /\ current' \in Messages
        /\ current' = msgChan[1] /\ 1 \in 1..Len(msgChan)
        /\ \A i \in 1..Len(msgChan') : i + 1 \in 1..Len(msgChan) /\ msgChan'[i] = msgChan[i + 1]
    BY <1>0, <1>1
  <1>3. TypeOK'
    BY <1>1, <1>2 DEF IInv, TypeOK, Pcs
  <1>4. PcInv' /\ SocketInv' /\ AskedInv'
    BY <1>1 DEF IInv, PcInv, SocketInv, AskedInv, ReconnectPcs
  <1>5. QueueInv'
    <2>1. \A i \in 1..Len(msgChan) : Sendable(msgChan[i])
      BY <1>1 DEF IInv, QueueInv
    <2>2. connState' = "Connected"
      BY <1>1 DEF IInv, PcInv
    <2> QED BY <2>1, <2>2, <1>1, <1>2 DEF QueueInv
  <1>6. ErrorInv'
    BY <1>1 DEF IInv, ErrorInv
  <1> QED BY <1>3, <1>4, <1>5, <1>6 DEF IInv

LEMMA TimerFiresInv ==
    ASSUME IInv, TimerFires
    PROVE  IInv'
  <1>1. /\ pc = "idle" /\ pc' = "busy" /\ waiter' = "off"
        /\ UNCHANGED <<connState, connectChan, msgChan, disconnectReq, taskWake, lastError,
                       target, candidates, current, socket, address, attempt,
                       tryStateless, userPc, calls, permit, asked>>
    BY DEF TimerFires, chanVars, dataVars, userVars
  <1>2. TypeOK'
    BY <1>1 DEF IInv, TypeOK, Pcs
  <1>3. PcInv' /\ SocketInv' /\ AskedInv'
    BY <1>1 DEF IInv, PcInv, SocketInv, AskedInv, ReconnectPcs
  <1>4. QueueInv' /\ ErrorInv'
    BY <1>1 DEF IInv, QueueInv, ErrorInv
  <1> QED BY <1>2, <1>3, <1>4 DEF IInv

\* The worker returns to its loop from a place where it was connected or closing.
LEMMA OutcomeInv ==
    ASSUME IInv, pc \in {"idle", "sending", "busy", "closing"},
           \/ UNCHANGED <<connState, msgChan, lastError, disconnectReq, dataVars, permit>>
           \/ /\ lastError' = TRUE
              /\ UNCHANGED <<connState, msgChan, disconnectReq, dataVars, permit>>
           \/ OnFatalError,
           pc' = "loop",
           waiter' = "off" \/ waiter' = waiter,
           current' \in Messages,
           UNCHANGED <<connectChan, taskWake, target, candidates, userPc, calls, asked>>
    PROVE  IInv'
  <1>0. TypeOK /\ connState \in {"Connected", "Closing"}
    BY DEF IInv, PcInv
  <1>1. /\ permit' \in BOOLEAN
        /\ attempt' \in 0..(ReconnectLimit - 1)
        /\ tryStateless' \in BOOLEAN
        /\ msgChan' = <<>> \/ msgChan' = msgChan
        /\ \/ /\ UNCHANGED <<connState, permit, socket, address, disconnectReq>>
              /\ lastError' = lastError \/ lastError' = TRUE
           \/ /\ connState = "Connected" /\ connState' = "Reconnecting"
              /\ lastError' = TRUE /\ msgChan' = <<>>
              /\ UNCHANGED <<socket, address, disconnectReq>>
           \/ /\ connState' = "Disconnected"
              /\ lastError' = TRUE
              /\ socket' = FALSE /\ address' = FALSE /\ disconnectReq' = FALSE
    <2>1. CASE OnFatalError
      BY <2>1, OnFatalErrorFacts
    <2>2. CASE /\ UNCHANGED <<connState, msgChan, disconnectReq, dataVars, permit>>
               /\ lastError' = lastError \/ lastError' = TRUE
      <3>1. UNCHANGED <<connState, msgChan, disconnectReq, socket, address, attempt,
                        tryStateless, permit>>
        BY <2>2 DEF dataVars
      <3> QED BY <2>2, <3>1, <1>0 DEF TypeOK
    <2> QED BY <2>1, <2>2
  <1>2. TypeOK'
    <2>1. msgChan' \in Seq(Messages)
      <3>1. msgChan \in Seq(Messages) /\ <<>> \in Seq(Messages)
        BY <1>0 DEF TypeOK
      <3> QED BY <3>1, <1>1
    <2>2. /\ socket' \in BOOLEAN /\ address' \in BOOLEAN /\ disconnectReq' \in BOOLEAN
          /\ lastError' \in BOOLEAN
      BY <1>0, <1>1, Zenon DEF TypeOK
    <2>3. connState' \in States /\ pc' \in Pcs /\ waiter' \in {"off", "armed", "woken"}
      BY <1>0, <1>1 DEF TypeOK, States, Pcs
    <2> QED BY <2>1, <2>2, <2>3, <1>0, <1>1 DEF TypeOK
  <1>3. PcInv' /\ SocketInv'
    BY <1>0, <1>1 DEF IInv, PcInv, SocketInv, ReconnectPcs
  <1>4. AskedInv'
    BY <1>0, <1>1 DEF IInv, AskedInv
  <1>5. QueueInv'
    <2>1. \A i \in 1..Len(msgChan) : Sendable(msgChan[i])
      BY DEF IInv, QueueInv
    <2>2. CASE msgChan' = msgChan /\ connState' # "Reconnecting"
      BY <2>1, <2>2 DEF QueueInv
    <2>3. CASE msgChan' = <<>>
      BY <2>3 DEF QueueInv
    <2> QED BY <2>2, <2>3, <1>0, <1>1
  <1>6. ErrorInv'
    BY <1>0, <1>1 DEF IInv, ErrorInv
  <1> QED BY <1>2, <1>3, <1>4, <1>5, <1>6 DEF IInv

LEMMA SocketOutcomeInv ==
    ASSUME IInv, pc \in {"idle", "sending", "busy"}, SocketOutcome
    PROVE  IInv'
  <1>1. /\ pc' = "loop" /\ waiter' = "off" /\ current' \in Messages
        /\ UNCHANGED <<connectChan, taskWake, target, candidates, userPc, calls, asked>>
    BY DEF SocketOutcome, NoMessage, Messages, userVars
  <1> QED BY <1>1, OutcomeInv DEF SocketOutcome

LEMMA DisconnectSeenInv ==
    ASSUME IInv, DisconnectSeen
    PROVE  IInv'
  <1>0. TypeOK /\ "Closing" \in States
    BY DEF IInv, States
  <1>1. /\ pc = "idle" /\ waiter = "woken" /\ pc' = "loop" /\ waiter' = "off"
        /\ SetState("Closing")
        /\ UNCHANGED <<connectChan, msgChan, disconnectReq, taskWake, lastError, target,
                       candidates, current, socket, address, userPc, calls, asked>>
    BY DEF DisconnectSeen, chanVars, userVars
  <1>2. /\ connState' = "Closing" /\ permit' \in BOOLEAN /\ (permit' => permit)
        /\ attempt' \in 0..(ReconnectLimit - 1) /\ tryStateless' \in BOOLEAN
    BY <1>0, <1>1, SetStateFacts
  <1>3. TypeOK'
    BY <1>0, <1>1, <1>2 DEF TypeOK, Pcs
  <1>4. PcInv' /\ SocketInv' /\ AskedInv'
    BY <1>1, <1>2 DEF IInv, PcInv, SocketInv, AskedInv, ReconnectPcs
  <1>5. QueueInv' /\ ErrorInv'
    BY <1>1, <1>2 DEF IInv, QueueInv, ErrorInv
  <1> QED BY <1>3, <1>4, <1>5 DEF IInv

--------------------------------------------------------------------------------
(* The worker: Reconnecting and Closing *)

LEMMA EnterReconnectingInv ==
    ASSUME IInv, EnterReconnecting
    PROVE  IInv'
  <1>0. TypeOK /\ attempt \in 0..(ReconnectLimit - 1) /\ ReconnectLimit \in Nat
        /\ candidates \in 0..MaxCandidates
    BY ConnectionAssumption DEF IInv, TypeOK
  <1>1. /\ pc = "loop" /\ connState = "Reconnecting"
        /\ UNCHANGED <<chanVars, taskWake, lastError, target, candidates, current, userVars,
                       asked>>
    BY DEF EnterReconnecting
  <1>2. CASE Cancel
    <2>1. calls["disconnect"] # 0 \/ lastError
      BY <1>1 DEF IInv, ErrorInv
    <2> QED BY <1>0, <1>1, <1>2, <2>1, CancelInv
  <1>3. CASE /\ attempt + 1 < ReconnectLimit
             /\ attempt' = attempt + 1
             /\ pc' = IF tryStateless THEN "reconnectStateless" ELSE "reconnect"
             /\ UNCHANGED <<connState, permit, socket, address, tryStateless, disconnectReq, waiter>>
    <2>1. attempt' \in 0..(ReconnectLimit - 1)
      BY <1>0, <1>3
    <2>2. pc' \in {"reconnect", "reconnectStateless"}
      BY <1>3
    <2>3. UNCHANGED <<connectChan, msgChan, taskWake, lastError, target, candidates, current,
                      userPc, calls, asked>>
      BY <1>1 DEF chanVars, userVars
    <2>4. TypeOK'
      BY <1>0, <1>3, <2>1, <2>2, <2>3 DEF TypeOK, Pcs, SelectPcs, ReconnectPcs
    <2>5. PcInv' /\ SocketInv' /\ AskedInv'
      BY <1>1, <1>3, <2>2, <2>3 DEF IInv, PcInv, SocketInv, AskedInv, ReconnectPcs
    <2>6. QueueInv' /\ ErrorInv'
      BY <1>1, <1>3, <2>2, <2>3 DEF IInv, QueueInv, ErrorInv
    <2> QED BY <2>4, <2>5, <2>6 DEF IInv
  <1> QED BY <1>2, <1>3 DEF EnterReconnecting

LEMMA ReconnectDoneInv ==
    ASSUME IInv, ReconnectDone
    PROVE  IInv'
  <1>0. TypeOK /\ "Connected" \in States /\ "Closing" \in States
    BY DEF IInv, States
  <1>1. /\ pc \in {"reconnect", "reconnectStateless"} /\ waiter = "armed" /\ address
        /\ UNCHANGED <<connectChan, disconnectReq, taskWake, lastError, target,
                       candidates, current, address, userPc, calls, asked>>
    BY DEF ReconnectDone, userVars
  <1>2. /\ permit' \in BOOLEAN /\ socket' \in BOOLEAN
        /\ attempt' \in 0..(ReconnectLimit - 1)
        /\ tryStateless' \in BOOLEAN
        /\ \/ /\ connState' = "Connected" /\ socket' = TRUE
              /\ msgChan' = msgChan \/ msgChan' = InEarlierSession(msgChan)
              /\ pc' = "loop" /\ waiter' = "off"
           \/ /\ UNCHANGED <<connState, permit, msgChan, socket>>
              /\ \/ pc' = "loop" /\ waiter' = "off"
                 \/ pc' = "backoff" /\ waiter' = waiter
    <2>1. CASE /\ socket' = TRUE /\ SetState("Connected") /\ pc' = "loop" /\ waiter' = "off"
               /\ msgChan' = IF pc = "reconnectStateless" THEN InEarlierSession(msgChan)
                                                           ELSE msgChan
      BY <2>1, <1>0, SetStateFacts
    <2>2. CASE /\ tryStateless' = TRUE /\ pc' = "loop" /\ waiter' = "off"
               /\ UNCHANGED <<connState, permit, msgChan, socket, attempt>>
      BY <2>2, <1>0 DEF TypeOK
    <2>3. CASE /\ pc' = "backoff"
               /\ UNCHANGED <<connState, permit, msgChan, socket, attempt, tryStateless, waiter>>
      BY <2>3, <1>0 DEF TypeOK
    <2> QED BY <2>1, <2>2, <2>3 DEF ReconnectDone
  <1>3. connState' \in States /\ pc' \in Pcs /\ waiter' \in {"off", "armed", "woken"}
    BY <1>0, <1>2 DEF TypeOK, Pcs, SelectPcs, ReconnectPcs
  <1>4. TypeOK'
    <2>1. msgChan \in Seq(Messages) /\ InEarlierSession(msgChan) \in Seq(Messages)
      BY <1>0, InEarlierSessionFacts DEF TypeOK
    <2>2. msgChan' \in Seq(Messages)
      BY <2>1, <1>2
    <2> QED BY <1>0, <1>1, <1>2, <1>3, <2>2 DEF TypeOK
  <1>5. PcInv' /\ SocketInv' /\ AskedInv'
    BY <1>1, <1>2 DEF IInv, PcInv, SocketInv, AskedInv, ReconnectPcs
  <1>6. QueueInv'
    <2>1. /\ msgChan \in Seq(Messages) /\ connState = "Reconnecting"
          /\ \A i \in 1..Len(msgChan) : Sendable(msgChan[i]) /\ msgChan[i].late
      BY <1>0, <1>1 DEF IInv, TypeOK, QueueInv, PcInv, ReconnectPcs
    <2>2. CASE msgChan' = msgChan
      BY <2>1, <2>2, <1>2 DEF QueueInv
    <2>3. CASE msgChan' = InEarlierSession(msgChan) /\ connState' = "Connected"
      <3>1. \A i \in 1..Len(msgChan') : Sendable(msgChan'[i])
        BY <2>1, <2>3, InEarlierSessionFacts DEF Sendable
      <3> QED BY <3>1, <2>3, <1>2 DEF QueueInv
    <2> QED BY <2>2, <2>3, <1>2
  <1>7. ErrorInv'
    BY <1>1, <1>2 DEF IInv, ErrorInv
  <1> QED BY <1>4, <1>5, <1>6, <1>7 DEF IInv

LEMMA BackoffOverInv ==
    ASSUME IInv, BackoffOver
    PROVE  IInv'
  <1>1. /\ pc = "backoff" /\ pc' = "loop" /\ waiter' = "off"
        /\ UNCHANGED <<connState, connectChan, msgChan, disconnectReq, taskWake, lastError,
                       target, candidates, current, socket, address, attempt,
                       tryStateless, userPc, calls, permit, asked>>
    BY DEF BackoffOver, chanVars, dataVars, userVars
  <1>2. TypeOK'
    BY <1>1 DEF IInv, TypeOK, Pcs
  <1>3. PcInv' /\ SocketInv' /\ AskedInv'
    BY <1>1 DEF IInv, PcInv, SocketInv, AskedInv, ReconnectPcs
  <1>4. QueueInv' /\ ErrorInv'
    BY <1>1 DEF IInv, QueueInv, ErrorInv
  <1> QED BY <1>2, <1>3, <1>4 DEF IInv

LEMMA CancelReconnectInv ==
    ASSUME IInv, CancelReconnect
    PROVE  IInv'
  <1>1. /\ pc \notin {"established", "gone"} /\ waiter = "woken" /\ Cancel
        /\ UNCHANGED <<chanVars, taskWake, lastError, target, candidates, current, userVars,
                       asked>>
    BY DEF CancelReconnect, ReconnectPcs
  <1>2. calls["disconnect"] # 0 /\ candidates \in 0..MaxCandidates
    BY <1>1 DEF IInv, ErrorInv, TypeOK
  <1> QED BY <1>1, <1>2, CancelInv

LEMMA EnterClosingInv ==
    ASSUME IInv, EnterClosing
    PROVE  IInv'
  <1>1. /\ pc = "loop" /\ connState = "Closing" /\ pc' = "closing"
        /\ UNCHANGED <<connState, connectChan, msgChan, disconnectReq, waiter, taskWake,
                       lastError, target, candidates, current, socket, address, attempt,
                       tryStateless, userPc, calls, permit, asked>>
    BY DEF EnterClosing, chanVars, notifyVars, dataVars, userVars
  <1>2. TypeOK'
    BY <1>1 DEF IInv, TypeOK, Pcs
  <1>3. PcInv' /\ SocketInv' /\ AskedInv'
    BY <1>1 DEF IInv, PcInv, SocketInv, AskedInv, ReconnectPcs
  <1>4. QueueInv' /\ ErrorInv'
    BY <1>1 DEF IInv, QueueInv, ErrorInv
  <1> QED BY <1>2, <1>3, <1>4 DEF IInv

LEMMA CloseDoneInv ==
    ASSUME IInv, CloseDone
    PROVE  IInv'
  <1>1. /\ pc = "closing" /\ current \in Messages
        /\ UNCHANGED <<connectChan, waiter, taskWake, target, candidates, current, userPc,
                       calls, asked>>
    BY DEF CloseDone, userVars, IInv, TypeOK
  <1>2. CASE OnFatalError /\ pc' = "loop"
    BY <1>1, <1>2, OutcomeInv
  <1>3. CASE /\ pc' = "waitClosed"
             /\ UNCHANGED <<connState, msgChan, disconnectReq, lastError, dataVars, permit>>
    <2>1. UNCHANGED <<connState, msgChan, disconnectReq, lastError, socket, address, attempt,
                      tryStateless, permit>>
      BY <1>3 DEF dataVars
    <2>2. TypeOK'
      BY <1>1, <1>3, <2>1 DEF IInv, TypeOK, Pcs
    <2>3. PcInv' /\ SocketInv' /\ AskedInv'
      BY <1>1, <1>3, <2>1 DEF IInv, PcInv, SocketInv, AskedInv, ReconnectPcs
    <2>4. QueueInv' /\ ErrorInv'
      BY <1>1, <1>3, <2>1 DEF IInv, QueueInv, ErrorInv
    <2> QED BY <2>2, <2>3, <2>4 DEF IInv
  <1> QED BY <1>2, <1>3 DEF CloseDone

LEMMA ClosedInv ==
    ASSUME IInv, Closed
    PROVE  IInv'
  <1>1. /\ pc = "waitClosed" /\ Cancel
        /\ UNCHANGED <<chanVars, taskWake, lastError, target, candidates, current, userVars,
                       asked>>
    BY DEF Closed
  <1>2. calls["disconnect"] # 0 /\ candidates \in 0..MaxCandidates
    BY <1>1 DEF IInv, ErrorInv, PcInv, TypeOK
  <1> QED BY <1>1, <1>2, CancelInv

--------------------------------------------------------------------------------
(* The users.  They move their own place, count their calls, fill the channels *)
(* and raise the disconnect flag; state, data and worker are not theirs.       *)

Ops == {"connect", "send", "disconnect", "drop", "destroy"}

LEMMA CallFacts ==
    ASSUME TypeOK, NEW op \in Ops, NEW bound, Call(op, bound)
    PROVE  /\ calls' \in [Ops -> Nat]
           /\ op # "disconnect" => calls'["disconnect"] = calls["disconnect"]
           /\ op = "disconnect" => calls'["disconnect"] # 0
  <1>1. calls \in [Ops -> Nat] /\ calls' = [calls EXCEPT ![op] = @ + 1]
    BY DEF TypeOK, Call, Ops
  <1>2. "disconnect" \in Ops
    BY DEF Ops
  <1> HIDE DEF Ops
  <1> QED BY <1>1, <1>2

LEMMA GotoFacts ==
    ASSUME TypeOK, NEW u \in Users, NEW to \in UserPcs, Goto(u, to)
    PROVE  /\ userPc' \in [Users -> UserPcs]
           /\ \A v \in Users : userPc'[v] = userPc[v] \/ userPc'[v] = to
  BY DEF TypeOK, Goto

\* The message that sendData queues.
Fresh == [origin |-> "session", late |-> connState # "Connected"]

\* A step of a user other than those of disconnect and destroy.
LEMMA UserStepInv ==
    ASSUME IInv,
           userPc' \in [Users -> UserPcs],
           \A v \in Users : \/ userPc'[v] = userPc[v]
                            \/ userPc'[v] # "notify",
           calls' \in [Ops -> Nat],
           calls'["disconnect"] = calls["disconnect"],
           connectChan' \in Seq(Requests),
           msgChan' = msgChan \/ msgChan' = Append(msgChan, Fresh),
           permit' = permit \/ permit' = FALSE,
           UNCHANGED <<connState, notifyVars, lastError, workVars, dataVars, asked>>
    PROVE  IInv'
  <1>0. TypeOK /\ msgChan \in Seq(Messages) /\ Fresh \in Messages
    BY DEF IInv, TypeOK, Fresh, Messages
  <1>1. UNCHANGED <<connState, disconnectReq, waiter, taskWake, lastError, pc, target, candidates,
                    current, socket, address, attempt, tryStateless, asked>>
    BY DEF notifyVars, workVars, dataVars
  <1>2. msgChan' \in Seq(Messages) /\ permit' \in BOOLEAN
    <2>1. Append(msgChan, Fresh) \in Seq(Messages)
      BY <1>0
    <2>2. permit' \in BOOLEAN
      BY <1>0, Zenon DEF TypeOK
    <2> QED BY <1>0, <2>1, <2>2
  <1>3. TypeOK'
    BY <1>0, <1>1, <1>2 DEF TypeOK, Ops
  <1>5. PcInv' /\ SocketInv' /\ AskedInv'
    BY <1>1 DEF IInv, PcInv, SocketInv, AskedInv, ReconnectPcs
  <1>6. QueueInv'
    <2>1. CASE msgChan' = msgChan
      BY <2>1, <1>1 DEF IInv, QueueInv
    <2>2. CASE msgChan' = Append(msgChan, Fresh)
      <3>1. \A i \in 1..Len(msgChan') :
               \/ i \in 1..Len(msgChan) /\ msgChan'[i] = msgChan[i]
               \/ msgChan'[i] = Fresh
        BY <2>2, <1>0
      <3>2. Sendable(Fresh) /\ (connState = "Reconnecting" => Fresh.late)
        BY DEF Fresh, Sendable
      <3> QED BY <3>1, <3>2, <1>1 DEF IInv, QueueInv
    <2> QED BY <2>1, <2>2
  <1>7. ErrorInv'
    BY <1>1 DEF IInv, ErrorInv
  <1> QED BY <1>3, <1>5, <1>6, <1>7 DEF IInv

LEMMA DisconnectInv ==
    ASSUME IInv, NEW u \in Users, Disconnect(u)
    PROVE  IInv'
  <1>0. TypeOK
    BY DEF IInv
  <1>1. /\ disconnectReq' = TRUE /\ asked' = TRUE
        /\ Call("disconnect", MaxDisconnect) /\ Goto(u, "notify")
        /\ UNCHANGED <<connState, connectChan, msgChan, waiter, taskWake, lastError, pc, target,
                       candidates, current, socket, address, attempt, tryStateless, permit>>
    BY DEF Disconnect, chanVars, workVars, dataVars
  <1>2. calls' \in [Ops -> Nat] /\ calls'["disconnect"] # 0
    BY <1>0, <1>1, CallFacts DEF Ops
  <1>3. /\ userPc' \in [Users -> UserPcs]
        /\ \A v \in Users : userPc'[v] = userPc[v] \/ userPc'[v] = "notify"
    BY <1>0, <1>1, GotoFacts DEF UserPcs
  <1>4. TypeOK'
    BY <1>0, <1>1, <1>2, <1>3 DEF TypeOK, Ops
  <1>5. PcInv' /\ SocketInv' /\ AskedInv'
    BY <1>1, <1>3 DEF IInv, PcInv, SocketInv, AskedInv, ReconnectPcs
  <1>6. QueueInv' /\ ErrorInv'
    BY <1>1, <1>2 DEF IInv, QueueInv, ErrorInv
  <1> QED BY <1>4, <1>5, <1>6 DEF IInv

LEMMA DisconnectNotifyInv ==
    ASSUME IInv, NEW u \in Users, DisconnectNotify(u)
    PROVE  IInv'
  <1>0. TypeOK
    BY DEF IInv
  <1>1. /\ userPc[u] = "notify" /\ asked' = TRUE
        /\ waiter' = (IF waiter = "armed" THEN "woken" ELSE waiter)
        /\ Goto(u, "idle")
        /\ UNCHANGED <<connState, connectChan, msgChan, disconnectReq, taskWake, lastError, pc,
                       target, candidates, current, socket, address, attempt, tryStateless,
                       calls, permit>>
    BY DEF DisconnectNotify, chanVars, workVars, dataVars
  <1>2. calls["disconnect"] # 0
    BY <1>1 DEF IInv, ErrorInv
  <1>3. /\ userPc' \in [Users -> UserPcs]
        /\ \A v \in Users : userPc'[v] = userPc[v] \/ userPc'[v] = "idle"
    BY <1>0, <1>1, GotoFacts DEF UserPcs
  <1>4. TypeOK'
    <2>1. waiter' \in {"off", "armed", "woken"}
      BY <1>0, <1>1 DEF TypeOK
    <2> QED BY <2>1, <1>0, <1>1, <1>3 DEF TypeOK
  <1>5. PcInv' /\ SocketInv' /\ AskedInv'
    BY <1>1, <1>3 DEF IInv, PcInv, SocketInv, AskedInv, ReconnectPcs
  <1>6. QueueInv' /\ ErrorInv'
    BY <1>1, <1>2 DEF IInv, QueueInv, ErrorInv
  <1> QED BY <1>4, <1>5, <1>6 DEF IInv

LEMMA DestroyInv ==
    ASSUME IInv, NEW u \in Users, Destroy(u)
    PROVE  IInv'
  <1>0. TypeOK
    BY DEF IInv
  <1>1. /\ pc' = "gone" /\ waiter' = "off" /\ Call("destroy", MaxDestroy)
        /\ UNCHANGED <<connState, connectChan, msgChan, disconnectReq, taskWake, lastError,
                       target, candidates, current, socket, address, attempt, tryStateless,
                       userPc, permit, asked>>
    BY DEF Destroy, chanVars, dataVars
  <1>2. calls' \in [Ops -> Nat] /\ calls'["disconnect"] = calls["disconnect"]
    BY <1>0, <1>1, CallFacts DEF Ops
  <1>3. TypeOK'
    BY <1>0, <1>1, <1>2 DEF TypeOK, Ops, Pcs
  <1>4. PcInv' /\ SocketInv' /\ AskedInv'
    BY <1>1 DEF IInv, PcInv, SocketInv, AskedInv, ReconnectPcs
  <1>5. QueueInv' /\ ErrorInv'
    BY <1>1, <1>2 DEF IInv, QueueInv, ErrorInv
  <1> QED BY <1>3, <1>4, <1>5 DEF IInv

LEMMA UserInv ==
    ASSUME IInv, NEW u \in Users, User(u)
    PROVE  IInv'
  <1>0. /\ TypeOK /\ connectChan \in Seq(Requests) /\ calls \in [Ops -> Nat]
        /\ \A op \in Ops : calls[op] \in Nat
    BY DEF IInv, TypeOK, Ops
  <1>1. ASSUME NEW to \in UserPcs \ {"notify"}, Goto(u, to)
        PROVE  /\ userPc' \in [Users -> UserPcs]
               /\ \A v \in Users : \/ userPc'[v] = userPc[v]
                                   \/ userPc'[v] # "notify"
    BY <1>0, <1>1, GotoFacts
  <1>2. {"idle", "preConnect", "connect", "waiting", "send"}
           \subseteq UserPcs \ {"notify"}
    BY DEF UserPcs
  <1>3. ASSUME NEW op \in {"connect", "send"}, NEW bound, Call(op, bound)
        PROVE  calls' \in [Ops -> Nat] /\ calls'["disconnect"] = calls["disconnect"]
    BY <1>0, <1>3, CallFacts DEF Ops
  <1>4. CASE ConnectWait(u)
    <2>1. /\ Call("connect", MaxConnect) /\ Goto(u, "preConnect") /\ permit' = FALSE
          /\ UNCHANGED <<connectChan, msgChan>>
          /\ UNCHANGED <<connState, notifyVars, lastError, workVars, dataVars, asked>>
      BY <1>4 DEF ConnectWait, chanVars
    <2> QED BY <2>1, <1>0, <1>1, <1>2, <1>3, UserStepInv
  <1>5. CASE ConnectCheck(u)
    <2>1. /\ Goto(u, IF connState = "Disconnected" THEN "connect" ELSE "idle")
          /\ UNCHANGED calls \/ Call("connect", MaxConnect)
          /\ UNCHANGED <<connectChan, msgChan, permit>>
          /\ UNCHANGED <<connState, notifyVars, lastError, workVars, dataVars, asked>>
      BY <1>5 DEF ConnectCheck, chanVars
    <2>2. calls' \in [Ops -> Nat] /\ calls'["disconnect"] = calls["disconnect"]
      BY <2>1, <1>0, <1>3
    <2>3. \E to \in {"connect", "idle"} : Goto(u, to)
      BY <2>1
    <2> QED BY <2>1, <2>2, <2>3, <1>0, <1>1, <1>2, UserStepInv
  <1>6. CASE ConnectSend(u)
    <2>1. /\ UNCHANGED <<msgChan, permit, calls>>
          /\ UNCHANGED <<connState, notifyVars, lastError, workVars, dataVars, asked>>
      BY <1>6 DEF ConnectSend
    <2>2. \E to \in {"waiting", "idle"} : Goto(u, to)
      BY <1>6 DEF ConnectSend
    <2>3. connectChan' \in Seq(Requests)
      <3>1. CASE UNCHANGED connectChan
        BY <3>1, <1>0
      <3>2. ASSUME NEW url \in Urls,
                   connectChan' = Append(connectChan, [url |-> url, by |-> u])
            PROVE  connectChan' \in Seq(Requests)
        <4>1. [url |-> url, by |-> u] \in Requests
          BY ConnectionAssumption DEF Requests
        <4> QED BY <4>1, <3>2, <1>0
      <3> QED BY <3>1, <3>2, <1>6 DEF ConnectSend
    <2> QED BY <2>1, <2>2, <2>3, <1>0, <1>1, <1>2, UserStepInv
  <1>7. CASE ConnectWaitReturn(u)
    <2>1. /\ Goto(u, "idle") /\ permit' = FALSE
          /\ UNCHANGED <<connectChan, msgChan, calls>>
          /\ UNCHANGED <<connState, notifyVars, lastError, workVars, dataVars, asked>>
      BY <1>7 DEF ConnectWaitReturn, chanVars
    <2> QED BY <2>1, <1>0, <1>1, <1>2, UserStepInv
  <1>8. CASE SendCheck(u)
    <2>1. /\ Call("send", MaxSend) /\ Goto(u, "send")
          /\ UNCHANGED <<connectChan, msgChan, permit>>
          /\ UNCHANGED <<connState, notifyVars, lastError, workVars, dataVars, asked>>
      BY <1>8 DEF SendCheck, chanVars
    <2> QED BY <2>1, <1>0, <1>1, <1>2, <1>3, UserStepInv
  <1>9. CASE SendPush(u)
    <2>1. /\ Goto(u, "idle")
          /\ msgChan' = msgChan \/ msgChan' = Append(msgChan, Fresh)
          /\ UNCHANGED <<connectChan, calls, permit>>
          /\ UNCHANGED <<connState, notifyVars, lastError, workVars, dataVars, asked>>
      BY <1>9 DEF SendPush, Fresh
    <2> QED BY <2>1, <1>0, <1>1, <1>2, UserStepInv
  <1>10. CASE Disconnect(u)
    BY <1>10, DisconnectInv
  <1>11. CASE DisconnectNotify(u)
    BY <1>11, DisconnectNotifyInv
  <1>12. CASE Destroy(u)
    BY <1>12, DestroyInv
  <1> QED BY <1>4, <1>5, <1>6, <1>7, <1>8, <1>9, <1>10, <1>11, <1>12 DEF User

--------------------------------------------------------------------------------

LEMMA StutterInv ==
    ASSUME IInv, UNCHANGED vars
    PROVE  IInv'
  <1>1. UNCHANGED <<connState, connectChan, msgChan, disconnectReq, waiter, taskWake, lastError,
                    pc, target, candidates, current, socket, address, attempt, tryStateless,
                    userPc, calls, permit, asked>>
    BY DEF vars, chanVars, notifyVars, workVars, dataVars, userVars
  <1>2. TypeOK'
    BY <1>1 DEF IInv, TypeOK
  <1>3. PcInv' /\ SocketInv' /\ AskedInv' /\ QueueInv' /\ ErrorInv'
    BY <1>1 DEF IInv, PcInv, SocketInv, AskedInv, QueueInv, ErrorInv
  <1> QED BY <1>2, <1>3 DEF IInv

\* The invariant is inductive.
LEMMA NextIInv ==
    ASSUME IInv, [Next]_vars
    PROVE  IInv'
  <1>1. ASSUME Worker PROVE IInv'
    <2>1. CASE EnterDisconnected \/ RecvUrl \/ Arm \/ Resolved \/ Pinged \/ TryCandidate
               \/ Established \/ CancelConnect
      BY <2>1, EnterDisconnectedInv, RecvUrlInv, ArmInv, ResolvedInv, PingedInv,
         TryCandidateInv, EstablishedInv, CancelConnectInv
    <2>2. CASE EnterConnected \/ SendNext \/ TimerFires \/ DisconnectSeen
      BY <2>2, EnterConnectedInv, SendNextInv, TimerFiresInv, DisconnectSeenInv
    <2>3. CASE SocketDone \/ Receive
      BY <2>3, SocketOutcomeInv DEF SocketDone, Receive
    <2>4. CASE EnterReconnecting \/ ReconnectDone \/ BackoffOver \/ CancelReconnect
               \/ EnterClosing \/ CloseDone \/ Closed
      BY <2>4, EnterReconnectingInv, ReconnectDoneInv, BackoffOverInv, CancelReconnectInv,
         EnterClosingInv, CloseDoneInv, ClosedInv
    <2> QED BY <1>1, <2>1, <2>2, <2>3, <2>4 DEF Worker, Prompt, InSocket
  <1>2. ASSUME NEW u \in Users, User(u) PROVE IInv'
    BY <1>2, UserInv
  <1>3. CASE UNCHANGED vars
    BY <1>3, StutterInv
  <1> QED BY <1>1, <1>2, <1>3 DEF Next

--------------------------------------------------------------------------------
(* Theorems *)

\* The inductive invariant holds in every reachable state of a connection.
THEOREM Invariance ==
    Spec => []IInv
  <1>1. Init => IInv
    BY InitIInv
  <1>2. IInv /\ [Next]_vars => IInv'
    BY NextIInv
  <1> QED BY <1>1, <1>2, PTL DEF Spec

\* Every variable keeps its type; no attempt beyond the limit is counted.
THEOREM TypeCorrect ==
    Spec => []TypeOK
  <1>1. IInv => TypeOK
    BY DEF IInv
  <1> QED BY <1>1, Invariance, PTL

\* The worker finds its socket, and the address to reconnect to, wherever
\* workerThreadLoop and threadTryReconnect use them.
THEOREM SocketPresent ==
    Spec => [](WorkerHasSocket /\ ReconnectHasAddress)
  <1>1. IInv => WorkerHasSocket /\ ReconnectHasAddress
    BY DEF IInv, PcInv, SocketInv, WorkerHasSocket, ReconnectHasAddress, ReconnectPcs
  <1> QED BY <1>1, Invariance, PTL

\* The switch of workerThreadLoop never meets an intermediate state.
THEOREM LoopStates ==
    Spec => []NoIntermediateState
  <1>1. IInv => NoIntermediateState
    BY DEF IInv, PcInv, NoIntermediateState
  <1> QED BY <1>1, Invariance, PTL

\* Only a disconnect() since the request was taken closes a connection.
THEOREM CloseIsAskedFor ==
    Spec => []NoSpuriousClose
  <1>1. IInv => NoSpuriousClose
    BY DEF IInv, AskedInv, NoSpuriousClose
  <1> QED BY <1>1, Invariance, PTL

\* The drains keep the messages of one session out of the next, but for those queued
\* late and followed by a stateless reconnect.
THEOREM SessionsSeparate ==
    Spec => []StaleNeverSent
  <1>1. IInv => StaleNeverSent
    BY DEF IInv, QueueInv, Sendable, StaleNeverSent
  <1> QED BY <1>1, Invariance, PTL

\* connectWait has an error to report when it fails without a disconnect().
THEOREM FailureIsExplained ==
    Spec => []FailureHasError
  <1>1. IInv => FailureHasError
    BY DEF IInv, ErrorInv, FailureHasError
  <1> QED BY <1>1, Invariance, PTL

--------------------------------------------------------------------------------
(* Refinement of the lifecycle *)

Step == [Lifecycle!Next]_connState

LEMMA EndStep ==
    ASSUME BackToDisconnected
    PROVE  Step
  BY DEF BackToDisconnected, Publish, Step, Lifecycle!Next, Lifecycle!End

LEMMA PhaseStep ==
    ASSUME PcInv, NEW url, NEW resolved, NEW pinged, StartPhase(url, resolved, pinged),
           \/ pc = "recvConnect"
           \/ pc = "resolving" /\ resolved
           \/ pc = "pinging" /\ resolved /\ pinged
    PROVE  Step
  BY DEF StartPhase, PcInv, Publish, Step, Lifecycle!Next, Lifecycle!Begin, Lifecycle!Proceed,
         Lifecycle!Phases

LEMMA FatalStep ==
    ASSUME OnFatalError
    PROVE  Step
  <1>1. CASE connState = "Connected" /\ SetState("Reconnecting")
    BY <1>1 DEF SetState, Publish, Step, Lifecycle!Next, Lifecycle!Lose
  <1>2. CASE BackToDisconnected
    BY <1>2, EndStep
  <1> QED BY <1>1, <1>2 DEF OnFatalError

LEMMA WorkerStep ==
    ASSUME IInv, Worker
    PROVE  Step
  <1>0. PcInv
    BY DEF IInv
  <1>1. CASE EnterDisconnected \/ Arm \/ Established \/ SendNext \/ TimerFires
             \/ BackoffOver \/ EnterClosing
    BY <1>1 DEF EnterDisconnected, Arm, Established, SendNext, TimerFires,
                BackoffOver, EnterClosing, Step
  <1>2. CASE RecvUrl
    <2>1. pc = "recvConnect"
      BY <1>2 DEF RecvUrl
    <2>2. CASE ConnectFailed
      BY <2>2, EndStep DEF ConnectFailed
    <2>3. CASE StartPhase(Head(connectChan).url, FALSE, FALSE)
      BY <2>1, <2>3, <1>0, PhaseStep
    <2> QED BY <1>2, <2>2, <2>3 DEF RecvUrl
  <1>3. CASE Resolved
    <2>1. pc = "resolving"
      BY <1>3 DEF Resolved
    <2>2. CASE ConnectFailed
      BY <2>2, EndStep DEF ConnectFailed
    <2>3. CASE StartPhase(target.url, TRUE, FALSE)
      BY <2>1, <2>3, <1>0, PhaseStep
    <2> QED BY <1>3, <2>2, <2>3 DEF Resolved
  <1>4. CASE Pinged
    BY <1>4, <1>0, PhaseStep DEF Pinged
  <1>5. CASE TryCandidate
    <2>1. CASE ConnectFailed
      BY <2>1, EndStep DEF ConnectFailed
    <2>2. CASE SetState("Connected") /\ pc = "connecting"
      BY <2>2, <1>0 DEF PcInv, SetState, Publish, Step, Lifecycle!Next, Lifecycle!Establish
    <2>3. CASE UNCHANGED connState
      BY <2>3 DEF Step
    <2> QED BY <1>5, <2>1, <2>2, <2>3 DEF TryCandidate
  <1>6. CASE CancelConnect \/ CancelReconnect \/ Closed
    BY <1>6, EndStep DEF CancelConnect, CancelReconnect, Closed, Cancel
  <1>7. CASE EnterConnected
    BY <1>7 DEF EnterConnected, SetState, Publish, Step, Lifecycle!Next, Lifecycle!Close
  <1>8. CASE DisconnectSeen
    BY <1>8, <1>0 DEF DisconnectSeen, PcInv, SetState, Publish, Step, Lifecycle!Next,
                      Lifecycle!Close
  <1>9. CASE SocketDone \/ Receive \/ CloseDone
    <2>1. CASE OnFatalError
      BY <2>1, FatalStep
    <2>2. CASE UNCHANGED connState
      BY <2>2 DEF Step
    <2> QED BY <1>9, <2>1, <2>2 DEF SocketDone, Receive, SocketOutcome, CloseDone
  <1>10. CASE EnterReconnecting
    <2>1. CASE Cancel
      BY <2>1, EndStep DEF Cancel
    <2>2. CASE UNCHANGED connState
      BY <2>2 DEF Step
    <2> QED BY <1>10, <2>1, <2>2 DEF EnterReconnecting
  <1>11. CASE ReconnectDone
    <2>1. connState = "Reconnecting"
      BY <1>11, <1>0 DEF ReconnectDone, PcInv, ReconnectPcs
    <2>2. connState' = "Connected" \/ UNCHANGED connState
      BY <1>11 DEF ReconnectDone, SetState, Publish
    <2> QED BY <2>1, <2>2 DEF Step, Lifecycle!Next, Lifecycle!Establish
  <1> QED BY <1>1, <1>2, <1>3, <1>4, <1>5, <1>6, <1>7, <1>8, <1>9, <1>10, <1>11 DEF Worker, Prompt, InSocket

LEMMA UserStep ==
    ASSUME NEW u \in Users, User(u)
    PROVE  UNCHANGED connState
  BY DEF User, ConnectWait, ConnectCheck, ConnectSend, ConnectWaitReturn, SendCheck,
         SendPush, Disconnect, DisconnectNotify, Destroy

\* What state() and the state callback show is always the life of a connection.
THEOREM LifecycleImplemented ==
    Spec => LifecycleRefinement
  <1>1. Init => Lifecycle!Init
    BY DEF Init, Lifecycle!Init
  <1>2. IInv /\ [Next]_vars => [Lifecycle!Next]_connState
    <2> SUFFICES ASSUME IInv, [Next]_vars PROVE Step
      BY DEF Step
    <2>1. CASE Worker
      BY <2>1, WorkerStep
    <2>2. ASSUME NEW u \in Users, User(u) PROVE Step
      BY <2>2, UserStep DEF Step
    <2>3. CASE UNCHANGED vars
      BY <2>3 DEF vars, Step
    <2> QED BY <2>1, <2>2, <2>3 DEF Next
  <1> QED BY <1>1, <1>2, Invariance, PTL DEF Spec, LifecycleRefinement, Lifecycle!Spec

================================================================================
