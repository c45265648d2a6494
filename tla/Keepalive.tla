------------------------------- MODULE Keepalive -------------------------------
(***************************************************************************)
(* Keepalives of an established connection: untilKeepalive and             *)
(* handleTimerExpiry of the UDP, TCP and WebSocket transports over the     *)
(* counters of BaseTransport.  They find out the latency at first and keep *)
(* an idle connection open later on, and they are how a server that has    *)
(* gone away is noticed.  UDP's timer also serves its reliable store: what *)
(* it retransmits and acknowledges counts as activity and puts keepalives  *)
(* off, and a message that is never acknowledged ends the connection too.  *)
(*                                                                         *)
(* Time passes in ticks.  The worker sleeps for untilTimerExpiry, so no    *)
(* tick passes while anything is due.                                      *)
(***************************************************************************)
EXTENDS Integers, Sequences

CONSTANTS
    RetryAfter,     \* while one is unanswered: 2s for UDP, 3s for TCP and WebSocket
    Early,          \* intervals before there is an estimate of the latency, by the
                    \* number of answers so far: <<3, 3, 8, 12, 20>> for UDP
    IdleAfter,      \* from then on: 30s for UDP, 45s for TCP and WebSocket
    Actives,        \* the intervals the application may set with
                    \* setActiveKeepaliveInterval, 0 for none
    Limit,          \* unanswered keepalives that are tolerated (5)
    Transports,     \* among "udp", whose timer also serves the reliable store, and "stream"
    Bases,          \* the shortest waits for an acknowledgement, one for each estimate of
                    \* the latency: 1.6 round trips and 50ms, 175ms at least
    LongestBase,    \* the longest of those
    MaxMultiple,    \* what a wait grows to, in times the shortest (6)
    MaxRetransmits, \* retransmissions of a message (10)
    Rounds,         \* what so many waits come to, in times the shortest
    LocalCap,       \* messages that may wait for an acknowledgement (64)
    AckDelay,       \* time after which a message of the server must be acknowledged (50ms)
    AcksPerMessage, \* acknowledgements a message carries at most (8)
    MaxToAck,       \* bound: messages of the server that wait for an acknowledgement
    MaxOutstanding, \* bound: answers under way
    MaxManual,      \* bound: calls of sendKeepalive
    Horizon         \* bound: ages are not told apart beyond this many ticks

ASSUME KeepaliveAssumption ==
    /\ RetryAfter \in Nat \ {0} /\ IdleAfter \in Nat /\ Actives \subseteq Nat
    /\ Early \in Seq(Nat \ {0}) /\ \A k \in DOMAIN Early : Early[k] <= IdleAfter
    /\ Limit \in Nat /\ MaxOutstanding \in Nat /\ MaxManual \in Nat
    /\ Transports \subseteq {"udp", "stream"}
    /\ Horizon \in Nat /\ Limit * RetryAfter <= Horizon
    /\ LocalCap \in Nat /\ AckDelay \in Nat /\ AcksPerMessage \in Nat \ {0} /\ MaxToAck \in Nat

\* calcRetransmissionDeadline: the first retransmission, and the next, come after the shortest
\* wait.
Multiple(attempts) == IF attempts = 0 THEN 1 ELSE IF attempts > MaxMultiple THEN MaxMultiple ELSE attempts

\* <<1, 1, 2, 3, 4, 5, 6, 6, 6, 6, 6>> add up to 46.
ASSUME RetransmitAssumption ==
    /\ LongestBase \in Nat /\ Bases \subseteq 1..LongestBase /\ Bases # {}
    /\ MaxMultiple \in Nat \ {0} /\ MaxRetransmits \in Nat
    /\ Rounds \in [0..(MaxRetransmits + 1) -> Nat]
    /\ \A k \in 0..MaxRetransmits : Rounds[k + 1] = Rounds[k] + Multiple(k)
    /\ \A k \in 0..(MaxRetransmits + 1) : Rounds[k] <= Rounds[MaxRetransmits + 1]

VARIABLES
    transport,      \* the kind of transport
    active,         \* m_activeKeepaliveInterval
    status,         \* "up", "timedOut" after a fatal TimedOut error, or "unreliable" after a
                    \* fatal TooUnreliable error
    sinceActivity,  \* age of m_lastActivity, the last message sent
    sinceKeepalive, \* age of m_lastKeepalive
    unacked,        \* m_unackedKeepalives
    estimates,      \* m_totalRttEstimates
    base,           \* the shortest wait at the present m_avgRttMicros
    localUnacked,   \* places taken in m_localUnacked, each with the time since that message was
                    \* sent and how often it was sent again
    remoteUnacked,  \* m_remoteUnacked: how long ago each arrived
    outstanding,    \* keepalives that may still be answered
    manual,         \* calls of sendKeepalive so far
    (* history *)
    deaf,           \* ticks since the last answer, or since the beginning
    quiet           \* ticks since the server was heard of or the application sent something

ages == <<sinceActivity, sinceKeepalive, deaf, quiet>>
settings == <<transport, active>>
store == <<localUnacked, remoteUnacked>>
timerVars == <<settings, status, ages, unacked, estimates, base, store, outstanding, manual>>

--------------------------------------------------------------------------------

Least(a, b) == IF a < b THEN a ELSE b

\* Duration subtraction stops at zero.
Minus(a, b) == IF a > b THEN a - b ELSE 0

Older(age) == Least(age + 1, Horizon)

\* The shorter of an interval and the active interval, if there is one.
OrActive(interval) == IF active > 0 THEN Least(interval, active) ELSE interval

\* untilKeepalive, with the age of the last activity.
UntilKeepalive(idle) ==
    IF unacked > 0
    THEN Minus(RetryAfter, idle)
    ELSE IF estimates < Len(Early)
    THEN Minus(OrActive(Early[estimates + 1]), sinceKeepalive)
    ELSE IF active > 0
    THEN Least(Minus(IdleAfter, idle), Minus(active, sinceKeepalive))
    ELSE Minus(IdleAfter, idle)

\* A message is to be sent again, or given up.
Overdue(message) == message.ago >= base * Multiple(message.attempts)

AckUrgent == \E i \in DOMAIN remoteUnacked : remoteUnacked[i] >= AckDelay

StoreDue == AckUrgent \/ \E i \in DOMAIN localUnacked : Overdue(localUnacked[i])

TimerDue == StoreDue \/ UntilKeepalive(sinceActivity) = 0

\* maybeRetransmit: it was sent again as often as it may be.
Undeliverable ==
    \E i \in DOMAIN localUnacked :
        Overdue(localUnacked[i]) /\ localUnacked[i].attempts = MaxRetransmits

Retransmitted ==
    [i \in DOMAIN localUnacked |->
        IF Overdue(localUnacked[i])
        THEN [ago |-> 0, attempts |-> localUnacked[i].attempts + 1]
        ELSE localUnacked[i]]

\* setOutgoingAcks takes the oldest.
AfterAcks == SubSeq(remoteUnacked, AcksPerMessage + 1, Len(remoteUnacked))

\* Mutant: the keepalive is not counted.
SendKeepaliveUncounted ==
    /\ sinceActivity' = 0
    /\ sinceKeepalive' = 0
    /\ outstanding' = Least(outstanding + 1, MaxOutstanding)
    /\ UNCHANGED unacked

\* sendMessage of a keepalive: updateLastSentKeepalive and updateLastActivity.
SendKeepalive ==
    /\ sinceActivity' = 0
    /\ sinceKeepalive' = 0
    /\ unacked' = unacked + 1
    /\ outstanding' = Least(outstanding + 1, MaxOutstanding)

--------------------------------------------------------------------------------

\* Time passes while nothing is due.
Tick ==
    /\ status = "up"
    /\ ~TimerDue
    /\ sinceActivity' = Older(sinceActivity)
    /\ sinceKeepalive' = Older(sinceKeepalive)
    /\ deaf' = Older(deaf)
    /\ quiet' = Older(quiet)
    /\ localUnacked' = [i \in DOMAIN localUnacked |-> [localUnacked[i] EXCEPT !.ago = @ + 1]]
    /\ remoteUnacked' = [i \in DOMAIN remoteUnacked |-> remoteUnacked[i] + 1]
    /\ UNCHANGED <<settings, status, unacked, estimates, base, outstanding, manual>>

\* handleTimerExpiry of BaseTransport gives up; a fatal error ends the connection, and its store
\* and counters with it.
GiveUp(why) ==
    /\ status' = why
    /\ UNCHANGED <<sinceActivity, sinceKeepalive, unacked, outstanding, store>>

\* handleTimerExpiry: messages that are due again and urgent acknowledgements are sent first, and
\* then a keepalive, if one is still due.
ServeTimer ==
    LET idle == IF StoreDue THEN 0 ELSE sinceActivity IN
    /\ localUnacked' = Retransmitted
    /\ remoteUnacked' = IF AckUrgent THEN AfterAcks ELSE remoteUnacked
    /\ \/ UntilKeepalive(idle) = 0 /\ SendKeepalive
       \/ /\ UntilKeepalive(idle) > 0
          /\ sinceActivity' = idle
          /\ UNCHANGED <<sinceKeepalive, unacked, outstanding>>
    /\ UNCHANGED status

TimerExpiry ==
    /\ status = "up"
    /\ TimerDue
    /\ \/ unacked > Limit /\ GiveUp("timedOut")
       \/ unacked <= Limit /\ Undeliverable /\ GiveUp("unreliable")
       \/ unacked <= Limit /\ ~Undeliverable /\ ServeTimer
    /\ UNCHANGED <<settings, estimates, base, manual, deaf, quiet>>

\* The application sends a message.  It takes acknowledgements along; a reliable one over UDP is
\* put into the store once it was sent, if there is room.
SendData ==
    /\ status = "up"
    /\ remoteUnacked' = AfterAcks
    /\ \/ UNCHANGED <<status, localUnacked>> /\ sinceActivity' = 0
       \/ /\ transport = "udp"
          /\ \E i \in 1..LocalCap \ DOMAIN localUnacked :
                /\ \A k \in 1..(i - 1) : k \in DOMAIN localUnacked
                /\ localUnacked' = [k \in DOMAIN localUnacked \cup {i} |->
                        IF k = i THEN [ago |-> 0, attempts |-> 0] ELSE localUnacked[k]]
          /\ sinceActivity' = 0
          /\ UNCHANGED status
       \/ /\ transport = "udp" /\ DOMAIN localUnacked = 1..LocalCap
          /\ status' = "unreliable"
          /\ UNCHANGED <<localUnacked, sinceActivity>>
    /\ quiet' = 0
    /\ UNCHANGED <<settings, sinceKeepalive, unacked, estimates, base, outstanding, manual, deaf>>

\* handleIncoming: a message of the server acknowledges some of the client's, and is to be
\* acknowledged if it is reliable, together with those it restores.
FromServer ==
    /\ status = "up" /\ transport = "udp"
    /\ \E acked \in SUBSET DOMAIN localUnacked :
          localUnacked' = [i \in DOMAIN localUnacked \ acked |-> localUnacked[i]]
    /\ \E n \in 0..(MaxToAck - Len(remoteUnacked)) :
          remoteUnacked' = remoteUnacked \o [k \in 1..n |-> 0]
    /\ quiet' = 0
    /\ UNCHANGED <<settings, status, sinceActivity, sinceKeepalive, deaf, unacked, estimates, base,
                   outstanding, manual>>

\* The application calls sendKeepalive.
ManualKeepalive ==
    /\ status = "up"
    /\ manual < MaxManual
    /\ manual' = manual + 1
    /\ SendKeepalive
    /\ quiet' = 0
    /\ UNCHANGED <<settings, status, estimates, base, store, deaf>>

\* updateLatency: UDP's store is told too.
NewEstimate == base' \in IF transport = "udp" THEN Bases ELSE {base}

\* Mutant: an answer takes back one keepalive only.
ResponseToOne ==
    /\ status = "up"
    /\ outstanding > 0
    /\ outstanding' = outstanding - 1
    /\ unacked' = Minus(unacked, 1)
    /\ estimates' = Least(estimates + 1, Len(Early))
    /\ NewEstimate
    /\ deaf' = 0
    /\ quiet' = 0
    /\ UNCHANGED <<settings, status, sinceActivity, sinceKeepalive, store, manual>>

\* An answer to any of the keepalives sent, even an old one: onIncomingMessage.
Response ==
    /\ status = "up"
    /\ outstanding > 0
    /\ outstanding' = outstanding - 1
    /\ unacked' = 0
    /\ estimates' = Least(estimates + 1, Len(Early))
    /\ NewEstimate
    /\ deaf' = 0
    /\ quiet' = 0
    /\ UNCHANGED <<settings, status, sinceActivity, sinceKeepalive, store, manual>>

\* The application feeds in a round-trip time it measured itself: updateLatency.
UpdateLatency ==
    /\ status = "up"
    /\ estimates' = Least(estimates + 1, Len(Early))
    /\ NewEstimate
    /\ UNCHANGED <<settings, status, ages, unacked, store, outstanding, manual>>

\* A keepalive or its answer is lost.
LoseKeepalive ==
    /\ outstanding > 0
    /\ outstanding' = outstanding - 1
    /\ UNCHANGED <<settings, status, ages, unacked, estimates, base, store, manual>>

--------------------------------------------------------------------------------

\* The handshake was sent a moment ago, and no keepalive ever.
TimerInit ==
    /\ transport \in Transports
    /\ active \in Actives
    /\ status = "up"
    /\ sinceActivity = 0
    /\ sinceKeepalive = Horizon
    /\ unacked = 0
    /\ estimates = 0
    /\ base \in Bases
    /\ localUnacked = <<>>
    /\ remoteUnacked = <<>>
    /\ outstanding = 0
    /\ manual = 0
    /\ deaf = 0
    /\ quiet = 0

TimerNext ==
    \/ Tick \/ TimerExpiry \/ LoseKeepalive
    \/ SendData \/ ManualKeepalive \/ UpdateLatency
    \/ Response \/ FromServer

TimerSpec == TimerInit /\ [][TimerNext]_timerVars

--------------------------------------------------------------------------------
(* Properties *)

\* With nothing left to retransmit, a server is noticed after an acknowledgement, the longest pause
\* between keepalives and one retry interval for each that may go unanswered.
KeepalivesEnd == AckDelay + IdleAfter + (Limit + 1) * RetryAfter

\* With a message to retransmit, which keeps putting keepalives off, after all its waits.
RetransmitsEnd == LongestBase * Rounds[MaxRetransmits + 1]

\* A server that has gone away is noticed in time by one or the other, as long as the application
\* sends nothing.
DeadPeerNoticed ==
    status = "up" => quiet <= KeepalivesEnd \/ quiet <= RetransmitsEnd

\* A server is not given up on too early: it has been silent for as long as it
\* takes to send all those keepalives, unless the application sent some itself.
NoEarlyTimeout ==
    status = "timedOut" => deaf >= (Limit - manual) * RetryAfter

\* "With this option, they will always be sent at the given interval, even if the
\* connection is not idle" (setActiveKeepaliveInterval).
ActiveOnTime ==
    status = "up" /\ active > 0 /\ sinceKeepalive < Horizon => sinceKeepalive <= active

================================================================================
