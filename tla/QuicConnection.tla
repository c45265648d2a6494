---------------------------- MODULE QuicConnection ----------------------------
(***************************************************************************)
(* Life of a QuicConnection: connect() and the worker task it spawns, the  *)
(* two ways of closing it (close() says goodbye to the server, closeSync() *)
(* does not), and its owner, the worker of Connection, which is to find    *)
(* out when the connection is dead.  close() may be called by both.        *)
(***************************************************************************)
EXTENDS Naturals

CONSTANTS
    InitMayFail,       \* ngtcp2 or the local address may fail before there is an m_conn
    MaxSendFailures,   \* bound: packets that cannot be sent
    MaxCloseFailures   \* bound: close packets that cannot be written or sent

ASSUME QuicConnectionAssumption ==
    InitMayFail \in BOOLEAN /\ MaxSendFailures \in Nat /\ MaxCloseFailures \in Nat

VARIABLES
    connector,      \* where connect() is
    conn,           \* m_conn is not null
    connected,      \* m_connected
    connectPermit,  \* m_connectedNotify holds a permit
    fatal,          \* m_fatalError is set
    closing,        \* m_closing
    closed,         \* m_closed
    cancelled,      \* m_cancel
    workerTask,     \* where the worker task is
    owner,          \* what the Connection does with the connection
    sendFailures, closeFailures,
    (* history *)
    closePackets    \* close packets sent

flags == <<conn, connected, connectPermit, fatal>>
lifeVars == <<connector, conn, connected, connectPermit, fatal, closing, closed, cancelled, workerTask,
          owner, sendFailures, closeFailures, closePackets>>

LifeInit ==
    /\ connector = "init" /\ conn = FALSE
    /\ connected = FALSE /\ connectPermit = FALSE /\ fatal = FALSE
    /\ closing = FALSE /\ closed = FALSE /\ cancelled = FALSE
    /\ workerTask = "starting" /\ owner = "none"
    /\ sendFailures = 0 /\ closeFailures = 0 /\ closePackets = 0

CloseSync == closed' = TRUE /\ cancelled' = TRUE

--------------------------------------------------------------------------------
(* connect(), after the socket is bound and the worker spawned. *)

CreateConn ==
    /\ connector = "init"
    /\ conn' = TRUE
    /\ connector' = "handshake"
    /\ UNCHANGED <<connected, connectPermit, fatal, closing, closed, cancelled, workerTask, owner,
                   sendFailures, closeFailures, closePackets>>

CreateConnFails ==
    /\ connector = "init" /\ InitMayFail
    /\ connector' = "failed" /\ owner' = "gone"
    /\ CloseSync
    /\ UNCHANGED <<flags, closing, workerTask, sendFailures, closeFailures, closePackets>>

\* performHandshake and openStream.
Establish ==
    /\ connector = "handshake"
    /\ connected' = TRUE /\ connectPermit' = TRUE
    /\ connector' = "ready" /\ owner' = "connected"
    /\ UNCHANGED <<conn, fatal, closing, closed, cancelled, workerTask, sendFailures, closeFailures,
                   closePackets>>

\* They fail or time out, or the caller drops connect(): the scope is left.
EstablishFails ==
    /\ connector = "handshake"
    /\ connector' = "failed" /\ owner' = "gone"
    /\ CloseSync
    /\ UNCHANGED <<flags, closing, workerTask, sendFailures, closeFailures, closePackets>>

--------------------------------------------------------------------------------
(* The worker task. *)

WorkerStart ==
    /\ workerTask = "starting"
    /\ workerTask' = "connecting"
    /\ UNCHANGED <<connector, flags, closing, closed, cancelled, owner, sendFailures, closeFailures,
                   closePackets>>

WorkerConnected ==
    /\ workerTask = "connecting" /\ connectPermit
    /\ connectPermit' = FALSE
    /\ workerTask' = "writes"
    /\ UNCHANGED <<connector, conn, connected, fatal, closing, closed, cancelled, owner, sendFailures,
                   closeFailures, closePackets>>

\* workerHandleWrites succeeds, or is held up by congestion.
HandleWrites ==
    /\ workerTask = "writes"
    /\ workerTask' = "select"
    /\ UNCHANGED <<connector, flags, closing, closed, cancelled, owner, sendFailures, closeFailures,
                   closePackets>>

\* "QUIC: fatal error when sending data"
HandleWritesFails ==
    /\ workerTask = "writes" /\ sendFailures < MaxSendFailures
    /\ sendFailures' = sendFailures + 1
    /\ workerTask' = "closing"
    /\ UNCHANGED <<connector, flags, closing, closed, cancelled, owner, closeFailures, closePackets>>

\* A notification, a packet (errors are only logged), an expiry or the end of the congestion.
Wake ==
    /\ workerTask = "select"
    /\ workerTask' = "writes"
    /\ UNCHANGED <<connector, flags, closing, closed, cancelled, owner, sendFailures, closeFailures,
                   closePackets>>

\* Mutant: the task ends there and then, without an error for the owner.
IdleCloseSilent ==
    /\ workerTask = "select" /\ sendFailures < MaxSendFailures
    /\ sendFailures' = sendFailures + 1
    /\ connected' = FALSE
    /\ workerTask' = "ended"
    /\ UNCHANGED <<connector, conn, connectPermit, fatal, closing, closed, cancelled, owner,
                   closeFailures, closePackets>>

\* handleExpiry: the server has not been heard of for 30 seconds.
IdleClose ==
    /\ workerTask = "select" /\ sendFailures < MaxSendFailures
    /\ sendFailures' = sendFailures + 1
    /\ fatal' = TRUE /\ connected' = FALSE
    /\ workerTask' = "closing"
    /\ UNCHANGED <<connector, conn, connectPermit, closing, closed, cancelled, owner,
                   closeFailures, closePackets>>

WorkerCancelled ==
    /\ workerTask \in {"starting", "connecting", "writes", "select"} /\ cancelled
    /\ workerTask' = "closing"
    /\ UNCHANGED <<connector, flags, closing, closed, cancelled, owner, sendFailures, closeFailures,
                   closePackets>>

\* The worker's own close().
WorkerClose ==
    /\ workerTask = "closing"
    /\ closing' = TRUE
    /\ workerTask' = IF closing THEN "ended" ELSE "closePacket"
    /\ UNCHANGED <<connector, flags, closed, cancelled, owner, sendFailures, closeFailures, closePackets>>

\* Mutant: closeSync does not follow.
WorkerClosePacketOnly ==
    /\ workerTask = "closePacket"
    /\ closePackets' \in {closePackets, closePackets + 1}
    /\ workerTask' = "ended"
    /\ UNCHANGED <<connector, flags, closing, closed, cancelled, owner, sendFailures, closeFailures>>

\* ngtcp2 writes the close packet, or has none to write, and the worker is done.
WorkerClosePacket ==
    /\ workerTask = "closePacket"
    /\ closePackets' \in {closePackets, closePackets + 1}
    /\ CloseSync
    /\ workerTask' = "ended"
    /\ UNCHANGED <<connector, flags, closing, owner, sendFailures, closeFailures>>

WorkerClosePacketFails ==
    /\ workerTask = "closePacket" /\ closeFailures < MaxCloseFailures
    /\ closeFailures' = closeFailures + 1
    /\ workerTask' = "ended"
    /\ UNCHANGED <<connector, flags, closing, closed, cancelled, owner, sendFailures, closePackets>>

--------------------------------------------------------------------------------
(* The owner: Connection in Connected, and in Closing once asked to disconnect. *)

\* send found the connection open and no room in the send buffer: it waits in pollWritable
\* for room alone, and neither the receiver nor the timer is polled meanwhile.
SendWaits ==
    /\ owner = "connected" /\ ~closed
    /\ owner' = "fullSend"
    /\ UNCHANGED <<connector, flags, closing, closed, cancelled, workerTask, sendFailures, closeFailures,
                   closePackets>>

\* An acknowledgement makes room, if the worker is still there to read it.
SendGoesOn ==
    /\ workerTask = "select"
    /\ \/ owner = "fullSend" /\ owner' = "connected"
       \/ owner = "fullGoodbye" /\ owner' = "closing"
    /\ workerTask' = "writes"
    /\ UNCHANGED <<connector, flags, closing, closed, cancelled, sendFailures, closeFailures, closePackets>>

\* receive returns Closed once the connection is closed, and send if it was before.
SeesClosed ==
    /\ owner = "connected" /\ closed
    /\ owner' = "error"
    /\ UNCHANGED <<connector, flags, closing, closed, cancelled, workerTask, sendFailures, closeFailures,
                   closePackets>>

\* handleTimerExpiry, every 100 ms.
SeesFatalError ==
    /\ owner = "connected" /\ ~connected /\ fatal
    /\ owner' = "error"
    /\ UNCHANGED <<connector, flags, closing, closed, cancelled, workerTask, sendFailures, closeFailures,
                   closePackets>>

\* After a fatal error the socket is given up, at once or when a new one takes its place.
DropSocket ==
    /\ owner = "error"
    /\ CloseSync
    /\ owner' = "gone"
    /\ UNCHANGED <<connector, flags, closing, workerTask, sendFailures, closeFailures, closePackets>>

\* Asked to disconnect, the owner first sends a message that says so, which may have to wait.
Disconnect ==
    /\ owner = "connected"
    /\ \/ owner' = "closing"
       \/ ~closed /\ owner' = "fullGoodbye"
    /\ UNCHANGED <<connector, flags, closing, closed, cancelled, workerTask, sendFailures, closeFailures,
                   closePackets>>

\* Mutant: m_closing is not looked at.
OwnerCloseConcurrent ==
    /\ owner = "closing"
    /\ closing' = TRUE /\ owner' = "closePacket"
    /\ UNCHANGED <<connector, flags, closed, cancelled, workerTask, sendFailures, closeFailures, closePackets>>

OwnerClose ==
    /\ owner = "closing"
    /\ closing' = TRUE
    /\ owner' = IF closing THEN "waiting" ELSE "closePacket"
    /\ UNCHANGED <<connector, flags, closed, cancelled, workerTask, sendFailures, closeFailures, closePackets>>

OwnerClosePacket ==
    /\ owner = "closePacket"
    /\ closePackets' \in {closePackets, closePackets + 1}
    /\ CloseSync
    /\ owner' = "waiting"
    /\ UNCHANGED <<connector, flags, closing, workerTask, sendFailures, closeFailures>>

\* A failure is fatal to the Connection, which drops the socket.
OwnerClosePacketFails ==
    /\ owner = "closePacket" /\ closeFailures < MaxCloseFailures
    /\ closeFailures' = closeFailures + 1
    /\ CloseSync
    /\ owner' = "gone"
    /\ UNCHANGED <<connector, flags, closing, workerTask, sendFailures, closePackets>>

\* The owner looks every 10 ms whether the socket is closed.
AwaitClosed ==
    /\ owner = "waiting" /\ closed
    /\ CloseSync
    /\ owner' = "gone"
    /\ UNCHANGED <<connector, flags, closing, workerTask, sendFailures, closeFailures, closePackets>>

--------------------------------------------------------------------------------

Connect == CreateConn \/ CreateConnFails \/ Establish \/ EstablishFails

WorkerEnds == WorkerCancelled \/ WorkerClose \/ WorkerClosePacket \/ WorkerClosePacketFails

WorkerRuns == WorkerStart \/ WorkerConnected \/ HandleWrites \/ HandleWritesFails \/ Wake \/ IdleClose

OwnerNotices ==
    \/ SeesClosed \/ SeesFatalError \/ DropSocket
    \/ OwnerClose \/ OwnerClosePacket \/ OwnerClosePacketFails \/ AwaitClosed

LifeNext == Connect \/ WorkerEnds \/ WorkerRuns \/ OwnerNotices \/ Disconnect \/ SendWaits \/ SendGoesOn

LifeSpec == LifeInit /\ [][LifeNext]_lifeVars

(* The tasks go on: connect() has a deadline, a cancelled select returns, the timer of the *)
(* Connection expires.  Nothing has to fail, nobody has to disconnect, and the server need *)
(* not acknowledge what would make room.                                                   *)
FairLifeSpec == LifeSpec /\ WF_lifeVars(Connect) /\ WF_lifeVars(WorkerEnds) /\ WF_lifeVars(OwnerNotices)

--------------------------------------------------------------------------------

\* Worker and owner never both say goodbye: at most one of them gets past m_closing.
OneGoodbye == ~(workerTask = "closePacket" /\ owner = "closePacket") /\ closePackets <= 1

\* The owner waits for room in the send buffer, and for nothing else.
WaitsForRoom == owner \in {"fullSend", "fullGoodbye"}

\* A connection its worker has given up, for whatever reason, is given up by the owner;
\* unless a close packet could not be written or sent, or the owner waits for room that
\* only the worker could make.
DeadWorkerNoticed ==
    workerTask = "ended" /\ closeFailures = 0 ~>
        owner = "gone" \/ closeFailures > 0 \/ [](WaitsForRoom)

\* The same also then: send "returns the number of bytes sent, or an error"
\* (QuicConnection.hpp:57).
FullSendEnds == workerTask = "ended" /\ closeFailures = 0 ~> owner = "gone" \/ closeFailures > 0

\* Closing: "wait for the socket to close" comes to an end, whoever of worker and owner
\* got to close first; unless a close packet could not be written or sent.
CloseEnds == owner = "waiting" /\ closeFailures = 0 ~> owner = "gone" \/ closeFailures > 0

\* The same also then.
FailedCloseEnds == owner = "waiting" ~> owner = "gone"

\* connect: the worker's close is for when "we terminated on our own terms".  The close
\* packet of a connection that was never created is not asked for.
ClosesExistingConn == workerTask = "closePacket" => conn

================================================================================
