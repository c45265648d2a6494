--------------------------------- MODULE Socket ---------------------------------
(***************************************************************************)
(* Socket: connecting to a server with a handshake, reconnecting to the    *)
(* session of an earlier socket, and the compression both ends agree on.   *)
(*                                                                         *)
(* The handshake settles which Qunet database, and with it which zstd      *)
(* dictionary, a session uses: the client sends the hash of the database   *)
(* in its file, and the server sends its own database when the hash is not *)
(* that one's.  The worker of Connection drives it (threadConnectSocket,   *)
(* threadTryReconnect and the Reconnecting state); server, network and     *)
(* file change on their own.                                               *)
(***************************************************************************)
EXTENDS Integers

CONSTANTS
    Databases,       \* Qunet databases; a hash stands for the database it is of
    Undecodable,     \* those QunetDatabase::decode refuses
    Refused,         \* those with a dictionary zstd refuses
    Plain,           \* those without a dictionary
    Offers,          \* what a server may have: databases, or NoDatabase
    Payloads,        \* data to send: [size, lz4, zstd], the sizes before and after
    NoDatabase, Broken, Gone, NoDict, Uninitialised, Nothing,
    ReconnectLimit,  \* the attempt that is not made any more (7)
    MaxSessions,     \* bound: sessions servers give out
    MaxRestarts      \* bound: restarts of the server

Bad == Undecodable \cup Refused

ASSUME SocketAssumption ==
    /\ Bad \subseteq Databases /\ Plain \subseteq Databases
    /\ Offers \subseteq Databases \cup {NoDatabase}
    /\ {NoDatabase, Broken, Gone, NoDict, Uninitialised, Nothing} \cap Databases = {}
    /\ NoDict # Uninitialised /\ NoDatabase # Gone
    /\ Payloads \subseteq [size : Nat, lz4 : Nat, zstd : Nat]
    /\ ReconnectLimit \in Nat \ {0} /\ MaxSessions \in Nat /\ MaxRestarts \in Nat

VARIABLES
    (* the worker *)
    stage,        \* "down", "transport", "file", "waiting", "saving", "up", "lost", "crashed"
    kind,         \* what is attempted: "connect", "reconnect" or "stateless"
    folder,       \* a folder for databases is set
    usedQdb,      \* m_usedQdb, or Nothing
    new,          \* the Socket under construction
    socket,       \* m_socket, or Nothing
    attempt,      \* m_reconnectAttempt
    tryStateless, \* m_tryStatelessReconnect
    (* outside *)
    file,         \* the database file: a database, Broken, or Nothing
    serverDb,     \* the server's database
    sessions,     \* its sessions, each with the database it uses, or Gone
    nextId,       \* the next connection id
    restarts,
    request,      \* what the server has not seen yet, or Nothing
    answer,       \* what the client has not seen yet, or Nothing
    (* history *)
    told,         \* the session the application knows it is in
    failure,      \* how the last attempt failed
    last          \* the data message that has just passed, or Nothing

attemptVars == <<kind, folder, usedQdb, new>>
workerVars == <<stage, attemptVars, socket, attempt, tryStateless, told, failure>>
serverVars == <<serverDb, sessions, nextId, restarts>>
netVars == <<request, answer>>
vars == <<workerVars, file, serverVars, netVars, last>>

--------------------------------------------------------------------------------

Ids == 1..MaxSessions

\* The dictionary of a session with that database.
DictOf(db) == IF db \in Plain \cup {NoDatabase} THEN NoDict ELSE db

NoFailure == [database |-> FALSE, sent |-> Nothing]

Init ==
    /\ stage = "down" /\ kind = "connect" /\ folder = FALSE /\ usedQdb = Nothing
    /\ new = Nothing /\ socket = Nothing /\ attempt = 0 /\ tryStateless = FALSE
    /\ file = Nothing /\ serverDb \in Offers
    /\ sessions = [id \in Ids |-> Gone] /\ nextId = 1 /\ restarts = 0
    /\ request = Nothing /\ answer = Nothing
    /\ told = 0 /\ failure = NoFailure /\ last = Nothing

--------------------------------------------------------------------------------
(* How an attempt ends *)

\* The new socket is closed by its guard and m_socket keeps what it has.  Without one the
\* connection is Disconnected, otherwise it waits for the next attempt.
Fail(why) ==
    /\ stage' = IF kind = "connect" THEN "down" ELSE "lost"
    /\ failure' = why
    /\ new' = Nothing /\ usedQdb' = Nothing
    /\ request' = Nothing /\ answer' = Nothing
    /\ UNCHANGED <<kind, folder, socket, attempt, told>>

\* Mutant: the application is not told of the new session.
EstablishedSilently(s) ==
    /\ socket' = s
    /\ stage' = "up"
    /\ attempt' = 0 /\ tryStateless' = FALSE
    /\ told' = IF kind = "connect" THEN s.id ELSE told
    /\ new' = Nothing /\ usedQdb' = Nothing /\ failure' = NoFailure
    /\ request' = Nothing /\ answer' = Nothing
    /\ UNCHANGED <<kind, folder>>

\* m_socket is replaced, the state becomes Connected; the application learns of a session
\* of its own through the state, of another one through the state reset callback.
Established(s) ==
    /\ socket' = s
    /\ stage' = "up"
    /\ attempt' = 0 /\ tryStateless' = FALSE
    /\ told' = IF kind \in {"connect", "stateless"} THEN s.id ELSE told
    /\ new' = Nothing /\ usedQdb' = Nothing /\ failure' = NoFailure
    /\ request' = Nothing /\ answer' = Nothing
    /\ UNCHANGED <<kind, folder>>

\* resetConnectionState: a disconnect, a fatal error, or the end of the process.  A file that
\* is being written stays as it is, or is finished in the background.
Abandon ==
    /\ stage' = "down"
    /\ socket' = Nothing /\ attempt' = 0 /\ tryStateless' = FALSE
    /\ new' = Nothing /\ usedQdb' = Nothing /\ failure' = NoFailure
    /\ request' = Nothing /\ answer' = Nothing
    /\ UNCHANGED <<kind, folder, told>>

--------------------------------------------------------------------------------
(* The worker: creating the transport *)

\* The folder may be set or unset between attempts.
Connect ==
    /\ stage = "down"
    /\ stage' = "transport" /\ kind' = "connect" /\ folder' \in BOOLEAN
    /\ failure' = NoFailure
    /\ UNCHANGED <<usedQdb, new, socket, attempt, tryStateless, told, file, serverVars, netVars>>

\* Mutant: attempts are not counted.
NextAttemptUncounted ==
    /\ stage = "lost"
    /\ stage' = "transport"
    /\ kind' = IF tryStateless THEN "stateless" ELSE "reconnect"
    /\ folder' \in BOOLEAN /\ failure' = NoFailure
    /\ UNCHANGED <<usedQdb, new, socket, attempt, tryStateless, told, netVars>>
    /\ UNCHANGED <<file, serverVars>>

\* The worker in state Reconnecting: the next attempt, or none any more.
NextAttempt ==
    /\ stage = "lost"
    /\ \/ /\ attempt + 1 < ReconnectLimit
          /\ stage' = "transport" /\ attempt' = attempt + 1
          /\ kind' = IF tryStateless THEN "stateless" ELSE "reconnect"
          /\ folder' \in BOOLEAN /\ failure' = NoFailure
          /\ UNCHANGED <<usedQdb, new, socket, tryStateless, told, netVars>>
       \/ attempt + 1 >= ReconnectLimit /\ Abandon
    /\ UNCHANGED <<file, serverVars>>

\* createSocket: the transport cannot be created, or not in time.
TransportFails ==
    /\ stage = "transport"
    /\ Fail(NoFailure)
    /\ UNCHANGED <<tryStateless, file, serverVars>>

\* createSocket closes a transport it has just moved away when less than a millisecond is
\* left for the handshake.
LastMillisecond ==
    /\ stage = "transport"
    /\ stage' = "crashed"
    /\ UNCHANGED <<attemptVars, socket, attempt, tryStateless, told, failure, file, serverVars,
                   netVars>>

SendRequest(r) == stage' = "waiting" /\ request' = r /\ answer' = Nothing

TransportCreated ==
    /\ stage = "transport"
    /\ \/ /\ kind = "reconnect"
          /\ SendRequest([kind |-> "reconnect", id |-> socket.id])
       \/ /\ kind # "reconnect" /\ folder
          /\ stage' = "file" /\ UNCHANGED netVars
       \/ /\ kind # "reconnect" /\ ~folder
          /\ SendRequest([kind |-> "start", hash |-> Nothing])
    /\ UNCHANGED <<attemptVars, socket, attempt, tryStateless, told, failure, file, serverVars>>

\* tryFindQdb, on another thread, and the hash of what it found.
TryFindQdb ==
    /\ stage = "file"
    /\ usedQdb' = IF file \in Databases \ Undecodable THEN file ELSE Nothing
    /\ SendRequest([kind |-> "start", hash |-> usedQdb'])
    /\ UNCHANGED <<kind, folder, new, socket, attempt, tryStateless, told, failure, file, serverVars>>

--------------------------------------------------------------------------------
(* The worker: the answer *)

\* arc::timeout around performHandshake and performReconnect, or the transport failed.
HandshakeTimeout ==
    /\ stage = "waiting"
    /\ Fail(NoFailure)
    /\ UNCHANGED <<tryStateless, file, serverVars>>

\* The server refuses, or answers with something else.
HandshakeRefused ==
    /\ stage = "waiting"
    /\ answer # Nothing /\ answer.kind = "refused"
    /\ Fail(NoFailure)
    /\ UNCHANGED <<tryStateless, file, serverVars>>

\* initCompressors of a fresh transport: contexts, with a dictionary if there is one.
InitCompressors(id, db) == [id |-> id, comp |-> DictOf(db), decomp |-> DictOf(db)]

\* Mutant: a database in the file is preferred to the one that was sent.
ChosenFromFile == IF usedQdb # Nothing THEN usedQdb ELSE IF answer.qdb # Nothing THEN answer.qdb ELSE NoDatabase

\* The database of the session: the one that was sent, or the one in the file, or none.
Chosen == IF answer.qdb # Nothing THEN answer.qdb ELSE IF usedQdb # Nothing THEN usedQdb ELSE NoDatabase

\* Mutant: the file is written before the dictionary has been tried.
OnHandshakeSuccessSaveFirst ==
    /\ stage = "waiting"
    /\ answer # Nothing /\ answer.kind = "finish"
    /\ file' = IF answer.qdb # Nothing /\ folder THEN answer.qdb ELSE file
    /\ IF Chosen \in Bad
       THEN Fail([database |-> TRUE, sent |-> answer.qdb]) /\ UNCHANGED tryStateless
       ELSE Established(InitCompressors(answer.id, Chosen))
    /\ UNCHANGED serverVars

\* onHandshakeSuccess: decode what was sent, initialise the compressors, then write the file.
OnHandshakeSuccess ==
    /\ stage = "waiting"
    /\ answer # Nothing /\ answer.kind = "finish"
    /\ \/ /\ Chosen \in Bad
          /\ Fail([database |-> TRUE, sent |-> answer.qdb])
          /\ UNCHANGED <<tryStateless, file>>
       \/ /\ Chosen \notin Bad /\ ~(answer.qdb # Nothing /\ folder)
          /\ Established(InitCompressors(answer.id, Chosen))
          /\ UNCHANGED file
       \/ /\ Chosen \notin Bad /\ answer.qdb # Nothing /\ folder
          /\ stage' = "saving"
          /\ new' = InitCompressors(answer.id, Chosen)
          /\ file' \in {file, Broken}
          /\ UNCHANGED <<kind, folder, usedQdb, socket, attempt, tryStateless, told, failure, netVars>>
    /\ UNCHANGED serverVars

\* saveQdb returns, on success or not.
SaveQdb ==
    /\ stage = "saving"
    /\ file' \in {file, answer.qdb}
    /\ Established(new)
    /\ UNCHANGED serverVars

\* onReconnectSuccess: connection id and compressors are moved from the old socket.
OnReconnectSuccess ==
    /\ stage = "waiting"
    /\ answer # Nothing /\ answer.kind = "success"
    /\ Established([id |-> socket.id, comp |-> socket.comp, decomp |-> socket.decomp])
    /\ UNCHANGED <<file, serverVars>>

\* ReconnectFailed: the next attempt is stateless.
OnReconnectFailure ==
    /\ stage = "waiting"
    /\ answer # Nothing /\ answer.kind = "failure"
    /\ Fail(NoFailure)
    /\ tryStateless' = TRUE
    /\ UNCHANGED <<file, serverVars>>

\* A fatal error: reconnect, or do not.
ConnectionLost ==
    /\ stage = "up"
    /\ stage' = "lost"
    /\ UNCHANGED <<attemptVars, socket, attempt, tryStateless, told, failure, file, serverVars, netVars>>

\* disconnect(), or the process ends, at any moment.  The server hears of it or does not.
Leave ==
    /\ stage \notin {"down", "crashed"}
    /\ Abandon
    /\ \/ stage = "saving" /\ file' = answer.qdb
       \/ UNCHANGED file
    /\ \/ stage = "up" /\ sessions' = [sessions EXCEPT ![socket.id] = Gone]
       \/ UNCHANGED sessions
    /\ UNCHANGED <<serverDb, nextId, restarts>>

--------------------------------------------------------------------------------
(* The server, the network and the file *)

\* A handshake is refused or gets a session; a reconnect succeeds if the session is there.
ServerAnswers ==
    /\ request # Nothing
    /\ request' = Nothing
    /\ \/ answer' = [kind |-> "refused"] /\ UNCHANGED <<sessions, nextId>>
       \/ /\ request.kind = "start" /\ nextId \in Ids
          /\ sessions' = [sessions EXCEPT ![nextId] = serverDb]
          /\ nextId' = nextId + 1
          /\ answer' = [kind |-> "finish", id |-> nextId,
                        qdb |-> IF serverDb \in {NoDatabase, request.hash} THEN Nothing ELSE serverDb]
       \/ /\ request.kind = "reconnect"
          /\ answer' = [kind |-> IF sessions[request.id] # Gone THEN "success" ELSE "failure"]
          /\ UNCHANGED <<sessions, nextId>>
    /\ UNCHANGED <<workerVars, file, serverDb, restarts>>

\* The server restarts, perhaps with another database, and has no sessions any more.
Restart ==
    /\ restarts < MaxRestarts
    /\ restarts' = restarts + 1
    /\ serverDb' \in Offers
    /\ sessions' = [id \in Ids |-> Gone]
    /\ UNCHANGED <<workerVars, file, nextId, netVars>>

\* The server gives up a client it has not heard of for long.
SessionExpires ==
    /\ \E id \in Ids : sessions[id] # Gone /\ sessions' = [sessions EXCEPT ![id] = Gone]
    /\ UNCHANGED <<workerVars, file, serverDb, nextId, restarts, netVars>>

\* Another process that uses the same folder writes a database it has used, or begins to.
FileChanges ==
    /\ file' \in ((Offers \cap Databases) \ Bad) \cup {Broken}
    /\ UNCHANGED <<workerVars, serverVars, netVars>>

--------------------------------------------------------------------------------
(* Data messages *)

Uncompressed(p) == [type |-> "None", orig |-> p.size, size |-> p.size, dict |-> NoDict]

\* doCompress: a message that does not get smaller stays as it is.
DoCompress(type, p) ==
    LET outSize == IF type = "Lz4" THEN p.lz4 ELSE p.zstd
    IN  IF outSize >= p.size
        THEN Uncompressed(p)
        ELSE [type |-> type, orig |-> p.size, size |-> outSize,
              dict |-> IF type = "Zstd" THEN socket.comp ELSE NoDict]

\* shouldCompress, after a trial with lz4.
ShouldCompress(p) ==
    IF p.size < 128 THEN "None"
    ELSE IF p.lz4 >= p.size /\ p.size < 1024 THEN "None"
    ELSE IF p.size >= 512 THEN "Zstd"
    ELSE IF p.lz4 + (p.lz4 \div 16) < p.size THEN "Zstd"
    ELSE "Lz4"

\* sendMessage; the application may ask for no compression.
SendMessage ==
    /\ stage = "up"
    /\ \E p \in Payloads, uncompressed \in BOOLEAN :
         LET type == IF uncompressed THEN "None" ELSE ShouldCompress(p)
         IN  /\ type = "Zstd" => socket.comp # Uninitialised
             /\ last' = IF type = "None" THEN Uncompressed(p) ELSE DoCompress(type, p)
    /\ UNCHANGED <<workerVars, file, serverVars, netVars>>

\* decodePreFinalDataMessage of what the server sends in this session.
ReceiveMessage ==
    /\ stage = "up" /\ sessions[socket.id] # Gone
    /\ \E type \in {"None", "Zstd", "ZstdNoDict", "Lz4"} :
         LET dict == IF type = "Zstd" THEN DictOf(sessions[socket.id]) ELSE NoDict
             ok == /\ type \in {"Zstd", "ZstdNoDict"} => socket.decomp # Uninitialised
                   /\ type = "Zstd" => socket.decomp = dict
         IN  last' = [type |-> "received", ok |-> ok]
    /\ UNCHANGED <<workerVars, file, serverVars, netVars>>

--------------------------------------------------------------------------------

WorkerStep ==
    \/ Connect \/ NextAttempt
    \/ TransportFails \/ LastMillisecond \/ TransportCreated \/ TryFindQdb
    \/ HandshakeTimeout \/ HandshakeRefused \/ OnHandshakeSuccess \/ SaveQdb
    \/ OnReconnectSuccess \/ OnReconnectFailure \/ ConnectionLost \/ Leave

Environment == ServerAnswers \/ Restart \/ SessionExpires \/ FileChanges

Next ==
    \/ (WorkerStep \/ Environment) /\ last' = Nothing
    \/ SendMessage \/ ReceiveMessage

Spec == Init /\ [][Next]_vars

(* The worker goes on, what it awaits has a timeout, and blocking calls return; neither    *)
(* the server nor the network has to do anything.                                          *)
Worker(A) == A /\ last' = Nothing

FairSpec ==
    /\ Spec
    /\ WF_vars(Worker(NextAttempt)) /\ WF_vars(Worker(TransportFails \/ TransportCreated))
    /\ WF_vars(Worker(TryFindQdb)) /\ WF_vars(Worker(HandshakeTimeout)) /\ WF_vars(Worker(SaveQdb))

--------------------------------------------------------------------------------

\* While a session lasts on both sides, the client compresses and decompresses with the
\* dictionary of the server's session, however often it has reconnected, in vain or not,
\* and whatever has become of the file and of the server's database.
DictionariesAgree ==
    stage = "up" /\ sessions[socket.id] # Gone =>
        /\ socket.comp = DictOf(sessions[socket.id])
        /\ socket.decomp = DictOf(sessions[socket.id])

\* What is sent can be read by the server's session and is never longer than the data; what
\* the session sends can be read.
MessagesReadable ==
    last # Nothing =>
        IF last.type = "received"
        THEN last.ok
        ELSE /\ last.size <= last.orig
             /\ last.type = "Zstd" /\ sessions[socket.id] # Gone => last.dict = DictOf(sessions[socket.id])

\* The application is never in a session it does not know of: a reconnect continues the one
\* it was told of, and a new one is announced.
ResetTold == stage = "up" => told = socket.id

\* A database makes an attempt fail only if the server has just sent it: what is in the file
\* has been tried before it was written.
DatabaseErrorsHonest == failure.database => failure.sent \in Bad

\* createSocket never uses the transport it has moved away.
NeverCrashes == stage # "crashed"

\* A lost connection is established again or given up, even if nobody ever answers.
ReconnectEnds == stage = "lost" ~> stage \in {"up", "down", "crashed"}

================================================================================
