----------------------------- MODULE SocketProofs -----------------------------
(***************************************************************************)
(* The handshakes of Socket: the application always knows which session it *)
(* is in, the database file never makes a connection fail, and both ends   *)
(* use the same dictionary.  For every set of databases, any number of     *)
(* sessions, restarts of the server and attempts to reconnect, and every   *)
(* interleaving of the worker with the server, the network and the         *)
(* processes that share the file.                                          *)
(*                                                                         *)
(* The last one needs that the server has a database (NoDatabase \notin    *)
(* Offers): Socket_promises.cfg shows what happens when it has dropped     *)
(* the one that is in the client's file.                                   *)
(***************************************************************************)
EXTENDS Socket, TLAPS

--------------------------------------------------------------------------------
(* The inductive invariant *)

Attempting == {"transport", "file", "waiting", "saving"}

StageInv ==
    /\ stage \in Attempting \cup {"down", "up", "lost", "crashed"}
    /\ kind \in {"connect", "reconnect", "stateless"}
    /\ stage = "file" => kind # "reconnect"

\* m_socket is the socket of a session the application was told of.
InSession ==
    \/ stage \in {"up", "lost"}
    \/ stage \in Attempting /\ kind # "connect"

ToldInv == InSession => told = socket.id

\* What the server has not seen is what this attempt has asked...
RequestInv ==
    request # Nothing =>
        /\ stage = "waiting"
        /\ request = IF kind = "reconnect" THEN [kind |-> "reconnect", id |-> socket.id]
                     ELSE [kind |-> "start", hash |-> usedQdb]

\* ...and what the client has not seen answers it.
AnswerInv ==
    answer # Nothing =>
        /\ request = Nothing
        /\ stage \in {"waiting", "saving"}
        /\ answer.kind \in IF kind = "reconnect" THEN {"refused", "success", "failure"}
                           ELSE {"refused", "finish"}

SavingInv ==
    stage = "saving" =>
        /\ answer # Nothing /\ answer.kind = "finish"
        /\ answer.qdb # Nothing /\ answer.qdb \notin Bad

\* A database in the file has been used before, and an attempt looks for it just once.
FileInv ==
    /\ file \notin Bad
    /\ usedQdb \notin Bad
    /\ usedQdb # Nothing => stage \in {"waiting", "saving"}

IInv ==
    /\ StageInv
    /\ ToldInv
    /\ RequestInv
    /\ AnswerInv
    /\ SavingInv
    /\ FileInv
    /\ DatabaseErrorsHonest

--------------------------------------------------------------------------------
(* The invariant holds initially and is preserved by every action *)

LEMMA NotBad == Nothing \notin Bad /\ Broken \notin Bad /\ NoDatabase \notin Bad
  BY SocketAssumption

LEMMA InitIInv == Init => IInv
  BY NotBad DEF Init, IInv, StageInv, Attempting, ToldInv, InSession, RequestInv, AnswerInv,
                SavingInv, FileInv, DatabaseErrorsHonest, NoFailure

\* An attempt that fails leaves m_socket and what the application knows alone.
LEMMA FailInv ==
    ASSUME IInv, stage \in Attempting, NEW why, Fail(why), why.database => why.sent \in Bad,
           file' = file
    PROVE  IInv'
  <1>1. StageInv' /\ ToldInv'
    BY DEF Fail, IInv, StageInv, ToldInv, InSession, Attempting
  <1>2. RequestInv' /\ AnswerInv' /\ SavingInv'
    BY DEF Fail, RequestInv, AnswerInv, SavingInv
  <1>3. FileInv' /\ DatabaseErrorsHonest'
    BY NotBad DEF Fail, IInv, FileInv, DatabaseErrorsHonest
  <1> QED BY <1>1, <1>2, <1>3 DEF IInv

\* A session is the one the application was told of, or it is told of it.
LEMMA EstablishedInv ==
    ASSUME IInv, NEW s, Established(s),
           kind = "reconnect" => stage \in Attempting /\ s.id = socket.id,
           file' \notin Bad
    PROVE  IInv'
  <1>1. StageInv' /\ ToldInv'
    BY DEF Established, IInv, StageInv, ToldInv, InSession, Attempting
  <1>2. RequestInv' /\ AnswerInv' /\ SavingInv'
    BY DEF Established, RequestInv, AnswerInv, SavingInv
  <1>3. FileInv' /\ DatabaseErrorsHonest'
    BY NotBad DEF Established, FileInv, DatabaseErrorsHonest, NoFailure
  <1> QED BY <1>1, <1>2, <1>3 DEF IInv

\* resetConnectionState leaves no session.
LEMMA AbandonInv ==
    ASSUME IInv, Abandon, file' \notin Bad
    PROVE  IInv'
  <1>1. StageInv' /\ ToldInv'
    BY DEF Abandon, IInv, StageInv, ToldInv, InSession, Attempting
  <1>2. RequestInv' /\ AnswerInv' /\ SavingInv'
    BY DEF Abandon, RequestInv, AnswerInv, SavingInv
  <1>3. FileInv' /\ DatabaseErrorsHonest'
    BY NotBad DEF Abandon, FileInv, DatabaseErrorsHonest, NoFailure
  <1> QED BY <1>1, <1>2, <1>3 DEF IInv

\* The next attempt, the end of the transport's setup, and a lost connection.
LEMMA ConnectInv ==
    ASSUME IInv, Connect
    PROVE  IInv'
  BY DEF Connect, netVars, IInv, StageInv, ToldInv, InSession, Attempting, RequestInv,
         AnswerInv, SavingInv, FileInv, DatabaseErrorsHonest, NoFailure

LEMMA NextAttemptInv ==
    ASSUME IInv, NextAttempt
    PROVE  IInv'
  <1>1. CASE Abandon
    BY <1>1, AbandonInv DEF NextAttempt, IInv, FileInv
  <1>2. CASE /\ stage' = "transport"
             /\ kind' = IF tryStateless THEN "stateless" ELSE "reconnect"
             /\ failure' = NoFailure
             /\ UNCHANGED <<usedQdb, new, socket, told, netVars>>
    BY <1>2 DEF NextAttempt, netVars, IInv, StageInv, ToldInv, InSession, Attempting,
                RequestInv, AnswerInv, SavingInv, FileInv, DatabaseErrorsHonest, NoFailure
  <1> QED BY <1>1, <1>2 DEF NextAttempt

LEMMA LastMillisecondInv ==
    ASSUME IInv, LastMillisecond
    PROVE  IInv'
  BY DEF LastMillisecond, attemptVars, netVars, IInv, StageInv, ToldInv, InSession, Attempting,
         RequestInv, AnswerInv, SavingInv, FileInv, DatabaseErrorsHonest

LEMMA TransportCreatedInv ==
    ASSUME IInv, TransportCreated
    PROVE  IInv'
  <1>0. UNCHANGED <<kind, folder, usedQdb, new, socket, told, failure, file>> /\ stage = "transport"
    BY DEF TransportCreated, attemptVars
  <1>1. StageInv' /\ ToldInv' /\ FileInv' /\ DatabaseErrorsHonest'
    BY <1>0 DEF TransportCreated, SendRequest, IInv, StageInv, ToldInv, InSession, Attempting,
                FileInv, DatabaseErrorsHonest
  <1>2. RequestInv' /\ AnswerInv' /\ SavingInv'
    BY <1>0 DEF TransportCreated, SendRequest, netVars, IInv, RequestInv, AnswerInv, SavingInv,
                FileInv
  <1> QED BY <1>1, <1>2 DEF IInv

\* The client sends the hash of the database it found.
LEMMA TryFindQdbInv ==
    ASSUME IInv, TryFindQdb
    PROVE  IInv'
  <1>0. /\ UNCHANGED <<kind, folder, new, socket, told, failure, file>>
        /\ stage = "file" /\ stage' = "waiting" /\ answer' = Nothing
        /\ request' = [kind |-> "start", hash |-> usedQdb']
        /\ usedQdb' \in {file, Nothing}
    BY DEF TryFindQdb, SendRequest
  <1>1. StageInv' /\ ToldInv' /\ FileInv' /\ DatabaseErrorsHonest'
    BY <1>0, NotBad DEF IInv, StageInv, ToldInv, InSession, Attempting, FileInv,
                        DatabaseErrorsHonest
  <1>2. RequestInv'
    BY <1>0 DEF IInv, StageInv, RequestInv
  <1>3. AnswerInv' /\ SavingInv'
    BY <1>0 DEF AnswerInv, SavingInv
  <1> QED BY <1>1, <1>2, <1>3 DEF IInv

\* The database of the session is bad only if the server has just sent it.
LEMMA ChosenFacts ==
    ASSUME IInv
    PROVE  /\ answer.qdb # Nothing => Chosen = answer.qdb
           /\ Chosen \in Bad => answer.qdb \in Bad
  BY NotBad DEF Chosen, IInv, FileInv

LEMMA OnHandshakeSuccessInv ==
    ASSUME IInv, OnHandshakeSuccess
    PROVE  IInv'
  <1>0. stage = "waiting" /\ answer # Nothing /\ answer.kind = "finish"
    BY DEF OnHandshakeSuccess
  <1>1. kind # "reconnect" /\ stage \in Attempting /\ file \notin Bad
    BY <1>0 DEF IInv, AnswerInv, FileInv, Attempting
  <1>2. CASE Chosen \in Bad /\ Fail([database |-> TRUE, sent |-> answer.qdb]) /\ file' = file
    BY <1>1, <1>2, FailInv, ChosenFacts
  <1>3. CASE Established(InitCompressors(answer.id, Chosen)) /\ file' = file
    BY <1>1, <1>3, EstablishedInv
  <1>4. CASE /\ Chosen \notin Bad /\ answer.qdb # Nothing
             /\ stage' = "saving"
             /\ file' \in {file, Broken}
             /\ UNCHANGED <<kind, folder, usedQdb, socket, told, failure, netVars>>
    <2>1. answer.qdb \notin Bad /\ request = Nothing
      BY <1>0, <1>4, ChosenFacts DEF IInv, AnswerInv
    <2>2. StageInv' /\ ToldInv' /\ FileInv' /\ DatabaseErrorsHonest'
      BY <1>0, <1>4, NotBad DEF IInv, StageInv, ToldInv, InSession, Attempting, FileInv,
                                DatabaseErrorsHonest
    <2>3. RequestInv' /\ AnswerInv' /\ SavingInv'
      BY <1>0, <1>4, <2>1 DEF netVars, IInv, RequestInv, AnswerInv, SavingInv
    <2> QED BY <2>2, <2>3 DEF IInv
  <1> QED BY <1>2, <1>3, <1>4 DEF OnHandshakeSuccess

LEMMA SaveQdbInv ==
    ASSUME IInv, SaveQdb
    PROVE  IInv'
  <1>1. kind # "reconnect" /\ file' \notin Bad
    BY DEF SaveQdb, IInv, AnswerInv, SavingInv, FileInv
  <1> QED BY <1>1, EstablishedInv DEF SaveQdb

\* What continues is the session of m_socket.
LEMMA OnReconnectSuccessInv ==
    ASSUME IInv, OnReconnectSuccess
    PROVE  IInv'
  <1>1. stage \in Attempting /\ file' \notin Bad
    BY DEF OnReconnectSuccess, Attempting, IInv, FileInv
  <1> DEFINE s == [id |-> socket.id, comp |-> socket.comp, decomp |-> socket.decomp]
  <1>2. Established(s) /\ s.id = socket.id
    BY DEF OnReconnectSuccess
  <1> HIDE DEF s
  <1> QED BY <1>1, <1>2, EstablishedInv

LEMMA ConnectionLostInv ==
    ASSUME IInv, ConnectionLost
    PROVE  IInv'
  BY DEF ConnectionLost, attemptVars, netVars, IInv, StageInv, ToldInv, InSession, Attempting,
         RequestInv, AnswerInv, SavingInv, FileInv, DatabaseErrorsHonest

LEMMA LeaveInv ==
    ASSUME IInv, Leave
    PROVE  IInv'
  <1>1. file' \notin Bad
    BY DEF Leave, IInv, FileInv, SavingInv
  <1> QED BY <1>1, AbandonInv DEF Leave

\* The server answers what it was asked.
LEMMA ServerAnswersInv ==
    ASSUME IInv, ServerAnswers
    PROVE  IInv'
  <1>0. /\ UNCHANGED <<stage, kind, folder, usedQdb, new, socket, told, failure, file>>
        /\ request # Nothing /\ request' = Nothing
    BY DEF ServerAnswers, workerVars, attemptVars
  <1>1. StageInv' /\ ToldInv' /\ FileInv' /\ DatabaseErrorsHonest' /\ RequestInv'
    BY <1>0 DEF IInv, StageInv, ToldInv, InSession, FileInv, DatabaseErrorsHonest, RequestInv
  <1>2. stage = "waiting"
        /\ request.kind = IF kind = "reconnect" THEN "reconnect" ELSE "start"
    BY <1>0 DEF IInv, RequestInv
  <1>3. /\ kind = "reconnect" => answer'.kind \in {"refused", "success", "failure"}
        /\ kind # "reconnect" => answer'.kind \in {"refused", "finish"}
    BY <1>2 DEF ServerAnswers
  <1>4. AnswerInv' /\ SavingInv'
    BY <1>0, <1>2, <1>3 DEF AnswerInv, SavingInv
  <1> QED BY <1>1, <1>4 DEF IInv

\* Steps that change at most the server, or put another used database into the file.
LEMMA OutsideInv ==
    ASSUME IInv, UNCHANGED <<workerVars, netVars>>, file' \notin Bad
    PROVE  IInv'
  BY DEF workerVars, attemptVars, netVars, IInv, StageInv, ToldInv, InSession, RequestInv,
         AnswerInv, SavingInv, FileInv, DatabaseErrorsHonest

\* The invariant is inductive.
LEMMA NextIInv ==
    ASSUME IInv, [Next]_vars
    PROVE  IInv'
  <1>0. file \notin Bad
    BY DEF IInv, FileInv
  <1>1. CASE TransportFails \/ HandshakeTimeout \/ HandshakeRefused \/ OnReconnectFailure
    BY <1>1, FailInv DEF TransportFails, HandshakeTimeout, HandshakeRefused, OnReconnectFailure,
                         NoFailure, Attempting
  <1>2. CASE Restart \/ SessionExpires \/ SendMessage \/ ReceiveMessage
    BY <1>0, <1>2, OutsideInv DEF Restart, SessionExpires, SendMessage, ReceiveMessage
  <1>3. CASE FileChanges
    BY <1>3, OutsideInv, NotBad DEF FileChanges
  <1>4. CASE UNCHANGED vars
    BY <1>0, <1>4, OutsideInv DEF vars
  <1> QED BY <1>1, <1>2, <1>3, <1>4, ConnectInv, NextAttemptInv, LastMillisecondInv,
             TransportCreatedInv, TryFindQdbInv, OnHandshakeSuccessInv, SaveQdbInv,
             OnReconnectSuccessInv, ConnectionLostInv, LeaveInv, ServerAnswersInv
          DEF Next, WorkerStep, Environment

--------------------------------------------------------------------------------
(* Dictionaries.  The server has a database.                                   *)

HasDatabase == NoDatabase \notin Offers

TypeInv ==
    /\ serverDb \in Databases
    /\ nextId \in Nat /\ nextId >= 1
    /\ sessions \in [Ids -> Databases \cup {Gone}]

\* The sessions the server has given out.
Given == 1..(nextId - 1)

\* The compressors of s are those of session id on the server, if it is still there.
Fits(s, id) ==
    sessions[id] # Gone =>
        s.comp = DictOf(sessions[id]) /\ s.decomp = DictOf(sessions[id])

SocketFits == InSession => socket.id \in Ids \cap Given /\ Fits(socket, socket.id)

\* The answer to a handshake names the database of the session it opens.
AnswerFits ==
    answer # Nothing /\ answer.kind = "finish" =>
        /\ answer.id \in Ids \cap Given
        /\ sessions[answer.id] # Gone => Chosen = sessions[answer.id]

NewFits == stage = "saving" => new = InitCompressors(answer.id, Chosen)

DInv == TypeInv /\ SocketFits /\ AnswerFits /\ NewFits

LEMMA InitDInv == HasDatabase /\ Init => DInv
  BY SocketAssumption DEF HasDatabase, Init, DInv, TypeInv, SocketFits, InSession, Attempting,
                          AnswerFits, NewFits

\* Steps of the worker that leave the server alone.
LEMMA FailDInv ==
    ASSUME DInv, IInv, NEW why, Fail(why), stage \in Attempting, UNCHANGED serverVars
    PROVE  DInv'
  <1>1. TypeInv'
    BY DEF serverVars, DInv, TypeInv
  <1>2. InSession' => InSession
    BY DEF Fail, InSession, Attempting
  <1>3. SocketFits'
    BY <1>2 DEF Fail, serverVars, DInv, SocketFits, Fits, Given
  <1>4. AnswerFits' /\ NewFits'
    BY DEF Fail, AnswerFits, NewFits
  <1> QED BY <1>1, <1>3, <1>4 DEF DInv

LEMMA EstablishedDInv ==
    ASSUME DInv, NEW s, Established(s), s.id \in Ids \cap Given, Fits(s, s.id),
           UNCHANGED serverVars
    PROVE  DInv'
  <1>1. TypeInv'
    BY DEF serverVars, DInv, TypeInv
  <1>2. SocketFits'
    BY DEF Established, serverVars, SocketFits, Fits, Given
  <1>3. AnswerFits' /\ NewFits'
    BY DEF Established, AnswerFits, NewFits
  <1> QED BY <1>1, <1>2, <1>3 DEF DInv

LEMMA AbandonDInv ==
    ASSUME DInv, Abandon, TypeInv'
    PROVE  DInv'
  BY DEF Abandon, DInv, SocketFits, InSession, Attempting, AnswerFits, NewFits

\* The worker goes on with m_socket as it is, and no answer yet.
LEMMA AttemptDInv ==
    ASSUME DInv, InSession' => InSession, UNCHANGED <<socket, serverVars>>, answer' = Nothing,
           stage' # "saving"
    PROVE  DInv'
  <1>1. TypeInv'
    BY DEF serverVars, DInv, TypeInv
  <1>2. SocketFits'
    BY DEF serverVars, DInv, SocketFits, Fits, Given
  <1>3. AnswerFits' /\ NewFits'
    BY DEF AnswerFits, NewFits
  <1> QED BY <1>1, <1>2, <1>3 DEF DInv

\* The compressors made from an answer are those of the session it opens.
LEMMA InitFits ==
    ASSUME DInv, answer # Nothing, answer.kind = "finish"
    PROVE  LET s == InitCompressors(answer.id, Chosen)
           IN  s.id = answer.id /\ s.id \in Ids \cap Given /\ Fits(s, s.id)
  <1> DEFINE s == InitCompressors(answer.id, Chosen)
  <1>1. s.id = answer.id /\ s.comp = DictOf(Chosen) /\ s.decomp = DictOf(Chosen)
    BY DEF InitCompressors
  <1>2. answer.id \in Ids \cap Given /\ (sessions[answer.id] # Gone => Chosen = sessions[answer.id])
    BY DEF DInv, AnswerFits
  <1> HIDE DEF s
  <1>3. s.id \in Ids \cap Given /\ Fits(s, s.id)
    BY <1>1, <1>2 DEF Fits
  <1> QED BY <1>1, <1>3 DEF s

LEMMA OnHandshakeSuccessDInv ==
    ASSUME DInv, IInv, OnHandshakeSuccess
    PROVE  DInv'
  <1>0. stage = "waiting" /\ answer # Nothing /\ answer.kind = "finish" /\ UNCHANGED serverVars
        /\ stage \in Attempting
    BY DEF OnHandshakeSuccess, Attempting
  <1>1. CASE Fail([database |-> TRUE, sent |-> answer.qdb])
    BY <1>0, <1>1, FailDInv
  <1>2. CASE Established(InitCompressors(answer.id, Chosen))
    BY <1>0, <1>2, InitFits, EstablishedDInv
  <1>3. CASE /\ stage' = "saving"
             /\ new' = InitCompressors(answer.id, Chosen)
             /\ UNCHANGED <<kind, usedQdb, socket, netVars>>
    <2>1. TypeInv'
      BY <1>0 DEF serverVars, DInv, TypeInv
    <2>2. SocketFits'
      BY <1>0, <1>3 DEF serverVars, DInv, SocketFits, InSession, Attempting, Fits, Given
    <2>3. answer' = answer /\ Chosen' = Chosen
      BY <1>3 DEF netVars, Chosen
    <2>4. AnswerFits'
      BY <1>0, <2>3 DEF serverVars, DInv, AnswerFits, Given
    <2>5. NewFits'
      BY <1>3, <2>3 DEF NewFits, InitCompressors
    <2> QED BY <2>1, <2>2, <2>4, <2>5 DEF DInv
  <1> QED BY <1>1, <1>2, <1>3 DEF OnHandshakeSuccess

LEMMA SaveQdbDInv ==
    ASSUME DInv, IInv, SaveQdb
    PROVE  DInv'
  <1>1. answer # Nothing /\ answer.kind = "finish" /\ new = InitCompressors(answer.id, Chosen)
    BY DEF SaveQdb, IInv, SavingInv, DInv, NewFits
  <1> QED BY <1>1, InitFits, EstablishedDInv DEF SaveQdb

LEMMA OnReconnectSuccessDInv ==
    ASSUME DInv, IInv, OnReconnectSuccess
    PROVE  DInv'
  <1> DEFINE s == [id |-> socket.id, comp |-> socket.comp, decomp |-> socket.decomp]
  <1>1. Established(s) /\ UNCHANGED serverVars /\ s.id = socket.id
        /\ s.comp = socket.comp /\ s.decomp = socket.decomp
    BY DEF OnReconnectSuccess
  <1>2. InSession
    BY DEF OnReconnectSuccess, IInv, AnswerInv, InSession, Attempting
  <1> HIDE DEF s
  <1>3. s.id \in Ids \cap Given /\ Fits(s, s.id)
    BY <1>1, <1>2 DEF DInv, SocketFits, Fits
  <1> QED BY <1>1, <1>3, EstablishedDInv

\* A session the server ends fits every socket.
LEMMA SessionsEndDInv ==
    ASSUME DInv, UNCHANGED <<stage, kind, usedQdb, new, socket, netVars, nextId>>,
           serverDb' \in Databases,
           sessions' \in [Ids -> Databases \cup {Gone}],
           \A id \in Ids : sessions'[id] \in {sessions[id], Gone}
    PROVE  DInv'
  <1>1. TypeInv'
    BY DEF DInv, TypeInv
  <1>2. SocketFits'
    BY DEF DInv, SocketFits, InSession, Fits, Given
  <1>3. answer' = answer /\ Chosen' = Chosen
    BY DEF netVars, Chosen
  <1>4. AnswerFits'
    BY <1>3 DEF DInv, AnswerFits, Given
  <1>5. NewFits'
    BY <1>3 DEF DInv, NewFits, InitCompressors
  <1> QED BY <1>1, <1>2, <1>4, <1>5 DEF DInv

LEMMA LeaveDInv ==
    ASSUME DInv, Leave
    PROVE  DInv'
  <1>1. TypeInv'
    BY DEF Leave, DInv, TypeInv
  <1> QED BY <1>1, AbandonDInv DEF Leave

\* A new session has an id of its own, and the answer names its database.
LEMMA ServerAnswersDInv ==
    ASSUME DInv, IInv, ServerAnswers
    PROVE  DInv'
  <1>0. /\ UNCHANGED <<stage, kind, usedQdb, new, socket, serverDb>>
        /\ request # Nothing /\ stage = "waiting"
        /\ request = IF kind = "reconnect" THEN [kind |-> "reconnect", id |-> socket.id]
                     ELSE [kind |-> "start", hash |-> usedQdb]
    BY DEF ServerAnswers, workerVars, attemptVars, IInv, RequestInv
  <1>1. NewFits'
    BY <1>0 DEF NewFits
  <1>2. CASE UNCHANGED <<sessions, nextId>> /\ answer'.kind # "finish"
    <2>1. TypeInv' /\ SocketFits' /\ AnswerFits'
      BY <1>0, <1>2 DEF DInv, TypeInv, SocketFits, InSession, Fits, Given, AnswerFits
    <2> QED BY <1>1, <2>1 DEF DInv
  <1>3. CASE /\ request.kind = "start" /\ nextId \in Ids
             /\ sessions' = [sessions EXCEPT ![nextId] = serverDb]
             /\ nextId' = nextId + 1
             /\ answer' = [kind |-> "finish", id |-> nextId,
                           qdb |-> IF serverDb \in {NoDatabase, request.hash} THEN Nothing
                                   ELSE serverDb]
    <2>1. /\ serverDb \in Databases /\ nextId \in Nat /\ nextId >= 1
          /\ sessions \in [Ids -> Databases \cup {Gone}]
      BY DEF DInv, TypeInv
    <2>2. TypeInv'
      BY <1>0, <1>3, <2>1 DEF TypeInv
    <2>3. \A id \in Given : id \in Given' /\ id # nextId
      BY <1>3, <2>1 DEF Given
    <2>4. SocketFits'
      BY <1>0, <1>3, <2>1, <2>3 DEF DInv, SocketFits, InSession, Fits
    <2>5. request.hash = usedQdb
      BY <1>0, <1>3
    <2>6. Chosen' = serverDb
      BY <1>0, <1>3, <2>1, <2>5, SocketAssumption DEF Chosen
    <2>7. nextId \in Given'
      BY <1>3, <2>1 DEF Given
    <2>8. AnswerFits'
      BY <1>3, <2>1, <2>6, <2>7 DEF AnswerFits
    <2> QED BY <1>1, <2>2, <2>4, <2>8 DEF DInv
  <1> QED BY <1>2, <1>3 DEF ServerAnswers

LEMMA NextDInv ==
    ASSUME HasDatabase, IInv, DInv, [Next]_vars
    PROVE  DInv'
  <1>0. sessions \in [Ids -> Databases \cup {Gone}] /\ serverDb \in Databases
    BY DEF DInv, TypeInv
  <1>1. CASE TransportFails \/ HandshakeTimeout \/ HandshakeRefused \/ OnReconnectFailure
    BY <1>1, FailDInv DEF TransportFails, HandshakeTimeout, HandshakeRefused, OnReconnectFailure,
                          Attempting
  <1>2. CASE Connect \/ NextAttempt \/ LastMillisecond \/ TransportCreated \/ TryFindQdb
             \/ ConnectionLost
    <2>1. answer = Nothing
      BY <1>2 DEF IInv, AnswerInv, Connect, NextAttempt, LastMillisecond, TransportCreated,
                  TryFindQdb, ConnectionLost
    <2>2. CASE Connect \/ LastMillisecond \/ TransportCreated \/ TryFindQdb \/ ConnectionLost
      BY <2>1, <2>2, AttemptDInv
         DEF Connect, LastMillisecond, TransportCreated, TryFindQdb, ConnectionLost, SendRequest,
             InSession, Attempting, attemptVars, netVars
    <2>3. CASE NextAttempt
      <3>1. CASE Abandon
        <4>1. TypeInv'
          BY <2>3 DEF NextAttempt, serverVars, DInv, TypeInv
        <4> QED BY <3>1, <4>1, AbandonDInv
      <3>2. CASE stage' = "transport" /\ UNCHANGED <<socket, netVars>>
        BY <2>1, <2>3, <3>2, AttemptDInv DEF NextAttempt, InSession, netVars
      <3> QED BY <2>3, <3>1, <3>2 DEF NextAttempt
    <2> QED BY <1>2, <2>2, <2>3
  <1>3. CASE Restart
    BY <1>0, <1>3, SessionsEndDInv, SocketAssumption
       DEF Restart, workerVars, attemptVars, HasDatabase
  <1>4. CASE SessionExpires
    BY <1>0, <1>4, SessionsEndDInv DEF SessionExpires, workerVars, attemptVars
  <1>5. CASE FileChanges \/ SendMessage \/ ReceiveMessage \/ UNCHANGED vars
    BY <1>0, <1>5, SessionsEndDInv DEF FileChanges, SendMessage, ReceiveMessage, vars,
                                       workerVars, attemptVars, serverVars
  <1> QED BY <1>1, <1>2, <1>3, <1>4, <1>5, OnHandshakeSuccessDInv, SaveQdbDInv,
             OnReconnectSuccessDInv, LeaveDInv, ServerAnswersDInv
          DEF Next, WorkerStep, Environment

--------------------------------------------------------------------------------
(* What follows from the invariants *)

\* doCompress keeps data that does not get smaller, and uses the dictionary of the socket.
LEMMA DoCompressFacts ==
    ASSUME NEW p \in Payloads, NEW type \in {"Zstd", "Lz4"}
    PROVE  LET m == DoCompress(type, p)
           IN  /\ m.type \in {"None", "Zstd", "Lz4"}
               /\ m.size <= m.orig
               /\ m.type = "Zstd" => m.dict = socket.comp
  <1>1. p.size \in Nat /\ p.lz4 \in Nat /\ p.zstd \in Nat
    BY SocketAssumption
  <1>2. CASE type = "Lz4"
    BY <1>1, <1>2 DEF DoCompress, Uncompressed
  <1>3. CASE type = "Zstd"
    BY <1>1, <1>3 DEF DoCompress, Uncompressed
  <1> QED BY <1>2, <1>3

LEMMA SocketFitsAgree ==
    ASSUME DInv
    PROVE  DictionariesAgree
  BY DEF DInv, SocketFits, InSession, Fits, DictionariesAgree

\* A data message is made from the socket as it is, and the sessions stay.
LEMMA NextReadable ==
    ASSUME DInv, MessagesReadable, [Next]_vars
    PROVE  MessagesReadable'
  <1>0. DictionariesAgree
    BY SocketFitsAgree
  <1>1. CASE last' = Nothing
    BY <1>1 DEF MessagesReadable
  <1>2. CASE SendMessage
    <2>1. UNCHANGED <<sessions, socket>> /\ stage = "up"
      BY <1>2 DEF SendMessage, workerVars, serverVars
    <2>2. PICK p \in Payloads, type \in {"None", "Zstd", "Lz4"} :
             last' = IF type = "None" THEN Uncompressed(p) ELSE DoCompress(type, p)
      BY <1>2 DEF SendMessage, ShouldCompress
    <2>3. /\ last'.type \in {"None", "Zstd", "Lz4"}
          /\ last'.size <= last'.orig
          /\ last'.type = "Zstd" => last'.dict = socket.comp
      <3>1. CASE type = "None"
        <4>1. p.size \in Nat
          BY SocketAssumption
        <4> QED BY <2>2, <3>1, <4>1 DEF Uncompressed
      <3>2. CASE type # "None"
        BY <2>2, <3>2, DoCompressFacts
      <3> QED BY <3>1, <3>2
    <2> QED BY <2>1, <2>3, <1>0 DEF MessagesReadable, DictionariesAgree
  <1>3. CASE ReceiveMessage
    <2>1. /\ stage = "up" /\ sessions[socket.id] # Gone
          /\ socket.id \in Ids /\ sessions[socket.id] \in Databases
      BY <1>3 DEF ReceiveMessage, DInv, TypeInv, SocketFits, InSession
    <2>2. socket.decomp = DictOf(sessions[socket.id])
      BY <2>1, <1>0 DEF DictionariesAgree
    <2>3. socket.decomp # Uninitialised
      BY <2>1, <2>2, SocketAssumption DEF DictOf
    <2>4. last'.type = "received" /\ last'.ok
      BY <2>2, <2>3, <1>3 DEF ReceiveMessage
    <2> QED BY <2>4 DEF MessagesReadable
  <1>4. CASE UNCHANGED vars
    BY <1>4 DEF vars, workerVars, serverVars, MessagesReadable, DictOf
  <1> QED BY <1>1, <1>2, <1>3, <1>4 DEF Next

--------------------------------------------------------------------------------
(* Theorems *)

\* The inductive invariant holds in every reachable state of the socket.
THEOREM Invariance == Spec => []IInv
  BY InitIInv, NextIInv, PTL DEF Spec

\* The application is never in a session it does not know of: performReconnect continues
\* the session of the old socket, and a stateless reconnect is announced.
THEOREM SessionsAreTold == Spec => []ResetTold
  <1>1. IInv => ResetTold
    BY DEF IInv, ToldInv, InSession, ResetTold
  <1> QED BY <1>1, Invariance, PTL

\* Only a database the server has just sent makes an attempt fail: tryFindQdb never finds
\* one that onHandshakeSuccess would refuse, although saveQdb may be cut short and other
\* processes write the file.
THEOREM FileIsHarmless == Spec => []DatabaseErrorsHonest
  <1>1. IInv => DatabaseErrorsHonest
    BY DEF IInv
  <1> QED BY <1>1, Invariance, PTL

\* If the server has a database, both ends of a session use the same dictionary, however
\* often the client has reconnected.
THEOREM SameDictionary ==
    ASSUME HasDatabase
    PROVE  Spec => []DictionariesAgree
  <1>1. Init => IInv /\ DInv
    BY InitIInv, InitDInv
  <1>2. IInv /\ DInv /\ [Next]_vars => (IInv /\ DInv)'
    BY NextIInv, NextDInv
  <1>3. IInv /\ DInv => DictionariesAgree
    BY SocketFitsAgree
  <1> QED BY <1>1, <1>2, <1>3, PTL DEF Spec

\* If the server has a database, every message of a session can be read, and compression
\* never makes one longer (doCompress, shouldCompress, decodePreFinalDataMessage).
THEOREM MessagesAreReadable ==
    ASSUME HasDatabase
    PROVE  Spec => []MessagesReadable
  <1>1. Init => IInv /\ DInv /\ MessagesReadable
    <2>1. Init => MessagesReadable
      BY DEF Init, MessagesReadable
    <2> QED BY <2>1, InitIInv, InitDInv
  <1>2. IInv /\ DInv /\ MessagesReadable /\ [Next]_vars => (IInv /\ DInv /\ MessagesReadable)'
    BY NextIInv, NextDInv, NextReadable
  <1> QED BY <1>1, <1>2, PTL DEF Spec

================================================================================
