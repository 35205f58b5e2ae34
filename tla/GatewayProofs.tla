--------------------------- MODULE GatewayProofs ---------------------------
(***************************************************************************)
(* Theorems about Gateway: what is proved of the buffer, of Recovery and   *)
(* of StreamStatus holds where they are put together, and what only their  *)
(* composition has, the order of the sessions clients see, is proved of    *)
(* it.  Where seqnos have to move forward this takes what it takes in      *)
(* SubscriberProofs: sessions that are short and do not come back.         *)
(***************************************************************************)
EXTENDS Gateway, SubscriberProofs

SP == INSTANCE StreamStatusProofs

(* What a message does to the statuses is a step of StreamStatus, or none. *)
LEMMA ParseSteps ==
  ASSUME NEW type, ParseIncremental(type) \/ ParseSnapshot(type)
  PROVE  S!Running \/ UNCHANGED statusVars
BY DEF ParseIncremental, ParseSnapshot, S!Running, statusVars

(* Every step of the gateway is a step of StreamStatus, or leaves it alone. *)
LEMMA StatusSteps ==
  ASSUME [GatewayNext]_gatewayVars
  PROVE  [S!Next]_(S!vars)
<1>1. CASE UNCHANGED gatewayVars
  BY <1>1 DEF gatewayVars, statusVars, S!vars
<1>2. CASE ~terminated /\ (Arrival \/ IncrementalTurn \/ SnapshotTurn)
  <2>1. S!Running \/ UNCHANGED statusVars
    BY <1>2, ParseSteps
    DEF Arrival, IncrementalTurn, SnapshotTurn, IncrementalCallback, SnapshotCallback
  <2>2. QED
    BY <1>2, <2>1 DEF S!Next, S!vars, statusVars
<1>3. CASE ~terminated /\ (Timer \/ Tick \/ ReceiverError)
  BY <1>3 DEF Timer, Tick, ReceiverError, BetweenTurns, S!Next, S!Running
<1>4. QED
  BY <1>1, <1>2, <1>3 DEF GatewayNext

(* And a turn of the subscriber, whatever the types of the messages.       *)
LEMMA GatewayTurn ==
  ASSUME [GatewayNext]_gatewayVars
  PROVE  [SubscriberNext]_subscriberVars
<1>1. CASE Arrival
  BY <1>1 DEF Arrival, SubscriberNext
<1>2. CASE IncrementalTurn
  <2>1. PICK m \in Messages, snapshot \in BOOLEAN : IncrementalCallback(m, snapshot)
    BY <1>2 DEF IncrementalTurn
  <2>2. QED
    BY <2>1, GatewayAssumption DEF IncrementalCallback, Parse, SubscriberNext
<1>3. CASE SnapshotTurn
  <2>1. PICK s \in SessionIds, m \in Messages, last_seqno \in Seqnos :
          SnapshotCallback(s, m, last_seqno)
    BY <1>3 DEF SnapshotTurn
  <2>2. QED
    BY <2>1, GatewayAssumption DEF SnapshotCallback, SubscriberNext
<1>4. CASE Timer \/ Tick \/ ReceiverError \/ UNCHANGED gatewayVars
  BY <1>4 DEF Timer, Tick, ReceiverError, BetweenTurns, gatewayVars
<1>5. QED
  BY <1>1, <1>2, <1>3, <1>4 DEF GatewayNext

LEMMA GatewayTurns == GatewaySpec => Turns
<1>1. GatewayInit => SubscriberInit
  BY DEF GatewayInit
<1>2. QED
  BY <1>1, GatewayTurn, PTL DEF GatewaySpec, Turns

-----------------------------------------------------------------------------
(* The recovery from snapshots in the gateway.                             *)

(* Clients of the gateway get no snapshot from before the update an object *)
(* waits with, and the first one as new as the incremental channel.        *)
THEOREM GatewayCovers ==
  ASSUME Short, ~LateSessions
  PROVE  GatewaySpec => [](CoversFirst /\ NewestIncluded)
BY GatewayTurns, TurnsRecover, TurnsNewest, StepsCover, PTL

(* While a session lasts, the buffer, the filter and the parse callbacks   *)
(* together bring clients no snapshot that is older than the last one, and *)
(* nothing that takes them back once an object is ready.                   *)
THEOREM GatewayNeverBack ==
  ASSUME Short, ~LateSessions
  PROVE  GatewaySpec => SnapshotsForward /\ ReadyNeverBack
BY GatewayTurns, TurnsRecover, StepsForward, StepsReady, PTL

-----------------------------------------------------------------------------
(* The order of the sessions clients see.                                  *)

(* Clients are not ahead of the incremental channel, which is not ahead of *)
(* its buffer.                                                             *)
PassedInv == passed \in Nat /\ passed <= session_id

(* The session of the incremental channel moves forward with the buffer's. *)
LEMMA SessionForward ==
  ASSUME Short, TurnInv, [SubscriberNext]_subscriberVars
  PROVE  session_id' >= session_id
<1>1. session_id \in Nat /\ session_id <= buffer_session
  BY DEF TurnInv
<1>2. CASE Parse
  BY <1>1, <1>2, NextMessage, Numbers DEF Parse, ParseMessage, ParsedIncremental
<1>3. CASE UNCHANGED session_id
  BY <1>1, <1>3
<1>4. QED
  BY <1>2, <1>3
  DEF SubscriberNext, Datagram, SnapshotRead, ReceiveSnapshot, subscriberVars, vars

(* What is passed on is of the session the incremental channel is in.      *)
LEMMA PassedStep ==
  ASSUME [GatewayNext]_gatewayVars
  PROVE  passed' \in {passed, session_id'}
<1>1. CASE IncrementalTurn
  BY <1>1 DEF IncrementalTurn, IncrementalCallback, PassedOn
<1>2. CASE SnapshotTurn
  <2>1. PICK s \in SessionIds, m \in Messages, last_seqno \in Seqnos :
          SnapshotCallback(s, m, last_seqno)
    BY <1>2 DEF SnapshotTurn
  <2>2. CASE SnapshotParsed(s, m[1], last_seqno)
    <3>1. session_id' = session_id /\ s = session_id
      BY <2>1, <2>2 DEF SnapshotCallback, SnapshotRead, ReceiveSnapshot, SnapshotParsed, vars
    <3>2. QED
      BY <2>1, <2>2, <3>1 DEF SnapshotCallback, PassedOn
  <2>3. QED
    BY <2>1, <2>2 DEF SnapshotCallback
<1>3. QED
  BY <1>1, <1>2
  DEF GatewayNext, Arrival, Timer, Tick, ReceiverError, BetweenTurns, gatewayVars

(* In sessions that are short and do not come back: once clients got       *)
(* something of a session, on either channel, nothing of an earlier one    *)
(* follows.                                                                *)
THEOREM SessionsStayInOrder ==
  ASSUME Short, ~LateSessions
  PROVE  GatewaySpec => SessionsInOrder
<1>1. GatewayInit => PassedInv
  BY DEF GatewayInit, SubscriberInit, Init, PassedInv
<1>2. TurnInv /\ PassedInv /\ [GatewayNext]_gatewayVars => PassedInv' /\ passed' >= passed
  <2>1. SUFFICES ASSUME TurnInv, PassedInv, [GatewayNext]_gatewayVars
                 PROVE  PassedInv' /\ passed' >= passed
    OBVIOUS
  <2>2. /\ session_id' >= session_id
        /\ session_id' \in Nat
    BY <2>1, GatewayTurn, SessionForward, TurnNext DEF TurnInv
  <2>3. session_id \in Nat /\ passed \in Nat /\ passed <= session_id
    BY <2>1 DEF TurnInv, PassedInv
  <2>4. QED
    BY <2>1, <2>2, <2>3, PassedStep DEF PassedInv
<1>3. GatewaySpec => []TurnInv
  BY GatewayTurns, TurnsKeep, PTL
<1>4. TurnInv /\ PassedInv /\ [GatewayNext]_gatewayVars => [passed' >= passed]_gatewayVars
  BY <1>2
<1>5. QED
  BY <1>1, <1>2, <1>3, <1>4, PTL DEF GatewaySpec, SessionsInOrder

-----------------------------------------------------------------------------
(* The snapshot channel before there is a session.                         *)

(* The callback is within the run, all of which is of some session.        *)
RunInv ==
  /\ Len(handed) \in Nat
  /\ parsed \in 0 .. Len(handed)
  /\ \A i \in 1 .. Len(handed) : handed[i].session_id \in SessionIds

LEMMA DatagramRun ==
  ASSUME Datagram
  PROVE  RunInv'
<1>1. MaxBuffers \in Nat
  BY SubscriberAssumption DEF B!SeqnoAssumption
<1>2. SUFFICES ASSUME NEW session, NEW start, NEW n \in 0 .. MaxBuffers + 1,
                      B!HandOver(session, start, n)
               PROVE  RunInv'
  BY <1>1 DEF Datagram, B!Next, B!Continue, B!Skip, B!NewSession
<1>3. session \in SessionIds /\ parsed' = 0
  BY <1>2 DEF Datagram, Sent, B!HandOver
<1>4. handed' = [i \in 1 .. n |->
                   [session_id |-> session, seqno |-> B!Plus(start, i - 1)]]
  BY <1>2 DEF B!HandOver, B!Run
<1>5. Len(handed') = n /\ n \in Nat
  BY <1>1, <1>4
<1>6. QED
  BY <1>3, <1>4, <1>5 DEF RunInv

LEMMA RunStep ==
  ASSUME RunInv, [SubscriberNext]_subscriberVars
  PROVE  RunInv'
<1>1. CASE Parse
  BY <1>1 DEF Parse, ParseMessage, Idle, RunInv, bufferVars
<1>2. CASE UNCHANGED <<handed, parsed>>
  BY <1>2 DEF RunInv
<1>3. QED
  BY <1>1, <1>2, DatagramRun DEF SubscriberNext, SnapshotRead, subscriberVars, bufferVars

(* The session a message is parsed with is one.                            *)
LEMMA ParsedSession ==
  ASSUME RunInv, NEW o, NEW snapshot, ParseMessage(o, snapshot)
  PROVE  session_id' \in SessionIds
<1>1. parsed + 1 \in 1 .. Len(handed)
  BY DEF RunInv, ParseMessage, Idle
<1>2. QED
  BY <1>1 DEF RunInv, ParseMessage, ParsedIncremental

(* A stream that was never heard is left as it is by the timer and by time. *)
LEMMA NewStreamWaits ==
  /\ S!Checked(S!NewStream) = S!NewStream
  /\ [S!NewStream EXCEPT !.last_update_time = S!Older(@)] = S!NewStream
<1>1. S!NewStream.last_update_time = -1
  BY DEF S!NewStream, S!None
<1>2. S!Checked(S!NewStream) = S!NewStream
  BY <1>1 DEF S!Checked, S!TimedOut, S!None
<1>3. S!Older(-1) = -1
  BY DEF S!Older
<1> QED
  BY <1>1, <1>2, <1>3 DEF S!NewStream, S!None

(* One step keeps the snapshot stream unheard of while there is no session. *)
LEMMA UnheardStep ==
  ASSUME RunInv, SnapshotNeedsSession, [GatewayNext]_gatewayVars
  PROVE  SnapshotNeedsSession'
<1> SUFFICES ASSUME session_id' = 0
             PROVE  /\ stream'["SNAPSHOT"] = S!NewStream
                    /\ told'["SNAPSHOT"] = S!StatusOf(S!NewStream)
  BY DEF SnapshotNeedsSession, S!NewStream, S!StatusOf, S!None
<1>1. 0 \notin SessionIds
  BY RecoveryAssumption
<1>2. CASE Arrival \/ UNCHANGED gatewayVars
  BY <1>2 DEF Arrival, Datagram, gatewayVars, subscriberVars, statusVars, vars,
              SnapshotNeedsSession
<1>3. CASE IncrementalTurn
  BY <1>1, <1>3, ParsedSession DEF IncrementalTurn, IncrementalCallback
<1>4. CASE SnapshotTurn
  <2>1. PICK s \in SessionIds, m \in Messages, last_seqno \in Seqnos :
          SnapshotCallback(s, m, last_seqno)
    BY <1>4 DEF SnapshotTurn
  <2>2. session_id' = session_id
    BY <2>1 DEF SnapshotCallback, SnapshotRead, ReceiveSnapshot, vars
  <2>3. ~ SnapshotParsed(s, m[1], last_seqno)
    BY <1>1, <2>2 DEF SnapshotParsed
  <2>4. UNCHANGED <<stream, told>>
    BY <2>1, <2>3 DEF SnapshotCallback, statusVars
  <2>5. QED
    BY <2>2, <2>4 DEF SnapshotNeedsSession
<1>5. ASSUME Timer \/ Tick \/ ReceiverError
      PROVE  stream["SNAPSHOT"] = S!NewStream /\ told["SNAPSHOT"] = S!StatusOf(S!NewStream)
  BY <1>5 DEF Timer, Tick, ReceiverError, BetweenTurns, subscriberVars, vars,
              SnapshotNeedsSession
<1>6. CASE Timer
  <2>1. stream'["SNAPSHOT"] = S!NewStream
    BY <1>5, <1>6, NewStreamWaits DEF Timer, BetweenTurns, S!Timer, S!Streams
  <2>2. told'["SNAPSHOT"] = told["SNAPSHOT"]
    BY <1>5, <1>6, <2>1 DEF Timer, BetweenTurns, S!Timer, S!Streams
  <2>3. QED
    BY <1>5, <1>6, <2>1, <2>2
<1>7. CASE Tick
  BY <1>5, <1>7, NewStreamWaits DEF Tick, BetweenTurns, S!Tick, S!Streams
<1>8. CASE ReceiverError
  BY <1>5, <1>8 DEF ReceiverError, BetweenTurns, S!ReceiverError
<1>9. QED
  BY <1>2, <1>3, <1>4, <1>6, <1>7, <1>8 DEF GatewayNext

(* With any datagrams, of any sessions in any order: clients are told      *)
(* nothing about the snapshot channel before the incremental channel has   *)
(* heard a publisher.                                                      *)
THEOREM SnapshotWaitsForSession == GatewaySpec => []SnapshotNeedsSession
<1>1. GatewayInit => RunInv /\ SnapshotNeedsSession
  BY DEF GatewayInit, SubscriberInit, B!Init, S!Init, S!Streams, RunInv, SnapshotNeedsSession
<1>2. RunInv /\ SnapshotNeedsSession /\ [GatewayNext]_gatewayVars =>
        (RunInv /\ SnapshotNeedsSession)'
  BY UnheardStep, RunStep, GatewayTurn
<1>3. QED
  BY <1>1, <1>2, PTL DEF GatewaySpec

-----------------------------------------------------------------------------
(* What clients of the gateway are told about the streams.                 *)

(* StreamStatusProofs has its own copy of StreamStatus.                    *)
LEMMA SameStatus ==
  /\ SP!StatusAssumption
  /\ S!Init => SP!Init
  /\ [S!Next]_(S!vars) => [SP!Next]_(SP!vars)
  /\ S!ToldReadyIsWatched <=> SP!ToldReadyIsWatched
<1>1. S!Streams = SP!Streams /\ S!None = SP!None /\ S!NewStream = SP!NewStream
  BY DEF S!Streams, SP!Streams, S!None, SP!None, S!NewStream, SP!NewStream
<1>2. SP!StatusAssumption
  BY GatewayAssumption DEF S!StatusAssumption, SP!StatusAssumption
<1>3. S!Init => SP!Init
  BY <1>1 DEF S!Init, SP!Init, S!StatusOf, SP!StatusOf
<1>4. S!ToldReadyIsWatched <=> SP!ToldReadyIsWatched
  BY <1>1 DEF S!ToldReadyIsWatched, SP!ToldReadyIsWatched, S!StatusOf, SP!StatusOf
<1>5. ASSUME NEW i, NEW updated, S!Heard(i, updated)
      PROVE  SP!Heard(i, updated)
  BY <1>5 DEF S!Heard, SP!Heard, S!Becomes, SP!Becomes, S!Published, SP!Published,
              S!StatusOf, SP!StatusOf
<1>6. ASSUME NEW value, S!GatewayStatus(value)
      PROVE  SP!GatewayStatus(value)
  BY <1>1, <1>5, <1>6 DEF S!GatewayStatus, SP!GatewayStatus, S!Masked, SP!Masked
<1>7. S!SnapshotMessage => SP!SnapshotMessage
  BY <1>1, <1>5 DEF S!SnapshotMessage, SP!SnapshotMessage
<1>8. S!IncrementalMessage => SP!IncrementalMessage
  BY <1>1, <1>5 DEF S!IncrementalMessage, SP!IncrementalMessage
<1>9. (S!SnapshotUnexpected => SP!SnapshotUnexpected) /\ (S!ReceiverError => SP!ReceiverError)
  BY DEF S!SnapshotUnexpected, SP!SnapshotUnexpected, S!ReceiverError, SP!ReceiverError
<1>10. S!Timer => SP!Timer
  BY DEF S!Timer, SP!Timer, S!Streams, SP!Streams, S!Checked, SP!Checked,
         S!TimedOut, SP!TimedOut, S!Published, SP!Published, S!StatusOf, SP!StatusOf,
         S!None, SP!None
<1>11. S!Tick => SP!Tick
  BY DEF S!Tick, SP!Tick, S!Streams, SP!Streams, S!Older, SP!Older
<1>12. S!Next => SP!Next
  BY <1>6, <1>7, <1>8, <1>9, <1>10, <1>11 DEF S!Next, SP!Next, S!Running, SP!Running
<1>13. UNCHANGED S!vars => UNCHANGED SP!vars
  BY DEF S!vars, SP!vars
<1> QED
  BY <1>2, <1>3, <1>4, <1>12, <1>13

LEMMA StatusHere == GatewaySpec => SP!Steps
<1>1. (S!Init => SP!Init) /\ ([S!Next]_(S!vars) => [SP!Next]_(SP!vars))
  BY SameStatus
<1>2. GatewayInit => S!Init
  BY DEF GatewayInit
<1>3. QED
  BY <1>1, <1>2, StatusSteps, PTL DEF GatewaySpec, SP!Steps

(* With the filter and the parser before the handlers, clients are never   *)
(* left with READY for a stream the timer does not watch.                  *)
THEOREM GatewayReadyIsWatched == GatewaySpec => []S!ToldReadyIsWatched
<1>1. SP!Steps => [](SP!TypeOK /\ SP!ToldReadyIsWatched)
  BY SameStatus, SP!StepsWatched
<1>2. SP!ToldReadyIsWatched => S!ToldReadyIsWatched
  BY SameStatus
<1> QED
  BY <1>1, <1>2, StatusHere, PTL

(* The first message of a stream after a silence is reported as READY,     *)
(* unless it brings new supports: then these alone are reported, and the   *)
(* stream stays UNDEFINED or DISCONNECTED for clients while it receives.   *)
(* The incremental stream announces no supports before the snapshot        *)
(* stream.                                                                 *)
THEOREM GatewayReports == GatewaySpec => S!ReconnectReported /\ S!IncrementalFollows
<1>1. SP!Steps => SP!ReconnectReported /\ SP!IncrementalFollows
  BY SameStatus, SP!StepsReported, SP!StepsInherit
<1>2. [\A i \in SP!Streams :
         stream[i].last_update_time = SP!None /\ stream'[i].last_update_time # SP!None =>
           \/ told'[i].connection_status = "READY"
           \/ /\ told'[i].supports # told[i].supports
              /\ told'[i].supports = supports']_(SP!vars)
      => [\A i \in S!Streams :
         stream[i].last_update_time = S!None /\ stream'[i].last_update_time # S!None =>
           \/ told'[i].connection_status = "READY"
           \/ /\ told'[i].supports # told[i].supports
              /\ told'[i].supports = supports']_(S!vars)
  BY DEF SP!Streams, S!Streams, SP!None, S!None, SP!vars, S!vars
<1>3. [stream'["INCREMENTAL"].supports # stream["INCREMENTAL"].supports =>
         told["SNAPSHOT"].supports = stream'["INCREMENTAL"].supports]_(SP!vars)
      => [stream'["INCREMENTAL"].supports # stream["INCREMENTAL"].supports =>
         told["SNAPSHOT"].supports = stream'["INCREMENTAL"].supports]_(S!vars)
  BY DEF SP!vars, S!vars
<1> QED
  BY <1>1, <1>2, <1>3, StatusHere, PTL
  DEF SP!ReconnectReported, SP!IncrementalFollows, S!ReconnectReported, S!IncrementalFollows
=============================================================================
