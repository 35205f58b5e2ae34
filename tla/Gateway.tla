------------------------------ MODULE Gateway ------------------------------
(***************************************************************************)
(* From the channels to the dispatcher.  Subscriber brings the messages:   *)
(* the buffer of the incremental channel, the parse callbacks and the      *)
(* filter of the snapshot channel.  Parser and FBSParser choose which      *)
(* handler of the stream is called, if any, the handler updates the status *)
(* of its stream (StreamStatus), and Controller or Shared pass the message *)
(* on.                                                                     *)
(*                                                                         *)
(* A call of parse by a Buffer is one action, as is a call of Timer.  A    *)
(* message is its header and a type; of its content only the supports of   *)
(* a GatewayStatus matter.  A payload that is not of a type the gateway    *)
(* knows, or in another encoding, is of a type that is not Handled.        *)
(***************************************************************************)
EXTENDS Subscriber

CONSTANTS
  SupportTypes, SUPPORTS, Timeout,  \* as in StreamStatus
  Messages                          \* <<object, type>> of messages

VARIABLES
  supports, stream, told, terminated,  \* StreamStatus
  passed  \* history: the session of the last message passed on to the dispatcher

S == INSTANCE StreamStatus

ASSUME GatewayAssumption ==
  /\ S!StatusAssumption
  /\ \A m \in Messages : m[1] \in Objects

statusVars == <<supports, stream, told, terminated>>

gatewayVars == <<subscriberVars, statusVars, passed>>

-----------------------------------------------------------------------------
(* Parser::dispatch: an empty payload is a heartbeat, of the decoded types *)
(* Bridge has a handler for these only.                                    *)
Bridge ==
  {"GatewaySettings", "StreamStatus", "ExternalLatency", "GatewayStatus",
   "ReferenceData", "MarketStatus", "MarketSegmentStatus", "TopOfBook",
   "MarketByPriceUpdate", "TradeSummary", "StatisticsUpdate", "CustomMetricsUpdate"}

Handled == Bridge \union {"Heartbeat"}

(* Types the snapshot channel does not expect: log::fatal.                 *)
Unexpected == {"ExternalLatency", "TopOfBook", "TradeSummary"}

(* Types for which the handlers of the streams end with update, or whose   *)
(* handler in Controller does nothing.                                     *)
Absorbed == {"Heartbeat", "GatewaySettings", "StreamStatus", "GatewayStatus"}

(* Types stream i passes on.                                               *)
Forwarded(i) ==
  (Handled \ Absorbed) \ (IF i = "SNAPSHOT" THEN Unexpected ELSE {})

(* The session clients got something of last, after a message of session   *)
(* s: of a MarketByPriceUpdate the sequencer decides whether it is passed  *)
(* on, see MarketByPrice.                                                  *)
PassedOn(i, s, type) ==
  {s : d \in {type} \intersect Forwarded(i)}
    \union {passed : d \in {type} \ (Forwarded(i) \ {"MarketByPriceUpdate"})}

(* Parser::dispatch with the handlers of the incremental stream, which     *)
(* lets the snapshot stream update the supports.                           *)
ParseIncremental(type) ==
  IF type \in Handled
    THEN S!IncrementalMessage
    ELSE UNCHANGED statusVars

(* Parser::dispatch with the handlers of the snapshot stream.              *)
ParseSnapshot(type) ==
  CASE type \notin Handled      -> UNCHANGED statusVars
    [] type \in Unexpected      -> S!SnapshotUnexpected
    [] type = "GatewayStatus"   -> \E value \in SUBSET SupportTypes : S!GatewayStatus(value)
    [] OTHER                    -> S!SnapshotMessage

-----------------------------------------------------------------------------
(* The parse callback of Incremental.                                      *)
IncrementalCallback(m, snapshot) ==
  /\ ParseMessage(m[1], snapshot)
  /\ ParseIncremental(m[2])
  /\ passed' \in PassedOn("INCREMENTAL", session_id', m[2])

(* A message of the snapshot channel that is parsed.                       *)
SnapshotParsed(s, o, last_seqno) == s = session_id /\ Included(o, last_seqno)

(* Mutants of SnapshotCallback: the session is not looked at; update is    *)
(* called before the filter.                                               *)
SnapshotOfAnySession(s, m, last_seqno) ==
  /\ SnapshotRead(s, m[1], last_seqno)
  /\ ParseSnapshot(m[2])
  /\ passed' \in PassedOn("SNAPSHOT", s, m[2])

SnapshotUpdatedFirst(s, m, last_seqno) ==
  /\ SnapshotRead(s, m[1], last_seqno)
  /\ IF s = session_id THEN ParseSnapshot(m[2]) ELSE UNCHANGED statusVars
  /\ passed' \in IF SnapshotParsed(s, m[1], last_seqno)
                   THEN PassedOn("SNAPSHOT", s, m[2])
                   ELSE {passed}

(* The parse callback of Snapshot.                                         *)
SnapshotCallback(s, m, last_seqno) ==
  /\ SnapshotRead(s, m[1], last_seqno)
  /\ IF SnapshotParsed(s, m[1], last_seqno)
       THEN /\ ParseSnapshot(m[2])
            /\ passed' \in PassedOn("SNAPSHOT", s, m[2])
       ELSE UNCHANGED <<statusVars, passed>>

(* A call of the incremental buffer.                                       *)
Arrival == Datagram /\ UNCHANGED <<statusVars, passed>>

(* What the event loop does between datagrams.                             *)
BetweenTurns(action) ==
  /\ Idle
  /\ action
  /\ UNCHANGED <<subscriberVars, passed>>

Timer         == BetweenTurns(S!Timer)
Tick          == BetweenTurns(S!Tick)
ReceiverError == BetweenTurns(S!ReceiverError)

-----------------------------------------------------------------------------
GatewayInit == SubscriberInit /\ S!Init /\ passed = 0

IncrementalTurn ==
  \E m \in Messages, snapshot \in BOOLEAN : IncrementalCallback(m, snapshot)

SnapshotTurn ==
  \E s \in SessionIds, m \in Messages, last_seqno \in Seqnos :
    SnapshotCallback(s, m, last_seqno)

GatewayNext ==
  /\ ~terminated
  /\ Arrival \/ IncrementalTurn \/ SnapshotTurn \/ Timer \/ Tick \/ ReceiverError

(* A call of the buffer runs to its end.  Timer and time are due between   *)
(* datagrams only, so that it takes strong fairness to say that the event  *)
(* loop gets to them while datagrams keep arriving.                        *)
GatewaySpec ==
  /\ GatewayInit /\ [][GatewayNext]_gatewayVars
  /\ WF_gatewayVars(~terminated /\ IncrementalTurn)
  /\ SF_gatewayVars(~terminated /\ Timer)
  /\ SF_gatewayVars(~terminated /\ Tick)

-----------------------------------------------------------------------------
(* Properties, besides those of Recovery and StreamStatus.                 *)

(* A publisher that restarts is not mixed with what it was: once clients   *)
(* got something of a session, on either channel, nothing with the header  *)
(* of an earlier one follows, and a snapshot of the next session does not  *)
(* get there before the incremental channel.  It holds while datagrams of  *)
(* earlier sessions do not come late.                                      *)
SessionsInOrder == [][passed' >= passed]_gatewayVars

(* Until the incremental channel has heard a publisher, clients are told   *)
(* nothing about the snapshot channel, whatever arrives on it.             *)
SnapshotNeedsSession ==
  session_id = 0 =>
    stream["SNAPSHOT"] = S!NewStream /\ told["SNAPSHOT"] = S!StatusOf(S!NewStream)

(* The filter and the parser decide what is a sign of life: snapshots that *)
(* are not included, messages of other sessions and types that are dropped *)
(* are not, and a stream that gets nothing else is eventually not READY.   *)
SnapshotHeard ==
  \E s \in SessionIds, m \in Messages, last_seqno \in Seqnos :
    /\ SnapshotParsed(s, m[1], last_seqno)
    /\ m[2] \in Handled
    /\ SnapshotCallback(s, m, last_seqno)

SilenceIsWhatIsNotParsed ==
  \/ []<><<SnapshotHeard>>_gatewayVars
  \/ <>terminated
  \/ <>[](told["SNAPSHOT"].connection_status # "READY")
=============================================================================
