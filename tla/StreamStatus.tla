---------------------------- MODULE StreamStatus ----------------------------
(***************************************************************************)
(* What clients are told about the two streams: Snapshot and Incremental   *)
(* keep a time of the last message, a connection status and the types of   *)
(* data supported, and publish a StreamStatus when these change.  The      *)
(* supports are shared: Snapshot learns them from GatewayStatus messages,  *)
(* Incremental inherits them with its own next message.                    *)
(*                                                                         *)
(* A call of a handler is one action: the gateway runs on one event loop.  *)
(* A message is one that reaches Parser::Handler: neither dropped by the   *)
(* parser nor by the filter of the snapshot channel.                       *)
(*                                                                         *)
(* Time.  last_update_time is an age: the ticks since the last message, at *)
(* most Timeout + 1 because nothing distinguishes greater ages, or None    *)
(* for the zero the code resets it to.                                     *)
(***************************************************************************)
EXTENDS Integers

CONSTANTS
  SupportTypes,  \* what a publisher may support
  SUPPORTS,      \* what the subscriber passes on
  Timeout        \* udp_heartbeat_timeout, in ticks

ASSUME StatusAssumption ==
  /\ SUPPORTS \subseteq SupportTypes
  /\ Timeout \in Nat

Streams == {"SNAPSHOT", "INCREMENTAL"}

None == -1
Ages == 0 .. Timeout + 1

VARIABLES
  supports,    \* shared_.supports
  stream,      \* last_update_time_, supports_, connection_status_ of a stream
  told,        \* the last StreamStatus the dispatcher got of a stream
  terminated   \* log::fatal was called

vars == <<supports, stream, told, terminated>>

NewStream ==
  [last_update_time |-> None, supports |-> {}, connection_status |-> "UNDEFINED"]

(* StreamStatus, as the dispatcher gets it: the controller passes it on    *)
(* because the streams have no account.                                    *)
StatusOf(s) == [supports |-> s.supports, connection_status |-> s.connection_status]

(* publish_stream_status: utils::update assigns and tells whether there    *)
(* was a change, and || does not evaluate its right side after a change on *)
(* its left: with new supports the connection status stays as it was.      *)
Published(s, new_supports, status) ==
  IF s.supports # new_supports
    THEN [s EXCEPT !.supports = new_supports]
    ELSE [s EXCEPT !.connection_status = status]

(* Stream i is s from now on; a change of its status was published.        *)
Becomes(i, s) ==
  /\ stream' = [stream EXCEPT ![i] = s]
  /\ told' = IF StatusOf(s) # StatusOf(stream[i])
               THEN [told EXCEPT ![i] = StatusOf(s)]
               ELSE told

(* The rest of update, once shared_.supports are those of the next state.  *)
Heard(i, updated) ==
  LET s == IF updated
             THEN Published(stream[i], supports', "READY")
             ELSE stream[i]
  IN  Becomes(i, [s EXCEPT !.last_update_time = 0])

-----------------------------------------------------------------------------
(* Mutant of Masked: the mask is missing.                                  *)
Unmasked(value) == value

(* Shared::update: what is supported and passed on.                        *)
Masked(value) == SUPPORTS \intersect value

(* Mutant of GatewayStatus: a change of the supports is not published.     *)
GatewayStatusUnreported(value) ==
  /\ supports' = Masked(value)
  /\ Heard("SNAPSHOT", stream["SNAPSHOT"].last_update_time = None)
  /\ UNCHANGED terminated

(* Snapshot::update of a GatewayStatus, after Shared::update.              *)
GatewayStatus(value) ==
  /\ supports' = Masked(value)
  /\ Heard("SNAPSHOT", \/ stream["SNAPSHOT"].last_update_time = None
                       \/ supports' # supports)
  /\ UNCHANGED terminated

(* Snapshot::update of any other message ...                               *)
SnapshotMessage ==
  /\ supports' = supports
  /\ Heard("SNAPSHOT", stream["SNAPSHOT"].last_update_time = None)
  /\ UNCHANGED terminated

(* ... but for those that belong on the incremental channel: log::fatal.   *)
SnapshotUnexpected ==
  /\ terminated' = TRUE
  /\ UNCHANGED <<supports, stream, told>>

(* An error of a receiver of either channel: log::fatal.                   *)
ReceiverError ==
  /\ terminated' = TRUE
  /\ UNCHANGED <<supports, stream, told>>

(* Mutants of IncrementalMessage: only one of the two reasons to publish   *)
(* is looked at.                                                           *)
IncrementalOnlyFirst ==
  /\ supports' = supports
  /\ Heard("INCREMENTAL", stream["INCREMENTAL"].last_update_time = None)
  /\ UNCHANGED terminated

IncrementalOnlySupports ==
  /\ supports' = supports
  /\ Heard("INCREMENTAL", stream["INCREMENTAL"].supports # supports)
  /\ UNCHANGED terminated

(* Incremental::update: "instead we inherit from snapshot".                *)
IncrementalMessage ==
  /\ supports' = supports
  /\ Heard("INCREMENTAL", \/ stream["INCREMENTAL"].last_update_time = None
                          \/ stream["INCREMENTAL"].supports # supports)
  /\ UNCHANGED terminated

(* The Timer handler of a stream.                                          *)
TimedOut(s) == s.last_update_time # None /\ s.last_update_time > Timeout

(* Mutant of Checked: the time is reset and nothing is published.          *)
CheckedSilently(s) ==
  IF TimedOut(s) THEN [s EXCEPT !.last_update_time = None] ELSE s

Checked(s) ==
  IF TimedOut(s)
    THEN Published([s EXCEPT !.last_update_time = None], s.supports, "DISCONNECTED")
    ELSE s

(* Mutant of Timer: the incremental stream is not called.                  *)
TimerOnlySnapshot ==
  /\ Becomes("SNAPSHOT", Checked(stream["SNAPSHOT"]))
  /\ UNCHANGED <<supports, terminated>>

(* Controller: Timer, first to the snapshot then to the incremental.       *)
Timer ==
  /\ stream' = [i \in Streams |-> Checked(stream[i])]
  /\ told' = [i \in Streams |->
                IF StatusOf(stream'[i]) # StatusOf(stream[i])
                  THEN StatusOf(stream'[i])
                  ELSE told[i]]
  /\ UNCHANGED <<supports, terminated>>

(* Time passes.                                                            *)
Older(age) == IF age \in 0 .. Timeout THEN age + 1 ELSE age

Tick ==
  /\ stream' = [i \in Streams |->
                  [stream[i] EXCEPT !.last_update_time = Older(@)]]
  /\ UNCHANGED <<supports, told, terminated>>

-----------------------------------------------------------------------------
Init ==
  /\ supports = {}
  /\ stream = [i \in Streams |-> NewStream]
  /\ told = [i \in Streams |-> StatusOf(NewStream)]
  /\ terminated = FALSE

Running ==
  \/ \E value \in SUBSET SupportTypes : GatewayStatus(value)
  \/ SnapshotMessage
  \/ SnapshotUnexpected
  \/ ReceiverError
  \/ IncrementalMessage
  \/ Timer
  \/ Tick

Next == ~terminated /\ Running

(* The event loop keeps calling the timer, and time passes.  Nothing says  *)
(* that messages arrive.                                                   *)
Spec ==
  /\ Init /\ [][Next]_vars
  /\ WF_vars(~terminated /\ Timer)
  /\ WF_vars(~terminated /\ Tick)

-----------------------------------------------------------------------------
(* Properties.                                                             *)

Statuses == {"UNDEFINED", "READY", "DISCONNECTED"}

StreamRecords ==
  [last_update_time  : Ages \union {None},
   supports          : SUBSET SUPPORTS,
   connection_status : Statuses]

(* The members of Shared and of the streams have the values their types    *)
(* and the mask leave them.                                                *)
TypeOK ==
  /\ supports \in SUBSET SUPPORTS
  /\ stream \in [Streams -> StreamRecords]
  /\ told \in [Streams -> [supports : SUBSET SUPPORTS, connection_status : Statuses]]
  /\ terminated \in BOOLEAN

(* Clients never believe in a connection the gateway has given up: while   *)
(* they were last told READY, the stream is one the timer still watches,   *)
(* and what they were told is what the stream holds.                       *)
ToldReadyIsWatched ==
  \A i \in Streams :
    /\ told[i] = StatusOf(stream[i])
    /\ told[i].connection_status = "READY" => stream[i].last_update_time # None

(* The first message after a silence is reported as READY, unless the same *)
(* message brings new supports: then only these are reported, and the      *)
(* stream stays UNDEFINED or DISCONNECTED while it receives.               *)
ReconnectReported ==
  [][\A i \in Streams :
       stream[i].last_update_time = None /\ stream'[i].last_update_time # None =>
         \/ told'[i].connection_status = "READY"
         \/ /\ told'[i].supports # told[i].supports
            /\ told'[i].supports = supports']_vars

(* The incremental stream never announces supports the snapshot stream has *)
(* not announced before it.                                                *)
IncrementalFollows ==
  [][stream'["INCREMENTAL"].supports # stream["INCREMENTAL"].supports =>
       told["SNAPSHOT"].supports = stream'["INCREMENTAL"].supports]_vars

(* A stream that falls silent is eventually no longer reported as READY.   *)
SnapshotAction ==
  (\E value \in SUBSET SupportTypes : GatewayStatus(value)) \/ SnapshotMessage

SilenceReported ==
  /\ \/ []<><<SnapshotAction>>_stream
     \/ <>terminated
     \/ <>[](told["SNAPSHOT"].connection_status # "READY")
  /\ \/ []<><<IncrementalMessage>>_stream
     \/ <>terminated
     \/ <>[](told["INCREMENTAL"].connection_status # "READY")

(* When the supports stop changing and incremental messages keep arriving, *)
(* clients end up with the same supports for both streams.                 *)
SupportsConverge ==
  (\E v \in SUBSET SUPPORTS : <>[](supports = v)) /\ []<><<IncrementalMessage>>_vars =>
    <>[](told["INCREMENTAL"].supports = told["SNAPSHOT"].supports)
=============================================================================
