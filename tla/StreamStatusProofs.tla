------------------------- MODULE StreamStatusProofs -------------------------
(***************************************************************************)
(* What clients are told of the streams, proved for any types of data and  *)
(* any timeout.  The inductive invariant: clients were told what a stream  *)
(* holds, a stream that is READY is watched by the timer, and the snapshot *)
(* stream always holds the supports that are shared.                       *)
(***************************************************************************)
EXTENDS StreamStatus, TLAPS

(* Only the snapshot stream changes the supports, and it takes them over   *)
(* with the same message.                                                  *)
SnapshotCurrent == stream["SNAPSHOT"].supports = supports

StatusInv == TypeOK /\ ToldReadyIsWatched /\ SnapshotCurrent

LEMMA AgeFacts ==
  /\ 0 \in Ages
  /\ None \notin Ages
  /\ \A age \in Ages \union {None} : Older(age) \in Ages \union {None}
  /\ \A age \in Ages \union {None} : Older(age) = None <=> age = None
BY StatusAssumption DEF Ages, None, Older

(* publish_stream_status keeps a record of its type.                       *)
LEMMA PublishedTyped ==
  ASSUME NEW s \in StreamRecords, NEW new \in SUBSET SUPPORTS, NEW status \in Statuses
  PROVE  /\ Published(s, new, status) \in StreamRecords
         /\ Published(s, new, status).last_update_time = s.last_update_time
         /\ Published(s, new, status).supports = new
         /\ \/ s.supports # new
            \/ Published(s, new, status).connection_status = status
BY DEF Published, StreamRecords

(* One stream changes.                                                     *)
LEMMA BecomesStep ==
  ASSUME TypeOK, ToldReadyIsWatched, NEW i \in Streams, NEW s \in StreamRecords,
         Becomes(i, s)
  PROVE  /\ stream' \in [Streams -> StreamRecords]
         /\ told' \in [Streams -> [supports : SUBSET SUPPORTS, connection_status : Statuses]]
         /\ stream'[i] = s
         /\ told'[i] = StatusOf(s)
         /\ \A j \in Streams \ {i} : stream'[j] = stream[j] /\ told'[j] = told[j]
<1>1. StatusOf(s) \in [supports : SUBSET SUPPORTS, connection_status : Statuses]
  BY DEF StatusOf, StreamRecords
<1>2. told[i] = StatusOf(stream[i])
  BY DEF ToldReadyIsWatched
<1>3. stream' = [stream EXCEPT ![i] = s]
  BY DEF Becomes
<1>4. told' = [told EXCEPT ![i] = StatusOf(s)]
  BY <1>2 DEF Becomes, TypeOK
<1> QED
  BY <1>1, <1>3, <1>4 DEF TypeOK

(* A message arrives on stream i.                                          *)
LEMMA HeardStep ==
  ASSUME TypeOK, ToldReadyIsWatched, NEW i \in Streams, NEW updated \in BOOLEAN,
         supports' \in SUBSET SUPPORTS, Heard(i, updated),
         stream[i].last_update_time = None => updated
  PROVE  /\ stream' \in [Streams -> StreamRecords]
         /\ told' \in [Streams -> [supports : SUBSET SUPPORTS, connection_status : Statuses]]
         /\ ToldReadyIsWatched'
         /\ stream'[i].last_update_time # None
         /\ stream'[i].supports = IF updated THEN supports' ELSE stream[i].supports
         /\ updated => \/ stream[i].supports # supports'
                       \/ stream'[i].connection_status = "READY"
         /\ \A j \in Streams \ {i} : stream'[j] = stream[j]
<1> DEFINE s == IF updated THEN Published(stream[i], supports', "READY") ELSE stream[i]
           r == [s EXCEPT !.last_update_time = 0]
<1>0. stream[i] \in StreamRecords
  BY DEF TypeOK
<1>1. /\ s \in StreamRecords
      /\ s.supports = IF updated THEN supports' ELSE stream[i].supports
      /\ updated => stream[i].supports # supports' \/ s.connection_status = "READY"
  BY <1>0, PublishedTyped DEF Statuses
<1>2. Becomes(i, r)
  BY DEF Heard
<1> HIDE DEF s
<1>3. /\ r \in StreamRecords
      /\ r.last_update_time = 0
      /\ r.supports = s.supports
      /\ r.connection_status = s.connection_status
  BY <1>1, AgeFacts DEF StreamRecords
<1> HIDE DEF r
<1>4. /\ stream' \in [Streams -> StreamRecords]
      /\ told' \in [Streams -> [supports : SUBSET SUPPORTS, connection_status : Statuses]]
      /\ stream'[i] = r
      /\ told'[i] = StatusOf(r)
      /\ \A j \in Streams \ {i} : stream'[j] = stream[j] /\ told'[j] = told[j]
  BY <1>2, <1>3, BecomesStep
<1>5. ASSUME NEW j \in Streams
      PROVE  /\ told'[j] = StatusOf(stream'[j])
             /\ told'[j].connection_status = "READY" => stream'[j].last_update_time # None
  <2>1. CASE j = i
    BY <1>3, <1>4, <2>1 DEF None
  <2>2. CASE j # i
    BY <1>4, <2>2 DEF ToldReadyIsWatched
  <2> QED
    BY <2>1, <2>2
<1>6. ToldReadyIsWatched'
  BY <1>5 DEF ToldReadyIsWatched, StatusOf
<1> QED
  BY <1>1, <1>3, <1>4, <1>6 DEF None

-----------------------------------------------------------------------------
(* The steps, one by one: each keeps the invariant and does what the       *)
(* action properties say.                                                  *)

Reconnects ==
  \A i \in Streams :
    stream[i].last_update_time = None /\ stream'[i].last_update_time # None =>
      \/ told'[i].connection_status = "READY"
      \/ /\ told'[i].supports # told[i].supports
         /\ told'[i].supports = supports'

Follows ==
  stream'["INCREMENTAL"].supports # stream["INCREMENTAL"].supports =>
    told["SNAPSHOT"].supports = stream'["INCREMENTAL"].supports

Good == StatusInv' /\ Reconnects /\ Follows

(* A message of stream i: what HeardStep leaves to show.                   *)
LEMMA MessageGood ==
  ASSUME StatusInv, NEW i \in Streams, NEW updated \in BOOLEAN,
         supports' \in SUBSET SUPPORTS, Heard(i, updated), UNCHANGED terminated,
         stream[i].last_update_time = None => updated,
         IF i = "SNAPSHOT" THEN ~updated => supports' = supports
                           ELSE supports' = supports
  PROVE  Good
<1>1. /\ stream' \in [Streams -> StreamRecords]
      /\ told' \in [Streams -> [supports : SUBSET SUPPORTS, connection_status : Statuses]]
      /\ ToldReadyIsWatched'
      /\ stream'[i].last_update_time # None
      /\ stream'[i].supports = IF updated THEN supports' ELSE stream[i].supports
      /\ updated => \/ stream[i].supports # supports'
                    \/ stream'[i].connection_status = "READY"
      /\ \A j \in Streams \ {i} : stream'[j] = stream[j]
  BY HeardStep DEF StatusInv
<1>2. TypeOK'
  BY <1>1 DEF StatusInv, TypeOK
<1>3. SnapshotCurrent'
  BY <1>1 DEF StatusInv, SnapshotCurrent, Streams
<1>4. \A j \in Streams : told[j] = StatusOf(stream[j]) /\ told'[j] = StatusOf(stream'[j])
  BY <1>1 DEF StatusInv, ToldReadyIsWatched, StatusOf
<1>5. Reconnects
  <2> SUFFICES ASSUME NEW j \in Streams, stream[j].last_update_time = None,
                      stream'[j].last_update_time # None
               PROVE  \/ told'[j].connection_status = "READY"
                      \/ /\ told'[j].supports # told[j].supports
                         /\ told'[j].supports = supports'
    BY DEF Reconnects
  <2>1. j = i /\ updated
    BY <1>1
  <2>2. /\ told'[j].supports = supports'
        /\ told'[j].connection_status = stream'[j].connection_status
        /\ told[j].supports = stream[j].supports
    <3>1. told[j] = StatusOf(stream[j]) /\ told'[j] = StatusOf(stream'[j])
      BY <1>4
    <3>2. stream'[j].supports = supports'
      BY <1>1, <2>1
    <3> QED
      BY <3>1, <3>2 DEF StatusOf
  <2> QED
    BY <1>1, <2>1, <2>2
<1>6. Follows
  <2>1. told["SNAPSHOT"].supports = supports
    BY <1>4 DEF StatusInv, SnapshotCurrent, StatusOf, Streams
  <2> QED
    BY <1>1, <2>1 DEF Follows, Streams
<1> QED
  BY <1>1, <1>2, <1>3, <1>5, <1>6 DEF Good, StatusInv

(* A check of the timer, stream by stream.                                 *)
LEMMA CheckedStep ==
  ASSUME NEW s \in StreamRecords
  PROVE  /\ Checked(s) \in StreamRecords
         /\ Checked(s).supports = s.supports
         /\ Checked(s).last_update_time # None =>
              Checked(s) = s
         /\ Checked(s).connection_status = "READY" =>
              Checked(s) = s
<1>1. CASE ~TimedOut(s)
  BY <1>1 DEF Checked
<1>2. CASE TimedOut(s)
  <2> DEFINE r == [s EXCEPT !.last_update_time = None]
  <2>1. /\ r \in StreamRecords
        /\ r.last_update_time = None
        /\ r.supports = s.supports
        /\ s.supports \in SUBSET SUPPORTS
    BY DEF StreamRecords
  <2>2. Checked(s) = Published(r, s.supports, "DISCONNECTED")
    BY <1>2 DEF Checked
  <2> HIDE DEF r
  <2> QED
    BY <2>1, <2>2, PublishedTyped DEF Statuses
<1> QED
  BY <1>1, <1>2

LEMMA TimerGood ==
  ASSUME StatusInv, Timer
  PROVE  Good
<1>0. /\ stream \in [Streams -> StreamRecords]
      /\ \A j \in Streams : stream[j] \in StreamRecords
      /\ told \in [Streams -> [supports : SUBSET SUPPORTS, connection_status : Statuses]]
      /\ \A j \in Streams : /\ told[j] = StatusOf(stream[j])
                            /\ told[j].connection_status = "READY" =>
                                 stream[j].last_update_time # None
  BY DEF StatusInv, TypeOK, ToldReadyIsWatched
<1>1. ASSUME NEW j \in Streams
      PROVE  /\ stream'[j] = Checked(stream[j])
             /\ told'[j] = StatusOf(Checked(stream[j]))
             /\ StatusOf(Checked(stream[j]))
                  \in [supports : SUBSET SUPPORTS, connection_status : Statuses]
  BY <1>0, <1>1, CheckedStep DEF Timer, StatusOf, StreamRecords
<1>2. TypeOK'
  <2>1. stream' \in [Streams -> StreamRecords]
    BY <1>0, CheckedStep DEF Timer
  <2>2. told' \in [Streams -> [supports : SUBSET SUPPORTS, connection_status : Statuses]]
    BY <1>1 DEF Timer
  <2> QED
    BY <2>1, <2>2 DEF Timer, StatusInv, TypeOK
<1>3. ToldReadyIsWatched'
  <2>1. ASSUME NEW j \in Streams, told'[j].connection_status = "READY"
        PROVE  stream'[j].last_update_time # None
    <3>1. Checked(stream[j]).connection_status = "READY"
      <4>1. told'[j] = StatusOf(Checked(stream[j]))
        BY <1>1
      <4> QED
        BY <2>1, <4>1 DEF StatusOf
    <3> QED
      BY <1>0, <1>1, <3>1, CheckedStep DEF StatusOf
  <2> QED
    BY <1>1, <2>1 DEF ToldReadyIsWatched, StatusOf
<1>4. SnapshotCurrent'
  BY <1>0, <1>1, CheckedStep DEF Timer, Streams, StatusInv, SnapshotCurrent
<1>5. Reconnects
  BY <1>0, <1>1, CheckedStep DEF Reconnects
<1>6. Follows
  BY <1>0, <1>1, CheckedStep DEF Follows, Streams
<1> QED
  BY <1>2, <1>3, <1>4, <1>5, <1>6 DEF Good, StatusInv

LEMMA TickGood ==
  ASSUME StatusInv, Tick
  PROVE  Good
<1>0. \A j \in Streams : stream[j] \in StreamRecords
  BY DEF StatusInv, TypeOK
<1>1. ASSUME NEW j \in Streams
      PROVE  /\ stream'[j] \in StreamRecords
             /\ stream'[j].supports = stream[j].supports
             /\ stream'[j].connection_status = stream[j].connection_status
             /\ stream'[j].last_update_time = None <=> stream[j].last_update_time = None
             /\ told'[j] = told[j]
  <2>1. stream'[j] = [stream[j] EXCEPT !.last_update_time = Older(@)]
    BY DEF Tick
  <2> QED
    BY <1>0, <2>1, AgeFacts DEF Tick, StreamRecords
<1>2. TypeOK'
  <2>1. stream' \in [Streams -> StreamRecords]
    BY <1>1 DEF Tick
  <2> QED
    BY <2>1 DEF Tick, StatusInv, TypeOK
<1>3. ToldReadyIsWatched'
  BY <1>1 DEF StatusInv, ToldReadyIsWatched, StatusOf
<1>4. SnapshotCurrent'
  BY <1>1 DEF Tick, StatusInv, SnapshotCurrent, Streams
<1> QED
  BY <1>1, <1>2, <1>3, <1>4 DEF Good, StatusInv, Reconnects, Follows, Streams

(* Nothing changes but, perhaps, that the process ends.                    *)
LEMMA QuietGood ==
  ASSUME StatusInv, UNCHANGED <<supports, stream, told>>, terminated' \in BOOLEAN
  PROVE  Good
BY DEF Good, StatusInv, TypeOK, ToldReadyIsWatched, SnapshotCurrent, Reconnects, Follows,
       StatusOf

LEMMA StatusStep ==
  ASSUME StatusInv, [Next]_vars
  PROVE  Good
<1>0. supports \in SUBSET SUPPORTS /\ terminated \in BOOLEAN
  BY DEF StatusInv, TypeOK
<1>1. ASSUME NEW value \in SUBSET SupportTypes, GatewayStatus(value) PROVE Good
  <2> DEFINE updated == \/ stream["SNAPSHOT"].last_update_time = None
                        \/ supports' # supports
  <2>1. /\ supports' \in SUBSET SUPPORTS
        /\ Heard("SNAPSHOT", updated)
        /\ UNCHANGED terminated
    BY <1>1 DEF GatewayStatus, Masked
  <2>2. /\ updated \in BOOLEAN
        /\ stream["SNAPSHOT"].last_update_time = None => updated
        /\ ~updated => supports' = supports
        /\ "SNAPSHOT" \in Streams
    BY DEF Streams
  <2> HIDE DEF updated
  <2> QED
    BY <2>1, <2>2, MessageGood
<1>2. ASSUME SnapshotMessage PROVE Good
  <2> DEFINE updated == stream["SNAPSHOT"].last_update_time = None
  <2>1. /\ supports' = supports
        /\ Heard("SNAPSHOT", updated)
        /\ UNCHANGED terminated
    BY <1>2 DEF SnapshotMessage
  <2>2. /\ updated \in BOOLEAN
        /\ stream["SNAPSHOT"].last_update_time = None => updated
        /\ "SNAPSHOT" \in Streams
    BY DEF Streams
  <2> HIDE DEF updated
  <2> QED
    BY <1>0, <2>1, <2>2, MessageGood
<1>3. ASSUME IncrementalMessage PROVE Good
  <2> DEFINE updated == \/ stream["INCREMENTAL"].last_update_time = None
                        \/ stream["INCREMENTAL"].supports # supports
  <2>1. /\ supports' = supports
        /\ Heard("INCREMENTAL", updated)
        /\ UNCHANGED terminated
    BY <1>3 DEF IncrementalMessage
  <2>2. /\ updated \in BOOLEAN
        /\ stream["INCREMENTAL"].last_update_time = None => updated
        /\ "INCREMENTAL" \in Streams
        /\ "INCREMENTAL" # "SNAPSHOT"
    BY DEF Streams
  <2> HIDE DEF updated
  <2> QED
    BY <1>0, <2>1, <2>2, MessageGood
<1>4. ASSUME SnapshotUnexpected \/ ReceiverError PROVE Good
  BY <1>4, QuietGood DEF SnapshotUnexpected, ReceiverError
<1>5. CASE UNCHANGED vars
  BY <1>0, <1>5, QuietGood DEF vars
<1> QED
  BY <1>1, <1>2, <1>3, <1>4, <1>5, TimerGood, TickGood DEF Next, Running

LEMMA StatusInit == Init => StatusInv
<1> SUFFICES ASSUME Init PROVE StatusInv
  OBVIOUS
<1>1. NewStream \in StreamRecords
  BY DEF NewStream, StreamRecords, Statuses
<1>2. StatusOf(NewStream) = [supports |-> {}, connection_status |-> "UNDEFINED"]
  BY DEF NewStream, StatusOf
<1>3. TypeOK
  <2>1. StatusOf(NewStream) \in [supports : SUBSET SUPPORTS, connection_status : Statuses]
    BY <1>2 DEF Statuses
  <2> QED
    BY <1>1, <2>1 DEF Init, TypeOK
<1>4. ToldReadyIsWatched
  BY <1>2 DEF Init, ToldReadyIsWatched
<1>5. SnapshotCurrent
  BY DEF Init, SnapshotCurrent, Streams, NewStream
<1> QED
  BY <1>3, <1>4, <1>5 DEF StatusInv

(* What the steps of StreamStatus do, whether or not the timer keeps being *)
(* called: all that a specification needs which goes through these steps.  *)
Steps == Init /\ [][Next]_vars

LEMMA StatusAlways == Steps => []StatusInv
<1>1. StatusInv /\ [Next]_vars => StatusInv'
  BY StatusStep DEF Good
<1> QED
  BY <1>1, StatusInit, PTL DEF Steps

LEMMA StepsWatched == Steps => [](TypeOK /\ ToldReadyIsWatched)
<1>1. StatusInv => TypeOK /\ ToldReadyIsWatched
  BY DEF StatusInv
<1> QED
  BY <1>1, StatusAlways, PTL

LEMMA StepsReported == Steps => ReconnectReported
<1>1. StatusInv /\ [Next]_vars =>
        [\A i \in Streams :
           stream[i].last_update_time = None /\ stream'[i].last_update_time # None =>
             \/ told'[i].connection_status = "READY"
             \/ /\ told'[i].supports # told[i].supports
                /\ told'[i].supports = supports']_vars
  BY StatusStep DEF Good, Reconnects
<1> QED
  BY <1>1, StatusAlways, PTL DEF Steps, ReconnectReported

LEMMA StepsInherit == Steps => IncrementalFollows
<1>1. StatusInv /\ [Next]_vars =>
        [stream'["INCREMENTAL"].supports # stream["INCREMENTAL"].supports =>
           told["SNAPSHOT"].supports = stream'["INCREMENTAL"].supports]_vars
  BY StatusStep DEF Good, Follows
<1> QED
  BY <1>1, StatusAlways, PTL DEF Steps, IncrementalFollows

-----------------------------------------------------------------------------
(* Results.                                                                *)

(* The supports are always masked, whatever a publisher sends, and clients *)
(* are never left with READY for a stream that is not watched.             *)
THEOREM StatusInvariant == Spec => [](TypeOK /\ ToldReadyIsWatched)
<1>1. Spec => Steps
  BY PTL DEF Spec, Steps
<1> QED
  BY <1>1, StepsWatched, PTL

(* The end of a silence is reported, or new supports instead.              *)
THEOREM ReconnectsAreReported == Spec => ReconnectReported
<1>1. Spec => Steps
  BY PTL DEF Spec, Steps
<1> QED
  BY <1>1, StepsReported, PTL

(* The incremental stream never announces supports before the snapshot     *)
(* stream has.                                                             *)
THEOREM IncrementalInherits == Spec => IncrementalFollows
<1>1. Spec => Steps
  BY PTL DEF Spec, Steps
<1> QED
  BY <1>1, StepsInherit, PTL

(* For every heartbeat timeout and all sets of supports: a stream clients  *)
(* take for connected is one the timer still watches.                      *)
THEOREM ReadyIsWatched == Spec => []ToldReadyIsWatched
<1>1. QED
  BY StatusInvariant, PTL
=============================================================================
