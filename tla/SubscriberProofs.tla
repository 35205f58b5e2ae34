-------------------------- MODULE SubscriberProofs --------------------------
(***************************************************************************)
(* What Recovery relies on, proved of the buffer in front of it: in a      *)
(* session the messages parsed only move forward.  Two things are needed   *)
(* of the channel: sessions that do not come back, and sessions too short  *)
(* for a seqno to wrap, or to be taken for a replay.                       *)
(*                                                                         *)
(* The invariant says where the parse callback is in the run of messages   *)
(* the buffer handed over: that run ends right before next_seqno, and the  *)
(* last message parsed, when it is of the session of the buffer, is before *)
(* what is left of the run.  Every step is then one of Recovery, so that   *)
(* the invariant proved of Recovery holds here as well.                    *)
(***************************************************************************)
EXTENDS Subscriber, RecoveryProofs

(* A session stays in the first quarter of the range of a seqno.           *)
Short == MaxSeqno + 1 < SeqnoModulus \div 4

(* The run ends right before next_seqno.                                   *)
RunBeforeNext ==
  \A i \in 1 .. Len(handed) :
    handed[i] = [session_id |-> buffer_session,
                 seqno      |-> next_seqno - Len(handed) + i - 1]

(* What was parsed is before what is left of the run.                      *)
ParsedBeforeRest ==
  session_id = buffer_session =>
    \/ session_id = 0
    \/ incremental < next_seqno - (Len(handed) - parsed)

TurnInv ==
  /\ buffer_session \in SessionIds \union {0}
  /\ session_id \in Nat /\ session_id <= buffer_session
  /\ incremental \in Nat
  /\ next_seqno \in 0 .. MaxSeqno + 1
  /\ Len(handed) \in 0 .. next_seqno
  /\ Len(handed) > 0 => buffer_session \in SessionIds
  /\ parsed \in 0 .. Len(handed)
  /\ RunBeforeNext
  /\ ParsedBeforeRest

(* The constants are numbers, and a run that starts in a session does not  *)
(* wrap.                                                                   *)
LEMMA Numbers ==
  ASSUME Short
  PROVE  /\ MaxSeqno \in Nat
         /\ SeqnoModulus \in Nat
         /\ MaxBuffers \in Nat \ {0}
         /\ MaxSeqno + 1 + (MaxBuffers + 1) < SeqnoModulus
         /\ MaxSeqno + 1 < SeqnoModulus - B!Threshold
         /\ SessionIds \subseteq Nat \ {0}
BY SubscriberAssumption, RecoveryAssumption
   DEF Short, B!SeqnoAssumption, RecoveryAssumption, B!Threshold

(* No wrap.                                                                *)
LEMMA PlusIsSum ==
  ASSUME Short, NEW a \in 0 .. MaxSeqno + 1, NEW n \in 0 .. MaxBuffers + 1
  PROVE  B!Plus(a, n) = a + n
BY Numbers DEF B!Plus

(* The run of a datagram.                                                  *)
LEMMA RunHandedOver ==
  ASSUME Short, NEW session, NEW start \in 0 .. MaxSeqno + 1,
         NEW n \in 0 .. MaxBuffers + 1,
         B!HandOver(session, start, n)
  PROVE  /\ buffer_session' = session
         /\ next_seqno' = start + n
         /\ Len(handed') = n
         /\ \A i \in 1 .. n : handed'[i] = [session_id |-> session, seqno |-> start + i - 1]
<1>1. \A k \in 0 .. MaxBuffers + 1 : B!Plus(start, k) = start + k
  BY PlusIsSum
<1>2. handed' = [i \in 1 .. n |->
                   [session_id |-> session, seqno |-> B!Plus(start, i - 1)]]
  BY DEF B!HandOver, B!Run
<1>3. n \in Nat /\ \A i \in 1 .. n : i - 1 \in 0 .. MaxBuffers + 1 /\ start + (i - 1) = start + i - 1
  BY Numbers
<1>4. Len(handed') = n
  BY <1>2, <1>3
<1>5. QED
  BY <1>1, <1>2, <1>3, <1>4 DEF B!HandOver

-----------------------------------------------------------------------------
(* Where a run may start.                                                  *)
LEMMA RunStarts ==
  ASSUME Short, Sent, NEW session, NEW start \in B!Seqnos,
         NEW n \in 0 .. MaxBuffers + 1,
         B!HandOver(session, start, n)
  PROVE  start \in 0 .. MaxSeqno + 1
<1>1. start \in Nat /\ start < SeqnoModulus /\ n \in Nat
  BY Numbers DEF B!Seqnos
<1>2. B!Plus(start, 0) = start
  BY <1>1, Numbers DEF B!Plus
<1>3. CASE n = 0
  BY <1>1, <1>2, <1>3, Numbers DEF B!HandOver, Sent
<1>4. CASE n # 0
  <2>1. 1 \in 1 .. n /\ 1 - 1 = 0
    BY <1>1, <1>4
  <2>2. handed' = [i \in 1 .. n |->
                     [session_id |-> session, seqno |-> B!Plus(start, i - 1)]]
    BY DEF B!HandOver, B!Run
  <2>3. 1 \in DOMAIN handed' /\ handed'[1].seqno = start
    BY <1>2, <2>1, <2>2
  <2>4. QED
    BY <1>1, <2>3, Numbers DEF Sent
<1>5. QED
  BY <1>3, <1>4

(* A skip goes forward: what is before next_seqno in a short session is    *)
(* more than three quarters of the range ahead of it.                      *)
LEMMA SkipsForward ==
  ASSUME Short, NEW start \in 0 .. MaxSeqno + 1, NEW next \in 0 .. MaxSeqno + 1,
         ~B!IsReplay(start, next)
  PROVE  start >= next
BY Numbers, SubscriberAssumption DEF B!IsReplay, B!Diff, B!Threshold, B!SeqnoAssumption

(* A datagram leaves the callback at the start of a run that is not before *)
(* the one before it, or belongs to a later session.                       *)
LEMMA DatagramKeeps ==
  ASSUME Short, ~LateSessions, TurnInv, Datagram
  PROVE  TurnInv'
<1>1. /\ next_seqno \in 0 .. MaxSeqno + 1 /\ MaxSeqno \in Nat
      /\ incremental \in Nat /\ session_id \in Nat
      /\ buffer_session \in Nat /\ session_id <= buffer_session
  BY Numbers DEF TurnInv
<1>2. session_id = buffer_session => session_id = 0 \/ incremental < next_seqno
  BY <1>1 DEF TurnInv, ParsedBeforeRest, Datagram, Idle
<1>3. /\ parsed' = 0 /\ session_id' = session_id /\ incremental' = incremental
      /\ buffer_session' \in SessionIds
      /\ buffer_session' \in Nat /\ buffer_session' # 0
      /\ buffer_session' >= buffer_session
      /\ next_seqno' <= MaxSeqno + 1
  BY Numbers DEF Datagram, Sent, vars
<1>4. SUFFICES ASSUME NEW session, NEW start \in 0 .. MaxSeqno + 1,
                      NEW n \in 0 .. MaxBuffers + 1,
                      B!HandOver(session, start, n),
                      session = buffer_session => start >= next_seqno
               PROVE  TurnInv'
  <2>1. next_seqno \in B!Seqnos /\ B!Seqnos \subseteq Nat
    BY <1>1, Numbers DEF B!Seqnos
  <2>2. CASE B!Continue
    BY <1>1, <1>4, <2>2 DEF B!Continue
  <2>3. CASE B!Skip
    <3>1. PICK start \in B!Seqnos, n \in 0 .. MaxBuffers :
            ~B!IsReplay(start, next_seqno) /\ B!HandOver(buffer_session, start, n)
      BY <2>3 DEF B!Skip
    <3>2. n \in 0 .. MaxBuffers + 1
      BY <3>1, Numbers
    <3>3. start \in 0 .. MaxSeqno + 1
      BY <3>1, <3>2, RunStarts DEF Datagram
    <3>4. start >= next_seqno
      BY <1>1, <3>1, <3>3, SkipsForward
    <3>5. QED
      BY <1>4, <3>1, <3>2, <3>3, <3>4
  <2>4. CASE B!NewSession
    <3>1. PICK session \in SessionIds \ {buffer_session}, start \in B!Seqnos,
               n \in 0 .. MaxBuffers + 1 : B!HandOver(session, start, n)
      BY <2>4 DEF B!NewSession
    <3>2. start \in 0 .. MaxSeqno + 1
      BY <3>1, RunStarts DEF Datagram
    <3>3. QED
      BY <1>4, <3>1, <3>2
  <2>5. QED
    BY <2>2, <2>3, <2>4 DEF Datagram, B!Next
<1>5. /\ buffer_session' = session /\ next_seqno' = start + n /\ Len(handed') = n
      /\ \A i \in 1 .. n : handed'[i] = [session_id |-> session, seqno |-> start + i - 1]
  BY <1>4, RunHandedOver
<1>6. n \in Nat /\ start \in Nat /\ next_seqno' - Len(handed') = start
  BY <1>1, <1>4, <1>5, Numbers
<1>7. RunBeforeNext'
  BY <1>5, <1>6 DEF RunBeforeNext
<1>8. ParsedBeforeRest'
  <2>1. SUFFICES ASSUME session_id = session, session_id # 0
                 PROVE  incremental < start
    BY <1>3, <1>5, <1>6 DEF ParsedBeforeRest
  <2>2. buffer_session = session
    BY <1>1, <1>3, <1>5, <2>1
  <2>3. QED
    BY <1>1, <1>2, <1>4, <1>6, <2>1, <2>2
<1>9. Len(handed') \in 0 .. next_seqno' /\ next_seqno' \in 0 .. MaxSeqno + 1
  BY <1>1, <1>3, <1>5, <1>6
<1>10. session_id' <= buffer_session' /\ parsed' \in 0 .. Len(handed')
  BY <1>1, <1>3, <1>5, <1>6
<1>11. QED
  BY <1>1, <1>3, <1>7, <1>8, <1>9, <1>10 DEF TurnInv

(* The message the callback gets next.                                     *)
LEMMA NextMessage ==
  ASSUME Short, TurnInv, ~Idle
  PROVE  LET message == handed[parsed + 1]
         IN  /\ message.session_id = buffer_session
             /\ buffer_session \in SessionIds
             /\ message.seqno = next_seqno - (Len(handed) - parsed)
             /\ message.seqno \in Seqnos
             /\ parsed + 1 \in 1 .. Len(handed)
<1>1. parsed \in Nat /\ Len(handed) \in Nat /\ next_seqno \in Nat /\ MaxSeqno \in Nat
  BY Numbers DEF TurnInv
<1>2. parsed + 1 \in 1 .. Len(handed) /\ Len(handed) > 0
  BY <1>1 DEF TurnInv, Idle
<1>3. handed[parsed + 1] = [session_id |-> buffer_session,
                            seqno |-> next_seqno - Len(handed) + (parsed + 1) - 1]
  BY <1>2 DEF TurnInv, RunBeforeNext
<1>4. next_seqno - Len(handed) + (parsed + 1) - 1 = next_seqno - (Len(handed) - parsed)
  BY <1>1
<1>5. next_seqno - (Len(handed) - parsed) \in 0 .. MaxSeqno
  BY <1>1, <1>2 DEF TurnInv
<1>6. QED
  BY <1>2, <1>3, <1>4, <1>5 DEF TurnInv, Seqnos

LEMMA ParseKeeps ==
  ASSUME Short, TurnInv, Parse
  PROVE  TurnInv'
<1>1. /\ parsed \in Nat /\ Len(handed) \in Nat /\ next_seqno \in Nat
      /\ parsed + 1 \in 1 .. Len(handed)
      /\ buffer_session \in SessionIds /\ buffer_session \in Nat
  BY NextMessage, Numbers DEF TurnInv, Parse, ParseMessage
<1>2. /\ session_id' = buffer_session
      /\ incremental' = next_seqno - (Len(handed) - parsed)
      /\ incremental' \in Nat
  BY NextMessage, Numbers DEF Parse, ParseMessage, ParsedIncremental, Seqnos
<1>3. /\ parsed' = parsed + 1 /\ parsed' \in 0 .. Len(handed)
      /\ UNCHANGED bufferVars
  BY <1>1 DEF Parse, ParseMessage
<1>4. ParsedBeforeRest'
  BY <1>1, <1>2, <1>3 DEF ParsedBeforeRest, bufferVars
<1>5. QED
  BY <1>1, <1>2, <1>3, <1>4 DEF TurnInv, RunBeforeNext, bufferVars

(* A snapshot leaves the incremental channel alone.                        *)
LEMMA SnapshotReadKeeps ==
  ASSUME TurnInv, \E s \in SessionIds, o \in Objects, q \in Seqnos : SnapshotRead(s, o, q)
  PROVE  TurnInv'
<1>1. UNCHANGED <<bufferVars, parsed, session_id, incremental>>
  BY DEF SnapshotRead, ReceiveSnapshot, vars
<1>2. QED
  BY <1>1 DEF TurnInv, RunBeforeNext, ParsedBeforeRest, bufferVars

LEMMA TurnInit ==
  ASSUME Short
  PROVE  SubscriberInit => TurnInv
BY Numbers DEF SubscriberInit, B!Init, Init, TurnInv, RunBeforeNext, ParsedBeforeRest

LEMMA TurnNext ==
  ASSUME Short, ~LateSessions
  PROVE  TurnInv /\ [SubscriberNext]_subscriberVars => TurnInv'
<1>1. ASSUME TurnInv, UNCHANGED subscriberVars
      PROVE  TurnInv'
  BY <1>1 DEF TurnInv, RunBeforeNext, ParsedBeforeRest, subscriberVars, bufferVars, vars
<1>2. QED
  BY <1>1, DatagramKeeps, ParseKeeps, SnapshotReadKeeps DEF SubscriberNext

(* Every step is one of Recovery, or leaves it alone.                      *)
LEMMA RecoverySteps ==
  ASSUME Short, TurnInv, [SubscriberNext]_subscriberVars
  PROVE  [Next]_vars
<1>1. CASE Parse
  <2>1. PICK o \in Objects, snapshot \in BOOLEAN :
          ParsedIncremental(handed[parsed + 1].session_id, o,
                              handed[parsed + 1].seqno, snapshot)
    BY <1>1 DEF Parse, ParseMessage
  <2> DEFINE s == handed[parsed + 1].session_id
             seqno == handed[parsed + 1].seqno
  <2>2. s = buffer_session /\ s \in SessionIds /\ seqno \in Seqnos
        /\ seqno = next_seqno - (Len(handed) - parsed)
    BY <1>1, NextMessage DEF Parse, ParseMessage
  <2>3. InOrder(s, seqno)
    <3>1. SUFFICES ASSUME s = session_id
                   PROVE  seqno > incremental
      BY DEF InOrder
    <3>2. session_id # 0
      BY <2>2, <3>1, Numbers
    <3>3. QED
      BY <2>2, <3>1, <3>2, Numbers DEF TurnInv, ParsedBeforeRest, Seqnos
  <2>4. ReceiveIncremental(s, o, seqno, snapshot)
    BY <2>1, <2>3 DEF ReceiveIncremental
  <2>5. QED
    BY <2>2, <2>4 DEF Next
<1>2. CASE \E s \in SessionIds, o \in Objects, q \in Seqnos : SnapshotRead(s, o, q)
  BY <1>2 DEF SnapshotRead, Next
<1>3. CASE Datagram \/ UNCHANGED subscriberVars
  BY <1>3 DEF Datagram, subscriberVars
<1>4. QED
  BY <1>1, <1>2, <1>3 DEF SubscriberNext

(* The turns of the event loop, whether or not a call runs to its end: all *)
(* that a specification needs which goes through these steps.              *)
Turns == SubscriberInit /\ [][SubscriberNext]_subscriberVars

LEMMA TurnsKeep ==
  ASSUME Short, ~LateSessions
  PROVE  Turns => []TurnInv
BY TurnInit, TurnNext, PTL DEF Turns

LEMMA TurnsRecover ==
  ASSUME Short, ~LateSessions
  PROVE  Turns => Steps
<1>1. SubscriberInit => Init
  BY DEF SubscriberInit
<1>2. TurnInv /\ [SubscriberNext]_subscriberVars => [Next]_vars
  BY RecoverySteps
<1>3. QED
  BY <1>1, <1>2, TurnsKeep, PTL DEF Turns, Steps

LEMMA SpecTurns == SubscriberSpec => Turns
BY PTL DEF SubscriberSpec, Turns

(* For any ring, sessions and objects: in sessions that are short and do   *)
(* not come back, the buffer provides what Recovery relies on.             *)
THEOREM BufferServesRecovery ==
  ASSUME Short, ~LateSessions
  PROVE  SubscriberSpec => ImplementsRecovery
BY SpecTurns, TurnsRecover, PTL DEF Steps, ImplementsRecovery

-----------------------------------------------------------------------------
(* The snapshot an object waits for.                                       *)

(* An object of which there were only updates waits with the first one.    *)
WaitsWithFirst(o) ==
  held[o] # None /\ full[o] = None =>
    ~state[o].ready /\ state[o].last_seqno # None /\ state[o].last_seqno <= incremental

NewestInv ==
  /\ RecoveryInv
  /\ \A o \in Ordinary : WaitsWithFirst(o)

(* What the invariant of Recovery says of one object.                      *)
LEMMA ObjectFacts ==
  ASSUME RecoveryInv, NEW o \in Objects
  PROVE  /\ state[o] \in [ready : BOOLEAN, last_seqno : Seqnos \union {None}]
         /\ state \in [Objects -> [ready : BOOLEAN, last_seqno : Seqnos \union {None}]]
         /\ incremental \in Seqnos
         /\ held \in [Objects -> Seqnos \union {None}]
         /\ full \in [Objects -> Seqnos \union {None}]
         /\ held[o] = None => state[o] = NewState
BY DEF RecoveryInv, TypeOK, Known

(* An update does not make an object ready.                                *)
LEMMA UpdateWaits ==
  ASSUME NEW st \in [ready : BOOLEAN, last_seqno : Seqnos \union {None}],
         ~st.ready, NEW seqno
  PROVE  AfterIncremental(st, seqno, FALSE) =
           [ready      |-> FALSE,
            last_seqno |-> IF st.last_seqno = None THEN seqno ELSE st.last_seqno]
<1>1. st.ready = FALSE
  OBVIOUS
<1>2. (st.ready \/ FALSE) = FALSE
  BY <1>1
<1>3. QED
  BY <1>1, <1>2 DEF AfterIncremental

(* A message of the incremental channel: of the object itself, an update   *)
(* is the first or comes after the first; of another object, it only moves *)
(* the channel on.                                                         *)
LEMMA IncrementalWaits ==
  ASSUME NewestInv, RecoveryInv',
         NEW s \in SessionIds, NEW o \in Objects, NEW seqno \in Seqnos,
         NEW snapshot \in BOOLEAN, ReceiveIncremental(s, o, seqno, snapshot),
         NEW p \in Ordinary
  PROVE  WaitsWithFirst(p)'
<1>1. /\ seqno \in Nat /\ seqno # None /\ Seqnos \subseteq Nat
      /\ p \in Objects
  BY SeqnoFacts, RecoveryAssumption DEF Seqnos, Ordinary
<1>2. SUFFICES ASSUME held'[p] # None, full'[p] = None
               PROVE  /\ ~state'[p].ready /\ state'[p].last_seqno # None
                      /\ state'[p].last_seqno <= incremental'
  BY DEF WaitsWithFirst
<1>3. /\ state[p] \in [ready : BOOLEAN, last_seqno : Seqnos \union {None}]
      /\ state \in [Objects -> [ready : BOOLEAN, last_seqno : Seqnos \union {None}]]
      /\ incremental \in Nat
      /\ held \in [Objects -> Seqnos \union {None}]
      /\ full \in [Objects -> Seqnos \union {None}]
      /\ held[p] = None => state[p] = NewState
  BY <1>1, ObjectFacts DEF NewestInv
<1>4. incremental' = seqno /\ (s = session_id => seqno > incremental)
  BY DEF ReceiveIncremental, InOrder, ParsedIncremental
<1>5. CASE s = session_id
  <2>1. /\ state' = [state EXCEPT ![o] = AfterIncremental(@, seqno, snapshot)]
        /\ held' = [held EXCEPT ![o] = seqno]
        /\ full' = [full EXCEPT ![o] = IF snapshot THEN seqno ELSE @]
    BY <1>5 DEF ReceiveIncremental, ParsedIncremental, States, SinceReset
  <2>2. CASE p = o
    <3>1. ~snapshot /\ full[p] = None
      BY <1>1, <1>2, <1>3, <2>1, <2>2
    <3>2. ~state[p].ready
      BY <1>3, <3>1 DEF NewestInv, WaitsWithFirst, NewState
    <3>3. state'[p] = AfterIncremental(state[p], seqno, FALSE)
      BY <1>1, <1>3, <2>1, <2>2, <3>1
    <3>4. state[p].last_seqno # None => state[p].last_seqno <= incremental
      BY <1>3, <3>1 DEF NewestInv, WaitsWithFirst, NewState
    <3>5. state'[p] = [ready      |-> FALSE,
                       last_seqno |-> IF state[p].last_seqno = None
                                        THEN seqno ELSE state[p].last_seqno]
      BY <1>3, <3>2, <3>3, UpdateWaits
    <3>6. /\ state'[p].ready = FALSE
          /\ state'[p].last_seqno =
               IF state[p].last_seqno = None THEN seqno ELSE state[p].last_seqno
      BY <3>5
    <3>7. state[p].last_seqno # None => state[p].last_seqno \in Nat
      BY <1>1, <1>3
    <3>8. state'[p].last_seqno # None /\ state'[p].last_seqno <= seqno
      BY <1>1, <1>3, <1>4, <1>5, <3>4, <3>6, <3>7
    <3>9. QED
      BY <1>4, <3>6, <3>8
  <2>3. CASE p # o
    <3>1. state'[p] = state[p] /\ held'[p] = held[p] /\ full'[p] = full[p]
      BY <1>1, <1>3, <2>1, <2>3
    <3>2. /\ ~state[p].ready /\ state[p].last_seqno # None
          /\ state[p].last_seqno <= incremental
      BY <1>2, <3>1 DEF NewestInv, WaitsWithFirst
    <3>3. state[p].last_seqno \in Nat
      BY <1>1, <1>3, <3>2
    <3>4. state[p].last_seqno <= seqno
      BY <1>1, <1>3, <1>4, <1>5, <3>2, <3>3
    <3>5. QED
      BY <1>4, <3>1, <3>2, <3>4
  <2>4. QED
    BY <2>2, <2>3
<1>6. CASE s # session_id
  <2>1. /\ state' = [[q \in Objects |-> NewState] EXCEPT
                       ![o] = AfterIncremental(@, seqno, snapshot)]
        /\ held' = [Nothing EXCEPT ![o] = seqno]
        /\ full' = [Nothing EXCEPT ![o] = IF snapshot THEN seqno ELSE @]
    BY <1>6 DEF ReceiveIncremental, ParsedIncremental, States, SinceReset
  <2>2. p = o /\ ~snapshot
    BY <1>1, <1>2, <2>1 DEF Nothing
  <2>3. state'[p] = AfterIncremental(NewState, seqno, FALSE)
    BY <1>1, <2>1, <2>2
  <2>4. /\ NewState \in [ready : BOOLEAN, last_seqno : Seqnos \union {None}]
        /\ ~NewState.ready /\ NewState.last_seqno = None
    BY DEF NewState
  <2>5. state'[p] = [ready |-> FALSE, last_seqno |-> seqno]
    BY <2>3, <2>4, UpdateWaits
  <2>6. state'[p].ready = FALSE /\ state'[p].last_seqno = seqno
    BY <2>5
  <2>7. QED
    BY <1>1, <1>4, <2>6
<1>7. QED
  BY <1>5, <1>6

(* With a snapshot an object no longer waits for its first one.            *)
LEMMA SnapshotWaits ==
  ASSUME NewestInv,
         NEW s \in SessionIds, NEW o \in Objects, NEW last_seqno \in Seqnos,
         ReceiveSnapshot(s, o, last_seqno),
         NEW p \in Ordinary
  PROVE  WaitsWithFirst(p)'
<1>1. last_seqno # None /\ p \in Objects
  BY SeqnoFacts, RecoveryAssumption DEF Seqnos, Ordinary
<1>2. /\ state \in [Objects -> [ready : BOOLEAN, last_seqno : Seqnos \union {None}]]
      /\ held \in [Objects -> Seqnos \union {None}]
      /\ full \in [Objects -> Seqnos \union {None}]
  BY <1>1, ObjectFacts DEF NewestInv
<1>3. CASE UNCHANGED vars
  BY <1>3 DEF NewestInv, WaitsWithFirst, vars
<1>4. CASE /\ state' = [state EXCEPT ![o].last_seqno = last_seqno]
           /\ full' = [full EXCEPT ![o] = last_seqno]
           /\ held' = [held EXCEPT ![o] = last_seqno]
           /\ UNCHANGED incremental
  <2>1. CASE p = o
    BY <1>1, <1>2, <1>4, <2>1 DEF WaitsWithFirst
  <2>2. CASE p # o
    <3>1. state'[p] = state[p] /\ held'[p] = held[p] /\ full'[p] = full[p]
      BY <1>1, <1>2, <1>4, <2>2
    <3>2. QED
      BY <1>4, <3>1 DEF NewestInv, WaitsWithFirst
  <2>3. QED
    BY <2>1, <2>2
<1>5. QED
  BY <1>3, <1>4 DEF ReceiveSnapshot

LEMMA NewestNext ==
  ASSUME NewestInv, [Next]_vars
  PROVE  NewestInv'
<1>1. RecoveryInv'
  BY RecoveryNext DEF NewestInv
<1>2. ASSUME NEW p \in Ordinary
      PROVE  WaitsWithFirst(p)'
  <2>1. CASE UNCHANGED vars
    BY <2>1 DEF NewestInv, WaitsWithFirst, vars
  <2>2. CASE Next
    BY <1>1, <2>2, IncrementalWaits, SnapshotWaits DEF Next
  <2>3. QED
    BY <2>1, <2>2
<1>3. QED
  BY <1>1, <1>2 DEF NewestInv

LEMMA TurnsNewest ==
  ASSUME Short, ~LateSessions
  PROVE  Turns => []NewestIncluded
<1>1. Init => NewestInv
  BY RecoveryInit DEF NewestInv, WaitsWithFirst, Init, Nothing, Ordinary
<1>2. NewestInv /\ [Next]_vars => NewestInv'
  BY NewestNext
<1>3. NewestInv => NewestIncluded
  BY DEF NewestInv, WaitsWithFirst, NewestIncluded, Included
<1>4. QED
  BY <1>1, <1>2, <1>3, TurnsRecover, PTL DEF Steps

(* For any ring, sessions and objects: in sessions that are short and do   *)
(* not come back, an object that waits for its first snapshot gets one as  *)
(* new as the channel.                                                     *)
THEOREM NewestIsIncluded ==
  ASSUME Short, ~LateSessions
  PROVE  SubscriberSpec => []NewestIncluded
BY SpecTurns, TurnsNewest, PTL

(* Under the same conditions, what is proved of Recovery holds of buffer   *)
(* and callback together: no snapshot from before the update an object     *)
(* waits with, and a last_seqno for each ready object.                     *)
THEOREM SubscriberCovers ==
  ASSUME Short, ~LateSessions
  PROVE  SubscriberSpec => [](TypeOK /\ CoversFirst)
BY SpecTurns, TurnsRecover, StepsCover, PTL

(* Likewise, with any datagrams lost, repeated or reordered: while a       *)
(* session lasts, no snapshot replaces the state a client has of an object *)
(* by an older one ...                                                     *)
THEOREM SubscriberForward ==
  ASSUME Short, ~LateSessions
  PROVE  SubscriberSpec => SnapshotsForward
BY SpecTurns, TurnsRecover, StepsForward, PTL

(* ... and what a client holds of a ready object never goes back.          *)
THEOREM SubscriberReady ==
  ASSUME Short, ~LateSessions
  PROVE  SubscriberSpec => ReadyNeverBack
BY SpecTurns, TurnsRecover, StepsReady, PTL
=============================================================================
