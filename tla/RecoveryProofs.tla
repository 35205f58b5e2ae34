--------------------------- MODULE RecoveryProofs ---------------------------
(***************************************************************************)
(* What Recovery promises of the snapshots it hands over, proved for any   *)
(* sessions, objects and seqnos.  The inductive invariant says, object by  *)
(* object, what shared_.state knows of what was handed over: while an      *)
(* object is not ready, last_seqno is at least the update it waits with    *)
(* and at least the last snapshot; once it is ready, what a client holds   *)
(* is not ahead of the incremental channel.                                *)
(***************************************************************************)
EXTENDS Recovery, TLAPS

(* Of an object of which nothing was handed over, nothing is known.        *)
Known(o) == held[o] = None => state[o] = NewState /\ full[o] = None

(* The update an object waits with has been on the channel, and snapshots  *)
(* before it are not handed over.                                          *)
WaitsWith(o) ==
  first[o] # None =>
    /\ first[o] <= incremental
    /\ ~state[o].ready => state[o].last_seqno # None /\ state[o].last_seqno >= first[o]
    /\ full[o] # None => full[o] >= first[o]

(* Until an object is ready, last_seqno follows its snapshots.             *)
Follows(o) ==
  ~state[o].ready /\ full[o] # None => state[o].last_seqno >= full[o]

(* A client is not ahead of the channel with a ready object.               *)
NotAhead(o) == state[o].ready => held[o] <= incremental

RecoveryInv ==
  /\ TypeOK
  /\ \A o \in Objects : Known(o)
  /\ \A o \in Ordinary : WaitsWith(o) /\ Follows(o) /\ NotAhead(o)

(* None is before every seqno.                                             *)
LEMMA SeqnoFacts ==
  /\ Seqnos \subseteq Int
  /\ None \in Int
  /\ None \notin Seqnos
  /\ \A q \in Seqnos : q > None /\ q >= 0
BY RecoveryAssumption DEF Seqnos, None

(* A seqno or None is an integer, and None is the least of them.           *)
LEMMA Optional == \A q \in Seqnos \union {None} : q \in Int /\ q >= None
BY RecoveryAssumption DEF Seqnos, None

(* The histories and the states after a possible reset.                    *)
LEMMA ResetTyped ==
  ASSUME RecoveryInv, NEW s \in SessionIds
  PROVE  /\ States(s) \in [Objects -> [ready : BOOLEAN, last_seqno : Seqnos \union {None}]]
         /\ SinceReset(s, held) \in [Objects -> Seqnos \union {None}]
         /\ SinceReset(s, full) \in [Objects -> Seqnos \union {None}]
         /\ SinceReset(s, first) \in [Objects -> Seqnos \union {None}]
         /\ \A o \in Objects : States(s)[o].ready => States(s)[o].last_seqno # None
         /\ \A o \in Objects : SinceReset(s, held)[o] = None =>
              States(s)[o] = NewState /\ SinceReset(s, full)[o] = None
BY DEF RecoveryInv, TypeOK, States, SinceReset, Nothing, NewState, Known

(* The state of an object after one of its messages is of its type.        *)
LEMMA AfterTyped ==
  ASSUME NEW st \in [ready : BOOLEAN, last_seqno : Seqnos \union {None}],
         NEW seqno \in Seqnos, NEW snapshot \in BOOLEAN,
         st.ready => st.last_seqno # None
  PROVE  /\ AfterIncremental(st, seqno, snapshot)
              \in [ready : BOOLEAN, last_seqno : Seqnos \union {None}]
         /\ AfterIncremental(st, seqno, snapshot).last_seqno # None
BY SeqnoFacts DEF AfterIncremental

LEMMA IncrementalTyped ==
  ASSUME RecoveryInv, NEW s \in SessionIds, NEW o \in Objects,
         NEW seqno \in Seqnos, NEW snapshot \in BOOLEAN,
         ReceiveIncremental(s, o, seqno, snapshot)
  PROVE  TypeOK'
<1>1. /\ States(s)[o] \in [ready : BOOLEAN, last_seqno : Seqnos \union {None}]
      /\ States(s)[o].ready => States(s)[o].last_seqno # None
  BY ResetTyped
<1>2. /\ state' \in [Objects -> [ready : BOOLEAN, last_seqno : Seqnos \union {None}]]
      /\ \A p \in Objects : state'[p].ready => state'[p].last_seqno # None
  <2> DEFINE st == AfterIncremental(States(s)[o], seqno, snapshot)
  <2>1. /\ st \in [ready : BOOLEAN, last_seqno : Seqnos \union {None}]
        /\ st.last_seqno # None
    BY <1>1, AfterTyped
  <2>2. state' = [States(s) EXCEPT ![o] = st]
    BY DEF ReceiveIncremental, ParsedIncremental, InOrder
  <2> HIDE DEF st
  <2>3. QED
    BY <2>1, <2>2, ResetTyped
<1>3. /\ held' \in [Objects -> Seqnos \union {None}]
      /\ full' \in [Objects -> Seqnos \union {None}]
      /\ first' \in [Objects -> Seqnos \union {None}]
  BY ResetTyped DEF ReceiveIncremental, ParsedIncremental, InOrder
<1>4. session_id' \in SessionIds /\ incremental' \in Seqnos
      /\ joined' \in Seqnos \union {None}
  BY DEF ReceiveIncremental, ParsedIncremental, InOrder, RecoveryInv, TypeOK
<1>5. QED
  BY <1>2, <1>3, <1>4 DEF TypeOK

(* A message of the incremental channel keeps the invariant.               *)
LEMMA IncrementalKeeps ==
  ASSUME RecoveryInv, NEW s \in SessionIds, NEW o \in Objects,
         NEW seqno \in Seqnos, NEW snapshot \in BOOLEAN,
         ReceiveIncremental(s, o, seqno, snapshot)
  PROVE  RecoveryInv'
<1>1. TypeOK'
  BY IncrementalTyped
<1>2. ASSUME NEW p \in Objects, p # o
      PROVE  /\ state'[p] = States(s)[p]
             /\ held'[p] = SinceReset(s, held)[p]
             /\ full'[p] = SinceReset(s, full)[p]
             /\ first'[p] = SinceReset(s, first)[p]
  BY <1>2, ResetTyped DEF ReceiveIncremental, ParsedIncremental, InOrder
<1>3. /\ state'[o] = AfterIncremental(States(s)[o], seqno, snapshot)
      /\ held'[o] = seqno
      /\ full'[o] = IF snapshot THEN seqno ELSE SinceReset(s, full)[o]
      /\ first'[o] = IF ~snapshot /\ SinceReset(s, held)[o] = None
                       THEN seqno
                       ELSE SinceReset(s, first)[o]
      /\ incremental' = seqno
  BY ResetTyped DEF ReceiveIncremental, ParsedIncremental, InOrder
<1>4. ASSUME NEW p \in Objects PROVE Known(p)'
  BY <1>2, <1>3, <1>4, ResetTyped, SeqnoFacts DEF Known
<1>5. ASSUME NEW p \in Ordinary PROVE WaitsWith(p)' /\ Follows(p)' /\ NotAhead(p)'
  <2>0. p \in Objects /\ incremental \in Seqnos
    BY <1>5 DEF Ordinary, RecoveryInv, TypeOK
  <2>1. CASE s # session_id
    <3>1. /\ States(s)[p] = NewState
          /\ SinceReset(s, held)[p] = None
          /\ SinceReset(s, full)[p] = None
          /\ SinceReset(s, first)[p] = None
      BY <2>0, <2>1 DEF States, SinceReset, Nothing
    <3>2. CASE p = o
      BY <2>0, <3>1, <3>2, <1>3, SeqnoFacts
      DEF WaitsWith, Follows, NotAhead, AfterIncremental, NewState
    <3>3. CASE p # o
      BY <2>0, <3>1, <3>3, <1>2 DEF WaitsWith, Follows, NotAhead, NewState
    <3>4. QED
      BY <3>2, <3>3
  <2>2. CASE s = session_id
    <3>1. /\ States(s)[p] = state[p]
          /\ SinceReset(s, held)[p] = held[p]
          /\ SinceReset(s, full)[p] = full[p]
          /\ SinceReset(s, first)[p] = first[p]
      BY <2>2 DEF States, SinceReset
    <3>2. /\ WaitsWith(p) /\ Follows(p) /\ NotAhead(p) /\ Known(p)
          /\ seqno > incremental
      BY <2>0, <2>2 DEF RecoveryInv, ReceiveIncremental, ParsedIncremental, InOrder
    <3>3. /\ state[p] \in [ready : BOOLEAN, last_seqno : Seqnos \union {None}]
          /\ full[p] \in Seqnos \union {None}
          /\ held[p] \in Seqnos \union {None}
          /\ first[p] \in Seqnos \union {None}
      BY <2>0 DEF RecoveryInv, TypeOK
    <3>a. /\ full[p] \in Int /\ held[p] \in Int /\ first[p] \in Int
          /\ incremental \in Int /\ seqno \in Int /\ state[p].last_seqno \in Int
          /\ state[p].ready \in BOOLEAN
          /\ seqno # None /\ full[p] >= None /\ None \in Int
      BY <2>0, <3>3, Optional, SeqnoFacts
    <3>4. CASE p = o
      <4>1. WaitsWith(p)'
        <5>1. CASE first'[p] = first[p]
          BY <3>1, <3>2, <3>a, <3>4, <1>3, <5>1 DEF WaitsWith, AfterIncremental
        <5>2. CASE first'[p] = seqno /\ ~snapshot /\ held[p] = None
          <6>1. state[p] = NewState /\ full[p] = None
            BY <3>2, <5>2 DEF Known
          <6>2. QED
            BY <3>1, <3>a, <3>4, <1>3, <5>2, <6>1 DEF WaitsWith, AfterIncremental, NewState
        <5>3. QED
          BY <3>1, <3>4, <1>3, <5>1, <5>2
      <4>2. Follows(p)'
        BY <3>1, <3>2, <3>a, <3>4, <1>3 DEF Follows, AfterIncremental
      <4>3. NotAhead(p)'
        BY <3>1, <3>2, <3>a, <3>4, <1>3 DEF NotAhead
      <4>4. QED
        BY <4>1, <4>2, <4>3
    <3>5. CASE p # o
      <4>1. /\ state'[p] = state[p]
            /\ held'[p] = held[p]
            /\ full'[p] = full[p]
            /\ first'[p] = first[p]
        BY <2>0, <3>1, <3>5, <1>2
      <4>2. QED
        BY <3>2, <3>a, <4>1, <1>3 DEF WaitsWith, Follows, NotAhead
    <3>6. QED
      BY <3>4, <3>5
  <2>3. QED
    BY <2>1, <2>2
<1>6. Ordinary' = Ordinary
  BY DEF Ordinary
<1>7. QED
  BY <1>1, <1>4, <1>5 DEF RecoveryInv

(* So does a message of the snapshot channel.                              *)
LEMMA SnapshotKeeps ==
  ASSUME RecoveryInv, NEW s \in SessionIds, NEW o \in Objects,
         NEW last_seqno \in Seqnos, ReceiveSnapshot(s, o, last_seqno)
  PROVE  RecoveryInv'
<1>1. CASE UNCHANGED vars
  BY <1>1 DEF RecoveryInv, TypeOK, Known, WaitsWith, Follows, NotAhead, vars
<1>2. CASE /\ Included(o, last_seqno)
           /\ state' = [state EXCEPT ![o].last_seqno = last_seqno]
           /\ full' = [full EXCEPT ![o] = last_seqno]
           /\ held' = [held EXCEPT ![o] = last_seqno]
           /\ UNCHANGED <<session_id, incremental, joined, first>>
  <2>1. TypeOK'
    BY <1>2, SeqnoFacts DEF RecoveryInv, TypeOK
  <2>2. ASSUME NEW p \in Objects PROVE Known(p)'
    BY <1>2, <2>2, SeqnoFacts DEF RecoveryInv, TypeOK, Known
  <2>3. ASSUME NEW p \in Ordinary PROVE WaitsWith(p)' /\ Follows(p)' /\ NotAhead(p)'
    BY <1>2, <2>3, SeqnoFacts
    DEF RecoveryInv, TypeOK, WaitsWith, Follows, NotAhead, Included, Ordinary
  <2>4. QED
    BY <2>1, <2>2, <2>3 DEF RecoveryInv
<1>3. QED
  BY <1>1, <1>2 DEF ReceiveSnapshot

(* Initially nothing is known.                                             *)
LEMMA RecoveryInit == Init => RecoveryInv
BY RecoveryAssumption, SeqnoFacts
DEF Init, RecoveryInv, TypeOK, Known, WaitsWith, Follows, NotAhead, Nothing, NewState,
    Ordinary, Seqnos

(* Every step keeps the invariant.                                         *)
LEMMA RecoveryNext == RecoveryInv /\ [Next]_vars => RecoveryInv'
<1> SUFFICES ASSUME RecoveryInv, [Next]_vars PROVE RecoveryInv'
  OBVIOUS
<1>1. CASE Next
  BY <1>1, IncrementalKeeps, SnapshotKeeps DEF Next
<1>2. CASE UNCHANGED vars
  BY <1>2 DEF RecoveryInv, TypeOK, Known, WaitsWith, Follows, NotAhead, vars
<1>3. QED
  BY <1>1, <1>2

(* What the steps of Recovery do, whether or not snapshots keep coming:    *)
(* all that a specification needs which goes through these steps.          *)
Steps == Init /\ [][Next]_vars

LEMMA StepsCover == Steps => [](TypeOK /\ CoversFirst)
<1>1. RecoveryInv => TypeOK /\ CoversFirst
  BY DEF RecoveryInv, CoversFirst, WaitsWith
<1>2. QED
  BY <1>1, RecoveryInit, RecoveryNext, PTL DEF Steps

(* For any sessions, objects and seqnos: a ready object has a last_seqno,  *)
(* and an object that waits with an update gets no snapshot from before.   *)
THEOREM SnapshotsCover == Spec => [](TypeOK /\ CoversFirst)
<1>1. Spec => Steps
  BY PTL DEF Spec, Steps
<1>2. QED
  BY <1>1, StepsCover, PTL

(* For any sessions, objects and seqnos: the state of every object has its *)
(* type, and the last_seqno that the log line of a ready object reads is   *)
(* there.                                                                  *)
THEOREM ReadyHasSeqno == Spec => []TypeOK
<1>1. QED
  BY SnapshotsCover, PTL

LEMMA StepsForward == Steps => SnapshotsForward
<1>1. ASSUME RecoveryInv, [Next]_vars, NEW p \in Ordinary,
             session_id' = session_id, incremental' = incremental
      PROVE  full'[p] >= full[p]
  <2>0. /\ p \in Objects
        /\ full[p] \in Seqnos \union {None}
        /\ full \in [Objects -> Seqnos \union {None}]
        /\ state[p].last_seqno \in Seqnos \union {None}
        /\ incremental \in Seqnos
        /\ Follows(p)
    BY <1>1 DEF Ordinary, RecoveryInv, TypeOK
  <2>1. ASSUME NEW s \in SessionIds, NEW o \in Objects, NEW seqno \in Seqnos,
               NEW snapshot \in BOOLEAN, ReceiveIncremental(s, o, seqno, snapshot)
        PROVE  FALSE
    BY <1>1, <2>0, <2>1, SeqnoFacts DEF ReceiveIncremental, ParsedIncremental, InOrder
  <2>2. ASSUME NEW s \in SessionIds, NEW o \in Objects, NEW last_seqno \in Seqnos,
               ReceiveSnapshot(s, o, last_seqno)
        PROVE  full'[p] >= full[p]
    <3>1. /\ full[p] \in Int /\ state[p].last_seqno \in Int /\ last_seqno \in Int
          /\ p # SystemObject
          /\ full[p] >= None /\ last_seqno >= None /\ None \in Int
      BY <1>1, <2>0, <2>2, Optional, SeqnoFacts DEF Ordinary
    <3>2. CASE o = p /\ full' = [full EXCEPT ![o] = last_seqno] /\ Included(o, last_seqno)
      <4>1. full'[p] = last_seqno
        BY <2>0, <3>2
      <4>2. /\ ~state[p].ready
            /\ state[p].last_seqno # None => state[p].last_seqno <= last_seqno
        BY <3>1, <3>2 DEF Included
      <4>3. full[p] # None => state[p].last_seqno >= full[p]
        BY <2>0, <4>2 DEF Follows
      <4>4. QED
        BY <3>1, <4>1, <4>2, <4>3
    <3>3. CASE full'[p] = full[p]
      BY <3>1, <3>3
    <3>4. QED
      BY <2>0, <2>2, <3>2, <3>3 DEF ReceiveSnapshot, vars, RecoveryInv, TypeOK
  <2>3. CASE UNCHANGED vars
    BY <2>0, <2>3, Optional DEF vars
  <2>4. QED
    BY <1>1, <2>1, <2>2, <2>3 DEF Next
<1>2. RecoveryInv /\ [Next]_vars =>
        [\A o \in Ordinary :
           session_id' = session_id /\ incremental' = incremental => full'[o] >= full[o]]_vars
  BY <1>1
<1>3. QED
  BY <1>2, RecoveryInit, RecoveryNext, PTL DEF Steps, SnapshotsForward

(* For any sessions, objects and seqnos: while a session lasts, the        *)
(* snapshot channel hands over the states of an object from older to newer.*)
THEOREM OnlyForward == Spec => SnapshotsForward
<1>1. Spec => Steps
  BY PTL DEF Spec, Steps
<1>2. QED
  BY <1>1, StepsForward, PTL

(* A ready object does not go back as long as the incremental channel does *)
(* not: InOrder, for which the buffer stands in SubscriberProofs.          *)
LEMMA StepsReady == Steps => ReadyNeverBack
<1>1. ASSUME RecoveryInv, [Next]_vars, NEW p \in Ordinary,
             session_id' = session_id, state[p].ready
      PROVE  state'[p].ready /\ held'[p] >= held[p]
  <2>0. /\ p \in Objects
        /\ p # SystemObject
        /\ held \in [Objects -> Seqnos \union {None}]
        /\ state \in [Objects -> [ready : BOOLEAN, last_seqno : Seqnos \union {None}]]
        /\ incremental \in Seqnos
        /\ held[p] <= incremental
        /\ held[p] \in Int /\ incremental \in Int
    BY <1>1, Optional, SeqnoFacts DEF Ordinary, RecoveryInv, TypeOK, NotAhead
  <2>1. ASSUME NEW s \in SessionIds, NEW o \in Objects, NEW seqno \in Seqnos,
               NEW snapshot \in BOOLEAN, ReceiveIncremental(s, o, seqno, snapshot)
        PROVE  state'[p].ready /\ held'[p] >= held[p]
    <3>1. /\ s = session_id
          /\ seqno > incremental
          /\ state' = [state EXCEPT ![o] = AfterIncremental(state[o], seqno, snapshot)]
          /\ held' = [held EXCEPT ![o] = seqno]
      BY <1>1, <2>1 DEF ReceiveIncremental, ParsedIncremental, InOrder, States, SinceReset
    <3>2. seqno \in Int
      BY <2>1, SeqnoFacts
    <3>3. CASE o = p
      BY <1>1, <2>0, <3>1, <3>2, <3>3 DEF AfterIncremental
    <3>4. CASE o # p
      BY <1>1, <2>0, <3>1, <3>4
    <3>5. QED
      BY <3>3, <3>4
  <2>2. ASSUME NEW s \in SessionIds, NEW o \in Objects, NEW last_seqno \in Seqnos,
               ReceiveSnapshot(s, o, last_seqno)
        PROVE  state'[p].ready /\ held'[p] >= held[p]
    <3>1. CASE state' = state /\ held' = held
      BY <1>1, <2>0, <3>1
    <3>2. CASE /\ o # p
               /\ state' = [state EXCEPT ![o].last_seqno = last_seqno]
               /\ held' = [held EXCEPT ![o] = last_seqno]
      BY <1>1, <2>0, <3>2
    <3>3. QED
      BY <1>1, <2>0, <2>2, <3>1, <3>2 DEF ReceiveSnapshot, Included, vars
  <2>3. CASE UNCHANGED vars
    BY <1>1, <2>0, <2>3, SeqnoFacts DEF vars
  <2>4. QED
    BY <1>1, <2>1, <2>2, <2>3 DEF Next
<1>2. RecoveryInv /\ [Next]_vars =>
        [\A o \in Ordinary :
           session_id' = session_id /\ state[o].ready =>
             state'[o].ready /\ held'[o] >= held[o]]_vars
  BY <1>1
<1>3. QED
  BY <1>2, RecoveryInit, RecoveryNext, PTL DEF Steps, ReadyNeverBack
=============================================================================
