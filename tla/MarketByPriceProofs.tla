------------------------ MODULE MarketByPriceProofs ------------------------
(***************************************************************************)
(* With one publisher session the book of a client is never one an update  *)
(* was wrongly applied to, proved for any number of seqnos and whatever    *)
(* the sequencer does where its callers cannot tell.  The inductive        *)
(* invariant: while the sequencer follows the channel, the book it         *)
(* published is that of the current session at its last_sequence.          *)
(***************************************************************************)
EXTENDS MarketByPrice, RecoveryProofs

(* All messages are of one session.                                        *)
OneSession == \A s, t \in SessionIds : s = t

SequencerAgrees ==
  sequencer.following =>
    /\ session_id \in SessionIds
    /\ book.session_id = session_id
    /\ book.seqno = sequencer.last_sequence

BookInv ==
  /\ session_id \in SessionIds \union {0}
  /\ sequencer.following => sequencer.last_sequence \in Int
  /\ BookIntact
  /\ SequencerAgrees

(* A message of the incremental channel keeps the invariant.               *)
LEMMA IncrementalBook ==
  ASSUME OneSession, BookInv, NEW s \in SessionIds, NEW seqno \in Seqnos,
         NEW snapshot \in BOOLEAN, IncrementalUpdate(s, seqno, snapshot)
  PROVE  BookInv'
<1>1. session_id' = s /\ seqno \in Int
  BY RecoveryAssumption DEF IncrementalUpdate, ReceiveIncremental, ParsedIncremental, InOrder, Seqnos
<1>2. CASE sequencer' = Following(seqno) /\ book' = NewBook(s, seqno)
  BY <1>1, <1>2 DEF BookInv, BookIntact, SequencerAgrees, Following, NewBook
<1>3. CASE SequencerUpdate(s, seqno, seqno - 1)
  <2>1. CASE UNCHANGED book /\ ~sequencer'.following
    BY <1>1, <2>1 DEF BookInv, BookIntact, SequencerAgrees
  <2>2. CASE sequencer.following /\ UNCHANGED <<sequencer, book>>
    BY <1>1, <2>2 DEF BookInv, BookIntact, SequencerAgrees, OneSession
  <2>3. CASE /\ sequencer.following
             /\ seqno - 1 = sequencer.last_sequence
             /\ sequencer' = Following(seqno)
             /\ book' = UpdatedBook(s, seqno)
    <3>1. book.session_id = s /\ book.seqno = seqno - 1 /\ book.intact
      BY <2>3 DEF BookInv, BookIntact, SequencerAgrees, OneSession
    <3>2. QED
      BY <1>1, <2>3, <3>1 DEF BookInv, BookIntact, SequencerAgrees, Following, UpdatedBook
  <2>4. QED
    BY <1>3, <2>1, <2>2, <2>3 DEF SequencerUpdate, Waiting
<1>4. QED
  BY <1>2, <1>3 DEF IncrementalUpdate

(* So does a message of the snapshot channel.                              *)
LEMMA SnapshotBook ==
  ASSUME BookInv, NEW s \in SessionIds, NEW last_seqno \in Seqnos,
         SnapshotUpdate(s, last_seqno)
  PROVE  BookInv'
<1>1. UNCHANGED session_id
  BY DEF SnapshotUpdate, ReceiveSnapshot, vars
<1>2. last_seqno \in Int
  BY RecoveryAssumption DEF Seqnos
<1>3. CASE UNCHANGED <<sequencer, book>>
  BY <1>1, <1>3 DEF BookInv, BookIntact, SequencerAgrees
<1>4. CASE s = session_id /\ SequencerSnapshot(s, last_seqno, last_seqno)
  <2>1. CASE sequencer' = Following(last_seqno) /\ book' = NewBook(s, last_seqno)
    BY <1>1, <1>2, <1>4, <2>1 DEF BookInv, BookIntact, SequencerAgrees, Following, NewBook
  <2>2. ASSUME NEW last \in Seqnos, sequencer' = Following(last),
               book' = NewBook(s, last_seqno + (last - last_seqno))
        PROVE  BookInv'
    <3>1. last \in Int /\ last_seqno + (last - last_seqno) = last
      BY <1>2, RecoveryAssumption DEF Seqnos
    <3>2. QED
      BY <1>1, <1>4, <2>2, <3>1
      DEF BookInv, BookIntact, SequencerAgrees, Following, NewBook
  <2>3. CASE UNCHANGED book /\ ~sequencer'.following
    BY <1>1, <2>3 DEF BookInv, BookIntact, SequencerAgrees
  <2>4. QED
    BY <1>3, <1>4, <2>1, <2>2, <2>3 DEF SequencerSnapshot, Waiting
<1>5. QED
  BY <1>3, <1>4 DEF SnapshotUpdate

(* With one session and any number of seqnos: an update is only applied to *)
(* the book it was made from, whatever was skipped or came late.           *)
THEOREM BookStaysIntact ==
  ASSUME OneSession
  PROVE  MBPSpec => []BookIntact
<1>1. MBPInit => BookInv
  BY DEF MBPInit, Init, BookInv, BookIntact, SequencerAgrees, Waiting, NewBook
<1>2. BookInv /\ [MBPNext]_mbpVars => BookInv'
  <2> SUFFICES ASSUME BookInv, [MBPNext]_mbpVars PROVE BookInv'
    OBVIOUS
  <2>1. CASE MBPNext
    BY <2>1, IncrementalBook, SnapshotBook, OneSession DEF MBPNext
  <2>2. CASE UNCHANGED mbpVars
    BY <2>2 DEF mbpVars, vars, BookInv, BookIntact, SequencerAgrees
  <2>3. QED
    BY <2>1, <2>2
<1>3. BookInv => BookIntact
  BY DEF BookInv
<1>4. QED
  BY <1>1, <1>2, <1>3, PTL DEF MBPSpec

-----------------------------------------------------------------------------
(* What the sequencer gets.                                                *)

(* The handlers of MarketByPriceUpdate are parse callbacks of Recovery,    *)
(* for the one symbol; the sequencer does not act on shared_.state.        *)
LEMMA BookImplementsRecovery == MBPSpec => Steps
<1>1. MBPInit => Init
  BY DEF MBPInit
<1>2. [MBPNext]_mbpVars => [Next]_vars
  <2>1. Symbol \in Objects
    BY SymbolAssumption DEF Ordinary
  <2>2. ASSUME NEW s \in SessionIds, NEW seqno \in Seqnos, NEW snapshot \in BOOLEAN,
               IncrementalUpdate(s, seqno, snapshot)
        PROVE  Next
    BY <2>1, <2>2 DEF IncrementalUpdate, Next
  <2>3. ASSUME NEW s \in SessionIds, NEW last_seqno \in Seqnos,
               SnapshotUpdate(s, last_seqno)
        PROVE  Next
    BY <2>1, <2>3 DEF SnapshotUpdate, Next
  <2>4. UNCHANGED mbpVars => UNCHANGED vars
    BY DEF mbpVars
  <2>5. QED
    BY <2>2, <2>3, <2>4 DEF MBPNext
<1>3. QED
  BY <1>1, <1>2, PTL DEF MBPSpec, Steps

(* So the sequencer, with any number of sessions, gets no snapshot from    *)
(* before the update the symbol waits with, and while a session lasts none *)
(* older than the last one.                                                *)
THEOREM SequencerSnapshots == MBPSpec => []CoversFirst /\ SnapshotsForward
<1>1. QED
  BY BookImplementsRecovery, StepsCover, StepsForward, PTL
=============================================================================
