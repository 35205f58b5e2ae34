---------------------------- MODULE MarketByPrice ----------------------------
(***************************************************************************)
(* The order book of one symbol: MarketByPriceUpdate as Incremental and    *)
(* Snapshot handle it, between Recovery, which decides what is handed      *)
(* over, and market::mbp::Sequencer, which puts updates and snapshots      *)
(* together for the clients.                                               *)
(*                                                                         *)
(* The sequencer is external code.  Here it is what its callers rely on: a *)
(* book is published by a snapshot and the updates that follow it without  *)
(* a hole; when one is missing it throws BadState, or waits, for the next  *)
(* snapshot.  Where callers cannot tell what it does, it may do either.    *)
(*                                                                         *)
(* All seqnos of the channel are updates of this symbol, so that           *)
(* header.last_seqno of an update is the seqno before it.  A book is the   *)
(* seqno it shows the state of.                                            *)
(***************************************************************************)
EXTENDS Recovery

CONSTANT Symbol

ASSUME SymbolAssumption == Symbol \in Ordinary

VARIABLES
  sequencer,  \* shared_.mbp_sequencer[symbol]
  book        \* what clients have

mbpVars == <<vars, sequencer, book>>

-----------------------------------------------------------------------------
(* market::mbp::Sequencer.                                                 *)

(* Sequencer::clear, and a new one.                                        *)
Waiting(updates) == [following |-> FALSE, last_sequence |-> None, updates |-> updates]

(* Sequencer::initialize.                                                  *)
Following(sequence) ==
  [following |-> TRUE, last_sequence |-> sequence, updates |-> {}]

(* With a snapshot as of sequence n and what is held back, a book as of    *)
(* last can be made: nothing is missing in between.                        *)
Reaches(n, last) ==
  last >= n /\ {q \in sequencer.updates : q > n} = n + 1 .. last

NewBook(s, n) == [session_id |-> s, seqno |-> n, intact |-> TRUE]

(* publish_update: a client applies it to the book it has.                 *)
UpdatedBook(s, seqno) ==
  [session_id |-> s,
   seqno      |-> seqno,
   intact     |-> /\ book.intact
                  /\ book.session_id = s
                  /\ book.seqno = seqno - 1]

(* An update, with the sequence of the one before it: held back until a    *)
(* snapshot comes, old, the next one, or one after a hole.                 *)
SequencerUpdate(s, seqno, previous) ==
  \/ /\ ~sequencer.following
     /\ sequencer' = Waiting(sequencer.updates \union {seqno})
     /\ UNCHANGED book
  \/ /\ sequencer.following
     /\ seqno <= sequencer.last_sequence
     /\ UNCHANGED <<sequencer, book>>
  \/ /\ sequencer.following
     /\ previous = sequencer.last_sequence
     /\ sequencer' = Following(seqno)
     /\ book' = UpdatedBook(s, seqno)
  \/ /\ sequencer.following
     /\ previous > sequencer.last_sequence
     /\ sequencer' \in {Waiting({}), Waiting({seqno})}
     /\ UNCHANGED book

(* A snapshot of the state as of n, with the sequence the caller gives;    *)
(* the updates held back that follow that sequence are applied to it.      *)
(* One that is not needed may be published all the same; one that does not *)
(* fit makes the sequencer wait, or throw BadState.                        *)
SequencerSnapshot(s, n, sequence) ==
  \/ /\ sequencer.following
     /\ UNCHANGED <<sequencer, book>>
  \/ /\ sequencer.following
     /\ sequencer' = Following(sequence)
     /\ book' = NewBook(s, n)
  \/ \E last \in Seqnos :
       /\ ~sequencer.following
       /\ Reaches(sequence, last)
       /\ sequencer' = Following(last)
       /\ book' = NewBook(s, n + (last - sequence))
  \/ /\ ~sequencer.following
     /\ \A last \in Seqnos : ~Reaches(sequence, last)
     /\ sequencer' \in {Waiting({}), sequencer}
     /\ UNCHANGED book

-----------------------------------------------------------------------------
(* Incremental: a snapshot is published as it is, an update goes to the    *)
(* sequencer.                                                              *)
IncrementalUpdate(s, seqno, snapshot) ==
  /\ ReceiveIncremental(s, Symbol, seqno, snapshot)
  /\ IF snapshot
       THEN sequencer' = Following(seqno) /\ book' = NewBook(s, seqno)
       ELSE SequencerUpdate(s, seqno, seqno - 1)

(* Mutants of SnapshotUpdate: it is sequenced with header.seqno, here one  *)
(* more than header.last_seqno; or not at all.                             *)
SnapshotOwnSeqno(s, last_seqno) ==
  /\ ReceiveSnapshot(s, Symbol, last_seqno)
  /\ IF s = session_id /\ Included(Symbol, last_seqno)
       THEN SequencerSnapshot(s, last_seqno, last_seqno + 1)
       ELSE UNCHANGED <<sequencer, book>>

SnapshotOnlyFirst(s, last_seqno) ==
  /\ ReceiveSnapshot(s, Symbol, last_seqno)
  /\ IF s = session_id /\ Included(Symbol, last_seqno) /\ full[Symbol] = None
       THEN SequencerSnapshot(s, last_seqno, last_seqno)
       ELSE UNCHANGED <<sequencer, book>>

(* Snapshot: "last_seqno correlates with incremental".                     *)
SnapshotUpdate(s, last_seqno) ==
  /\ ReceiveSnapshot(s, Symbol, last_seqno)
  /\ IF s = session_id /\ Included(Symbol, last_seqno)
       THEN SequencerSnapshot(s, last_seqno, last_seqno)
       ELSE UNCHANGED <<sequencer, book>>

-----------------------------------------------------------------------------
MBPInit ==
  /\ Init
  /\ sequencer = Waiting({})
  /\ book = NewBook(0, None)

MBPNext ==
  \E s \in SessionIds :
    \/ \E seqno \in Seqnos, snapshot \in BOOLEAN : IncrementalUpdate(s, seqno, snapshot)
    \/ \E last_seqno \in Seqnos : SnapshotUpdate(s, last_seqno)

(* As in Recovery: snapshots as new as the channel arrive again and again. *)
MBPSpec ==
  /\ MBPInit /\ [][MBPNext]_mbpVars
  /\ \A s \in SessionIds : WF_mbpVars(SnapshotUpdate(s, MaxSeqno))

-----------------------------------------------------------------------------
(* Properties.                                                             *)

(* The book of a client is always that of one session at some seqno:       *)
(* updates are only applied to the book they were made from, whatever      *)
(* messages the incremental channel skipped and in whatever order          *)
(* snapshots came.  With several sessions this does not hold: see the      *)
(* findings.                                                               *)
BookIntact == book.intact

(* In a session that goes on, a symbol the incremental channel sent no     *)
(* snapshot of ends up with a book that follows the channel, also when     *)
(* messages were skipped.                                                  *)
NotReadyRecovers ==
  \A s \in SessionIds :
    <>[](session_id = s /\ ~state[Symbol].ready) => <>[]sequencer.following

(* "RESUBSCRIBE": a symbol that lost its book gets it back.  This does not *)
(* hold for a symbol that was made ready by the incremental channel:       *)
(* nothing is requested, and the snapshot channel's are not released.      *)
Resubscribed ==
  \A s \in SessionIds : <>[](session_id = s) => []<>sequencer.following
=============================================================================
