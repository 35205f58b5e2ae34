------------------------------- MODULE Seqno -------------------------------
(***************************************************************************)
(* The arithmetic of sequence numbers: uint32_t counters that wrap, and    *)
(* the ring of MAX_BUFFERS slots they are mapped to.                       *)
(***************************************************************************)
EXTENDS Integers

CONSTANTS
  SeqnoModulus,  \* 2^32 in the code: seqno is a uint32_t
  MaxBuffers     \* MAX_BUFFERS, the number of slots (16 in the code)

(* is_replay's THRESHOLD, three quarters of the range of a seqno.          *)
Threshold == 3 * (SeqnoModulus \div 4)

(* The ring divides the range of a seqno, so that two seqnos a whole       *)
(* number of rings apart share a slot even across the wrap, and it is      *)
(* smaller than the quarter of the range that counts as a replay.          *)
ASSUME SeqnoAssumption ==
  /\ SeqnoModulus \in Nat \ {0}
  /\ MaxBuffers \in Nat \ {0}
  /\ MaxBuffers < SeqnoModulus \div 4
  /\ SeqnoModulus % MaxBuffers = 0

Seqnos  == 0 .. SeqnoModulus - 1
Slots   == 0 .. MaxBuffers - 1
Offsets == 0 .. MaxBuffers - 1

(* Unsigned addition: next_seqno_ + k, ++next_seqno_.                      *)
Plus(seqno, k) == (seqno + k) % SeqnoModulus

(* diff, "deals with overflow".                                            *)
Diff(lhs, rhs) == IF lhs >= rhs
                    THEN lhs - rhs
                    ELSE lhs + (SeqnoModulus - 1 - rhs) + 1

(* is_replay, with the seqno expected next as a parameter.                 *)
IsReplay(seqno, next) == Diff(seqno, next) > Threshold

(* The slot of get_item and get_buffer.                                    *)
Slot(seqno) == seqno % MaxBuffers
=============================================================================
