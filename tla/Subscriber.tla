----------------------------- MODULE Subscriber -----------------------------
(***************************************************************************)
(* The incremental channel from end to end: the buffer of Incremental, as  *)
(* MessageStream describes it, and the parse callback it calls for one     *)
(* message after the other.  Recovery assumes that in a session the        *)
(* messages it gets only move forward; here they are the ones a buffer     *)
(* hands over, and seqnos are those of the wire, which wrap.  MaxSeqno is  *)
(* the last seqno of a session.                                            *)
(*                                                                         *)
(* A call of operator() of the buffer, callbacks included, is one turn of  *)
(* the event loop: Datagram, then a Parse for each message, and nothing    *)
(* else before the last of them.  Snapshots are those of Recovery.         *)
(***************************************************************************)
EXTENDS Recovery, Sequences

CONSTANTS
  SeqnoModulus, MaxBuffers,  \* as in Seqno; seqnos wrap if a session goes on
                             \* to MaxSeqno = SeqnoModulus - 1
  LateSessions   \* whether datagrams of a session still arrive after those of
                 \* a later one; session ids are numbered in order of start

VARIABLES
  buffer_session, next_seqno, handed,  \* MessageStream
  parsed  \* how many of the messages handed over were parsed

B == INSTANCE MessageStream WITH session_id <- buffer_session

ASSUME SubscriberAssumption ==
  /\ B!SeqnoAssumption
  /\ MaxSeqno < SeqnoModulus
  /\ LateSessions \in BOOLEAN

bufferVars == <<buffer_session, next_seqno, handed>>

subscriberVars == <<bufferVars, parsed, vars>>

-----------------------------------------------------------------------------
(* The buffer's call returned.                                             *)
Idle == parsed = Len(handed)

(* What arrives was sent by a publisher, up to the last seqno of a session.*)
Sent ==
  /\ buffer_session' \in SessionIds
  /\ next_seqno' <= MaxSeqno + 1
  /\ \A i \in DOMAIN handed' : handed'[i].seqno <= MaxSeqno
  /\ ~LateSessions => buffer_session' >= buffer_session

(* A datagram: the buffer decides what is handed over.                     *)
Datagram ==
  /\ Idle
  /\ B!Next
  /\ Sent
  /\ parsed' = 0
  /\ UNCHANGED vars

(* The callback, with the next message; what the publisher sent under its  *)
(* header is any object.                                                   *)
ParseMessage(o, snapshot) ==
  /\ ~Idle
  /\ parsed' = parsed + 1
  /\ ParsedIncremental(handed[parsed + 1].session_id, o,
                         handed[parsed + 1].seqno, snapshot)
  /\ UNCHANGED bufferVars

(* Mutant of Parse: the loop of the buffer does not move on.               *)
ParseAgain ==
  /\ ~Idle
  /\ parsed' \in {parsed, parsed + 1}
  /\ \E o \in Objects, snapshot \in BOOLEAN :
       ParsedIncremental(handed[parsed + 1].session_id, o,
                           handed[parsed + 1].seqno, snapshot)
  /\ UNCHANGED bufferVars

Parse == \E o \in Objects, snapshot \in BOOLEAN : ParseMessage(o, snapshot)

(* A message of the snapshot channel.                                      *)
SnapshotRead(s, o, last_seqno) ==
  /\ Idle
  /\ ReceiveSnapshot(s, o, last_seqno)
  /\ UNCHANGED <<bufferVars, parsed>>

SubscriberInit == Init /\ B!Init /\ parsed = 0

SubscriberNext ==
  \/ Datagram
  \/ Parse
  \/ \E s \in SessionIds, o \in Objects, last_seqno \in Seqnos :
       SnapshotRead(s, o, last_seqno)

(* A call of the buffer runs to its end; snapshots as in Recovery.         *)
SubscriberSpec ==
  /\ SubscriberInit /\ [][SubscriberNext]_subscriberVars
  /\ WF_subscriberVars(Parse)
  /\ \A s \in SessionIds, o \in Objects :
       WF_subscriberVars(SnapshotRead(s, o, MaxSeqno))

-----------------------------------------------------------------------------
(* Properties, besides those of Recovery.                                  *)

(* What Recovery assumes of its channel the buffer provides: every step is *)
(* one of Recovery, or leaves it alone.  It holds while a session is too   *)
(* short to wrap and sessions do not come back.                            *)
ImplementsRecovery == Init /\ [][Next]_vars

(* "replay": a datagram that is older than what was handed over is not     *)
(* handed over.  While the gateway is in a session, parse gets later and   *)
(* later messages of it.                                                   *)
ReplaysDropped ==
  [][session_id' = session_id /\ incremental' # incremental => incremental' > incremental]_subscriberVars

(* An object that waits for its first snapshot gets one that is as new as  *)
(* the incremental channel: nothing it could wait for is newer.            *)
NewestIncluded ==
  \A o \in Ordinary :
    held[o] # None /\ full[o] = None => Included(o, incremental)
=============================================================================
