------------------------------ MODULE Recovery ------------------------------
(***************************************************************************)
(* How the two channels of a publisher are put together: the incremental   *)
(* channel carries updates of objects, the snapshot channel repeats the    *)
(* state of each object as of a seqno of the incremental channel           *)
(* (header.last_seqno).  shared_.state remembers, object by object, which  *)
(* snapshot a client still needs.                                          *)
(*                                                                         *)
(* An action is one call of the parse callback that Incremental or         *)
(* Snapshot gives to its Buffer.  What Parser::dispatch then does to the   *)
(* status of the stream is in StreamStatus.                                *)
(*                                                                         *)
(* Messages.  The buffer of the incremental channel hands over the         *)
(* messages of a session in order, but may skip some and may go to another *)
(* session, or back, at any time (see MessageStream).  The snapshot        *)
(* channel can do the same, so that snapshots of any age come in any       *)
(* order: messages of other sessions leave no trace there.                 *)
(***************************************************************************)
EXTENDS Integers

CONSTANTS
  SessionIds,    \* session ids of the publishers that may be heard
  Objects,       \* <<object_type, object_id>>
  SystemObject,  \* the one with object_type 0
  MaxSeqno       \* bound on the seqnos of the incremental channel

ASSUME RecoveryAssumption ==
  /\ SessionIds \subseteq Nat \ {0}
  /\ SystemObject \in Objects
  /\ MaxSeqno \in Nat

VARIABLES
  session_id,   \* shared_.session_id
  state,        \* shared_.state
  incremental,  \* seqno of the last message of the incremental channel
  joined,       \* history: seqno of the first one of this session
  first,        \* history: the update an object started to wait with
  full,         \* history: the seqno of its last full state handed over
  held          \* history: the seqno an object has reached for a client

vars == <<session_id, state, incremental, joined, first, full, held>>

Seqnos == 0 .. MaxSeqno
None   == -1

NewState == [ready |-> FALSE, last_seqno |-> None]

Nothing == [o \in Objects |-> None]

-----------------------------------------------------------------------------
(* Incremental.                                                            *)

(* Mutant of AfterIncremental: last_seqno is not set with ready.           *)
ReadyWithoutSeqno(st, seqno, snapshot) ==
  [ready      |-> st.ready \/ snapshot,
   last_seqno |-> IF st.ready \/ (~snapshot /\ st.last_seqno = None)
                    THEN seqno
                    ELSE st.last_seqno]

(* The state of an object after one of its messages: a snapshot makes it   *)
(* ready; until then it waits with the first update.                       *)
AfterIncremental(st, seqno, snapshot) ==
  [ready      |-> st.ready \/ snapshot,
   last_seqno |-> IF st.ready \/ snapshot \/ st.last_seqno = None
                    THEN seqno
                    ELSE st.last_seqno]

(* Mutant of States: state.clear() is missing.                             *)
Kept(s) == state

(* "different session_id will reset".                                      *)
States(s) == IF s = session_id THEN state ELSE [o \in Objects |-> NewState]

SinceReset(s, history) == IF s = session_id THEN history ELSE Nothing

(* The parse callback.  The message is handed over in any case.            *)
ParsedIncremental(s, o, seqno, snapshot) ==
  /\ session_id' = s
  /\ state' = [States(s) EXCEPT ![o] = AfterIncremental(@, seqno, snapshot)]
  /\ incremental' = seqno
  /\ joined' = IF s = session_id THEN joined ELSE seqno
  /\ held' = [SinceReset(s, held) EXCEPT ![o] = seqno]
  /\ full' = [SinceReset(s, full) EXCEPT ![o] = IF snapshot THEN seqno ELSE @]
  /\ first' = [SinceReset(s, first) EXCEPT ![o] =
                 IF ~snapshot /\ SinceReset(s, held)[o] = None THEN seqno ELSE @]

(* What Recovery relies on: in a session the channel only moves forward.   *)
(* Subscriber shows when that is so.                                       *)
InOrder(s, seqno) == s = session_id => seqno > incremental

ReceiveIncremental(s, o, seqno, snapshot) ==
  /\ InOrder(s, seqno)
  /\ ParsedIncremental(s, o, seqno, snapshot)

-----------------------------------------------------------------------------
(* Snapshot.                                                               *)

(* Mutants of Included: < for <=; last_seqno is not looked at; ready is    *)
(* not looked at.                                                          *)
IncludedStrictly(o, last_seqno) ==
  \/ o = SystemObject
  \/ ~state[o].ready /\ (state[o].last_seqno # None => state[o].last_seqno < last_seqno)

IncludedIfNotReady(o, last_seqno) ==
  o = SystemObject \/ ~state[o].ready

IncludedWhenReady(o, last_seqno) ==
  o = SystemObject \/ state[o].last_seqno <= last_seqno

(* The system object always; another only while it is not ready, and not   *)
(* with a snapshot older than what is known of it.                         *)
Included(o, last_seqno) ==
  \/ o = SystemObject
  \/ ~state[o].ready /\ (state[o].last_seqno # None => state[o].last_seqno <= last_seqno)

(* Mutant of ReceiveSnapshot: state.last_seqno is not updated.             *)
ReceiveSnapshotForgotten(s, o, last_seqno) ==
  IF s = session_id /\ Included(o, last_seqno)
    THEN /\ full' = [full EXCEPT ![o] = last_seqno]
         /\ held' = [held EXCEPT ![o] = last_seqno]
         /\ UNCHANGED <<session_id, state, incremental, joined, first>>
    ELSE UNCHANGED vars

(* "different session id drops"; else an included snapshot is handed over. *)
(* state.ready stays as it is.                                             *)
ReceiveSnapshot(s, o, last_seqno) ==
  IF s = session_id /\ Included(o, last_seqno)
    THEN /\ state' = [state EXCEPT ![o].last_seqno = last_seqno]
         /\ full' = [full EXCEPT ![o] = last_seqno]
         /\ held' = [held EXCEPT ![o] = last_seqno]
         /\ UNCHANGED <<session_id, incremental, joined, first>>
    ELSE UNCHANGED vars

-----------------------------------------------------------------------------
Init ==
  /\ session_id = 0
  /\ state = [o \in Objects |-> NewState]
  /\ incremental = 0
  /\ joined = None
  /\ first = Nothing
  /\ full = Nothing
  /\ held = Nothing

Next ==
  \E s \in SessionIds, o \in Objects, seqno \in Seqnos :
    \/ \E snapshot \in BOOLEAN : ReceiveIncremental(s, o, seqno, snapshot)
    \/ ReceiveSnapshot(s, o, seqno)

(* A publisher repeats the snapshots of all objects, so that in a session  *)
(* that goes on one as new as the channel arrives again and again.         *)
Spec ==
  /\ Init /\ [][Next]_vars
  /\ \A s \in SessionIds, o \in Objects : WF_vars(ReceiveSnapshot(s, o, MaxSeqno))

-----------------------------------------------------------------------------
(* Properties.                                                             *)

(* The session and the per-object state are of their types; a ready object *)
(* has a last_seqno, which the log line "OBJECT READY" dereferences.       *)
TypeOK ==
  /\ session_id \in SessionIds \union {0}
  /\ state \in [Objects -> [ready : BOOLEAN, last_seqno : Seqnos \union {None}]]
  /\ incremental \in Seqnos
  /\ joined \in Seqnos \union {None}
  /\ first \in [Objects -> Seqnos \union {None}]
  /\ full \in [Objects -> Seqnos \union {None}]
  /\ held \in [Objects -> Seqnos \union {None}]
  /\ \A o \in Objects : state[o].ready => state[o].last_seqno # None

Ordinary == Objects \ {SystemObject}

(* An object whose first message in a session was an update gets no        *)
(* snapshot from before that update: applied together they leave no hole.  *)
CoversFirst ==
  \A o \in Ordinary : first[o] # None /\ full[o] # None => full[o] >= first[o]

(* While a session lasts, and whatever the order in which snapshots        *)
(* arrive, the snapshot channel never replaces the state a client has of   *)
(* an object by an older one.                                              *)
SnapshotsForward ==
  [][\A o \in Ordinary :
       session_id' = session_id /\ incremental' = incremental => full'[o] >= full[o]]_vars

(* While a session lasts, a ready object stays ready, and what a client    *)
(* holds of it never goes back to an earlier seqno.                        *)
ReadyNeverBack ==
  [][\A o \in Ordinary :
       session_id' = session_id /\ state[o].ready =>
         state'[o].ready /\ held'[o] >= held[o]]_vars

(* When the incremental channel stays with a session, clients get the full *)
(* state of every object, on one of the channels, at least as new as the   *)
(* message the subscriber joined with: the updates since then were handed  *)
(* over, so that nothing is missing.  An older snapshot of an object of    *)
(* which nothing was known is handed over too, but is replaced.            *)
EventuallyCovered ==
  \A s \in SessionIds, o \in Ordinary :
    <>[](session_id = s) => <>[](full[o] >= joined)

(* Both channels log "OBJECT READY" with the first full state of an        *)
(* object.  From there on snapshots would only take a client back: the one *)
(* it has and the updates since cover them.  The snapshot channel does not *)
(* set state.ready, so that later ones are handed over all the same.       *)
ReportedNeverBack ==
  [][\A o \in Ordinary :
       session_id' = session_id /\ incremental' = incremental /\ full[o] # None =>
         held'[o] >= held[o]]_vars
=============================================================================
