------------------------------- MODULE Buffer -------------------------------
(***************************************************************************)
(* tools::Buffer: puts the messages of one UDP channel back together and   *)
(* back in order.  A datagram carries one fragment of one message; a       *)
(* message is handed to the callback once all its fragments are there and  *)
(* all earlier messages were handed over or given up.                      *)
(*                                                                         *)
(* Receive(f) is one call of operator()(frame, payload, callback), from    *)
(* update to the end of the loop that empties the ring.  The network is    *)
(* free: any frame the publisher may send can arrive at any time, any      *)
(* number of times, or never.                                              *)
(*                                                                         *)
(* Data.  The bytes of a fragment are the token <<session, seqno,          *)
(* fragment>> of where they were published, and the header fields of a     *)
(* frame the token <<session, seqno>>; <<>> stands for bytes or fields     *)
(* that belong to no message being assembled.  Sizes and offsets count     *)
(* fragments: every fragment but the last fills MAX_PAYLOAD.               *)
(***************************************************************************)
EXTENDS Seqno, Sequences, FiniteSets

CONSTANTS
  SessionIds,   \* session ids of the publishers that may be heard
  MaxFragment,  \* largest fragment number (255 in the code: a uint8_t)
  FragmentMax   \* fragment_max of the message <<session, seqno>>

ASSUME PublisherAssumption ==
  /\ SessionIds \subseteq Nat
  /\ MaxFragment \in Nat
  /\ FragmentMax \in [SessionIds \X Seqnos -> 0 .. MaxFragment]

VARIABLES
  session_id,
  next_seqno,
  assembly,    \* the ring of items
  dispatched,  \* the callbacks of the last call, in order
  terminated   \* log::fatal was called

vars == <<session_id, next_seqno, assembly, dispatched, terminated>>

-----------------------------------------------------------------------------
(* Frames, items and messages.                                             *)

Fragments(session, seqno) == 0 .. FragmentMax[<<session, seqno>>]

Frame(session, seqno, fragment) ==
  [session_id   |-> session,
   seqno        |-> seqno,
   fragment     |-> fragment,
   fragment_max |-> FragmentMax[<<session, seqno>>]]

Frames ==
  UNION {{Frame(s, q, k) : k \in Fragments(s, q)} : s \in SessionIds, q \in Seqnos}

Bytes(f) == <<f.session_id, f.seqno, f.fragment>>
Meta(f)  == <<f.session_id, f.seqno>>

(* Item::reset.  The bytes and header fields stay in memory, but from here *)
(* on they belong to no message.                                           *)
EmptyItem ==
  [ready     |-> FALSE,
   count     |-> 0,
   available |-> {},
   payload   |-> [k \in 0 .. MaxFragment |-> <<>>],
   size      |-> 0,
   meta      |-> <<>>]

(* The last fragment to arrive, by the item's own count.                   *)
Completes(item, f) == f.fragment \notin item.available /\ item.count = f.fragment_max

(* Mutant of Processed: the test of item.available[index] is missing.      *)
ProcessedTwice(item, f) ==
  [item EXCEPT !.count     = @ + 1,
               !.ready     = @ \/ item.count = f.fragment_max,
               !.available = @ \union {f.fragment}]

(* The item after process: a fragment seen before changes nothing.         *)
Processed(item, f) ==
  IF f.fragment \in item.available
    THEN item
    ELSE [ready     |-> item.ready \/ Completes(item, f),
          count     |-> item.count + 1,
          available |-> item.available \union {f.fragment},
          payload   |-> [item.payload EXCEPT ![f.fragment] = Bytes(f)],
          size      |-> IF f.fragment = f.fragment_max
                          THEN f.fragment + 1
                          ELSE item.size,
          meta      |-> IF Completes(item, f) THEN Meta(f) ELSE item.meta]

(* What the callback gets for a message that came in one frame ...         *)
FrameMessage(f) ==
  [session_id |-> f.session_id,
   seqno      |-> f.seqno,
   meta       |-> Meta(f),
   payload    |-> [k \in {0} |-> Bytes(f)]]

(* ... and for one taken from the ring: session and seqno are those the    *)
(* buffer expects, not those the item was filled with.                     *)
ItemMessage(session, seqno, item) ==
  [session_id |-> session,
   seqno      |-> seqno,
   meta       |-> item.meta,
   payload    |-> [k \in 0 .. item.size - 1 |-> item.payload[k]]]

-----------------------------------------------------------------------------
(* The steps of a call.                                                    *)

(* Mutant of Expected: the comparison of the sessions is missing.          *)
ExpectedAnySession(f) == f.seqno

(* next_seqno_ once the session has been checked: a frame of another       *)
(* session moves it to its own seqno.  The ring is left as it is.          *)
Expected(f) == IF f.session_id = session_id THEN next_seqno ELSE f.seqno

Distance(f) == Diff(f.seqno, Expected(f))

WithFrame(items, f) == [items EXCEPT ![Slot(f.seqno)] = Processed(@, f)]

(* Mutant of Drain: item.reset() is missing.                               *)
DrainWithoutReset(session, start, items, head) ==
  \E n \in 0 .. MaxBuffers :
    /\ \A k \in 0 .. n - 1 : items[Slot(Plus(start, k))].ready
    /\ n < MaxBuffers => ~items[Slot(Plus(start, n))].ready
    /\ next_seqno' = Plus(start, n)
    /\ assembly' = items
    /\ dispatched' = head \o
         [i \in 1 .. n |-> ItemMessage(session, Plus(start, i - 1),
                                       items[Slot(Plus(start, i - 1))])]

(* The loop that hands over complete items, from seqno start: it takes n   *)
(* of them and stops at the first that is not ready, at the latest when it *)
(* is back at a slot it has emptied.                                       *)
Drain(session, start, items, head) ==
  \E n \in 0 .. MaxBuffers :
    /\ \A k \in 0 .. n - 1 : items[Slot(Plus(start, k))].ready
    /\ n < MaxBuffers => ~items[Slot(Plus(start, n))].ready
    /\ next_seqno' = Plus(start, n)
    /\ assembly' = [i \in Slots |->
                      IF \E k \in 0 .. n - 1 : i = Slot(Plus(start, k))
                        THEN EmptyItem
                        ELSE items[i]]
    /\ dispatched' = head \o
         [i \in 1 .. n |-> ItemMessage(session, Plus(start, i - 1),
                                       items[Slot(Plus(start, i - 1))])]

(* Nothing is handed over.                                                 *)
Keep(seqno, items) ==
  /\ next_seqno' = seqno
  /\ assembly' = items
  /\ dispatched' = <<>>

(* "drop"                                                                  *)
Replay(f) ==
  /\ Distance(f) > Threshold
  /\ Keep(Expected(f), assembly)
  /\ UNCHANGED terminated

(* "simple"                                                                *)
IsSimple(f) == Distance(f) = 0 /\ f.fragment_max = 0

(* Mutants of Simple: no [[fallthrough]] to the loop; advance() missing.   *)
SimpleWithoutLoop(f) ==
  /\ IsSimple(f)
  /\ next_seqno' = Plus(f.seqno, 1)
  /\ dispatched' = <<FrameMessage(f)>>
  /\ UNCHANGED <<assembly, terminated>>

SimpleWithoutAdvance(f) ==
  /\ IsSimple(f)
  /\ Drain(f.session_id, f.seqno, assembly, <<FrameMessage(f)>>)
  /\ UNCHANGED terminated

Simple(f) ==
  /\ IsSimple(f)
  /\ Drain(f.session_id, Plus(f.seqno, 1), assembly, <<FrameMessage(f)>>)
  /\ UNCHANGED terminated

(* "fragmented or out-of-sequence", within the window.                     *)
IsBuffered(f) == Distance(f) < MaxBuffers /\ ~IsSimple(f)

CompletesNext(f) == Distance(f) = 0 /\ Completes(assembly[Slot(f.seqno)], f)

Store(f) ==
  /\ IsBuffered(f)
  /\ ~CompletesNext(f)
  /\ Keep(Expected(f), WithFrame(assembly, f))
  /\ UNCHANGED terminated

Complete(f) ==
  /\ IsBuffered(f)
  /\ CompletesNext(f)
  /\ Drain(f.session_id, f.seqno, WithFrame(assembly, f), <<>>)
  /\ UNCHANGED terminated

(* The first seqno beyond the window: the complete items at the end of the *)
(* window are kept and handed over, everything before them is given up.    *)
(* With all items complete there is no room for the frame: log::fatal.     *)
ReadyFrom(k) == \A j \in k .. MaxBuffers - 1 : assembly[Slot(Plus(next_seqno, j))].ready

(* Mutants of Overflow: the frame is dropped; the whole window is given    *)
(* up; only the frame's own slot is reset.                                 *)
OverflowDropped(f) ==
  /\ Distance(f) = MaxBuffers
  /\ Keep(Expected(f), assembly)
  /\ UNCHANGED terminated

OverflowDropsAll(f) ==
  /\ Distance(f) = MaxBuffers
  /\ Drain(f.session_id, f.seqno, WithFrame([i \in Slots |-> EmptyItem], f), <<>>)
  /\ UNCHANGED terminated

OverflowWithoutReset(f) ==
  /\ Distance(f) = MaxBuffers
  /\ \E first \in 1 .. MaxBuffers :
       /\ ReadyFrom(first)
       /\ ~assembly[Slot(Plus(next_seqno, first - 1))].ready
       /\ Drain(f.session_id, Plus(next_seqno, first),
                WithFrame([assembly EXCEPT ![Slot(f.seqno)] = EmptyItem], f), <<>>)
  /\ UNCHANGED terminated

Overflow(f) ==
  /\ Distance(f) = MaxBuffers
  /\ \E first \in 0 .. MaxBuffers :
       /\ ReadyFrom(first)
       /\ first > 0 => ~assembly[Slot(Plus(next_seqno, first - 1))].ready
       /\ IF first = 0
            THEN /\ Keep(next_seqno, assembly)
                 /\ terminated' = TRUE
            ELSE /\ Drain(f.session_id, Plus(next_seqno, first),
                          WithFrame([i \in Slots |->
                            IF \E j \in first .. MaxBuffers - 1 :
                                 i = Slot(Plus(next_seqno, j))
                              THEN assembly[i]
                              ELSE EmptyItem], f), <<>>)
                 /\ UNCHANGED terminated

(* Mutant of Gap: reset() is missing.                                      *)
GapWithoutReset(f) ==
  /\ Distance(f) > MaxBuffers
  /\ Distance(f) <= Threshold
  /\ Drain(f.session_id, f.seqno, WithFrame(assembly, f), <<>>)
  /\ UNCHANGED terminated

(* "gap is too big: reset"                                                 *)
Gap(f) ==
  /\ Distance(f) > MaxBuffers
  /\ Distance(f) <= Threshold
  /\ LET items == WithFrame([i \in Slots |-> EmptyItem], f)
     IN  IF items[Slot(f.seqno)].ready
           THEN Drain(f.session_id, f.seqno, items, <<>>)
           ELSE Keep(f.seqno, items)
  /\ UNCHANGED terminated

Receive(f) ==
  /\ ~terminated
  /\ session_id' = f.session_id
  /\ \/ Replay(f)
     \/ Simple(f)
     \/ Store(f)
     \/ Complete(f)
     \/ Overflow(f)
     \/ Gap(f)

Init ==
  /\ session_id = 0
  /\ next_seqno = 0
  /\ assembly = [i \in Slots |-> EmptyItem]
  /\ dispatched = <<>>
  /\ terminated = FALSE

Next == \E f \in Frames : Receive(f)

Spec == Init /\ [][Next]_vars

-----------------------------------------------------------------------------
(* Properties.                                                             *)

Tokens == (SessionIds \X Seqnos \X (0 .. MaxFragment)) \union {<<>>}

Items ==
  [ready     : BOOLEAN,
   count     : 0 .. MaxFragment + 1,
   available : SUBSET (0 .. MaxFragment),
   payload   : [0 .. MaxFragment -> Tokens],
   size      : 0 .. MaxFragment + 1,
   meta      : (SessionIds \X Seqnos) \union {<<>>}]

(* The state variables of Buffer and of its ring have the values their C++ *)
(* types and the loops' bounds leave them.                                 *)
TypeOK ==
  /\ session_id \in SessionIds \union {0}
  /\ next_seqno \in Seqnos
  /\ assembly \in [Slots -> Items]
  /\ terminated \in BOOLEAN
  /\ Len(dispatched) <= MaxBuffers + 1
  /\ \A i \in DOMAIN dispatched :
       dispatched[i].session_id \in SessionIds /\ dispatched[i].seqno \in Seqnos

(* The message as it was published.                                        *)
Published(session, seqno) ==
  [session_id |-> session,
   seqno      |-> seqno,
   meta       |-> <<session, seqno>>,
   payload    |-> [k \in Fragments(session, seqno) |-> <<session, seqno, k>>]]

(* Every message the callback gets is the one published under its header:  *)
(* all its fragments, each in its place, with its own header fields and    *)
(* nothing of another message that used the same slot.                     *)
IntactDelivery ==
  \A i \in DOMAIN dispatched :
    dispatched[i] = Published(dispatched[i].session_id, dispatched[i].seqno)

(* An item holds fragments of one message only, counts them correctly, and *)
(* is ready exactly when they are all there.                               *)
Assembles(item, session, seqno) ==
  /\ item.available \subseteq Fragments(session, seqno)
  /\ item.count = Cardinality(item.available)
  /\ item.ready <=> item.available = Fragments(session, seqno)
  /\ \A k \in item.available : item.payload[k] = <<session, seqno, k>>
  /\ item.size = IF FragmentMax[<<session, seqno>>] \in item.available
                   THEN FragmentMax[<<session, seqno>>] + 1
                   ELSE 0
  /\ item.ready => item.meta = <<session, seqno>>

(* Slot by slot, the ring holds the messages of the window that starts at  *)
(* next_seqno: no slot is left with a message the window has moved past,   *)
(* also when seqnos wrap.  Until the first frame it is empty.              *)
WindowConsistent ==
  IF session_id \in SessionIds
    THEN \A k \in Offsets : LET seqno == Plus(next_seqno, k)
                            IN  Assembles(assembly[Slot(seqno)], session_id, seqno)
    ELSE assembly = [i \in Slots |-> EmptyItem]

(* No complete message is left waiting when nothing is missing before it:  *)
(* the head of the window is never ready between two calls.                *)
NothingHeldBack == ~assembly[Slot(next_seqno)].ready

(* The assertions of the code, on whatever frame comes next.               *)
(* advance: the slot of a message handed over directly is empty.           *)
AdvanceAssert ==
  \A f \in Frames : IsSimple(f) =>
    LET item == assembly[Slot(f.seqno)]
    IN  ~item.ready /\ item.count = 0 /\ item.available = {} /\ item.size = 0

(* process: a new fragment never arrives for an item that is ready, and an *)
(* item that becomes ready has counted the fragments it holds.             *)
ProcessAssert ==
  \A f \in Frames : IsBuffered(f) =>
    LET item == assembly[Slot(f.seqno)]
    IN  /\ f.fragment \notin item.available => ~item.ready
        /\ Completes(item, f) => Cardinality(item.available) = item.count

(* assert(!ok), "we shouldn't get here if there wasn't an issue": when a   *)
(* frame just beyond the window arrives, some item of the window is not    *)
(* ready.  Otherwise the call ends in log::fatal.                          *)
OverflowAssert ==
  \A f \in Frames : Distance(f) = MaxBuffers =>
    \E k \in Offsets : ~assembly[Slot(Plus(next_seqno, k))].ready

AssertsHold == ~terminated /\ AdvanceAssert /\ ProcessAssert /\ OverflowAssert

(* Where the run of messages handed over by a step started.                *)
RunStart == Diff(next_seqno', Len(dispatched'))

(* A frame just beyond the window makes the buffer give up on what is      *)
(* missing, but a complete message with only complete ones after it in the *)
(* window is handed over, never lost.                                      *)
CompleteSuffixKept ==
  [][session_id' = session_id /\ Diff(RunStart, next_seqno) <= MaxBuffers =>
       \A k \in Offsets : ReadyFrom(k) => Diff(RunStart, next_seqno) <= k]_vars

(* The headers handed over follow MessageStream: consecutive runs, never   *)
(* back, never skipping before a whole window has passed.                  *)
Headers ==
  [i \in 1 .. Len(dispatched) |->
     [session_id |-> dispatched[i].session_id, seqno |-> dispatched[i].seqno]]

Stream == INSTANCE MessageStream WITH handed <- Headers

ImplementsMessageStream == Stream!Spec
=============================================================================
