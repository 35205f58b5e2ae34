--------------------------- MODULE ChannelProofs ---------------------------
(***************************************************************************)
(* Buffer at the end of a UDP channel: how far it falls behind, and that   *)
(* it gives up nothing as long as nothing is lost, for every ring, every   *)
(* range of seqnos, every number of messages and every fragmentation.      *)
(***************************************************************************)
EXTENDS Channel, BufferProofs

-----------------------------------------------------------------------------
(* What a call of Buffer leaves in the ring, by the offset from the seqno  *)
(* the frame is compared with.                                             *)

(* The fragments known of the message at an offset, once f has arrived.    *)
Heard(f, o) ==
  (IF o \in Offsets THEN assembly[Slot(Plus(Expected(f), o))].available ELSE {})
    \union (IF o = Distance(f) THEN {f.fragment} ELSE {})

(* A ring that holds what was heard from offset a on.                      *)
Holds(items, f, a) ==
  \A k \in Offsets :
    items[Slot(Plus(Plus(Expected(f), a), k))].available = Heard(f, a + k)

(* The call hands over the n messages from offset a on, each of which it   *)
(* has heard something of, and keeps what it has heard of the others.      *)
CallStep(f, a, n) ==
  /\ RunStep(f.session_id, Plus(Expected(f), a), n)
  /\ \A j \in a .. a + n - 1 : Heard(f, j) # {}
  /\ Holds(assembly', f, a + n)

(* Ready items of a window hold fragments.                                 *)
LEMMA ReadyHolds ==
  ASSUME NEW s \in SessionIds, NEW q \in Seqnos, NEW item, Assembles(item, s, q), item.ready
  PROVE  item.available # {}
<1>1. FragmentMax[<<s, q>>] \in Nat
  BY PublisherAssumption
<1>2. QED
  BY <1>1 DEF Assembles, Fragments

(* The loop, from offset a on.                                             *)
LEMMA DrainHolds ==
  ASSUME NEW f \in Frames, Expected(f) \in Seqnos, NEW a \in Nat, NEW items,
         Window(items, f.session_id, Plus(Expected(f), a)),
         Holds(items, f, a),
         \A o \in Nat : o >= a + MaxBuffers => Heard(f, o) = {},
         NEW head, Drain(f.session_id, Plus(Expected(f), a), items, head)
  PROVE  \E n \in 0 .. MaxBuffers :
           /\ next_seqno' = Plus(Plus(Expected(f), a), n)
           /\ \A j \in 0 .. n - 1 : items[Slot(Plus(Plus(Expected(f), a), j))].ready
           /\ \A j \in a .. a + n - 1 : Heard(f, j) # {}
           /\ Holds(assembly', f, a + n)
<1> DEFINE start == Plus(Expected(f), a)
<1>1. start \in Seqnos /\ f.session_id \in SessionIds
  BY PlusType, FrameType
<1>2. PICK n \in 0 .. MaxBuffers :
        /\ \A k \in 0 .. n - 1 : items[Slot(Plus(start, k))].ready
        /\ next_seqno' = Plus(start, n)
        /\ assembly' = [i \in Slots |->
                          IF \E k \in 0 .. n - 1 : i = Slot(Plus(start, k))
                            THEN EmptyItem
                            ELSE items[i]]
  BY DEF Drain
<1>3. /\ n \in Nat /\ n <= MaxBuffers /\ MaxBuffers \in Nat \ {0}
      /\ 0 .. n - 1 \subseteq Offsets /\ Offsets \subseteq Nat
  BY SeqnoAssumption DEF Offsets
<1> HIDE DEF start
<1>4. \A k \in Nat : Plus(start, k) \in Seqnos /\ Slot(Plus(start, k)) \in Slots
  BY <1>1, PlusType, SlotType
<1>5. ASSUME NEW j \in a .. a + n - 1
      PROVE  Heard(f, j) # {}
  <2>1. j - a \in 0 .. n - 1 /\ j - a \in Offsets /\ j - a \in Nat /\ a + (j - a) = j
    BY <1>3
  <2>2. items[Slot(Plus(start, j - a))].ready
    BY <1>2, <2>1
  <2>3. Assembles(items[Slot(Plus(start, j - a))], f.session_id, Plus(start, j - a))
    BY <2>1 DEF Window, start
  <2>4. items[Slot(Plus(start, j - a))].available # {}
    BY <1>1, <1>4, <2>1, <2>2, <2>3, ReadyHolds
  <2>5. items[Slot(Plus(start, j - a))].available = Heard(f, a + (j - a))
    BY <2>1 DEF Holds, start
  <2>6. QED
    BY <2>1, <2>4, <2>5
<1>6. ASSUME NEW k \in Offsets
      PROVE  assembly'[Slot(Plus(Plus(start, n), k))].available = Heard(f, a + n + k)
  <2>1. k \in Nat /\ n + k \in Nat /\ a + n + k = a + (n + k) /\ k < MaxBuffers
    BY <1>3 DEF Offsets
  <2>2. Plus(Plus(start, n), k) = Plus(start, n + k)
    BY <1>1, <1>3, <2>1, PlusPlus
  <2>3. CASE n + k < MaxBuffers
    <3>1. n + k \in Offsets
      BY <1>3, <2>1, <2>3 DEF Offsets
    <3>2. \A j \in 0 .. n - 1 : j \in Offsets /\ j # n + k
      BY <1>3, <2>1
    <3>3. \A j \in 0 .. n - 1 : Slot(Plus(start, n + k)) # Slot(Plus(start, j))
      BY <1>1, <3>1, <3>2, SlotInjective
    <3>4. assembly'[Slot(Plus(start, n + k))] = items[Slot(Plus(start, n + k))]
      BY <1>2, <1>4, <2>1, <3>3
    <3>5. items[Slot(Plus(start, n + k))].available = Heard(f, a + (n + k))
      BY <3>1 DEF Holds, start
    <3>6. QED
      BY <2>1, <2>2, <3>4, <3>5
  <2>4. CASE n + k >= MaxBuffers
    <3>1. /\ n + k - MaxBuffers \in 0 .. n - 1
          /\ Slot(Plus(Plus(start, n), k)) = Slot(Plus(start, n + k - MaxBuffers))
      BY <1>1, <2>4, OffsetShift
    <3>2. assembly'[Slot(Plus(Plus(start, n), k))] = EmptyItem
      BY <1>2, <1>3, <1>4, <3>1
    <3>3. Heard(f, a + n + k) = {}
      <4>1. a + n + k \in Nat /\ a + n + k >= a + MaxBuffers
        BY <1>3, <2>1, <2>4
      <4>2. QED
        BY <4>1
    <3>4. QED
      BY <3>2, <3>3 DEF EmptyItem
  <2>5. QED
    BY <1>3, <2>1, <2>3, <2>4
<1>7. Plus(Plus(Expected(f), a), n) = Plus(Expected(f), a + n)
  BY <1>3, PlusPlus
<1>8. Holds(assembly', f, a + n)
  BY <1>6, <1>7 DEF Holds, start
<1>9. QED
  BY <1>2, <1>5, <1>8 DEF start

(* A run is as long as the seqno it ends before says.                      *)
LEMMA RunLength ==
  ASSUME NEW session, NEW start \in Seqnos, NEW m \in 0 .. MaxBuffers + 1,
         NEW n \in 0 .. MaxBuffers + 1,
         RunStep(session, start, m), next_seqno' = Plus(start, n)
  PROVE  m = n
<1>1. m \in Seqnos /\ n \in Seqnos
  BY SeqnoAssumption DEF Seqnos
<1>2. Diff(Plus(start, m), start) = m /\ Diff(Plus(start, n), start) = n
  BY <1>1, DiffPlus
<1>3. QED
  BY <1>2 DEF RunStep

(* A frame adds its fragment to the item of its seqno.                     *)
LEMMA WithFrameHolds ==
  ASSUME NEW f \in Frames, Expected(f) \in Seqnos, NEW a \in Nat, NEW items,
         CountedRing(items), Window(items, f.session_id, Plus(Expected(f), a)),
         NEW d \in Offsets, f.seqno = Plus(Plus(Expected(f), a), d), Distance(f) = a + d,
         \A k \in Offsets : items[Slot(Plus(Plus(Expected(f), a), k))].available =
           (IF a + k \in Offsets THEN assembly[Slot(Plus(Expected(f), a + k))].available
                                 ELSE {})
  PROVE  Holds(WithFrame(items, f), f, a)
<1> DEFINE start == Plus(Expected(f), a)
<1>1. start \in Seqnos
  BY PlusType
<1> HIDE DEF start
<1>2. /\ WithFrame(items, f)[Slot(f.seqno)] = Processed(items[Slot(f.seqno)], f)
      /\ \A k \in Offsets : k # d =>
           WithFrame(items, f)[Slot(Plus(start, k))] = items[Slot(Plus(start, k))]
  BY <1>1, WithFrameWindow DEF start
<1>3. Processed(items[Slot(f.seqno)], f).available =
        items[Slot(f.seqno)].available \union {f.fragment}
  BY DEF Processed
<1>4. \A k \in Offsets : (a + k = Distance(f)) <=> (k = d)
  BY DEF Offsets
<1>5. ASSUME NEW k \in Offsets
      PROVE  WithFrame(items, f)[Slot(Plus(start, k))].available = Heard(f, a + k)
  <2>1. CASE k = d
    BY <1>2, <1>3, <1>4, <2>1 DEF Heard, start
  <2>2. CASE k # d
    BY <1>2, <1>4, <2>2 DEF Heard, start
  <2>3. QED
    BY <2>1, <2>2
<1>6. QED
  BY <1>5 DEF Holds, start

(* What is heard at the offsets of the window itself.                      *)
LEMMA HeardOffsets ==
  ASSUME NEW f \in Frames, next_seqno \in Seqnos
  PROVE  /\ Expected(f) \in Seqnos /\ Distance(f) \in Nat
         /\ Offsets \subseteq Nat /\ MaxBuffers \in Nat \ {0}
         /\ MaxBuffers < Threshold /\ Threshold \in Nat
         /\ Plus(Expected(f), 0) = Expected(f)
         /\ f.seqno = Plus(Expected(f), Distance(f))
         /\ \A o \in Nat : o >= MaxBuffers /\ o # Distance(f) => Heard(f, o) = {}
<1>1. Expected(f) \in Seqnos /\ Distance(f) \in Nat /\ f.seqno = Plus(Expected(f), Distance(f))
  BY DistanceType, SeqnoAssumption DEF Seqnos
<1>2. /\ Offsets \subseteq Nat /\ MaxBuffers \in Nat \ {0}
      /\ MaxBuffers < Threshold /\ Threshold \in Nat
  BY SeqnoAssumption DEF Offsets, Threshold
<1>3. Plus(Expected(f), 0) = Expected(f)
  BY <1>1, WindowHead
<1>4. \A o \in Nat : o >= MaxBuffers /\ o # Distance(f) => Heard(f, o) = {}
  BY <1>2 DEF Heard, Offsets
<1>5. QED
  BY <1>1, <1>2, <1>3, <1>4

-----------------------------------------------------------------------------
(* The paths of update.                                                    *)

(* Replay and Store hand over nothing.                                     *)
LEMMA ReplayCall ==
  ASSUME WindowInv, NEW f \in Frames, Replay(f)
  PROVE  CallStep(f, 0, 0)
<1>1. next_seqno \in Seqnos
  BY ExpectedType
<1>2. Keep(Expected(f), assembly) /\ Distance(f) > Threshold
  BY DEF Replay
<1>3. RunStep(f.session_id, Expected(f), 0)
  BY <1>1, <1>2, HeardOffsets, KeepRun
<1>4. ASSUME NEW k \in Offsets
      PROVE  assembly'[Slot(Plus(Expected(f), k))].available = Heard(f, k)
  <2>1. k # Distance(f)
    BY <1>1, <1>2, HeardOffsets DEF Offsets
  <2>2. QED
    BY <1>2, <2>1 DEF Keep, Heard
<1>5. \A k \in Offsets : 0 + k = k
  BY <1>1, HeardOffsets
<1>6. 0 .. 0 + 0 - 1 = {} /\ 0 + 0 = 0
  OBVIOUS
<1>7. Holds(assembly', f, 0)
  BY <1>1, <1>4, <1>5, HeardOffsets DEF Holds
<1>8. QED
  BY <1>1, <1>3, <1>6, <1>7, HeardOffsets DEF CallStep

(* A buffered frame is added to the window.                                *)
LEMMA BufferedHolds ==
  ASSUME WindowInv, NEW f \in Frames, Aligned(f), IsBuffered(f)
  PROVE  /\ Holds(WithFrame(assembly, f), f, 0)
         /\ Window(WithFrame(assembly, f), f.session_id, Expected(f))
         /\ Distance(f) < MaxBuffers
<1>1. /\ next_seqno \in Seqnos /\ CountedRing(assembly)
      /\ Distance(f) < MaxBuffers
  BY ExpectedType DEF IsBuffered
<1>2. /\ Distance(f) \in Offsets
      /\ \A k \in Offsets : 0 + k = k
      /\ 0 \in Nat
  BY <1>1, HeardOffsets DEF Offsets
<1>3. Holds(WithFrame(assembly, f), f, 0)
  BY <1>1, <1>2, HeardOffsets, WithFrameHolds DEF Aligned
<1>4. Window(WithFrame(assembly, f), f.session_id, Expected(f))
  BY <1>1, <1>2, HeardOffsets, WithFrameWindow DEF Aligned
<1>5. QED
  BY <1>1, <1>3, <1>4

LEMMA StoreCall ==
  ASSUME WindowInv, NEW f \in Frames, Aligned(f), Store(f)
  PROVE  CallStep(f, 0, 0) /\ Distance(f) < MaxBuffers
<1>1. next_seqno \in Seqnos
  BY ExpectedType
<1>2. IsBuffered(f) /\ Keep(Expected(f), WithFrame(assembly, f))
  BY DEF Store
<1>3. RunStep(f.session_id, Expected(f), 0)
  BY <1>1, <1>2, HeardOffsets, KeepRun
<1>4. Holds(assembly', f, 0) /\ Distance(f) < MaxBuffers
  BY <1>2, BufferedHolds DEF Keep
<1>5. 0 .. 0 + 0 - 1 = {} /\ 0 + 0 = 0
  OBVIOUS
<1>6. QED
  BY <1>1, <1>3, <1>4, <1>5, HeardOffsets DEF CallStep

(* The message that comes next is complete: it and those that wait for it. *)
LEMMA CompleteCall ==
  ASSUME WindowInv, NEW f \in Frames, Aligned(f), Complete(f)
  PROVE  /\ \E n \in 0 .. MaxBuffers + 1 : CallStep(f, 0, n)
         /\ Distance(f) < MaxBuffers
<1>1. next_seqno \in Seqnos /\ 0 \in Nat
  BY ExpectedType
<1>2. /\ IsBuffered(f) /\ Distance(f) = 0
      /\ Drain(f.session_id, f.seqno, WithFrame(assembly, f), <<>>)
  BY DEF Complete, CompletesNext
<1>3. Plus(Expected(f), 0) = f.seqno /\ f.seqno = Expected(f) /\ f.seqno \in Seqnos
  BY <1>1, <1>2, HeardOffsets
<1>4. \A o \in Nat : o >= 0 + MaxBuffers => Heard(f, o) = {}
  BY <1>1, <1>2, HeardOffsets
<1>5. PICK n \in 0 .. MaxBuffers :
        /\ next_seqno' = Plus(f.seqno, n)
        /\ \A j \in 0 .. 0 + n - 1 : Heard(f, j) # {}
        /\ Holds(assembly', f, 0 + n)
  <2>1. PICK items : items = WithFrame(assembly, f)
    OBVIOUS
  <2>2. /\ Holds(items, f, 0)
        /\ Window(items, f.session_id, Plus(Expected(f), 0))
        /\ Drain(f.session_id, Plus(Expected(f), 0), items, <<>>)
    BY <1>2, <1>3, <2>1, BufferedHolds
  <2>3. \E n \in 0 .. MaxBuffers :
          /\ next_seqno' = Plus(Plus(Expected(f), 0), n)
          /\ \A j \in 0 .. 0 + n - 1 : Heard(f, j) # {}
          /\ Holds(assembly', f, 0 + n)
    BY <1>1, <1>3, <1>4, <2>2, DrainHolds
  <2>4. QED
    BY <1>3, <2>3
<1>6. PICK m \in 0 .. MaxBuffers : RunStep(f.session_id, f.seqno, m)
  BY <1>2, <1>3, <1>1, HeardOffsets, DrainRun
<1>7. m \in 0 .. MaxBuffers + 1 /\ n \in 0 .. MaxBuffers + 1
  BY <1>1, HeardOffsets
<1>8. m = n
  BY <1>3, <1>5, <1>6, <1>7, RunLength
<1>9. CallStep(f, 0, n)
  BY <1>3, <1>5, <1>6, <1>8 DEF CallStep
<1>10. QED
  BY <1>2, <1>7, <1>9 DEF IsBuffered

(* A message in one frame that comes next, and those that wait for it.     *)
LEMMA SimpleCall ==
  ASSUME WindowInv, NEW f \in Frames, Aligned(f), Simple(f)
  PROVE  /\ \E n \in 0 .. MaxBuffers + 1 : CallStep(f, 0, n)
         /\ Distance(f) < MaxBuffers
<1> DEFINE start == Plus(Expected(f), 1)
<1>1. next_seqno \in Seqnos /\ CountedRing(assembly)
  BY ExpectedType
<1>2. /\ IsSimple(f) /\ Distance(f) = 0
      /\ Drain(f.session_id, Plus(f.seqno, 1), assembly, <<FrameMessage(f)>>)
  BY DEF Simple, IsSimple
<1>3. /\ Plus(Expected(f), 0) = f.seqno /\ f.seqno = Expected(f) /\ f.seqno \in Seqnos
      /\ 1 \in Nat /\ MaxBuffers \in Nat \ {0} /\ f.session_id \in SessionIds
  BY <1>1, <1>2, HeardOffsets, FrameType
<1>4. /\ assembly[Slot(f.seqno)].available = {}
      /\ Window(assembly, f.session_id, start)
  BY <1>1, <1>2, <1>3, SimpleBlank, AdvanceWindow DEF Aligned
<1>5. Holds(assembly, f, 1)
  <2>1. SUFFICES ASSUME NEW k \in Offsets
                 PROVE  assembly[Slot(Plus(start, k))].available = Heard(f, 1 + k)
    BY DEF Holds
  <2>2. k \in Nat /\ k < MaxBuffers /\ 1 + k \in Nat /\ 1 + k # Distance(f)
        /\ 1 \in 0 .. MaxBuffers
    BY <1>2, <1>3 DEF Offsets
  <2>3. CASE 1 + k < MaxBuffers
    <3>1. 1 + k \in Offsets /\ Plus(start, k) = Plus(Expected(f), 1 + k)
      BY <1>3, <2>2, <2>3, OffsetShift
    <3>2. QED
      BY <2>2, <3>1 DEF Heard
  <2>4. CASE 1 + k >= MaxBuffers
    <3>1. 1 + k - MaxBuffers = 0 /\ 1 + k \notin Offsets
      BY <1>3, <2>2, <2>4 DEF Offsets
    <3>2. Slot(Plus(start, k)) = Slot(Plus(Expected(f), 0))
      BY <1>3, <2>2, <2>4, <3>1, OffsetShift
    <3>3. QED
      BY <1>3, <1>4, <2>2, <3>1, <3>2 DEF Heard
  <2>5. QED
    BY <1>3, <2>2, <2>3, <2>4
<1>6. \A o \in Nat : o >= 1 + MaxBuffers => Heard(f, o) = {}
  BY <1>1, <1>2, HeardOffsets
<1>7. PICK n \in 0 .. MaxBuffers :
        /\ next_seqno' = Plus(start, n)
        /\ \A j \in 1 .. 1 + n - 1 : Heard(f, j) # {}
        /\ Holds(assembly', f, 1 + n)
  BY <1>2, <1>3, <1>4, <1>5, <1>6, DrainHolds
<1>8. n \in Nat /\ 1 + n \in 0 .. MaxBuffers + 1 /\ Plus(start, n) = Plus(f.seqno, 1 + n)
  BY <1>3, PlusPlus
<1>9. PICK m \in 0 .. MaxBuffers + 1 : RunStep(f.session_id, f.seqno, m)
  BY <1>1, SimpleRun
<1>10. m = 1 + n
  BY <1>3, <1>7, <1>8, <1>9, RunLength
<1>11. \A j \in 0 .. 0 + (1 + n) - 1 : Heard(f, j) # {}
  <2>1. Heard(f, 0) # {}
    BY <1>2 DEF Heard
  <2>2. \A j \in 0 .. 0 + (1 + n) - 1 : j = 0 \/ j \in 1 .. 1 + n - 1
    BY <1>8
  <2>3. QED
    BY <1>7, <2>1, <2>2
<1>12. 0 + (1 + n) = 1 + n
  BY <1>8
<1>13. CallStep(f, 0, 1 + n)
  BY <1>3, <1>7, <1>9, <1>10, <1>11, <1>12 DEF CallStep
<1>14. QED
  BY <1>2, <1>3, <1>8, <1>13

(* A frame just beyond the window: everything before first is given up.    *)
LEMMA OverflowCall ==
  ASSUME WindowInv, NEW f \in Frames, Aligned(f), Overflow(f)
  PROVE  /\ \E a \in 1 .. MaxBuffers, n \in 0 .. MaxBuffers + 1 : CallStep(f, a, n)
         /\ Distance(f) = MaxBuffers
<1>1. /\ next_seqno \in Seqnos /\ Distance(f) = MaxBuffers /\ MaxBuffers \in Nat \ {0}
      /\ Expected(f) \in Seqnos
  BY ExpectedType, SeqnoAssumption DEF Overflow
<1>2. PICK a, items :
        /\ a \in 1 .. MaxBuffers
        /\ CountedRing(items)
        /\ \A k \in Offsets :
             items[Slot(Plus(Plus(next_seqno, a), k))] =
               IF a + k \in Offsets
                 THEN assembly[Slot(Plus(next_seqno, a + k))]
                 ELSE EmptyItem
        /\ Window(items, f.session_id, Plus(next_seqno, a))
        /\ MaxBuffers - a \in Offsets
        /\ f.seqno = Plus(Plus(next_seqno, a), MaxBuffers - a)
        /\ Drain(f.session_id, Plus(next_seqno, a), WithFrame(items, f), <<>>)
        /\ Expected(f) = next_seqno
  BY OverflowRing
<1>3. /\ a \in 1 .. MaxBuffers
      /\ a \in Nat /\ Distance(f) = a + (MaxBuffers - a) /\ Plus(Expected(f), a) \in Seqnos
  <2>1. a \in 1 .. MaxBuffers
    BY <1>2
  <2>2. QED
    BY <1>1, <2>1, PlusType
<1>4. \A k \in Offsets : items[Slot(Plus(Plus(Expected(f), a), k))].available =
        (IF a + k \in Offsets THEN assembly[Slot(Plus(Expected(f), a + k))].available
                              ELSE {})
  <2>1. EmptyItem.available = {}
    BY DEF EmptyItem
  <2>2. ASSUME NEW k \in Offsets
        PROVE  items[Slot(Plus(Plus(Expected(f), a), k))].available =
                 (IF a + k \in Offsets
                    THEN assembly[Slot(Plus(Expected(f), a + k))].available
                    ELSE {})
    <3>1. CASE a + k \in Offsets
      BY <1>2, <3>1
    <3>2. CASE a + k \notin Offsets
      BY <1>2, <2>1, <3>2
    <3>3. QED
      BY <3>1, <3>2
  <2>3. QED
    BY <2>2
<1>5. PICK d \in Offsets : d = MaxBuffers - a
  BY <1>2
<1>6. Holds(WithFrame(items, f), f, a)
  BY <1>1, <1>2, <1>3, <1>4, <1>5, WithFrameHolds
<1>7. Window(WithFrame(items, f), f.session_id, Plus(Expected(f), a))
  BY <1>2, <1>3, <1>5, WithFrameWindow
<1>8. \A o \in Nat : o >= a + MaxBuffers => Heard(f, o) = {}
  BY <1>1, <1>3, HeardOffsets
<1>9. PICK filled : filled = WithFrame(items, f)
  OBVIOUS
<1>10. PICK n \in 0 .. MaxBuffers :
         /\ next_seqno' = Plus(Plus(Expected(f), a), n)
         /\ \A j \in a .. a + n - 1 : Heard(f, j) # {}
         /\ Holds(assembly', f, a + n)
  <2>1. Drain(f.session_id, Plus(Expected(f), a), filled, <<>>)
    BY <1>2, <1>9
  <2>2. QED
    BY <1>1, <1>3, <1>6, <1>7, <1>8, <1>9, <2>1, DrainHolds
<1>11. PICK m \in 0 .. MaxBuffers : RunStep(f.session_id, Plus(Expected(f), a), m)
  BY <1>2, <1>3, DrainRun
<1>12. m \in 0 .. MaxBuffers + 1 /\ n \in 0 .. MaxBuffers + 1
  BY <1>1
<1>13. m = n
  BY <1>3, <1>10, <1>11, <1>12, RunLength
<1>14. QED
  BY <1>1, <1>3, <1>10, <1>11, <1>12, <1>13 DEF CallStep

(* A frame further on: everything before it is given up.                   *)
LEMMA GapCall ==
  ASSUME WindowInv, NEW f \in Frames, Gap(f)
  PROVE  /\ \E n \in 0 .. MaxBuffers + 1 : CallStep(f, Distance(f), n)
         /\ Distance(f) > MaxBuffers /\ Distance(f) <= Threshold
<1> DEFINE a == Distance(f)
           blank == [i \in Slots |-> EmptyItem]
           items == WithFrame(blank, f)
<1>1. /\ next_seqno \in Seqnos /\ Expected(f) \in Seqnos
      /\ f.seqno \in Seqnos /\ f.session_id \in SessionIds
      /\ a \in Nat /\ a > MaxBuffers /\ a <= Threshold /\ MaxBuffers \in Nat \ {0}
      /\ f.seqno = Plus(Expected(f), a) /\ 0 \in Offsets
      /\ Plus(f.seqno, 0) = f.seqno /\ a + 0 = a
  <2>1. a > MaxBuffers /\ a <= Threshold
    BY DEF Gap
  <2>2. next_seqno \in Seqnos /\ f.seqno \in Seqnos /\ f.session_id \in SessionIds
    BY ExpectedType, FrameType
  <2>3. /\ Expected(f) \in Seqnos /\ a \in Nat /\ MaxBuffers \in Nat \ {0}
        /\ f.seqno = Plus(Expected(f), a)
    BY <2>2, HeardOffsets
  <2>4. 0 \in Offsets /\ Plus(f.seqno, 0) = f.seqno
    BY <2>2, WindowHead
  <2> HIDE DEF a
  <2>5. QED
    BY <2>1, <2>2, <2>3, <2>4
<1>2. \A k \in Offsets : /\ Plus(f.seqno, k) \in Seqnos
                         /\ Slot(Plus(f.seqno, k)) \in Slots
                         /\ a + k \notin Offsets
  BY <1>1, PlusType, SlotType DEF Offsets
<1>3. CountedRing(blank) /\ Window(blank, f.session_id, f.seqno)
  BY <1>1, <1>2, EmptyAssembles, EmptyItemCounted DEF CountedRing, CountedItem, Window
<1>4. \A k \in Offsets : blank[Slot(Plus(Plus(Expected(f), a), k))].available =
        (IF a + k \in Offsets THEN assembly[Slot(Plus(Expected(f), a + k))].available
                              ELSE {})
  BY <1>1, <1>2 DEF EmptyItem
<1>5. IF items[Slot(f.seqno)].ready
        THEN Drain(f.session_id, f.seqno, items, <<>>)
        ELSE Keep(f.seqno, items)
  BY DEF Gap
<1> HIDE DEF a, blank
<1>6. Window(items, f.session_id, f.seqno)
  BY <1>1, <1>3, WithFrameWindow
<1>7. Holds(items, f, a)
  BY <1>1, <1>3, <1>4, WithFrameHolds DEF a
<1>8. \A o \in Nat : o >= a + MaxBuffers => Heard(f, o) = {}
  BY <1>1, HeardOffsets DEF a
<1> HIDE DEF items
<1>9. CASE Drain(f.session_id, f.seqno, items, <<>>)
  <2>1. PICK n \in 0 .. MaxBuffers :
          /\ next_seqno' = Plus(Plus(Expected(f), a), n)
          /\ \A j \in a .. a + n - 1 : Heard(f, j) # {}
          /\ Holds(assembly', f, a + n)
    <3>1. /\ Window(items, f.session_id, Plus(Expected(f), a))
          /\ Drain(f.session_id, Plus(Expected(f), a), items, <<>>)
      BY <1>1, <1>6, <1>9
    <3>2. Expected(f) \in Seqnos /\ a \in Nat
      BY <1>1
    <3>3. QED
      BY <1>7, <1>8, <3>1, <3>2, DrainHolds
  <2>2. PICK m \in 0 .. MaxBuffers : RunStep(f.session_id, Plus(Expected(f), a), m)
    BY <1>1, <1>9, DrainRun
  <2>3. m \in 0 .. MaxBuffers + 1 /\ n \in 0 .. MaxBuffers + 1
    BY <1>1
  <2>4. m = n
    BY <1>1, <2>1, <2>2, <2>3, RunLength
  <2>5. CallStep(f, a, n)
    BY <2>1, <2>2, <2>4 DEF CallStep
  <2>6. QED
    BY <1>1, <2>3, <2>5 DEF a
<1>10. CASE Keep(f.seqno, items)
  <2>1. RunStep(f.session_id, Plus(Expected(f), a), 0)
    BY <1>1, <1>10, KeepRun
  <2>2. Holds(assembly', f, a + 0)
    BY <1>1, <1>7, <1>10 DEF Keep
  <2>3. a .. a + 0 - 1 = {} /\ 0 \in 0 .. MaxBuffers + 1
    BY <1>1
  <2>4. CallStep(f, a, 0)
    BY <2>1, <2>2, <2>3 DEF CallStep
  <2>5. QED
    BY <1>1, <2>3, <2>4 DEF a
<1>11. QED
  BY <1>5, <1>9, <1>10

(* How far the start of the run moves: nothing is given up for a frame of  *)
(* the window, and nothing moves for a replay.                             *)
Moves(f, a, n) ==
  \/ Distance(f) > Threshold /\ a = 0 /\ n = 0
  \/ Distance(f) < MaxBuffers /\ a = 0
  \/ Distance(f) = MaxBuffers /\ a \in 1 .. MaxBuffers
  \/ Distance(f) > MaxBuffers /\ Distance(f) <= Threshold /\ a = Distance(f)

LEMMA ReceiveCall ==
  ASSUME WindowInv, NEW f \in Frames, Aligned(f), Receive(f)
  PROVE  \E a \in Nat, n \in Nat : CallStep(f, a, n) /\ Moves(f, a, n)
<1>1. /\ Distance(f) \in Nat /\ 0 \in Nat
      /\ 0 .. MaxBuffers + 1 \subseteq Nat /\ 1 .. MaxBuffers \subseteq Nat
  BY ExpectedType, HeardOffsets
<1>2. CASE Replay(f)
  BY <1>1, <1>2, ReplayCall DEF Moves, Replay
<1>3. CASE Simple(f)
  BY <1>1, <1>3, SimpleCall DEF Moves
<1>4. CASE Store(f)
  BY <1>1, <1>4, StoreCall DEF Moves
<1>5. CASE Complete(f)
  BY <1>1, <1>5, CompleteCall DEF Moves
<1>6. CASE Overflow(f)
  BY <1>1, <1>6, OverflowCall DEF Moves
<1>7. CASE Gap(f)
  BY <1>1, <1>7, GapCall DEF Moves
<1>8. QED
  BY <1>2, <1>3, <1>4, <1>5, <1>6, <1>7 DEF Receive

-----------------------------------------------------------------------------
(* Messages by their number in the log.                                    *)

LEMMA LogIndex ==
  /\ Base \in Seqnos /\ MaxMessages \in Seqnos /\ MaxDelay \in Nat /\ MaxDelay < MaxBuffers
  /\ Session \in SessionIds /\ Session # 0
  /\ \A i \in Seqnos : Plus(Base, i) \in Seqnos /\ Index(Plus(Base, i)) = i
  /\ \A q \in Seqnos : Index(q) \in Seqnos /\ Plus(Base, Index(q)) = q
<1>1. Base \in Seqnos /\ Seqnos \subseteq Nat
  BY ChannelAssumption, SeqnoAssumption DEF Seqnos
<1>2. /\ MaxMessages \in Seqnos /\ MaxDelay \in Nat /\ MaxDelay < MaxBuffers
      /\ Session \in SessionIds /\ Session # 0
  BY ChannelAssumption, SeqnoAssumption DEF Seqnos
<1>3. \A i \in Seqnos : Plus(Base, i) \in Seqnos /\ Index(Plus(Base, i)) = i
  BY <1>1, PlusType, DiffPlus DEF Index
<1>4. \A q \in Seqnos : Index(q) \in Seqnos /\ Plus(Base, Index(q)) = q
  BY <1>1, DiffType, PlusDiff DEF Index
<1>5. QED
  BY <1>1, <1>2, <1>3, <1>4

(* The distance from one message of the log to another: ahead, or almost   *)
(* the whole range when it is behind.                                      *)
LEMMA LogDistance ==
  ASSUME NEW i \in Seqnos, NEW p \in Seqnos
  PROVE  Diff(Plus(Base, i), Plus(Base, p)) =
           IF i >= p THEN i - p ELSE i - p + SeqnoModulus
<1> DEFINE x == Plus(Base, i)
           y == Plus(Base, p)
<1>1. /\ SeqnoModulus \in Nat /\ Base \in Nat /\ i \in Nat /\ p \in Nat
      /\ Base < SeqnoModulus /\ i < SeqnoModulus /\ p < SeqnoModulus
  BY LogIndex, SeqnoAssumption DEF Seqnos
<1>2. x = IF Base + i < SeqnoModulus THEN Base + i ELSE Base + i - SeqnoModulus
  BY <1>1, LogIndex, PlusCases
<1>3. y = IF Base + p < SeqnoModulus THEN Base + p ELSE Base + p - SeqnoModulus
  BY <1>1, LogIndex, PlusCases
<1> HIDE DEF x, y
<1>4. Diff(x, y) = IF i >= p THEN i - p ELSE i - p + SeqnoModulus
  BY <1>1, <1>2, <1>3 DEF Diff
<1>5. QED
  BY <1>4 DEF x, y

(* The messages handed over by a run.                                      *)
LEMMA RunIndexes ==
  ASSUME NEW s, NEW p \in Nat, NEW n \in Nat, p + n \in Seqnos,
         RunStep(s, Plus(Base, p), n)
  PROVE  {Index(dispatched'[m].seqno) : m \in DOMAIN dispatched'} = p .. p + n - 1
<1>1. SeqnoModulus \in Nat /\ Base \in Seqnos
  BY SeqnoAssumption, LogIndex
<1>2. ASSUME NEW m \in 1 .. n
      PROVE  Index(dispatched'[m].seqno) = p + (m - 1)
  <2>1. Headers'[m] = [session_id |-> s, seqno |-> Plus(Plus(Base, p), m - 1)]
    BY DEF RunStep
  <2>2. Headers'[m].seqno = dispatched'[m].seqno
    BY DEF Headers, RunStep
  <2>3. m - 1 \in Nat /\ p + (m - 1) \in Seqnos
    BY <1>1 DEF Seqnos
  <2>4. dispatched'[m].seqno = Plus(Base, p + (m - 1))
    BY <1>1, <2>1, <2>2, <2>3, PlusPlus
  <2>5. QED
    BY <2>3, <2>4, LogIndex
<1>3. DOMAIN dispatched' = 1 .. n
  BY DEF RunStep
<1>4. ASSUME NEW x \in p .. p + n - 1
      PROVE  \E m \in 1 .. n : x = p + (m - 1)
  <2>1. x - p + 1 \in 1 .. n /\ x = p + ((x - p + 1) - 1)
    OBVIOUS
  <2>2. QED
    BY <2>1
<1>5. \A m \in 1 .. n : p + (m - 1) \in p .. p + n - 1
  OBVIOUS
<1> DEFINE run == {Index(dispatched'[m].seqno) : m \in 1 .. n}
<1>6. run \subseteq p .. p + n - 1
  BY <1>2, <1>5
<1>7. p .. p + n - 1 \subseteq run
  BY <1>2, <1>4
<1>8. QED
  BY <1>3, <1>6, <1>7

-----------------------------------------------------------------------------
(* The inductive invariant.                                                *)

(* The publisher is not so far ahead that a frame it sends is taken for a  *)
(* replay: is_replay does so beyond three quarters of the range.           *)
InReach == joined # None => published - Position <= Threshold + 1

(* What is on its way was sent, and was not overtaken by more than it may. *)
NetworkInv ==
  /\ published \in 0 .. MaxMessages
  /\ \A f \in network :
       /\ f \in Frames
       /\ f.session_id = Session
       /\ Index(f.seqno) \in 0 .. published - 1
       /\ published - Index(f.seqno) <= MaxDelay + 1

(* The first frame settles the session.                                    *)
JoinInv ==
  IF joined = None
    THEN /\ session_id = 0
         /\ assembly = [i \in Slots |-> EmptyItem]
         /\ newest = None
         /\ handed = {}
    ELSE session_id = Session

(* The buffer is less than a window behind the newest message it has heard *)
(* of, not ahead of it, and its ring holds nothing of later messages.      *)
BehindInv ==
  joined # None =>
    /\ joined \in 0 .. Position
    /\ newest \in 0 .. published - 1
    /\ Position <= newest + 1
    /\ newest - Position < MaxBuffers
    /\ \A k \in Offsets :
         Position + k > newest => assembly[Slot(Plus(next_seqno, k))].available = {}

(* Every fragment of a message that was not handed over is on its way or   *)
(* in its item.                                                            *)
Somewhere(i) ==
  \A k \in Fragments(Session, Plus(Base, i)) :
    \/ Frame(Session, Plus(Base, i), k) \in network
    \/ joined # None /\ k \in assembly[Slot(Plus(Base, i))].available

KeptInv ==
  /\ \A i \in 0 .. published - 1 : joined = None \/ i >= Position => Somewhere(i)
  /\ joined # None => handed = joined .. Position - 1

ChannelInv ==
  /\ WindowInv
  /\ NetworkInv
  /\ JoinInv
  /\ lost = {} => BehindInv /\ KeptInv

-----------------------------------------------------------------------------
(* A frame that arrives.                                                   *)

(* The message the buffer compares a frame with.                           *)
Origin(f) == IF joined = None THEN Index(f.seqno) ELSE Position

LEMMA Arriving ==
  ASSUME ChannelInv, NEW f \in network
  PROVE  /\ f \in Frames /\ f.session_id = Session
         /\ Index(f.seqno) \in 0 .. published - 1
         /\ published - Index(f.seqno) <= MaxDelay + 1
         /\ published \in Nat /\ published <= MaxMessages
         /\ Index(f.seqno) \in Seqnos /\ f.seqno = Plus(Base, Index(f.seqno))
         /\ Origin(f) \in Seqnos /\ Expected(f) = Plus(Base, Origin(f))
         /\ Aligned(f)
         /\ Distance(f) = IF Index(f.seqno) >= Origin(f)
                            THEN Index(f.seqno) - Origin(f)
                            ELSE Index(f.seqno) - Origin(f) + SeqnoModulus
<1>1. /\ f \in Frames /\ f.session_id = Session
      /\ Index(f.seqno) \in 0 .. published - 1
      /\ published - Index(f.seqno) <= MaxDelay + 1
      /\ published \in Nat /\ published <= MaxMessages
      /\ WindowInv /\ JoinInv
  BY LogIndex, SeqnoAssumption DEF ChannelInv, NetworkInv, Seqnos
<1>2. f.seqno \in Seqnos /\ next_seqno \in Seqnos
  BY <1>1, FrameType, ExpectedType
<1>3. Index(f.seqno) \in Seqnos /\ f.seqno = Plus(Base, Index(f.seqno))
  BY <1>2, LogIndex
<1>4. /\ Origin(f) \in Seqnos /\ Expected(f) = Plus(Base, Origin(f))
      /\ Aligned(f)
  <2>1. CASE joined = None
    <3>1. Expected(f) = f.seqno
      BY <1>1, <2>1, LogIndex DEF JoinInv, Expected
    <3>2. Aligned(f)
      BY <1>1, <2>1, EmptyAligned DEF JoinInv
    <3>3. QED
      BY <1>3, <2>1, <3>1, <3>2 DEF Origin
  <2>2. CASE joined # None
    <3>1. f.session_id = session_id /\ Expected(f) = next_seqno
      BY <1>1, <2>2 DEF JoinInv, Expected
    <3>2. Aligned(f)
      BY <1>1, <3>1, SameAligned
    <3>3. Position \in Seqnos /\ next_seqno = Plus(Base, Position)
      BY <1>2, LogIndex DEF Position
    <3>4. QED
      BY <2>2, <3>1, <3>2, <3>3 DEF Origin
  <2>3. QED
    BY <2>1, <2>2
<1>5. Distance(f) = IF Index(f.seqno) >= Origin(f)
                      THEN Index(f.seqno) - Origin(f)
                      ELSE Index(f.seqno) - Origin(f) + SeqnoModulus
  BY <1>3, <1>4, LogDistance DEF Distance
<1>6. QED
  BY <1>1, <1>3, <1>4, <1>5

(* With nothing lost, what is missing is on its way, so that the publisher *)
(* is not more than a window ahead.                                        *)
LEMMA NothingFar ==
  ASSUME ChannelInv, lost = {}, NEW f \in network
  PROVE  published - Origin(f) <= MaxBuffers
<1>1. /\ published \in Nat /\ MaxBuffers \in Nat /\ MaxDelay + 1 <= MaxBuffers
      /\ Origin(f) \in Seqnos /\ Origin(f) \in Nat /\ MaxDelay \in Nat
  BY Arriving, LogIndex, SeqnoAssumption DEF Seqnos
<1>2. CASE joined = None
  BY <1>1, <1>2, Arriving DEF Origin
<1>3. CASE joined # None
  <2>1. SUFFICES ASSUME Position < published
                 PROVE  published - Position <= MaxBuffers
    BY <1>1, <1>3 DEF Origin
  <2>2. /\ Position \in 0 .. published - 1 /\ Position \in Seqnos
        /\ next_seqno = Plus(Base, Position) /\ next_seqno \in Seqnos
        /\ session_id = Session /\ Session \in SessionIds
        /\ WindowInv /\ KeptInv
    <3>1. WindowInv /\ KeptInv /\ session_id = Session
      BY <1>3 DEF ChannelInv, JoinInv
    <3>2. next_seqno \in Seqnos
      BY <3>1 DEF WindowInv, TypeInv, TypeOK
    <3>3. Position \in Seqnos /\ next_seqno = Plus(Base, Position)
      BY <3>2, LogIndex DEF Position
    <3>4. QED
      BY <1>1, <2>1, <3>1, <3>2, <3>3, LogIndex, SeqnoAssumption DEF Seqnos
  <2>3. /\ Assembles(assembly[Slot(next_seqno)], Session, next_seqno)
        /\ ~assembly[Slot(next_seqno)].ready
    BY <2>2, WindowHead DEF WindowInv, WindowConsistent, NothingHeldBack
  <2>4. PICK k \in Fragments(Session, next_seqno) :
          k \notin assembly[Slot(next_seqno)].available
    BY <2>3 DEF Assembles
  <2>5. Frame(Session, next_seqno, k) \in network
    BY <2>2, <2>4 DEF KeptInv, Somewhere
  <2>6. published - Index(Frame(Session, next_seqno, k).seqno) <= MaxDelay + 1
    BY <2>5, Arriving
  <2>7. Frame(Session, next_seqno, k).seqno = next_seqno
    BY DEF Frame
  <2>8. QED
    BY <1>1, <2>2, <2>6, <2>7 DEF Position
<1>4. QED
  BY <1>2, <1>3

LEMMA UnlostInReach ==
  ASSUME ChannelInv, lost = {}, NEW f \in network
  PROVE  BehindInv /\ KeptInv /\ InReach
<1>1. BehindInv /\ KeptInv
  BY DEF ChannelInv
<1>2. published - Origin(f) <= MaxBuffers
  BY NothingFar
<1>3. /\ published \in Nat /\ Origin(f) \in Nat
      /\ MaxBuffers \in Nat /\ Threshold \in Nat /\ MaxBuffers <= Threshold
  BY Arriving, LogIndex, SeqnoAssumption DEF Seqnos, Threshold
<1>4. InReach
  BY <1>2, <1>3 DEF InReach, Origin
<1>5. QED
  BY <1>1, <1>4

(* Where a frame finds the buffer: a late one is recognised as a replay,   *)
(* and any other is not.                                                   *)
LEMMA Reach ==
  ASSUME ChannelInv, BehindInv, InReach, NEW f \in network,
         NEW i, i = Index(f.seqno), NEW p, p = Origin(f),
         NEW latest, latest = (IF i > newest THEN i ELSE newest)
  PROVE  /\ i \in Nat /\ p \in Nat /\ newest \in Int /\ latest \in Nat
         /\ i <= latest /\ newest <= latest
         /\ p <= latest + 1 /\ latest \in 0 .. published - 1 /\ newest - p < MaxBuffers
         /\ joined # None => joined \in 0 .. p
         /\ i < p => Distance(f) > Threshold /\ latest = newest
         /\ i >= p => Distance(f) = i - p /\ Distance(f) <= Threshold
         /\ \A k \in Offsets : p + k > newest =>
              assembly[Slot(Plus(Expected(f), k))].available = {}
<1>1. /\ i \in Nat /\ p \in Nat /\ i \in 0 .. published - 1
      /\ published - i <= MaxDelay + 1 /\ published \in Nat /\ published <= MaxMessages
      /\ Distance(f) = IF i >= p THEN i - p ELSE i - p + SeqnoModulus
      /\ Expected(f) \in Seqnos
  BY Arriving, LogIndex DEF Seqnos
<1>2. /\ MaxBuffers \in Nat \ {0} /\ SeqnoModulus \in Nat /\ MaxMessages \in Nat
      /\ MaxDelay + 1 <= MaxBuffers /\ MaxDelay \in Nat /\ Threshold \in Nat
      /\ SeqnoModulus - MaxBuffers > Threshold /\ MaxBuffers <= Threshold
  BY LogIndex, SeqnoAssumption DEF Seqnos, Threshold
<1>3. BehindInv /\ JoinInv
  BY DEF ChannelInv
<1>4. CASE joined = None
  <2>1. newest = -1 /\ p = i
    BY <1>3, <1>4 DEF JoinInv, Origin, None
  <2>2. \A k \in Offsets : assembly[Slot(Plus(Expected(f), k))].available = {}
    <3>1. \A k \in Offsets : Slot(Plus(Expected(f), k)) \in Slots
      BY <1>1, PlusType, SlotType, SeqnoAssumption DEF Offsets
    <3>2. QED
      BY <1>3, <1>4, <3>1 DEF JoinInv, EmptyItem
  <2>3. QED
    BY <1>1, <1>2, <1>4, <2>1, <2>2
<1>5. CASE joined # None
  <2>1. /\ p = Position /\ joined \in 0 .. p /\ newest \in 0 .. published - 1
        /\ p <= newest + 1 /\ newest - p < MaxBuffers
        /\ \A k \in Offsets :
             p + k > newest => assembly[Slot(Plus(next_seqno, k))].available = {}
    BY <1>3, <1>5 DEF BehindInv, Origin
  <2>2. Expected(f) = next_seqno
    BY <1>3, <1>5, Arriving DEF JoinInv, Expected
  <2>3. i >= p => i - p <= Threshold
    <3>1. published - p <= Threshold + 1
      BY <1>5, <2>1 DEF InReach
    <3>2. QED
      BY <1>1, <1>2, <3>1
  <2>4. i < p => i - p + SeqnoModulus > Threshold /\ i <= newest
    BY <1>1, <1>2, <2>1
  <2>5. /\ newest \in Int /\ latest \in 0 .. published - 1 /\ latest \in Nat
        /\ i <= latest /\ newest <= latest /\ p <= latest + 1
        /\ i <= newest => latest = newest
    BY <1>1, <2>1
  <2>6. QED
    BY <1>1, <2>1, <2>2, <2>3, <2>4, <2>5
<1>6. QED
  BY <1>4, <1>5

LEMMA PlusTwice ==
  ASSUME NEW q \in Seqnos, NEW i \in Nat, NEW j \in Nat, NEW k \in Nat
  PROVE  Plus(Plus(Plus(q, i), j), k) = Plus(q, i + j + k)
<1>1. Plus(Plus(q, i), j) = Plus(q, i + j) /\ i + j \in Nat
  BY PlusPlus
<1>2. QED
  BY <1>1, PlusPlus

(* Where a call takes the buffer: no further than what it has heard of,    *)
(* and less than a window short of it.                                     *)
LEMMA Landing ==
  ASSUME ChannelInv, BehindInv, InReach, NEW f \in network,
         NEW i, i = Index(f.seqno), NEW p, p = Origin(f),
         NEW latest, latest = (IF i > newest THEN i ELSE newest),
         NEW a \in Nat, NEW n \in Nat, CallStep(f, a, n), Moves(f, a, n)
  PROVE  /\ next_seqno' = Plus(Base, p + a + n) /\ p + a + n \in Seqnos
         /\ Position' = p + a + n
         /\ p + a + n <= latest + 1
         /\ latest - (p + a + n) < MaxBuffers
         /\ \A k \in Offsets :
              p + a + n + k > latest => assembly'[Slot(Plus(next_seqno', k))].available = {}
         /\ i < p => a = 0 /\ n = 0
<1>1. /\ i \in Nat /\ p \in Nat /\ newest \in Int /\ latest \in Nat
      /\ i <= latest /\ newest <= latest
      /\ p <= latest + 1 /\ latest \in 0 .. published - 1 /\ newest - p < MaxBuffers
      /\ i < p => Distance(f) > Threshold /\ latest = newest
      /\ i >= p => Distance(f) = i - p /\ Distance(f) <= Threshold
      /\ \A k \in Offsets : p + k > newest =>
           assembly[Slot(Plus(Expected(f), k))].available = {}
  BY Reach
<1>2. /\ MaxBuffers \in Nat \ {0} /\ Threshold \in Nat /\ MaxBuffers <= Threshold
      /\ published \in Nat /\ published <= MaxMessages /\ MaxMessages \in Seqnos
      /\ Expected(f) = Plus(Base, p) /\ Base \in Seqnos /\ Seqnos \subseteq Nat
      /\ Expected(f) \in Seqnos
  BY Arriving, LogIndex, SeqnoAssumption DEF Seqnos, Threshold
<1>0. PICK d \in Nat : d = Distance(f)
  BY ExpectedType, HeardOffsets, Arriving DEF ChannelInv
<1>3. i < p => a = 0 /\ n = 0
  BY <1>0, <1>1, <1>2 DEF Moves
<1>4. ASSUME NEW j \in Nat, p + j > latest, i < p => j \in Offsets
      PROVE  Heard(f, j) = {}
  <2>1. j \in Offsets => assembly[Slot(Plus(Expected(f), j))].available = {}
    BY <1>1, <1>4
  <2>2. j # Distance(f)
    BY <1>1, <1>2, <1>4 DEF Offsets
  <2>3. QED
    BY <2>1, <2>2 DEF Heard
<1>5. p + a + n <= latest + 1
  <2>1. CASE n = 0
    BY <1>1, <1>2, <2>1 DEF Moves
  <2>2. CASE n # 0
    <3>1. a + n - 1 \in a .. a + n - 1 /\ a + n - 1 \in Nat /\ ~(i < p)
      BY <1>3, <2>2
    <3>2. Heard(f, a + n - 1) # {}
      BY <3>1 DEF CallStep
    <3>3. ~(p + (a + n - 1) > latest)
      BY <1>4, <3>1, <3>2
    <3>4. QED
      BY <1>1, <3>3
  <2>3. QED
    BY <2>1, <2>2
<1>6. p + a + n \in Seqnos /\ p + a \in Nat
  <2>1. p + a \in Nat /\ p + a + n \in Nat
    BY <1>1
  <2>2. p + a + n <= MaxMessages /\ MaxMessages \in Nat
    BY <1>1, <1>2, <1>5, <2>1
  <2>3. MaxMessages \in 0 .. SeqnoModulus - 1 /\ SeqnoModulus \in Nat
    BY <1>2, SeqnoAssumption DEF Seqnos
  <2>4. p + a + n \in 0 .. SeqnoModulus - 1
    BY <2>1, <2>2, <2>3
  <2>5. QED
    BY <2>1, <2>4 DEF Seqnos
<1>7. next_seqno' = Plus(Base, p + a + n)
  <2>1. next_seqno' = Plus(Plus(Plus(Base, p), a), n)
    BY <1>2 DEF CallStep, RunStep
  <2>2. Plus(Plus(Plus(Base, p), a), n) = Plus(Base, p + a + n)
    BY <1>1, <1>2, PlusTwice
  <2>3. QED
    BY <2>1, <2>2
<1>8. Position' = p + a + n
  BY <1>6, <1>7, LogIndex DEF Position
<1>9. latest - (p + a + n) < MaxBuffers
  BY <1>0, <1>1, <1>2, <1>3 DEF Moves
<1>10. ASSUME NEW k \in Offsets, p + a + n + k > latest
       PROVE  assembly'[Slot(Plus(next_seqno', k))].available = {}
  <2>1. /\ k \in Nat /\ a + n \in Nat /\ a + n + k \in Nat
        /\ p + (a + n + k) = p + a + n + k /\ i < p => a + n + k = k
    BY <1>1, <1>2, <1>3 DEF Offsets
  <2>2. Heard(f, a + n + k) = {}
    <3>1. PICK j \in Nat : j = a + n + k
      BY <2>1
    <3>2. p + j > latest /\ (i < p => j \in Offsets)
      BY <1>1, <1>10, <2>1, <3>1
    <3>3. QED
      BY <1>4, <3>1, <3>2
  <2>3. next_seqno' = Plus(Expected(f), a + n)
    <3>1. next_seqno' = Plus(Plus(Expected(f), a), n)
      BY DEF CallStep, RunStep
    <3>2. QED
      BY <1>2, <3>1, PlusPlus
  <2>4. assembly'[Slot(Plus(next_seqno', k))].available = Heard(f, a + n + k)
    BY <2>3 DEF CallStep, Holds
  <2>5. QED
    BY <2>2, <2>4
<1>11. QED
  BY <1>3, <1>5, <1>6, <1>7, <1>8, <1>9, <1>10

LEMMA DeliveredBehind ==
  ASSUME ChannelInv, BehindInv, InReach, NEW f \in network, Delivered(f)
  PROVE  BehindInv'
<1>1. PICK i : i = Index(f.seqno)
  OBVIOUS
<1>2. PICK p : p = Origin(f)
  OBVIOUS
<1>3. PICK latest : latest = (IF i > newest THEN i ELSE newest)
  OBVIOUS
<1>4. PICK a \in Nat, n \in Nat : CallStep(f, a, n) /\ Moves(f, a, n)
  BY Arriving, ReceiveCall DEF Delivered, ChannelInv
<1>5. /\ Position' = p + a + n
      /\ p + a + n <= latest + 1
      /\ latest - (p + a + n) < MaxBuffers
      /\ \A k \in Offsets :
           p + a + n + k > latest => assembly'[Slot(Plus(next_seqno', k))].available = {}
  BY <1>1, <1>2, <1>3, <1>4, Landing
<1>6. /\ p \in Nat /\ latest \in 0 .. published - 1 /\ i \in Nat
      /\ joined # None => joined \in 0 .. p
  BY <1>1, <1>2, <1>3, Reach
<1>7. /\ newest' = latest /\ published' = published
      /\ joined' = IF joined = None THEN i ELSE joined
  BY <1>1, <1>3 DEF Delivered
<1>8. joined = None => p = i
  BY <1>1, <1>2 DEF Origin
<1>9. joined' \in 0 .. p + a + n
  <2>1. joined' \in 0 .. p
    BY <1>6, <1>7, <1>8
  <2>2. p <= p + a + n /\ p + a + n \in Nat
    BY <1>6
  <2>3. QED
    BY <1>6, <2>1, <2>2
<1>10. QED
  BY <1>5, <1>6, <1>7, <1>9 DEF BehindInv

(* As long as nothing is lost, a call skips nothing: it hands over what    *)
(* follows the position.                                                   *)
LEMMA DeliveredRun ==
  ASSUME ChannelInv, lost = {}, NEW f \in network, Delivered(f),
         NEW p, p = Origin(f)
  PROVE  \E n \in Nat : /\ CallStep(f, 0, n)
                        /\ p \in Nat /\ p + n \in Seqnos /\ Position' = p + n
                        /\ published - p <= MaxBuffers
<1>0. BehindInv /\ InReach
  BY UnlostInReach
<1>1. PICK i : i = Index(f.seqno)
  OBVIOUS
<1>2. PICK latest : latest = (IF i > newest THEN i ELSE newest)
  OBVIOUS
<1>3. PICK a \in Nat, n \in Nat : CallStep(f, a, n) /\ Moves(f, a, n)
  BY Arriving, ReceiveCall DEF Delivered, ChannelInv
<1>4. /\ Position' = p + a + n /\ p + a + n \in Seqnos
      /\ i < p => a = 0 /\ n = 0
  BY <1>0, <1>1, <1>2, <1>3, Landing
<1>5. /\ i \in Nat /\ p \in Nat
      /\ i >= p => Distance(f) = i - p
  BY <1>0, <1>1, <1>2, Reach
<1>6. published - p <= MaxBuffers /\ i \in 0 .. published - 1 /\ published \in Nat
  BY <1>1, NothingFar, Arriving
<1>7. a = 0
  <2>1. CASE i < p
    BY <1>4, <2>1
  <2>2. CASE i >= p
    <3>1. Distance(f) \in Nat /\ Distance(f) < MaxBuffers /\ MaxBuffers <= Threshold
      BY <1>5, <1>6, <2>2, SeqnoAssumption DEF Threshold
    <3>2. QED
      BY <1>3, <3>1, SeqnoAssumption DEF Moves
  <2>3. QED
    BY <1>5, <2>1, <2>2
<1>8. p + a + n = p + n
  BY <1>5, <1>7
<1>9. QED
  BY <1>3, <1>4, <1>5, <1>6, <1>7, <1>8

LEMMA DeliveredKept ==
  ASSUME ChannelInv, lost = {}, NEW f \in network, Delivered(f),
         network \ {f} \subseteq network'
  PROVE  KeptInv'
<1>1. PICK p : p = Origin(f)
  OBVIOUS
<1>2. PICK n \in Nat : /\ CallStep(f, 0, n)
                       /\ p \in Nat /\ p + n \in Seqnos /\ Position' = p + n
                       /\ published - p <= MaxBuffers
  BY <1>1, DeliveredRun
<1>3. PICK i \in Nat : i = Index(f.seqno)
  BY Arriving
<1>4. /\ published \in Nat /\ i \in 0 .. published - 1
      /\ Expected(f) = Plus(Base, p) /\ Expected(f) \in Seqnos
      /\ f.session_id = Session /\ f \in Frames /\ f.seqno = Plus(Base, i)
      /\ Distance(f) = IF i >= p THEN i - p ELSE i - p + SeqnoModulus
  BY <1>1, <1>3, Arriving, ExpectedType DEF ChannelInv
<1>5. /\ joined' = IF joined = None THEN i ELSE joined
      /\ handed' = handed \union {Index(dispatched'[m].seqno) : m \in DOMAIN dispatched'}
      /\ published' = published
      /\ joined' # None
  BY <1>3 DEF Delivered, None
<1>6. JoinInv /\ KeptInv /\ BehindInv /\ InReach
  BY UnlostInReach DEF ChannelInv
<1>7. handed' = joined' .. Position' - 1
  <2>1. RunStep(Session, Plus(Base, p), n)
    <3>1. Plus(Plus(Base, p), 0) = Plus(Base, p)
      BY <1>4, WindowHead
    <3>2. QED
      BY <1>2, <1>4, <3>1 DEF CallStep
  <2>2. handed' = handed \union p .. p + n - 1
    BY <1>2, <1>5, <2>1, RunIndexes
  <2>3. CASE joined = None
    <3>1. handed = {} /\ joined' = p
      BY <1>1, <1>3, <1>5, <1>6, <2>3 DEF JoinInv, Origin
    <3>2. QED
      BY <1>2, <2>2, <3>1
  <2>4. CASE joined # None
    <3>1. handed = joined .. p - 1 /\ joined' = joined
      BY <1>1, <1>5, <1>6, <2>4 DEF KeptInv, Origin
    <3>2. joined \in 0 .. p
      BY <1>1, <1>6, <2>4, Reach
    <3>3. joined .. p + n - 1 = (joined .. p - 1) \union (p .. p + n - 1)
      BY <1>2, <3>2
    <3>4. QED
      BY <1>2, <2>2, <3>1, <3>3
  <2>5. QED
    BY <2>3, <2>4
<1>8. ASSUME NEW m \in 0 .. published - 1, m >= p + n,
             NEW k \in Fragments(Session, Plus(Base, m))
      PROVE  \/ Frame(Session, Plus(Base, m), k) \in network'
             \/ k \in assembly'[Slot(Plus(Base, m))].available
  <2>1. PICK o \in Offsets : o = m - p /\ o >= n
    <3>1. m - p \in 0 .. MaxBuffers - 1 /\ m - p >= n
      BY <1>2, <1>4, <1>8, SeqnoAssumption
    <3>2. QED
      BY <3>1 DEF Offsets
  <2>2. /\ o \in Nat /\ o - n \in Offsets /\ o - n \in Nat /\ 0 + n = n
        /\ n + (o - n) = o /\ p + o = m /\ p <= m /\ m \in Nat
    BY <1>2, <1>4, <2>1, SeqnoAssumption DEF Offsets
  <2>3. Plus(Expected(f), o) = Plus(Base, m)
    <3>1. Base \in Seqnos
      BY LogIndex
    <3>2. Plus(Plus(Base, p), o) = Plus(Base, p + o)
      BY <1>2, <2>2, <3>1, PlusPlus
    <3>3. QED
      BY <1>4, <2>2, <3>2
  <2>4. m \in Seqnos
    <3>1. m < MaxMessages /\ MaxMessages \in Seqnos
      BY <1>4, <2>2, LogIndex, Arriving DEF Seqnos
    <3>2. QED
      BY <2>2, <3>1, SeqnoAssumption DEF Seqnos
  <2>5. Plus(Plus(Expected(f), n), o - n) = Plus(Expected(f), o)
    BY <1>2, <1>4, <2>2, PlusPlus
  <2>6. assembly'[Slot(Plus(Base, m))].available = Heard(f, o)
    <3>1. Holds(assembly', f, n)
      BY <1>2, <2>2 DEF CallStep
    <3>2. assembly'[Slot(Plus(Plus(Expected(f), n), o - n))].available = Heard(f, n + (o - n))
      BY <2>2, <3>1 DEF Holds
    <3>3. QED
      BY <2>2, <2>3, <2>5, <3>2
  <2>7. Somewhere(m)
    BY <1>1, <1>6, <2>2 DEF KeptInv, Origin
  <2>8. CASE Frame(Session, Plus(Base, m), k) \in network \ {f}
    BY <2>8
  <2>9. CASE Frame(Session, Plus(Base, m), k) = f
    <3>1. Plus(Base, m) = f.seqno /\ k = f.fragment
      BY <2>9 DEF Frame
    <3>2. i = m
      <4>1. m \in Seqnos
        BY <2>4
      <4>2. QED
        BY <1>3, <3>1, <4>1, LogIndex
    <3>3. o = Distance(f)
      BY <1>4, <2>1, <2>2, <3>2
    <3>4. QED
      BY <2>6, <3>1, <3>3 DEF Heard
  <2>10. CASE k \in assembly[Slot(Plus(Base, m))].available
    BY <2>1, <2>3, <2>6, <2>10 DEF Heard
  <2>11. QED
    BY <2>7, <2>8, <2>9, <2>10 DEF Somewhere
<1>9. \A m \in 0 .. published' - 1 : m >= Position' => Somewhere(m)'
  BY <1>2, <1>5, <1>8 DEF Somewhere
<1>10. QED
  BY <1>5, <1>7, <1>9 DEF KeptInv

LEMMA DeliveredKeeps ==
  ASSUME ChannelInv, NEW f \in network, Delivered(f),
         network \ {f} \subseteq network', network' \subseteq network
  PROVE  ChannelInv'
<1>1. /\ f \in Frames /\ f.session_id = Session /\ Aligned(f)
      /\ Index(f.seqno) \in Nat
  BY Arriving
<1>2. WindowInv'
  BY <1>1, WindowCall DEF Delivered, ChannelInv
<1>3. NetworkInv'
  <2>1. published' = published
    BY DEF Delivered
  <2>2. QED
    BY <2>1 DEF ChannelInv, NetworkInv
<1>4. JoinInv'
  <2>1. joined' # None
    BY <1>1 DEF Delivered, None
  <2>2. session_id' = Session
    BY <1>1 DEF Delivered, Receive
  <2>3. QED
    BY <2>1, <2>2 DEF JoinInv
<1>5. lost' = lost
  BY DEF Delivered
<1>6. (lost = {} => BehindInv /\ KeptInv)'
  BY <1>5, UnlostInReach, DeliveredBehind, DeliveredKept
<1>7. QED
  BY <1>2, <1>3, <1>4, <1>6 DEF ChannelInv

(* A message that is sent.                                                 *)
LEMMA FrameOf ==
  ASSUME NEW s \in SessionIds, NEW q \in Seqnos, NEW k \in Fragments(s, q)
  PROVE  Frame(s, q, k) \in Frames
<1> DEFINE Of(t, r) == {Frame(t, r, j) : j \in Fragments(t, r)}
<1>1. Frame(s, q, k) \in Of(s, q)
  OBVIOUS
<1>2. Frames = UNION {Of(t, r) : t \in SessionIds, r \in Seqnos}
  BY DEF Frames
<1> HIDE DEF Of
<1>3. Of(s, q) \in {Of(t, r) : t \in SessionIds, r \in Seqnos}
  OBVIOUS
<1>4. QED
  BY <1>1, <1>2, <1>3

LEMMA FramesOfMessage ==
  ASSUME NEW i \in Seqnos, NEW f \in FramesOf(i)
  PROVE  f \in Frames /\ f.session_id = Session /\ Index(f.seqno) = i
<1>1. PICK k \in Fragments(Session, Plus(Base, i)) : f = Frame(Session, Plus(Base, i), k)
  BY DEF FramesOf
<1>2. Plus(Base, i) \in Seqnos /\ Index(Plus(Base, i)) = i /\ Session \in SessionIds
  BY LogIndex
<1>3. f \in Frames
  BY <1>1, <1>2, FrameOf
<1>4. f.session_id = Session /\ f.seqno = Plus(Base, i)
  BY <1>1 DEF Frame
<1>5. QED
  BY <1>2, <1>3, <1>4

LEMMA PublishBehind ==
  ASSUME ChannelInv, BehindInv, Publish
  PROVE  BehindInv'
<1>1. /\ UNCHANGED <<next_seqno, assembly, joined, newest>>
      /\ published' = published + 1 /\ published \in Nat
  BY LogIndex, SeqnoAssumption DEF Publish, vars, ChannelInv, NetworkInv, Seqnos
<1>2. Position' = Position
  BY <1>1 DEF Position
<1>3. 0 .. published - 1 \subseteq 0 .. published' - 1
  BY <1>1
<1>4. QED
  BY <1>1, <1>2, <1>3 DEF BehindInv

LEMMA PublishKeeps ==
  ASSUME ChannelInv, Publish
  PROVE  ChannelInv'
<1>1. UNCHANGED <<session_id, next_seqno, assembly, dispatched, terminated>>
  BY DEF Publish, vars
<1>2. /\ UNCHANGED <<lost, joined, newest, handed>>
      /\ published' = published + 1 /\ network' = network \union FramesOf(published)
      /\ published \in 0 .. MaxMessages - 1
  BY DEF Publish, Log
<1>3. published \in Nat /\ published \in Seqnos /\ MaxMessages \in Nat /\ MaxDelay \in Nat
  BY <1>2, LogIndex, SeqnoAssumption DEF Seqnos
<1>4. WindowInv'
  BY <1>1, WindowStutter DEF ChannelInv, vars
<1>5. NetworkInv'
  <2>1. published' \in 0 .. MaxMessages
    BY <1>2, <1>3
  <2>2. ASSUME NEW f \in FramesOf(published)
        PROVE  /\ f \in Frames /\ f.session_id = Session
               /\ Index(f.seqno) \in 0 .. published' - 1
               /\ published' - Index(f.seqno) <= MaxDelay + 1
    BY <1>2, <1>3, FramesOfMessage
  <2>3. ASSUME NEW f \in network
        PROVE  /\ f \in Frames /\ f.session_id = Session
               /\ Index(f.seqno) \in 0 .. published' - 1
               /\ published' - Index(f.seqno) <= MaxDelay + 1
    <3>1. /\ f \in Frames /\ f.session_id = Session
          /\ Index(f.seqno) \in 0 .. published - 1
          /\ published - Index(f.seqno) <= MaxDelay
      BY DEF ChannelInv, NetworkInv, Publish
    <3>2. QED
      BY <1>2, <1>3, <3>1
  <2>4. QED
    BY <1>2, <2>1, <2>2, <2>3 DEF NetworkInv
<1>6. JoinInv'
  BY <1>1, <1>2 DEF ChannelInv, JoinInv
<1>7. Position' = Position
  BY <1>1 DEF Position
<1>8. (lost = {} => KeptInv)'
  <2>1. SUFFICES ASSUME KeptInv PROVE KeptInv'
    BY <1>2 DEF ChannelInv
  <2>2. ASSUME NEW i \in 0 .. published' - 1, joined = None \/ i >= Position
        PROVE  Somewhere(i)'
    <3>1. CASE i = published
      BY <1>2, <3>1 DEF Somewhere, FramesOf
    <3>2. CASE i # published
      <4>1. i \in 0 .. published - 1
        BY <1>2, <1>3, <3>2
      <4>2. Somewhere(i)
        BY <2>1, <2>2, <4>1 DEF KeptInv
      <4>3. QED
        BY <1>1, <1>2, <4>2 DEF Somewhere
    <3>3. QED
      BY <3>1, <3>2
  <2>3. (joined # None => handed = joined .. Position - 1)'
    BY <1>2, <1>7, <2>1 DEF KeptInv
  <2>4. QED
    BY <1>2, <1>7, <2>2, <2>3 DEF KeptInv
<1>9. (lost = {} => BehindInv)'
  BY <1>2, PublishBehind DEF ChannelInv
<1>10. QED
  BY <1>4, <1>5, <1>6, <1>8, <1>9 DEF ChannelInv

(* A datagram that is lost: from then on messages may be given up.         *)
LEMMA LoseKeeps ==
  ASSUME ChannelInv, NEW f \in network, Lose(f)
  PROVE  ChannelInv'
<1>1. /\ UNCHANGED <<session_id, next_seqno, assembly, dispatched, terminated>>
      /\ UNCHANGED <<published, joined, newest, handed>>
      /\ network' \subseteq network /\ lost' # {}
  BY DEF Lose, vars
<1>2. WindowInv'
  BY <1>1, WindowStutter DEF ChannelInv, vars
<1>3. NetworkInv' /\ JoinInv'
  BY <1>1 DEF ChannelInv, NetworkInv, JoinInv
<1>4. QED
  BY <1>1, <1>2, <1>3 DEF ChannelInv

LEMMA ChannelStays ==
  ASSUME ChannelInv, UNCHANGED channelVars
  PROVE  ChannelInv'
<1>1. /\ UNCHANGED <<session_id, next_seqno, assembly, dispatched, terminated>>
      /\ UNCHANGED <<published, network, lost, joined, newest, handed>>
  BY DEF channelVars, vars
<1>2. WindowInv'
  BY <1>1, WindowStutter DEF ChannelInv, vars
<1>3. NetworkInv' /\ JoinInv' /\ Position' = Position
  BY <1>1 DEF ChannelInv, NetworkInv, JoinInv, Position
<1>4. (lost = {} => BehindInv)'
  BY <1>1, <1>3 DEF ChannelInv, BehindInv
<1>5. (lost = {} => KeptInv)'
  BY <1>1, <1>3 DEF ChannelInv, KeptInv, Somewhere
<1>6. QED
  BY <1>2, <1>3, <1>4, <1>5 DEF ChannelInv

LEMMA ChannelStart ==
  ASSUME ChannelInit
  PROVE  ChannelInv
<1>1. WindowInv
  BY WindowInit DEF ChannelInit
<1>2. NetworkInv
  BY LogIndex, SeqnoAssumption DEF ChannelInit, NetworkInv, Seqnos
<1>3. JoinInv
  BY DEF ChannelInit, Init, JoinInv
<1>4. BehindInv /\ KeptInv
  BY DEF ChannelInit, BehindInv, KeptInv
<1>5. QED
  BY <1>1, <1>2, <1>3, <1>4 DEF ChannelInv

LEMMA ChannelKeeps ==
  ASSUME ChannelInv, [ChannelNext]_channelVars
  PROVE  ChannelInv'
<1>1. ASSUME NEW f \in network, Arrive(f) \/ ArriveCopy(f)
      PROVE  ChannelInv'
  BY <1>1, DeliveredKeeps DEF Arrive, ArriveCopy
<1>2. QED
  BY <1>1, PublishKeeps, LoseKeeps, ChannelStays DEF ChannelNext

-----------------------------------------------------------------------------
(* Results.                                                                *)

LEMMA ChannelInvariant == ChannelSpec => []ChannelInv
<1>1. QED
  BY ChannelStart, ChannelKeeps, PTL DEF ChannelSpec

(* However many datagrams are lost: the buffer stays close to what it has  *)
(* heard of, until the publisher is out of reach.                          *)
LEMMA BehindNext ==
  ASSUME ChannelInv, BehindInv, InReach, [ChannelNext]_channelVars
  PROVE  BehindInv'
<1>1. ASSUME NEW f \in network, Arrive(f) \/ ArriveCopy(f)
      PROVE  BehindInv'
  BY <1>1, DeliveredBehind DEF Arrive, ArriveCopy
<1>2. ASSUME (\E f \in network : Lose(f)) \/ UNCHANGED channelVars
      PROVE  BehindInv'
  <2>1. UNCHANGED <<next_seqno, assembly, published, joined, newest>>
    BY <1>2 DEF Lose, channelVars, vars
  <2>2. Position' = Position
    BY <2>1 DEF Position
  <2>3. QED
    BY <2>1, <2>2 DEF BehindInv
<1>3. QED
  BY <1>1, <1>2, PublishBehind DEF ChannelNext

(* A hole holds back fewer than MAX_BUFFERS messages, whatever is lost,    *)
(* repeated or reordered, as long as the publisher is in reach.            *)
THEOREM LagIsBounded == ChannelSpec /\ []InReach => []LagBounded
<1>1. ChannelInit => BehindInv
  BY DEF ChannelInit, BehindInv
<1>2. ChannelInv /\ BehindInv /\ InReach /\ [ChannelNext]_channelVars => BehindInv'
  BY BehindNext
<1>3. BehindInv => LagBounded
  BY DEF BehindInv, LagBounded
<1>4. QED
  BY <1>1, <1>2, <1>3, ChannelInvariant, PTL DEF ChannelSpec

(* Under the same condition, a complete message waits behind a hole only   *)
(* until a message MAX_BUFFERS - 1 after it is heard of.                   *)
THEOREM WaitIsBounded == ChannelSpec /\ []InReach => []WaitBounded
<1>1. ChannelInit => BehindInv
  BY DEF ChannelInit, BehindInv
<1>2. ChannelInv /\ BehindInv /\ InReach /\ [ChannelNext]_channelVars => BehindInv'
  BY BehindNext
<1>3. ChannelInv /\ BehindInv => WaitBounded
  <2>1. SUFFICES ASSUME ChannelInv, BehindInv, NEW i \in Log, Waits(i)
                 PROVE  newest < i + MaxBuffers - 1
    BY DEF WaitBounded
  <2>2. newest \in 0 .. published - 1 /\ newest - Position < MaxBuffers
    BY <2>1 DEF BehindInv, Waits
  <2>3. next_seqno \in Seqnos /\ NothingHeldBack
    <3>1. WindowInv
      BY <2>1 DEF ChannelInv
    <3>2. QED
      BY <3>1 DEF WindowInv, TypeInv, TypeOK
  <2>4. Position \in Seqnos /\ next_seqno = Plus(Base, Position)
    BY <2>3, LogIndex DEF Position
  <2>5. /\ Position \in Nat /\ i \in Nat /\ MaxBuffers \in Nat
        /\ newest \in Int
    BY <2>2, <2>4, SeqnoAssumption, LogIndex DEF Log, Seqnos
  <2>6. i # Position
    BY <2>1, <2>3, <2>4 DEF Waits, NothingHeldBack
  <2>7. i \in Position .. Position + MaxBuffers - 1
    BY <2>1 DEF Waits
  <2>8. QED
    BY <2>2, <2>5, <2>6, <2>7
<1>4. QED
  BY <1>1, <1>2, <1>3, ChannelInvariant, PTL DEF ChannelSpec

(* With a log of at most three quarters of the range it always is, and     *)
(* both bounds hold whatever is lost.                                      *)
THEOREM BoundedInShortLog ==
  ASSUME MaxMessages <= Threshold + 1
  PROVE  ChannelSpec => [](LagBounded /\ WaitBounded)
<1>1. ChannelInv => InReach
  <2>1. SUFFICES ASSUME ChannelInv
                 PROVE  published - Position <= Threshold + 1
    BY DEF InReach
  <2>2. published \in 0 .. MaxMessages /\ next_seqno \in Seqnos
    <3>1. WindowInv /\ NetworkInv
      BY <2>1 DEF ChannelInv
    <3>2. published \in 0 .. MaxMessages
      BY <3>1 DEF NetworkInv
    <3>3. next_seqno \in Seqnos
      BY <3>1 DEF WindowInv, TypeInv, TypeOK
    <3>4. QED
      BY <3>2, <3>3
  <2>3. Position \in Seqnos /\ MaxMessages \in Seqnos
    BY <2>2, LogIndex DEF Position
  <2>4. Position \in Nat /\ MaxMessages \in Nat /\ Threshold \in Nat
    BY <2>3, SeqnoAssumption DEF Seqnos, Threshold
  <2>5. QED
    BY <2>2, <2>4
<1>2. QED
  BY <1>1, ChannelInvariant, LagIsBounded, WaitIsBounded, PTL

(* As long as nothing is lost, datagrams overtaken by less than a window   *)
(* of messages do no harm, copies included: nothing is given up, and all   *)
(* from the first message heard of is handed over.                         *)
THEOREM NoneGivenUp == ChannelSpec => []NothingGivenUp
<1>1. ChannelInv => NothingGivenUp
  BY DEF ChannelInv, JoinInv, KeptInv, NothingGivenUp
<1>2. QED
  BY <1>1, ChannelInvariant, PTL

(* The channel is an environment of Buffer: what arrives are frames, and   *)
(* nothing else touches the buffer.                                        *)
LEMMA ChannelIsBuffer == ChannelSpec => Spec
<1>1. ChannelInit => Init
  BY DEF ChannelInit
<1>2. ChannelInv /\ [ChannelNext]_channelVars => [Next]_vars
  <2>1. SUFFICES ASSUME ChannelInv, [ChannelNext]_channelVars
                 PROVE  [Next]_vars
    OBVIOUS
  <2>2. ASSUME NEW f \in network, Arrive(f) \/ ArriveCopy(f)
        PROVE  Next
    BY <2>1, <2>2, Arriving DEF Arrive, ArriveCopy, Delivered, Next
  <2>3. ASSUME Publish \/ (\E f \in network : Lose(f)) \/ UNCHANGED channelVars
        PROVE  UNCHANGED vars
    BY <2>3 DEF Publish, Lose, channelVars
  <2>4. QED
    BY <2>1, <2>2, <2>3 DEF ChannelNext
<1>3. QED
  BY <1>1, <1>2, ChannelInvariant, PTL DEF ChannelSpec, Spec

(* On a channel a message is handed over intact, at once when it is        *)
(* complete and the next, and is not given up once all that is behind it   *)
(* in the window is complete, also when other sessions could be heard.     *)
THEOREM ChannelDelivers ==
  ChannelSpec => [](IntactDelivery /\ NothingHeldBack) /\ CompleteSuffixKept
<1>1. ChannelInv => IntactDelivery /\ NothingHeldBack
  BY DEF ChannelInv, WindowInv
<1>2. QED
  BY <1>1, ChannelInvariant, ChannelIsBuffer, SuffixIsKept, PTL
=============================================================================
