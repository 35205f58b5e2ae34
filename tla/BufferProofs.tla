---------------------------- MODULE BufferProofs ----------------------------
(***************************************************************************)
(* Theorems about Buffer for every ring, every range of seqnos, every      *)
(* number of sessions and every message size, in this order:               *)
(*                                                                         *)
(*   wrapping seqnos and the slots they map to;                            *)
(*   types and counts;                                                     *)
(*   Buffer implements MessageStream, and what an overflow keeps;          *)
(*   as long as a session goes on, the ring always holds exactly the       *)
(*   messages of the window that starts at next_seqno: what is handed over *)
(*   is what was published, and no assertion of the code fails.  With more *)
(*   sessions this is not so: see the run of MCBufferSessions.             *)
(***************************************************************************)
EXTENDS Buffer, FiniteSetTheorems, TLAPS

-----------------------------------------------------------------------------
(* Wrapping seqnos.                                                        *)

(* A positive multiple of n is at least n.                                 *)
LEMMA MultipleAtLeast ==
  ASSUME NEW n \in Nat \ {0}, NEW d \in Int, d >= 1
  PROVE  n * d >= n
OBVIOUS

(* Division with remainder.                                                *)
LEMMA DivMod ==
  ASSUME NEW n \in Nat \ {0}, NEW a \in Int
  PROVE  /\ a \div n \in Int
         /\ a % n \in 0 .. n - 1
         /\ a = n * (a \div n) + (a % n)
OBVIOUS

(* Two numbers that differ by less than n and have the same remainder are  *)
(* equal.                                                                  *)
LEMMA RemainderGap ==
  ASSUME NEW n \in Nat \ {0}, NEW q \in Int, NEW p \in Int,
         NEW g \in Int, -n < g, g < n, n * (q - p) = g
  PROVE  g = 0
<1>1. CASE q - p >= 1
  BY <1>1, MultipleAtLeast
<1>2. CASE p - q >= 1
  <2>1. n * (p - q) = -g
    OBVIOUS
  <2>2. QED
    BY <2>1, <1>2, MultipleAtLeast
<1>3. CASE p = q
  BY <1>3
<1>4. QED
  BY <1>1, <1>2, <1>3

(* The quotients of two numbers a multiple of n apart, in one equation.    *)
LEMMA QuotientGap ==
  ASSUME NEW n \in Int, NEW d \in Int, NEW q \in Int, NEW p \in Int,
         NEW r \in Int, NEW s \in Int,
         (n * q + r) + n * d = n * p + s
  PROVE  n * ((q + d) - p) = s - r
OBVIOUS

(* Adding a multiple of n leaves the remainder alone.                      *)
LEMMA ModShift ==
  ASSUME NEW n \in Nat \ {0}, NEW a \in Int, NEW d \in Int
  PROVE  (a + n * d) % n = a % n
<1>1. PICK q \in Int, r \in 0 .. n - 1 : r = a % n /\ a = n * q + r
  BY DivMod
<1>2. PICK b \in Int : b = a + n * d
  OBVIOUS
<1>3. PICK p \in Int, s \in 0 .. n - 1 : s = b % n /\ b = n * p + s
  BY DivMod
<1>4. r \in Int /\ s \in Int /\ -n < s - r /\ s - r < n
  OBVIOUS
<1>5. (n * q + r) + n * d = n * p + s
  BY <1>1, <1>2, <1>3
<1>6. n * ((q + d) - p) = s - r
  BY <1>4, <1>5, QuotientGap
<1>7. q + d \in Int /\ s - r \in Int
  BY <1>4
<1>8. s - r = 0
  BY <1>4, <1>6, <1>7, RemainderGap
<1>9. r = s
  BY <1>4, <1>8
<1>10. (a + n * d) % n = b % n
  BY <1>2
<1>11. QED
  BY <1>1, <1>3, <1>9, <1>10

-----------------------------------------------------------------------------

(* A difference of seqnos is the distance from the second to the first.   *)
LEMMA DiffType ==
  ASSUME NEW a \in Seqnos, NEW b \in Seqnos
  PROVE  Diff(a, b) \in Seqnos
BY SeqnoAssumption DEF Diff, Seqnos

(* The sum wraps to a seqno again.                                        *)
LEMMA PlusType ==
  ASSUME NEW a \in Seqnos, NEW k \in Nat
  PROVE  Plus(a, k) \in Seqnos
BY SeqnoAssumption DEF Plus, Seqnos

(* Addition wraps at most once.                                            *)
LEMMA PlusCases ==
  ASSUME NEW a \in Seqnos, NEW k \in 0 .. SeqnoModulus
  PROVE  Plus(a, k) = IF a + k < SeqnoModulus THEN a + k ELSE a + k - SeqnoModulus
BY SeqnoAssumption DEF Plus, Seqnos

(* Diff undoes Plus, also across the wrap.                                 *)
LEMMA DiffPlus ==
  ASSUME NEW a \in Seqnos, NEW k \in Seqnos
  PROVE  Diff(Plus(a, k), a) = k
BY SeqnoAssumption, PlusCases DEF Diff, Seqnos

(* Going the distance to a seqno gets there.                              *)
LEMMA PlusDiff ==
  ASSUME NEW a \in Seqnos, NEW b \in Seqnos
  PROVE  Plus(a, Diff(b, a)) = b
BY SeqnoAssumption, PlusCases, DiffType DEF Diff, Seqnos

(* Two steps are one, however often they go around.                        *)
LEMMA PlusPlus ==
  ASSUME NEW a \in Seqnos, NEW j \in Nat, NEW k \in Nat
  PROVE  Plus(Plus(a, j), k) = Plus(a, j + k)
<1>1. SeqnoModulus \in Nat \ {0} /\ a + j \in Int
  BY SeqnoAssumption DEF Seqnos
<1>2. PICK q \in Int, r \in 0 .. SeqnoModulus - 1 :
        r = (a + j) % SeqnoModulus /\ a + j = SeqnoModulus * q + r
  BY <1>1, DivMod
<1>3. (r + k) + SeqnoModulus * q = a + (j + k) /\ r + k \in Int
  <2>1. PICK m \in Int : m = SeqnoModulus * q
    BY <1>1
  <2>2. r \in Int /\ a \in Int /\ a + j = m + r
    BY <1>1, <1>2, <2>1 DEF Seqnos
  <2>3. QED
    BY <2>1, <2>2
<1>4. (r + k) % SeqnoModulus = (a + (j + k)) % SeqnoModulus
  BY <1>1, <1>3, ModShift
<1>5. QED
  BY <1>2, <1>4 DEF Plus

(* A window of the ring never reaches around to itself.                   *)
LEMMA BuffersFit == MaxBuffers < SeqnoModulus /\ Offsets \subseteq Seqnos
BY SeqnoAssumption DEF Offsets, Seqnos

(* Every seqno has a slot.                                                *)
LEMMA SlotType ==
  ASSUME NEW a \in Seqnos
  PROVE  Slot(a) \in Slots
BY SeqnoAssumption DEF Slot, Slots, Seqnos

(* The wrap does not disturb the slots.                                    *)
LEMMA SlotPlus ==
  ASSUME NEW a \in Seqnos, NEW k \in 0 .. SeqnoModulus
  PROVE  Slot(Plus(a, k)) = (a + k) % MaxBuffers
<1>1. CASE a + k < SeqnoModulus
  BY <1>1, PlusCases DEF Slot
<1>2. CASE ~(a + k < SeqnoModulus)
  <2>1. PICK m \in Int : SeqnoModulus = MaxBuffers * m
    <3>1. /\ SeqnoModulus \in Int /\ MaxBuffers \in Nat \ {0}
          /\ SeqnoModulus % MaxBuffers = 0
      BY SeqnoAssumption
    <3>2. PICK q \in Int : SeqnoModulus = MaxBuffers * q + (SeqnoModulus % MaxBuffers)
      BY <3>1, DivMod
    <3>3. SeqnoModulus = MaxBuffers * q
      BY <3>1, <3>2
    <3>4. QED
      BY <3>3
  <2>2. a + k \in Int /\ -m \in Int /\ MaxBuffers * (-m) = -SeqnoModulus
    BY <2>1, SeqnoAssumption DEF Seqnos
  <2>3. Plus(a, k) = (a + k) + MaxBuffers * (-m)
    <3>1. Plus(a, k) = a + k - SeqnoModulus
      BY <1>2, PlusCases
    <3>2. a \in Int /\ k \in Int /\ SeqnoModulus \in Int
      BY SeqnoAssumption DEF Seqnos
    <3>3. QED
      BY <2>2, <3>1, <3>2
  <2>4. QED
    BY <2>2, <2>3, ModShift, SeqnoAssumption DEF Slot
<1>3. QED
  BY <1>1, <1>2

(* The first seqno beyond the window takes the slot of the window's first. *)
LEMMA SlotShift ==
  ASSUME NEW a \in Seqnos
  PROVE  Slot(Plus(a, MaxBuffers)) = Slot(a)
<1>1. Slot(Plus(a, MaxBuffers)) = (a + MaxBuffers) % MaxBuffers
  BY SlotPlus, BuffersFit, SeqnoAssumption
<1>2. a \in Int /\ MaxBuffers \in Nat \ {0} /\ 1 \in Int
  BY SeqnoAssumption DEF Seqnos
<1>3. (a + MaxBuffers * 1) % MaxBuffers = a % MaxBuffers
  BY <1>2, ModShift
<1>4. MaxBuffers * 1 = MaxBuffers
  BY <1>2
<1>5. QED
  BY <1>1, <1>3, <1>4 DEF Slot

(* Different seqnos of one window never share a slot.                      *)
LEMMA SlotInjective ==
  ASSUME NEW a \in Seqnos, NEW j \in Offsets, NEW k \in Offsets,
         Slot(Plus(a, j)) = Slot(Plus(a, k))
  PROVE  j = k
<1>1. /\ a \in Nat /\ j \in Nat /\ k \in Nat /\ MaxBuffers \in Nat \ {0}
      /\ j < MaxBuffers /\ k < MaxBuffers
      /\ j \in 0 .. SeqnoModulus /\ k \in 0 .. SeqnoModulus
  BY SeqnoAssumption, BuffersFit DEF Seqnos, Offsets
<1>2. (a + j) % MaxBuffers = (a + k) % MaxBuffers
  BY <1>1, SlotPlus
<1>3. PICK x \in Int, y \in Int : x = a + j /\ y = a + k
  BY <1>1
<1>4. PICK q \in Int, r \in 0 .. MaxBuffers - 1 : r = x % MaxBuffers /\ x = MaxBuffers * q + r
  BY <1>1, DivMod
<1>5. PICK p \in Int, s \in 0 .. MaxBuffers - 1 : s = y % MaxBuffers /\ y = MaxBuffers * p + s
  BY <1>1, DivMod
<1>6. r = s /\ r \in Int
  BY <1>1, <1>2, <1>3, <1>4, <1>5
<1>7. /\ j - k \in Int /\ -MaxBuffers < j - k /\ j - k < MaxBuffers
      /\ x - y = j - k
  BY <1>1, <1>3
<1>8. MaxBuffers * (q - p) = x - y
  BY <1>1, <1>4, <1>5, <1>6
<1>9. j - k = 0
  BY <1>1, <1>7, <1>8, RemainderGap
<1>10. QED
  BY <1>1, <1>9

-----------------------------------------------------------------------------
(* Frames and items.                                                       *)

(* A frame has the fields of the message it was cut from.                  *)
LEMMA FrameType ==
  ASSUME NEW f \in Frames
  PROVE  /\ f.session_id \in SessionIds
         /\ f.seqno \in Seqnos
         /\ f.fragment_max = FragmentMax[<<f.session_id, f.seqno>>]
         /\ f.fragment_max \in 0 .. MaxFragment
         /\ f.fragment \in 0 .. f.fragment_max
         /\ f.fragment \in Fragments(f.session_id, f.seqno)
         /\ f.fragment \in 0 .. MaxFragment
<1>1. PICK s \in SessionIds, q \in Seqnos : \E k \in Fragments(s, q) : f = Frame(s, q, k)
  BY DEF Frames
<1>2. FragmentMax[<<s, q>>] \in 0 .. MaxFragment
  BY PublisherAssumption
<1>3. MaxFragment \in Nat
  BY PublisherAssumption
<1>4. QED
  BY <1>1, <1>2, <1>3 DEF Frame, Fragments

(* A frame is as far from the seqno expected as a seqno can be.            *)
LEMMA DistanceType ==
  ASSUME NEW f \in Frames, next_seqno \in Seqnos
  PROVE  /\ Expected(f) \in Seqnos
         /\ Distance(f) \in Seqnos
         /\ Plus(Expected(f), Distance(f)) = f.seqno
         /\ f.session_id # session_id => Distance(f) = 0
<1>1. f.seqno \in Seqnos /\ Expected(f) \in Seqnos
  BY FrameType DEF Expected
<1>2. Distance(f) \in Seqnos /\ Plus(Expected(f), Distance(f)) = f.seqno
  BY <1>1, DiffType, PlusDiff DEF Distance
<1>3. ASSUME f.session_id # session_id
      PROVE  Distance(f) = 0
  BY <1>1, <1>3 DEF Distance, Expected, Diff, Seqnos
<1>4. QED
  BY <1>1, <1>2, <1>3

(* The items a ring is made of: typed, and with a correct count.           *)
CountedItem(item) == item \in Items /\ item.count = Cardinality(item.available)

(* The fields of a typed item.                                             *)
LEMMA ItemFields ==
  ASSUME NEW item \in Items
  PROVE  /\ item.ready \in BOOLEAN
         /\ item.count \in 0 .. MaxFragment + 1
         /\ item.available \subseteq 0 .. MaxFragment
         /\ item.payload \in [0 .. MaxFragment -> Tokens]
         /\ item.size \in 0 .. MaxFragment + 1
         /\ item.meta \in (SessionIds \X Seqnos) \union {<<>>}
BY DEF Items

(* A reset item counts no fragments.                                       *)
LEMMA EmptyItemCounted == CountedItem(EmptyItem)
<1>1. Cardinality({}) = 0
  BY FS_EmptySet
<1>2. QED
  BY <1>1, PublisherAssumption DEF CountedItem, EmptyItem, Items, Tokens

(* The number of fragments of a message.                                   *)
LEMMA FragmentCount ==
  ASSUME NEW m \in 0 .. MaxFragment
  PROVE  /\ IsFiniteSet(0 .. m)
         /\ Cardinality(0 .. m) = m + 1
<1>1. 0 \in Int /\ m \in Int /\ m >= 0
  BY PublisherAssumption
<1>2. QED
  BY <1>1, FS_Interval

(* A frame keeps an item typed and its count correct.                      *)
LEMMA ProcessedCounted ==
  ASSUME NEW f \in Frames, NEW item, CountedItem(item)
  PROVE  CountedItem(Processed(item, f))
<1>1. CASE f.fragment \in item.available
  BY <1>1 DEF Processed
<1>2. CASE f.fragment \notin item.available
  <2> DEFINE available == item.available \union {f.fragment}
  <2>1. item \in Items /\ item.count = Cardinality(item.available)
    BY DEF CountedItem
  <2>2. /\ MaxFragment \in Nat
        /\ f.fragment \in 0 .. MaxFragment
        /\ f.fragment + 1 \in 0 .. MaxFragment + 1
        /\ available \subseteq 0 .. MaxFragment
        /\ MaxFragment \in 0 .. MaxFragment
    <3>1. MaxFragment \in Nat /\ f.fragment \in 0 .. MaxFragment
      BY FrameType, PublisherAssumption
    <3>2. item.available \subseteq 0 .. MaxFragment
      BY <2>1, ItemFields
    <3>3. f.fragment + 1 \in 0 .. MaxFragment + 1 /\ MaxFragment \in 0 .. MaxFragment
      BY <3>1
    <3>4. QED
      BY <3>1, <3>2, <3>3
  <2>3. IsFiniteSet(available) /\ Cardinality(available) <= MaxFragment + 1
    BY <2>2, FragmentCount, FS_Subset
  <2>4. IsFiniteSet(item.available)
    BY <2>3, FS_Subset
  <2>5. Cardinality(available) = item.count + 1
    BY <1>2, <2>1, <2>4, FS_AddElement
  <2>6. item.count + 1 \in 0 .. MaxFragment + 1
    BY <2>1, <2>2, <2>3, <2>5, ItemFields
  <2>7. Bytes(f) \in Tokens /\ Meta(f) \in SessionIds \X Seqnos
    BY FrameType DEF Bytes, Meta, Tokens
  <2>8. [item.payload EXCEPT ![f.fragment] = Bytes(f)] \in [0 .. MaxFragment -> Tokens]
    BY <2>1, <2>7, ItemFields
  <2>9. (item.ready \/ Completes(item, f)) \in BOOLEAN
    BY <2>1, ItemFields DEF Completes
  <2>10. Processed(item, f).available = available /\ Processed(item, f).count = item.count + 1
    BY <1>2 DEF Processed
  <2>11. Processed(item, f) \in Items
    BY <1>2, <2>1, <2>2, <2>6, <2>7, <2>8, <2>9, ItemFields DEF Processed, Items
  <2>12. QED
    BY <2>5, <2>10, <2>11 DEF CountedItem
<1>3. QED
  BY <1>1, <1>2

(* The messages of a call: at most one from its frame, the rest from the   *)
(* ring.                                                                   *)
LEMMA Appended ==
  ASSUME NEW x, NEW head \in {<<>>, <<x>>}, NEW n \in Nat, NEW tail,
         DOMAIN tail = 1 .. n, tail = [i \in 1 .. n |-> tail[i]]
  PROVE  /\ Len(head) \in 0 .. 1
         /\ Len(head \o tail) = Len(head) + n
         /\ DOMAIN (head \o tail) = 1 .. Len(head) + n
         /\ \A i \in 1 .. Len(head) + n :
              (head \o tail)[i] = IF i <= Len(head) THEN x ELSE tail[i - Len(head)]
<1> DEFINE S == {x} \union {tail[i] : i \in 1 .. n}
<1>1. head \in Seq(S) /\ Len(head) \in 0 .. 1 /\ (Len(head) = 1 => head[1] = x)
  <2>1. CASE head = <<>>
    BY <2>1
  <2>2. CASE head = <<x>>
    BY <2>2
  <2>3. QED
    BY <2>1, <2>2
<1>2. tail \in Seq(S) /\ Len(tail) = n
  <2>1. \A i \in 1 .. n : tail[i] \in S
    OBVIOUS
  <2>2. tail \in [1 .. n -> S]
    BY <2>1
  <2> HIDE DEF S
  <2>3. QED
    BY <2>2
<1> HIDE DEF S
<1>3. head \o tail \in Seq(S) /\ Len(head \o tail) = Len(head) + n
  BY <1>1, <1>2
<1>4. DOMAIN (head \o tail) = 1 .. Len(head) + n
  BY <1>3
<1>5. ASSUME NEW i \in 1 .. Len(head) + n
      PROVE  (head \o tail)[i] = IF i <= Len(head) THEN x ELSE tail[i - Len(head)]
  BY <1>1, <1>2
<1>6. QED
  BY <1>1, <1>3, <1>4, <1>5

-----------------------------------------------------------------------------
(* Type correctness.                                                       *)

(* An item counts each fragment once, also when fragments of different     *)
(* sessions meet in it: this bounds count by the number of fragments.      *)
Counted == \A i \in Slots : assembly[i].count = Cardinality(assembly[i].available)

TypeInv == TypeOK /\ Counted

CountedRing(items) == items \in [Slots -> Items] /\ \A i \in Slots : CountedItem(items[i])

(* The ring after a frame was added to it.                                 *)
LEMMA WithFrameCounted ==
  ASSUME NEW f \in Frames, NEW items, CountedRing(items)
  PROVE  CountedRing(WithFrame(items, f))
<1>1. Slot(f.seqno) \in Slots
  BY FrameType, SlotType
<1>2. CountedItem(Processed(items[Slot(f.seqno)], f))
  BY <1>1, ProcessedCounted DEF CountedRing
<1>3. QED
  BY <1>1, <1>2 DEF CountedRing, WithFrame, CountedItem

(* A typed part of a ring, reset elsewhere, is a typed ring.               *)
LEMMA ResetCounted ==
  ASSUME NEW items, NEW kept \in SUBSET Slots, \A i \in kept : CountedItem(items[i])
  PROVE  CountedRing([i \in Slots |-> IF i \in kept THEN items[i] ELSE EmptyItem])
BY EmptyItemCounted DEF CountedRing, CountedItem

(* What is handed over has a typed header, and the next state is typed.    *)
TypedStep ==
  /\ next_seqno' \in Seqnos
  /\ CountedRing(assembly')
  /\ Len(dispatched') <= MaxBuffers + 1
  /\ \A i \in DOMAIN dispatched' :
       dispatched'[i].session_id \in SessionIds /\ dispatched'[i].seqno \in Seqnos

(* The loop keeps the types.                                               *)
LEMMA DrainTyped ==
  ASSUME NEW session \in SessionIds, NEW start \in Seqnos,
         NEW items, CountedRing(items),
         NEW x, x.session_id \in SessionIds, x.seqno \in Seqnos,
         NEW head \in {<<>>, <<x>>},
         Drain(session, start, items, head)
  PROVE  TypedStep
<1> DEFINE tail(n) == [i \in 1 .. n |-> ItemMessage(session, Plus(start, i - 1),
                                          items[Slot(Plus(start, i - 1))])]
           taken(n) == {i \in Slots : \E k \in 0 .. n - 1 : i = Slot(Plus(start, k))}
<1>1. PICK n \in 0 .. MaxBuffers :
        /\ next_seqno' = Plus(start, n)
        /\ assembly' = [i \in Slots |->
                          IF \E k \in 0 .. n - 1 : i = Slot(Plus(start, k))
                            THEN EmptyItem
                            ELSE items[i]]
        /\ dispatched' = head \o tail(n)
  BY DEF Drain
<1>2. n \in Nat /\ n <= MaxBuffers /\ MaxBuffers \in Nat
  BY SeqnoAssumption
<1>3. next_seqno' \in Seqnos
  BY <1>1, <1>2, PlusType
<1>4. CountedRing(assembly')
  <2>1. assembly' = [i \in Slots |-> IF i \in Slots \ taken(n) THEN items[i] ELSE EmptyItem]
    BY <1>1
  <2>2. \A i \in Slots \ taken(n) : CountedItem(items[i])
    BY DEF CountedRing
  <2> HIDE DEF taken
  <2>3. QED
    BY <2>1, <2>2, ResetCounted
<1>5. \A i \in 1 .. n : /\ tail(n)[i].session_id \in SessionIds
                        /\ tail(n)[i].seqno \in Seqnos
  BY <1>2, PlusType DEF ItemMessage
<1>6. DOMAIN tail(n) = 1 .. n /\ tail(n) = [i \in 1 .. n |-> tail(n)[i]]
  OBVIOUS
<1> HIDE DEF tail
<1>7. /\ Len(head) \in 0 .. 1
      /\ Len(dispatched') = Len(head) + n
      /\ DOMAIN dispatched' = 1 .. Len(head) + n
      /\ \A i \in 1 .. Len(head) + n :
           dispatched'[i] = IF i <= Len(head) THEN x ELSE tail(n)[i - Len(head)]
  BY <1>1, <1>2, <1>6, Appended
<1>8. Len(dispatched') <= MaxBuffers + 1
  <2>1. PICK l \in 0 .. 1 : Len(dispatched') = l + n
    BY <1>7
  <2>2. l + n <= MaxBuffers + 1
    BY <1>2
  <2>3. QED
    BY <2>1, <2>2
<1>9. ASSUME NEW i \in DOMAIN dispatched'
      PROVE  dispatched'[i].session_id \in SessionIds /\ dispatched'[i].seqno \in Seqnos
  <2>1. CASE i <= Len(head)
    BY <1>7, <2>1
  <2>2. CASE ~(i <= Len(head))
    <3>1. i - Len(head) \in 1 .. n
      BY <1>2, <1>7, <2>2
    <3>2. QED
      BY <1>5, <1>7, <2>2, <3>1
  <2>3. QED
    BY <2>1, <2>2
<1>10. QED
  BY <1>3, <1>4, <1>8, <1>9 DEF TypedStep

(* Handing over nothing keeps the types.                                   *)
LEMMA KeepTyped ==
  ASSUME NEW seqno \in Seqnos, NEW items, CountedRing(items), Keep(seqno, items)
  PROVE  TypedStep
<1>1. Len(<<>>) = 0 /\ DOMAIN <<>> = {}
  OBVIOUS
<1>2. QED
  BY <1>1, SeqnoAssumption DEF Keep, TypedStep

(* Every frame keeps the types, whatever sessions it and the items are of. *)
LEMMA ReceiveTyped ==
  ASSUME TypeInv, NEW f \in Frames, Receive(f)
  PROVE  TypeInv'
<1>1. /\ next_seqno \in Seqnos
      /\ terminated \in BOOLEAN
      /\ CountedRing(assembly)
  BY DEF TypeInv, TypeOK, Counted, CountedRing, CountedItem
<1>2. f.session_id \in SessionIds /\ f.seqno \in Seqnos /\ Expected(f) \in Seqnos
  BY <1>1, FrameType, DistanceType
<1>3. CountedRing(WithFrame(assembly, f))
  BY <1>1, WithFrameCounted
<1>4. \A k \in Nat : Plus(f.seqno, k) \in Seqnos /\ Plus(next_seqno, k) \in Seqnos
  BY <1>1, <1>2, PlusType
<1>5. /\ FrameMessage(f).session_id \in SessionIds
      /\ FrameMessage(f).seqno \in Seqnos
  BY <1>2 DEF FrameMessage
<1>6. TypedStep /\ terminated' \in BOOLEAN
  <2>1. CASE Replay(f)
    BY <1>1, <1>2, <2>1, KeepTyped DEF Replay
  <2>2. CASE Simple(f)
    <3>1. /\ Drain(f.session_id, Plus(f.seqno, 1), assembly, <<FrameMessage(f)>>)
          /\ terminated' = terminated
      BY <2>2 DEF Simple
    <3>2. <<FrameMessage(f)>> \in {<<>>, <<FrameMessage(f)>>} /\ Plus(f.seqno, 1) \in Seqnos
      BY <1>4
    <3>3. TypedStep
      BY <1>1, <1>2, <1>5, <3>1, <3>2, DrainTyped
    <3>4. QED
      BY <1>1, <3>1, <3>3
  <2>3. CASE Store(f)
    BY <1>1, <1>2, <1>3, <2>3, KeepTyped DEF Store
  <2>4. ASSUME NEW start \in Seqnos, NEW items, CountedRing(items),
               Drain(f.session_id, start, items, <<>>)
        PROVE  TypedStep
    <3>1. <<>> \in {<<>>, <<FrameMessage(f)>>}
      OBVIOUS
    <3>2. QED
      BY <1>2, <1>5, <2>4, <3>1, DrainTyped
  <2>5. CASE Complete(f)
    BY <1>1, <1>2, <1>3, <2>4, <2>5 DEF Complete
  <2>6. CASE Overflow(f)
    <3>1. PICK first \in 0 .. MaxBuffers :
            IF first = 0
              THEN /\ Keep(next_seqno, assembly)
                   /\ terminated' = TRUE
              ELSE /\ Drain(f.session_id, Plus(next_seqno, first),
                            WithFrame([i \in Slots |->
                              IF \E j \in first .. MaxBuffers - 1 :
                                   i = Slot(Plus(next_seqno, j))
                                THEN assembly[i]
                                ELSE EmptyItem], f), <<>>)
                   /\ UNCHANGED terminated
      BY <2>6 DEF Overflow
    <3>2. CASE first = 0
      BY <1>1, <3>1, <3>2, KeepTyped
    <3>3. CASE first # 0
      <4> DEFINE kept == {i \in Slots : \E j \in first .. MaxBuffers - 1 :
                                           i = Slot(Plus(next_seqno, j))}
                 items == [i \in Slots |-> IF i \in kept THEN assembly[i] ELSE EmptyItem]
      <4>1. /\ Drain(f.session_id, Plus(next_seqno, first), WithFrame(items, f), <<>>)
            /\ terminated' = terminated
        <5>1. items = [i \in Slots |-> IF \E j \in first .. MaxBuffers - 1 :
                                             i = Slot(Plus(next_seqno, j))
                                          THEN assembly[i]
                                          ELSE EmptyItem]
          OBVIOUS
        <5> HIDE DEF items, kept
        <5>2. QED
          BY <3>1, <3>3, <5>1
      <4>2. CountedRing(items)
        <5>1. kept \in SUBSET Slots /\ \A i \in kept : CountedItem(assembly[i])
          BY <1>1 DEF CountedRing
        <5> HIDE DEF kept
        <5>2. QED
          BY <5>1, ResetCounted
      <4>3. Plus(next_seqno, first) \in Seqnos
        BY <1>4
      <4> HIDE DEF items
      <4>4. CountedRing(WithFrame(items, f))
        BY <4>2, WithFrameCounted
      <4>5. QED
        BY <1>1, <2>4, <4>1, <4>3, <4>4
    <3>4. QED
      BY <3>2, <3>3
  <2>7. CASE Gap(f)
    <3> DEFINE items == WithFrame([i \in Slots |-> EmptyItem], f)
    <3>1. CountedRing([i \in Slots |-> EmptyItem])
      BY EmptyItemCounted DEF CountedRing, CountedItem
    <3>2. CountedRing(items)
      BY <3>1, WithFrameCounted
    <3>3. \/ Drain(f.session_id, f.seqno, items, <<>>)
          \/ Keep(f.seqno, items)
      BY <2>7 DEF Gap
    <3>4. terminated' = terminated
      BY <2>7 DEF Gap
    <3> HIDE DEF items
    <3>5. QED
      BY <1>1, <1>2, <2>4, <3>2, <3>3, <3>4, KeepTyped
  <2>8. QED
    BY <2>1, <2>2, <2>3, <2>5, <2>6, <2>7 DEF Receive
<1>7. session_id' \in SessionIds \union {0}
  BY <1>2 DEF Receive
<1>8. QED
  BY <1>6, <1>7 DEF TypedStep, TypeInv, TypeOK, Counted, CountedRing, CountedItem

(* The initial state is typed.                                             *)
LEMMA TypeInit ==
  ASSUME Init
  PROVE  TypeInv
<1>1. 0 \in Seqnos /\ MaxBuffers \in Nat
  BY SeqnoAssumption DEF Seqnos
<1>2. Len(<<>>) = 0 /\ DOMAIN <<>> = {}
  OBVIOUS
<1>3. assembly \in [Slots -> Items] /\ Counted
  BY EmptyItemCounted DEF Init, Counted, CountedItem
<1>4. /\ Len(dispatched) <= MaxBuffers + 1
      /\ \A i \in DOMAIN dispatched :
           dispatched[i].session_id \in SessionIds /\ dispatched[i].seqno \in Seqnos
  BY <1>1, <1>2 DEF Init
<1>5. QED
  BY <1>1,  <1>3, <1>4 DEF Init, TypeInv, TypeOK

(* The types hold in every reachable state, for every number of sessions:  *)
(* in particular no item ever counts more fragments than a message has,    *)
(* however often frames are repeated and whatever messages they are of.    *)
THEOREM TypeCorrect == Spec => [](TypeOK /\ Counted)
<1>1. Init => TypeInv
  BY TypeInit
<1>2. TypeInv /\ [Next]_vars => TypeInv'
  <2>1. ASSUME TypeInv, UNCHANGED vars
        PROVE  TypeInv'
    BY <2>1 DEF vars, TypeInv, TypeOK, Counted
  <2>2. QED
    BY <2>1, ReceiveTyped DEF Next
<1>3. TypeInv => TypeOK /\ Counted
  BY DEF TypeInv
<1>4. QED
  BY <1>1, <1>2, <1>3, PTL DEF Spec

(* Also with any number of sessions whose fragments meet in one slot, an   *)
(* item counts a fragment once, however often it arrives.                  *)
THEOREM CountsHold == Spec => []Counted
<1>1. QED
  BY TypeCorrect, PTL

-----------------------------------------------------------------------------
(* Buffer implements MessageStream, for every number of sessions: within a *)
(* session, the headers handed over are consecutive, never go back, and    *)
(* skip something only when a whole window has passed.                     *)

(* The step handed over length consecutive headers and expects the next.   *)
RunStep(session, start, length) ==
  /\ next_seqno' = Plus(start, length)
  /\ Len(dispatched') = length
  /\ DOMAIN dispatched' = 1 .. length
  /\ Headers' = [i \in 1 .. length |->
                   [session_id |-> session, seqno |-> Plus(start, i - 1)]]

(* The header of what is at a place of the call.                           *)
LEMMA HeadersOf ==
  ASSUME NEW session, NEW start, NEW length \in Nat,
         DOMAIN dispatched' = 1 .. length, Len(dispatched') = length,
         next_seqno' = Plus(start, length),
         \A i \in 1 .. length : /\ dispatched'[i].session_id = session
                                /\ dispatched'[i].seqno = Plus(start, i - 1)
  PROVE  RunStep(session, start, length)
BY DEF RunStep, Headers

(* Handing over nothing is a run of length 0.                              *)
LEMMA KeepRun ==
  ASSUME NEW session, NEW seqno \in Seqnos, NEW items, Keep(seqno, items)
  PROVE  RunStep(session, seqno, 0)
<1>1. DOMAIN <<>> = 1 .. 0 /\ Len(<<>>) = 0
  OBVIOUS
<1>2. Plus(seqno, 0) = seqno
  BY PlusCases, SeqnoAssumption DEF Seqnos
<1>3. QED
  BY <1>1, <1>2, HeadersOf DEF Keep

(* The loop hands over the run of ready items from start, until the first  *)
(* item that is not ready.                                                 *)
LEMMA DrainRun ==
  ASSUME NEW session, NEW start \in Seqnos, NEW items, Drain(session, start, items, <<>>)
  PROVE  \E n \in 0 .. MaxBuffers :
           /\ n < MaxBuffers => ~items[Slot(Plus(start, n))].ready
           /\ RunStep(session, start, n)
<1> DEFINE tail(n) == [i \in 1 .. n |-> ItemMessage(session, Plus(start, i - 1),
                                          items[Slot(Plus(start, i - 1))])]
<1>1. PICK n \in 0 .. MaxBuffers :
        /\ n < MaxBuffers => ~items[Slot(Plus(start, n))].ready
        /\ next_seqno' = Plus(start, n)
        /\ dispatched' = <<>> \o tail(n)
  BY DEF Drain
<1>2. n \in Nat /\ DOMAIN tail(n) = 1 .. n /\ tail(n) = [i \in 1 .. n |-> tail(n)[i]]
  BY SeqnoAssumption
<1>3. \A i \in 1 .. n : /\ tail(n)[i].session_id = session
                        /\ tail(n)[i].seqno = Plus(start, i - 1)
  BY DEF ItemMessage
<1> HIDE DEF tail
<1>4. Len(<<>>) = 0 /\ <<>> \in {<<>>, <<0>>}
  OBVIOUS
<1>5. /\ Len(dispatched') = n
      /\ DOMAIN dispatched' = 1 .. n
      /\ \A i \in 1 .. n : dispatched'[i] = tail(n)[i]
  BY <1>1, <1>2, <1>4, Appended
<1>6. RunStep(session, start, n)
  BY <1>1, <1>2, <1>3, <1>5, HeadersOf
<1>7. QED
  BY <1>1, <1>6

(* A message handed over directly is the first of the run the loop goes on *)
(* with.                                                                   *)
LEMMA SimpleRun ==
  ASSUME NEW f \in Frames, Simple(f)
  PROVE  \E length \in 0 .. MaxBuffers + 1 : RunStep(f.session_id, f.seqno, length)
<1> DEFINE start == Plus(f.seqno, 1)
           tail(n) == [i \in 1 .. n |-> ItemMessage(f.session_id, Plus(start, i - 1),
                                          assembly[Slot(Plus(start, i - 1))])]
<1>1. PICK n \in 0 .. MaxBuffers :
        /\ next_seqno' = Plus(start, n)
        /\ dispatched' = <<FrameMessage(f)>> \o tail(n)
  BY DEF Simple, Drain
<1>2. n \in Nat /\ DOMAIN tail(n) = 1 .. n /\ tail(n) = [i \in 1 .. n |-> tail(n)[i]]
  BY SeqnoAssumption
<1>3. \A i \in 1 .. n : /\ tail(n)[i].session_id = f.session_id
                        /\ tail(n)[i].seqno = Plus(start, i - 1)
  BY DEF ItemMessage
<1> HIDE DEF tail
<1>4. f.seqno \in Seqnos /\ Plus(f.seqno, 0) = f.seqno
  <2>1. f.seqno \in Seqnos
    BY FrameType
  <2>2. QED
    BY <2>1, PlusCases, SeqnoAssumption DEF Seqnos
<1>5. PICK x : x = FrameMessage(f)
  OBVIOUS
<1>6. Len(<<x>>) = 1 /\ <<x>> \in {<<>>, <<x>>}
  OBVIOUS
<1>7. /\ Len(dispatched') = 1 + n
      /\ DOMAIN dispatched' = 1 .. 1 + n
      /\ \A i \in 1 .. 1 + n : dispatched'[i] = IF i <= 1 THEN x ELSE tail(n)[i - 1]
  BY <1>1, <1>2, <1>5, <1>6, Appended
<1>8. \A j \in 0 .. n : Plus(start, j) = Plus(f.seqno, 1 + j)
  <2>1. /\ MaxBuffers \in Nat /\ n <= MaxBuffers /\ SeqnoModulus \in Nat
        /\ 1 + MaxBuffers <= SeqnoModulus
    BY SeqnoAssumption, BuffersFit
  <2>2. \A j \in 0 .. n : j \in Nat /\ 1 + j <= SeqnoModulus
    BY <1>2, <2>1
  <2>3. QED
    BY <1>4, <2>2, PlusPlus
<1>9. ASSUME NEW i \in 1 .. 1 + n
      PROVE  /\ dispatched'[i].session_id = f.session_id
             /\ dispatched'[i].seqno = Plus(f.seqno, i - 1)
  <2>1. CASE i = 1
    BY <1>4, <1>5, <1>7, <2>1 DEF FrameMessage
  <2>2. CASE i # 1
    <3>1. i - 1 \in 1 .. n /\ i - 2 \in 0 .. n /\ 1 + (i - 2) = i - 1 /\ (i - 1) - 1 = i - 2
          /\ ~(i <= 1)
      BY <1>2, <2>2
    <3>2. dispatched'[i] = tail(n)[i - 1]
      BY <1>7, <3>1
    <3>3. Plus(start, (i - 1) - 1) = Plus(f.seqno, i - 1)
      BY <1>8, <3>1
    <3> HIDE DEF start
    <3>4. QED
      BY <1>3, <3>1, <3>2, <3>3
  <2>3. QED
    BY <2>1, <2>2
<1>10. next_seqno' = Plus(f.seqno, 1 + n) /\ 1 + n \in Nat /\ 1 + n \in 0 .. MaxBuffers + 1
  <2>1. n \in 0 .. n
    BY <1>2
  <2>2. QED
    BY <1>1, <1>2, <1>8, <2>1, SeqnoAssumption
<1>11. RunStep(f.session_id, f.seqno, 1 + n)
  BY <1>7, <1>9, <1>10, HeadersOf
<1>12. QED
  BY <1>10, <1>11

-----------------------------------------------------------------------------
(* Runs as steps of MessageStream.                                         *)

(* A run of the session that continues from next_seqno.                    *)
LEMMA RunContinues ==
  ASSUME NEW length \in 0 .. MaxBuffers + 1, session_id' = session_id,
         RunStep(session_id, next_seqno, length)
  PROVE  Stream!Next
BY DEF RunStep, Stream!Next, Stream!Continue, Stream!HandOver, Stream!Run,
       Stream!Plus, Plus

(* A run of another session.                                               *)
LEMMA RunChangesSession ==
  ASSUME NEW session \in SessionIds, session # session_id, session_id' = session,
         NEW start \in Seqnos, NEW length \in 0 .. MaxBuffers + 1,
         RunStep(session, start, length)
  PROVE  Stream!Next
BY DEF RunStep, Stream!Next, Stream!NewSession, Stream!HandOver, Stream!Run,
       Stream!Plus, Plus, Stream!Seqnos, Seqnos

(* A run further on: it may begin up to the threshold of a replay, and it  *)
(* ends a whole window after next_seqno or later.                          *)
LEMMA RunSkips ==
  ASSUME next_seqno \in Seqnos, session_id' = session_id,
         NEW d \in Nat, d <= Threshold, NEW length \in 0 .. MaxBuffers,
         d + length >= MaxBuffers,
         RunStep(session_id, Plus(next_seqno, d), length)
  PROVE  Stream!Next
<1> DEFINE start == Plus(next_seqno, d)
<1>1. /\ SeqnoModulus \in Nat /\ MaxBuffers \in Nat /\ length \in Nat
      /\ length <= MaxBuffers
      /\ d + length < SeqnoModulus
      /\ d \in Seqnos /\ d + length \in Seqnos
  BY SeqnoAssumption DEF Threshold, Seqnos
<1>2. start \in Seqnos /\ Diff(start, next_seqno) = d
  BY <1>1, PlusType, DiffPlus
<1>3. ~IsReplay(start, next_seqno)
  <2>1. Threshold \in Int
    BY SeqnoAssumption DEF Threshold
  <2>2. QED
    BY <1>2, <2>1 DEF IsReplay
<1>4. next_seqno' = Plus(next_seqno, d + length)
  BY <1>1, PlusPlus DEF RunStep
<1>5. Diff(next_seqno', next_seqno) >= MaxBuffers
  BY <1>1, <1>4, DiffPlus
<1>6. Stream!HandOver(session_id, start, length)
  BY DEF RunStep, Stream!HandOver, Stream!Run, Stream!Plus, Plus
<1> HIDE DEF start
<1>7. Stream!Skip
  BY <1>2, <1>3, <1>5, <1>6
  DEF Stream!Skip, Stream!IsReplay, IsReplay, Stream!Diff, Diff,
      Stream!Threshold, Threshold, Stream!Seqnos, Seqnos
<1>8. QED
  BY <1>7 DEF Stream!Next

(* A frame never takes the readiness of an item away.                      *)
LEMMA WithFrameReady ==
  ASSUME NEW f \in Frames, NEW items, DOMAIN items = Slots, NEW slot \in Slots,
         items[slot].ready
  PROVE  WithFrame(items, f)[slot].ready
<1>1. Slot(f.seqno) \in Slots
  BY FrameType, SlotType
<1>2. Processed(items[Slot(f.seqno)], f).ready \/ slot # Slot(f.seqno)
  BY DEF Processed
<1>3. QED
  BY <1>1, <1>2 DEF WithFrame

(* Every call is a step of MessageStream.                                  *)
LEMMA ReceiveImplements ==
  ASSUME TypeInv, NEW f \in Frames, Receive(f)
  PROVE  Stream!Next
<1>1. /\ next_seqno \in Seqnos
      /\ DOMAIN assembly = Slots
      /\ f.session_id \in SessionIds /\ f.seqno \in Seqnos
      /\ session_id' = f.session_id
      /\ Distance(f) \in Seqnos
      /\ Plus(Expected(f), Distance(f)) = f.seqno
      /\ f.session_id # session_id => Distance(f) = 0
  BY FrameType, DistanceType DEF TypeInv, TypeOK, Receive
<1>2. /\ MaxBuffers \in Nat \ {0} /\ SeqnoModulus \in Nat
      /\ 0 .. MaxBuffers \subseteq 0 .. MaxBuffers + 1
      /\ 0 \in 0 .. MaxBuffers
      /\ Threshold \in Nat /\ MaxBuffers <= Threshold
  BY SeqnoAssumption DEF Threshold
<1>3. ASSUME NEW length \in 0 .. MaxBuffers + 1, RunStep(f.session_id, Expected(f), length)
      PROVE  Stream!Next
  <2>1. CASE f.session_id = session_id
    <3>1. Expected(f) = next_seqno
      BY <2>1 DEF Expected
    <3>2. QED
      BY <1>1, <1>3, <2>1, <3>1, RunContinues
  <2>2. CASE f.session_id # session_id
    <3>1. Expected(f) = f.seqno
      BY <2>2 DEF Expected
    <3>2. QED
      BY <1>1, <1>3, <2>2, <3>1, RunChangesSession
  <2>3. QED
    BY <2>1, <2>2
<1>4. Expected(f) \in Seqnos
  BY <1>1 DEF Expected
<1>5. Distance(f) = 0 => Expected(f) = f.seqno
  BY <1>1, <1>4, PlusCases, <1>2 DEF Seqnos
<1>6. CASE Replay(f)
  BY <1>2, <1>3, <1>4, <1>6, KeepRun DEF Replay
<1>7. CASE Simple(f)
  <2>1. Expected(f) = f.seqno
    BY <1>5, <1>7 DEF Simple, IsSimple
  <2>2. QED
    BY <1>3, <1>7, <2>1, SimpleRun
<1>8. CASE Store(f)
  BY <1>2, <1>3, <1>4, <1>8, KeepRun DEF Store
<1>9. CASE Complete(f)
  <2>1. Expected(f) = f.seqno
    BY <1>5, <1>9 DEF Complete, CompletesNext
  <2>2. Drain(f.session_id, f.seqno, WithFrame(assembly, f), <<>>)
    BY <1>9 DEF Complete
  <2>3. \E n \in 0 .. MaxBuffers : RunStep(f.session_id, f.seqno, n)
    BY <1>1, <2>2, DrainRun
  <2>4. QED
    BY <1>2, <1>3, <2>1, <2>3
<1>10. CASE Overflow(f)
  <2>1. Distance(f) = MaxBuffers
    BY <1>10 DEF Overflow
  <2>2. f.session_id = session_id /\ Expected(f) = next_seqno
    BY <1>1, <1>2, <2>1 DEF Expected
  <2>3. PICK first \in 0 .. MaxBuffers :
          /\ ReadyFrom(first)
          /\ IF first = 0
               THEN Keep(next_seqno, assembly)
               ELSE Drain(f.session_id, Plus(next_seqno, first),
                          WithFrame([i \in Slots |->
                            IF \E j \in first .. MaxBuffers - 1 :
                                 i = Slot(Plus(next_seqno, j))
                              THEN assembly[i]
                              ELSE EmptyItem], f), <<>>)
    BY <1>10 DEF Overflow
  <2>4. CASE first = 0
    BY <1>1, <1>2, <1>3, <2>2, <2>3, <2>4, KeepRun
  <2>5. CASE first # 0
    <3> DEFINE items == [i \in Slots |->
                           IF \E j \in first .. MaxBuffers - 1 :
                                i = Slot(Plus(next_seqno, j))
                             THEN assembly[i]
                             ELSE EmptyItem]
    <3>1. first \in Nat /\ first <= MaxBuffers /\ Plus(next_seqno, first) \in Seqnos
      BY <1>1, <1>2, PlusType
    <3>2. Drain(f.session_id, Plus(next_seqno, first), WithFrame(items, f), <<>>)
      BY <2>3, <2>5
    <3>3. ASSUME NEW j \in first .. MaxBuffers - 1
          PROVE  items[Slot(Plus(next_seqno, j))].ready
      <4>1. Slot(Plus(next_seqno, j)) \in Slots
        BY <1>1, <3>1, PlusType, SlotType
      <4>2. QED
        BY <2>3, <4>1 DEF ReadyFrom
    <3>4. DOMAIN items = Slots
      OBVIOUS
    <3> HIDE DEF items
    <3>5. PICK n \in 0 .. MaxBuffers :
            /\ n < MaxBuffers =>
                 ~WithFrame(items, f)[Slot(Plus(Plus(next_seqno, first), n))].ready
            /\ RunStep(f.session_id, Plus(next_seqno, first), n)
      BY <3>1, <3>2, DrainRun
    <3>6. first + n >= MaxBuffers
      <4>1. SUFFICES ASSUME first + n < MaxBuffers
                     PROVE  FALSE
        BY <1>2, <3>1
      <4>2. first + n \in first .. MaxBuffers - 1 /\ first + n \in Nat /\ n < MaxBuffers
            /\ first + n <= SeqnoModulus
        BY <1>2, <3>1, <4>1, BuffersFit
      <4>3. Plus(Plus(next_seqno, first), n) = Plus(next_seqno, first + n)
        BY <1>1, <3>1, <4>2, PlusPlus
      <4>4. Slot(Plus(next_seqno, first + n)) \in Slots
        BY <1>1, <4>2, PlusType, SlotType
      <4>5. WithFrame(items, f)[Slot(Plus(next_seqno, first + n))].ready
        BY <3>3, <3>4, <4>2, <4>4, WithFrameReady
      <4>6. QED
        BY <3>5, <4>2, <4>3, <4>5
    <3>7. first <= Threshold
      BY <1>2, <3>1
    <3>8. QED
      BY <1>1, <2>2, <3>1, <3>5, <3>6, <3>7, RunSkips
  <2>6. QED
    BY <2>4, <2>5
<1>11. CASE Gap(f)
  <2>1. Distance(f) > MaxBuffers /\ Distance(f) <= Threshold
    BY <1>11 DEF Gap
  <2>2. /\ f.session_id = session_id
        /\ f.seqno = Plus(next_seqno, Distance(f))
        /\ Distance(f) \in Nat
    BY <1>1, <1>2, <2>1 DEF Expected, Seqnos
  <2>3. \E n \in 0 .. MaxBuffers : RunStep(session_id, f.seqno, n)
    <3> DEFINE items == WithFrame([i \in Slots |-> EmptyItem], f)
    <3>1. \/ Drain(f.session_id, f.seqno, items, <<>>)
          \/ Keep(f.seqno, items)
      BY <1>11 DEF Gap
    <3> HIDE DEF items
    <3>2. QED
      BY <1>1, <1>2, <2>2, <3>1, DrainRun, KeepRun
  <2>4. PICK n \in 0 .. MaxBuffers : RunStep(session_id, f.seqno, n)
    BY <2>3
  <2>5. Distance(f) + n >= MaxBuffers
    BY <1>2, <2>1, <2>2
  <2>6. QED
    BY <1>1, <2>1, <2>2, <2>4, <2>5, RunSkips
<1>12. QED
  BY <1>6, <1>7, <1>8, <1>9, <1>10, <1>11 DEF Receive

(* For every number of sessions, the headers handed over are those of a    *)
(* MessageStream: no seqno of a session is handed over twice or out of     *)
(* order until another session was heard, whatever the network does.       *)
THEOREM ImplementsStream == Spec => ImplementsMessageStream
<1>1. Init => Stream!Init
  <2>1. ASSUME Init
        PROVE  Headers = <<>>
    <3>1. dispatched = <<>> /\ Len(<<>>) = 0
      BY <2>1 DEF Init
    <3>2. QED
      BY <3>1 DEF Headers
  <2>2. QED
    BY <2>1 DEF Init, Stream!Init
<1>2. TypeInv /\ [Next]_vars => [Stream!Next]_Stream!vars
  <2>1. ASSUME UNCHANGED vars
        PROVE  UNCHANGED Stream!vars
    BY <2>1 DEF vars, Stream!vars, Headers
  <2>2. QED
    BY <2>1, ReceiveImplements DEF Next
<1>3. Spec => []TypeInv
  <2>1. TypeOK /\ Counted => TypeInv
    BY DEF TypeInv
  <2>2. QED
    BY <2>1, TypeCorrect, PTL
<1>4. QED
  BY <1>1, <1>2, <1>3, PTL DEF Spec, ImplementsMessageStream, Stream!Spec

-----------------------------------------------------------------------------
(* What a frame just beyond the window gives up.                           *)

(* A run of this length that ended at next_seqno' began at start.          *)
LEMMA RunStartOf ==
  ASSUME NEW session, NEW start \in Seqnos, NEW length \in 0 .. MaxBuffers + 1,
         RunStep(session, start, length)
  PROVE  RunStart = start
<1>1. length \in Seqnos /\ length \in 0 .. SeqnoModulus
  BY BuffersFit, SeqnoAssumption DEF Seqnos
<1>2. Diff(Plus(start, length), length) = start
  BY <1>1, PlusCases, SeqnoAssumption DEF Diff, Seqnos
<1>3. QED
  BY <1>2 DEF RunStep, RunStart

(* A frame of the session hands over a run that begins no later than the   *)
(* complete messages at the end of the window, unless it is beyond it.     *)
LEMMA SuffixKept ==
  ASSUME TypeInv, NEW f \in Frames, Receive(f), session_id' = session_id,
         Diff(RunStart, next_seqno) <= MaxBuffers, NEW k \in Offsets, ReadyFrom(k)
  PROVE  Diff(RunStart, next_seqno) <= k
<1>1. /\ next_seqno \in Seqnos
      /\ f.session_id = session_id /\ f.seqno \in Seqnos
      /\ Expected(f) = next_seqno
      /\ Distance(f) \in Seqnos
      /\ Plus(next_seqno, Distance(f)) = f.seqno
  BY FrameType, DistanceType DEF TypeInv, TypeOK, Receive, Expected
<1>2. /\ MaxBuffers \in Nat \ {0} /\ SeqnoModulus \in Nat
      /\ 0 \in 0 .. MaxBuffers + 1
      /\ k \in Nat /\ k < MaxBuffers
      /\ 0 .. MaxBuffers \subseteq 0 .. MaxBuffers + 1
  BY SeqnoAssumption DEF Offsets
<1>3. Diff(next_seqno, next_seqno) = 0 /\ Plus(next_seqno, 0) = next_seqno
  BY <1>1, <1>2, PlusCases DEF Diff, Seqnos
<1>4. ASSUME NEW session, NEW length \in 0 .. MaxBuffers + 1,
             RunStep(session, next_seqno, length)
      PROVE  Diff(RunStart, next_seqno) <= k
  BY <1>1, <1>2, <1>3, <1>4, RunStartOf
<1>5. Distance(f) = 0 => f.seqno = next_seqno
  BY <1>1, <1>3
<1>6. CASE Replay(f) \/ Store(f)
  BY <1>1, <1>2, <1>4, <1>6, KeepRun DEF Replay, Store
<1>7. CASE Simple(f)
  BY <1>4, <1>5, <1>7, SimpleRun DEF Simple, IsSimple
<1>8. CASE Complete(f)
  <2>1. f.seqno = next_seqno /\ Drain(f.session_id, next_seqno, WithFrame(assembly, f), <<>>)
    BY <1>5, <1>8 DEF Complete, CompletesNext
  <2>2. \E n \in 0 .. MaxBuffers : RunStep(f.session_id, next_seqno, n)
    BY <1>1, <2>1, DrainRun
  <2>3. QED
    BY <1>2, <1>4, <2>2
<1>9. CASE Overflow(f)
  <2> DEFINE items(first) == [i \in Slots |->
                                IF \E j \in first .. MaxBuffers - 1 :
                                     i = Slot(Plus(next_seqno, j))
                                  THEN assembly[i]
                                  ELSE EmptyItem]
  <2>1. PICK first \in 0 .. MaxBuffers :
          /\ first > 0 => ~assembly[Slot(Plus(next_seqno, first - 1))].ready
          /\ IF first = 0
               THEN Keep(next_seqno, assembly)
               ELSE Drain(f.session_id, Plus(next_seqno, first),
                          WithFrame(items(first), f), <<>>)
    BY <1>9 DEF Overflow
  <2> HIDE DEF items
  <2>2. CASE first = 0
    BY <1>1, <1>2, <1>4, <2>1, <2>2, KeepRun
  <2>3. CASE first # 0
    <3>1. /\ first \in Nat /\ first <= MaxBuffers /\ first > 0
          /\ first \in Seqnos /\ Plus(next_seqno, first) \in Seqnos
      <4>1. first \in Nat /\ first <= MaxBuffers /\ first > 0
        BY <1>2, <2>3
      <4>2. first \in Seqnos
        BY <1>2, <4>1, BuffersFit DEF Seqnos
      <4>3. QED
        BY <1>1, <4>1, <4>2, PlusType
    <3>2. PICK n \in 0 .. MaxBuffers : RunStep(f.session_id, Plus(next_seqno, first), n)
      BY <2>1, <2>3, <3>1, DrainRun
    <3>3. Diff(RunStart, next_seqno) = first
      BY <1>1, <1>2, <3>1, <3>2, RunStartOf, DiffPlus
    <3>4. first <= k
      <4>1. SUFFICES ASSUME k < first
                     PROVE  FALSE
        BY <1>2, <3>1
      <4>2. first - 1 \in k .. MaxBuffers - 1
        BY <1>2, <3>1, <4>1
      <4>3. QED
        BY <2>1, <3>1, <4>2 DEF ReadyFrom
    <3>5. QED
      BY <3>3, <3>4
  <2>4. QED
    BY <2>2, <2>3
<1>10. CASE Gap(f)
  <2>1. Distance(f) > MaxBuffers
    BY <1>10 DEF Gap
  <2>2. \E n \in 0 .. MaxBuffers : RunStep(f.session_id, f.seqno, n)
    <3> DEFINE items == WithFrame([i \in Slots |-> EmptyItem], f)
    <3>1. \/ Drain(f.session_id, f.seqno, items, <<>>)
          \/ Keep(f.seqno, items)
      BY <1>10 DEF Gap
    <3> HIDE DEF items
    <3>2. QED
      BY <1>1, <1>2, <3>1, DrainRun, KeepRun
  <2>3. RunStart = f.seqno
    BY <1>1, <1>2, <2>2, RunStartOf
  <2>4. Diff(RunStart, next_seqno) = Distance(f)
    BY <1>1, <2>3, DiffPlus
  <2>5. QED
    BY <1>1, <1>2, <2>1, <2>4 DEF Seqnos
<1>11. QED
  BY <1>6, <1>7, <1>8, <1>9, <1>10 DEF Receive

(* For every number of sessions: a message that is complete, with only     *)
(* complete ones after it in the window, is never given up with what is    *)
(* missing before it.                                                      *)
THEOREM SuffixIsKept == Spec => CompleteSuffixKept
<1>1. TypeInv /\ [Next]_vars =>
        [session_id' = session_id /\ Diff(RunStart, next_seqno) <= MaxBuffers =>
           \A k \in Offsets : ReadyFrom(k) => Diff(RunStart, next_seqno) <= k]_vars
  BY SuffixKept DEF Next
<1>2. Spec => []TypeInv
  <2>1. TypeOK /\ Counted => TypeInv
    BY DEF TypeInv
  <2>2. QED
    BY <2>1, TypeCorrect, PTL
<1>3. QED
  BY <1>1, <1>2, PTL DEF Spec, CompleteSuffixKept

-----------------------------------------------------------------------------
(* The window.                                                             *)

(* All frames are of one session.                                          *)
OneSession == \A s, t \in SessionIds : s = t

-----------------------------------------------------------------------------
(* Items.                                                                  *)

(* An item of which nothing has arrived fits every message.                *)
LEMMA BlankAssembles ==
  ASSUME NEW item, NEW s \in SessionIds, NEW q \in Seqnos,
         item.available = {}, item.count = 0, item.ready = FALSE, item.size = 0
  PROVE  Assembles(item, s, q)
<1>1. FragmentMax[<<s, q>>] \in 0 .. MaxFragment
  BY PublisherAssumption
<1>2. 0 \in Fragments(s, q)
  BY <1>1, PublisherAssumption DEF Fragments
<1>3. Cardinality({}) = 0
  BY FS_EmptySet
<1>4. QED
  BY <1>2, <1>3 DEF Assembles

(* A reset item fits every message.                                        *)
LEMMA EmptyAssembles ==
  ASSUME NEW s \in SessionIds, NEW q \in Seqnos
  PROVE  Assembles(EmptyItem, s, q)
BY BlankAssembles DEF EmptyItem

(* A frame keeps an item of its own message consistent.                    *)
LEMMA ProcessedAssembles ==
  ASSUME NEW f \in Frames, NEW item \in Items,
         Assembles(item, f.session_id, f.seqno)
  PROVE  Assembles(Processed(item, f), f.session_id, f.seqno)
<1>1. CASE f.fragment \in item.available
  BY <1>1 DEF Processed
<1>2. CASE f.fragment \notin item.available
  <2> DEFINE available == item.available \union {f.fragment}
             all == Fragments(f.session_id, f.seqno)
  <2>1. /\ f.fragment_max \in 0 .. MaxFragment
        /\ f.fragment \in all
        /\ f.fragment_max = FragmentMax[<<f.session_id, f.seqno>>]
        /\ all = 0 .. f.fragment_max
    BY FrameType DEF Fragments
  <2>2. IsFiniteSet(all) /\ Cardinality(all) = f.fragment_max + 1
    BY <2>1, FragmentCount
  <2>3. item.available \subseteq all /\ available \subseteq all
    BY <2>1 DEF Assembles
  <2> HIDE DEF all
  <2>4. IsFiniteSet(item.available) /\ IsFiniteSet(available)
    BY <2>2, <2>3, FS_Subset
  <2>5. item.count = Cardinality(item.available) /\ item.count \in Nat
    BY ItemFields, PublisherAssumption DEF Assembles
  <2>6. Cardinality(available) = item.count + 1
    BY <1>2, <2>4, <2>5, FS_AddElement
  <2>7. item.ready = FALSE
    BY <1>2, <2>1, ItemFields DEF Assembles, all
  <2>8. Completes(item, f) <=> available = all
    <3>1. f.fragment_max \in Nat
      BY <2>1, PublisherAssumption
    <3>2. Cardinality(available) = Cardinality(all) => available = all
      BY <2>2, <2>3, FS_Subset
    <3>3. item.count = f.fragment_max <=> Cardinality(available) = Cardinality(all)
      BY <2>2, <2>5, <2>6, <3>1
    <3>4. QED
      BY <1>2, <3>2, <3>3 DEF Completes
  <2>9. /\ Processed(item, f).available = available
        /\ Processed(item, f).count = item.count + 1
        /\ Processed(item, f).ready <=> available = all
        /\ Processed(item, f).payload = [item.payload EXCEPT ![f.fragment] = Bytes(f)]
        /\ Processed(item, f).size = IF f.fragment = f.fragment_max
                                       THEN f.fragment + 1
                                       ELSE item.size
        /\ available = all => Processed(item, f).meta = Meta(f)
    BY <1>2, <2>7, <2>8 DEF Processed
  <2>10. \A k \in available :
           Processed(item, f).payload[k] = <<f.session_id, f.seqno, k>>
    <3>1. item.payload \in [0 .. MaxFragment -> Tokens]
      BY ItemFields
    <3>2. item.available \subseteq 0 .. MaxFragment /\ f.fragment \in 0 .. MaxFragment
      BY ItemFields, FrameType
    <3>3. \A k \in item.available : item.payload[k] = <<f.session_id, f.seqno, k>>
      BY DEF Assembles
    <3>4. DEFINE payload == [item.payload EXCEPT ![f.fragment] = Bytes(f)]
    <3>5. payload[f.fragment] = Bytes(f)
      BY <3>1, <3>2
    <3>6. \A k \in item.available : payload[k] = item.payload[k]
      BY <1>2, <3>1, <3>2
    <3>7. \A k \in available : payload[k] = <<f.session_id, f.seqno, k>>
      BY <3>3, <3>5, <3>6 DEF Bytes
    <3> HIDE DEF payload
    <3>8. QED
      BY <2>9, <3>7 DEF payload
  <2>11. Processed(item, f).size = IF f.fragment_max \in available
                                     THEN f.fragment_max + 1
                                     ELSE 0
    BY <1>2, <2>1, <2>9 DEF Assembles
  <2>12. Processed(item, f).count = Cardinality(Processed(item, f).available)
    BY <2>6, <2>9
  <2> HIDE DEF available
  <2>13. /\ Processed(item, f).available \subseteq all
         /\ Processed(item, f).ready <=> Processed(item, f).available = all
         /\ Processed(item, f).ready => Processed(item, f).meta = <<f.session_id, f.seqno>>
    BY <2>3, <2>9 DEF Meta
  <2>14. QED
    BY <2>1, <2>9, <2>10, <2>11, <2>12, <2>13 DEF Assembles, all
<1>3. QED
  BY <1>1, <1>2

(* What is handed over of a ready item is the message it was filled with.  *)
LEMMA ReadyPublished ==
  ASSUME NEW s \in SessionIds, NEW q \in Seqnos, NEW item \in Items,
         Assembles(item, s, q), item.ready
  PROVE  ItemMessage(s, q, item) = Published(s, q)
<1>1. FragmentMax[<<s, q>>] \in 0 .. MaxFragment
  BY PublisherAssumption
<1>2. item.available = Fragments(s, q) /\ item.meta = <<s, q>>
  BY DEF Assembles
<1>3. item.size - 1 = FragmentMax[<<s, q>>]
  BY <1>1, <1>2, PublisherAssumption DEF Assembles, Fragments
<1>4. \A k \in Fragments(s, q) : item.payload[k] = <<s, q, k>>
  BY <1>2 DEF Assembles
<1>5. QED
  BY <1>2, <1>3, <1>4 DEF ItemMessage, Published, Fragments

(* A message that came in one frame is handed over as it was published.    *)
LEMMA FramePublished ==
  ASSUME NEW f \in Frames, f.fragment_max = 0
  PROVE  FrameMessage(f) = Published(f.session_id, f.seqno)
<1>1. f.fragment = 0 /\ Fragments(f.session_id, f.seqno) = {0}
  BY FrameType DEF Fragments
<1>2. QED
  BY <1>1 DEF FrameMessage, Published, Meta, Bytes

-----------------------------------------------------------------------------
(* Windows.                                                                *)

(* The ring holds the messages of the window that starts at start.         *)
Window(items, session, start) ==
  \A k \in Offsets : Assembles(items[Slot(Plus(start, k))], session, Plus(start, k))

(* Every slot is that of one seqno of the window: what an offset of the    *)
(* window n further on was in the window that starts at start.             *)
LEMMA OffsetShift ==
  ASSUME NEW start \in Seqnos, NEW n \in 0 .. MaxBuffers, NEW k \in Offsets
  PROVE  /\ n + k < MaxBuffers =>
              /\ n + k \in Offsets
              /\ Plus(Plus(start, n), k) = Plus(start, n + k)
         /\ n + k >= MaxBuffers =>
              /\ n + k - MaxBuffers \in 0 .. n - 1
              /\ n + k - MaxBuffers \in Offsets
              /\ Slot(Plus(Plus(start, n), k)) = Slot(Plus(start, n + k - MaxBuffers))
<1>1. /\ MaxBuffers \in Nat /\ n \in Nat /\ k \in Nat
      /\ n <= MaxBuffers /\ k < MaxBuffers
      /\ SeqnoModulus \in Nat /\ 4 * MaxBuffers <= SeqnoModulus
  BY SeqnoAssumption DEF Offsets
<1>2. Plus(Plus(start, n), k) = Plus(start, n + k)
  <2>1. n + k <= SeqnoModulus
    BY <1>1
  <2>2. QED
    BY <1>1, <2>1, PlusPlus
<1>3. ASSUME n + k >= MaxBuffers
      PROVE  /\ n + k - MaxBuffers \in 0 .. n - 1
             /\ n + k - MaxBuffers \in Offsets
             /\ Slot(Plus(start, n + k)) = Slot(Plus(start, n + k - MaxBuffers))
  <2>1. PICK j \in Nat : j = n + k - MaxBuffers
    BY <1>1, <1>3
  <2>2. j \in 0 .. n - 1 /\ j \in Offsets /\ j + MaxBuffers <= SeqnoModulus
    BY <1>1, <2>1 DEF Offsets
  <2>3. Plus(Plus(start, j), MaxBuffers) = Plus(start, j + MaxBuffers)
    BY <1>1, <2>2, PlusPlus
  <2>4. j + MaxBuffers = n + k
    BY <1>1, <2>1
  <2>5. Plus(start, j) \in Seqnos
    BY PlusType
  <2>6. Slot(Plus(start, n + k)) = Slot(Plus(start, j))
    BY <2>3, <2>4, <2>5, SlotShift
  <2>7. QED
    BY <2>1, <2>2, <2>6
<1>4. n + k < MaxBuffers => n + k \in Offsets
  BY <1>1 DEF Offsets
<1>5. QED
  BY <1>2, <1>3, <1>4

(* A frame of a seqno in the window goes to the item of its own message    *)
(* and to no other.                                                        *)
LEMMA WithFrameWindow ==
  ASSUME NEW f \in Frames, NEW items, CountedRing(items),
         NEW start \in Seqnos, NEW d \in Offsets, f.seqno = Plus(start, d),
         Window(items, f.session_id, start)
  PROVE  /\ Window(WithFrame(items, f), f.session_id, start)
         /\ WithFrame(items, f)[Slot(f.seqno)] = Processed(items[Slot(f.seqno)], f)
         /\ \A k \in Offsets : k # d =>
              WithFrame(items, f)[Slot(Plus(start, k))] = items[Slot(Plus(start, k))]
<1>1. Slot(f.seqno) \in Slots /\ DOMAIN items = Slots
  BY FrameType, SlotType DEF CountedRing
<1>2. WithFrame(items, f)[Slot(f.seqno)] = Processed(items[Slot(f.seqno)], f)
  BY <1>1 DEF WithFrame
<1>3. ASSUME NEW k \in Offsets, k # d
      PROVE  WithFrame(items, f)[Slot(Plus(start, k))] = items[Slot(Plus(start, k))]
  <2>1. Slot(Plus(start, k)) # Slot(f.seqno)
    BY <1>3, SlotInjective
  <2>2. Slot(Plus(start, k)) \in Slots
    BY SlotType, PlusType, SeqnoAssumption DEF Offsets
  <2>3. QED
    BY <1>1, <2>1, <2>2 DEF WithFrame
<1>4. Assembles(Processed(items[Slot(f.seqno)], f), f.session_id, f.seqno)
  <2>1. items[Slot(f.seqno)] \in Items
    BY <1>1 DEF CountedRing
  <2>2. Assembles(items[Slot(f.seqno)], f.session_id, f.seqno)
    BY DEF Window
  <2>3. QED
    BY <2>1, <2>2, ProcessedAssembles
<1>5. Window(WithFrame(items, f), f.session_id, start)
  <2>1. ASSUME NEW k \in Offsets
        PROVE  Assembles(WithFrame(items, f)[Slot(Plus(start, k))], f.session_id,
                         Plus(start, k))
    <3>1. CASE k = d
      BY <1>2, <1>4, <3>1
    <3>2. CASE k # d
      BY <1>3, <3>2 DEF Window
    <3>3. QED
      BY <3>1, <3>2
  <2>2. QED
    BY <2>1 DEF Window
<1>6. QED
  BY <1>2, <1>3, <1>5

(* What a step leaves behind when it hands over as much as it can: the     *)
(* ring of the window at the new next_seqno, its head not ready, and only  *)
(* messages as they were published among those handed over.                *)
WindowStep(session) ==
  /\ next_seqno' \in Seqnos
  /\ Window(assembly', session, next_seqno')
  /\ ~assembly'[Slot(next_seqno')].ready
  /\ \A i \in DOMAIN dispatched' :
       dispatched'[i] = Published(dispatched'[i].session_id, dispatched'[i].seqno)

(* The loop empties the slots it hands over, which makes room for the      *)
(* seqnos that enter the window.                                           *)
LEMMA DrainWindow ==
  ASSUME NEW s \in SessionIds, NEW start \in Seqnos, NEW items, CountedRing(items),
         Window(items, s, start),
         NEW x, x = Published(x.session_id, x.seqno), NEW head \in {<<>>, <<x>>},
         Drain(s, start, items, head)
  PROVE  WindowStep(s)
<1> DEFINE tail(n) == [i \in 1 .. n |-> ItemMessage(s, Plus(start, i - 1),
                                          items[Slot(Plus(start, i - 1))])]
<1>1. PICK n \in 0 .. MaxBuffers :
        /\ \A k \in 0 .. n - 1 : items[Slot(Plus(start, k))].ready
        /\ n < MaxBuffers => ~items[Slot(Plus(start, n))].ready
        /\ next_seqno' = Plus(start, n)
        /\ assembly' = [i \in Slots |->
                          IF \E k \in 0 .. n - 1 : i = Slot(Plus(start, k))
                            THEN EmptyItem
                            ELSE items[i]]
        /\ dispatched' = head \o tail(n)
  BY DEF Drain
<1>2. /\ n \in Nat /\ n <= MaxBuffers /\ MaxBuffers \in Nat \ {0}
      /\ 0 .. n - 1 \subseteq Offsets /\ Offsets \subseteq Nat
  BY SeqnoAssumption DEF Offsets
<1>3. next_seqno' \in Seqnos
  BY <1>1, <1>2, PlusType
<1>4. \A k \in Nat : Plus(start, k) \in Seqnos /\ Slot(Plus(start, k)) \in Slots
  BY PlusType, SlotType
<1>5. ASSUME NEW k \in 0 .. n - 1
      PROVE  assembly'[Slot(Plus(start, k))] = EmptyItem
  BY <1>1, <1>2, <1>4, <1>5
<1>6. ASSUME NEW k \in Offsets, k >= n
      PROVE  assembly'[Slot(Plus(start, k))] = items[Slot(Plus(start, k))]
  <2>1. \A j \in 0 .. n - 1 : j \in Offsets /\ j # k
    BY <1>2, <1>6
  <2>2. \A j \in 0 .. n - 1 : Slot(Plus(start, k)) # Slot(Plus(start, j))
    BY <2>1, SlotInjective
  <2>3. QED
    BY <1>1, <1>2, <1>4, <2>2
<1>7. Window(assembly', s, next_seqno')
  <2>1. SUFFICES ASSUME NEW k \in Offsets
                 PROVE  Assembles(assembly'[Slot(Plus(next_seqno', k))], s,
                                  Plus(next_seqno', k))
    BY DEF Window
  <2>2. n + k \in Nat /\ Plus(next_seqno', k) \in Seqnos
    BY <1>2, <1>3, PlusType
  <2>3. CASE n + k < MaxBuffers
    <3>1. n + k \in Offsets /\ n + k >= n /\ Plus(next_seqno', k) = Plus(start, n + k)
      BY <1>1, <1>2, <2>3, OffsetShift
    <3>2. Assembles(items[Slot(Plus(start, n + k))], s, Plus(start, n + k))
      BY <3>1 DEF Window
    <3>3. QED
      BY <1>6, <3>1, <3>2
  <2>4. CASE n + k >= MaxBuffers
    <3>1. /\ n + k - MaxBuffers \in 0 .. n - 1
          /\ Slot(Plus(next_seqno', k)) = Slot(Plus(start, n + k - MaxBuffers))
      BY <1>1, <2>4, OffsetShift
    <3>2. assembly'[Slot(Plus(next_seqno', k))] = EmptyItem
      BY <1>5, <3>1
    <3>3. QED
      BY <2>2, <3>2, EmptyAssembles
  <2>5. QED
    BY <1>2, <2>2, <2>3, <2>4
<1>8. ~assembly'[Slot(next_seqno')].ready
  <2>1. CASE n < MaxBuffers
    <3>1. n \in Offsets
      BY <1>2, <2>1 DEF Offsets
    <3>2. assembly'[Slot(Plus(start, n))] = items[Slot(Plus(start, n))]
      BY <1>2, <1>6, <3>1
    <3>3. QED
      BY <1>1, <2>1, <3>2
  <2>2. CASE n = MaxBuffers
    <3>1. Slot(Plus(start, n)) = Slot(start) /\ Slot(Plus(start, 0)) = Slot(start)
      <4>1. Plus(start, 0) = start
        BY PlusCases, SeqnoAssumption DEF Seqnos
      <4>2. QED
        BY <2>2, <4>1, SlotShift
    <3>2. 0 \in 0 .. n - 1
      BY <1>2, <2>2
    <3>3. assembly'[Slot(Plus(start, 0))] = EmptyItem
      BY <1>5, <3>2
    <3>4. assembly'[Slot(next_seqno')] = EmptyItem
      BY <1>1, <3>1, <3>3
    <3>5. QED
      BY <3>4 DEF EmptyItem
  <2>3. QED
    BY <1>2, <2>1, <2>2
<1>9. ASSUME NEW i \in 1 .. n
      PROVE  tail(n)[i] = Published(s, Plus(start, i - 1))
  <2>1. i - 1 \in 0 .. n - 1 /\ i - 1 \in Offsets /\ i - 1 \in Nat
    BY <1>2
  <2>2. items[Slot(Plus(start, i - 1))] \in Items
    BY <1>4, <2>1 DEF CountedRing
  <2>3. Assembles(items[Slot(Plus(start, i - 1))], s, Plus(start, i - 1))
    BY <2>1 DEF Window
  <2>4. items[Slot(Plus(start, i - 1))].ready
    BY <1>1, <2>1
  <2>5. QED
    BY <1>4, <2>1, <2>2, <2>3, <2>4, ReadyPublished
<1>10. DOMAIN tail(n) = 1 .. n /\ tail(n) = [i \in 1 .. n |-> tail(n)[i]]
  OBVIOUS
<1> HIDE DEF tail
<1>11. /\ Len(head) \in 0 .. 1
       /\ DOMAIN dispatched' = 1 .. Len(head) + n
       /\ \A i \in 1 .. Len(head) + n :
            dispatched'[i] = IF i <= Len(head) THEN x ELSE tail(n)[i - Len(head)]
  BY <1>1, <1>2, <1>10, Appended
<1>12. ASSUME NEW i \in DOMAIN dispatched'
       PROVE  dispatched'[i] = Published(dispatched'[i].session_id, dispatched'[i].seqno)
  <2>1. CASE i <= Len(head)
    BY <1>11, <2>1
  <2>2. CASE ~(i <= Len(head))
    <3>1. i - Len(head) \in 1 .. n
      BY <1>2, <1>11, <2>2
    <3>2. dispatched'[i] = Published(s, Plus(start, i - Len(head) - 1))
      BY <1>9, <1>11, <2>2, <3>1
    <3>3. QED
      BY <3>2 DEF Published
  <2>3. QED
    BY <2>1, <2>2
<1>13. QED
  BY <1>3, <1>7, <1>8, <1>12 DEF WindowStep

(* advance() without the loop: the slot of the message handed over         *)
(* directly must be blank, for the seqno that enters the window.           *)
LEMMA AdvanceWindow ==
  ASSUME NEW s \in SessionIds, NEW start \in Seqnos, NEW items,
         Window(items, s, start),
         NEW blank, blank = items[Slot(start)],
         blank.available = {}, blank.count = 0, blank.ready = FALSE, blank.size = 0
  PROVE  Window(items, s, Plus(start, 1))
<1>1. SUFFICES ASSUME NEW k \in Offsets
               PROVE  Assembles(items[Slot(Plus(Plus(start, 1), k))], s,
                                Plus(Plus(start, 1), k))
  BY DEF Window
<1>2. /\ 1 \in 0 .. MaxBuffers /\ k \in Nat /\ MaxBuffers \in Nat
      /\ 1 + k \in Nat /\ Plus(start, 0) = start
  BY SeqnoAssumption, PlusCases DEF Offsets, Seqnos
<1>3. Plus(Plus(start, 1), k) \in Seqnos
  BY <1>2, PlusType
<1>4. CASE 1 + k < MaxBuffers
  <2>1. 1 + k \in Offsets /\ Plus(Plus(start, 1), k) = Plus(start, 1 + k)
    BY <1>2, <1>4, OffsetShift
  <2>2. QED
    BY <2>1 DEF Window
<1>5. CASE 1 + k >= MaxBuffers
  <2>1. 1 + k - MaxBuffers = 0
    BY <1>2, <1>5 DEF Offsets
  <2>2. Slot(Plus(Plus(start, 1), k)) = Slot(Plus(start, 1 + k - MaxBuffers))
    BY <1>2, <1>5, OffsetShift
  <2>3. Slot(Plus(Plus(start, 1), k)) = Slot(start)
    BY <1>2, <2>1, <2>2
  <2>4. QED
    BY <1>3, <2>3, BlankAssembles
<1>6. QED
  BY <1>2, <1>4, <1>5

-----------------------------------------------------------------------------
(* The invariant.                                                          *)

WindowInv ==
  /\ TypeInv
  /\ WindowConsistent
  /\ NothingHeldBack
  /\ IntactDelivery
  /\ ~terminated

(* Once the session of a frame is settled, the ring holds the messages of  *)
(* the window it is compared with.                                         *)
Aligned(f) ==
  /\ Window(assembly, f.session_id, Expected(f))
  /\ ~assembly[Slot(Expected(f))].ready

(* With an invariant ring, what a frame is compared with is typed.         *)
LEMMA ExpectedType ==
  ASSUME WindowInv, NEW f \in Frames
  PROVE  /\ CountedRing(assembly)
         /\ next_seqno \in Seqnos
         /\ Expected(f) \in Seqnos
<1>1. CountedRing(assembly) /\ next_seqno \in Seqnos
  BY DEF WindowInv, TypeInv, TypeOK, Counted, CountedRing, CountedItem
<1>2. QED
  BY <1>1, DistanceType

(* The ring is empty before the first frame, which fits any window.        *)
LEMMA EmptyAligned ==
  ASSUME WindowInv, NEW f \in Frames, assembly = [i \in Slots |-> EmptyItem]
  PROVE  Aligned(f)
<1>1. f.session_id \in SessionIds /\ Expected(f) \in Seqnos
  BY FrameType, ExpectedType
<1>2. \A k \in Offsets : /\ Plus(Expected(f), k) \in Seqnos
                         /\ Slot(Plus(Expected(f), k)) \in Slots
  BY <1>1, PlusType, SlotType, SeqnoAssumption DEF Offsets
<1>3. Window(assembly, f.session_id, Expected(f))
  BY <1>1, <1>2, EmptyAssembles DEF Window
<1>4. Slot(Expected(f)) \in Slots
  BY <1>1, SlotType
<1>5. QED
  BY <1>3, <1>4 DEF Aligned, EmptyItem

(* A session that goes on finds its own window.                            *)
LEMMA SameAligned ==
  ASSUME WindowInv, NEW f \in Frames, f.session_id = session_id
  PROVE  Aligned(f)
<1>1. session_id \in SessionIds /\ Expected(f) = next_seqno
  BY FrameType DEF Expected
<1>2. QED
  BY <1>1 DEF WindowInv, WindowConsistent, NothingHeldBack, Window, Aligned

(* With one session this is always so.                                     *)
LEMMA ExpectedWindow ==
  ASSUME OneSession, WindowInv, NEW f \in Frames
  PROVE  Aligned(f)
<1>1. CASE session_id \in SessionIds
  BY <1>1, FrameType, SameAligned DEF OneSession
<1>2. CASE session_id \notin SessionIds
  BY <1>2, EmptyAligned DEF WindowInv, WindowConsistent
<1>3. QED
  BY <1>1, <1>2

(* Offset 0 of a window is its start.                                      *)
LEMMA WindowHead ==
  ASSUME NEW start \in Seqnos
  PROVE  0 \in Offsets /\ Plus(start, 0) = start /\ Slot(start) \in Slots
BY SeqnoAssumption, PlusCases, SlotType DEF Offsets, Seqnos

(* The assertions of advance: a message of one fragment that comes next    *)
(* finds its slot blank.                                                   *)
LEMMA SimpleBlank ==
  ASSUME WindowInv, NEW f \in Frames, Aligned(f), IsSimple(f)
  PROVE  /\ Expected(f) = f.seqno
         /\ assembly[Slot(f.seqno)].available = {}
         /\ assembly[Slot(f.seqno)].count = 0
         /\ assembly[Slot(f.seqno)].ready = FALSE
         /\ assembly[Slot(f.seqno)].size = 0
<1> DEFINE item == assembly[Slot(f.seqno)]
<1>1. f.seqno \in Seqnos /\ f.session_id \in SessionIds
  BY FrameType
<1>2. Expected(f) = f.seqno
  <2>1. Plus(Expected(f), 0) = f.seqno
    BY ExpectedType, DistanceType DEF IsSimple
  <2>2. QED
    BY <2>1, ExpectedType, WindowHead
<1>3. item \in Items /\ ~item.ready /\ Assembles(item, f.session_id, f.seqno)
  BY <1>1, <1>2, ExpectedType, WindowHead DEF Window, CountedRing, Aligned
<1>4. FragmentMax[<<f.session_id, f.seqno>>] = 0 /\ Fragments(f.session_id, f.seqno) = {0}
  BY FrameType DEF IsSimple, Fragments
<1>5. item.available = {}
  BY <1>3, <1>4 DEF Assembles
<1>6. item.count = 0
  BY <1>3, <1>5, FS_EmptySet DEF Assembles
<1>7. item.size = 0
  BY <1>3, <1>4, <1>5 DEF Assembles
<1>8. item.ready = FALSE
  BY <1>3, ItemFields
<1>9. QED
  BY <1>2, <1>5, <1>6, <1>7, <1>8

(* Handing over nothing.                                                   *)
LEMMA KeepWindow ==
  ASSUME NEW s, NEW seqno \in Seqnos, NEW items,
         Window(items, s, seqno), ~items[Slot(seqno)].ready, Keep(seqno, items)
  PROVE  WindowStep(s)
<1>1. DOMAIN <<>> = {}
  OBVIOUS
<1>2. QED
  BY <1>1 DEF Keep, WindowStep

(* An overflow keeps the complete items at the end of the window, and      *)
(* makes room for everything after it.                                     *)
LEMMA OverflowRing ==
  ASSUME WindowInv, NEW f \in Frames, Aligned(f), Overflow(f)
  PROVE  \E first \in 1 .. MaxBuffers : \E items :
           /\ CountedRing(items)
           /\ \A k \in Offsets :
                items[Slot(Plus(Plus(next_seqno, first), k))] =
                  IF first + k \in Offsets
                    THEN assembly[Slot(Plus(next_seqno, first + k))]
                    ELSE EmptyItem
           /\ Window(items, f.session_id, Plus(next_seqno, first))
           /\ MaxBuffers - first \in Offsets
           /\ f.seqno = Plus(Plus(next_seqno, first), MaxBuffers - first)
           /\ Drain(f.session_id, Plus(next_seqno, first), WithFrame(items, f), <<>>)
           /\ Expected(f) = next_seqno
           /\ terminated' = terminated
<1>1. /\ f.session_id \in SessionIds
      /\ f.seqno \in Seqnos
      /\ CountedRing(assembly)
      /\ next_seqno \in Seqnos
      /\ Expected(f) \in Seqnos
      /\ Window(assembly, f.session_id, Expected(f))
      /\ ~assembly[Slot(Expected(f))].ready
      /\ f.seqno = Plus(Expected(f), Distance(f))
  BY FrameType, ExpectedType, DistanceType DEF Aligned
<1>2. MaxBuffers \in Nat \ {0} /\ MaxBuffers < SeqnoModulus /\ SeqnoModulus \in Nat
  BY SeqnoAssumption, BuffersFit
<1>3. Distance(f) = MaxBuffers
  BY DEF Overflow
<1>4. Expected(f) = next_seqno
  BY <1>1, <1>2, <1>3, DistanceType DEF Expected
<1>5. PICK first \in 0 .. MaxBuffers :
        /\ ReadyFrom(first)
        /\ IF first = 0
             THEN /\ Keep(next_seqno, assembly)
                  /\ terminated' = TRUE
             ELSE /\ Drain(f.session_id, Plus(next_seqno, first),
                           WithFrame([i \in Slots |->
                             IF \E j \in first .. MaxBuffers - 1 :
                                  i = Slot(Plus(next_seqno, j))
                               THEN assembly[i]
                               ELSE EmptyItem], f), <<>>)
                  /\ UNCHANGED terminated
  BY DEF Overflow
<1>6. first # 0
  <2>1. ASSUME first = 0
        PROVE  FALSE
    <3>1. 0 \in first .. MaxBuffers - 1 /\ Plus(next_seqno, 0) = next_seqno
      BY <1>1, <1>2, <2>1, WindowHead
    <3>2. assembly[Slot(next_seqno)].ready
      BY <1>5, <3>1 DEF ReadyFrom
    <3>3. QED
      BY <1>1, <1>4, <3>2
  <2>2. QED
    BY <2>1
<1> DEFINE kept == {i \in Slots : \E j \in first .. MaxBuffers - 1 :
                                     i = Slot(Plus(next_seqno, j))}
           items == [i \in Slots |-> IF i \in kept THEN assembly[i] ELSE EmptyItem]
           start == Plus(next_seqno, first)
<1>7. /\ Drain(f.session_id, start, WithFrame(items, f), <<>>)
      /\ terminated' = terminated
  <2>1. items = [i \in Slots |-> IF \E j \in first .. MaxBuffers - 1 :
                                       i = Slot(Plus(next_seqno, j))
                                    THEN assembly[i]
                                    ELSE EmptyItem]
    OBVIOUS
  <2> HIDE DEF items, kept
  <2>2. QED
    BY <1>5, <1>6, <2>1
<1>8. start \in Seqnos /\ CountedRing(items)
  <2>1. kept \in SUBSET Slots /\ \A i \in kept : CountedItem(assembly[i])
    BY <1>1 DEF CountedRing
  <2>2. first \in Nat
    BY <1>2
  <2>3. start \in Seqnos
    BY <1>1, <2>2, PlusType
  <2> HIDE DEF kept, start
  <2>4. QED
    BY <2>1, <2>3, ResetCounted
<1>9. ASSUME NEW k \in Offsets
      PROVE  /\ items[Slot(Plus(start, k))] =
                  IF first + k \in Offsets
                    THEN assembly[Slot(Plus(next_seqno, first + k))]
                    ELSE EmptyItem
             /\ Assembles(items[Slot(Plus(start, k))], f.session_id, Plus(start, k))
  <2>1. /\ k \in Nat /\ k < MaxBuffers /\ first \in Nat /\ first <= MaxBuffers
        /\ Plus(start, k) \in Seqnos /\ Slot(Plus(start, k)) \in Slots
    BY <1>2, <1>8, PlusType, SlotType DEF Offsets
  <2>2. CASE first + k < MaxBuffers
    <3>1. first + k \in Offsets /\ Plus(start, k) = Plus(next_seqno, first + k)
      BY <1>1, <2>2, OffsetShift
    <3>2. first + k \in first .. MaxBuffers - 1
      BY <1>2, <2>1, <2>2
    <3>3. items[Slot(Plus(start, k))] = assembly[Slot(Plus(next_seqno, first + k))]
      BY <2>1, <3>1, <3>2
    <3>4. Assembles(assembly[Slot(Plus(start, k))], f.session_id, Plus(start, k))
      BY <1>1, <1>4, <3>1 DEF Window
    <3> HIDE DEF items, kept, start
    <3>5. QED
      BY <3>1, <3>3, <3>4
  <2>3. CASE first + k >= MaxBuffers
    <3>1. /\ first + k - MaxBuffers \in 0 .. first - 1
          /\ first + k - MaxBuffers \in Offsets
          /\ Slot(Plus(start, k)) = Slot(Plus(next_seqno, first + k - MaxBuffers))
          /\ first + k \notin Offsets
      BY <1>1, <1>2, <2>1, <2>3, OffsetShift DEF Offsets
    <3>2. \A j \in first .. MaxBuffers - 1 :
            j \in Offsets /\ j # first + k - MaxBuffers
      BY <1>2, <2>1, <3>1 DEF Offsets
    <3>3. Slot(Plus(start, k)) \notin kept
      BY <1>1, <3>1, <3>2, SlotInjective
    <3>4. items[Slot(Plus(start, k))] = EmptyItem
      BY <2>1, <3>3
    <3> HIDE DEF items, kept, start
    <3>5. QED
      BY <1>1, <2>1, <3>1, <3>4, EmptyAssembles
  <2>4. QED
    BY <1>2, <2>1, <2>2, <2>3
<1>10. MaxBuffers - first \in Offsets /\ f.seqno = Plus(start, MaxBuffers - first)
  <2>1. PICK d \in Nat : d = MaxBuffers - first
    BY <1>2
  <2>2. d \in Offsets /\ first + d = MaxBuffers /\ first \in Nat
    BY <1>2, <1>6, <2>1 DEF Offsets
  <2>3. Plus(start, d) = Plus(next_seqno, MaxBuffers)
    BY <1>1, <1>2, <2>2, PlusPlus
  <2> HIDE DEF start
  <2>4. QED
    BY <1>1, <1>3, <1>4, <2>1, <2>2, <2>3
<1>11. first \in 1 .. MaxBuffers
  BY <1>2, <1>6
<1> HIDE DEF items, kept
<1>12. Window(items, f.session_id, start)
  BY <1>9 DEF Window
<1>13. QED
  BY <1>4, <1>7, <1>8, <1>9, <1>10, <1>11, <1>12

(* A call keeps the window: one step per branch of update.                 *)
LEMMA ReceiveWindow ==
  ASSUME WindowInv, NEW f \in Frames, Aligned(f), Receive(f)
  PROVE  WindowStep(f.session_id) /\ terminated' = FALSE
<1>1. /\ f.session_id \in SessionIds
      /\ f.seqno \in Seqnos
      /\ CountedRing(assembly)
      /\ next_seqno \in Seqnos
      /\ Expected(f) \in Seqnos
      /\ Window(assembly, f.session_id, Expected(f))
      /\ ~assembly[Slot(Expected(f))].ready
      /\ terminated = FALSE
  BY FrameType, ExpectedType DEF WindowInv, TypeInv, TypeOK, Aligned
<1>2. f.seqno = Plus(Expected(f), Distance(f)) /\ Distance(f) \in Seqnos
  BY <1>1, DistanceType
<1>3. ASSUME NEW start \in Seqnos, NEW items, CountedRing(items),
             Window(items, f.session_id, start),
             Drain(f.session_id, start, items, <<>>)
      PROVE  WindowStep(f.session_id)
  <2>1. PICK x : x = Published(f.session_id, f.seqno)
    OBVIOUS
  <2>2. x = Published(x.session_id, x.seqno) /\ <<>> \in {<<>>, <<x>>}
    BY <2>1 DEF Published
  <2>3. QED
    BY <1>1, <1>3, <2>2, DrainWindow
<1>4. CASE Replay(f)
  BY <1>1, <1>4, KeepWindow DEF Replay
<1>5. CASE Simple(f)
  <2>1. IsSimple(f) /\ terminated' = terminated
        /\ Drain(f.session_id, Plus(f.seqno, 1), assembly, <<FrameMessage(f)>>)
    BY <1>5 DEF Simple
  <2>2. Plus(f.seqno, 1) \in Seqnos
    BY <1>1, PlusType
  <2>3. Window(assembly, f.session_id, Plus(f.seqno, 1))
    BY <1>1, <2>1, SimpleBlank, AdvanceWindow
  <2>4. PICK x : x = FrameMessage(f)
    OBVIOUS
  <2>5. x = Published(x.session_id, x.seqno) /\ <<x>> \in {<<>>, <<x>>}
    BY <2>1, <2>4, FramePublished DEF IsSimple, FrameMessage
  <2>6. WindowStep(f.session_id)
    BY <1>1, <2>1, <2>2, <2>3, <2>4, <2>5, DrainWindow
  <2>7. QED
    BY <1>1, <2>1, <2>6
<1>6. ASSUME IsBuffered(f)
      PROVE  /\ Distance(f) \in Offsets
             /\ CountedRing(WithFrame(assembly, f))
             /\ Window(WithFrame(assembly, f), f.session_id, Expected(f))
  <2>1. Distance(f) \in Offsets
    BY <1>2, <1>6, SeqnoAssumption DEF IsBuffered, Offsets, Seqnos
  <2>2. QED
    BY <1>1, <1>2, <2>1, WithFrameCounted, WithFrameWindow
<1>7. CASE Store(f)
  <2>1. /\ IsBuffered(f)
        /\ ~CompletesNext(f)
        /\ Keep(Expected(f), WithFrame(assembly, f))
        /\ terminated' = terminated
    BY <1>7 DEF Store
  <2>2. ~WithFrame(assembly, f)[Slot(Expected(f))].ready
    <3>1. CASE Distance(f) = 0
      <4>1. Expected(f) = f.seqno
        BY <1>1, <1>2, <3>1, WindowHead
      <4>2. ~Processed(assembly[Slot(f.seqno)], f).ready
        <5>1. ~assembly[Slot(f.seqno)].ready /\ ~Completes(assembly[Slot(f.seqno)], f)
          BY <1>1, <2>1, <3>1, <4>1 DEF CompletesNext
        <5>2. QED
          BY <5>1 DEF Processed
      <4>3. WithFrame(assembly, f)[Slot(f.seqno)] = Processed(assembly[Slot(f.seqno)], f)
        BY <1>1, <1>2, <1>6, <2>1, WithFrameWindow
      <4>4. QED
        BY <4>1, <4>2, <4>3
    <3>2. CASE Distance(f) # 0
      <4>1. 0 \in Offsets /\ Plus(Expected(f), 0) = Expected(f)
        BY <1>1, WindowHead
      <4>2. \A k \in Offsets : k # Distance(f) =>
              WithFrame(assembly, f)[Slot(Plus(Expected(f), k))]
                = assembly[Slot(Plus(Expected(f), k))]
        BY <1>1, <1>2, <1>6, <2>1, WithFrameWindow
      <4>3. QED
        BY <1>1, <3>2, <4>1, <4>2
    <3>3. QED
      BY <3>1, <3>2
  <2>3. QED
    BY <1>1, <1>6, <2>1, <2>2, KeepWindow
<1>8. CASE Complete(f)
  <2>1. /\ IsBuffered(f)
        /\ Distance(f) = 0
        /\ Drain(f.session_id, f.seqno, WithFrame(assembly, f), <<>>)
        /\ terminated' = terminated
    BY <1>8 DEF Complete, CompletesNext
  <2>2. Expected(f) = f.seqno
    BY <1>1, <1>2, <2>1, WindowHead
  <2>3. QED
    BY <1>1, <1>3, <1>6, <2>1, <2>2
<1>9. CASE Overflow(f)
  <2>1. PICK first, items :
          /\ first \in 1 .. MaxBuffers
          /\ CountedRing(items)
          /\ Window(items, f.session_id, Plus(next_seqno, first))
          /\ MaxBuffers - first \in Offsets
          /\ f.seqno = Plus(Plus(next_seqno, first), MaxBuffers - first)
          /\ Drain(f.session_id, Plus(next_seqno, first), WithFrame(items, f), <<>>)
          /\ terminated' = terminated
    BY <1>9, OverflowRing
  <2>2. first \in Nat /\ Plus(next_seqno, first) \in Seqnos
    <3>1. first \in Nat
      BY <2>1, SeqnoAssumption
    <3>2. QED
      BY <1>1, <3>1, PlusType
  <2>3. /\ CountedRing(WithFrame(items, f))
        /\ Window(WithFrame(items, f), f.session_id, Plus(next_seqno, first))
    BY <2>1, <2>2, WithFrameCounted, WithFrameWindow
  <2>4. QED
    BY <1>1, <1>3, <2>1, <2>2, <2>3
<1>10. CASE Gap(f)
  <2> DEFINE blank == [i \in Slots |-> EmptyItem]
             items == WithFrame(blank, f)
  <2>1. CountedRing(blank) /\ Window(blank, f.session_id, f.seqno)
    <3>1. \A k \in Offsets : /\ Plus(f.seqno, k) \in Seqnos
                             /\ Slot(Plus(f.seqno, k)) \in Slots
      BY <1>1, PlusType, SlotType, SeqnoAssumption DEF Offsets
    <3>2. QED
      BY <1>1, <3>1, EmptyAssembles, EmptyItemCounted DEF CountedRing, CountedItem, Window
  <2>2. 0 \in Offsets /\ f.seqno = Plus(f.seqno, 0)
    BY <1>1, WindowHead
  <2> HIDE DEF blank
  <2>3. CountedRing(items) /\ Window(items, f.session_id, f.seqno)
    BY <1>1, <2>1, <2>2, WithFrameCounted, WithFrameWindow
  <2>4. /\ terminated' = terminated
        /\ IF items[Slot(f.seqno)].ready
             THEN Drain(f.session_id, f.seqno, items, <<>>)
             ELSE Keep(f.seqno, items)
    BY <1>10 DEF Gap, blank
  <2> HIDE DEF items
  <2>5. QED
    BY <1>1, <1>3, <2>3, <2>4, KeepWindow
<1>11. QED
  BY <1>4, <1>5, <1>7, <1>8, <1>9, <1>10 DEF Receive

(* WindowInv holds at the start.                                           *)
LEMMA WindowInit ==
  ASSUME Init
  PROVE  WindowInv
<1>1. TypeInv
  BY TypeInit
<1>2. \A i \in Slots : ~EmptyItem.ready /\ DOMAIN <<>> = {}
  BY DEF EmptyItem
<1>3. next_seqno \in Seqnos /\ Slot(next_seqno) \in Slots
  BY <1>1, SlotType DEF TypeInv, TypeOK
<1>4. NothingHeldBack /\ IntactDelivery /\ ~terminated
  BY <1>2, <1>3 DEF Init, NothingHeldBack, IntactDelivery
<1>5. WindowConsistent
  <2>1. CASE session_id \in SessionIds
    <3>1. \A k \in Offsets : /\ Plus(next_seqno, k) \in Seqnos
                             /\ Slot(Plus(next_seqno, k)) \in Slots
      BY <1>3, PlusType, SlotType, SeqnoAssumption DEF Offsets
    <3>2. QED
      BY <2>1, <3>1, EmptyAssembles DEF Init, WindowConsistent
  <2>2. CASE session_id \notin SessionIds
    BY <2>2 DEF Init, WindowConsistent
  <2>3. QED
    BY <2>1, <2>2
<1>6. QED
  BY <1>1, <1>4, <1>5 DEF WindowInv

(* A call of an aligned frame keeps WindowInv.                             *)
LEMMA WindowCall ==
  ASSUME WindowInv, NEW f \in Frames, Aligned(f), Receive(f)
  PROVE  WindowInv'
<1>1. WindowStep(f.session_id) /\ terminated' = FALSE
  BY ReceiveWindow
<1>2. session_id' = f.session_id /\ f.session_id \in SessionIds
  BY FrameType DEF Receive
<1>3. TypeInv'
  BY ReceiveTyped DEF WindowInv
<1>4. WindowConsistent'
  BY <1>1, <1>2 DEF WindowStep, Window, WindowConsistent
<1>5. (NothingHeldBack /\ IntactDelivery /\ ~terminated)'
  BY <1>1 DEF WindowStep, NothingHeldBack, IntactDelivery
<1>6. QED
  BY <1>3, <1>4, <1>5 DEF WindowInv

(* A step that leaves the buffer alone keeps it.                           *)
LEMMA WindowStutter ==
  ASSUME WindowInv, UNCHANGED vars
  PROVE  WindowInv'
BY DEF vars, WindowInv, TypeInv, TypeOK, Counted, WindowConsistent,
       NothingHeldBack, IntactDelivery

(* With one session, every step keeps WindowInv.                           *)
LEMMA WindowNext ==
  ASSUME OneSession, WindowInv, [Next]_vars
  PROVE  WindowInv'
BY WindowStutter, WindowCall, ExpectedWindow DEF Next

(* With one session the ring always holds the messages of the window that  *)
(* starts at next_seqno, slot by slot and across the wrap of the seqno,    *)
(* and its head is never a complete message that nobody hands over.        *)
THEOREM WindowInvariant ==
  ASSUME OneSession
  PROVE  Spec => [](WindowConsistent /\ NothingHeldBack)
<1>1. Init => WindowInv
  BY WindowInit
<1>2. WindowInv /\ [Next]_vars => WindowInv'
  BY WindowNext
<1>3. WindowInv => WindowConsistent /\ NothingHeldBack
  BY DEF WindowInv
<1>4. QED
  BY <1>1, <1>2, <1>3, PTL DEF Spec

(* With one session no complete message waits when nothing is missing      *)
(* before it.                                                              *)
THEOREM NothingIsHeldBack ==
  ASSUME OneSession
  PROVE  Spec => []NothingHeldBack
BY WindowInvariant, PTL

(* With one session every message handed over is the one published under   *)
(* its header, whatever frames are lost, repeated or reordered.            *)
THEOREM DeliveryIntact ==
  ASSUME OneSession
  PROVE  Spec => []IntactDelivery
<1>1. Init => WindowInv
  BY WindowInit
<1>2. WindowInv /\ [Next]_vars => WindowInv'
  BY WindowNext
<1>3. WindowInv => IntactDelivery
  BY DEF WindowInv
<1>4. QED
  BY <1>1, <1>2, <1>3, PTL DEF Spec

-----------------------------------------------------------------------------
(* The assertions of the code.                                             *)

(* The window implies what update and advance assert of the next frame.    *)
LEMMA WindowAsserts ==
  ASSUME OneSession, WindowInv
  PROVE  AssertsHold
<1>1. AdvanceAssert
  BY SimpleBlank, ExpectedWindow DEF AdvanceAssert
<1>2. ProcessAssert
  <2>1. SUFFICES ASSUME NEW f \in Frames, IsBuffered(f)
                 PROVE  LET item == assembly[Slot(f.seqno)]
                        IN  /\ f.fragment \notin item.available => ~item.ready
                            /\ Completes(item, f) =>
                                 Cardinality(item.available) = item.count
    BY DEF ProcessAssert
  <2>2. Distance(f) \in Offsets /\ f.seqno = Plus(Expected(f), Distance(f))
    BY <2>1, ExpectedType, DistanceType, SeqnoAssumption DEF IsBuffered, Offsets, Seqnos
  <2>3. Assembles(assembly[Slot(f.seqno)], f.session_id, f.seqno)
    BY <2>2, ExpectedWindow DEF Window, Aligned
  <2>4. f.fragment \in Fragments(f.session_id, f.seqno)
    BY FrameType
  <2>5. QED
    BY <2>3, <2>4 DEF Assembles
<1>3. OverflowAssert
  <2>1. SUFFICES ASSUME NEW f \in Frames, Distance(f) = MaxBuffers
                 PROVE  \E k \in Offsets : ~assembly[Slot(Plus(next_seqno, k))].ready
    BY DEF OverflowAssert
  <2>2. next_seqno \in Seqnos
    BY ExpectedType
  <2>3. 0 \in Offsets /\ Plus(next_seqno, 0) = next_seqno
    BY <2>2, WindowHead
  <2>4. QED
    BY <2>3 DEF WindowInv, NothingHeldBack
<1>4. QED
  BY <1>1, <1>2, <1>3 DEF WindowInv, AssertsHold

(* With one session no assertion of buffer.cpp fails and log::fatal        *)
(* ("buffer is full") is never reached.                                    *)
THEOREM AssertsNeverFail ==
  ASSUME OneSession
  PROVE  Spec => []AssertsHold
<1>1. Init => WindowInv
  BY WindowInit
<1>2. WindowInv /\ [Next]_vars => WindowInv'
  BY WindowNext
<1>3. WindowInv => AssertsHold
  BY WindowAsserts
<1>4. QED
  BY <1>1, <1>2, <1>3, PTL DEF Spec
=============================================================================
