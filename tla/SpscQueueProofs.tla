---------------------------- MODULE SpscQueueProofs ----------------------------
(***************************************************************************)
(* Proofs about SpscQueue for every Capacity, every number of laps and     *)
(* every set of items, for the use the class is written for: at most one   *)
(* producer.                                                               *)
(***************************************************************************)
EXTENDS SpscQueue, ModLemmas

SingleProducer == \A p, r \in Producers : p = r

\* The wrap-around point leaves room for a full ring.
LEMMA WrapFacts == Wrap \in Nat /\ Wrap >= 2 * Capacity
<1>1. Laps * Capacity = (Laps - 2) * Capacity + 2 * Capacity
  BY CapacityAssumption, LapsAssumption
<1>2. (Laps - 2) * Capacity >= 0 /\ (Laps - 2) * Capacity \in Int
  BY CapacityAssumption, LapsAssumption
<1> QED
  BY <1>1, <1>2, CapacityAssumption, LapsAssumption DEF Wrap

\* The distance between the indices, computed modulo Wrap, is their distance
\* on the circle.
LEMMA MinusFacts ==
  ASSUME NEW h \in Indices, NEW t \in Indices
  PROVE  /\ Minus(h, t) \in 0 .. Wrap - 1
         /\ h >= t => Minus(h, t) = h - t
         /\ h < t => Minus(h, t) = h - t + Wrap
<1> DEFINE x == h - t
<1>1. x \in Int /\ -Wrap <= x /\ x < Wrap /\ Wrap > 0 /\ Wrap \in Nat
  BY WrapFacts, CapacityAssumption DEF Indices
<1> HIDE DEF x
<1>2. /\ x % Wrap \in 0 .. Wrap - 1
      /\ x < 0 => x % Wrap = x + Wrap
      /\ (0 <= x /\ x < Wrap) => x % Wrap = x
  BY <1>1, ModNear
<1> QED
  BY <1>1, <1>2 DEF x, Minus, Indices

LEMMA Plus1Facts ==
  ASSUME NEW i \in Indices
  PROVE  /\ Plus1(i) \in Indices
         /\ i < Wrap - 1 => Plus1(i) = i + 1
         /\ i = Wrap - 1 => Plus1(i) = 0
<1> DEFINE x == i + 1
<1>1. x \in Int /\ -Wrap <= x /\ x < 2 * Wrap /\ Wrap > 0 /\ Wrap \in Nat
  BY WrapFacts, CapacityAssumption DEF Indices
<1> HIDE DEF x
<1>2. /\ x % Wrap \in 0 .. Wrap - 1
      /\ (0 <= x /\ x < Wrap) => x % Wrap = x
      /\ Wrap <= x => x % Wrap = x - Wrap
  BY <1>1, ModNear
<1> QED
  BY <1>1, <1>2 DEF x, Plus1, Indices

\* Storing head adds one waiting item, storing tail removes one.
LEMMA MinusPlus1 ==
  ASSUME NEW h \in Indices, NEW t \in Indices
  PROVE  /\ Minus(h, t) < Capacity => Minus(Plus1(h), t) = Minus(h, t) + 1
         /\ Minus(h, t) > 0 => Minus(h, Plus1(t)) = Minus(h, t) - 1
<1> DEFINE h1 == Plus1(h)
           t1 == Plus1(t)
<1>1. /\ h1 \in Indices /\ t1 \in Indices
      /\ h < Wrap - 1 => h1 = h + 1
      /\ h = Wrap - 1 => h1 = 0
      /\ t < Wrap - 1 => t1 = t + 1
      /\ t = Wrap - 1 => t1 = 0
  BY Plus1Facts
<1> HIDE DEF h1, t1
<1>2. /\ h >= t => Minus(h, t) = h - t
      /\ h < t => Minus(h, t) = h - t + Wrap
  BY MinusFacts
<1>3. /\ h1 >= t => Minus(h1, t) = h1 - t
      /\ h1 < t => Minus(h1, t) = h1 - t + Wrap
  BY <1>1, MinusFacts
<1>4. /\ h >= t1 => Minus(h, t1) = h - t1
      /\ h < t1 => Minus(h, t1) = h - t1 + Wrap
  BY <1>1, MinusFacts
<1>5. h \in 0 .. Wrap - 1 /\ t \in 0 .. Wrap - 1
  BY DEF Indices
<1>6. Minus(h, t) < Capacity => Minus(h1, t) = Minus(h, t) + 1
  BY <1>1, <1>2, <1>3, <1>5, WrapFacts, CapacityAssumption
<1>7. Minus(h, t) > 0 => Minus(h, t1) = Minus(h, t) - 1
  BY <1>1, <1>2, <1>4, <1>5, WrapFacts, CapacityAssumption
<1> QED
  BY <1>6, <1>7 DEF h1, t1

LEMMA SlotType == ASSUME NEW i \in Int PROVE Slot(i) \in Slots
<1>1. i % Capacity \in 0 .. Capacity - 1
  BY CapacityAssumption
<1> QED
  BY <1>1 DEF Slot, Slots

\* Going once around the wrap-around point leads to the same slot.
LEMMA SlotWrap ==
  ASSUME NEW i \in Int
  PROVE  Slot(i + Wrap) = Slot(i) /\ Slot(i - Wrap) = Slot(i)
<1>1. /\ Capacity \in Nat /\ Capacity > 0 /\ Laps \in Int /\ -Laps \in Int
      /\ i - Wrap = i + (-Laps) * Capacity
  BY CapacityAssumption, LapsAssumption DEF Wrap
<1>2. (i + Laps * Capacity) % Capacity = i % Capacity
  BY <1>1, ModAddMul
<1>3. (i + (-Laps) * Capacity) % Capacity = i % Capacity
  BY <1>1, ModAddMul
<1> QED
  BY <1>1, <1>2, <1>3 DEF Slot, Wrap

LEMMA SlotDistinct ==
  ASSUME NEW i \in Int, NEW j \in Int, i < j, j < i + Capacity
  PROVE  Slot(i) # Slot(j)
<1>1. Capacity \in Nat /\ Capacity > 0
  BY CapacityAssumption
<1> QED
  BY <1>1, ModDistinct DEF Slot

\* The slot of head is the one after the waiting items, and the slots after a
\* stored tail are those that followed it before.
LEMMA SlotOfHead ==
  ASSUME NEW h \in Indices, NEW t \in Indices
  PROVE  Slot(h) = Slot(t + Minus(h, t))
<1>0. /\ Minus(h, t) \in 0 .. Wrap - 1
      /\ h >= t => Minus(h, t) = h - t
      /\ h < t => Minus(h, t) = h - t + Wrap
  BY MinusFacts
<1>1. /\ Minus(h, t) \in Int /\ h \in Int /\ t \in Int
      /\ h = t + Minus(h, t) \/ h + Wrap = t + Minus(h, t)
  BY <1>0, WrapFacts DEF Indices
<1>2. Slot(h + Wrap) = Slot(h)
  BY <1>1, SlotWrap
<1> QED
  BY <1>1, <1>2

LEMMA SlotAfterTail ==
  ASSUME NEW t \in Indices, NEW k \in Int
  PROVE  Slot(Plus1(t) + k) = Slot(t + 1 + k)
<1>1. /\ t + 1 + k \in Int
      /\ Plus1(t) + k = t + 1 + k \/ Plus1(t) + k = (t + 1 + k) - Wrap
  BY Plus1Facts, WrapFacts DEF Indices
<1> QED
  BY <1>1, SlotWrap
--------------------------------------------------------------------------------
\* Facts about the waiting items that every step below uses.
LEMMA WaitingFacts ==
  ASSUME TypeOK
  PROVE  /\ head \in Indices /\ tail \in Indices /\ tail \in Int
         /\ Waiting \in 0 .. Wrap - 1 /\ Waiting \in Int
         /\ Slot(head) = Slot(tail + Waiting)
         /\ Slot(head) \in Slots
<1>1. head \in Indices /\ tail \in Indices /\ tail \in Int /\ head \in Int
  BY DEF TypeOK, Indices
<1>2. Waiting \in 0 .. Wrap - 1
  BY <1>1, MinusFacts DEF Waiting
<1>3. Slot(head) = Slot(tail + Waiting)
  BY <1>1, SlotOfHead DEF Waiting
<1> QED
  BY <1>1, <1>2, <1>3, SlotType, WrapFacts

LEMMA InitRing == Init => RingInv
<1> SUFFICES ASSUME Init PROVE RingInv
  OBVIOUS
<1>1. 0 \in Indices
  BY WrapFacts, CapacityAssumption DEF Indices
<1>2. Waiting = 0
  BY <1>1, MinusFacts DEF Init, Waiting
<1>3. TypeOK
  BY <1>1 DEF Init, TypeOK
<1>4. CopiesCurrent /\ ChecksStillHold /\ SlotsFilled
  BY <1>2, CapacityAssumption
     DEF Init, CopiesCurrent, ChecksStillHold, SlotsFilled
<1> QED
  BY <1>3, <1>4 DEF RingInv

\* Steps that move only program counters and local copies.
LEMMA LocalStep ==
  ASSUME RingInv, SingleProducer, UNCHANGED <<buffer, head, tail>>,
         \/ \E p \in Producers : Call(p) \/ CheckRoom(p) \/ WaitForRoom(p)
         \/ LoadTail \/ CheckItem \/ ReadSlot
         \/ UNCHANGED vars
  PROVE  RingInv'
<1> USE DEF RingInv
<1>1. Waiting' = Waiting
  BY DEF Waiting
<1>2. CASE \E p \in Producers : Call(p)
  <2> PICK p \in Producers, i \in Items, kind \in {"enqueue", "enqueue_spin"} :
        LoadHead(p, i, kind)
    BY <1>2 DEF Call
  <2>1. TypeOK' /\ CopiesCurrent'
    BY DEF LoadHead, TypeOK, CopiesCurrent, consVars
  <2>2. ChecksStillHold' /\ SlotsFilled'
    BY <1>1 DEF LoadHead, TypeOK, ChecksStillHold, SlotsFilled, consVars
  <2> QED
    BY <2>1, <2>2
<1>3. CASE \E p \in Producers : CheckRoom(p) \/ WaitForRoom(p)
  <2> PICK p \in Producers : CheckRoom(p) \/ WaitForRoom(p)
    BY <1>3
  <2>1. TypeOK' /\ CopiesCurrent'
    BY DEF CheckRoom, WaitForRoom, TypeOK, CopiesCurrent, consVars
  <2>2. pcP'[p] = "write" => Waiting < Capacity
    <3>1. headP[p] = head
      BY DEF CheckRoom, WaitForRoom, CopiesCurrent
    <3>2. pcP'[p] = "write" => Waiting # Capacity
      BY <3>1 DEF CheckRoom, WaitForRoom, TypeOK, Waiting
    <3> QED
      BY <3>2, WaitingFacts, CapacityAssumption DEF ChecksStillHold
  <2>3. ChecksStillHold'
    BY <1>1, <2>2 DEF SingleProducer, CheckRoom, WaitForRoom, TypeOK, ChecksStillHold, consVars
  <2>4. SlotsFilled'
    BY <1>1 DEF CheckRoom, WaitForRoom, TypeOK, SlotsFilled, consVars
  <2> QED
    BY <2>1, <2>3, <2>4
<1>4. CASE LoadTail
  BY <1>1, <1>4 DEF LoadTail, TypeOK, CopiesCurrent, ChecksStillHold, SlotsFilled, prodVars
<1>5. CASE CheckItem
  <2>1. TypeOK' /\ CopiesCurrent' /\ SlotsFilled'
    BY <1>1, <1>5 DEF CheckItem, TypeOK, CopiesCurrent, SlotsFilled, prodVars
  <2>2. pcC' = "read" => Waiting > 0
    <3>1. pcC' = "read" => head # tail
      BY <1>5 DEF CheckItem, CopiesCurrent
    <3>2. /\ head >= tail => Waiting = head - tail
          /\ head < tail => Waiting = head - tail + Wrap
      BY WaitingFacts, MinusFacts DEF Waiting
    <3> QED
      BY <3>1, <3>2, WaitingFacts, WrapFacts DEF Indices
  <2>3. ChecksStillHold'
    BY <1>1, <1>5, <2>2 DEF CheckItem, ChecksStillHold, prodVars
  <2> QED
    BY <2>1, <2>3
<1>6. CASE ReadSlot
  <2>1. tailC = tail /\ Waiting > 0
    BY <1>6 DEF ReadSlot, CopiesCurrent, ChecksStillHold
  <2>2. buffer[Slot(tail)] \in Items
    <3>1. buffer[Slot(tail + 0)] \in Items
      BY <2>1, WaitingFacts DEF SlotsFilled
    <3> QED
      BY <3>1, WaitingFacts
  <2> QED
    BY <1>1, <1>6, <2>1, <2>2
       DEF ReadSlot, TypeOK, CopiesCurrent, ChecksStillHold, SlotsFilled, prodVars
<1>7. CASE UNCHANGED vars
  BY <1>1, <1>7 DEF vars, prodVars, consVars, TypeOK, CopiesCurrent, ChecksStillHold, SlotsFilled
<1> QED
  BY <1>2, <1>3, <1>4, <1>5, <1>6, <1>7

\* Writing a slot: it is none of those that hold a waiting item.
LEMMA WriteStep ==
  ASSUME RingInv, SingleProducer, NEW p \in Producers, WriteSlot(p)
  PROVE  /\ RingInv' /\ Waiting' = Waiting /\ tail' = tail
         /\ \A k \in 0 .. Waiting - 1 : buffer'[Slot(tail + k)] = buffer[Slot(tail + k)]
<1> USE DEF RingInv
<1>1. Waiting' = Waiting /\ head' = head /\ tail' = tail
  BY DEF WriteSlot, Waiting
<1>2. headP[p] = head /\ itemP[p] \in Items /\ Waiting < Capacity
  BY DEF WriteSlot, CopiesCurrent, ChecksStillHold
<1>3. TypeOK'
  BY DEF WriteSlot, TypeOK, consVars
<1>4. CopiesCurrent' /\ ChecksStillHold'
  BY <1>1, <1>2 DEF WriteSlot, TypeOK, CopiesCurrent, ChecksStillHold, consVars, SingleProducer
<1>5. \A k \in 0 .. Waiting - 1 : Slot(tail + k) \in Slots /\ Slot(tail + k) # Slot(head)
  <2> TAKE k \in 0 .. Waiting - 1
  <2>1. /\ tail + k \in Int /\ tail + Waiting \in Int
        /\ tail + k < tail + Waiting /\ tail + Waiting < tail + k + Capacity
    BY <1>2, WaitingFacts, CapacityAssumption
  <2> QED
    BY <2>1, SlotDistinct, SlotType, WaitingFacts
<1>6. /\ \A k \in 0 .. Waiting - 1 : buffer'[Slot(tail + k)] = buffer[Slot(tail + k)]
      /\ buffer'[Slot(head)] = itemP[p]
  BY <1>2, <1>5, WaitingFacts DEF WriteSlot, TypeOK
<1>7. pcC = "release" => buffer'[Slot(tail)] = buffer[Slot(tail)]
  <2> SUFFICES ASSUME pcC = "release" PROVE buffer'[Slot(tail)] = buffer[Slot(tail)]
    OBVIOUS
  <2>1. Waiting > 0
    BY DEF ChecksStillHold
  <2>2. buffer'[Slot(tail + 0)] = buffer[Slot(tail + 0)]
    BY <1>6, <2>1, WaitingFacts
  <2> QED
    BY <2>2, WaitingFacts
<1>8. SlotsFilled'
  BY <1>1, <1>6, <1>7 DEF SlotsFilled, WriteSlot, consVars, SingleProducer
<1> QED
  BY <1>1, <1>3, <1>4, <1>6, <1>8

\* Storing head: one more item waits, the one in the slot of the old head.
LEMMA PublishStep ==
  ASSUME RingInv, SingleProducer, NEW p \in Producers, StoreHead(p)
  PROVE  RingInv' /\ Waiting' = Waiting + 1 /\ buffer[Slot(tail + Waiting)] = itemP[p]
<1> USE DEF RingInv
<1>1. headP[p] = head /\ itemP[p] \in Items /\ Waiting < Capacity
      /\ buffer[Slot(head)] = itemP[p]
  BY DEF StoreHead, CopiesCurrent, ChecksStillHold, SlotsFilled
<1>2. Waiting' = Waiting + 1
  BY <1>1, WaitingFacts, MinusPlus1 DEF Waiting, StoreHead
<1>3. TypeOK'
  BY <1>1, WaitingFacts, Plus1Facts DEF StoreHead, TypeOK, consVars
<1>4. CopiesCurrent' /\ ChecksStillHold'
  BY <1>1, <1>2, WaitingFacts, CapacityAssumption
     DEF StoreHead, TypeOK, CopiesCurrent, ChecksStillHold, consVars, SingleProducer
<1>5. buffer[Slot(tail + Waiting)] = itemP[p]
  BY <1>1, WaitingFacts
<1>6. \A k \in 0 .. Waiting : buffer[Slot(tail + k)] \in Items
  BY <1>1, <1>5, WaitingFacts DEF SlotsFilled
<1>7. SlotsFilled'
  BY <1>2, <1>6, WaitingFacts DEF StoreHead, TypeOK, SlotsFilled, consVars, SingleProducer
<1> QED
  BY <1>2, <1>3, <1>4, <1>5, <1>7

\* Storing tail: one item less waits, the others keep their slots.
LEMMA ReleaseStep ==
  ASSUME RingInv, StoreTail
  PROVE  /\ RingInv' /\ Waiting > 0 /\ Waiting' = Waiting - 1
         /\ \A k \in Int : Slot(tail' + k) = Slot(tail + 1 + k)
<1> USE DEF RingInv
<1>1. tailC = tail /\ Waiting > 0
  BY DEF StoreTail, CopiesCurrent, ChecksStillHold
<1>2. Waiting' = Waiting - 1
  BY <1>1, WaitingFacts, MinusPlus1 DEF Waiting, StoreTail
<1>3. TypeOK'
  BY <1>1, WaitingFacts, Plus1Facts DEF StoreTail, TypeOK, prodVars
<1>4. CopiesCurrent' /\ ChecksStillHold'
  BY <1>1, <1>2, WaitingFacts, CapacityAssumption
     DEF StoreTail, TypeOK, CopiesCurrent, ChecksStillHold, prodVars
<1>5. \A k \in Int : Slot(tail' + k) = Slot(tail + 1 + k)
  BY <1>1, WaitingFacts, SlotAfterTail DEF StoreTail
<1>6. \A k \in 0 .. Waiting - 2 : buffer[Slot(tail' + k)] \in Items
  <2> TAKE k \in 0 .. Waiting - 2
  <2>1. buffer[Slot(tail + (1 + k))] \in Items
    BY WaitingFacts DEF SlotsFilled
  <2>2. tail + 1 + k = tail + (1 + k)
    BY WaitingFacts
  <2> QED
    BY <1>5, <2>1, <2>2, WaitingFacts
<1>7. SlotsFilled'
  BY <1>2, <1>6, WaitingFacts DEF StoreTail, SlotsFilled, prodVars
<1> QED
  BY <1>1, <1>2, <1>3, <1>4, <1>5, <1>7

LEMMA RingInductive == SingleProducer /\ RingInv /\ [Next]_vars => RingInv'
<1> SUFFICES ASSUME SingleProducer, RingInv, [Next]_vars PROVE RingInv'
  OBVIOUS
<1>1. CASE \E p \in Producers : WriteSlot(p)
  BY <1>1, WriteStep
<1>2. CASE \E p \in Producers : StoreHead(p)
  BY <1>2, PublishStep
<1>3. CASE StoreTail
  BY <1>3, ReleaseStep
<1>4. CASE \E p \in Producers : Call(p) \/ CheckRoom(p) \/ WaitForRoom(p)
  <2>1. UNCHANGED <<buffer, head, tail>>
    BY <1>4 DEF Call, LoadHead, CheckRoom, WaitForRoom
  <2> QED
    BY <1>4, <2>1, LocalStep
<1>5. CASE LoadTail \/ CheckItem \/ ReadSlot \/ UNCHANGED vars
  <2>1. UNCHANGED <<buffer, head, tail>>
    BY <1>5 DEF LoadTail, CheckItem, ReadSlot, vars
  <2> QED
    BY <1>5, <2>1, LocalStep
<1> QED
  BY <1>1, <1>2, <1>3, <1>4, <1>5 DEF Next, ProducerStep, ConsumerStep

LEMMA RingSlots == RingInv => NoSlotRace
<1> SUFFICES ASSUME RingInv, NEW p \in Producers, pcP[p] \in {"write", "publish"}
             PROVE  /\ \A k \in 0 .. Waiting - 1 : Slot(headP[p]) # Slot(tail + k)
                    /\ pcC \in {"read", "release"} => Slot(headP[p]) # Slot(tailC)
  BY DEF NoSlotRace
<1> USE DEF RingInv
<1>1. headP[p] = head /\ Waiting < Capacity
  BY DEF CopiesCurrent, ChecksStillHold
<1>2. \A k \in 0 .. Waiting - 1 : Slot(head) # Slot(tail + k)
  <2> TAKE k \in 0 .. Waiting - 1
  <2>1. /\ tail + k \in Int /\ tail + Waiting \in Int
        /\ tail + k < tail + Waiting /\ tail + Waiting < tail + k + Capacity
    BY <1>1, WaitingFacts, CapacityAssumption
  <2> QED
    BY <2>1, SlotDistinct, WaitingFacts
<1>3. ASSUME pcC \in {"read", "release"} PROVE Slot(head) # Slot(tailC)
  <2>1. Waiting > 0 /\ tailC = tail
    BY <1>3 DEF ChecksStillHold, CopiesCurrent
  <2>2. Slot(head) # Slot(tail + 0)
    BY <1>2, <2>1, WaitingFacts
  <2> QED
    BY <2>1, <2>2, WaitingFacts
<1> QED
  BY <1>1, <1>2, <1>3

\* With one producer the queue never leaves its types, never hands out a slot
\* nobody filled, and the two threads never touch one slot at the same time:
\* spsc_queue.h needs no lock on its slots.
THEOREM RingSafety == SingleProducer => (Spec => [](TypeOK /\ NoSlotRace))
<1> SUFFICES ASSUME SingleProducer PROVE Spec => [](TypeOK /\ NoSlotRace)
  OBVIOUS
<1>1. Init => RingInv
  BY InitRing
<1>2. RingInv /\ [Next]_vars => RingInv'
  BY RingInductive
<1>3. RingInv => TypeOK /\ NoSlotRace
  BY RingSlots DEF RingInv
<1> QED
  BY <1>1, <1>2, <1>3, PTL DEF Spec
--------------------------------------------------------------------------------
(* The ring implements the bounded FIFO queue. *)

\* A sequence without its first element.
LEMMA SeqTail ==
  ASSUME NEW S, NEW s \in Seq(S), NEW t \in Seq(S),
         Len(s) > 0, Len(t) = Len(s) - 1,
         \A k \in 1 .. Len(s) - 1 : t[k] = s[k + 1]
  PROVE  s # << >> /\ Head(s) = s[1] /\ t = Tail(s)
<1>1. Tail(s) \in Seq(S) /\ Len(Tail(s)) = Len(s) - 1
  OBVIOUS
<1>2. \A k \in 1 .. Len(s) - 1 : Tail(s)[k] = s[k + 1]
  OBVIOUS
<1>3. t = Tail(s)
  BY <1>1, <1>2
<1> QED
  BY <1>3

ContentsOK ==
  /\ Contents \in Seq(Items)
  /\ Len(Contents) = Waiting
  /\ \A k \in 1 .. Waiting : Contents[k] = buffer[Slot(tail + (k - 1))]

LEMMA ContentsSeq == RingInv => ContentsOK
<1> SUFFICES ASSUME RingInv PROVE ContentsOK
  OBVIOUS
<1> USE DEF RingInv
<1>1. \A k \in 1 .. Waiting : /\ tail + k - 1 = tail + (k - 1)
                              /\ buffer[Slot(tail + (k - 1))] \in Items
  <2> TAKE k \in 1 .. Waiting
  <2>1. k - 1 \in 0 .. Waiting - 1 /\ tail + k - 1 = tail + (k - 1)
    BY WaitingFacts
  <2> QED
    BY <2>1 DEF SlotsFilled
<1>2. Waiting \in Nat
  BY WaitingFacts
<1> QED
  BY <1>1, <1>2 DEF Contents, ContentsOK

LEMMA InitFifo == Init => Fifo!FifoInit
<1> SUFFICES ASSUME Init PROVE Contents = << >> /\ delivered = NoItem
  BY DEF Fifo!FifoInit
<1>1. RingInv
  BY InitRing
<1>2. 0 \in Indices
  BY WrapFacts, CapacityAssumption DEF Indices
<1>3. Waiting = 0
  BY <1>2, MinusFacts DEF Init, Waiting
<1> QED
  BY <1>1, <1>3, ContentsSeq DEF Init, ContentsOK

\* Publishing is the abstract enqueue.
LEMMA PublishRefines ==
  ASSUME RingInv, SingleProducer, NEW p \in Producers, StoreHead(p)
  PROVE  Fifo!FifoEnqueue(itemP[p]) /\ itemP[p] \in Items
<1>1. /\ RingInv' /\ Waiting' = Waiting + 1
      /\ buffer[Slot(tail + Waiting)] = itemP[p]
  BY PublishStep
<1>2. Waiting < Capacity /\ itemP[p] \in Items
  BY DEF RingInv, ChecksStillHold, CopiesCurrent, StoreHead
<1>3. buffer' = buffer /\ tail' = tail /\ delivered' = delivered
  BY DEF StoreHead, consVars
<1>4. Waiting \in Nat
  BY WaitingFacts DEF RingInv
<1>5. ContentsOK
  BY ContentsSeq
<1>6. /\ Contents' \in Seq(Items) /\ Len(Contents') = Waiting + 1
      /\ \A k \in 1 .. Waiting + 1 : Contents'[k] = buffer[Slot(tail + (k - 1))]
  <2>1. ContentsOK'
    BY <1>1, ContentsSeq, PTL
  <2> QED
    BY <1>1, <1>3, <2>1 DEF ContentsOK
<1>7. Contents'[Waiting + 1] = itemP[p]
  BY <1>1, <1>4, <1>6
<1>8. Contents' = Append(Contents, itemP[p])
  BY <1>2, <1>4, <1>5, <1>6, <1>7 DEF ContentsOK
<1> QED
  BY <1>2, <1>3, <1>5, <1>8 DEF Fifo!FifoEnqueue, ContentsOK

\* Storing tail is the abstract dequeue.
LEMMA ReleaseRefines ==
  ASSUME RingInv, StoreTail
  PROVE  Fifo!FifoDequeue
<1>1. /\ RingInv' /\ Waiting > 0 /\ Waiting' = Waiting - 1
      /\ \A k \in Int : Slot(tail' + k) = Slot(tail + 1 + k)
  BY ReleaseStep
<1>2. buffer' = buffer /\ delivered' = itemC /\ itemC = buffer[Slot(tail)]
  BY DEF StoreTail, RingInv, SlotsFilled
<1>3. Waiting \in Nat /\ tail \in Int
  BY WaitingFacts DEF RingInv
<1>4. ContentsOK
  BY ContentsSeq
<1>5. ContentsOK'
  BY <1>1, ContentsSeq, PTL
<1>6. \A k \in 1 .. Waiting - 1 : Contents'[k] = Contents[k + 1]
  <2> TAKE k \in 1 .. Waiting - 1
  <2>1. Contents'[k] = buffer[Slot(tail' + (k - 1))]
    BY <1>1, <1>2, <1>5 DEF ContentsOK
  <2>2. Contents[k + 1] = buffer[Slot(tail + k)]
    <3>1. k + 1 \in 1 .. Waiting /\ (k + 1) - 1 = k
      BY <1>3
    <3> QED
      BY <1>4, <3>1 DEF ContentsOK
  <2>3. Slot(tail' + (k - 1)) = Slot(tail + 1 + (k - 1)) /\ tail + 1 + (k - 1) = tail + k
    BY <1>1, <1>3
  <2> QED
    BY <2>1, <2>2, <2>3
<1>7. Contents[1] = itemC
  <2>1. \A k \in 1 .. Waiting : k = 1 => tail + (k - 1) = tail
    BY <1>3
  <2>2. 1 \in 1 .. Waiting
    BY <1>1, <1>3
  <2> QED
    BY <1>2, <1>4, <2>1, <2>2 DEF ContentsOK
<1>8. Contents # << >> /\ Head(Contents) = Contents[1] /\ Contents' = Tail(Contents)
  BY <1>1, <1>4, <1>5, <1>6, SeqTail DEF ContentsOK
<1> QED
  BY <1>2, <1>7, <1>8 DEF Fifo!FifoDequeue

LEMMA WriteRefines ==
  ASSUME RingInv, SingleProducer, NEW p \in Producers, WriteSlot(p)
  PROVE  UNCHANGED Fifo!fifoVars
<1>1. /\ RingInv' /\ Waiting' = Waiting /\ tail' = tail
      /\ \A k \in 0 .. Waiting - 1 : buffer'[Slot(tail + k)] = buffer[Slot(tail + k)]
  BY WriteStep
<1>2. Waiting \in Nat
  BY WaitingFacts DEF RingInv
<1>3. ContentsOK
  BY ContentsSeq
<1>4. ContentsOK'
  BY <1>1, ContentsSeq, PTL
<1>5. \A k \in 1 .. Waiting : Contents'[k] = Contents[k]
  <2> TAKE k \in 1 .. Waiting
  <2>1. k - 1 \in 0 .. Waiting - 1
    BY <1>2
  <2> QED
    BY <1>1, <1>3, <1>4, <2>1 DEF ContentsOK
<1>6. Contents' = Contents
  BY <1>1, <1>2, <1>3, <1>4, <1>5 DEF ContentsOK
<1> QED
  BY <1>6 DEF Fifo!fifoVars, WriteSlot, consVars

\* With one producer the ring implements the bounded FIFO queue: every item
\* accepted by enqueue or enqueue_spin is returned by exactly one dequeue, in
\* order, also across the wrap-around of the 64-bit indices.
THEOREM RingIsFifo == SingleProducer => (Spec => IsBoundedFifo)
<1> SUFFICES ASSUME SingleProducer PROVE Spec => IsBoundedFifo
  OBVIOUS
<1>1. Init => RingInv
  BY InitRing
<1>2. RingInv /\ [Next]_vars => RingInv'
  BY RingInductive
<1>3. RingInv /\ [Next]_vars => [Fifo!FifoNext]_Fifo!fifoVars
  <2> SUFFICES ASSUME RingInv, [Next]_vars PROVE [Fifo!FifoNext]_Fifo!fifoVars
    OBVIOUS
  <2>1. CASE \E p \in Producers : WriteSlot(p)
    BY <2>1, WriteRefines
  <2>2. CASE \E p \in Producers : StoreHead(p)
    BY <2>2, PublishRefines DEF Fifo!FifoNext
  <2>3. CASE StoreTail
    BY <2>3, ReleaseRefines DEF Fifo!FifoNext
  <2>4. CASE \/ \E p \in Producers : Call(p) \/ CheckRoom(p) \/ WaitForRoom(p)
             \/ LoadTail \/ CheckItem \/ ReadSlot \/ UNCHANGED vars
    <3>1. UNCHANGED <<buffer, head, tail, delivered>>
      BY <2>4 DEF Call, LoadHead, CheckRoom, WaitForRoom, LoadTail, CheckItem,
                  ReadSlot, vars, consVars
    <3> QED
      BY <3>1 DEF Fifo!fifoVars, Contents, Waiting
  <2> QED
    BY <2>1, <2>2, <2>3, <2>4 DEF Next, ProducerStep, ConsumerStep
<1>4. Init => Fifo!FifoInit
  BY InitFifo
<1> QED
  BY <1>1, <1>2, <1>3, <1>4, PTL DEF Spec, IsBoundedFifo, Fifo!FifoSpec
================================================================================
