------------------------------- MODULE SpscQueue -------------------------------
(***************************************************************************)
(* common::SPSCQueue<T, Capacity> (hft/common/spsc_queue.h): a ring of     *)
(* Capacity slots, an index head stored by the producer and an index tail  *)
(* stored by the consumer.  Each atomic load or store and each access to a *)
(* slot is one step; the release store of an index and its acquire load    *)
(* order the slot accesses, so steps are interleaved in program order.     *)
(*                                                                         *)
(* The indices are std::size_t values that are never reset and wrap at     *)
(* 2^64: they are kept modulo Wrap.  Producers has one member in the use   *)
(* the class is written for; a larger set models a queue that several      *)
(* threads fill.                                                           *)
(***************************************************************************)
EXTENDS Integers, Sequences

CONSTANTS
  Producers,  \* the threads that call enqueue or enqueue_spin
  Items,      \* the values that are sent
  NoItem,     \* the contents of a slot, or a receiver, before first use
  Capacity,   \* the template argument Capacity
  Laps        \* Wrap = Laps * Capacity: 2^64 is a multiple of Capacity

ASSUME CapacityAssumption == Capacity \in Nat /\ Capacity >= 2
ASSUME LapsAssumption == Laps \in Nat /\ Laps >= 2
ASSUME ItemsAssumption == NoItem \notin Items

Wrap == Laps * Capacity

VARIABLES
  buffer,    \* buffer_: the slots
  head,      \* producer_.head
  tail,      \* consumer_.tail
  pcP,       \* the step each producer is at
  itemP,     \* the item of each producer's call
  headP,     \* each producer's local copy of head
  pcC,       \* the step the consumer is at
  tailC,     \* the consumer's local copy of tail
  itemC,     \* the item the consumer has copied out of its slot
  delivered  \* the item returned by the last successful dequeue

prodVars == <<pcP, itemP, headP>>
consVars == <<pcC, tailC, itemC, delivered>>
vars == <<buffer, head, tail, prodVars, consVars>>

Indices == 0 .. Wrap - 1
Slots == 0 .. Capacity - 1

\* head & kMask: Capacity is a power of two
Slot(i) == i % Capacity
\* size_t arithmetic on the indices
Plus1(i) == (i + 1) % Wrap
Minus(h, t) == (h - t) % Wrap

Init ==
  /\ buffer = [s \in Slots |-> NoItem]
  /\ head = 0
  /\ tail = 0
  /\ pcP = [p \in Producers |-> "idle"]
  /\ itemP = [p \in Producers |-> NoItem]
  /\ headP = [p \in Producers |-> 0]
  /\ pcC = "idle"
  /\ tailC = 0
  /\ itemC = NoItem
  /\ delivered = NoItem
--------------------------------------------------------------------------------
(* The producer.  kind is the call: "enqueue" gives up on a full queue,    *)
(* "enqueue_spin" reads tail again until there is room.                    *)

LoadHeadOnFirstCall(p, i, kind) ==
  /\ pcP[p] = "idle"
  /\ pcP' = [pcP EXCEPT ![p] = kind]
  /\ itemP' = [itemP EXCEPT ![p] = i]
  /\ UNCHANGED <<buffer, head, tail, headP, consVars>>

\* auto head = producer_.head.load(relaxed), on entry of either call
LoadHead(p, i, kind) ==
  /\ pcP[p] = "idle"
  /\ pcP' = [pcP EXCEPT ![p] = kind]
  /\ itemP' = [itemP EXCEPT ![p] = i]
  /\ headP' = [headP EXCEPT ![p] = head]
  /\ UNCHANGED <<buffer, head, tail, consVars>>

CheckRoomOffByOne(p) ==
  /\ pcP[p] = "enqueue"
  /\ pcP' = [pcP EXCEPT ![p] =
               IF Minus(headP[p], tail) = Capacity + 1 THEN "idle" ELSE "write"]
  /\ UNCHANGED <<buffer, head, tail, itemP, headP, consVars>>

\* enqueue: load tail and return false when head - tail == Capacity
CheckRoom(p) ==
  /\ pcP[p] = "enqueue"
  /\ pcP' = [pcP EXCEPT ![p] =
               IF Minus(headP[p], tail) = Capacity THEN "idle" ELSE "write"]
  /\ UNCHANGED <<buffer, head, tail, itemP, headP, consVars>>

\* enqueue_spin: one round of the loop that ends when head - tail != Capacity
\* (a round that finds the queue full changes nothing)
WaitForRoom(p) ==
  /\ pcP[p] = "enqueue_spin"
  /\ Minus(headP[p], tail) # Capacity
  /\ pcP' = [pcP EXCEPT ![p] = "write"]
  /\ UNCHANGED <<buffer, head, tail, itemP, headP, consVars>>

\* buffer_[head & kMask] = item
WriteSlot(p) ==
  /\ pcP[p] = "write"
  /\ buffer' = [buffer EXCEPT ![Slot(headP[p])] = itemP[p]]
  /\ pcP' = [pcP EXCEPT ![p] = "publish"]
  /\ UNCHANGED <<head, tail, itemP, headP, consVars>>

\* producer_.head.store(head + 1, release)
StoreHead(p) ==
  /\ pcP[p] = "publish"
  /\ head' = Plus1(headP[p])
  /\ pcP' = [pcP EXCEPT ![p] = "idle"]
  /\ UNCHANGED <<buffer, tail, itemP, headP, consVars>>
--------------------------------------------------------------------------------
(* The consumer: dequeue. *)

\* auto tail = consumer_.tail.load(relaxed)
LoadTail ==
  /\ pcC = "idle"
  /\ pcC' = "check"
  /\ tailC' = tail
  /\ UNCHANGED <<buffer, head, tail, prodVars, itemC, delivered>>

CheckItemDropped ==
  /\ pcC = "check"
  /\ pcC' = "read"
  /\ UNCHANGED <<buffer, head, tail, prodVars, tailC, itemC, delivered>>

CheckItemAgainstFull ==
  /\ pcC = "check"
  /\ pcC' = IF tailC = head \/ Minus(head, tailC) = Capacity THEN "idle" ELSE "read"
  /\ UNCHANGED <<buffer, head, tail, prodVars, tailC, itemC, delivered>>

\* load head and return false when tail == head
CheckItem ==
  /\ pcC = "check"
  /\ pcC' = IF tailC = head THEN "idle" ELSE "read"
  /\ UNCHANGED <<buffer, head, tail, prodVars, tailC, itemC, delivered>>

\* item = buffer_[tail & kMask]
ReadSlot ==
  /\ pcC = "read"
  /\ itemC' = buffer[Slot(tailC)]
  /\ pcC' = "release"
  /\ UNCHANGED <<buffer, head, tail, prodVars, tailC, delivered>>

\* consumer_.tail.store(tail + 1, release); return true
StoreTail ==
  /\ pcC = "release"
  /\ tail' = Plus1(tailC)
  /\ delivered' = itemC
  /\ pcC' = "idle"
  /\ UNCHANGED <<buffer, head, prodVars, tailC, itemC>>
--------------------------------------------------------------------------------
ProducerStep(p) ==
  \/ CheckRoom(p) \/ WaitForRoom(p) \/ WriteSlot(p) \/ StoreHead(p)

Call(p) ==
  \E i \in Items, kind \in {"enqueue", "enqueue_spin"} : LoadHead(p, i, kind)

ConsumerStep == LoadTail \/ CheckItem \/ ReadSlot \/ StoreTail

Next == ConsumerStep \/ \E p \in Producers : Call(p) \/ ProducerStep(p)

\* A thread inside a call keeps running, and the consumer's thread polls the
\* queue in a loop (TradeEngine::run); nobody has to call enqueue.
Fairness ==
  /\ WF_vars(ConsumerStep)
  /\ \A p \in Producers : WF_vars(ProducerStep(p))

Spec == Init /\ [][Next]_vars /\ Fairness
--------------------------------------------------------------------------------
\* How many published items wait, and the sequence they form, oldest first
Waiting == Minus(head, tail)
Contents == [k \in 1 .. Waiting |-> buffer[Slot(tail + k - 1)]]

\* Every variable keeps a value of its C++ type; an item copied out by dequeue
\* is one that a producer stored, never the initial contents of a slot.
TypeOK ==
  /\ buffer \in [Slots -> Items \cup {NoItem}]
  /\ head \in Indices
  /\ tail \in Indices
  /\ pcP \in [Producers -> {"idle", "enqueue", "enqueue_spin", "write", "publish"}]
  /\ itemP \in [Producers -> Items \cup {NoItem}]
  /\ headP \in [Producers -> Indices]
  /\ pcC \in {"idle", "check", "read", "release"}
  /\ tailC \in Indices
  /\ itemC \in Items \cup {NoItem}
  /\ pcC = "release" => itemC \in Items
  /\ delivered \in Items \cup {NoItem}

\* The slot a producer is about to write, or has written and not published, is
\* never one that holds a waiting item or the one the consumer is copying from:
\* the two threads never touch the same slot at the same time (spsc_queue.h
\* accesses slots without atomics).
NoSlotRace ==
  \A p \in Producers :
    pcP[p] \in {"write", "publish"} =>
      /\ \A k \in 0 .. Waiting - 1 : Slot(headP[p]) # Slot(tail + k)
      /\ pcC \in {"read", "release"} => Slot(headP[p]) # Slot(tailC)

\* The inductive invariant behind the two properties, for a single producer.
\* No side is overtaken (the published items fit the ring), the local copies
\* inside a call are still current, and a side that passed its check still has
\* what it checked for: the other side's steps only make more room, or more
\* items.
CopiesCurrent ==
  /\ \A p \in Producers : pcP[p] # "idle" => headP[p] = head /\ itemP[p] \in Items
  /\ pcC # "idle" => tailC = tail

ChecksStillHold ==
  /\ Waiting <= Capacity
  /\ \A p \in Producers : pcP[p] \in {"write", "publish"} => Waiting < Capacity
  /\ pcC \in {"read", "release"} => Waiting > 0

SlotsFilled ==
  /\ \A k \in 0 .. Waiting - 1 : buffer[Slot(tail + k)] \in Items
  /\ \A p \in Producers : pcP[p] = "publish" => buffer[Slot(head)] = itemP[p]
  /\ pcC = "release" => itemC = buffer[Slot(tail)]

RingInv == TypeOK /\ CopiesCurrent /\ ChecksStillHold /\ SlotsFilled

\* The ring implements a bounded FIFO queue: no accepted item is lost,
\* duplicated, reordered or overwritten, across the wrap-around of the indices.
Fifo == INSTANCE BoundedFifo WITH queue <- Contents
IsBoundedFifo == Fifo!FifoSpec

\* A producer inside enqueue_spin gets its item into the queue: the consumer
\* keeps making room.
SpinReturns ==
  \A p \in Producers : pcP[p] = "enqueue_spin" ~> pcP[p] = "idle"
================================================================================
