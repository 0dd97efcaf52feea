------------------------------ MODULE BoundedFifo ------------------------------
(***************************************************************************)
(* What common::SPSCQueue promises its users: a bounded first-in first-out *)
(* queue.  An accepted item is delivered once, after the items accepted    *)
(* before it, and an item is accepted only while fewer than Capacity are   *)
(* waiting.  Refused calls (enqueue or dequeue returning false) leave the  *)
(* queue as it is and are stuttering steps here.                           *)
(***************************************************************************)
EXTENDS Naturals, Sequences

CONSTANTS
  Items,     \* the values that travel through the queue
  NoItem,    \* what the receiver holds before its first delivery
  Capacity   \* how many items the queue can hold

VARIABLES
  queue,     \* the accepted items that are not delivered yet, oldest first
  delivered  \* the item handed out by the last successful dequeue

fifoVars == <<queue, delivered>>

FifoInit ==
  /\ queue = << >>
  /\ delivered = NoItem

FifoEnqueue(i) ==
  /\ Len(queue) < Capacity
  /\ queue' = Append(queue, i)
  /\ UNCHANGED delivered

FifoDequeue ==
  /\ queue # << >>
  /\ delivered' = Head(queue)
  /\ queue' = Tail(queue)

FifoNext == FifoDequeue \/ \E i \in Items : FifoEnqueue(i)

FifoSpec == FifoInit /\ [][FifoNext]_fifoVars
================================================================================
