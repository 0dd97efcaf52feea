----------------------------- MODULE LayerBook -----------------------------
(***************************************************************************)
(* The order slots of one side book (hft/src/layer_book.h): a fixed array  *)
(* of layers, the tick each layer quotes, the replace that is pending on a *)
(* layer and the two maps from order ids to layers.  Pure operators over a *)
(* side-book record; the OrderManager module holds the state.              *)
(***************************************************************************)
EXTENDS Integers, Sequences, FiniteSets, FiniteSetsExt, Functions, TLC

CONSTANTS NumLayers,   \* kSlotsPerSide (8 in the code)
          ScaleInt,    \* TickConverter::scale_int, raw price units per tick
          NoPending    \* std::nullopt in pending_repl

ASSUME LayerAssumption == NumLayers \in Nat \ {0} /\ ScaleInt \in Nat \ {0}

Layers == 0 .. NumLayers - 1

NoLayer == -1

\* numeric_limits<uint64_t>::min(): the tick of price 0, and of no layer.
kTicksInvalid == 0

\* Ids are timestamps, never 0; the code's invalid id is the largest uint64.
kOrderIdInvalid == 0

OMOrderState ==
  {"Invalid", "PendingNew", "Live", "PendingCancel", "Dead", "Reserved",
   "CancelReserved"}

EmptySlot ==
  [state |-> "Invalid", price |-> 0, qty |-> 0, last_used |-> 0,
   cl_order_id |-> kOrderIdInvalid]

EmptyMap == [id \in {} |-> NoLayer]

EmptySideBook ==
  [slots |-> [l \in Layers |-> EmptySlot],
   layer_ticks |-> [l \in Layers |-> kTicksInvalid],
   pending_repl |-> [l \in Layers |-> NoPending],
   orig_id_to_layer |-> EmptyMap,
   new_id_to_layer |-> EmptyMap]

to_ticks_raw(price) == price \div ScaleInt

First(S) == IF S = {} THEN NoLayer ELSE Min(S)

find_layer_by_ticksFromOne(sb, tick) ==
  First({l \in Layers \ {0} : sb.layer_ticks[l] = tick})

find_layer_by_ticks(sb, tick) == First({l \in Layers : sb.layer_ticks[l] = tick})

find_layer_by_id(sb, id) ==
  IF id = kOrderIdInvalid
    THEN NoLayer
    ELSE First({l \in Layers : sb.slots[l].cl_order_id = id})

find_layer(sb, id, price) ==
  LET byId == find_layer_by_id(sb, id)
  IN  IF byId # NoLayer
        THEN byId
        ELSE find_layer_by_ticks(sb, to_ticks_raw(price))

FreeLayers(sb) ==
  {l \in Layers : \/ sb.slots[l].state \in {"Invalid", "Dead"}
                  \/ sb.layer_ticks[l] = kTicksInvalid}

find_free_layer(sb) == First(FreeLayers(sb))

\* The first of the least recently used layers.
pick_victim_layer(sb) ==
  First({v \in Layers :
           \A l \in Layers : sb.slots[v].last_used <= sb.slots[l].last_used})

\* The layer an intent at tick goes to, and whether a live order must yield it.
plan_layer(sb, tick) ==
  LET same == find_layer_by_ticks(sb, tick)
      free == find_free_layer(sb)
      victim == pick_victim_layer(sb)
  IN  IF same # NoLayer
        THEN [layer |-> same, victim |-> FALSE]
        ELSE IF free # NoLayer
        THEN [layer |-> free, victim |-> FALSE]
        ELSE [layer |-> victim,
              victim |-> sb.slots[victim].state = "Live"]

\* What is left of an id map once the entries of layer l are erased.
Without(map, l) == RestrictValues(map, LAMBDA m : m # l)

Erase(map, id) == RestrictDomain(map, LAMBDA i : i # id)

unmap_layer(sb, l) ==
  [sb EXCEPT !.layer_ticks[l] = kTicksInvalid,
             !.new_id_to_layer = Without(@, l),
             !.orig_id_to_layer = Without(@, l),
             !.pending_repl[l] = NoPending]

=============================================================================
