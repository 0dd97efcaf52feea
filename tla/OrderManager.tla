---------------------------- MODULE OrderManager ----------------------------
(***************************************************************************)
(* The OrderManager of one ticker (hft/src/order_manager.hpp) with its     *)
(* reconciler, venue policy, state manager, reserved-position tracker and  *)
(* expiry manager, and the pre-trade risk check it calls.  All of it runs  *)
(* on the TradeEngine thread: apply() when the strategy quotes,            *)
(* on_order_updated() when an execution report is dequeued.  Both          *)
(* strategies pass apply() at most one intent.                             *)
(*                                                                         *)
(* Time counts calls of apply().  An order id is the time of the call that *)
(* made it; doubling it leaves room for the id - 1 that spot gives to the  *)
(* cancel half of a replace.                                               *)
(***************************************************************************)
EXTENDS OrderGateway

CONSTANTS Prices, Qtys,                        \* what an intent may ask for
          TtlReserved, TtlLive,                \* [orders] ttl_*_ns
          MinReplaceTickDelta, MinReplaceQtyDelta,
          MinTimeGap, MinQty, MaxQty, QtyIncrement, MinUsdt, QtyScale,
          MaxOrderSize, MaxPosition, MinPosition,
          MaxTime                              \* bound on calls of apply()

ASSUME OrderManagerAssumption ==
  /\ Prices \subseteq Nat \ {0} /\ Qtys \subseteq Nat
  /\ QtyIncrement \in Nat \ {0} /\ QtyScale \in Nat \ {0}
  /\ MaxTime \in Nat

VARIABLES book,      \* layer_book_: side book of every key
          reserved,  \* position_tracker_.reserved_position_
          expiry,    \* expiry_pq_
          position,  \* PositionInfo::position_
          now        \* fast_clock_

managerVars == <<exchange, book, reserved, expiry, position, now>>

sideToValue(side) == IF side = "buy" THEN 1 ELSE -1

OrderId(t) == 2 * t
Ids == 1 .. 2 * MaxTime

ManagerInit ==
  /\ book = [k \in Keys |-> EmptySideBook]
  /\ reserved = 0
  /\ expiry = {}
  /\ position = 0
  /\ now = 0

-----------------------------------------------------------------------------
(* Expiry.  A TTL that ends past the bound on time lapses at the bound, so *)
(* that it still lapses; a TTL longer than the bound never does.           *)

ExpiryKey(key, layer, id, ttl, t) ==
  [expire_ts |-> IF ttl <= MaxTime /\ t + ttl > MaxTime THEN MaxTime ELSE t + ttl,
   key |-> key, layer |-> layer, id |-> id]

register_expiryWithoutId(exp, key, layer, id, state, t) ==
  exp \cup {ExpiryKey(key, layer, kOrderIdInvalid, TtlLive, t)}

register_expiry(exp, key, layer, id, state, t) ==
  exp \cup {ExpiryKey(key, layer, id,
              IF state \in {"Reserved", "CancelReserved"}
                THEN TtlReserved ELSE TtlLive, t)}

Due(exp, t) == {e \in exp : e.expire_ts <= t}

ToCancelAnyOrder(bk, exp, t) ==
  {e \in Due(exp, t) : bk[e.key].slots[e.layer].state \in {"Live", "Reserved"}}

\* The expired keys that still name the order in their slot.
ToCancel(bk, exp, t) ==
  {e \in Due(exp, t) :
     LET slot == bk[e.key].slots[e.layer]
     IN  slot.cl_order_id = e.id /\ slot.state \in {"Live", "Reserved"}}

CancelRequestOfHalf(id) ==
  [kind |-> "cancel", key |-> NoKey, id |-> id, orig |-> id - 1, price |-> 0, qty |-> 0]

CancelRequest(id) ==
  [kind |-> "cancel", key |-> NoKey, id |-> id, orig |-> id, price |-> 0, qty |-> 0]

\* sweep_expired_orders after the rest of apply() has left bk and exp, having
\* sent reqs.
Sweep(bk, exp, t, reqs) ==
  LET hit == ToCancel(bk, exp, t)
      Cancelled(k, l) == \E e \in hit : e.key = k /\ e.layer = l
  IN  /\ book' = [k \in Keys |-> [bk[k] EXCEPT !.slots =
                   [l \in Layers |->
                      IF Cancelled(k, l)
                        THEN [@[l] EXCEPT !.state = "CancelReserved", !.last_used = t]
                        ELSE @[l]]]]
      /\ expiry' = exp \ Due(exp, t)
      /\ order_request(reqs \o
           SetToSeq({CancelRequest(bk[e.key].slots[e.layer].cl_order_id) : e \in hit}))

-----------------------------------------------------------------------------
(* QuoteReconciler::diff for one intent.                                    *)

Abs(n) == IF n < 0 THEN -n ELSE n

Differs(slot, intent) ==
  \/ Abs(to_ticks_raw(slot.price) - to_ticks_raw(intent.price)) >= MinReplaceTickDelta
  \/ Abs(slot.qty - intent.qty) >= MinReplaceQtyDelta

ActionKind(plan, slot, intent) ==
  CASE intent.qty = 0 -> "none"
    [] intent.qty # 0 /\ (plan.victim \/ (slot.state = "Live" /\ Differs(slot, intent)))
         -> "replace"
    [] intent.qty # 0 /\ slot.state \in {"Invalid", "Dead"} -> "new"
    [] OTHER -> "none"

ActionFor(plan, slot, intent) ==
  [kind |-> ActionKind(plan, slot, intent), layer |-> plan.layer, key |-> intent.key,
   price |-> intent.price, qty |-> intent.qty,
   orig |-> slot.cl_order_id, last_qty |-> slot.qty]

diff(sb, intent) ==
  LET plan == plan_layer(sb, to_ticks_raw(intent.price))
  IN  ActionFor(plan, sb.slots[plan.layer], intent)

(* VenuePolicy::filter_by_venue.                                            *)

round_qty(qty) == ((qty + QtyIncrement - 1) \div QtyIncrement) * QtyIncrement

VenueQty(price, qty) ==
  LET atLeast == IF qty < MinQty THEN MinQty ELSE qty
      worth == IF (price * atLeast) \div QtyScale < MinUsdt
                 THEN (MinUsdt * QtyScale) \div price ELSE atLeast
  IN  round_qty(IF worth > MaxQty THEN MaxQty ELSE worth)

get_last_time(key) ==
  Max({0} \cup {book[key].slots[l].last_used :
                 l \in {m \in Layers : book[key].slots[m].state \in {"Live", "Reserved"}}})

\* Only an action with a position side is ever held back.
TooRecent(key, t) == supports_position_side /\ t - get_last_time(key) < MinTimeGap

(* RiskInfo::checkPreTradeRisk; the loss limit is left out.                 *)

check_pre_trade_riskWithoutReserved(side, qty, running) ==
  LET after == position + sideToValue(side) * qty
  IN  /\ qty <= MaxOrderSize
      /\ after <= MaxPosition
      /\ after >= MinPosition

check_pre_trade_risk(side, qty, running) ==
  LET after == position + running + sideToValue(side) * qty
  IN  /\ qty <= MaxOrderSize
      /\ after <= MaxPosition
      /\ after >= MinPosition

-----------------------------------------------------------------------------
(* apply().                                                                 *)

\* Futures strategies quote a position side, spot strategies none.
Intents == [key : {k \in Keys : supports_position_side <=> k.pos # "none"},
            price : Prices, qty : Qtys]

Tick(t) == IF t < MaxTime THEN t + 1 ELSE t

filter_by_venueWithoutLastQty(a, t) ==
  IF a.kind = "none" \/ TooRecent(a.key, t)
    THEN [a EXCEPT !.kind = "none"]
    ELSE [a EXCEPT !.qty = VenueQty(a.price, a.qty), !.last_qty = 0]

\* The action with its quantities adjusted, or none.
filter_by_venue(a, t) ==
  IF a.kind = "none" \/ TooRecent(a.key, t)
    THEN [a EXCEPT !.kind = "none"]
    ELSE [a EXCEPT !.qty = VenueQty(a.price, a.qty), !.last_qty = round_qty(@)]

\* What diff and then filter_by_venue leave of an intent.
Actions ==
  {filter_by_venue(diff(book[intent.key], intent), Tick(now)) : intent \in Intents}

TickTaken(a) ==
  find_layer_by_ticks(book[a.key], to_ticks_raw(a.price)) \notin {NoLayer, a.layer}

\* process_new_orders, then the sweep.
ApplyNew(a) ==
  LET t == Tick(now)
      id == OrderId(t)
      sb == [book[a.key] EXCEPT
               !.layer_ticks[a.layer] = to_ticks_raw(a.price),
               !.slots[a.layer] = [state |-> "Reserved", price |-> a.price, qty |-> a.qty,
                                   last_used |-> t, cl_order_id |-> id]]
      req == [kind |-> "new", key |-> a.key, id |-> id, orig |-> id,
              price |-> a.price, qty |-> a.qty]
  IN  /\ unposted = <<>> /\ now < MaxTime
      /\ a.kind = "new"
      /\ check_pre_trade_risk(a.key.side, a.qty, reserved)
      /\ ~TickTaken(a)
      /\ now' = t
      /\ reserved' = reserved + sideToValue(a.key.side) * a.qty
      /\ Sweep([book EXCEPT ![a.key] = sb],
               register_expiry(expiry, a.key, a.layer, id, "Reserved", t), t, <<req>>)
      /\ UNCHANGED position

PendingReplaceInfo(a, newId, slot, tick) ==
  [new_price |-> a.price, new_qty |-> a.qty, new_tick |-> to_ticks_raw(a.price),
   new_cl_order_id |-> newId, last_qty |-> a.last_qty, original_cl_order_id |-> a.orig,
   original_price |-> slot.price, original_tick |-> tick]

\* process_replace_orders, then the sweep.  Spot cancels and reorders under
\* two fresh ids; futures modifies the order under its own id, although the
\* slot takes the fresh one.
ApplyReplace(a) ==
  LET t == Tick(now)
      id == OrderId(t)
      old == book[a.key]
      newId == IF supports_cancel_and_reorder THEN id ELSE a.orig
      sb == [old EXCEPT
               !.layer_ticks[a.layer] = to_ticks_raw(a.price),
               !.slots[a.layer] = [state |-> "CancelReserved", price |-> a.price,
                                   qty |-> a.qty, last_used |-> t, cl_order_id |-> id],
               !.new_id_to_layer = (newId :> a.layer) @@ Without(@, a.layer),
               !.orig_id_to_layer = IF supports_cancel_and_reorder
                                      THEN (id - 1 :> a.layer) @@ @ ELSE @,
               !.pending_repl[a.layer] =
                  PendingReplaceInfo(a, newId, old.slots[a.layer], old.layer_ticks[a.layer])]
      req == [kind |-> IF supports_cancel_and_reorder THEN "replace" ELSE "modify",
              key |-> a.key, id |-> newId, orig |-> a.orig, price |-> a.price, qty |-> a.qty]
  IN  /\ unposted = <<>> /\ now < MaxTime
      /\ a.kind = "replace"
      /\ check_pre_trade_risk(a.key.side, a.qty - a.last_qty, reserved)
      /\ ~TickTaken(a)
      /\ now' = t
      /\ reserved' = reserved + sideToValue(a.key.side) * (a.qty - a.last_qty)
      /\ Sweep([book EXCEPT ![a.key] = sb],
               register_expiry(expiry, a.key, a.layer, id, "CancelReserved", t), t, <<req>>)
      /\ UNCHANGED position

\* No intent, or one that gives no action: only the sweep.
ApplyNone ==
  /\ unposted = <<>>
  /\ now' = Tick(now)
  /\ Sweep(book, expiry, Tick(now), <<>>)
  /\ UNCHANGED <<reserved, position>>

-----------------------------------------------------------------------------
(* OrderStateManager: what a report does to its side book, and the quantity *)
(* it takes off the reserved position.                                      *)

Result(sb, freed) == [sb |-> sb, freed |-> freed]

Kill(sb, l) == unmap_layer([sb EXCEPT !.slots[l].state = "Dead"], l)

SetState(sb, r, state) ==
  LET l == find_layer(sb, r.id, r.price)
  IN  Result(IF l = NoLayer THEN sb ELSE [sb EXCEPT !.slots[l].state = state], 0)

LookUp(map, id) == IF id \in DOMAIN map THEN map[id] ELSE NoLayer

handle_newKeepingId(sb, r) ==
  LET mapped == LookUp(sb.new_id_to_layer, r.id)
      l == IF mapped # NoLayer THEN mapped ELSE find_layer(sb, r.id, r.price)
  IN  Result([sb EXCEPT !.slots[l].price = r.price, !.slots[l].qty = r.leaves,
                        !.slots[l].state = "Live", !.pending_repl[l] = NoPending,
                        !.new_id_to_layer = Erase(@, r.id)], 0)

handle_new(sb, r) ==
  LET mapped == LookUp(sb.new_id_to_layer, r.id)
      l == IF mapped # NoLayer THEN mapped ELSE find_layer(sb, r.id, r.price)
      pend == sb.pending_repl[l]
      live == [sb EXCEPT !.slots[l].price = r.price, !.slots[l].qty = r.leaves,
                         !.slots[l].cl_order_id = r.id, !.slots[l].state = "Live"]
  IN  IF l = NoLayer
        THEN Result(sb, 0)
        ELSE IF pend # NoPending
        THEN Result([live EXCEPT !.layer_ticks[l] = pend.new_tick,
                                 !.pending_repl[l] = NoPending,
                                 !.new_id_to_layer = Erase(@, r.id)], 0)
        ELSE Result([live EXCEPT !.layer_ticks[l] = to_ticks_raw(r.price)], 0)

handle_partially_filledDead(sb, r, t) ==
  LET l == find_layer(sb, r.id, r.price)
  IN  Result(Kill([sb EXCEPT !.slots[l].qty = r.leaves], l), sb.slots[l].qty)

handle_partially_filled(sb, r, t) ==
  LET l == find_layer(sb, r.id, r.price)
      left == [sb EXCEPT !.slots[l].qty = r.leaves]
  IN  IF l = NoLayer
        THEN Result(sb, 0)
        ELSE Result(IF r.leaves <= 0
                      THEN Kill(left, l)
                      ELSE [left EXCEPT !.slots[l].state = "Live",
                                        !.slots[l].last_used = t],
                    sb.slots[l].qty - r.leaves)

handle_filledKeepingReserved(sb, r) ==
  LET l == find_layer(sb, r.id, r.price)
  IN  IF l = NoLayer
        THEN Result(sb, 0)
        ELSE Result(Kill([sb EXCEPT !.slots[l].qty = r.leaves], l), r.leaves)

handle_filled(sb, r) ==
  LET l == find_layer(sb, r.id, r.price)
  IN  IF l = NoLayer
        THEN Result(sb, 0)
        ELSE Result(Kill([sb EXCEPT !.slots[l].qty = r.leaves], l), sb.slots[l].qty)

handle_canceledKeepingSlot(sb, r) ==
  LET l == find_layer(sb, r.id, r.price)
  IN  Result(sb, IF l = NoLayer THEN 0 ELSE sb.slots[l].qty)

\* The cancel half of a replace only moves the slot on to Reserved.
handle_canceled(sb, r) ==
  LET half == LookUp(sb.orig_id_to_layer, r.id)
      l == find_layer(sb, r.id, r.price)
  IN  IF half # NoLayer
        THEN Result([sb EXCEPT !.orig_id_to_layer = Erase(@, r.id),
                               !.slots[half].state = "Reserved"], 0)
        ELSE IF l = NoLayer
        THEN Result(sb, 0)
        ELSE Result(Kill(sb, l), sb.slots[l].qty)

\* A refused replace puts the original order back; its record is read after
\* it was reset, which leaves the bytes as they were.
handle_rejected_or_expired(sb, r) ==
  LET repl == LookUp(sb.new_id_to_layer, r.id)
      pend == sb.pending_repl[repl]
      l == find_layer(sb, r.id, r.price)
  IN  IF repl # NoLayer /\ pend # NoPending
        THEN Result([sb EXCEPT
                       !.pending_repl[repl] = NoPending,
                       !.new_id_to_layer = Erase(@, r.id),
                       !.orig_id_to_layer = Erase(@, r.id - 1),
                       !.layer_ticks[repl] = pend.original_tick,
                       !.slots[repl] = [state |-> "Live", price |-> pend.original_price,
                                        qty |-> pend.last_qty, last_used |-> @.last_used,
                                        cl_order_id |-> pend.original_cl_order_id]],
                    pend.new_qty - pend.last_qty)
        ELSE IF l = NoLayer
        THEN Result(sb, 0)
        ELSE Result(Kill(sb, l), sb.slots[l].qty)

handle_execution_report(sb, r, t) ==
  CASE r.status = "PendingNew"      -> SetState(sb, r, "PendingNew")
    [] r.status = "New"             -> handle_new(sb, r)
    [] r.status = "PartiallyFilled" -> handle_partially_filled(sb, r, t)
    [] r.status = "Filled"          -> handle_filled(sb, r)
    [] r.status = "PendingCancel"   -> SetState(sb, r, "PendingCancel")
    [] r.status = "Canceled"        -> handle_canceled(sb, r)
    [] r.status \in {"Rejected", "Expired"} -> handle_rejected_or_expired(sb, r)

RestartedLayerNever(sb, r) == NoLayer

\* The layer whose TTL a report restarts, once the report has been handled.
RestartedLayer(sb, r) ==
  LET byId == find_layer_by_id(sb, r.id)
  IN  CASE r.status = "New" ->
             IF byId # NoLayer THEN byId ELSE LookUp(sb.new_id_to_layer, r.id)
        [] r.status = "PartiallyFilled" ->
             IF byId # NoLayer /\ sb.slots[byId].state = "Live" THEN byId ELSE NoLayer
        [] OTHER -> NoLayer

\* OrderManager::on_order_updated, given what the state manager made of r.
TakeResult(r, res, l) ==
  /\ book' = [book EXCEPT ![r.key] = res.sb]
  /\ reserved' = reserved - sideToValue(r.key.side) * res.freed
  /\ expiry' = IF l = NoLayer
                 THEN expiry
                 ELSE register_expiry(expiry, r.key, l, r.id, "Live", now)

TakeReport(r, res) == TakeResult(r, res, RestartedLayer(res.sb, r))

\* TradeEngine::on_order_updated: the fill, then the OrderManager.  A report
\* outside the side books in use finds no order there.
OnOrderUpdated ==
  /\ unposted = <<>> /\ responses # <<>>
  /\ LET r == Head(responses)
     IN  /\ position' = IF r.exec = "Trade"
                          THEN position + sideToValue(r.key.side) * r.last
                          ELSE position
         /\ IF r.key \notin Keys
              THEN UNCHANGED <<book, reserved, expiry>>
              ELSE TakeReport(r, handle_execution_report(book[r.key], r, now))
  /\ responses' = Tail(responses)
  /\ UNCHANGED <<now, requests, unposted, pending, wire>>

=============================================================================
