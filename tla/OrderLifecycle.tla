--------------------------- MODULE OrderLifecycle ---------------------------
(***************************************************************************)
(* The OrderManager and the gateway against the venue.  The venue is       *)
(* external: it sees the requests in order, opens, fills, cancels, amends  *)
(* or refuses orders, and reports every change of an order on the report   *)
(* socket and every refusal on the API socket.                             *)
(***************************************************************************)
EXTENDS OrderManager

CONSTANTS MayReject,    \* whether the venue may refuse an order or an amendment
          MayFill,      \* whether orders trade
          SendsPending  \* whether the venue announces PendingNew / PendingCancel

ASSUME VenueAssumption ==
  MayReject \in BOOLEAN /\ MayFill \in BOOLEAN /\ SendsPending \in BOOLEAN

VARIABLE venue  \* id -> order at the venue

vars == <<exchange, book, reserved, expiry, position, now, requests, unposted, pending,
          wire, responses, venue>>

NoOrder == [status |-> "none", key |-> NoKey, price |-> 0, qty |-> 0, cum |-> 0]

Init ==
  /\ ManagerInit
  /\ GatewayInit
  /\ venue = [id \in Ids |-> NoOrder]

Manager ==
  /\ \/ \E a \in Actions : ApplyNew(a)
     \/ \E a \in Actions : ApplyReplace(a)
     \/ ApplyNone
     \/ OnOrderUpdated
  /\ UNCHANGED <<exchange, venue>>

Gateway == (PostRequests \/ Receive) /\ UNCHANGED <<managerVars, venue>>

Leaves(o) == IF o.qty > o.cum THEN o.qty - o.cum ELSE 0

\* The wire form of a report on order o under client order id id.
Report(status, exec, id, o, last) ==
  [kind |-> "report",
   report |-> [status |-> status, exec |-> exec, id |-> id, key |-> o.key,
               price |-> o.price, leaves |-> Leaves(o), last |-> last]]

Failure(kind, id) == [kind |-> kind, id |-> id]

Say(c, msgs) ==
  /\ wire' = [wire EXCEPT ![c] = @ \o msgs]
  /\ UNCHANGED <<managerVars, unposted, pending, responses>>

Open(id) == venue[id].status = "open"

Announced(status, id, o) == IF SendsPending THEN <<Report(status, status, id, o, 0)>> ELSE <<>>

NextRequest(kind) == requests # <<>> /\ Head(requests).kind = kind

Opened(req) == [status |-> "open", key |-> req.key, price |-> req.price,
                qty |-> req.qty, cum |-> 0]

VenuePlace ==
  /\ NextRequest("new")
  /\ LET req == Head(requests)
         o == Opened(req)
     IN  \/ /\ venue' = [venue EXCEPT ![req.id] = o]
            /\ Say(ReportSocket, Announced("PendingNew", req.id, o)
                                   \o <<Report("New", "New", req.id, o, 0)>>)
         \/ /\ MayReject
            /\ Say("api", <<Failure("placeFailed", req.id)>>)
            /\ UNCHANGED venue
  /\ requests' = Tail(requests)

VenueCancel ==
  /\ NextRequest("cancel")
  /\ LET id == Head(requests).orig
     IN  IF id \in Ids /\ Open(id)
           THEN /\ venue' = [venue EXCEPT ![id].status = "done"]
                /\ Say(ReportSocket,
                       Announced("PendingCancel", id, venue[id])
                         \o <<Report("Canceled", "Canceled", id, venue[id], 0)>>)
           ELSE /\ Say("api", <<Failure("cancelFailed", id)>>)
                /\ UNCHANGED venue
  /\ requests' = Tail(requests)

\* order.cancelReplace in mode STOP_ON_FAILURE: without the cancel, no order.
VenueReplace ==
  /\ NextRequest("replace")
  /\ LET req == Head(requests)
         o == Opened(req)
         cancelled == Report("Canceled", "Canceled", req.id - 1, venue[req.orig], 0)
     IN  \/ /\ Open(req.orig)
            /\ venue' = [venue EXCEPT ![req.orig].status = "done", ![req.id] = o]
            /\ Say("api", <<cancelled, Report("New", "New", req.id, o, 0)>>)
         \/ /\ Open(req.orig) /\ MayReject
            /\ venue' = [venue EXCEPT ![req.orig].status = "done"]
            /\ Say("api", <<cancelled, Failure("replaceFailed", req.id)>>)
         \/ /\ ~Open(req.orig)
            /\ Say("api", <<Failure("replaceFailed", req.id)>>)
            /\ UNCHANGED venue
  /\ requests' = Tail(requests)

\* order.modify: the quantity is the order's total, so an amendment down to
\* what has traded ends the order.
VenueModify ==
  /\ NextRequest("modify")
  /\ LET req == Head(requests)
         o == [venue[req.orig] EXCEPT !.price = req.price, !.qty = req.qty]
     IN  \/ /\ Open(req.orig) /\ o.cum < o.qty
            /\ venue' = [venue EXCEPT ![req.orig] = o]
            /\ Say("stream", <<Report(IF o.cum = 0 THEN "New" ELSE "PartiallyFilled",
                                      "Amendment", req.orig, o, 0)>>)
         \/ /\ Open(req.orig) /\ o.cum >= o.qty
            /\ venue' = [venue EXCEPT ![req.orig].status = "done"]
            /\ Say("stream", <<Report("Canceled", "Canceled", req.orig, venue[req.orig], 0)>>)
         \/ /\ MayReject \/ ~Open(req.orig)
            /\ Say("api", <<Failure("modifyFailed", req.orig)>>)
            /\ UNCHANGED venue
  /\ requests' = Tail(requests)

VenueFill(id) ==
  /\ MayFill /\ Open(id)
  /\ \E n \in 1 .. Leaves(venue[id]) :
       LET o == [venue[id] EXCEPT !.cum = @ + n]
           full == Leaves(o) = 0
       IN  /\ venue' = [venue EXCEPT ![id] = IF full THEN [o EXCEPT !.status = "done"] ELSE o]
           /\ Say(ReportSocket,
                  <<Report(IF full THEN "Filled" ELSE "PartiallyFilled", "Trade", id, o, n)>>)
  /\ UNCHANGED requests

VenueAnswer == VenuePlace \/ VenueCancel \/ VenueReplace \/ VenueModify

Next == Manager \/ Gateway \/ VenueAnswer \/ \E id \in Ids : VenueFill(id)

Spec == Init /\ [][Next]_vars

\* The strategy keeps calling apply() on market data, the TradeEngine thread
\* keeps draining its queue, the socket threads keep reading and the venue
\* keeps answering.
Fairness ==
  /\ WF_vars(ApplyNone /\ UNCHANGED <<exchange, venue>>)
  /\ WF_vars(OnOrderUpdated /\ UNCHANGED <<exchange, venue>>)
  /\ WF_vars(Gateway)
  /\ WF_vars(VenueAnswer)

FairSpec == Spec /\ Fairness

-----------------------------------------------------------------------------
Slots == Keys \X Layers
SlotOf(s) == book[s[1]].slots[s[2]]

Active(s) == SlotOf(s).state \notin {"Invalid", "Dead"}

\* The quantity that the active slots hold, buys positive and sells negative.
Held == MapThenSumSet(LAMBDA s : sideToValue(s[1].side) * SlotOf(s).qty,
                      {s \in Slots : Active(s)})

\* Every order slot, map, queue and order at the venue keeps the shape the
\* code gives it: the id maps of layer_book.h lead to layers and a pending
\* replace names orders that were sent.
TypeOK ==
  /\ \A s \in Slots :
       /\ SlotOf(s).state \in OMOrderState
       /\ SlotOf(s).qty \in Nat
       /\ SlotOf(s).last_used \in 0 .. MaxTime
       /\ SlotOf(s).cl_order_id \in Ids \cup {kOrderIdInvalid}
       /\ book[s[1]].layer_ticks[s[2]] \in Nat
  /\ \A k \in Keys : \A map \in {book[k].orig_id_to_layer, book[k].new_id_to_layer} :
       DOMAIN map \subseteq Ids /\ Range(map) \subseteq Layers
  /\ \A e \in expiry : e.key \in Keys /\ e.layer \in Layers /\ e.id \in Ids
  /\ DOMAIN pending \subseteq Ids
  /\ \A id \in Ids : venue[id].status \in {"none", "open", "done"} /\ venue[id].cum <= MaxQty
  /\ reserved \in Int /\ position \in Int /\ now \in 0 .. MaxTime

\* The reserved position that pre-trade risk adds to the position is exactly
\* what the active slots hold: no report releases an order's quantity twice,
\* forgets it or releases another order's (reserved_position_tracker.h).
ReservedExact == reserved = Held

\* The ids under which slot s waits for news: its own, and that of the order
\* a pending replace gives up.
IdsOf(s) ==
  {SlotOf(s).cl_order_id} \cup
    {book[s[1]].pending_repl[l].original_cl_order_id :
       l \in {l \in {s[2]} : book[s[1]].pending_repl[l] # NoPending}}

\* A request or a message about order id is under way.
UnderWay(id) ==
  \/ \E n \in DOMAIN requests : id \in {requests[n].id, requests[n].orig}
  \/ \E n \in DOMAIN responses : responses[n].id = id
  \/ \E c \in Sockets : \E n \in DOMAIN wire[c] :
       LET m == wire[c][n] IN id = IF m.kind = "report" THEN m.report.id ELSE m.id

\* A slot of the OrderManager that is not free stands for an order that is
\* open at the venue or has a request or a report about it under way: no slot
\* is left taken by an order that has ended, where no report can free it.
NoLeakedSlot ==
  \A s \in Slots : Active(s) => \E id \in IdsOf(s) : Open(id) \/ UnderWay(id)

\* A request about order id is registered, or about to be.
Registered(id) ==
  id \in DOMAIN pending \/ \E n \in DOMAIN unposted : id = PostedId(unposted[n])

\* A slot is left taken by an order that has ended only when the refusal of the
\* order overtook its registration, and the request is then still registered:
\* every other refusal frees the slot of the order it is about.
LeakedOnlyByOvertaking ==
  \A s \in Slots : Active(s) =>
    \E id \in IdsOf(s) : Open(id) \/ UnderWay(id) \/ Registered(id)

\* Every order open at the venue is the order of an active slot, or the order
\* a pending replace of one is about to give up, or has a request or a report
\* under way: no order trades behind the OrderManager's back.
OrdersTracked ==
  \A id \in Ids : Open(id) /\ ~UnderWay(id) =>
    \E s \in Slots : Active(s) /\ id \in IdsOf(s)

\* No two layers of a side book quote the same tick: find_layer_by_ticks,
\* which falls back on the tick, then finds the one order at that price.
TicksDistinct ==
  \A k \in Keys : \A l, m \in Layers :
    l # m /\ book[k].layer_ticks[l] # kTicksInvalid =>
      book[k].layer_ticks[l] # book[k].layer_ticks[m]

\* Every cancel, modify or replace the OrderManager sends names an order that
\* the venue was given before it, and never an id only the slot knows: a lapsed
\* TTL ends the order in the slot and a modify amends it.
RequestsNameOrders ==
  \A n \in DOMAIN requests : requests[n].kind # "new" =>
    \/ venue[requests[n].orig].status # "none"
    \/ \E m \in 1 .. n - 1 :
         requests[m].kind # "cancel" /\ requests[m].id = requests[n].orig

\* A cancel is sent for an order only once the shorter TTL has gone by since
\* the order was made, never on the expiry entry of an earlier order in its
\* slot (sweep_expired_orders).
NoEarlyCancel ==
  [][\A n \in DOMAIN requests' :
       n > Len(requests) /\ requests'[n].kind = "cancel" =>
         \/ now' = MaxTime
         \/ 2 * now' - requests'[n].orig >= 2 * Min({TtlReserved, TtlLive})]_vars

\* The position never leaves the limits of the risk configuration, whatever
\* part of the orders that checkPreTradeRisk let through has traded.
PositionWithinLimits == position \in MinPosition .. MaxPosition

\* Every order the manager holds ends: once a slot is taken, its order's TTL,
\* the venue or a fill frees it.
EverySlotFreed == \A s \in Slots : Active(s) ~> ~Active(s)

=============================================================================
