--------------------------- MODULE OrderGateway ----------------------------
(***************************************************************************)
(* Requests out, reports in (hft/src/order_gateway.hpp, ws_oe_app.hpp,     *)
(* ws_order_manager.hpp and the two dispatchers).  TradeEngine calls       *)
(* order_request synchronously: the message goes to the socket and the     *)
(* request is registered under its client order id.  What the venue sends  *)
(* back arrives on the socket threads and becomes an execution report in   *)
(* the response queue, or nothing at all.                                  *)
(***************************************************************************)
EXTENDS LayerBook, SequencesExt

CONSTANTS Exchanges,  \* the exchange traits to build with: "spot", "futures"
          Keys,       \* the side books: records [side, pos], pos "none" on spot
          LossyWrites, \* whether a write to the socket may fail
          LatePosts   \* whether an answer may overtake the registration

ASSUME ExchangeAssumption ==
  Exchanges \subseteq {"spot", "futures"} /\ LossyWrites \in BOOLEAN /\ LatePosts \in BOOLEAN

VARIABLES exchange,  \* the exchange the program was built for, never changed
          requests,  \* sent and not yet seen by the venue, in order
          unposted,  \* sent by the call under way, and not yet registered
          pending,   \* pending_requests_: client order id -> registered request
          wire,      \* per socket, what the venue sent and the app did not read
          responses  \* response_queue_ of the TradeEngine

gatewayVars == <<requests, unposted, pending, wire, responses>>

supports_cancel_and_reorder == exchange = "spot"
supports_position_side == exchange = "futures"

\* requires_stream_transport(): futures reports have a socket of their own.
ReportSocket == IF exchange = "futures" THEN "stream" ELSE "api"

Sockets == {"api", "stream"}

\* A report whose side is "INVALID": side_book() indexes past the side books
\* of the ticker that intents use, so no slot in use is ever found.
NoKey == [side |-> "invalid", pos |-> "none"]

GatewayInit ==
  /\ exchange \in Exchanges
  /\ requests = <<>>
  /\ unposted = <<>>
  /\ pending = [id \in {} |-> NoKey]
  /\ wire = [c \in Sockets |-> <<>>]
  /\ responses = <<>>

\* What post_new_order, post_cancel_and_reorder, post_modify_order and
\* post_cancel_order register, each under the id it replaces any entry of.
PostedId(req) == IF req.kind = "modify" THEN req.orig ELSE req.id

Posted(req) ==
  IF req.kind = "cancel"
    THEN [key |-> NoKey, price |-> 0, qty |-> 0]
    ELSE [key |-> req.key, price |-> req.price, qty |-> req.qty]

Post(map, req) == (PostedId(req) :> Posted(req)) @@ map

\* order_request: send, then register; a failed send is logged and registered
\* all the same.  The TradeEngine thread does nothing else in between, the
\* socket threads may.
order_request(reqs) ==
  /\ \E lost \in IF LossyWrites THEN SUBSET Range(reqs) ELSE {{}} :
       requests' = requests \o SelectSeq(reqs, LAMBDA r : r \notin lost)
  /\ unposted' = IF LatePosts THEN reqs ELSE <<>>
  /\ pending' = IF LatePosts THEN pending ELSE FoldLeft(Post, pending, reqs)
  /\ UNCHANGED <<wire, responses>>

PostRequests ==
  /\ unposted # <<>>
  /\ pending' = FoldLeft(Post, pending, unposted)
  /\ unposted' = <<>>
  /\ UNCHANGED <<requests, wire, responses>>

\* The id the app reads from a response's request id: spot ids are
\* "orderplace_<id>"; futures ids are one letter and the digits, with no '_'.
extract_client_order_id(id) ==
  IF exchange = "spot" THEN id ELSE kOrderIdInvalid

create_synthetic_execution_reportMinimal(id) ==
  [status |-> "Rejected", exec |-> "Rejected", id |-> id, key |-> NoKey,
   price |-> 0, leaves |-> 0, last |-> 0]

create_synthetic_execution_report(id) ==
  LET known == id \in DOMAIN pending
  IN  [status |-> "Rejected", exec |-> "Rejected", id |-> id,
       key |-> IF known THEN pending[id].key ELSE NoKey,
       price |-> IF known THEN pending[id].price ELSE 0,
       leaves |-> IF known THEN pending[id].qty ELSE 0,
       last |-> 0]

\* handle_execution_report of the dispatchers; a cancel that carries a reject
\* reason would go to the cancel-reject callback, and the venue sends none.
ReceiveReport(c) ==
  /\ wire[c] # <<>>
  /\ Head(wire[c]).kind = "report"
  /\ wire' = [wire EXCEPT ![c] = Tail(@)]
  /\ responses' = Append(responses, Head(wire[c]).report)
  /\ pending' = Erase(pending, Head(wire[c]).report.id)
  /\ UNCHANGED <<requests, unposted>>

\* handle_place_order_response and handle_cancel_and_reorder_response of an
\* error status with its details; the pair map of the latter is never filled,
\* so only the new order's report is made.
ReceiveOrderFailure(c) ==
  /\ wire[c] # <<>>
  /\ Head(wire[c]).kind \in {"placeFailed", "replaceFailed"}
  /\ wire' = [wire EXCEPT ![c] = Tail(@)]
  /\ LET id == extract_client_order_id(Head(wire[c]).id)
     IN  IF id = kOrderIdInvalid
           THEN UNCHANGED <<responses, pending>>
           ELSE /\ responses' = Append(responses, create_synthetic_execution_report(id))
                /\ pending' = Erase(pending, id)
  /\ UNCHANGED <<requests, unposted>>

\* A failed cancel is only logged, and so is a failed cancel-and-reorder whose
\* error carries no data; a failed modify decodes to no message.
ReceiveOtherFailure(c) ==
  /\ wire[c] # <<>>
  /\ Head(wire[c]).kind \in {"cancelFailed", "modifyFailed", "replaceFailed"}
  /\ wire' = [wire EXCEPT ![c] = Tail(@)]
  /\ UNCHANGED <<requests, unposted, pending, responses>>

Receive == \E c \in Sockets :
  ReceiveReport(c) \/ ReceiveOrderFailure(c) \/ ReceiveOtherFailure(c)

=============================================================================
