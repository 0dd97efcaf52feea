--------------------------- MODULE MarketConsumer ----------------------------
(***************************************************************************)
(* MarketConsumer of the WebSocket build with its recovery mixin, depth    *)
(* validator and protocol policy (hft/src/market_consumer*.hpp,            *)
(* depth_validator.h, market_data_protocol_policy.h).  Depth updates come  *)
(* in on the service thread of the stream socket, snapshots on that of the *)
(* API socket, and the two share the members below without a lock.         *)
(*                                                                         *)
(* A handler is split where the other thread can come between: the stream  *)
(* thread copies state_ when it enters handle_subscribe, and validates and *)
(* enqueues in separate steps; the API thread accepts a snapshot, enqueues *)
(* it and applies the buffered updates one by one.  on_login is one step.  *)
(* Each member and each operation on the deque is taken as atomic, and a   *)
(* loop over the deque visits what it held when it began.                  *)
(* Trades and book tickers carry no index and are left out.                *)
(***************************************************************************)
EXTENDS Integers, Sequences, FiniteSets, FiniteSetsExt, SequencesExt

CONSTANTS Markets,      \* the market types to build for: "spot", "futures"
          MaxBuffered,  \* kMaxBufferedEvents
          kMaxRetries,
          PoolSize,     \* of market_update_data_pool_
          MaxId,        \* bound on the exchange's update ids
          MaxLost,      \* bound on updates the stream does not carry
          MaxDrops,     \* bound on objects that the TradeEngine does not apply
          MaxFailed,    \* bound on snapshot requests whose send fails
          MaxLag        \* how many ids a snapshot may be behind

ASSUME ConsumerAssumption ==
  /\ Markets \subseteq {"spot", "futures"}
  /\ {MaxBuffered, kMaxRetries, PoolSize, MaxId} \subseteq Nat \ {0}
  /\ {MaxLost, MaxDrops, MaxFailed, MaxLag} \subseteq Nat

VARIABLES
  market,        \* get_market_type(), never changed
  state,         \* state_
  buffered,      \* buffered_events_
  first_buffered, \* first_buffered_update_id_
  update_index,  \* update_index_
  first_depth,   \* first_depth_after_snapshot_
  retry_count,   \* retry_count_
  held,          \* the objects of market_update_data_pool_ that are handed out:
                 \* the updates by their last ids, the snapshots by their number
  reader,        \* the stream thread inside handle_subscribe
  writer,        \* the API thread inside on_snapshot
  process,       \* "up", "exited" by std::exit, "crashed" on a null pointer
  overlap,       \* history: since the last snapshot was accepted, handlers of the
                 \* two threads have been active at the same time
  engine,        \* what the TradeEngine was given: the book it adds up to
  venue          \* the exchange and the two sockets

consumerVars == <<state, buffered, first_buffered, update_index, first_depth, retry_count>>
vars == <<market, consumerVars, held, reader, writer, process, overlap, engine, venue>>

StreamState == {"AwaitingSnapshot", "Buffering", "ApplyingSnapshot", "Running"}

Idle == [pc |-> "idle"]

Init ==
  /\ market \in Markets
  /\ state = "AwaitingSnapshot"
  /\ buffered = <<>>
  /\ first_buffered = 0
  /\ update_index = 0
  /\ first_depth = FALSE
  /\ retry_count = 0
  /\ held = [updates |-> {}, snapshots |-> 0]
  /\ reader = Idle
  /\ writer = [pc |-> "connecting"]
  /\ process = "up"
  /\ overlap = FALSE
  /\ engine = [synced |-> FALSE, idx |-> 0, complete |-> FALSE, drops |-> 0, dropped |-> FALSE]
  /\ venue = [last |-> 1, sent |-> 1, lost |-> 0,
              stream |-> <<>>, requests |-> 0, snapshots |-> <<>>,
              failed |-> 0, unsent |-> FALSE]
-------------------------------------------------------------------------------
(* depth_validator.h *)

validate_first_depthByEndOnly(e, snap) == e.end > snap

validate_first_depth_after_snapshot(e, snap) ==
  /\ IF market = "spot" THEN e.end > snap ELSE e.end >= snap
  /\ \/ e.start <= snap /\ e.end >= snap
     \/ e.start = snap + 1

validate_continuous_depth(e, idx) ==
  \/ idx = 0
  \/ market = "futures" /\ e.prev = idx
  \/ market = "spot" /\ e.start = idx + 1
-------------------------------------------------------------------------------
\* Objects of the pool.  No two updates have the same last id; two snapshots
\* may have the same id, and each is an object of its own.
WithUpdate(e) == [held EXCEPT !.updates = @ \cup {e.end}]
WithoutUpdates(es) == [held EXCEPT !.updates = @ \ {e.end : e \in es}]
WithSnapshot(h) == [h EXCEPT !.snapshots = @ + 1]
PoolEmpty == Cardinality(held.updates) + held.snapshots >= PoolSize

(* What the TradeEngine makes of it.  Its book is complete while every     *)
(* update since the snapshot has been applied, in order; it gives back     *)
(* the objects it has applied.                                             *)

\* An object that never reaches the book, and that nobody gives back
NotApplied ==
  /\ engine.drops < MaxDrops
  /\ engine' = [engine EXCEPT !.drops = @ + 1, !.dropped = TRUE]
  /\ UNCHANGED held

\* on_market_data_updated on a full queue: the callers log it or ignore it
QueueFull == NotApplied

\* run() tests its batch limit after dequeue has taken one more object
BatchLimitReached == NotApplied

SendSnapshot(id) ==
  \/ /\ engine' = [engine EXCEPT !.synced = TRUE, !.idx = id, !.complete = TRUE, !.dropped = FALSE]
     /\ held' = [held EXCEPT !.snapshots = @ - 1]
  \/ QueueFull
  \/ BatchLimitReached

SendUpdate(e) ==
  \/ /\ engine' = [engine EXCEPT
          !.idx = e.end,
          !.complete = @ /\ e.prev <= engine.idx /\ engine.idx <= e.end]
     /\ held' = WithoutUpdates({e})
  \/ QueueFull
  \/ BatchLimitReached
-------------------------------------------------------------------------------
\* A snapshot request.  The send fails while the transport is not connected or
\* is interrupted; the callers log it or ignore it and go on as if it was sent.
Request(v) ==
  \/ venue' = [v EXCEPT !.requests = @ + 1, !.unsent = FALSE]
  \/ /\ v.failed < MaxFailed
     /\ venue' = [v EXCEPT !.failed = @ + 1, !.unsent = TRUE]

\* recover_from_gap_impl, on either thread, with b in the buffer: it is cleared
\* without giving its objects back
recover_from_gap(b, v) ==
  /\ state' = "Buffering"
  /\ buffered' = IF state = "Buffering" THEN b ELSE <<>>
  /\ first_buffered' = IF state = "Buffering" THEN first_buffered ELSE 0
  /\ IF state = "Buffering" THEN venue' = v ELSE Request(v)

\* on_login: WebSocketMarketDataPolicy::handle_login, once the API socket is up
Login ==
  /\ process = "up" /\ writer.pc = "connecting"
  /\ state' = "Buffering"
  /\ buffered' = <<>>
  /\ first_buffered' = 0
  /\ Request(venue)
  /\ writer' = Idle
  /\ UNCHANGED <<market, update_index, first_depth, retry_count, held, reader, process, overlap, engine>>

\* on_subscribe up to the copy of state_; a null object is dereferenced
OnSubscribe ==
  /\ process = "up" /\ reader.pc = "idle" /\ venue.stream # <<>>
  /\ venue' = [venue EXCEPT !.stream = Tail(@)]
  /\ LET e == Head(venue.stream)
     IN  IF PoolEmpty
           THEN process' = "crashed" /\ UNCHANGED <<held, reader>>
           ELSE /\ held' = WithUpdate(e)
                /\ reader' = [pc |-> "decide", event |-> e, seen |-> state]
                /\ UNCHANGED process
  /\ overlap' = (overlap \/ writer.pc \in {"accepted", "applying"})
  /\ UNCHANGED <<market, consumerVars, writer, engine>>

BufferUnbounded ==
  /\ process = "up" /\ reader.pc = "decide" /\ reader.seen = "Buffering"
  /\ buffered' = Append(buffered, reader.event)
  /\ first_buffered' = IF first_buffered = 0 THEN reader.event.start ELSE first_buffered
  /\ reader' = Idle
  /\ UNCHANGED <<market, state, update_index, first_depth, retry_count, held, writer, process,
                 overlap, engine, venue>>

\* handle_subscribe of an update that came in while buffering
Buffer ==
  /\ process = "up" /\ reader.pc = "decide" /\ reader.seen = "Buffering"
  /\ LET e == reader.event
         full == Len(buffered) >= MaxBuffered
         kept == IF full THEN Tail(buffered) ELSE buffered
     IN  /\ buffered' = Append(kept, e)
         /\ held' = IF full THEN WithoutUpdates({Head(buffered)}) ELSE held
         /\ first_buffered' = IF full /\ kept # <<>> THEN Head(kept).start
                              ELSE IF first_buffered = 0 THEN e.start
                              ELSE first_buffered
  /\ reader' = Idle
  /\ UNCHANGED <<market, state, update_index, first_depth, retry_count, writer, process,
                 overlap, engine, venue>>

\* handle_subscribe of any other update: the validation, and the recovery
Validate ==
  /\ process = "up" /\ reader.pc = "decide" /\ reader.seen # "Buffering"
  /\ first_depth' = FALSE
  /\ LET e == reader.event
         valid == IF first_depth
                    THEN validate_first_depth_after_snapshot(e, update_index)
                    ELSE validate_continuous_depth(e, update_index)
     IN  IF valid
           THEN /\ update_index' = e.end
                /\ reader' = [pc |-> "deliver", event |-> e]
                /\ UNCHANGED <<state, buffered, first_buffered, venue, held>>
           ELSE /\ recover_from_gap(buffered, venue)
                /\ held' = WithoutUpdates({e})
                /\ reader' = Idle
                /\ UNCHANGED update_index
  /\ UNCHANGED <<market, retry_count, writer, process, overlap, engine>>

\* on_market_data_fn(data)
Deliver ==
  /\ process = "up" /\ reader.pc = "deliver"
  /\ SendUpdate(reader.event)
  /\ reader' = Idle
  /\ UNCHANGED <<market, consumerVars, writer, process, overlap, venue>>
-------------------------------------------------------------------------------
(* on_snapshot *)

RetryWithoutRequest(v) ==
  /\ retry_count' = retry_count + 1
  /\ process' = IF retry_count + 1 >= kMaxRetries THEN "exited" ELSE process
  /\ venue' = v

\* The paths that give up on this snapshot: ask for another, or exit
Retry(v) ==
  /\ retry_count' = retry_count + 1
  /\ IF retry_count + 1 >= kMaxRetries
       THEN process' = "exited" /\ venue' = v
       ELSE Request(v) /\ UNCHANGED process

\* erase_buffer_lower_than_snapshot_impl: pops from the front only
erase_buffer_lower_than(snap) ==
  LET later == {i \in DOMAIN buffered : buffered[i].end > snap}
  IN  IF later = {} THEN <<>> ELSE SubSeq(buffered, Min(later), Len(buffered))

OnSnapshotPoolEmpty(v) ==
  /\ PoolEmpty
  /\ held' = WithoutUpdates(ToSet(buffered))
  /\ buffered' = <<>>
  /\ first_buffered' = 0
  /\ Retry(v)
  /\ UNCHANGED <<state, update_index, writer, overlap>>

\* Too old: the object of the snapshot is not given back
OnSnapshotTooOld(snap, v) ==
  /\ ~PoolEmpty /\ state = "Buffering" /\ snap < first_buffered
  /\ held' = WithSnapshot(held)
  /\ Retry(v)
  /\ UNCHANGED <<state, buffered, first_buffered, update_index, writer, overlap>>

OnSnapshotAccept(snap, v) ==
  /\ ~PoolEmpty /\ ~(state = "Buffering" /\ snap < first_buffered)
  /\ IF state = "Buffering"
       THEN /\ retry_count' = 0
            /\ buffered' = erase_buffer_lower_than(snap)
            /\ held' = WithSnapshot(WithoutUpdates(ToSet(buffered) \ ToSet(buffered')))
       ELSE held' = WithSnapshot(held) /\ UNCHANGED <<retry_count, buffered>>
  /\ state' = "ApplyingSnapshot"
  /\ update_index' = snap
  /\ writer' = [pc |-> "accepted", snap |-> snap]
  /\ overlap' = (reader.pc # "idle")
  /\ venue' = v
  /\ UNCHANGED <<first_buffered, process>>

OnSnapshot ==
  /\ process = "up" /\ writer.pc = "idle" /\ venue.snapshots # <<>>
  /\ LET snap == Head(venue.snapshots)
         v == [venue EXCEPT !.snapshots = Tail(@)]
     IN  \/ OnSnapshotPoolEmpty(v)
         \/ OnSnapshotTooOld(snap, v)
         \/ OnSnapshotAccept(snap, v)
  /\ UNCHANGED <<market, first_depth, reader, engine>>

\* on_market_data_fn_(snapshot_data), and the loop over the buffer begins
DeliverSnapshot ==
  /\ process = "up" /\ writer.pc = "accepted"
  /\ SendSnapshot(writer.snap)
  /\ writer' = [pc |-> "applying", rest |-> buffered, first |-> TRUE]
  /\ UNCHANGED <<market, consumerVars, reader, process, venue, overlap>>

\* One round of the loop over the buffered updates
ApplyBuffered ==
  /\ process = "up" /\ writer.pc = "applying" /\ writer.rest # <<>>
  /\ LET e == Head(writer.rest)
         valid == IF writer.first
                    THEN validate_first_depth_after_snapshot(e, update_index)
                    ELSE validate_continuous_depth(e, update_index)
     IN  IF valid
         THEN /\ update_index' = e.end
              /\ SendUpdate(e)
              /\ writer' = [writer EXCEPT !.rest = Tail(@), !.first = FALSE]
              /\ UNCHANGED <<state, buffered, first_buffered, retry_count, process, venue>>
         ELSE /\ writer' = Idle
              /\ retry_count' = retry_count + 1
              /\ IF retry_count + 1 >= kMaxRetries
                   THEN /\ process' = "exited"
                        /\ buffered' = <<>>
                        /\ UNCHANGED <<state, first_buffered, venue>>
                   ELSE recover_from_gap(<<>>, venue) /\ UNCHANGED process
              /\ UNCHANGED <<update_index, engine, held>>
  /\ UNCHANGED <<market, first_depth, reader, overlap>>

FinishSnapshotKeepingState ==
  /\ process = "up" /\ writer.pc = "applying" /\ writer.rest = <<>>
  /\ buffered' = <<>>
  /\ retry_count' = 0
  /\ first_depth' = TRUE
  /\ writer' = Idle
  /\ UNCHANGED <<market, state, first_buffered, update_index, held, reader, process, overlap,
                 engine, venue>>

\* The end of on_snapshot; what was buffered meanwhile is cleared with the rest
FinishSnapshot ==
  /\ process = "up" /\ writer.pc = "applying" /\ writer.rest = <<>>
  /\ buffered' = <<>>
  /\ retry_count' = 0
  /\ first_depth' = TRUE
  /\ state' = "Running"
  /\ writer' = Idle
  /\ UNCHANGED <<market, first_buffered, update_index, held, reader, process, overlap, engine, venue>>
-------------------------------------------------------------------------------
(* The exchange *)

\* The book changes
VenueChange ==
  /\ process = "up" /\ venue.last < MaxId
  /\ venue' = [venue EXCEPT !.last = @ + 1]
  /\ UNCHANGED <<market, consumerVars, held, reader, writer, process, overlap, engine>>

\* An update with the changes since the one before; on futures the ids of an
\* update need not begin where those of the one before end
VenueSend ==
  /\ process = "up" /\ venue.sent < venue.last
  /\ \E start \in IF market = "spot" THEN {venue.sent + 1} ELSE venue.sent + 1 .. venue.last :
       venue' = [venue EXCEPT
         !.sent = venue.last,
         !.stream = Append(@, [start |-> start, end |-> venue.last, prev |-> venue.sent])]
  /\ UNCHANGED <<market, consumerVars, held, reader, writer, process, overlap, engine>>

VenueLose ==
  /\ process = "up" /\ venue.sent < venue.last /\ venue.lost < MaxLost
  /\ venue' = [venue EXCEPT !.sent = venue.last, !.lost = @ + 1]
  /\ UNCHANGED <<market, consumerVars, held, reader, writer, process, overlap, engine>>

VenueAnswer ==
  /\ process = "up" /\ venue.requests > 0
  /\ \E id \in Max({1, venue.last - MaxLag}) .. venue.last :
       venue' = [venue EXCEPT !.requests = @ - 1, !.snapshots = Append(@, id)]
  /\ UNCHANGED <<market, consumerVars, held, reader, writer, process, overlap, engine>>

StreamThread == OnSubscribe \/ Buffer \/ Validate \/ Deliver
ApiThread == Login \/ OnSnapshot \/ DeliverSnapshot \/ ApplyBuffered \/ FinishSnapshot

Next == StreamThread \/ ApiThread \/ VenueChange \/ VenueSend \/ VenueLose \/ VenueAnswer

Spec == Init /\ [][Next]_vars

\* The service threads loop until they are stopped and the exchange answers
\* every request; nothing is assumed of how often the book changes.
FairSpec == Spec /\ WF_vars(StreamThread) /\ WF_vars(ApiThread) /\ WF_vars(VenueAnswer)
-------------------------------------------------------------------------------
\* Every member keeps a value of its type and the buffer its bound.
TypeOK ==
  /\ state \in StreamState
  /\ Len(buffered) <= MaxBuffered
  /\ retry_count \in 0 .. kMaxRetries
  /\ update_index \in 0 .. MaxId
  /\ Cardinality(held.updates) + held.snapshots <= PoolSize
  /\ held.snapshots >= 0

\* The engine's book is complete and at update_index_ unless, since the snapshot,
\* handlers of the two threads overlapped, or the engine left an object out because
\* its queue was full or its batch limit reached: validation, buffering and
\* recovery lose nothing by themselves, and the next snapshot that is delivered
\* undisturbed repairs the book.
CompleteUnlessDisturbed ==
  engine.synced /\ ~overlap /\ ~engine.dropped /\ writer.pc # "accepted" =>
    /\ engine.complete
    /\ reader.pc # "deliver" => engine.idx = update_index

\* The engine's book is complete whenever on_snapshot is not about to replace it
\* (README.md:312, "ensures market data completeness").
BookComplete == engine.synced /\ writer.pc # "accepted" => engine.complete

\* A snapshot has been asked for and has not been dealt with yet.
SnapshotOnItsWay ==
  venue.requests > 0 \/ venue.snapshots # <<>> \/ writer.pc \in {"accepted", "applying"}

\* While it buffers, a snapshot is on its way unless the send of the latest request
\* failed: no gap, refused snapshot or exhausted pool leaves the consumer buffering
\* for an answer that nobody tried to ask for.
BufferingAwaitsSnapshot ==
  process = "up" /\ state = "Buffering" => SnapshotOnItsWay \/ venue.unsent

\* Login and every gap end in kRunning again, unless the process ends or the
\* consumer is left buffering with no snapshot on its way, which by
\* BufferingAwaitsSnapshot takes a failed send.
Resyncs ==
  state # "Running" ~>
    \/ state = "Running"
    \/ process # "up"
    \/ state = "Buffering" /\ ~SnapshotOnItsWay
===============================================================================
