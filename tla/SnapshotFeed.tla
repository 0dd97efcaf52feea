----------------------------- MODULE SnapshotFeed ------------------------------
(***************************************************************************)
(* OrderBook fed by the entries that the market-data converters make of a  *)
(* depth stream: kAdd and kCancel for the levels of a depth update, and,   *)
(* at the start of every snapshot, a kClear entry whose price is ClearPrice *)
(* (from_raw(0) in every converter).  feed is the book those entries       *)
(* describe.                                                               *)
(***************************************************************************)
EXTENDS OrderBook

VARIABLE feed  \* feed[s][i]: the quantity last sent for a level

EmptyFeed == [s \in Sides |-> [i \in Levels |-> 0]]

FeedInit == Init /\ feed = EmptyFeed

SendAdd(s, p, q) ==
  /\ AddOrder(s, p, q)
  /\ feed' = [feed EXCEPT ![s][p - MinPrice] = q]

SendCancel(s, p) ==
  /\ DeleteOrder(s, p)
  /\ feed' = [feed EXCEPT ![s][p - MinPrice] = 0]

\* DepthSnapshot: entries.push_back(allocate(kClear, ..., from_raw(0), ...))
SendClear ==
  /\ ClearBook
  /\ feed' = EmptyFeed

FeedNext ==
  \/ \E s \in Sides, p \in Prices, q \in Qtys : SendAdd(s, p, q)
  \/ \E s \in Sides, p \in Prices : SendCancel(s, p)
  \/ \E s \in Sides : Peek(s) /\ UNCHANGED feed
  \/ SendClear

FeedSpec == FeedInit /\ [][FeedNext]_<<vars, feed>>

\* The book holds exactly the levels the entries describe: in particular nothing
\* of what was there before a snapshot survives its kClear.
BookFollowsFeed == \A s \in Sides, i \in Levels : QtyAt(s, i) = feed[s][i]
================================================================================
