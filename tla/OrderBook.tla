------------------------------- MODULE OrderBook -------------------------------
(***************************************************************************)
(* MarketOrderBook, the bucketed build (hft/src/order_book.hpp:981-1750):  *)
(* price levels grouped into buckets that are taken from a pool on first   *)
(* use, a bitmap of active levels in each bucket, a summary bitmap over    *)
(* the buckets, a cached index of the best level and a cached BBO.  One    *)
(* action is one call of on_market_data_updated, or one call of a peek     *)
(* function by the strategy (peeking refreshes the cached index).          *)
(*                                                                         *)
(* A 64-bit word is the set of its set bits.  Both sides run the same      *)
(* code, mirrored: "better" is a higher index for bids, a lower for asks.  *)
(***************************************************************************)
EXTENDS Integers, FiniteSets, FiniteSetsExt

CONSTANTS
  Sides,        \* a subset of {"bid", "ask"}
  WordBits,     \* kBitsPerWord
  BucketWords,  \* kBucketBitmapWords
  MinPrice,     \* config_.min_price_int
  MaxPrice,     \* config_.max_price_int
  MaxPool,      \* kMaxBucketPoolSize
  Qtys,         \* quantities of kAdd and kModify entries, all positive: the
                \* converters turn a quantity <= 0 into kCancel
  ClearPrice,   \* the price of a kClear entry
  NoBucket,     \* a null Bucket*
  Invalid       \* kInvalidValue of a price or quantity

ASSUME SidesAssumption == Sides \subseteq {"bid", "ask"}
ASSUME SizesAssumption == WordBits \in Nat \ {0} /\ BucketWords \in Nat \ {0}
ASSUME PricesAssumption == MinPrice \in Nat /\ MaxPrice \in Nat /\ MinPrice <= MaxPrice
ASSUME QtysAssumption == Qtys \subseteq Nat \ {0}

\* OrderBookConfig::from_ini
CeilDiv(m, n) == (m + n - 1) \div n
NumLevels == MaxPrice - MinPrice + 1
BucketSize == WordBits * BucketWords
BucketCount == CeilDiv(NumLevels, BucketSize)
SummaryWords == CeilDiv(BucketCount, WordBits)
PoolSize == IF BucketCount < MaxPool THEN BucketCount ELSE MaxPool

price_to_index(p) == p - MinPrice
index_to_price(i) == MinPrice + i

VARIABLES
  buckets,   \* bid_buckets_, ask_buckets_: [bitmap, orders] records or NoBucket
  summary,   \* bid_summary_, ask_summary_
  cached,    \* cached_best_bid_idx_, cached_best_ask_idx_
  bbo,       \* bbo_: price and quantity of each side
  crashed    \* the pool was empty when a bucket was needed: update_bid and
             \* update_ask dereference what allocate() returned

vars == <<buckets, summary, cached, bbo, crashed>>

Levels == 0 .. NumLevels - 1
NoQuote == [price |-> Invalid, qty |-> Invalid]
EmptyBucket == [bitmap |-> [w \in 0 .. BucketWords - 1 |-> {}],
                orders |-> [o \in 0 .. BucketSize - 1 |-> 0]]

Init ==
  /\ buckets = [s \in Sides |-> [k \in 0 .. BucketCount - 1 |-> NoBucket]]
  /\ summary = [s \in Sides |-> [w \in 0 .. SummaryWords - 1 |-> {}]]
  /\ cached = [s \in Sides |-> -1]
  /\ bbo = [s \in Sides |-> NoQuote]
  /\ crashed = FALSE
--------------------------------------------------------------------------------
(* Searching.  s selects SearchHighest (bids) or SearchLowest (asks).      *)

Better(s, i, j) == IF s = "bid" THEN i > j ELSE i < j

\* find_bit, and the order in which the loops visit words
First(s, S) == IF s = "bid" THEN Max(S) ELSE Min(S)

BeyondIncluding(s, word, bit) == {b \in word : ~ Better(s, b, bit)}
\* word & make_mask(bit): the bits searched after bit
Beyond(s, word, bit) == {b \in word : Better(s, bit, b)}

NonZero(words) == {w \in DOMAIN words : words[w] # {}}

\* The first set bit of a sequence of words, as a global position, or -1
FirstSet(s, words) ==
  IF NonZero(words) = {} THEN -1
  ELSE LET w == First(s, NonZero(words)) IN w * WordBits + First(s, words[w])

\* The same from after position pos on
FirstSetBeyond(s, words, pos) ==
  LET w == pos \div WordBits
      here == Beyond(s, words[w], pos % WordBits)
      rest == {v \in NonZero(words) : Better(s, w, v)}
  IN IF here # {} THEN w * WordBits + First(s, here)
     ELSE IF rest = {} THEN -1
     ELSE LET v == First(s, rest) IN v * WordBits + First(s, words[v])

find_in_bucket(s, b) == FirstSet(s, b.bitmap)

\* is_bid_idx_valid, is_ask_idx_valid
IdxValid(bk, i) ==
  /\ i >= 0
  /\ bk[i \div BucketSize] # NoBucket
  /\ bk[i \div BucketSize].orders[i % BucketSize] > 0

\* The slow path of best_bid_idx and best_ask_idx: the first bucket of each
\* summary word in turn, until one has a set bit
SearchBest(s, bk, sm) ==
  LET top(w) == bk[w * WordBits + First(s, sm[w])]
      words == {w \in NonZero(sm) : top(w) # NoBucket /\ find_in_bucket(s, top(w)) >= 0}
  IN IF words = {} THEN -1
     ELSE LET w == First(s, words)
          IN (w * WordBits + First(s, sm[w])) * BucketSize + find_in_bucket(s, top(w))

\* best_bid_idx, best_ask_idx: the cached index while it is active
best_idx(s, bk, sm, c) ==
  IF c >= 0 /\ IdxValid(bk, c) THEN c ELSE SearchBest(s, bk, sm)

\* best_*_price and best_*_qty
QuoteAt(bk, i) ==
  IF i < 0 THEN NoQuote
  ELSE [price |-> index_to_price(i),
        qty |-> bk[i \div BucketSize].orders[i % BucketSize]]

\* next_active_impl: the rest of the bucket, then the first level of the next
\* non-empty bucket
next_active(s, bk, sm, start) ==
  LET k == start \div BucketSize
      inBucket == IF bk[k] = NoBucket THEN -1
                  ELSE FirstSetBeyond(s, bk[k].bitmap, start % BucketSize)
      nextBucket == FirstSetBeyond(s, sm, k)
  IN IF inBucket >= 0 THEN k * BucketSize + inBucket
     ELSE IF nextBucket < 0 THEN -1
     ELSE nextBucket * BucketSize + find_in_bucket(s, bk[nextBucket])

\* peek_levels: the k-th index pushed, -1 once the side is exhausted
peek_levels(s, bk, sm, c, n) ==
  LET idx[k \in 1 .. n] ==
        IF k = 1 THEN best_idx(s, bk, sm, c)
        ELSE IF idx[k - 1] < 0 THEN -1
        ELSE next_active(s, bk, sm, idx[k - 1])
  IN idx
--------------------------------------------------------------------------------
(* Updating. *)

SetLevel(b, o, q) ==
  LET w == o \div WordBits
      bit == o % WordBits
  IN [bitmap |-> [b.bitmap EXCEPT ![w] = IF q > 0 THEN @ \cup {bit} ELSE @ \ {bit}],
      orders |-> [b.orders EXCEPT ![o] = q]]

InUse(s) == {k \in DOMAIN buckets[s] : buckets[s][k] # NoBucket}

BucketAvailableSharingPool(s, i) ==
  \/ buckets[s][i \div BucketSize] # NoBucket
  \/ MapThenSumSet(LAMBDA r : Cardinality(InUse(r)), Sides) < PoolSize

\* Each side has a pool of its own
BucketAvailable(s, i) ==
  buckets[s][i \div BucketSize] # NoBucket \/ Cardinality(InUse(s)) < PoolSize

SetSummaryUnmasked(sm, k) == [sm EXCEPT ![k \div WordBits] = @ \cup {k}]
\* set_summary, clear_summary
SetSummary(sm, k) == [sm EXCEPT ![k \div WordBits] = @ \cup {k % WordBits}]
ClearSummary(sm, k) == [sm EXCEPT ![k \div WordBits] = @ \ {k % WordBits}]

WriteLevelKeepingSummary(s, i, q) ==
  LET k == i \div BucketSize
      taken == IF buckets[s][k] = NoBucket THEN EmptyBucket ELSE buckets[s][k]
      b == SetLevel(taken, i % BucketSize, q)
      release == q = 0 /\ NonZero(b.bitmap) = {}
  IN /\ buckets' = [buckets EXCEPT ![s][k] = IF release THEN NoBucket ELSE b]
     /\ summary' = [summary EXCEPT ![s] = IF q > 0 THEN SetSummary(@, k) ELSE @]

\* update_bid, update_ask: take a bucket if the level has none, write the level
\* and its bit, give an emptied bucket back
WriteLevel(s, i, q) ==
  LET k == i \div BucketSize
      taken == IF buckets[s][k] = NoBucket THEN EmptyBucket ELSE buckets[s][k]
      b == SetLevel(taken, i % BucketSize, q)
      release == q = 0 /\ NonZero(b.bitmap) = {}
  IN /\ buckets' = [buckets EXCEPT ![s][k] = IF release THEN NoBucket ELSE b]
     /\ summary' = [summary EXCEPT ![s] =
                      IF q > 0 THEN SetSummary(@, k)
                      ELSE IF release THEN ClearSummary(@, k) ELSE @]

InRange(p) == MinPrice <= p /\ p <= MaxPrice

AddOrderCachingAlways(s, p, q) ==
  LET i == price_to_index(p)
  IN /\ ~crashed
     /\ InRange(p)
     /\ BucketAvailable(s, i)
     /\ WriteLevel(s, i, q)
     /\ cached' = [cached EXCEPT ![s] = i]
     /\ bbo' = [bbo EXCEPT ![s] = [price |-> p, qty |-> q]]
     /\ UNCHANGED crashed

AddOrderKeepingBestQty(s, p, q) ==
  LET i == price_to_index(p)
      improves == cached[s] < 0 \/ Better(s, i, cached[s])
  IN /\ ~crashed
     /\ InRange(p)
     /\ BucketAvailable(s, i)
     /\ WriteLevel(s, i, q)
     /\ cached' = [cached EXCEPT ![s] = IF improves THEN i ELSE @]
     /\ bbo' = [bbo EXCEPT ![s] = IF improves THEN [price |-> p, qty |-> q] ELSE @]
     /\ UNCHANGED crashed

\* kAdd, kModify
AddOrder(s, p, q) ==
  LET i == price_to_index(p)
      improves == cached[s] < 0 \/ Better(s, i, cached[s])
  IN /\ ~crashed
     /\ InRange(p)
     /\ BucketAvailable(s, i)
     /\ WriteLevel(s, i, q)
     /\ cached' = [cached EXCEPT ![s] = IF improves THEN i ELSE @]
     /\ bbo' = [bbo EXCEPT ![s] =
                  IF improves THEN [price |-> p, qty |-> q]
                  ELSE IF i = cached[s] THEN [@ EXCEPT !.qty = q] ELSE @]
     /\ UNCHANGED crashed

DeleteOrderKeepingBbo(s, p) ==
  LET i == price_to_index(p)
  IN /\ ~crashed
     /\ InRange(p)
     /\ BucketAvailable(s, i)
     /\ WriteLevel(s, i, 0)
     /\ UNCHANGED <<cached, bbo, crashed>>

DeleteOrderDroppingBbo(s, p) ==
  LET i == price_to_index(p)
  IN /\ ~crashed
     /\ InRange(p)
     /\ BucketAvailable(s, i)
     /\ WriteLevel(s, i, 0)
     /\ IF i = cached[s]
        THEN /\ cached' = [cached EXCEPT ![s] = -1]
             /\ bbo' = [bbo EXCEPT ![s] = NoQuote]
        ELSE UNCHANGED <<cached, bbo>>
     /\ UNCHANGED crashed

\* kCancel
DeleteOrder(s, p) ==
  LET i == price_to_index(p)
      best == SearchBest(s, buckets'[s], summary'[s])
  IN /\ ~crashed
     /\ InRange(p)
     /\ BucketAvailable(s, i)
     /\ WriteLevel(s, i, 0)
     /\ IF i = cached[s]
        THEN /\ cached' = [cached EXCEPT ![s] = best]
             /\ bbo' = [bbo EXCEPT ![s] = QuoteAt(buckets'[s], best)]
        ELSE UNCHANGED <<cached, bbo>>
     /\ UNCHANGED crashed

\* The same two entries when the pool has no bucket left: a null pointer is
\* dereferenced before anything is written
Crash(s, p) ==
  /\ ~crashed
  /\ InRange(p)
  /\ ~BucketAvailable(s, price_to_index(p))
  /\ crashed' = TRUE
  /\ UNCHANGED <<buckets, summary, cached, bbo>>

EmptyBuckets == [k \in 0 .. BucketCount - 1 |-> NoBucket]
EmptySummary == [w \in 0 .. SummaryWords - 1 |-> {}]

ClearBookKeepingSummary ==
  /\ ~crashed
  /\ buckets' = [s \in Sides |-> EmptyBuckets]
  /\ bbo' = [s \in Sides |-> NoQuote]
  /\ UNCHANGED <<summary, cached, crashed>>

ClearBookBidsOnly ==
  /\ ~crashed
  /\ buckets' = [buckets EXCEPT !["bid"] = EmptyBuckets]
  /\ summary' = [summary EXCEPT !["bid"] = EmptySummary]
  /\ bbo' = [s \in Sides |-> NoQuote]
  /\ UNCHANGED <<cached, crashed>>

\* kClear: the range check on the price comes first and drops an entry that is
\* out of range; the buckets, the summaries and the BBO are reset, the cached
\* indices are not
ClearBook ==
  /\ ~crashed
  /\ IF InRange(ClearPrice)
       THEN /\ buckets' = [s \in Sides |-> EmptyBuckets]
            /\ summary' = [s \in Sides |-> EmptySummary]
            /\ bbo' = [s \in Sides |-> NoQuote]
       ELSE UNCHANGED <<buckets, summary, bbo>>
  /\ UNCHANGED <<cached, crashed>>

\* peek_levels, peek_levels_with_qty and peek_qty start at best_idx, which
\* stores what it finds
Peek(s) ==
  /\ ~crashed
  /\ cached' = [cached EXCEPT ![s] = best_idx(s, buckets[s], summary[s], @)]
  /\ UNCHANGED <<buckets, summary, bbo, crashed>>

Prices == MinPrice .. MaxPrice

Next ==
  \/ \E s \in Sides, p \in Prices, q \in Qtys : AddOrder(s, p, q)
  \/ \E s \in Sides, p \in Prices : DeleteOrder(s, p) \/ Crash(s, p)
  \/ \E s \in Sides : Peek(s)
  \/ ClearBook

Spec == Init /\ [][Next]_vars
--------------------------------------------------------------------------------
QtyAt(s, i) ==
  LET b == buckets[s][i \div BucketSize]
  IN IF b = NoBucket THEN 0 ELSE b.orders[i % BucketSize]

\* The active levels of a side, by their quantities
Active(s) == {i \in Levels : QtyAt(s, i) > 0}

\* Every variable keeps a value of its C++ type.
TypeOK ==
  /\ \A s \in Sides :
       /\ DOMAIN buckets[s] = 0 .. BucketCount - 1
       /\ \A k \in InUse(s) :
            /\ buckets[s][k].bitmap \in [0 .. BucketWords - 1 -> SUBSET (0 .. WordBits - 1)]
            /\ buckets[s][k].orders \in [0 .. BucketSize - 1 -> Qtys \cup {0}]
       /\ summary[s] \in [0 .. SummaryWords - 1 -> SUBSET (0 .. WordBits - 1)]
       /\ cached[s] \in -1 .. NumLevels - 1
       /\ bbo[s].price \in Prices \cup {Invalid}
       /\ bbo[s].qty \in Qtys \cup {Invalid}
  /\ crashed \in BOOLEAN

\* Quantities, bucket bitmaps, the summary and the set of buckets taken from the
\* pool agree at all times: a bit is set exactly for an active level, a summary
\* bit exactly for a bucket in use (what the asserts of best_bid_idx and
\* best_ask_idx rely on), and an emptied bucket always goes back to the pool.
IndexCoherent ==
  \A s \in Sides :
    /\ \A k \in InUse(s) :
         /\ \A o \in 0 .. BucketSize - 1 :
              buckets[s][k].orders[o] > 0 <=>
                o % WordBits \in buckets[s][k].bitmap[o \div WordBits]
         /\ NonZero(buckets[s][k].bitmap) # {}
    /\ \A k \in 0 .. SummaryWords * WordBits - 1 :
         k % WordBits \in summary[s][k \div WordBits] <=> k \in InUse(s)

\* best_bid_idx and best_ask_idx return the best active level, whether they take
\* the cached index or search, and -1 only for an empty side.
BestIsBest ==
  \A s \in Sides :
    LET i == best_idx(s, buckets[s], summary[s], cached[s])
    IN IF Active(s) = {} THEN i = -1 ELSE i = First(s, Active(s))

\* peek_levels walks the active levels from the best to the worst, skipping none
\* and repeating none, across words, buckets and summary words.
PeekIsSorted ==
  \A s \in Sides :
    LET n == NumLevels + 1
        idx == peek_levels(s, buckets[s], summary[s], cached[s], n)
    IN /\ {idx[k] : k \in 1 .. n} \ {-1} = Active(s)
       /\ \A k \in 1 .. n - 1 : idx[k + 1] >= 0 => Better(s, idx[k], idx[k + 1])

BestQuote(s) ==
  LET i == First(s, Active(s))
  IN [price |-> index_to_price(i), qty |-> QtyAt(s, i)]

\* A BBO price that the strategy is given is never stale: it is the price of the
\* best active level and comes with that level's current quantity, whatever adds,
\* modifications, cancels, peeks and kClear entries came before.
BboNeverStale ==
  \A s \in Sides :
    bbo[s].price # Invalid => Active(s) # {} /\ bbo[s] = BestQuote(s)

\* A side that has a BBO price loses it only by losing its last level: a cancel
\* of the best level always finds the next one.
BboLostOnlyWhenEmpty ==
  [][\A s \in Sides :
       bbo[s].price # Invalid /\ bbo'[s].price = Invalid => Active(s)' = {}]_vars

\* The book crashes for want of a bucket only when PoolSize buckets hold active
\* levels: an emptied bucket is never kept.
CrashOnlyWhenFull ==
  crashed => \E s \in Sides :
    Cardinality({i \div BucketSize : i \in Active(s)}) = PoolSize
================================================================================
