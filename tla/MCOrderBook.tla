------------------------------ MODULE MCOrderBook ------------------------------
(* Words of two bits: a handful of levels already spans several words of a *)
(* bucket, several buckets and several summary words.                      *)
EXTENDS OrderBook

CONSTANTS none, invalid

BidSide == {"bid"}
AskSide == {"ask"}
BothSides == {"bid", "ask"}
================================================================================
