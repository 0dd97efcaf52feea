-------------------------- MODULE MCMarketConsumer ---------------------------
(* MarketConsumer on a few update ids. *)
EXTENDS MarketConsumer
===============================================================================
