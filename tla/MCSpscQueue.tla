------------------------------ MODULE MCSpscQueue ------------------------------
(* One producer and one consumer: the response queue of TradeEngine, which *)
(* one order-entry socket fills, the API one on spot and the user-stream   *)
(* one on futures.                                                         *)
EXTENDS SpscQueue

CONSTANTS a, b, none, oeSocket

MCProducers == {oeSocket}
MCItems == {a, b}
MCCapacity == 4
MCLaps == 2
================================================================================
