-------------------------- MODULE MCOrderLifecycle --------------------------
(* Instances of OrderLifecycle: the side books and the numbers of the ini.  *)
EXTENDS OrderLifecycle

OneSide == {[side |-> "buy", pos |-> "none"]}
BothSides == {[side |-> "buy", pos |-> "none"], [side |-> "sell", pos |-> "none"]}
LongSide == {[side |-> "buy", pos |-> "long"]}
OneSideOrLong == OneSide \cup LongSide

\* A constant of a cfg cannot be negative.
NegativeLimit == -2

=============================================================================
