---------------------------- MODULE MCPriceFeed ----------------------------
(* PriceFeed on small instances. *)
EXTENDS PriceFeed, TLC

CONSTANTS s1, s2, r1    \* model values for stocks and requests
=============================================================================
