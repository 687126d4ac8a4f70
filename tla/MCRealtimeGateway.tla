------------------------- MODULE MCRealtimeGateway -------------------------
(* RealtimeGateway, with PriceFeed, on a small instance. *)
EXTENDS RealtimeGateway, TLC

CONSTANTS s1, s2, r1    \* model values for stocks and a request
=============================================================================
