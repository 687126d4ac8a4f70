----------------------------- MODULE MCPortfolio -----------------------------
(* Portfolio on a small instance. *)
EXTENDS Portfolio, TLC

CONSTANTS usd, r1, r2    \* model values for a symbol and for requests

MCHoldings == {<<usd, usd>>}
=============================================================================
