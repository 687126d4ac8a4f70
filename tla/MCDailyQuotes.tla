---------------------------- MODULE MCDailyQuotes ----------------------------
(* DailyQuotes on a small instance. *)
EXTENDS DailyQuotes, TLC

CONSTANTS s1, s2    \* model values for stocks

MCSymmetry == Permutations(Symbols)
=============================================================================
