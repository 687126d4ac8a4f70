------------------------- MODULE MCOrderTransactions -------------------------
(* OrderTransactions on small instances given by the configurations. *)
EXTENDS OrderTransactions
=============================================================================
