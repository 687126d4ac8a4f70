------------------------------ MODULE MCLedger ------------------------------
(* Ledger on a small instance; users and symbols are interchangeable. *)
EXTENDS Ledger, TLC

Symmetric == Permutations(Users)
=============================================================================
