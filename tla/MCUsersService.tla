--------------------------- MODULE MCUsersService ---------------------------
(* UsersService on a small instance. *)
EXTENDS UsersService, TLC

CONSTANTS a, b, r1, r2    \* model values for users and requests

MCSymmetry ==
    Permutations(Users) \cup Permutations(Requests) \cup Permutations(Emails)
        \cup Permutations(Usernames) \cup Permutations(Symbols)
=============================================================================
