---------------------------- MODULE MCTokenManager ----------------------------
(* TokenManager on a small instance. *)
EXTENDS TokenManager, TLC

CONSTANTS u1, u2, c1, c2, c3

MCUsers == {u1, u2}
MCCallers == {c1, c2, c3}
Symmetric == Permutations(MCUsers) \cup Permutations(MCCallers)

==============================================================================
