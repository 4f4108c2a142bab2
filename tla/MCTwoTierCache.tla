--------------------------- MODULE MCTwoTierCache ---------------------------
(* Instances of TwoTierCache for TLC: two workers. *)
EXTENDS TwoTierCache

CONSTANTS w1, w2
=============================================================================
