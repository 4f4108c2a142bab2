------------------------- MODULE MCPromotionBatches -------------------------
(* Instances of PromotionBatches for TLC: the first version of one channel is *)
(* one whose check fails.                                                    *)
EXTENDS PromotionBatches

CONSTANTS app, db, web

FirstOfDb == {<<db, 1>>}

\* Two channels have their subscribers in one file.
TwoFiles == [c \in Channels |-> IF c = web THEN "web" ELSE "shared"]
=============================================================================
