----------------------- MODULE MCChangeInvisibleTime -----------------------
(* Model-checking instance of ChangeInvisibleTime: two concurrent requests  *)
(* over a batch of two popped messages.                                     *)
EXTENDS ChangeInvisibleTime, TLC

CONSTANTS r1, r2

MCReq == {r1, r2}
MCSymmetry == Permutations(MCReq)
=============================================================================
