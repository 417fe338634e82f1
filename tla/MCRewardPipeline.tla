-------------------------- MODULE MCRewardPipeline --------------------------
(***************************************************************************)
(* Instances of RewardPipeline: two users, one of which sends two requests *)
(* (two EventIDs that must not both be credited).                          *)
(***************************************************************************)
EXTENDS RewardPipeline, TLC

CONSTANTS u1, u2, r1, r2, r3, w1, w2

\* r1 and r2 are requests of u1, r3 is one of u2.
ThreeReqs == (r1 :> u1 @@ r2 :> u1 @@ r3 :> u2)
TwoUsers  == (r1 :> u1 @@ r3 :> u2)
OneUser   == (r1 :> u1)
=============================================================================
