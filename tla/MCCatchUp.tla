----------------------------- MODULE MCCatchUp -----------------------------
(* Two rooms with a message each; the second room's is the newcomer's own, *)
(* whose keys its peers table does not have.                               *)
EXTENDS CatchUp

CONSTANTS r1, r2, u1

MCWritten == [r \in Room |-> IF r = r1 THEN <<u1>> ELSE <<Newcomer>>]
=============================================================================
