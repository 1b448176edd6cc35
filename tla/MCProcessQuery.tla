-------------------------- MODULE MCProcessQuery --------------------------
(* ProcessQuery for TLC: a1 and a2 have the same pid one after the other,  *)
(* b1 is the parent of a1, b2 may get the pid of b1 later.                 *)
EXTENDS ProcessQuery, TLC

CONSTANTS a1, a2, b1, b2, pa, pb

FamilyPids == a1 :> pa @@ a2 :> pa @@ b1 :> pb @@ b2 :> pb
FamilyParents == a1 :> b1 @@ a2 :> b2 @@ b1 :> NoInc @@ b2 :> NoInc
FamilyComm == {<<a1, a2>>}

============================================================================
