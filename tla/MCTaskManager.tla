--------------------------- MODULE MCTaskManager ---------------------------
(***************************************************************************)
(* TaskManager on a small instance: more tasks than ids, so that ids are   *)
(* reused, and caps small enough for evictions, cleanups and rejections.   *)
(* No property tells one id from another, and none is a liveness property, *)
(* so the ids are interchangeable.                                         *)
(***************************************************************************)
EXTENDS TaskManager, TLC

IdSymmetry == Permutations(Ids)

=============================================================================
