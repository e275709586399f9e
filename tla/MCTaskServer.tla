---------------------------- MODULE MCTaskServer ----------------------------
(***************************************************************************)
(* TaskServer on small instances; the configurations differ in whether     *)
(* task ids are fresh or reused and in what they check.                    *)
(***************************************************************************)
EXTENDS TaskServer, TLC

\* The ids are interchangeable for safety.
IdSymmetry == Permutations(Ids)

=============================================================================
