--------------------------- MODULE TaskLifecycle ---------------------------
(***************************************************************************)
(* What the HTTP server promises about the tasks it accepts, without       *)
(* threads, locks, ids or records: a bounded first-in first-out queue, one *)
(* task running at a time, and one final outcome for each.  TaskServer     *)
(* implements it when every task has an id of its own.                     *)
(***************************************************************************)
EXTENDS Integers, FiniteSets

CONSTANTS MaxTasks, Capacity

VARIABLES
    accepted,  \* how many tasks were accepted; they are numbered in that order
    waiting,
    running,
    outcome    \* of each task, "none" before it has one

lifecycleVars == <<accepted, waiting, running, outcome>>

Init ==
    /\ accepted = 0
    /\ waiting = {}
    /\ running = {}
    /\ outcome = [t \in 1..MaxTasks |-> "none"]

Accept ==
    /\ accepted < MaxTasks
    /\ Cardinality(waiting) + Cardinality(running) < Capacity
    /\ accepted' = accepted + 1
    /\ waiting' = waiting \cup {accepted'}
    /\ UNCHANGED <<running, outcome>>

\* The task accepted first, when no other is running.
Begin ==
    /\ running = {}
    /\ \E t \in waiting :
        /\ \A u \in waiting : t <= u
        /\ waiting' = waiting \ {t}
        /\ running' = {t}
    /\ UNCHANGED <<accepted, outcome>>

Finish ==
    /\ \E t \in running, o \in {"COMPLETED", "FAILED"} :
        /\ running' = running \ {t}
        /\ outcome' = [outcome EXCEPT ![t] = o]
    /\ UNCHANGED <<accepted, waiting>>

Cancel ==
    /\ \E S \in SUBSET (waiting \cup running) :
        /\ waiting' = waiting \ S
        /\ running' = running \ S
        /\ outcome' = [t \in 1..MaxTasks |-> IF t \in S THEN "CANCELLED" ELSE outcome[t]]
    /\ UNCHANGED accepted

Next == Accept \/ Begin \/ Finish \/ Cancel

Spec == Init /\ [][Next]_lifecycleVars

=============================================================================
