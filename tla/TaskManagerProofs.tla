------------------------- MODULE TaskManagerProofs -------------------------
(***************************************************************************)
(* Theorems about TaskManager: for every number of tasks, set of ids and   *)
(* value of the caps, and for callers that invoke the methods in any order.*)
(***************************************************************************)
EXTENDS TaskManager, FiniteSetTheorems, TLAPS

USE DEF TERMINAL_STATUSES, ACTIVE_STATUSES

(***************************************************************************)
(* The inductive invariant.                                                *)
(***************************************************************************)

\* Tasks are created in the order of their numbers, and only created tasks
\* have a place in the table; each has an id.
CreatedInOrder ==
    \A t \in Task : /\ status[t] # "absent" <=> t <= total_tasks
                    /\ t \in tasks => status[t] # "absent"
                    /\ status[t] # "absent" => id[t] \in Ids

\* Only a running task has a phase.
PhaseWhileRunning == \A t \in phase : status[t] = "PROCESSING"

Inv ==
    /\ ManagerTypeOK
    /\ CreatedInOrder
    /\ PhaseWhileRunning
    /\ ActiveKept
    /\ IdsUnambiguous
    /\ QueueBounded
    /\ TableBounded
    /\ PngBounded
    /\ CountersExact

(***************************************************************************)
(* Finite sets and orders.                                                 *)
(***************************************************************************)

\* Sets of tasks can be counted.
LEMMA TaskSets ==
    ASSUME NEW S \in SUBSET Task
    PROVE  IsFiniteSet(S) /\ Cardinality(S) \in Nat
<1>1. IsFiniteSet(Task)
    BY ManagerAssumption, FS_Interval DEF Task
<1>2. QED
    BY <1>1, FS_Subset, FS_CardinalityType

\* A non-empty finite set has a member with the least value of f: the sets of
\* members up to a given value are well-founded under strict inclusion.
LEMMA LeastExists ==
    ASSUME NEW S, IsFiniteSet(S), S # {}, NEW f, \A s \in S : f[s] \in Int
    PROVE  \E s \in S : \A u \in S : f[s] <= f[u]
<1> DEFINE Upto(s) == {u \in S : f[u] <= f[s]}
           T == {Upto(s) : s \in S}
<1>1. IsWellFoundedOn(StrictSubsetOrdering(S), SUBSET S)
    BY FS_StrictSubsetOrderingWellFounded, FS_FiniteSubsetsOfFinite, Zenon
<1>2. T \subseteq SUBSET S /\ T # {}
    OBVIOUS
<1> HIDE DEF T
<1>3. PICK X \in T : \A Y \in T : ~ (<<Y, X>> \in StrictSubsetOrdering(S))
    BY <1>1, <1>2, WFMin
<1>4. PICK s \in S : X = Upto(s)
    BY <1>3 DEF T
<1>5. ASSUME NEW u \in S, f[u] < f[s]
      PROVE  FALSE
    <2>1. Upto(u) \in T
        BY DEF T
    <2>2. Upto(u) \subseteq Upto(s) /\ Upto(u) # Upto(s)
        BY <1>5
    <2>3. <<Upto(u), X>> \in StrictSubsetOrdering(S)
        BY <2>2, <1>4 DEF StrictSubsetOrdering
    <2>4. QED
        BY <2>1, <2>3, <1>3
<1>6. QED
    BY <1>5

\* Sorting a set of tasks gives places to exactly its members.
LEMMA SortedPlaces ==
    ASSUME NEW S \in SUBSET Task, NEW key, \A t \in S : key[t] \in Int
    PROVE  Sorted(S, key) \in [Task -> Nat] /\ Placed(Sorted(S, key)) = S
<1> DEFINE Upto(t) == {u \in S : key[u] <= key[t]}
<1>1. ASSUME NEW t \in S
      PROVE  Cardinality(Upto(t)) \in Nat /\ Cardinality(Upto(t)) > 0
    <2>1. Upto(t) \in SUBSET Task /\ t \in Upto(t)
        BY <1>1
    <2>2. QED
        BY <2>1, TaskSets, FS_EmptySet
<1>2. Sorted(S, key) = [t \in Task |-> IF t \in S THEN Cardinality(Upto(t)) ELSE 0]
    BY DEF Sorted
<1> HIDE DEF Upto
<1>3. QED
    BY <1>1, <1>2 DEF Placed

\* Moving tasks to the end keeps the others.
LEMMA ToEndPlaces ==
    ASSUME NEW place \in [Task -> Nat], NEW S \in SUBSET Task,
           NEW key \in [Task -> Nat]
    PROVE  /\ ToEnd(place, S, key) \in [Task -> Nat]
           /\ Placed(ToEnd(place, S, key)) = Placed(place) \cup S
<1> DEFINE k == [t \in Task |-> IF t \in S THEN MaxTasks + key[t] ELSE place[t]]
<1>1. \A t \in Task : k[t] \in Int
    BY ManagerAssumption
<1>2. Placed(place) \cup S \in SUBSET Task
    BY DEF Placed
<1> HIDE DEF k
<1>3. /\ Sorted(Placed(place) \cup S, k) \in [Task -> Nat]
      /\ Placed(Sorted(Placed(place) \cup S, k)) = Placed(place) \cup S
    BY <1>1, <1>2, SortedPlaces
<1>4. QED
    BY <1>3 DEF ToEnd, k

\* Tasks that end find their place behind the ones that have ended.
LEMMA EndedPlaces ==
    ASSUME Inv, NEW S \in SUBSET Task, ended' = ToEnd(ended, S, seat)
    PROVE  ended' \in [Task -> Nat]
<1>1. ended \in [Task -> Nat] /\ seat \in [Task -> Nat]
    BY DEF Inv, ManagerTypeOK
<1>2. ToEnd(ended, S, seat) \in [Task -> Nat]
    BY <1>1, ToEndPlaces
<1>3. QED
    BY <1>2

\* At least k members of S end before the ones that are left, when the k that
\* ended first are taken out.
LEMMA OldestTaken ==
    ASSUME NEW S \in SUBSET Task, NEW f \in [Task -> Nat], NEW k \in Int
    PROVE  LET gone == {t \in S : Cardinality({u \in S : f[u] < f[t]}) < k}
           IN  gone = S \/ Cardinality(gone) >= k
<1> DEFINE Before(t) == {u \in S : f[u] < f[t]}
           gone == {t \in S : Cardinality(Before(t)) < k}
           left == S \ gone
<1>1. SUFFICES ASSUME gone # S
               PROVE  Cardinality(gone) >= k
    BY Zenon
<1>2. left \in SUBSET Task /\ left # {}
    BY <1>1
<1>3. IsFiniteSet(left) /\ \A t \in left : f[t] \in Int
    <2>1. IsFiniteSet(left)
        BY <1>2, TaskSets, Zenon
    <2>2. \A t \in left : f[t] \in Int
        BY <1>2
    <2>3. QED
        BY <2>1, <2>2
<1>4. PICK r \in left : \A u \in left : f[r] <= f[u]
    <2> HIDE DEF left
    <2>1. QED
        BY <1>2, <1>3, LeastExists
<1>5. Before(r) \subseteq gone
    BY <1>4
<1>6. Before(r) \in SUBSET Task /\ gone \in SUBSET Task
    OBVIOUS
<1>7. Cardinality(Before(r)) >= k
    <2>1. r \in S /\ ~ (Cardinality(Before(r)) < k)
        BY <1>4
    <2>2. Cardinality(Before(r)) \in Nat
        BY <1>6, TaskSets
    <2> HIDE DEF Before
    <2>3. QED
        BY <2>1, <2>2
<1>8. Cardinality(Before(r)) <= Cardinality(gone)
    BY <1>5, <1>6, TaskSets, FS_Subset
<1>9. Cardinality(Before(r)) \in Nat /\ Cardinality(gone) \in Nat
    BY <1>6, TaskSets
<1> HIDE DEF gone, Before
<1>10. QED
    BY <1>7, <1>8, <1>9

(***************************************************************************)
(* Steps.  Each lemma is one method; Counted and Queued collect the facts  *)
(* about cardinalities that several methods need.                          *)
(***************************************************************************)

\* By IdsUnambiguous a report changes one task at most.
LEMMA OpenIsOne ==
    ASSUME Inv, NEW i, Open(i) # {}
    PROVE  \E t \in tasks : /\ Open(i) = {t} /\ id[t] = i
                           /\ status[t] \in ACTIVE_STATUSES
<1>1. PICK t : t \in Open(i)
    OBVIOUS
<1>2. t \in tasks /\ id[t] = i /\ status[t] \notin TERMINAL_STATUSES
    BY <1>1 DEF Open, Lookup
<1>3. Open(i) = {t}
    BY <1>1, <1>2 DEF Inv, IdsUnambiguous, Open, Lookup
<1>4. t \in Task /\ status[t] # "absent"
    BY <1>2 DEF Inv, CreatedInOrder, tasks, Placed
<1>5. status[t] \in ACTIVE_STATUSES
    BY <1>2, <1>4 DEF Inv, ManagerTypeOK
<1>6. QED
    BY <1>2, <1>3, <1>5

\* The metrics are numbers, and the queue does not grow by ending tasks.
LEMMA GaugeType ==
    ASSUME emit_queue_metrics
    PROVE  gauge' \in [pending : Nat, active : Nat]
<1>1. /\ {t \in Task : seat'[t] > 0 /\ status'[t] = "PENDING"} \in SUBSET Task
      /\ {t \in Task : seat'[t] > 0 /\ status'[t] \in ACTIVE_STATUSES} \in SUBSET Task
    OBVIOUS
<1>2. QED
    BY <1>1, TaskSets DEF emit_queue_metrics

\* The queue and the table stay within their bounds when nothing is added.
LEMMA NothingAdded ==
    ASSUME Inv, Active' \subseteq Active, tasks' = tasks
    PROVE  QueueBounded' /\ TableBounded'
<1>1. Active \in SUBSET Task
    BY DEF Active, tasks, Placed
<1>2. Active' \in SUBSET Task
    BY <1>1
<1>3. /\ Cardinality(Active) \in Nat /\ Cardinality(Active') \in Nat
      /\ Cardinality(Active') <= Cardinality(Active)
    BY <1>1, <1>2, TaskSets, FS_Subset
<1>4. QED
    BY <1>3, ManagerAssumption DEF Inv, QueueBounded, TableBounded

\* A counter that goes up when one more task ends in status s.
LEMMA OneMore ==
    ASSUME Inv, NEW s, NEW t \in Task, status[t] # s,
           status' = [u \in Task |-> IF u = t THEN s ELSE status[u]]
    PROVE  Cardinality({u \in Task : status'[u] = s}) =
               Cardinality({u \in Task : status[u] = s}) + 1
<1> DEFINE before == {u \in Task : status[u] = s}
<1>1. {u \in Task : status'[u] = s} = before \cup {t}
    OBVIOUS
<1>2. before \in SUBSET Task /\ t \notin before
    OBVIOUS
<1> HIDE DEF before
<1>3. Cardinality(before \cup {t}) = Cardinality(before) + 1
    BY <1>2, TaskSets, FS_AddElement
<1>4. QED
    BY <1>1, <1>3 DEF before

\* What holds of every way to end the tasks S of the table.
LEMMA EndingTasks ==
    ASSUME Inv, NEW S \in SUBSET tasks, NEW s \in TERMINAL_STATUSES,
           status' = [u \in Task |-> IF u \in S THEN s ELSE status[u]],
           phase' = phase \ S,
           UNCHANGED <<id, seat, total_tasks>>
    PROVE  /\ CreatedInOrder' /\ PhaseWhileRunning' /\ ActiveKept' /\ IdsUnambiguous'
           /\ QueueBounded' /\ TableBounded'
<1>1. tasks' = tasks /\ S \in SUBSET Task
    BY DEF tasks, Placed
<1>2. CreatedInOrder'
    BY <1>1 DEF Inv, CreatedInOrder
<1>3. PhaseWhileRunning'
    BY <1>1 DEF Inv, PhaseWhileRunning, ManagerTypeOK
<1>4. ActiveKept' /\ IdsUnambiguous'
    BY <1>1 DEF Inv, ActiveKept, IdsUnambiguous
<1>5. QueueBounded' /\ TableBounded'
    <2>1. Active' \subseteq Active
        BY <1>1 DEF Active, tasks, Placed
    <2>2. QED
        BY <2>1, <1>1, NothingAdded
<1>6. QED
    BY <1>2, <1>3, <1>4, <1>5

\* fail_task keeps the invariant.
LEMMA FailTaskInv ==
    ASSUME Inv, NEW i \in Ids, fail_task(i), Open(i) # {}
    PROVE  Inv'
<1>1. PICK t \in tasks : Open(i) = {t} /\ status[t] \in ACTIVE_STATUSES
    BY OpenIsOne
<1>2. t \in Task
    BY DEF tasks, Placed
<1>3. /\ status' = [u \in Task |-> IF u \in {t} THEN "FAILED" ELSE status[u]]
      /\ ended' = ToEnd(ended, {t}, seat)
      /\ phase' = phase \ {t}
      /\ failed_tasks' = failed_tasks + 1
      /\ emit_queue_metrics
      /\ UNCHANGED <<id, stop_event, result_png, phase_progress, seat,
                     total_tasks, completed_tasks>>
    BY <1>1 DEF fail_task
<1>4. ManagerTypeOK'
    <2>1. ended' \in [Task -> Nat]
        BY <1>2, <1>3, EndedPlaces
    <2>2. gauge' \in [pending : Nat, active : Nat]
        BY <1>3, GaugeType
    <2>3. /\ status' \in [Task -> {"absent"} \cup ACTIVE_STATUSES \cup TERMINAL_STATUSES]
          /\ phase' \in SUBSET Task /\ failed_tasks' \in Nat
        BY <1>3 DEF Inv, ManagerTypeOK
    <2>4. QED
        BY <2>1, <2>2, <2>3, <1>3 DEF Inv, ManagerTypeOK
<1>5. /\ CreatedInOrder' /\ PhaseWhileRunning' /\ ActiveKept' /\ IdsUnambiguous'
      /\ QueueBounded' /\ TableBounded'
    BY <1>1, <1>3, EndingTasks
<1>6. PngBounded'
    BY <1>1, <1>2, <1>3 DEF Inv, PngBounded, ManagerTypeOK
<1>7. CountersExact'
    <2>1. /\ {u \in Task : status'[u] = "COMPLETED"} = {u \in Task : status[u] = "COMPLETED"}
          /\ {u \in Task : status'[u] # "absent"} = {u \in Task : status[u] # "absent"}
        BY <1>1, <1>2, <1>3
    <2>2. Cardinality({u \in Task : status'[u] = "FAILED"})
            = Cardinality({u \in Task : status[u] = "FAILED"}) + 1
        BY <1>1, <1>2, <1>3, OneMore
    <2>3. QED
        BY <2>1, <2>2, <1>3 DEF Inv, CountersExact
<1>8. QED
    BY <1>4, <1>5, <1>6, <1>7 DEF Inv

\* An image more, and the oldest one less when the cache was full.
LEMMA EvictionKeepsCap ==
    ASSUME Inv, NEW t \in Task, NEW when \in [Task -> Nat]
    PROVE  LET held == result_png \cup {t}
           IN  Cardinality(held \ EvictedPng(held, when)) <= PngKeepCount
<1> DEFINE held == result_png \cup {t}
           out == EvictedPng(held, when)
<1>0. SUFFICES Cardinality(held \ out) <= PngKeepCount
    OBVIOUS
<1>1. held \in SUBSET Task /\ out \in SUBSET held
    BY DEF Inv, ManagerTypeOK, EvictedPng
<1>2. Cardinality(held) <= PngKeepCount + 1
    <2>1. Cardinality(result_png) <= PngKeepCount /\ result_png \in SUBSET Task
        BY DEF Inv, PngBounded, ManagerTypeOK
    <2>2. IsFiniteSet(result_png) /\ Cardinality(result_png) \in Nat
        BY <2>1, TaskSets
    <2>3. Cardinality(held) = IF t \in result_png THEN Cardinality(result_png)
                              ELSE Cardinality(result_png) + 1
        BY <2>2, FS_AddElement
    <2>4. QED
        BY <2>1, <2>2, <2>3, ManagerAssumption
<1>3. IsFiniteSet(held) /\ Cardinality(held) \in Nat
    BY <1>1, TaskSets
<1>4. CASE Cardinality(held) <= PngKeepCount
    <2>1. out = {}
        BY <1>4 DEF EvictedPng
    <2>2. held \ out = held
        BY <2>1
    <2>3. QED
        BY <2>2, <1>4
<1>5. CASE ~ (Cardinality(held) <= PngKeepCount)
    <2>1. PICK s \in held : \A u \in held : when[s] <= when[u]
        <3>1. held # {} /\ \A u \in held : when[u] \in Int
            BY <1>1
        <3> HIDE DEF held
        <3>2. QED
            BY <3>1, <1>3, LeastExists
    <2>2. s \in out
        BY <2>1, <1>5 DEF EvictedPng
    <2>3. held \ out \in SUBSET (held \ {s})
        BY <2>2
    <2> HIDE DEF held, out
    <2>4. IsFiniteSet(held \ {s}) /\ Cardinality(held \ {s}) = Cardinality(held) - 1
        BY <2>1, <1>3, FS_RemoveElement
    <2>5. Cardinality(held \ out) <= Cardinality(held \ {s})
        BY <2>3, <2>4, FS_Subset
    <2>6. Cardinality(held \ out) \in Nat
        BY <1>1, TaskSets
    <2>7. QED
        BY <2>4, <2>5, <2>6, <1>2, <1>3, ManagerAssumption
<1>6. QED
    BY <1>4, <1>5

\* complete_task keeps the invariant.
LEMMA CompleteTaskInv ==
    ASSUME Inv, NEW i \in Ids, NEW png \in BOOLEAN, complete_task(i, png), Open(i) # {}
    PROVE  Inv'
<1>1. PICK t \in tasks : Open(i) = {t} /\ status[t] \in ACTIVE_STATUSES
    BY OpenIsOne
<1>2. t \in Task
    BY DEF tasks, Placed
<1>3. /\ status' = [u \in Task |-> IF u \in {t} THEN "COMPLETED" ELSE status[u]]
      /\ ended' = ToEnd(ended, {t}, seat)
      /\ result_png' = IF png
                       THEN LET held == result_png \cup {t}
                            IN  held \ EvictedPng(held, ended')
                       ELSE result_png
      /\ phase' = phase \ {t}
      /\ phase_progress' = [u \in Task |-> IF u \in {t} THEN Full ELSE phase_progress[u]]
      /\ completed_tasks' = completed_tasks + 1
      /\ UNCHANGED <<id, stop_event, seat, total_tasks, failed_tasks>>
      /\ emit_queue_metrics
    BY <1>1 DEF complete_task
<1>4. ended' \in [Task -> Nat]
    BY <1>2, <1>3, EndedPlaces
<1>5. result_png' \in SUBSET (result_png \cup {t})
    BY <1>3
<1>6. ManagerTypeOK'
    <2>1. /\ status' \in [Task -> {"absent"} \cup ACTIVE_STATUSES \cup TERMINAL_STATUSES]
          /\ phase_progress' \in [Task -> 0..Full]
        BY <1>3, ManagerAssumption DEF Inv, ManagerTypeOK
    <2>2. /\ phase' \in SUBSET Task /\ result_png' \in SUBSET Task
          /\ completed_tasks' \in Nat
        BY <1>2, <1>3, <1>5 DEF Inv, ManagerTypeOK
    <2>3. gauge' \in [pending : Nat, active : Nat]
        BY <1>3, GaugeType
    <2>4. QED
        BY <2>1, <2>2, <2>3, <1>3, <1>4 DEF Inv, ManagerTypeOK
<1>7. /\ CreatedInOrder' /\ PhaseWhileRunning' /\ ActiveKept' /\ IdsUnambiguous'
      /\ QueueBounded' /\ TableBounded'
    BY <1>1, <1>3, EndingTasks
<1>8. PngBounded'
    <2>1. Cardinality(result_png') <= PngKeepCount
        <3>1. CASE png
            BY <3>1, <1>2, <1>3, <1>4, EvictionKeepsCap
        <3>2. CASE ~png
            BY <3>2, <1>3 DEF Inv, PngBounded
        <3>3. QED
            BY <3>1, <3>2
    <2>2. \A u \in result_png' : status'[u] = "COMPLETED"
        BY <1>2, <1>3, <1>5 DEF Inv, PngBounded, ManagerTypeOK
    <2>3. QED
        BY <2>1, <2>2 DEF PngBounded
<1>9. CountersExact'
    <2>1. /\ {u \in Task : status'[u] = "FAILED"} = {u \in Task : status[u] = "FAILED"}
          /\ {u \in Task : status'[u] # "absent"} = {u \in Task : status[u] # "absent"}
        BY <1>1, <1>2, <1>3
    <2>2. Cardinality({u \in Task : status'[u] = "COMPLETED"})
            = Cardinality({u \in Task : status[u] = "COMPLETED"}) + 1
        BY <1>1, <1>2, <1>3, OneMore
    <2>3. QED
        BY <2>1, <2>2, <1>3 DEF Inv, CountersExact
<1>10. QED
    BY <1>6, <1>7, <1>8, <1>9 DEF Inv

\* cancel_task and cancel_all_tasks keep the invariant: both cancel tasks of
\* the table that have not completed or failed.
LEMMA CancelledInv ==
    ASSUME Inv, NEW S \in SUBSET tasks, Cancelled(S),
           \A t \in S : status[t] \notin {"COMPLETED", "FAILED"}
    PROVE  Inv'
<1>1. S \in SUBSET Task
    BY DEF tasks, Placed
<1>2. /\ stop_event' = stop_event \cup S
      /\ status' = [u \in Task |-> IF u \in S THEN "CANCELLED" ELSE status[u]]
      /\ ended' = ToEnd(ended, S, seat)
      /\ phase' = phase \ S
      /\ UNCHANGED <<id, result_png, phase_progress, seat,
                     total_tasks, completed_tasks, failed_tasks>>
      /\ emit_queue_metrics
    BY DEF Cancelled
<1>3. ManagerTypeOK'
    <2>1. ended' \in [Task -> Nat]
        BY <1>1, <1>2, EndedPlaces
    <2>2. QED
        BY <2>1, <1>1, <1>2, GaugeType DEF Inv, ManagerTypeOK
<1>4. /\ CreatedInOrder' /\ PhaseWhileRunning' /\ ActiveKept' /\ IdsUnambiguous'
      /\ QueueBounded' /\ TableBounded'
    BY <1>2, EndingTasks
<1>5. PngBounded'
    BY <1>1, <1>2 DEF Inv, PngBounded, ManagerTypeOK
<1>6. CountersExact'
    <2>1. \A t \in S : status[t] # "absent"
        BY <1>1 DEF Inv, CreatedInOrder
    <2>2. /\ {u \in Task : status'[u] = "COMPLETED"} = {u \in Task : status[u] = "COMPLETED"}
          /\ {u \in Task : status'[u] = "FAILED"} = {u \in Task : status[u] = "FAILED"}
          /\ {u \in Task : status'[u] # "absent"} = {u \in Task : status[u] # "absent"}
        BY <2>1, <1>1, <1>2
    <2>3. QED
        BY <2>2, <1>2 DEF Inv, CountersExact
<1>7. QED
    BY <1>3, <1>4, <1>5, <1>6 DEF Inv

\* start_task keeps the invariant: the queue has one task less waiting and one
\* more running.
LEMMA StartTaskInv ==
    ASSUME Inv, NEW i \in Ids, start_task(i), Open(i) # {}
    PROVE  Inv'
<1>1. PICK t \in tasks : Open(i) = {t} /\ status[t] \in ACTIVE_STATUSES
    BY OpenIsOne
<1>2. t \in Task
    BY DEF tasks, Placed
<1>3. /\ status' = [u \in Task |-> IF u = t THEN "PROCESSING" ELSE status[u]]
      /\ seat' = ToEnd(seat, {t}, seat)
      /\ emit_queue_metrics
      /\ UNCHANGED <<id, stop_event, result_png, phase, phase_progress, ended,
                     total_tasks, completed_tasks, failed_tasks>>
    BY <1>1 DEF start_task
<1>4. seat' \in [Task -> Nat] /\ tasks' = tasks
    <2>1. seat \in [Task -> Nat] /\ {t} \in SUBSET Task
        BY <1>2 DEF Inv, ManagerTypeOK
    <2>2. /\ ToEnd(seat, {t}, seat) \in [Task -> Nat]
          /\ Placed(ToEnd(seat, {t}, seat)) = Placed(seat) \cup {t}
        BY <2>1, ToEndPlaces
    <2>3. seat' \in [Task -> Nat] /\ Placed(seat') = Placed(seat) \cup {t}
        BY <2>2, <1>3, Zenon
    <2>4. QED
        BY <2>3, <1>1 DEF tasks, Placed
<1>5. ManagerTypeOK'
    BY <1>3, <1>4, GaugeType DEF Inv, ManagerTypeOK
<1>6. CreatedInOrder' /\ PhaseWhileRunning' /\ ActiveKept' /\ IdsUnambiguous'
    BY <1>1, <1>2, <1>3, <1>4
    DEF Inv, CreatedInOrder, PhaseWhileRunning, ActiveKept, IdsUnambiguous, ManagerTypeOK
<1>7. QueueBounded' /\ TableBounded'
    <2>1. Active' \subseteq Active
        BY <1>1, <1>2, <1>3, <1>4 DEF Active, tasks, Placed
    <2>2. QED
        BY <2>1, <1>4, NothingAdded
<1>8. PngBounded'
    BY <1>1, <1>2, <1>3 DEF Inv, PngBounded, ManagerTypeOK
<1>9. CountersExact'
    <2>1. /\ {u \in Task : status'[u] = "COMPLETED"} = {u \in Task : status[u] = "COMPLETED"}
          /\ {u \in Task : status'[u] = "FAILED"} = {u \in Task : status[u] = "FAILED"}
          /\ {u \in Task : status'[u] # "absent"} = {u \in Task : status[u] # "absent"}
        BY <1>1, <1>2, <1>3
    <2>2. QED
        BY <2>1, <1>3 DEF Inv, CountersExact
<1>10. QED
    BY <1>5, <1>6, <1>7, <1>8, <1>9 DEF Inv

\* update_progress keeps the invariant.
LEMMA UpdateProgressInv ==
    ASSUME Inv, NEW i \in Ids, NEW p \in Int, update_progress(i, p)
    PROVE  Inv'
<1> DEFINE running == {t \in Lookup(i) : status[t] = "PROCESSING"}
<1>1. /\ phase' = phase \cup running
      /\ phase_progress' = [t \in Task |-> IF t \in running THEN Clamped(p)
                                           ELSE phase_progress[t]]
      /\ UNCHANGED <<id, status, stop_event, result_png, seat, ended,
                     total_tasks, completed_tasks, failed_tasks, gauge>>
    BY DEF update_progress
<1>2. running \in SUBSET Task
    BY DEF Lookup, tasks, Placed
<1>3. Clamped(p) \in 0..Full
    BY ManagerAssumption DEF Clamped
<1>4. tasks' = tasks /\ Active' = Active
    BY <1>1 DEF tasks, Placed, Active
<1>5. \A t \in phase' : status'[t] = "PROCESSING"
    BY <1>1 DEF Inv, PhaseWhileRunning
<1> HIDE DEF running
<1>6. ManagerTypeOK'
    BY <1>1, <1>2, <1>3 DEF Inv, ManagerTypeOK
<1>7. QueueBounded' /\ TableBounded'
    BY <1>4, NothingAdded
<1>8. QED
    BY <1>1, <1>4, <1>5, <1>6, <1>7
    DEF Inv, CreatedInOrder, PhaseWhileRunning, ActiveKept, IdsUnambiguous, PngBounded,
        CountersExact

\* create_task keeps the invariant.  The table stays bounded because cleanup
\* takes out as many ended records as the table is over keep_count, or else
\* all of them, and then only the bounded queue is left.
LEMMA CreateTaskInv ==
    ASSUME Inv, NEW i \in Ids, create_task(i)
    PROVE  Inv'
<1> DEFINE t == total_tasks + 1
           n == Cardinality(tasks) + 1
           gone == Surplus(n)
           over == {u \in tasks : status[u] \in TERMINAL_STATUSES}
<1>1. /\ total_tasks < MaxTasks /\ Lookup(i) = {} /\ Cardinality(Active) < MaxQueueSize
      /\ total_tasks' = t
      /\ id' = [id EXCEPT ![t] = i]
      /\ status' = [status EXCEPT ![t] = "PENDING"]
      /\ seat' = Sorted((tasks \cup {t}) \ gone, [seat EXCEPT ![t] = MaxTasks + 1])
      /\ result_png' = result_png \ gone
      /\ emit_queue_metrics
      /\ UNCHANGED <<stop_event, phase, phase_progress, ended, completed_tasks, failed_tasks>>
    BY DEF create_task, IsNewId, HasRoom
<1>2. /\ t \in Task /\ status[t] = "absent" /\ t \notin tasks
    <2>1. t \in Task
        BY <1>1, ManagerAssumption DEF Inv, ManagerTypeOK, Task
    <2>2. ~ (t <= total_tasks)
        BY DEF Inv, ManagerTypeOK
    <2> HIDE DEF t
    <2>3. QED
        BY <2>1, <2>2 DEF Inv, CreatedInOrder
<1>3. over \in SUBSET tasks /\ gone \in SUBSET over /\ tasks \in SUBSET Task
    BY DEF Surplus, tasks, Placed
<1>4. seat' \in [Task -> Nat] /\ tasks' = (tasks \cup {t}) \ gone
    <2> DEFINE S == (tasks \cup {t}) \ gone
               key == [seat EXCEPT ![t] = MaxTasks + 1]
    <2>1. S \in SUBSET Task
        BY <1>2, <1>3
    <2>2. \A u \in S : key[u] \in Int
        BY <1>2, <2>1, ManagerAssumption DEF Inv, ManagerTypeOK
    <2>3. seat' = Sorted(S, key)
        BY <1>1
    <2> HIDE DEF S, key
    <2>4. seat' \in [Task -> Nat] /\ Placed(seat') = S
        BY <2>1, <2>2, <2>3, SortedPlaces
    <2>5. QED
        BY <2>4 DEF tasks, S, Placed
<1>5. Cardinality(tasks) \in Nat /\ IsFiniteSet(tasks) /\ n \in Nat
    BY <1>3, TaskSets
<1>6. gone = over \/ Cardinality(gone) >= n - KeepCount
    <2>1. ended \in [Task -> Nat] /\ over \in SUBSET Task /\ n - KeepCount \in Int
        BY <1>3, <1>5, ManagerAssumption DEF Inv, ManagerTypeOK
    <2>2. gone = {u \in over : Cardinality({v \in over : ended[v] < ended[u]}) < n - KeepCount}
        BY DEF Surplus
    <2> HIDE DEF gone, over, n
    <2>3. QED
        BY <2>1, <2>2, OldestTaken
<1> HIDE DEF t, n, gone, over
<1>7. ManagerTypeOK'
    <2>1. total_tasks' \in 0..MaxTasks
        BY <1>1, <1>2, ManagerAssumption DEF Task
    <2>2. QED
        BY <2>1, <1>1, <1>2, <1>4, GaugeType DEF Inv, ManagerTypeOK
<1>8. CreatedInOrder'
    <2>1. \A u \in Task : u # t => (u <= total_tasks <=> u <= t)
        BY <1>2 DEF Task, t, Inv, ManagerTypeOK
    <2>2. \A u \in Task : u = t \/ (status'[u] = status[u] /\ id'[u] = id[u])
        BY <1>1, <1>2 DEF Inv, ManagerTypeOK
    <2>3. status'[t] = "PENDING" /\ t <= t /\ id'[t] = i
        BY <1>1, <1>2 DEF Inv, ManagerTypeOK, Task
    <2>4. QED
        BY <2>1, <2>2, <2>3, <1>1, <1>4 DEF Inv, CreatedInOrder
<1>9. PhaseWhileRunning'
    BY <1>1, <1>2 DEF Inv, PhaseWhileRunning, ManagerTypeOK
<1>10. ActiveKept'
    BY <1>1, <1>2, <1>3, <1>4 DEF Inv, ActiveKept, ManagerTypeOK, over
<1>11. IdsUnambiguous'
    <2>1. \A u \in tasks : id[u] # i
        BY <1>1 DEF Lookup
    <2>2. id'[t] = i /\ \A u \in tasks : id'[u] = id[u]
        BY <1>1, <1>2, <1>3 DEF Inv, ManagerTypeOK
    <2>3. QED
        BY <2>1, <2>2, <1>4 DEF Inv, IdsUnambiguous
<1>12. QueueBounded'
    <2>1. Active' \in SUBSET (Active \cup {t})
        BY <1>1, <1>2, <1>3, <1>4 DEF Active, Inv, ManagerTypeOK
    <2>2. Active \in SUBSET Task
        BY <1>3 DEF Active
    <2>3. /\ IsFiniteSet(Active \cup {t}) /\ Cardinality(Active) \in Nat
          /\ Cardinality(Active \cup {t}) <= Cardinality(Active) + 1
        BY <2>2, TaskSets, FS_AddElement
    <2>4. Cardinality(Active') <= Cardinality(Active \cup {t})
        BY <2>1, <2>3, FS_Subset
    <2>5. Active' \in SUBSET Task
        BY <2>1, <2>2, <1>2
    <2>6. Cardinality(Active') \in Nat
        BY <2>5, TaskSets
    <2>7. Cardinality(Active \cup {t}) \in Nat
        BY <2>3, FS_CardinalityType
    <2>8. QED
        BY <1>1, <2>3, <2>4, <2>6, <2>7, ManagerAssumption DEF QueueBounded
<1>13. TableBounded'
    <2>1. CASE gone = over
        <3>1. tasks' \in SUBSET Active' /\ Active' \in SUBSET Task
            <4>1. \A u \in tasks' : status'[u] \in ACTIVE_STATUSES
                BY <2>1, <1>1, <1>2, <1>3, <1>4 DEF over, Inv, ManagerTypeOK, CreatedInOrder
            <4>2. QED
                BY <4>1, <1>2, <1>3, <1>4 DEF Active
        <3>2. Cardinality(tasks') <= Cardinality(Active')
            BY <3>1, TaskSets, FS_Subset
        <3>3. tasks' \in SUBSET Task
            BY <3>1
        <3>4. Cardinality(tasks') \in Nat /\ Cardinality(Active') \in Nat
            BY <3>1, <3>3, TaskSets
        <3>5. QED
            BY <3>2, <3>4, <1>12, ManagerAssumption DEF QueueBounded, TableBounded
    <2>2. CASE Cardinality(gone) >= n - KeepCount
        <3>1. IsFiniteSet(tasks \cup {t}) /\ Cardinality(tasks \cup {t}) = n
            BY <1>2, <1>5, FS_AddElement DEF n
        <3>2. gone \in SUBSET (tasks \cup {t}) /\ gone \in SUBSET Task
            BY <1>3
        <3>3. Cardinality(gone) \in Nat /\ IsFiniteSet(gone)
            BY <3>2, TaskSets
        <3>4. Cardinality(tasks') = n - Cardinality(gone)
            <4>1. (tasks \cup {t}) \cap gone = gone
                BY <3>2
            <4>2. Cardinality((tasks \cup {t}) \ gone)
                    = Cardinality(tasks \cup {t}) - Cardinality((tasks \cup {t}) \cap gone)
                BY <3>1, FS_Difference
            <4>3. QED
                BY <4>1, <4>2, <3>1, <1>4
        <3>5. QED
            BY <2>2, <3>3, <3>4, <1>5, ManagerAssumption DEF TableBounded
    <2>3. QED
        BY <2>1, <2>2, <1>6
<1>14. PngBounded'
    <2>1. result_png' \in SUBSET result_png /\ result_png \in SUBSET Task
        BY <1>1 DEF Inv, ManagerTypeOK
    <2>2. Cardinality(result_png') <= Cardinality(result_png)
        BY <2>1, TaskSets, FS_Subset
    <2>3. result_png' \in SUBSET Task
        BY <2>1
    <2>4. Cardinality(result_png') \in Nat /\ Cardinality(result_png) \in Nat
        BY <2>1, <2>3, TaskSets
    <2>5. \A u \in result_png' : status'[u] = "COMPLETED"
        BY <2>1, <1>1, <1>2 DEF Inv, PngBounded, ManagerTypeOK
    <2>6. QED
        BY <2>2, <2>4, <2>5, ManagerAssumption DEF Inv, PngBounded
<1>15. CountersExact'
    <2> DEFINE created == {u \in Task : status[u] # "absent"}
    <2>1. /\ {u \in Task : status'[u] = "COMPLETED"} = {u \in Task : status[u] = "COMPLETED"}
          /\ {u \in Task : status'[u] = "FAILED"} = {u \in Task : status[u] = "FAILED"}
          /\ {u \in Task : status'[u] # "absent"} = created \cup {t}
        BY <1>1, <1>2 DEF Inv, ManagerTypeOK
    <2>2. created \in SUBSET Task /\ t \notin created
        BY <1>2
    <2>3. Cardinality(created) = total_tasks
        BY DEF Inv, CountersExact
    <2> HIDE DEF created
    <2>4. Cardinality(created \cup {t}) = Cardinality(created) + 1
        BY <2>2, TaskSets, FS_AddElement
    <2>5. QED
        BY <2>1, <2>3, <2>4, <1>1 DEF Inv, CountersExact, t
<1>16. QED
    BY <1>7, <1>8, <1>9, <1>10, <1>11, <1>12, <1>13, <1>14, <1>15 DEF Inv

(***************************************************************************)
(* Theorems.                                                               *)
(***************************************************************************)

\* The empty table satisfies the invariant.
LEMMA InitInv == ManagerInit => Inv
<1>1. ASSUME ManagerInit
      PROVE  Inv
    <2>1. tasks = {} /\ Active = {}
        BY <1>1 DEF ManagerInit, tasks, Placed, Active
    <2>2. Cardinality({}) = 0
        BY FS_EmptySet
    <2>3. ManagerTypeOK
        BY <1>1, ManagerAssumption DEF ManagerInit, ManagerTypeOK
    <2>4. CreatedInOrder /\ PhaseWhileRunning /\ ActiveKept /\ IdsUnambiguous
        BY <1>1, <2>1
        DEF ManagerInit, CreatedInOrder, PhaseWhileRunning, ActiveKept, IdsUnambiguous, Task
    <2>5. QueueBounded /\ TableBounded /\ PngBounded
        BY <1>1, <2>1, <2>2, ManagerAssumption
        DEF ManagerInit, QueueBounded, TableBounded, PngBounded
    <2>6. CountersExact
        <3>1. /\ {t \in Task : status[t] = "COMPLETED"} = {}
              /\ {t \in Task : status[t] = "FAILED"} = {}
              /\ {t \in Task : status[t] # "absent"} = {}
            BY <1>1 DEF ManagerInit
        <3>2. QED
            BY <3>1, <2>2, <1>1 DEF ManagerInit, CountersExact
    <2>7. QED
        BY <2>3, <2>4, <2>5, <2>6 DEF Inv
<1>2. QED
    BY <1>1

\* A stutter keeps it ...
LEMMA UnchangedInv == Inv /\ UNCHANGED managerVars => Inv'
BY DEF managerVars, Inv, ManagerTypeOK, CreatedInOrder, PhaseWhileRunning, ActiveKept,
       IdsUnambiguous, QueueBounded, TableBounded, PngBounded, CountersExact, Active, tasks,
       Placed

\* ... and so does every method.
LEMMA NextInv == Inv /\ [ManagerNext]_managerVars => Inv'
<1> SUFFICES ASSUME Inv, [ManagerNext]_managerVars
             PROVE  Inv'
    OBVIOUS
<1>1. CASE cancel_all_tasks
    <2>1. Active \in SUBSET tasks
        BY DEF Active
    <2>2. \A t \in Active : status[t] \notin {"COMPLETED", "FAILED"}
        BY DEF Active
    <2>3. QED
        BY <2>1, <2>2, <1>1, CancelledInv DEF cancel_all_tasks
<1>2. ASSUME NEW i \in Ids, cancel_task(i)
      PROVE  Inv'
    <2>1. Cancellable(i) \in SUBSET tasks
        BY DEF Cancellable, Lookup
    <2>2. \A t \in Cancellable(i) : status[t] \notin {"COMPLETED", "FAILED"}
        BY DEF Cancellable
    <2>3. QED
        BY <2>1, <2>2, <1>2, CancelledInv DEF cancel_task
<1>3. ASSUME NEW i \in Ids, create_task(i)
      PROVE  Inv'
    BY <1>3, CreateTaskInv
<1>4. ASSUME NEW i \in Ids, start_task(i)
      PROVE  Inv'
    BY <1>4, StartTaskInv, UnchangedInv DEF start_task
<1>5. ASSUME NEW i \in Ids, NEW p \in -1..(Full + 1), update_progress(i, p)
      PROVE  Inv'
    BY <1>5, UpdateProgressInv
<1>6. ASSUME NEW i \in Ids, NEW png \in BOOLEAN, complete_task(i, png)
      PROVE  Inv'
    BY <1>6, CompleteTaskInv, UnchangedInv DEF complete_task
<1>7. ASSUME NEW i \in Ids, fail_task(i)
      PROVE  Inv'
    BY <1>7, FailTaskInv, UnchangedInv DEF fail_task
<1>8. QED
    BY <1>1, <1>2, <1>3, <1>4, <1>5, <1>6, <1>7, UnchangedInv DEF ManagerNext

\* The table is well-formed in every reachable state, under any calls.
THEOREM InvHolds == ManagerSpec => []Inv
<1>1. QED
    BY InitInv, NextInv, PTL DEF ManagerSpec

\* The variables keep to the values they range over.
THEOREM TypeCorrect == ManagerSpec => []ManagerTypeOK
<1>1. Inv => ManagerTypeOK
    BY DEF Inv
<1>2. QED
    BY <1>1, InvHolds, PTL

\* No record of a task still to run or running is ever deleted.
THEOREM ActiveNeverDropped == ManagerSpec => []ActiveKept
<1>1. Inv => ActiveKept
    BY DEF Inv
<1>2. QED
    BY <1>1, InvHolds, PTL

\* No two records in the table share an id, though clients may reuse ids.
THEOREM IdsNeverAmbiguous == ManagerSpec => []IdsUnambiguous
<1>1. Inv => IdsUnambiguous
    BY DEF Inv
<1>2. QED
    BY <1>1, InvHolds, PTL

\* The queue, the table and the image cache never exceed their caps.
THEOREM CapsRespected == ManagerSpec => [](QueueBounded /\ TableBounded /\ PngBounded)
<1>1. Inv => QueueBounded /\ TableBounded /\ PngBounded
    BY DEF Inv
<1>2. QED
    BY <1>1, InvHolds, PTL

\* The number of images stays within its cap, and only completed tasks hold one
\* (PngBounded; "one eviction per completion is enough").
THEOREM ImagesBounded == ManagerSpec => []PngBounded
<1>1. Inv => PngBounded
    BY DEF Inv
<1>2. QED
    BY <1>1, InvHolds, PTL

\* The counters of the service status count each task once.
THEOREM CountersAreExact == ManagerSpec => []CountersExact
<1>1. Inv => CountersExact
    BY DEF Inv
<1>2. QED
    BY <1>1, InvHolds, PTL

\* A step leaves an ended task as it is.
LEMMA NextKeepsEnded ==
    ASSUME Inv, [ManagerNext]_managerVars, NEW t \in Task, status[t] \in TERMINAL_STATUSES
    PROVE  /\ status'[t] = status[t]
           /\ phase_progress'[t] = phase_progress[t]
           /\ t \notin phase'
           /\ t \in result_png' => t \in result_png
<1> DEFINE Kept == /\ status'[t] = status[t]
                   /\ phase_progress'[t] = phase_progress[t]
                   /\ t \notin phase'
                   /\ t \in result_png' => t \in result_png
<1>1. t \notin phase /\ \A i : t \notin Open(i) /\ t \notin Active
    BY DEF Inv, PhaseWhileRunning, Open, Active
<1>2. CASE UNCHANGED managerVars
    BY <1>1, <1>2 DEF managerVars
<1>3. CASE cancel_all_tasks
    BY <1>1, <1>3 DEF cancel_all_tasks, Cancelled
<1>4. ASSUME NEW i \in Ids, cancel_task(i)
      PROVE  Kept
    <2>1. t \in Cancellable(i) => status[t] = "CANCELLED"
        BY DEF Cancellable
    <2>2. QED
        BY <1>1, <1>4, <2>1 DEF cancel_task, Cancelled
<1>5. ASSUME NEW i \in Ids, create_task(i)
      PROVE  Kept
    <2>1. t # total_tasks + 1
        BY DEF Inv, CreatedInOrder, ManagerTypeOK
    <2>2. QED
        BY <1>1, <1>5, <2>1 DEF create_task, Inv, ManagerTypeOK
<1>6. ASSUME NEW i \in Ids, start_task(i)
      PROVE  Kept
    BY <1>1, <1>2, <1>6 DEF start_task
<1>7. ASSUME NEW i \in Ids, NEW p \in -1..(Full + 1), update_progress(i, p)
      PROVE  Kept
    BY <1>1, <1>7 DEF update_progress
<1>8. ASSUME NEW i \in Ids, NEW png \in BOOLEAN, complete_task(i, png)
      PROVE  Kept
    BY <1>1, <1>2, <1>8 DEF complete_task
<1>9. ASSUME NEW i \in Ids, fail_task(i)
      PROVE  Kept
    BY <1>1, <1>2, <1>9 DEF fail_task
<1>10. QED
    BY <1>2, <1>3, <1>4, <1>5, <1>6, <1>7, <1>8, <1>9 DEF ManagerNext

\* "Once a task reaches one of these it must never move again": whatever late
\* report arrives, the status, progress and image of an ended task stay.
THEOREM EndedNeverMoves == ManagerSpec => TerminalForever
<1>1. Inv /\ [ManagerNext]_managerVars =>
        [\A t \in Task : status[t] \in TERMINAL_STATUSES =>
            /\ status'[t] = status[t]
            /\ phase_progress'[t] = phase_progress[t]
            /\ t \notin phase'
            /\ t \in result_png' => t \in result_png]_managerVars
    BY NextKeepsEnded
<1>2. QED
    BY <1>1, InvHolds, PTL DEF ManagerSpec, TerminalForever

(***************************************************************************)
(* The orders of the records.                                              *)
(***************************************************************************)

\* No two records have the same place in the table, and no two ended tasks the
\* same place in the order of their ends.
Ordered(place) ==
    /\ place \in [Task -> 0..MaxTasks]
    /\ \A t, u \in Placed(place) : place[t] = place[u] => t = u

\* Exactly the ended tasks have a place among them.
OrderInv ==
    /\ Ordered(seat) /\ Ordered(ended)
    /\ Placed(ended) = {t \in Task : status[t] \in TERMINAL_STATUSES}

\* Sorting puts the tasks in the order of the key.
LEMMA SortedOrder ==
    ASSUME NEW S \in SUBSET Task, NEW key, \A t \in S : key[t] \in Int
    PROVE  /\ Sorted(S, key) \in [Task -> 0..MaxTasks]
           /\ Placed(Sorted(S, key)) = S
           /\ \A t, u \in S : Sorted(S, key)[t] < Sorted(S, key)[u] <=> key[t] < key[u]
<1> DEFINE Upto(t) == {u \in S : key[u] <= key[t]}
<1>1. Placed(Sorted(S, key)) = S /\ Sorted(S, key) \in [Task -> Nat]
    BY SortedPlaces
<1>2. Sorted(S, key) = [t \in Task |-> IF t \in S THEN Cardinality(Upto(t)) ELSE 0]
    BY DEF Sorted
<1>3. ASSUME NEW t \in S
      PROVE  Upto(t) \in SUBSET Task
    OBVIOUS
<1>4. ASSUME NEW t \in S
      PROVE  Cardinality(Upto(t)) \in 0..MaxTasks
    <2>1. Cardinality(Task) = MaxTasks
        BY ManagerAssumption, FS_Interval DEF Task
    <2>2. IsFiniteSet(Task)
        BY ManagerAssumption, FS_Interval DEF Task
    <2>3. Cardinality(Upto(t)) <= Cardinality(Task) /\ Cardinality(Upto(t)) \in Nat
        BY <1>3, <2>2, FS_Subset, TaskSets
    <2> HIDE DEF Upto
    <2>4. QED
        BY <2>1, <2>3, ManagerAssumption
<1>5. ASSUME NEW t \in S, NEW u \in S, key[t] < key[u]
      PROVE  Cardinality(Upto(t)) < Cardinality(Upto(u))
    <2>1. Upto(t) \subseteq Upto(u) /\ Upto(t) # Upto(u)
        <3>1. u \in Upto(u) /\ u \notin Upto(t)
            BY <1>5
        <3>2. Upto(t) \subseteq Upto(u)
            BY <1>5
        <3>3. QED
            BY <3>1, <3>2
    <2>2. IsFiniteSet(Upto(u)) /\ Cardinality(Upto(u)) \in Nat /\ Cardinality(Upto(t)) \in Nat
        BY <1>3, TaskSets
    <2> HIDE DEF Upto
    <2>3. Cardinality(Upto(t)) <= Cardinality(Upto(u)) /\ Cardinality(Upto(u)) # Cardinality(Upto(t))
        BY <2>1, <2>2, FS_Subset
    <2>4. QED
        BY <2>2, <2>3
<1>6. ASSUME NEW t \in S, NEW u \in S, ~(key[t] < key[u])
      PROVE  ~(Cardinality(Upto(t)) < Cardinality(Upto(u)))
    <2>1. Upto(u) \subseteq Upto(t)
        BY <1>6
    <2>2. IsFiniteSet(Upto(t)) /\ Cardinality(Upto(u)) \in Nat /\ Cardinality(Upto(t)) \in Nat
        BY <1>3, TaskSets
    <2> HIDE DEF Upto
    <2>3. Cardinality(Upto(u)) <= Cardinality(Upto(t))
        BY <2>1, <2>2, FS_Subset
    <2>4. QED
        BY <2>2, <2>3
<1> HIDE DEF Upto
<1>7. Sorted(S, key) \in [Task -> 0..MaxTasks]
    BY <1>2, <1>4, ManagerAssumption
<1>8. QED
    BY <1>1, <1>2, <1>5, <1>6, <1>7

\* Places that differ give places that differ.
LEMMA SortedOrdered ==
    ASSUME NEW S \in SUBSET Task, NEW key, \A t \in S : key[t] \in Int,
           \A t, u \in S : key[t] = key[u] => t = u
    PROVE  Ordered(Sorted(S, key))
<1> DEFINE p == Sorted(S, key)
<1>1. /\ p \in [Task -> 0..MaxTasks] /\ Placed(p) = S
      /\ \A t, u \in S : p[t] < p[u] <=> key[t] < key[u]
    BY SortedOrder
<1>2. ASSUME NEW t \in S, NEW u \in S, p[t] = p[u]
      PROVE  t = u
    <2>1. p[t] \in Int
        BY <1>1, ManagerAssumption
    <2>2. ~(p[t] < p[u]) /\ ~(p[u] < p[t])
        BY <1>2, <2>1
    <2>3. key[t] = key[u]
        BY <1>1, <2>2
    <2>4. QED
        BY <2>3
<1> HIDE DEF p
<1>3. Ordered(p)
    BY <1>1, <1>2 DEF Ordered
<1>4. QED
    BY <1>3 DEF p

\* What is moved to the end comes behind the others, in its own order, and the
\* others stay in theirs.
LEMMA ToEndOrder ==
    ASSUME NEW place, Ordered(place), NEW key, Ordered(key), NEW S \in SUBSET Placed(key)
    PROVE  LET p == ToEnd(place, S, key)
           IN  /\ Ordered(p) /\ Placed(p) = Placed(place) \cup S
               /\ \A t, u \in Placed(place) \ S : p[t] < p[u] <=> place[t] < place[u]
               /\ \A t \in Placed(place) \ S, u \in S : p[t] < p[u]
<1> DEFINE k == [t \in Task |-> IF t \in S THEN MaxTasks + key[t] ELSE place[t]]
           P == Placed(place) \cup S
           p == ToEnd(place, S, key)
<1>1. P \in SUBSET Task /\ S \in SUBSET Task
    BY DEF Placed
<1>2. p = Sorted(P, k)
    BY DEF ToEnd
<1>3. /\ \A t \in Task : place[t] \in Int /\ place[t] <= MaxTasks
      /\ \A t \in S : key[t] \in Int /\ key[t] > 0
    BY ManagerAssumption DEF Ordered, Placed
<1>4. /\ \A t \in P : k[t] \in Int
      /\ \A t \in S : k[t] > MaxTasks
      /\ \A t \in P \ S : k[t] <= MaxTasks /\ k[t] = place[t]
    BY <1>1, <1>3, ManagerAssumption
<1>5. \A t, u \in P : k[t] = k[u] => t = u
    <2>1. ASSUME NEW t \in S, NEW u \in S, k[t] = k[u]
          PROVE  t = u
        <3>1. MaxTasks + key[t] = MaxTasks + key[u]
            BY <1>1, <2>1
        <3>2. key[t] = key[u]
            BY <1>3, <3>1, ManagerAssumption
        <3>3. QED
            BY <3>2 DEF Ordered
    <2>2. ASSUME NEW t \in P \ S, NEW u \in P \ S, k[t] = k[u]
          PROVE  t = u
        <3>1. place[t] = place[u] /\ t \in Placed(place) /\ u \in Placed(place)
            BY <1>4, <2>2
        <3>2. QED
            BY <3>1 DEF Ordered
    <2>3. \A t \in S, u \in P \ S : k[t] # k[u]
        BY <1>4, ManagerAssumption
    <2> HIDE DEF k, P
    <2>4. QED
        BY <2>1, <2>2, <2>3
<1> HIDE DEF k, P, p
<1>6. Ordered(p)
    BY <1>1, <1>2, <1>4, <1>5, SortedOrdered
<1>7. Placed(p) = P /\ \A t, u \in P : p[t] < p[u] <=> k[t] < k[u]
    BY <1>1, <1>2, <1>4, SortedOrder
<1>8. \A t, u \in Placed(place) \ S : p[t] < p[u] <=> place[t] < place[u]
    BY <1>4, <1>7 DEF P
<1>9. \A t \in Placed(place) \ S, u \in S : p[t] < p[u]
    <2>1. ASSUME NEW t \in Placed(place) \ S, NEW u \in S
          PROVE  k[t] < k[u]
        BY <1>4, ManagerAssumption DEF P
    <2>2. QED
        BY <1>7, <2>1 DEF P
<1>10. QED
    BY <1>6, <1>7, <1>8, <1>9 DEF P, p

\* A completed task stays in its place among the completed ones, behind which
\* those that end come.
EndsKept ==
    \A t, u \in Task : status[t] = "COMPLETED" =>
        /\ status[u] = "COMPLETED" /\ ended[t] < ended[u] => ended'[t] < ended'[u]
        /\ status[u] \in ACTIVE_STATUSES /\ status'[u] \in TERMINAL_STATUSES => ended'[t] < ended'[u]

\* Tasks that end, or are cancelled once more.
LEMMA EndingOrder ==
    ASSUME Inv, OrderInv, NEW S \in SUBSET tasks, NEW s \in TERMINAL_STATUSES,
           \A t \in S : status[t] \notin {"COMPLETED", "FAILED"},
           status' = [u \in Task |-> IF u \in S THEN s ELSE status[u]],
           ended' = ToEnd(ended, S, seat), UNCHANGED seat
    PROVE  OrderInv' /\ EndsKept /\ tasks' = tasks
<1> DEFINE p == ToEnd(ended, S, seat)
<1>1. /\ Ordered(p) /\ Placed(p) = Placed(ended) \cup S
      /\ \A t, u \in Placed(ended) \ S : p[t] < p[u] <=> ended[t] < ended[u]
      /\ \A t \in Placed(ended) \ S, u \in S : p[t] < p[u]
    BY ToEndOrder DEF OrderInv, tasks
<1> HIDE DEF p
<1>2. ended' = p
    BY DEF p
<1>3. tasks' = tasks /\ S \in SUBSET Task
    BY DEF tasks, Placed
<1>4. Ordered(seat)' /\ Ordered(ended)'
    BY <1>1, <1>2 DEF OrderInv, Ordered, Placed
<1>5. Placed(ended)' = {t \in Task : status'[t] \in TERMINAL_STATUSES}
    <2>1. Placed(ended)' = Placed(ended) \cup S
        BY <1>1, <1>2 DEF Placed
    <2>2. Placed(ended) = {t \in Task : status[t] \in TERMINAL_STATUSES}
        BY DEF OrderInv
    <2>3. \A t \in Task : status'[t] = IF t \in S THEN s ELSE status[t]
        OBVIOUS
    <2>4. QED
        BY <1>3, <2>1, <2>2, <2>3
<1>6. EndsKept
    <2>1. \A t \in Task : status[t] = "COMPLETED" => t \in Placed(ended) \ S
        BY DEF OrderInv
    <2>2. \A u \in Task : status[u] \in ACTIVE_STATUSES /\ status'[u] \in TERMINAL_STATUSES => u \in S
        OBVIOUS
    <2>3. QED
        BY <1>1, <1>2, <2>1, <2>2 DEF EndsKept
<1>7. QED
    BY <1>3, <1>4, <1>5, <1>6 DEF OrderInv

\* Nothing ends.
LEMMA NothingEnds ==
    ASSUME OrderInv, Ordered(seat)', UNCHANGED ended,
           \A t \in Task : status'[t] \in TERMINAL_STATUSES <=> status[t] \in TERMINAL_STATUSES
    PROVE  OrderInv' /\ EndsKept
<1>1. Ordered(ended)' /\ Placed(ended)' = Placed(ended)
    BY DEF OrderInv, Ordered, Placed
<1>2. OrderInv'
    BY <1>1 DEF OrderInv
<1>3. EndsKept
    BY DEF EndsKept
<1>4. QED
    BY <1>2, <1>3

\* A creation puts the new task behind the others, without the surplus.
LEMMA CreateOrder ==
    ASSUME Inv, OrderInv, NEW i \in Ids, create_task(i)
    PROVE  LET t == total_tasks + 1
               gone == Surplus(Cardinality(tasks) + 1)
           IN  /\ OrderInv' /\ EndsKept
               /\ t \in Task /\ status[t] = "absent" /\ t \notin tasks
               /\ tasks' = (tasks \cup {t}) \ gone
               /\ \A u, v \in tasks \ gone : seat'[u] < seat'[v] <=> seat[u] < seat[v]
               /\ \A u \in tasks \ gone : seat'[u] < seat'[t]
<1>1. PICK t : t = total_tasks + 1
    OBVIOUS
<1>2. PICK gone : gone = Surplus(Cardinality(tasks) + 1)
    OBVIOUS
<1>3. /\ total_tasks < MaxTasks
      /\ status' = [status EXCEPT ![t] = "PENDING"]
      /\ seat' = Sorted((tasks \cup {t}) \ gone, [seat EXCEPT ![t] = MaxTasks + 1])
      /\ UNCHANGED ended
    BY <1>1, <1>2 DEF create_task
<1>4. t \in Task /\ status[t] = "absent" /\ t \notin tasks
    <2>1. t \in Task /\ ~(t <= total_tasks)
        BY <1>1, <1>3, ManagerAssumption DEF Inv, ManagerTypeOK, Task
    <2>2. QED
        BY <2>1 DEF Inv, CreatedInOrder
<1>5. gone \in SUBSET tasks /\ tasks \in SUBSET Task
    BY <1>2 DEF Surplus, tasks, Placed
<1> DEFINE S == (tasks \cup {t}) \ gone
           k == [seat EXCEPT ![t] = MaxTasks + 1]
<1>6. S \in SUBSET Task /\ t \in S /\ \A u \in S : u = t \/ u \in tasks \ gone
    BY <1>4, <1>5
<1>7. /\ \A u \in tasks : k[u] = seat[u] /\ k[u] \in Int /\ k[u] <= MaxTasks
      /\ k[t] = MaxTasks + 1
    BY <1>4, <1>5, ManagerAssumption DEF OrderInv, Ordered
<1>8. \A u \in S : k[u] \in Int
    BY <1>6, <1>7, ManagerAssumption
<1>9. ASSUME NEW u \in S, NEW v \in S, k[u] = k[v]
      PROVE  u = v
    <2>1. CASE u \in tasks /\ v \in tasks
        BY <1>7, <1>9, <2>1 DEF OrderInv, Ordered, tasks
    <2>2. CASE u = t /\ v \in tasks
        BY <1>7, <1>9, <2>2, ManagerAssumption
    <2>3. CASE v = t /\ u \in tasks
        BY <1>7, <1>9, <2>3, ManagerAssumption
    <2>4. QED
        BY <1>6, <2>1, <2>2, <2>3
<1> HIDE DEF k, S
<1>10. seat' = Sorted(S, k)
    BY <1>3 DEF S, k
<1>11. Ordered(Sorted(S, k))
    BY <1>6, <1>8, <1>9, SortedOrdered
<1>12. /\ Placed(Sorted(S, k)) = S
       /\ \A u, v \in S : Sorted(S, k)[u] < Sorted(S, k)[v] <=> k[u] < k[v]
    BY <1>6, <1>8, SortedOrder
<1>13. Ordered(seat)' /\ tasks' = S
    BY <1>10, <1>11, <1>12 DEF Ordered, Placed, tasks
<1>14. \A u \in Task : status'[u] \in TERMINAL_STATUSES <=> status[u] \in TERMINAL_STATUSES
    BY <1>3, <1>4 DEF Inv, ManagerTypeOK
<1>15. OrderInv' /\ EndsKept
    BY <1>3, <1>13, <1>14, NothingEnds
<1>16. \A u, v \in tasks \ gone : seat'[u] < seat'[v] <=> seat[u] < seat[v]
    BY <1>7, <1>10, <1>12 DEF S
<1>17. \A u \in tasks \ gone : seat'[u] < seat'[t]
    <2>1. \A u \in tasks : k[u] < k[t]
        BY <1>7, ManagerAssumption
    <2>2. QED
        BY <1>6, <1>10, <1>12, <2>1 DEF S
<1>18. QED
    BY <1>1, <1>2, <1>4, <1>13, <1>15, <1>16, <1>17 DEF S

\* Every step keeps the orders.
LEMMA NextKeepsOrder ==
    ASSUME Inv, OrderInv, [ManagerNext]_managerVars
    PROVE  OrderInv' /\ EndsKept
<1>1. CASE UNCHANGED managerVars
    <2>1. UNCHANGED <<status, seat, ended>>
        BY <1>1 DEF managerVars
    <2>2. Ordered(seat)'
        BY <2>1 DEF OrderInv, Ordered, Placed
    <2>3. QED
        BY <2>1, <2>2, NothingEnds
<1>2. CASE cancel_all_tasks
    <2>1. /\ Active \in SUBSET tasks
          /\ \A t \in Active : status[t] \notin {"COMPLETED", "FAILED"}
        BY DEF Active
    <2>2. QED
        BY <1>2, <2>1, EndingOrder DEF cancel_all_tasks, Cancelled
<1>3. ASSUME NEW i \in Ids, cancel_task(i)
      PROVE  OrderInv' /\ EndsKept
    <2>1. /\ Cancellable(i) \in SUBSET tasks
          /\ \A t \in Cancellable(i) : status[t] \notin {"COMPLETED", "FAILED"}
        BY DEF Cancellable, Lookup
    <2>2. QED
        BY <1>3, <2>1, EndingOrder DEF cancel_task, Cancelled
<1>4. ASSUME NEW i \in Ids, create_task(i)
      PROVE  OrderInv' /\ EndsKept
    BY <1>4, CreateOrder
<1>5. ASSUME NEW i \in Ids, start_task(i)
      PROVE  OrderInv' /\ EndsKept
    <2>1. CASE Open(i) = {}
        BY <1>1, <1>5, <2>1 DEF start_task
    <2>2. CASE Open(i) # {}
        <3>1. /\ status' = [t \in Task |-> IF t \in Open(i) THEN "PROCESSING" ELSE status[t]]
              /\ seat' = ToEnd(seat, Open(i), seat) /\ UNCHANGED ended
            BY <1>5, <2>2 DEF start_task
        <3>2. Open(i) \in SUBSET Placed(seat) /\ \A t \in Open(i) : status[t] \notin TERMINAL_STATUSES
            BY DEF Open, Lookup, tasks
        <3>3. Ordered(ToEnd(seat, Open(i), seat))
            BY <3>2, ToEndOrder DEF OrderInv
        <3>4. Ordered(seat)'
            BY <3>1, <3>3 DEF Ordered, Placed
        <3>5. QED
            BY <3>1, <3>2, <3>4, NothingEnds
    <2>3. QED
        BY <2>1, <2>2
<1>6. ASSUME NEW i \in Ids, NEW p \in -1..(Full + 1), update_progress(i, p)
      PROVE  OrderInv' /\ EndsKept
    <2>1. UNCHANGED <<status, seat, ended>>
        BY <1>6 DEF update_progress
    <2>2. Ordered(seat)'
        BY <2>1 DEF OrderInv, Ordered, Placed
    <2>3. QED
        BY <2>1, <2>2, NothingEnds
<1>7. /\ \A i \in Ids : Open(i) \in SUBSET tasks
      /\ \A i \in Ids : \A t \in Open(i) : status[t] \notin {"COMPLETED", "FAILED"}
    BY DEF Open, Lookup
<1>8. ASSUME NEW i \in Ids, NEW png \in BOOLEAN, complete_task(i, png)
      PROVE  OrderInv' /\ EndsKept
    BY <1>1, <1>7, <1>8, EndingOrder DEF complete_task
<1>9. ASSUME NEW i \in Ids, fail_task(i)
      PROVE  OrderInv' /\ EndsKept
    BY <1>1, <1>7, <1>9, EndingOrder DEF fail_task
<1>10. QED
    BY <1>1, <1>2, <1>3, <1>4, <1>5, <1>6, <1>8, <1>9 DEF ManagerNext

\* No more than k members of S are among the k that ended first.
LEMMA OldestAreFew ==
    ASSUME NEW S \in SUBSET Task, NEW f \in [Task -> Nat], NEW k \in Nat,
           \A t, u \in S : f[t] = f[u] => t = u
    PROVE  Cardinality({t \in S : Cardinality({u \in S : f[u] < f[t]}) < k}) <= k
<1> DEFINE Before(t) == {u \in S : f[u] < f[t]}
           gone == {t \in S : Cardinality(Before(t)) < k}
           g == [t \in Task |-> 0 - f[t]]
<1>1. gone \in SUBSET Task
    OBVIOUS
<1>2. IsFiniteSet(gone) /\ Cardinality(gone) \in Nat
    BY <1>1, TaskSets
<1>3. CASE gone = {}
    <2>1. Cardinality(gone) = 0
        BY <1>3, FS_EmptySet
    <2> HIDE DEF gone
    <2>2. Cardinality(gone) <= k
        BY <2>1
    <2>3. QED
        BY <2>2 DEF gone
<1>4. CASE gone # {}
    <2>1. \A t \in gone : g[t] \in Int
        BY <1>1
    <2>2. PICK s \in gone : \A u \in gone : g[s] <= g[u]
        <3> HIDE DEF gone, g
        <3>1. QED
            BY <1>2, <1>4, <2>1, LeastExists
    <2>3. \A u \in gone : f[u] <= f[s]
        <3>1. s \in Task /\ \A u \in gone : u \in Task /\ g[s] <= g[u]
            BY <2>2
        <3>2. \A u \in Task : g[u] = 0 - f[u] /\ f[u] \in Nat
            OBVIOUS
        <3> HIDE DEF gone, g
        <3>3. QED
            BY <3>1, <3>2
    <2>4. gone \in SUBSET (Before(s) \cup {s})
        BY <2>3
    <2>5. Before(s) \in SUBSET Task /\ s \in Task /\ Cardinality(Before(s)) < k
        BY <2>2
    <2> HIDE DEF Before, gone
    <2>6. IsFiniteSet(Before(s)) /\ Cardinality(Before(s)) \in Nat
        BY <2>5, TaskSets
    <2>7. /\ IsFiniteSet(Before(s) \cup {s})
          /\ Cardinality(Before(s) \cup {s}) <= Cardinality(Before(s)) + 1
          /\ Cardinality(Before(s) \cup {s}) \in Nat
        BY <2>6, FS_AddElement
    <2>8. Cardinality(gone) <= Cardinality(Before(s) \cup {s})
        BY <2>4, <2>7, FS_Subset
    <2>9. Cardinality(gone) <= k
        BY <1>2, <2>5, <2>6, <2>7, <2>8
    <2>10. QED
        BY <2>9 DEF gone, Before
<1>5. QED
    BY <1>3, <1>4

\* Deletion, if any, is done by a creation.
LEMMA OnlyCreateDeletes ==
    ASSUME Inv, OrderInv, [ManagerNext]_managerVars, ~ \E i \in Ids : create_task(i)
    PROVE  tasks' = tasks
<1>1. UNCHANGED seat \/ \E i \in Ids : start_task(i) /\ Open(i) # {}
    BY DEF ManagerNext, cancel_all_tasks, cancel_task, Cancelled, start_task, update_progress,
           complete_task, fail_task, managerVars
<1>2. ASSUME NEW i \in Ids, start_task(i), Open(i) # {}
      PROVE  tasks' = tasks
    <2>1. seat' = ToEnd(seat, Open(i), seat)
        BY <1>2 DEF start_task
    <2>2. Open(i) \in SUBSET Placed(seat)
        BY DEF Open, Lookup, tasks
    <2>3. Placed(ToEnd(seat, Open(i), seat)) = Placed(seat) \cup Open(i)
        BY <2>2, ToEndOrder DEF OrderInv
    <2>4. QED
        BY <2>1, <2>2, <2>3 DEF tasks, Placed
<1>3. QED
    BY <1>1, <1>2 DEF tasks, Placed

\* What a step deletes is surplus, and ended before all that it keeps.
LEMMA DeletesOldest ==
    ASSUME Inv, OrderInv, [ManagerNext]_managerVars, NEW t \in tasks \ tasks'
    PROVE  /\ Cardinality(tasks') >= KeepCount
           /\ \A u \in tasks' : status[u] \in TERMINAL_STATUSES => ended[t] < ended[u]
<1>1. PICK i \in Ids : create_task(i)
    BY OnlyCreateDeletes
<1> DEFINE n == Cardinality(tasks) + 1
           c == total_tasks + 1
           over == {u \in tasks : status[u] \in TERMINAL_STATUSES}
           Before(u) == {v \in over : ended[v] < ended[u]}
           gone == {u \in over : Cardinality(Before(u)) < n - KeepCount}
<1>2. gone = Surplus(n)
    BY DEF Surplus
<1>3. c \in Task /\ status[c] = "absent" /\ c \notin tasks /\ tasks' = (tasks \cup {c}) \ gone
    BY <1>1, <1>2, CreateOrder
<1>4. /\ over \in SUBSET Task /\ gone \in SUBSET Task /\ gone \in SUBSET tasks
      /\ tasks \in SUBSET Task
    BY DEF tasks, Placed
<1>5. IsFiniteSet(tasks) /\ Cardinality(tasks) \in Nat
    BY <1>4, TaskSets
<1>6. t \in gone
    BY <1>3
<1>7. \A u \in over : Cardinality(Before(u)) \in Nat /\ IsFiniteSet(Before(u))
    <2>1. \A u \in over : Before(u) \in SUBSET Task
        BY <1>4
    <2>2. QED
        BY <2>1, TaskSets
<1>8. n - KeepCount \in Nat
    <2>1. t \in over /\ Cardinality(Before(t)) < n - KeepCount
        BY <1>6
    <2>2. Cardinality(Before(t)) \in Nat
        BY <1>7, <2>1
    <2> HIDE DEF Before, over
    <2>3. QED
        BY <1>5, <2>1, <2>2, ManagerAssumption
<1>9. /\ \A u \in Task : ended[u] \in Nat
      /\ \A u, v \in over : ended[u] = ended[v] => u = v
    BY <1>4, ManagerAssumption DEF OrderInv, Ordered
<1>10. Cardinality(gone) <= n - KeepCount
    <2>1. ended \in [Task -> Nat]
        BY DEF Inv, ManagerTypeOK
    <2> HIDE DEF over, n
    <2>2. QED
        BY <1>4, <1>8, <1>9, <2>1, OldestAreFew
<1>11. Cardinality(tasks') >= KeepCount
    <2> HIDE DEF gone, over, c
    <2>1. IsFiniteSet(tasks \cup {c}) /\ Cardinality(tasks \cup {c}) = n
        BY <1>3, <1>5, FS_AddElement
    <2>2. (tasks \cup {c}) \cap gone = gone
        BY <1>4
    <2>3. Cardinality((tasks \cup {c}) \ gone)
            = Cardinality(tasks \cup {c}) - Cardinality((tasks \cup {c}) \cap gone)
        BY <2>1, FS_Difference
    <2>4. Cardinality(gone) \in Nat
        BY <1>4, TaskSets
    <2>5. QED
        BY <1>3, <1>5, <1>10, <2>1, <2>2, <2>3, <2>4, ManagerAssumption
<1>12. ASSUME NEW u \in tasks', status[u] \in TERMINAL_STATUSES
       PROVE  ended[t] < ended[u]
    <2>1. u \in over /\ ~ (Cardinality(Before(u)) < n - KeepCount) /\ u \in Task
        BY <1>3, <1>4, <1>12
    <2>2. t \in over /\ Cardinality(Before(t)) < n - KeepCount /\ t \in Task
        BY <1>4, <1>6
    <2>3. ASSUME ~ (ended[t] < ended[u])
          PROVE  Cardinality(Before(u)) <= Cardinality(Before(t))
        <3>1. Before(u) \subseteq Before(t)
            BY <1>4, <1>9, <2>1, <2>2, <2>3
        <3>2. QED
            BY <1>7, <2>2, <3>1, FS_Subset
    <2>4. Cardinality(Before(u)) \in Nat /\ Cardinality(Before(t)) \in Nat
        BY <1>7, <2>1, <2>2
    <2> HIDE DEF Before, n, over
    <2>5. QED
        BY <1>8, <2>1, <2>2, <2>3, <2>4
<1>13. QED
    BY <1>11, <1>12

\* The orders of the records, in every reachable state.
LEMMA OrderHolds == ManagerSpec => []OrderInv
<1>1. ManagerInit => OrderInv
    BY ManagerAssumption DEF ManagerInit, OrderInv, Ordered, Placed
<1>2. Inv /\ OrderInv /\ [ManagerNext]_managerVars => OrderInv'
    BY NextKeepsOrder
<1>3. QED
    BY <1>1, <1>2, InvHolds, PTL DEF ManagerSpec

\* _cleanup_old_tasks deletes records of a table over keep_count only, and of
\* the ended ones those that ended first (OldestRecordsDeleted).
THEOREM OldestGoFirst == ManagerSpec => OldestRecordsDeleted
<1>1. Inv /\ OrderInv /\ [ManagerNext]_managerVars =>
        [\A t \in tasks \ tasks' :
            /\ Cardinality(tasks') >= KeepCount
            /\ \A u \in tasks' : status[u] \in TERMINAL_STATUSES
                                    => ended[t] < ended[u]]_managerVars
    BY DeletesOldest
<1>2. QED
    BY <1>1, InvHolds, OrderHolds, PTL DEF ManagerSpec, OldestRecordsDeleted

=============================================================================
