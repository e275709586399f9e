---------------------------- MODULE TaskManager ----------------------------
(***************************************************************************)
(* The task table of the HTTP server, lightx2v/server/task_manager.py.     *)
(*                                                                         *)
(* Every operation below is one method of class TaskManager, executed      *)
(* while holding its re-entrant lock, so it is one atomic step.  Next lets *)
(* any caller invoke any method with any task id in any order; TaskServer  *)
(* restricts the calls to those the server really makes.                   *)
(*                                                                         *)
(* A task is a TaskInfo OBJECT, numbered in order of creation, and not its *)
(* task_id: the processing loop and the stop_event flags hold on to the    *)
(* object, while every method finds it through its id, and an id may be    *)
(* given to a second object once the first one has been cleaned up.        *)
(***************************************************************************)
EXTENDS Integers, FiniteSets

CONSTANTS
    MaxTasks,      \* bound on the number of tasks ever created
    Ids,           \* task_id values
    NoId,          \* the id of an object not created yet
    ReuseIds,      \* whether clients may send an id a second time
    MaxQueueSize,  \* max_queue_size
    KeepCount,     \* keep_count of _cleanup_old_tasks (1000 in the code)
    PngKeepCount,  \* result_png_keep_count
    Full           \* phase_progress of a finished task (100.0 in the code)

ASSUME ManagerAssumption ==
    /\ MaxTasks \in Nat
    /\ NoId \notin Ids
    /\ ReuseIds \in BOOLEAN
    /\ MaxQueueSize \in Nat \ {0}
    /\ KeepCount \in Nat
    /\ PngKeepCount \in Nat \ {0}
    /\ Full \in Nat \ {0}

Task == 1..MaxTasks

VARIABLES
    id,              \* task_id of each object
    status,          \* status of each object, "absent" before create_task
    stop_event,      \* the objects whose stop_event is set
    result_png,      \* the objects that hold an in-memory image
    phase,           \* the objects whose phase is not None
    phase_progress,
    seat,            \* place of each object in _tasks, 0 when it has none
    ended,           \* order of the objects by end_time, 0 before the end
    total_tasks, completed_tasks, failed_tasks,
    gauge            \* the queue metrics last emitted

managerVars == <<id, status, stop_event, result_png, phase, phase_progress,
                 seat, ended, total_tasks, completed_tasks, failed_tasks, gauge>>

TERMINAL_STATUSES == {"COMPLETED", "FAILED", "CANCELLED"}
ACTIVE_STATUSES == {"PENDING", "PROCESSING"}

(***************************************************************************)
(* Orders.  The OrderedDict and the end_time stamps matter only for who    *)
(* comes before whom, so both are kept as places 1, 2, 3...                *)
(***************************************************************************)

\* The place of each member of S when S is sorted by key.
Sorted(S, key) ==
    [t \in Task |-> IF t \in S
                    THEN Cardinality({u \in S : key[u] <= key[t]})
                    ELSE 0]

Placed(place) == {t \in Task : place[t] > 0}

\* S moved behind the others, in the order of key.
ToEnd(place, S, key) ==
    Sorted(Placed(place) \cup S,
           [t \in Task |-> IF t \in S THEN MaxTasks + key[t] ELSE place[t]])

tasks == Placed(seat)

Lookup(i) == {t \in tasks : id[t] = i}

Active == {t \in tasks : status[t] \in ACTIVE_STATUSES}

Pending == {t \in tasks : status[t] = "PENDING"}

\* Faulty guards: a cancelled task may still end, an ended one once more.
OpenIfNotReported(i) == {t \in Lookup(i) : status[t] \notin {"COMPLETED", "FAILED"}}
OpenIfNotCancelled(i) == {t \in Lookup(i) : status[t] # "CANCELLED"}

\* The tasks that a report on id i may still change.
Open(i) == {t \in Lookup(i) : status[t] \notin TERMINAL_STATUSES}

emit_queue_metrics ==
    gauge' = [pending |-> Cardinality({t \in Task : seat'[t] > 0 /\ status'[t] = "PENDING"}),
              active  |-> Cardinality({t \in Task : seat'[t] > 0 /\ status'[t] \in ACTIVE_STATUSES})]

(***************************************************************************)
(* Operations                                                              *)
(***************************************************************************)

\* Faulty cleanups: of active records, and by table order.
SurplusOfAll(n) ==
    {t \in tasks : Cardinality({u \in tasks : seat[u] < seat[t]}) < n - KeepCount}
SurplusBySeat(n) ==
    LET over == {t \in tasks : status[t] \in TERMINAL_STATUSES}
    IN  {t \in over : Cardinality({u \in over : seat[u] < seat[t]}) < n - KeepCount}

\* The terminal tasks _cleanup_old_tasks deletes from a table of n tasks:
\* the n - KeepCount that ended first.
Surplus(n) ==
    LET over == {t \in tasks : status[t] \in TERMINAL_STATUSES}
    IN  {t \in over : Cardinality({u \in over : ended[u] < ended[t]}) < n - KeepCount}

\* An id a client may send: generate_task_id makes fresh ones, but the
\* request schema also accepts one chosen by the client.
Sendable == {i \in Ids : ReuseIds \/ \A t \in Task : id[t] # i}

\* Faulty checks: none for duplicates, and the running task not counted.
NoDuplicateCheck(i) == TRUE
HasRoomForPending == Cardinality(Pending) < MaxQueueSize

\* The two checks that create_task makes first, and raises RuntimeError.
IsNewId(i) == Lookup(i) = {}
HasRoom == Cardinality(Active) < MaxQueueSize

create_task(i) ==
    /\ total_tasks < MaxTasks
    /\ i \in Sendable
    /\ IsNewId(i)
    /\ HasRoom
    /\ LET t == total_tasks + 1
           gone == Surplus(Cardinality(tasks) + 1)
       IN  /\ total_tasks' = t
           /\ id' = [id EXCEPT ![t] = i]
           /\ status' = [status EXCEPT ![t] = "PENDING"]
           /\ seat' = Sorted((tasks \cup {t}) \ gone, [seat EXCEPT ![t] = MaxTasks + 1])
           /\ result_png' = result_png \ gone
    /\ emit_queue_metrics
    /\ UNCHANGED <<stop_event, phase, phase_progress, ended, completed_tasks, failed_tasks>>

\* KeyError is the caller's case Lookup(i) = {}.
start_task(i) ==
    IF Open(i) = {} THEN UNCHANGED managerVars
    ELSE /\ status' = [t \in Task |-> IF t \in Open(i) THEN "PROCESSING" ELSE status[t]]
         /\ seat' = ToEnd(seat, Open(i), seat)
         /\ emit_queue_metrics
         /\ UNCHANGED <<id, stop_event, result_png, phase, phase_progress, ended,
                        total_tasks, completed_tasks, failed_tasks>>

\* max(0, min(Full, p)): the runner's fraction is not trusted to be one.
Clamped(p) == IF p < 0 THEN 0 ELSE IF p > Full THEN Full ELSE p

update_progress(i, p) ==
    LET running == {t \in Lookup(i) : status[t] = "PROCESSING"}
    IN  /\ phase' = phase \cup running
        /\ phase_progress' = [t \in Task |-> IF t \in running THEN Clamped(p) ELSE phase_progress[t]]
        /\ UNCHANGED <<id, status, stop_event, result_png, seat, ended,
                       total_tasks, completed_tasks, failed_tasks, gauge>>

\* Faulty evictions: one image too late, and one too early.
EvictedLate(held, when) ==
    IF Cardinality(held) <= PngKeepCount + 1 THEN {}
    ELSE {t \in held : \A u \in held : when[t] <= when[u]}
EvictedEarly(held, when) ==
    IF Cardinality(held) < PngKeepCount THEN {}
    ELSE {t \in held : \A u \in held : when[t] <= when[u]}

\* The image that has to go when `held` is one over the cap.
EvictedPng(held, when) ==
    IF Cardinality(held) <= PngKeepCount THEN {}
    ELSE {t \in held : \A u \in held : when[t] <= when[u]}

complete_task(i, png) ==
    IF Open(i) = {} THEN UNCHANGED managerVars
    ELSE /\ status' = [t \in Task |-> IF t \in Open(i) THEN "COMPLETED" ELSE status[t]]
         /\ ended' = ToEnd(ended, Open(i), seat)
         /\ result_png' = IF png
                          THEN LET held == result_png \cup Open(i)
                               IN  held \ EvictedPng(held, ended')
                          ELSE result_png
         /\ phase' = phase \ Open(i)
         /\ phase_progress' = [t \in Task |-> IF t \in Open(i) THEN Full ELSE phase_progress[t]]
         /\ completed_tasks' = completed_tasks + 1
         /\ UNCHANGED <<id, stop_event, seat, total_tasks, failed_tasks>>
         /\ emit_queue_metrics

fail_task(i) ==
    IF Open(i) = {} THEN UNCHANGED managerVars
    ELSE /\ status' = [t \in Task |-> IF t \in Open(i) THEN "FAILED" ELSE status[t]]
         /\ ended' = ToEnd(ended, Open(i), seat)
         /\ phase' = phase \ Open(i)
         /\ failed_tasks' = failed_tasks + 1
         /\ UNCHANGED <<id, stop_event, result_png, phase_progress, seat,
                        total_tasks, completed_tasks>>
         /\ emit_queue_metrics

\* Cancellation of the tasks S, in the order they have in _tasks.
Cancelled(S) ==
    /\ stop_event' = stop_event \cup S
    /\ status' = [t \in Task |-> IF t \in S THEN "CANCELLED" ELSE status[t]]
    /\ ended' = ToEnd(ended, S, seat)
    /\ phase' = phase \ S
    /\ UNCHANGED <<id, result_png, phase_progress, seat,
                   total_tasks, completed_tasks, failed_tasks>>
    /\ emit_queue_metrics

\* The tasks cancel_task(i) cancels; an already cancelled one once more.
Cancellable(i) == {t \in Lookup(i) : status[t] \notin {"COMPLETED", "FAILED"}}

cancel_task(i) == Cancelled(Cancellable(i))

cancel_all_tasks == Cancelled(Active)

\* Faulty: the task queued last.
LastPending == {id[t] : t \in {u \in Pending : \A v \in Pending : seat[v] <= seat[u]}}

\* The id wait_for_next_pending_task finds, a set of at most one id.
NextPending == {id[t] : t \in {u \in Pending : \A v \in Pending : seat[u] <= seat[v]}}

----------------------------------------------------------------------------

ManagerInit ==
    /\ id = [t \in Task |-> NoId]
    /\ status = [t \in Task |-> "absent"]
    /\ stop_event = {}
    /\ result_png = {}
    /\ phase = {}
    /\ phase_progress = [t \in Task |-> 0]
    /\ seat = [t \in Task |-> 0]
    /\ ended = [t \in Task |-> 0]
    /\ total_tasks = 0
    /\ completed_tasks = 0
    /\ failed_tasks = 0
    /\ gauge = [pending |-> 0, active |-> 0]

ManagerNext ==
    \/ cancel_all_tasks
    \/ \E i \in Ids :
        \/ create_task(i)
        \/ start_task(i)
        \/ \E p \in -1..(Full + 1) : update_progress(i, p)
        \/ \E png \in BOOLEAN : complete_task(i, png)
        \/ fail_task(i)
        \/ cancel_task(i)

ManagerSpec == ManagerInit /\ [][ManagerNext]_managerVars

----------------------------------------------------------------------------

\* The values the variables range over.
ManagerTypeOK ==
    /\ id \in [Task -> Ids \cup {NoId}]
    /\ status \in [Task -> {"absent"} \cup ACTIVE_STATUSES \cup TERMINAL_STATUSES]
    /\ stop_event \in SUBSET Task
    /\ result_png \in SUBSET Task
    /\ phase \in SUBSET Task
    /\ phase_progress \in [Task -> 0..Full]
    /\ seat \in [Task -> Nat]
    /\ ended \in [Task -> Nat]
    /\ total_tasks \in 0..MaxTasks
    /\ completed_tasks \in Nat
    /\ failed_tasks \in Nat
    /\ gauge \in [pending : Nat, active : Nat]

\* _cleanup_old_tasks never deletes a task that is still to run or running:
\* a created task leaves the table only after it has ended.
ActiveKept == \A t \in Task : status[t] \in ACTIVE_STATUSES => t \in tasks

\* The duplicate check of create_task keeps an id unambiguous: no method can
\* find two tasks behind one id, however ids are reused after a cleanup.
IdsUnambiguous == \A t, u \in tasks : id[t] = id[u] => t = u

\* max_queue_size bounds the tasks that are waiting or running.
QueueBounded == Cardinality(Active) <= MaxQueueSize

\* The table holds at most keep_count records, or as many as may be active
\* when that is more: create_task's cleanup keeps up with the arrivals.
TableBounded ==
    Cardinality(tasks) <= IF KeepCount > MaxQueueSize THEN KeepCount ELSE MaxQueueSize

\* Evicting one image per completion is enough to keep the cache at its cap
\* (the claim in the docstring of _evict_old_result_png_unlocked), and only
\* completed tasks hold an image.
PngBounded ==
    /\ Cardinality(result_png) <= PngKeepCount
    /\ \A t \in result_png : status[t] = "COMPLETED"

\* Each task is counted once, by the counter of the status it ended in, even
\* when it has been cancelled, completed and failed by racing callers.
CountersExact ==
    /\ completed_tasks = Cardinality({t \in Task : status[t] = "COMPLETED"})
    /\ failed_tasks = Cardinality({t \in Task : status[t] = "FAILED"})
    /\ total_tasks = Cardinality({t \in Task : status[t] # "absent"})

\* "Once a task reaches one of these it must never move again"
\* (TERMINAL_STATUSES): no late start, progress, completion, failure or
\* cancellation changes the status, the progress or the image of a task that
\* has ended; its image may only be dropped.
TerminalForever ==
    [][\A t \in Task : status[t] \in TERMINAL_STATUSES =>
        /\ status'[t] = status[t]
        /\ phase_progress'[t] = phase_progress[t]
        /\ t \notin phase'
        /\ t \in result_png' => t \in result_png]_managerVars

\* _cleanup_old_tasks deletes a record only from a table over keep_count, and
\* no record that ended before it is kept.
OldestRecordsDeleted ==
    [][\A t \in tasks \ tasks' :
        /\ Cardinality(tasks') >= KeepCount
        /\ \A u \in tasks' : status[u] \in TERMINAL_STATUSES => ended[t] < ended[u]]_managerVars

=============================================================================
