-------------------------- MODULE TaskServerProofs --------------------------
(***************************************************************************)
(* Theorems about TaskServer: its steps are calls that TaskManager allows, *)
(* so the task table keeps its invariant under the server; the processing  *)
(* thread never leaves a task running behind, for any number of tasks and  *)
(* whether or not clients reuse task ids; and what its clients are told.   *)
(***************************************************************************)
EXTENDS TaskServer, TaskManagerProofs

USE DEF TERMINAL_STATUSES, ACTIVE_STATUSES

\* Where the thread has a task in hand.
AtWork == {"claim"} \cup Holding

\* The task in hand exists.
TaskInfoCreated ==
    pc \in AtWork => task_info \in Task /\ status[task_info] # "absent"

\* Until the thread has settled it, only a cancellation can have ended it.
TaskInfoOpen ==
    pc \in AtWork \ {"release"} =>
        status[task_info] \in ACTIVE_STATUSES \/ task_info \in stop_event

\* stop_event is set by cancellations, and these are final.
StopMeansCancelled == \A t \in stop_event : status[t] = "CANCELLED"

\* Under the lock, the recorded id is that of the task in hand ...
CurrentIsTaskInfo == pc \in Holding \ {"claimed"} => current_processing_task = TaskId

\* ... and past the stop check no other object can be running under this id.
OnlyTaskInfoRuns ==
    pc \in {"prepare", "infer", "deliver", "publish"} =>
        \A t \in Task : status[t] = "PROCESSING" => t = task_info

\* Requests wait for tasks that exist.
WaitersCreated == \A t \in Task : waiter[t] # "none" => status[t] # "absent"

LoopInv ==
    /\ TaskInfoCreated /\ TaskInfoOpen /\ StopMeansCancelled /\ CurrentIsTaskInfo
    /\ OnlyTaskInfoRuns /\ WaitersCreated /\ RunningIsCurrent

ServerInv == Inv /\ ServerTypeOK /\ LoopInv

(***************************************************************************)
(* What the calls do to the status of a task.                              *)
(***************************************************************************)

\* No call takes back a creation or changes the id of a created task.
LEMMA CreatedStays ==
    ASSUME Inv, [ManagerNext]_managerVars, NEW t \in Task, status[t] # "absent"
    PROVE  id'[t] = id[t] /\ status'[t] # "absent"
<1>1. t # total_tasks + 1
    BY DEF Inv, CreatedInOrder, ManagerTypeOK
<1>2. CASE UNCHANGED managerVars
    BY <1>2 DEF managerVars
<1>3. CASE cancel_all_tasks
    BY <1>3 DEF cancel_all_tasks, Cancelled
<1>4. ASSUME NEW i \in Ids, cancel_task(i)
      PROVE  id'[t] = id[t] /\ status'[t] # "absent"
    BY <1>4 DEF cancel_task, Cancelled
<1>5. ASSUME NEW i \in Ids, create_task(i)
      PROVE  id'[t] = id[t] /\ status'[t] # "absent"
    BY <1>1, <1>5 DEF create_task, Inv, ManagerTypeOK
<1>6. ASSUME NEW i \in Ids, start_task(i)
      PROVE  id'[t] = id[t] /\ status'[t] # "absent"
    BY <1>2, <1>6 DEF start_task
<1>7. ASSUME NEW i \in Ids, NEW p \in -1..(Full + 1), update_progress(i, p)
      PROVE  id'[t] = id[t] /\ status'[t] # "absent"
    BY <1>7 DEF update_progress
<1>8. ASSUME NEW i \in Ids, NEW png \in BOOLEAN, complete_task(i, png)
      PROVE  id'[t] = id[t] /\ status'[t] # "absent"
    BY <1>2, <1>8 DEF complete_task
<1>9. ASSUME NEW i \in Ids, fail_task(i)
      PROVE  id'[t] = id[t] /\ status'[t] # "absent"
    BY <1>2, <1>9 DEF fail_task
<1>10. QED
    BY <1>2, <1>3, <1>4, <1>5, <1>6, <1>7, <1>8, <1>9 DEF ManagerNext

\* The calls of the endpoints start nothing, and end what they end by
\* cancelling it.
HarmlessCall ==
    /\ \A t \in Task : status'[t] = "PROCESSING" => status[t] = "PROCESSING"
    /\ \A t \in Task : status[t] \in ACTIVE_STATUSES =>
            status'[t] \in ACTIVE_STATUSES \/ t \in stop_event'
    /\ \A t \in stop_event' : status'[t] = "CANCELLED"
    /\ stop_event \subseteq stop_event'

LEMMA CancelledIsHarmless ==
    ASSUME Inv, StopMeansCancelled, NEW S \in SUBSET tasks, Cancelled(S)
    PROVE  HarmlessCall
<1>1. S \in SUBSET Task /\ stop_event \in SUBSET Task
    BY DEF Inv, ManagerTypeOK, tasks, Placed
<1>2. /\ stop_event' = stop_event \cup S
      /\ status' = [t \in Task |-> IF t \in S THEN "CANCELLED" ELSE status[t]]
    BY DEF Cancelled
<1>3. QED
    BY <1>1, <1>2 DEF HarmlessCall, StopMeansCancelled

LEMMA CreateIsHarmless ==
    ASSUME Inv, StopMeansCancelled, NEW i \in Ids, create_task(i)
    PROVE  HarmlessCall
<1>1. \A t \in Task : status[t] # "absent" => t # total_tasks + 1
    BY DEF Inv, CreatedInOrder, ManagerTypeOK
<1>2. /\ status' = [status EXCEPT ![total_tasks + 1] = "PENDING"]
      /\ stop_event' = stop_event
    BY DEF create_task
<1>3. \A t \in Task : t = total_tasks + 1 \/ status'[t] = status[t]
    BY <1>2 DEF Inv, ManagerTypeOK
<1>4. \A t \in Task : t = total_tasks + 1 => status'[t] = "PENDING"
    BY <1>2 DEF Inv, ManagerTypeOK
<1>5. stop_event \in SUBSET Task
    BY DEF Inv, ManagerTypeOK
<1>6. QED
    BY <1>1, <1>2, <1>3, <1>4, <1>5 DEF HarmlessCall, StopMeansCancelled

\* A request that leaves the thread alone keeps LoopInv but for its waiters.
LEMMA HarmlessKeepsLoop ==
    ASSUME ServerInv, HarmlessCall, [ManagerNext]_managerVars,
           UNCHANGED <<pc, task_info, processing_lock, current_processing_task>>
    PROVE  /\ TaskInfoCreated' /\ TaskInfoOpen' /\ StopMeansCancelled' /\ CurrentIsTaskInfo'
           /\ OnlyTaskInfoRuns' /\ RunningIsCurrent'
<1>1. \A t \in Task : status[t] # "absent" => id'[t] = id[t] /\ status'[t] # "absent"
    BY CreatedStays DEF ServerInv
<1>2. \A t \in Task : status'[t] = "PROCESSING" => status[t] = "PROCESSING"
    BY DEF HarmlessCall
<1>3. TaskInfoCreated' /\ CurrentIsTaskInfo'
    BY <1>1 DEF ServerInv, LoopInv, TaskInfoCreated, CurrentIsTaskInfo, TaskId, AtWork
<1>4. TaskInfoOpen'
    BY DEF HarmlessCall, ServerInv, LoopInv, TaskInfoOpen, TaskInfoCreated, AtWork
<1>5. StopMeansCancelled'
    BY DEF HarmlessCall, StopMeansCancelled
<1>6. OnlyTaskInfoRuns'
    BY <1>2 DEF ServerInv, LoopInv, OnlyTaskInfoRuns
<1>7. RunningIsCurrent'
    BY <1>1, <1>2 DEF ServerInv, LoopInv, RunningIsCurrent
<1>8. QED
    BY <1>3, <1>4, <1>5, <1>6, <1>7

(***************************************************************************)
(* The steps of the thread that leave the table alone.                     *)
(***************************************************************************)

\* A step that leaves the table alone keeps what LoopInv says of a place in
\* the code, as long as the thread stays there or reaches a place with no task.
LEMMA ScanKeeps ==
    ASSUME ServerInv, LoopScan \/ LoopWake \/ LoopStop
    PROVE  UNCHANGED managerVars /\ ServerTypeOK' /\ LoopInv'
<1>1. /\ UNCHANGED <<managerVars, task_info, result, processing_lock,
                     current_processing_task, stop_processing, httpVars>>
      /\ pc \in {"idle", "sleeping"} /\ pc' \in {"idle", "sleeping", "picked", "stopped"}
      /\ picked' \in NextPending \cup {picked}
    BY DEF LoopScan, LoopWake, LoopStop, Scan
<1>2. NextPending \subseteq Ids
    BY DEF NextPending, Pending, tasks, Placed, ServerInv, Inv, CreatedInOrder
<1>3. ServerTypeOK'
    BY <1>1, <1>2 DEF ServerInv, ServerTypeOK, ManagerTypeOK, managerVars, httpVars
<1>4. LoopInv'
    BY <1>1 DEF ServerInv, LoopInv, TaskInfoCreated, TaskInfoOpen, StopMeansCancelled,
                CurrentIsTaskInfo, OnlyTaskInfoRuns, WaitersCreated, RunningIsCurrent,
                AtWork, Holding, managerVars, httpVars, TaskId
<1>5. QED
    BY <1>1, <1>3, <1>4

LEMMA FetchKeeps ==
    ASSUME ServerInv, LoopFetch
    PROVE  UNCHANGED managerVars /\ ServerTypeOK' /\ LoopInv'
<1>1. /\ UNCHANGED <<managerVars, result, processing_lock,
                     current_processing_task, stop_processing, httpVars>>
      /\ pc = "picked" /\ picked' = NoId
      /\ \/ task_info' \in Pending /\ pc' = "claim"
         \/ pc' = "idle" /\ UNCHANGED task_info
    BY DEF LoopFetch
<1>2. Pending \subseteq Task /\ \A t \in Pending : status[t] = "PENDING"
    BY DEF Pending, tasks, Placed
<1>3. ServerTypeOK'
    BY <1>1, <1>2 DEF ServerInv, ServerTypeOK, ManagerTypeOK, managerVars, httpVars
<1>4. LoopInv'
    BY <1>1, <1>2 DEF ServerInv, LoopInv, TaskInfoCreated, TaskInfoOpen, StopMeansCancelled,
                CurrentIsTaskInfo, OnlyTaskInfoRuns, WaitersCreated, RunningIsCurrent,
                AtWork, Holding, managerVars, httpVars, TaskId
<1>5. QED
    BY <1>1, <1>3, <1>4

LEMMA LockKeeps ==
    ASSUME ServerInv, AcquireLock \/ RecordCurrent
    PROVE  UNCHANGED managerVars /\ ServerTypeOK' /\ LoopInv'
<1>1. /\ UNCHANGED <<managerVars, task_info, picked, result, stop_processing, httpVars>>
      /\ processing_lock' = TRUE
      /\ \/ /\ pc = "claim" /\ pc' = "claimed"
            /\ UNCHANGED current_processing_task
         \/ /\ pc = "claimed" /\ pc' = "start"
            /\ current_processing_task' = TaskId
            /\ UNCHANGED processing_lock
    BY DEF AcquireLock, RecordCurrent, ServerInv, LoopInv, RunningIsCurrent, Holding,
           ServerTypeOK
<1>2. task_info \in Task /\ TaskId \in Ids
    BY <1>1 DEF ServerInv, LoopInv, TaskInfoCreated, AtWork, Holding, Inv, CreatedInOrder, TaskId
<1>3. ServerTypeOK'
    BY <1>1, <1>2 DEF ServerInv, ServerTypeOK, ManagerTypeOK, managerVars, httpVars, Holding
<1>4. LoopInv'
    BY <1>1, <1>2, ManagerAssumption
       DEF ServerInv, LoopInv, TaskInfoCreated, TaskInfoOpen, StopMeansCancelled,
           CurrentIsTaskInfo, OnlyTaskInfoRuns, WaitersCreated, RunningIsCurrent,
           AtWork, Holding, managerVars, httpVars, TaskId
<1>5. QED
    BY <1>1, <1>3, <1>4

\* Behind the stop check the running object is the one in hand: it is still in
\* the table, and no other has its id.
LEMMA GenerationKeeps ==
    ASSUME ServerInv, ToGeneration
    PROVE  UNCHANGED managerVars /\ ServerTypeOK' /\ LoopInv'
<1>1. /\ UNCHANGED <<managerVars, picked, task_info, result, processing_lock,
                     current_processing_task, stop_processing, httpVars>>
      /\ pc = "check" /\ pc' = "prepare" /\ task_info \notin stop_event
    BY DEF ToGeneration, Goto, Stopped
<1>2. task_info \in tasks
    BY <1>1 DEF ServerInv, LoopInv, TaskInfoCreated, TaskInfoOpen, AtWork, Holding,
                Inv, ActiveKept
<1>3. \A t \in Task : status[t] = "PROCESSING" => t = task_info
    BY <1>1, <1>2 DEF ServerInv, LoopInv, RunningIsCurrent, CurrentIsTaskInfo, TaskId,
                      Holding, Inv, ActiveKept, IdsUnambiguous
<1>4. ServerTypeOK'
    BY <1>1 DEF ServerInv, ServerTypeOK, ManagerTypeOK, managerVars, httpVars, Holding
<1>5. LoopInv'
    BY <1>1, <1>3
       DEF ServerInv, LoopInv, TaskInfoCreated, TaskInfoOpen, StopMeansCancelled,
           CurrentIsTaskInfo, OnlyTaskInfoRuns, WaitersCreated, RunningIsCurrent,
           AtWork, Holding, managerVars, httpVars, TaskId
<1>6. QED
    BY <1>1, <1>4, <1>5

LEMMA InferenceKeeps ==
    ASSUME ServerInv, Prepare \/ Inference \/ KeepResult
    PROVE  UNCHANGED managerVars /\ ServerTypeOK' /\ LoopInv'
<1>1. /\ UNCHANGED <<managerVars, picked, task_info, processing_lock,
                     current_processing_task, stop_processing, httpVars>>
      /\ result' \in {result, "none", "image", "file"}
      /\ pc \in {"prepare", "infer", "deliver"}
      /\ pc' \in {"infer", "deliver", "publish", "error"}
    BY DEF Prepare, Inference, InferSuccess, InferCancelled, InferFailure, KeepResult, Goto
<1>2. ServerTypeOK'
    BY <1>1 DEF ServerInv, ServerTypeOK, ManagerTypeOK, managerVars, httpVars, Holding
<1>3. LoopInv'
    BY <1>1
       DEF ServerInv, LoopInv, TaskInfoCreated, TaskInfoOpen, StopMeansCancelled,
           CurrentIsTaskInfo, OnlyTaskInfoRuns, WaitersCreated, RunningIsCurrent,
           AtWork, Holding, managerVars, httpVars, TaskId
<1>4. QED
    BY <1>1, <1>2, <1>3

\* A discarded result leaves nothing running: the task in hand was cancelled,
\* and no other could be running.
LEMMA DiscardKeeps ==
    ASSUME ServerInv, Discard
    PROVE  UNCHANGED managerVars /\ ServerTypeOK' /\ LoopInv'
<1>1. /\ UNCHANGED <<managerVars, picked, task_info, processing_lock,
                     current_processing_task, stop_processing, httpVars>>
      /\ result' = "none" /\ pc = "deliver" /\ pc' = "release" /\ task_info \in stop_event
    BY DEF Discard, Goto, Stopped
<1>2. \A t \in Task : status[t] # "PROCESSING"
    BY <1>1 DEF ServerInv, LoopInv, OnlyTaskInfoRuns, StopMeansCancelled
<1>3. ServerTypeOK'
    BY <1>1 DEF ServerInv, ServerTypeOK, ManagerTypeOK, managerVars, httpVars, Holding
<1>4. LoopInv'
    BY <1>1, <1>2
       DEF ServerInv, LoopInv, TaskInfoCreated, TaskInfoOpen, StopMeansCancelled,
           CurrentIsTaskInfo, OnlyTaskInfoRuns, WaitersCreated, RunningIsCurrent,
           AtWork, Holding, managerVars, httpVars, TaskId
<1>5. QED
    BY <1>1, <1>3, <1>4

LEMMA ReleaseKeeps ==
    ASSUME ServerInv, Release
    PROVE  UNCHANGED managerVars /\ ServerTypeOK' /\ LoopInv'
<1>1. /\ UNCHANGED <<managerVars, picked, result, stop_processing, httpVars>>
      /\ task_info' = 0 /\ pc = "release" /\ pc' = "idle"
      /\ current_processing_task' = NoId /\ processing_lock' = FALSE
    BY DEF Release, ServerInv, LoopInv, CurrentIsTaskInfo, Holding
<1>2. ServerTypeOK'
    BY <1>1 DEF ServerInv, ServerTypeOK, ManagerTypeOK, managerVars, httpVars, Holding
<1>3. LoopInv'
    BY <1>1
       DEF ServerInv, LoopInv, TaskInfoCreated, TaskInfoOpen, StopMeansCancelled,
           CurrentIsTaskInfo, OnlyTaskInfoRuns, WaitersCreated, RunningIsCurrent,
           AtWork, Holding, managerVars, httpVars, TaskId
<1>4. QED
    BY <1>1, <1>2, <1>3

(***************************************************************************)
(* The steps of the thread that call into the table.                       *)
(***************************************************************************)

\* The thread reports under the id of an existing task.
LEMMA TaskIdKnown ==
    ASSUME ServerInv, pc \in AtWork
    PROVE  task_info \in Task /\ TaskId \in Ids
BY DEF ServerInv, LoopInv, TaskInfoCreated, Inv, CreatedInOrder, TaskId

\* start_task by id may start another object than the one in hand, but one
\* that has the recorded id.
LEMMA StartKeeps ==
    ASSUME ServerInv, Start
    PROVE  [ManagerNext]_managerVars /\ ServerTypeOK' /\ LoopInv'
<1>1. CASE Calling("start", "check") /\ Lookup(TaskId) # {} /\ start_task(TaskId)
    <2>1. /\ pc = "start" /\ pc' = "check"
          /\ UNCHANGED <<picked, task_info, result, processing_lock,
                         current_processing_task, stop_processing, httpVars>>
        BY <1>1 DEF Calling
    <2>2. task_info \in Task /\ TaskId \in Ids
        BY <2>1, TaskIdKnown DEF AtWork, Holding
    <2>3. [ManagerNext]_managerVars
        BY <1>1, <2>2 DEF ManagerNext
    <2>4. Inv'
        BY <2>3, NextInv DEF ServerInv
    <2>5. /\ \A t \in Task : status'[t] = IF t \in Open(TaskId) THEN "PROCESSING" ELSE status[t]
          /\ UNCHANGED <<id, stop_event>>
        BY <1>1 DEF start_task, managerVars
    <2>6. \A t \in Open(TaskId) :
            t \in Task /\ id[t] = TaskId /\ status[t] \notin TERMINAL_STATUSES /\ status[t] # "absent"
        BY DEF Open, Lookup, tasks, Placed, ServerInv, Inv, CreatedInOrder
    <2>7. ServerTypeOK'
        BY <2>1, <2>4 DEF ServerInv, ServerTypeOK, httpVars, Inv, Holding
    <2>8. /\ TaskInfoCreated' /\ TaskInfoOpen' /\ StopMeansCancelled' /\ CurrentIsTaskInfo'
          /\ OnlyTaskInfoRuns' /\ WaitersCreated'
        BY <2>1, <2>2, <2>5, <2>6
           DEF ServerInv, LoopInv, TaskInfoCreated, TaskInfoOpen, StopMeansCancelled,
               CurrentIsTaskInfo, OnlyTaskInfoRuns, WaitersCreated, AtWork, Holding, TaskId,
               httpVars, Inv, ManagerTypeOK
    <2>9. RunningIsCurrent'
        BY <2>1, <2>2, <2>5, <2>6
           DEF ServerInv, LoopInv, CurrentIsTaskInfo, RunningIsCurrent, Holding
    <2>10. QED
        BY <2>3, <2>7, <2>8, <2>9 DEF LoopInv
<1>2. CASE Goto("start", "error") /\ Lookup(TaskId) = {} /\ UNCHANGED result
    <2>1. /\ pc = "start" /\ pc' = "error"
          /\ UNCHANGED <<managerVars, picked, task_info, result, processing_lock,
                         current_processing_task, stop_processing, httpVars>>
        BY <1>2 DEF Goto
    <2>2. ServerTypeOK'
        BY <2>1 DEF ServerInv, ServerTypeOK, ManagerTypeOK, managerVars, httpVars, Holding
    <2>3. LoopInv'
        BY <2>1
           DEF ServerInv, LoopInv, TaskInfoCreated, TaskInfoOpen, StopMeansCancelled,
               CurrentIsTaskInfo, OnlyTaskInfoRuns, WaitersCreated, RunningIsCurrent,
               AtWork, Holding, managerVars, httpVars, TaskId
    <2>4. QED
        BY <2>1, <2>2, <2>3
<1>3. QED
    BY <1>1, <1>2 DEF Start

\* A report ends every task that is running, since all that run have its id.
LEMMA ReportKeeps ==
    ASSUME ServerInv, pc \in Holding \ {"claimed", "start", "release"}, pc' = "release",
           fail_task(TaskId) \/ \E png \in BOOLEAN : complete_task(TaskId, png),
           result' \in {"none", "image", "file"},
           UNCHANGED <<picked, task_info, processing_lock, current_processing_task,
                       stop_processing, httpVars>>
    PROVE  [ManagerNext]_managerVars /\ ServerTypeOK' /\ LoopInv'
<1>1. task_info \in Task /\ TaskId \in Ids
    BY TaskIdKnown DEF AtWork
<1>2. [ManagerNext]_managerVars
    BY <1>1 DEF ManagerNext
<1>3. Inv'
    BY <1>2, NextInv DEF ServerInv
<1>4. /\ \A t \in Task : \/ t \in Open(TaskId) /\ status'[t] \in {"FAILED", "COMPLETED"}
                         \/ t \notin Open(TaskId) /\ status'[t] = status[t]
      /\ UNCHANGED <<id, stop_event>>
    BY DEF fail_task, complete_task, managerVars
<1>5. \A t \in Open(TaskId) : status[t] # "CANCELLED" /\ status[t] # "absent"
    BY DEF Open, Lookup, tasks, Placed, ServerInv, Inv, CreatedInOrder
<1>6. \A t \in Task : status'[t] # "PROCESSING"
    <2>1. ASSUME NEW t \in Task, status[t] = "PROCESSING"
          PROVE  t \in Open(TaskId)
        <3>1. id[t] = TaskId
            BY <2>1 DEF ServerInv, LoopInv, RunningIsCurrent, CurrentIsTaskInfo, Holding
        <3>2. t \in tasks
            BY <2>1 DEF ServerInv, Inv, ActiveKept
        <3>3. QED
            BY <2>1, <3>1, <3>2 DEF Open, Lookup
    <2>2. QED
        BY <2>1, <1>4
<1>7. ServerTypeOK'
    BY <1>3 DEF ServerInv, ServerTypeOK, httpVars, Inv, Holding
<1>8. TaskInfoCreated' /\ StopMeansCancelled' /\ WaitersCreated'
    BY <1>1, <1>4, <1>5
       DEF ServerInv, LoopInv, TaskInfoCreated, StopMeansCancelled, WaitersCreated, AtWork,
           Holding, httpVars, Inv, ManagerTypeOK
<1>9. TaskInfoOpen' /\ CurrentIsTaskInfo' /\ OnlyTaskInfoRuns' /\ RunningIsCurrent'
    BY <1>4, <1>6
       DEF ServerInv, LoopInv, TaskInfoOpen, CurrentIsTaskInfo, OnlyTaskInfoRuns,
           RunningIsCurrent, AtWork, Holding, TaskId
<1>10. QED
    BY <1>2, <1>7, <1>8, <1>9 DEF LoopInv

LEMMA ReportStepKeeps ==
    ASSUME ServerInv, StoppedBeforeProcessing \/ Publish \/ ReportError
    PROVE  [ManagerNext]_managerVars /\ ServerTypeOK' /\ LoopInv'
<1>1. /\ pc \in Holding \ {"claimed", "start", "release"} /\ pc' = "release"
      /\ fail_task(TaskId) \/ \E png \in BOOLEAN : complete_task(TaskId, png)
      /\ UNCHANGED <<picked, task_info, processing_lock, current_processing_task,
                     stop_processing, httpVars>>
      /\ result' \in {result, "none"}
    BY DEF StoppedBeforeProcessing, Publish, ReportError, Calling, Holding
<1>2. result' \in {"none", "image", "file"}
    BY <1>1 DEF ServerInv, ServerTypeOK
<1>3. QED
    BY <1>1, <1>2, ReportKeeps

LEMMA ProgressKeeps ==
    ASSUME ServerInv, Progress
    PROVE  [ManagerNext]_managerVars /\ ServerTypeOK' /\ LoopInv'
<1>1. PICK p \in ProgressSteps : Calling("infer", "infer") /\ update_progress(TaskId, p)
    BY DEF Progress
<1>2. /\ pc = "infer" /\ pc' = "infer"
      /\ UNCHANGED <<picked, task_info, result, processing_lock,
                     current_processing_task, stop_processing, httpVars>>
    BY <1>1 DEF Calling
<1>3. [ManagerNext]_managerVars
    BY <1>1, <1>2, TaskIdKnown, ServerAssumption DEF ManagerNext, AtWork, Holding
<1>4. Inv'
    BY <1>3, NextInv DEF ServerInv
<1>5. UNCHANGED <<id, status, stop_event>>
    BY <1>1 DEF update_progress
<1>6. ServerTypeOK'
    BY <1>2, <1>4 DEF ServerInv, ServerTypeOK, httpVars, Inv
<1>7. LoopInv'
    BY <1>2, <1>5
       DEF ServerInv, LoopInv, TaskInfoCreated, TaskInfoOpen, StopMeansCancelled,
           CurrentIsTaskInfo, OnlyTaskInfoRuns, WaitersCreated, RunningIsCurrent,
           AtWork, Holding, httpVars, TaskId
<1>8. QED
    BY <1>3, <1>6, <1>7

LEMMA LoopStepKeeps ==
    ASSUME ServerInv, LoopStep
    PROVE  [ManagerNext]_managerVars /\ ServerTypeOK' /\ LoopInv'
BY ScanKeeps, FetchKeeps, LockKeeps, StartKeeps, GenerationKeeps, InferenceKeeps,
   DiscardKeeps, ReportStepKeeps, ReleaseKeeps
   DEF LoopStep, ProcessTask

(***************************************************************************)
(* The steps of the endpoints.                                             *)
(***************************************************************************)

LEMMA CancelCall ==
    ASSUME ServerInv, NEW i \in Ids, cancel_task(i)
    PROVE  ManagerNext /\ HarmlessCall
<1>1. Cancellable(i) \in SUBSET tasks
    BY DEF Cancellable, Lookup
<1>2. QED
    BY <1>1, CancelledIsHarmless DEF cancel_task, ManagerNext, ServerInv, LoopInv

LEMMA CancelAllCall ==
    ASSUME ServerInv, cancel_all_tasks
    PROVE  ManagerNext /\ HarmlessCall
<1>1. Active \in SUBSET tasks
    BY DEF Active
<1>2. QED
    BY <1>1, CancelledIsHarmless DEF cancel_all_tasks, ManagerNext, ServerInv, LoopInv

\* A request, or a step of its waiter, that calls into the table or leaves it
\* alone, and whose waiters still wait for created tasks.
LEMMA EndpointKeeps ==
    ASSUME ServerInv, ServerTypeOK', WaitersCreated',
           \/ ManagerNext /\ HarmlessCall
           \/ UNCHANGED managerVars,
           UNCHANGED <<pc, task_info, processing_lock, current_processing_task>>
    PROVE  [ManagerNext]_managerVars /\ ServerTypeOK' /\ LoopInv'
<1>1. HarmlessCall
    BY DEF managerVars, HarmlessCall, ServerInv, LoopInv, StopMeansCancelled
<1>2. [ManagerNext]_managerVars
    OBVIOUS
<1>3. QED
    BY <1>1, <1>2, HarmlessKeepsLoop DEF LoopInv

LEMMA CreateSyncKeeps ==
    ASSUME ServerInv, NEW i \in Ids, CreateSync(i)
    PROVE  [ManagerNext]_managerVars /\ ServerTypeOK' /\ LoopInv'
<1>1. /\ create_task(i)
      /\ sync' = sync \cup {total_tasks'}
      /\ waiter' = [waiter EXCEPT ![total_tasks'] = "poll"]
      /\ UNCHANGED <<loopVars, response>>
    BY DEF CreateSync
<1>2. ManagerNext /\ HarmlessCall
    BY <1>1, CreateIsHarmless DEF ManagerNext, ServerInv, LoopInv
<1>3. Inv'
    BY <1>2, NextInv DEF ServerInv
<1>4. total_tasks' \in Task /\ status'[total_tasks'] = "PENDING"
    <2>1. /\ total_tasks < MaxTasks /\ total_tasks' = total_tasks + 1
          /\ status' = [status EXCEPT ![total_tasks + 1] = "PENDING"]
        BY <1>1 DEF create_task
    <2>2. total_tasks + 1 \in Task /\ DOMAIN status = Task
        BY <2>1, ManagerAssumption DEF ServerInv, Inv, ManagerTypeOK, Task
    <2>3. QED
        BY <2>1, <2>2
<1>5. ServerTypeOK'
    BY <1>1, <1>3, <1>4 DEF ServerInv, ServerTypeOK, Inv, loopVars
<1>6. \A t \in Task : status[t] # "absent" => status'[t] # "absent"
    BY <1>2, CreatedStays DEF ServerInv
<1>7. WaitersCreated'
    BY <1>1, <1>4, <1>6 DEF ServerInv, LoopInv, WaitersCreated, ServerTypeOK
<1>8. QED
    BY <1>1, <1>2, <1>5, <1>7, EndpointKeeps DEF loopVars

\* A request that creates no waiter.
LEMMA RequestKeeps ==
    ASSUME ServerInv, ManagerNext, HarmlessCall, UNCHANGED <<loopVars, httpVars>>
    PROVE  [ManagerNext]_managerVars /\ ServerTypeOK' /\ LoopInv'
<1>1. Inv'
    BY NextInv DEF ServerInv
<1>2. ServerTypeOK'
    BY <1>1 DEF ServerInv, ServerTypeOK, Inv, loopVars, httpVars
<1>3. WaitersCreated'
    BY CreatedStays DEF ServerInv, LoopInv, WaitersCreated, httpVars
<1>4. QED
    BY <1>2, <1>3, EndpointKeeps DEF loopVars

LEMMA CleanupKeeps ==
    ASSUME ServerInv, Cleanup
    PROVE  [ManagerNext]_managerVars /\ ServerTypeOK' /\ LoopInv'
<1>1. ServerTypeOK'
    BY DEF Cleanup, ServerInv, ServerTypeOK, ManagerTypeOK, managerVars, httpVars
<1>2. WaitersCreated'
    BY DEF Cleanup, ServerInv, LoopInv, WaitersCreated, managerVars, httpVars
<1>3. QED
    BY <1>1, <1>2, EndpointKeeps DEF Cleanup

\* The waiter of a created task moves on.
LEMMA WaiterKeeps ==
    ASSUME ServerInv, NEW t \in Task, waiter[t] # "none",
           NEW to \in {"poll", "fetch", "expire", "quit"} \cup Outcome,
           NEW answer \in {"none", "gone"} \cup Outcome,
           waiter' = [waiter EXCEPT ![t] = to],
           response' = [response EXCEPT ![t] = answer],
           UNCHANGED <<loopVars, sync>>,
           cancel_task(id[t]) \/ UNCHANGED managerVars
    PROVE  [ManagerNext]_managerVars /\ ServerTypeOK' /\ LoopInv'
<1>1. id[t] \in Ids /\ status[t] # "absent"
    BY DEF ServerInv, LoopInv, WaitersCreated, Inv, CreatedInOrder
<1>2. (ManagerNext /\ HarmlessCall) \/ UNCHANGED managerVars
    BY <1>1, CancelCall
<1>3. [ManagerNext]_managerVars
    BY <1>2
<1>4. Inv'
    BY <1>3, NextInv DEF ServerInv
<1>5. ServerTypeOK'
    BY <1>4 DEF ServerInv, ServerTypeOK, Inv, loopVars
<1>6. \A u \in Task : status[u] # "absent" => status'[u] # "absent"
    BY <1>3, CreatedStays DEF ServerInv
<1>7. WaitersCreated'
    BY <1>1, <1>6 DEF ServerInv, LoopInv, WaitersCreated, ServerTypeOK
<1>8. QED
    BY <1>2, <1>5, <1>7, EndpointKeeps DEF loopVars

LEMMA WaiterStepKeeps ==
    ASSUME ServerInv, NEW t \in Task, WaiterStep(t) \/ PollExpired(t) \/ ClientGone(t)
    PROVE  [ManagerNext]_managerVars /\ ServerTypeOK' /\ LoopInv'
<1>1. waiter \in [Task -> {"none", "poll", "fetch", "expire", "quit"} \cup Outcome]
      /\ response \in [Task -> {"none", "gone"} \cup Outcome]
    BY DEF ServerInv, ServerTypeOK
<1>2. response = [response EXCEPT ![t] = response[t]] /\ waiter = [waiter EXCEPT ![t] = waiter[t]]
    BY <1>1
<1>3. CASE PollSettled(t) \/ PollExpired(t)
    <2>1. PICK to \in {"fetch", "expire"} \cup Outcome : WaiterMoves(t, to)
        BY <1>3 DEF PollSettled, PollExpired, Outcome
    <2>2. QED
        BY <1>1, <1>2, <1>3, <2>1, WaiterKeeps
           DEF PollSettled, PollExpired, Waiting, WaiterMoves
<1>4. CASE FetchImage(t)
    <2>1. PICK to \in Outcome : WaiterMoves(t, to)
        BY <1>4 DEF FetchImage, Outcome
    <2>2. waiter[t] # "none" /\ UNCHANGED managerVars
        BY <1>4 DEF FetchImage
    <2>3. QED
        BY <1>1, <1>2, <2>1, <2>2, WaiterKeeps DEF WaiterMoves
<1>5. CASE ExpireTask(t)
    BY <1>1, <1>2, <1>5, WaiterKeeps DEF ExpireTask, WaiterMoves, Outcome
<1>6. CASE Answer(t)
    BY <1>1, <1>2, <1>6, WaiterKeeps DEF Answer, Outcome
<1>7. CASE ClientGone(t)
    BY <1>1, <1>7, WaiterKeeps DEF ClientGone, Outcome
<1>8. QED
    BY <1>3, <1>4, <1>5, <1>6, <1>7 DEF WaiterStep

(***************************************************************************)
(* The inductive argument.                                                 *)
(***************************************************************************)

LEMMA ServerInitInv == Init => ServerInv
<1> SUFFICES ASSUME Init PROVE ServerInv
    OBVIOUS
<1>1. Inv
    BY InitInv DEF Init
<1>2. ServerTypeOK
    BY <1>1, ManagerAssumption DEF Init, ServerTypeOK, Inv, Task
<1>3. LoopInv
    BY ManagerAssumption
       DEF Init, ManagerInit, LoopInv, TaskInfoCreated, TaskInfoOpen, StopMeansCancelled,
           CurrentIsTaskInfo, OnlyTaskInfoRuns, WaitersCreated, RunningIsCurrent,
           AtWork, Holding
<1>4. QED
    BY <1>1, <1>2, <1>3 DEF ServerInv

LEMMA ServerStep ==
    ASSUME ServerInv, [Next]_serverVars
    PROVE  [ManagerNext]_managerVars /\ ServerInv'
<1>1. [ManagerNext]_managerVars /\ ServerTypeOK' /\ LoopInv'
    <2>1. CASE LoopStep
        BY <2>1, LoopStepKeeps
    <2>2. CASE Progress
        BY <2>2, ProgressKeeps
    <2>3. CASE Cleanup
        BY <2>3, CleanupKeeps
    <2>4. CASE StopAllRunningTasks
        BY <2>4, CancelAllCall, RequestKeeps DEF StopAllRunningTasks
    <2>5. ASSUME NEW i \in Ids, CreateAsync(i)
          PROVE  [ManagerNext]_managerVars /\ ServerTypeOK' /\ LoopInv'
        <3>1. ManagerNext /\ HarmlessCall
            BY <2>5, CreateIsHarmless DEF CreateAsync, ManagerNext, ServerInv, LoopInv
        <3>2. QED
            BY <2>5, <3>1, RequestKeeps DEF CreateAsync
    <2>6. ASSUME NEW i \in Ids, CreateSync(i)
          PROVE  [ManagerNext]_managerVars /\ ServerTypeOK' /\ LoopInv'
        BY <2>6, CreateSyncKeeps
    <2>7. ASSUME NEW i \in Ids, StopTask(i)
          PROVE  [ManagerNext]_managerVars /\ ServerTypeOK' /\ LoopInv'
        BY <2>7, CancelCall, RequestKeeps DEF StopTask
    <2>8. ASSUME NEW t \in Task, WaiterStep(t) \/ PollExpired(t) \/ ClientGone(t)
          PROVE  [ManagerNext]_managerVars /\ ServerTypeOK' /\ LoopInv'
        BY <2>8, WaiterStepKeeps
    <2>9. CASE UNCHANGED serverVars
        BY <2>9
           DEF serverVars, managerVars, loopVars, httpVars, ServerInv, ServerTypeOK,
               ManagerTypeOK, LoopInv, TaskInfoCreated, TaskInfoOpen, StopMeansCancelled,
               CurrentIsTaskInfo, OnlyTaskInfoRuns, WaitersCreated, RunningIsCurrent,
               AtWork, Holding, TaskId
    <2>10. QED
        BY <2>1, <2>2, <2>3, <2>4, <2>5, <2>6, <2>7, <2>8, <2>9 DEF Next, Request
<1>2. QED
    BY <1>1, NextInv DEF ServerInv

\* The inductive invariant of the server.
THEOREM ServerInvHolds == Safety => []ServerInv
<1>1. ServerInv /\ [Next]_serverVars => ServerInv'
    BY ServerStep
<1>2. QED
    BY <1>1, ServerInitInv, PTL DEF Safety

\* The server uses the task table as TaskManager allows: every step of the
\* thread and of the endpoints is one call, with an id of Ids, or none.
THEOREM ServerUsesTable == Safety => ManagerSpec
<1>1. Init => ManagerInit
    BY DEF Init
<1>2. ServerInv /\ [Next]_serverVars => [ManagerNext]_managerVars
    BY ServerStep
<1>3. QED
    BY <1>1, <1>2, ServerInvHolds, PTL DEF Safety, ManagerSpec

\* The variables of the server keep their types.
THEOREM ServerTypeCorrect == Safety => []ServerTypeOK
<1>1. ServerInv => ServerTypeOK
    BY DEF ServerInv
<1>2. QED
    BY <1>1, ServerInvHolds, PTL

\* A task in PROCESSING is the one task the thread has recorded under the
\* processing lock, and the thread returns to the queue with the lock free and
\* no task left running, also when ids are reused.
THEOREM OneTaskAtATime == Safety => []RunningIsCurrent
<1>1. ServerInv => RunningIsCurrent
    BY DEF ServerInv, LoopInv
<1>2. QED
    BY <1>1, ServerInvHolds, PTL

-----------------------------------------------------------------------------
(***************************************************************************)
(* What the clients are told.  That a request given up leaves no task      *)
(* behind holds for ids used again too; the others need fresh ids, since   *)
(* the waiters, like the thread, find a task through its id.               *)
(***************************************************************************)

Created(t) == status[t] # "absent"

(***************************************************************************)
(* What every step keeps.                                                  *)
(***************************************************************************)

\* A record that has left the table does not come back.
LEMMA NotBack ==
    ASSUME Inv, OrderInv, [ManagerNext]_managerVars, NEW t \in Task, Created(t), t \notin tasks
    PROVE  t \notin tasks'
<1>1. CASE \E i \in Ids : create_task(i)
    <2>1. PICK i \in Ids : create_task(i)
        BY <1>1
    <2>2. PICK c : c = total_tasks + 1
        OBVIOUS
    <2>3. status[c] = "absent" /\ tasks' \subseteq tasks \cup {c}
        BY <2>1, <2>2, CreateOrder
    <2>4. QED
        BY <2>3 DEF Created
<1>2. CASE ~ \E i \in Ids : create_task(i)
    BY <1>2, OnlyCreateDeletes
<1>3. QED
    BY <1>1, <1>2

\* cancel_task under the id of a created task leaves it ended.
LEMMA CancelEnds ==
    ASSUME Inv, NEW t \in Task, Created(t), cancel_task(id[t])
    PROVE  status'[t] \in TERMINAL_STATUSES
<1>1. status' = [u \in Task |-> IF u \in Cancellable(id[t]) THEN "CANCELLED" ELSE status[u]]
    BY DEF cancel_task, Cancelled
<1>2. CASE status[t] \in ACTIVE_STATUSES
    <2>1. t \in tasks
        BY <1>2 DEF Inv, ActiveKept
    <2>2. t \in Cancellable(id[t])
        BY <1>2, <2>1 DEF Cancellable, Lookup
    <2>3. QED
        BY <1>1, <2>2
<1>3. CASE status[t] \in TERMINAL_STATUSES
    BY <1>1, <1>3
<1>4. QED
    BY <1>2, <1>3 DEF Created, Inv, ManagerTypeOK

\* The thread, the asynchronous requests and the shutdown leave the waiters
\* alone.
LEMMA OthersLeaveWaiters ==
    ASSUME LoopStep \/ Progress \/ Cleanup \/ StopAllRunningTasks
            \/ \E i \in Ids : CreateAsync(i) \/ StopTask(i)
    PROVE  UNCHANGED httpVars
BY DEF LoopStep, LoopScan, LoopWake, LoopStop, LoopFetch, Scan, ProcessTask, AcquireLock,
       RecordCurrent, Start, StoppedBeforeProcessing, ToGeneration, Prepare, Inference,
       InferSuccess, InferCancelled, InferFailure, Discard, KeepResult, Publish,
       ReportError, Release, Progress, Cleanup, StopAllRunningTasks, CreateAsync,
       StopTask, Goto, Calling

(***************************************************************************)
(* Requests that were given up.                                            *)
(***************************************************************************)

\* GivenUpIsStopped, and the deadline that passed but is not answered yet.
GivenUpInv ==
    \A t \in Task : waiter[t] = "timeout" \/ response[t] \in {"timeout", "gone"}
                        => status[t] \in TERMINAL_STATUSES

\* A deadline or a disconnect is a cancellation first.
LEMMA NewlyGivenUp ==
    ASSUME ServerInv, [Next]_serverVars, NEW t \in Task,
           waiter'[t] = "timeout" \/ response'[t] \in {"timeout", "gone"}
    PROVE  \/ waiter[t] = "timeout" \/ response[t] \in {"timeout", "gone"}
           \/ waiter[t] # "none" /\ cancel_task(id[t])
<1>1. /\ waiter \in [Task -> {"none", "poll", "fetch", "expire", "quit"} \cup Outcome]
      /\ response \in [Task -> {"none", "gone"} \cup Outcome]
    BY DEF ServerInv, ServerTypeOK
<1>2. CASE UNCHANGED <<waiter, response>>
    BY <1>2
<1>3. ASSUME NEW i \in Ids, CreateSync(i)
      PROVE  waiter[t] = "timeout" \/ response[t] \in {"timeout", "gone"}
    BY <1>1, <1>3 DEF CreateSync
<1>4. ASSUME NEW u \in Task, PollSettled(u) \/ PollExpired(u) \/ FetchImage(u)
      PROVE  waiter[t] = "timeout" \/ response[t] \in {"timeout", "gone"}
    <2>1. /\ waiter' = [waiter EXCEPT ![u] = waiter'[u]] /\ waiter'[u] # "timeout"
          /\ response' = response
        BY <1>1, <1>4 DEF PollSettled, PollExpired, FetchImage, WaiterMoves
    <2>2. QED
        BY <1>1, <2>1
<1>5. ASSUME NEW u \in Task, ExpireTask(u)
      PROVE  \/ waiter[t] = "timeout" \/ response[t] \in {"timeout", "gone"}
             \/ waiter[t] # "none" /\ cancel_task(id[t])
    BY <1>1, <1>5 DEF ExpireTask, WaiterMoves
<1>6. ASSUME NEW u \in Task, Answer(u)
      PROVE  waiter[t] = "timeout" \/ response[t] \in {"timeout", "gone"}
    BY <1>1, <1>6 DEF Answer, Outcome
<1>7. ASSUME NEW u \in Task, ClientGone(u)
      PROVE  \/ waiter[t] = "timeout" \/ response[t] \in {"timeout", "gone"}
             \/ waiter[t] # "none" /\ cancel_task(id[t])
    BY <1>1, <1>7 DEF ClientGone, Outcome
<1>8. CASE LoopStep \/ Progress \/ Cleanup \/ StopAllRunningTasks
            \/ \E i \in Ids : CreateAsync(i) \/ StopTask(i)
    BY <1>2, <1>8, OthersLeaveWaiters DEF httpVars
<1>9. QED
    BY <1>2, <1>3, <1>4, <1>5, <1>6, <1>7, <1>8 DEF Next, Request, WaiterStep, serverVars, httpVars

\* A step gives up no request whose task goes on, and revives no task.
LEMMA GivenUpStep ==
    ASSUME ServerInv, GivenUpInv, [Next]_serverVars
    PROVE  GivenUpInv'
<1>1. Inv /\ [ManagerNext]_managerVars
    BY ServerStep DEF ServerInv
<1>2. ASSUME NEW t \in Task, waiter'[t] = "timeout" \/ response'[t] \in {"timeout", "gone"}
      PROVE  status'[t] \in TERMINAL_STATUSES
    <2>1. CASE waiter[t] = "timeout" \/ response[t] \in {"timeout", "gone"}
        <3>1. status[t] \in TERMINAL_STATUSES
            BY <2>1 DEF GivenUpInv
        <3>2. status'[t] = status[t]
            BY <1>1, <3>1, NextKeepsEnded
        <3>3. QED
            BY <3>1, <3>2
    <2>2. CASE waiter[t] # "none" /\ cancel_task(id[t])
        <3>1. Created(t)
            BY <2>2 DEF ServerInv, LoopInv, WaitersCreated, Created
        <3>2. QED
            BY <1>1, <2>2, <3>1, CancelEnds
    <2>3. QED
        BY <1>2, <2>1, <2>2, NewlyGivenUp
<1>3. QED
    BY <1>2 DEF GivenUpInv

\* A request that was given up (504 after its deadline, 499 after a disconnect)
\* leaves no task behind that is still queued or running, whatever the
\* interleaving of its watcher with the thread (GivenUpIsStopped).
THEOREM GivenUpStopped == Safety => []GivenUpIsStopped
<1>1. Init => GivenUpInv
    BY DEF Init, GivenUpInv
<1>2. ServerInv /\ GivenUpInv /\ [Next]_serverVars => GivenUpInv'
    BY GivenUpStep
<1>3. GivenUpInv => GivenUpIsStopped
    BY DEF GivenUpInv, GivenUpIsStopped
<1>4. QED
    BY <1>1, <1>2, <1>3, ServerInvHolds, PTL DEF Safety

(***************************************************************************)
(* Fresh ids.                                                              *)
(***************************************************************************)

\* No id is given to a second task.
FreshIds ==
    /\ ~ReuseIds
    /\ \A t, u \in Task : Created(t) /\ Created(u) /\ id[t] = id[u] => t = u

\* generate_task_id makes ids that no task has had.
LEMMA FreshStep ==
    ASSUME Inv, OrderInv, FreshIds, [ManagerNext]_managerVars
    PROVE  FreshIds'
<1>1. \A t \in Task : Created(t) => id'[t] = id[t] /\ status'[t] # "absent"
    BY CreatedStays DEF Created
<1>2. CASE \E i \in Ids : create_task(i)
    <2>1. PICK i \in Ids : create_task(i)
        BY <1>2
    <2>2. PICK c : c = total_tasks + 1
        OBVIOUS
    <2>3. /\ \A t \in Task : id[t] # i
          /\ id' = [id EXCEPT ![c] = i] /\ status' = [status EXCEPT ![c] = "PENDING"]
        BY <2>1, <2>2 DEF create_task, Sendable, FreshIds
    <2>4. \A t \in Task : t # c => id'[t] = id[t] /\ status'[t] = status[t]
        BY <2>3 DEF Inv, ManagerTypeOK
    <2>5. c \in Task => id'[c] = i
        BY <2>3 DEF Inv, ManagerTypeOK
    <2>6. QED
        BY <2>3, <2>4, <2>5 DEF FreshIds, Created
<1>3. CASE ~ \E i \in Ids : create_task(i)
    <2>1. \A t \in Task : status[t] = "absent" => status'[t] = "absent"
        <3>1. \A i : \A t \in Open(i) \cup Cancellable(i) \cup Active : status[t] # "absent"
            BY DEF Open, Cancellable, Lookup, tasks, Placed, Active, Inv, CreatedInOrder
        <3>2. QED
            BY <1>3, <3>1
               DEF ManagerNext, cancel_all_tasks, cancel_task, Cancelled, start_task,
                   update_progress, complete_task, fail_task, managerVars
    <2>2. QED
        BY <1>1, <2>1 DEF FreshIds, Created
<1>4. QED
    BY <1>2, <1>3

\* A call under the id of a created task finds that task or none.
LEMMA FoundIsOwn ==
    ASSUME Inv, FreshIds, NEW t \in Task, Created(t)
    PROVE  Lookup(id[t]) = IF t \in tasks THEN {t} ELSE {}
<1>1. \A u \in tasks : u \in Task /\ Created(u)
    BY DEF tasks, Placed, Inv, CreatedInOrder, Created
<1>2. QED
    BY <1>1 DEF Lookup, FreshIds

\* A poll sees the status of the waiter's own task.
LEMMA PollSeesOwn ==
    ASSUME Inv, FreshIds, NEW t \in Task, Created(t)
    PROVE  /\ \A s : StatusSeen(id[t]) = {s} => status[t] = s
           /\ StatusSeen(id[t]) = {} => t \notin tasks /\ status[t] \in TERMINAL_STATUSES
<1>1. CASE t \in tasks
    <2>1. Lookup(id[t]) = {t}
        BY <1>1, FoundIsOwn
    <2>2. QED
        BY <2>1 DEF StatusSeen
<1>2. CASE t \notin tasks
    <2>1. Lookup(id[t]) = {}
        BY <1>2, FoundIsOwn
    <2>2. status[t] \in TERMINAL_STATUSES
        BY <1>2 DEF Inv, ActiveKept, ManagerTypeOK, Created
    <2>3. QED
        BY <1>2, <2>1, <2>2 DEF StatusSeen
<1>3. QED
    BY <1>1, <1>2

(***************************************************************************)
(* What the waiters and the answers say.                                   *)
(***************************************************************************)

\* What an outcome says of the task, but for a cache that lost its image.
Says(outcome, t) ==
    /\ outcome \in {"fetch", "image", "lost"} => status[t] = "COMPLETED"
    /\ outcome = "failed" => status[t] = "FAILED"
    /\ outcome = "cancelled" => status[t] = "CANCELLED"
    /\ outcome = "missing" => status[t] \in TERMINAL_STATUSES /\ t \notin tasks

AnswerInv == \A t \in Task : Says(waiter[t], t) /\ Says(response[t], t)

\* A step keeps what has been said ...
LEMMA SaidStays ==
    ASSUME Inv, OrderInv, [ManagerNext]_managerVars, NEW outcome, NEW t \in Task, Says(outcome, t)
    PROVE  Says(outcome, t)'
<1>1. status[t] \in TERMINAL_STATUSES => status'[t] = status[t]
    BY NextKeepsEnded
<1>2. status[t] \in TERMINAL_STATUSES /\ t \notin tasks => t \notin tasks'
    BY NotBack DEF Created
<1>3. QED
    BY <1>1, <1>2 DEF Says

\* ... and what it says anew is true.
LEMMA NewlySaid ==
    ASSUME ServerInv, FreshIds, AnswerInv, [Next]_serverVars, NEW t \in Task
    PROVE  /\ waiter'[t] = waiter[t] \/ Says(waiter'[t], t)
           /\ response'[t] = response[t] \/ Says(response'[t], t)
<1> DEFINE Goal == /\ waiter'[t] = waiter[t] \/ Says(waiter'[t], t)
                   /\ response'[t] = response[t] \/ Says(response'[t], t)
<1>1. /\ waiter \in [Task -> {"none", "poll", "fetch", "expire", "quit"} \cup Outcome]
      /\ response \in [Task -> {"none", "gone"} \cup Outcome]
    BY DEF ServerInv, ServerTypeOK
<1>2. \A s \in {"none", "poll", "expire", "quit", "timeout", "gone"} : Says(s, t)
    BY DEF Says
<1>3. CASE UNCHANGED <<waiter, response>>
    BY <1>3
<1>4. ASSUME NEW i \in Ids, CreateSync(i)
      PROVE  Goal
    BY <1>1, <1>2, <1>4 DEF CreateSync
<1>5. ASSUME NEW u \in Task, PollSettled(u)
      PROVE  Goal
    <2>1. Created(u)
        BY <1>5 DEF PollSettled, Waiting, ServerInv, LoopInv, WaitersCreated, Created
    <2>2. /\ \A s : StatusSeen(id[u]) = {s} => status[u] = s
          /\ StatusSeen(id[u]) = {} => u \notin tasks /\ status[u] \in TERMINAL_STATUSES
        BY <2>1, PollSeesOwn DEF ServerInv
    <2>3. PICK to : WaiterMoves(u, to) /\ Says(to, u)
        BY <1>5, <2>2 DEF PollSettled, Says
    <2>4. QED
        BY <1>1, <2>3 DEF WaiterMoves
<1>6. ASSUME NEW u \in Task, PollExpired(u) \/ ExpireTask(u)
      PROVE  Goal
    BY <1>1, <1>2, <1>6 DEF PollExpired, ExpireTask, WaiterMoves
<1>7. ASSUME NEW u \in Task, FetchImage(u)
      PROVE  Goal
    BY <1>1, <1>7 DEF FetchImage, WaiterMoves, AnswerInv, Says
<1>8. ASSUME NEW u \in Task, Answer(u)
      PROVE  Goal
    BY <1>1, <1>8 DEF Answer, AnswerInv
<1>9. ASSUME NEW u \in Task, ClientGone(u)
      PROVE  Goal
    BY <1>1, <1>2, <1>9 DEF ClientGone
<1>10. CASE LoopStep \/ Progress \/ Cleanup \/ StopAllRunningTasks
             \/ \E i \in Ids : CreateAsync(i) \/ StopTask(i)
    BY <1>3, <1>10, OthersLeaveWaiters DEF httpVars
<1>11. QED
    BY <1>3, <1>4, <1>5, <1>6, <1>7, <1>8, <1>9, <1>10
       DEF Next, Request, WaiterStep, serverVars, httpVars

\* What has been said stays true, and nothing false is said.
LEMMA AnswerStep ==
    ASSUME ServerInv, OrderInv, FreshIds, AnswerInv, [Next]_serverVars
    PROVE  AnswerInv'
<1>1. Inv /\ [ManagerNext]_managerVars
    BY ServerStep DEF ServerInv
<1>2. ASSUME NEW t \in Task
      PROVE  Says(waiter[t], t)' /\ Says(response[t], t)'
    <2>1. Says(waiter'[t], t) /\ Says(response'[t], t)
        BY NewlySaid DEF AnswerInv
    <2>2. PICK w, r : w = waiter'[t] /\ r = response'[t]
        OBVIOUS
    <2>3. Says(w, t) /\ Says(r, t)
        BY <2>1, <2>2
    <2>4. Says(w, t)' /\ Says(r, t)'
        BY <1>1, <2>3, SaidStays
    <2>5. QED
        BY <2>2, <2>4 DEF Says
<1>3. QED
    BY <1>2 DEF AnswerInv

\* With fresh ids, waiters and answers speak of their own tasks.
LEMMA AnswersHold == ~ReuseIds /\ Safety => [](FreshIds /\ AnswerInv)
<1>1. ~ReuseIds /\ Init => FreshIds /\ AnswerInv
    BY DEF Init, ManagerInit, FreshIds, AnswerInv, Says, Created
<1>2. /\ ServerInv /\ OrderInv /\ FreshIds /\ AnswerInv /\ [Next]_serverVars
      => FreshIds' /\ AnswerInv'
    BY FreshStep, AnswerStep, ServerStep DEF ServerInv
<1>3. QED
    BY <1>1, <1>2, ServerInvHolds, ServerUsesTable, OrderHolds, PTL DEF Safety

\* The answer of a synchronous request agrees with the fate of its own task:
\* an image is served for a completed task only, and a cancelled task never
\* turns into an image, however late the worker's result arrives
\* (AnswerMatchesTask).
THEOREM AnswersMatch == ~ReuseIds /\ Safety => []AnswerMatchesTask
<1>1. ServerInv /\ AnswerInv => AnswerMatchesTask
    BY DEF ServerInv, ServerTypeOK, AnswerInv, Says, AnswerMatchesTask
<1>2. QED
    BY <1>1, AnswersHold, ServerInvHolds, PTL

(***************************************************************************)
(* Images that are gone.                                                   *)
(***************************************************************************)

\* A step that completes no task.
QuietCall ==
    \/ UNCHANGED managerVars
    \/ cancel_all_tasks
    \/ \E i \in Ids :
        \/ create_task(i) \/ start_task(i) \/ fail_task(i) \/ cancel_task(i)
        \/ \E p \in -1..(Full + 1) : update_progress(i, p)

\* The thread completes the task in hand, which it finds under its id.
Completes ==
    /\ pc = "publish" /\ result # "none" /\ UNCHANGED httpVars /\ pc' = "release"
    /\ Open(TaskId) = {task_info}
    /\ complete_task(TaskId, result = "image")

\* What the thread calls: behind its last stop check it completes the task in
\* hand, or finds it ended.
LEMMA LoopCalls ==
    ASSUME ServerInv, FreshIds, LoopStep
    PROVE  QuietCall \/ Completes
<1>1. CASE Publish
    <2>1. pc = "publish" /\ UNCHANGED httpVars /\ pc' = "release"
        BY <1>1 DEF Publish
    <2>2. task_info \in Task /\ TaskId \in Ids /\ Created(task_info)
        BY <2>1, TaskIdKnown DEF AtWork, Holding, ServerInv, LoopInv, TaskInfoCreated, Created
    <2>3. Open(TaskId) = {} \/ Open(TaskId) = {task_info}
        <3>1. Lookup(TaskId) \subseteq {task_info}
            BY <2>2, FoundIsOwn DEF ServerInv, TaskId
        <3>2. QED
            BY <3>1 DEF Open
    <2>4. CASE result = "none"
        BY <1>1, <2>2, <2>4 DEF Publish, QuietCall
    <2>5. CASE result # "none"
        BY <1>1, <2>1, <2>3, <2>5 DEF Publish, QuietCall, Completes, complete_task
    <2>6. QED
        BY <2>4, <2>5
<1>2. CASE AcquireLock \/ Start \/ StoppedBeforeProcessing \/ ReportError
    <2>1. pc \in AtWork
        BY <1>2 DEF AcquireLock, Start, StoppedBeforeProcessing, ReportError, Calling, Goto,
                    AtWork, Holding
    <2>2. TaskId \in Ids
        BY <2>1, TaskIdKnown
    <2>3. QED
        BY <1>2, <2>2
           DEF AcquireLock, Start, StoppedBeforeProcessing, ReportError, Calling, Goto, QuietCall
<1>3. CASE LoopScan \/ LoopWake \/ LoopStop \/ LoopFetch \/ RecordCurrent \/ ToGeneration
            \/ Prepare \/ Inference \/ Discard \/ KeepResult \/ Release
    BY <1>3
       DEF LoopScan, LoopWake, LoopStop, LoopFetch, Scan, RecordCurrent, ToGeneration, Prepare,
           Inference, InferSuccess, InferCancelled, InferFailure, Discard, KeepResult, Release,
           Goto, QuietCall
<1>4. QED
    BY <1>1, <1>2, <1>3 DEF LoopStep, ProcessTask

\* The endpoints complete no task.
LEMMA ServerCalls ==
    ASSUME ServerInv, FreshIds, [Next]_serverVars
    PROVE  QuietCall \/ Completes
<1>1. CASE LoopStep
    BY <1>1, LoopCalls
<1>2. CASE Progress
    <2>1. pc \in AtWork
        BY <1>2 DEF Progress, Calling, AtWork, Holding
    <2>2. QED
        BY <1>2, <2>1, TaskIdKnown, ServerAssumption DEF Progress, Calling, QuietCall
<1>3. CASE Cleanup \/ Request
    BY <1>3 DEF Cleanup, Request, StopAllRunningTasks, CreateAsync, CreateSync, StopTask, QuietCall
<1>4. ASSUME NEW t \in Task, WaiterStep(t) \/ PollExpired(t) \/ ClientGone(t)
      PROVE  QuietCall
    <2>1. waiter[t] # "none"
        BY <1>4 DEF WaiterStep, PollSettled, FetchImage, ExpireTask, Answer, PollExpired,
                    ClientGone, Waiting, Outcome
    <2>2. id[t] \in Ids
        BY <2>1 DEF ServerInv, LoopInv, WaitersCreated, Inv, CreatedInOrder
    <2>3. QED
        BY <1>4, <2>2
           DEF WaiterStep, PollSettled, FetchImage, ExpireTask, Answer, PollExpired, ClientGone,
               QuietCall
<1>5. CASE UNCHANGED serverVars
    BY <1>5 DEF serverVars, QuietCall
<1>6. QED
    BY <1>1, <1>2, <1>3, <1>4, <1>5 DEF Next

\* Such a step drops no image but with its record.
LEMMA QuietImages ==
    ASSUME Inv, OrderInv, QuietCall
    PROVE  /\ result_png' \subseteq result_png
           /\ \A t \in tasks' : t \in result_png => t \in result_png'
           /\ \A t \in Task : status'[t] = "COMPLETED" => status[t] = "COMPLETED"
<1>1. ASSUME NEW i \in Ids, create_task(i)
      PROVE  /\ result_png' \subseteq result_png
             /\ \A t \in tasks' : t \in result_png => t \in result_png'
             /\ \A t \in Task : status'[t] = "COMPLETED" => status[t] = "COMPLETED"
    <2>1. PICK c, gone : c = total_tasks + 1 /\ gone = Surplus(Cardinality(tasks) + 1)
        OBVIOUS
    <2>2. result_png' = result_png \ gone /\ status' = [status EXCEPT ![c] = "PENDING"]
        BY <1>1, <2>1 DEF create_task
    <2>3. tasks' = (tasks \cup {c}) \ gone
        BY <1>1, <2>1, CreateOrder
    <2>4. \A t \in Task : status'[t] \in {"PENDING", status[t]}
        BY <2>2 DEF Inv, ManagerTypeOK
    <2>5. QED
        BY <2>2, <2>3, <2>4
<1>2. CASE ~ \E i \in Ids : create_task(i)
    <2>1. result_png' = result_png
        BY <1>2 DEF QuietCall, managerVars, cancel_all_tasks, start_task, fail_task, cancel_task,
                    Cancelled, update_progress
    <2>2. \A t \in Task : status'[t] = "COMPLETED" => status[t] = "COMPLETED"
        BY <1>2 DEF QuietCall, managerVars, cancel_all_tasks, start_task, fail_task, cancel_task,
                    Cancelled, update_progress
    <2>3. QED
        BY <2>1, <2>2
<1>3. QED
    BY <1>1, <1>2

\* Images, held or under way, are of synchronous requests.
ImagesOfSync ==
    /\ \A t \in sync : Created(t)
    /\ result_png \subseteq sync
    /\ pc \in {"deliver", "publish"} =>
            /\ result = "image" => task_info \in sync
            /\ result = "file" => task_info \notin sync

\* The synchronous requests completed after task t.
Newer(t) == {u \in sync : status[u] = "COMPLETED" /\ ended[t] < ended[u]}

\* A record without its image, and the waiter that asked for the image.
GoneToNewer ==
    /\ \A t \in sync : status[t] = "COMPLETED" /\ t \in tasks /\ t \notin result_png
                            => Cardinality(Newer(t)) >= PngKeepCount
    /\ \A t \in sync : waiter[t] = "lost"
                            => t \notin tasks \/ Cardinality(Newer(t)) >= PngKeepCount

\* Only a new synchronous request changes sync, and the thread's place is its own.
LEMMA SyncSteps ==
    ASSUME ServerInv, [Next]_serverVars
    PROVE  \/ UNCHANGED sync /\ LoopStep
           \/ UNCHANGED <<sync, pc, result, task_info>>
           \/ /\ UNCHANGED <<pc, result, task_info>>
              /\ \E c \in Task : ~Created(c) /\ Created(c)' /\ sync' = sync \cup {c}
<1>1. CASE LoopStep
    BY <1>1, OthersLeaveWaiters DEF httpVars
<1>2. CASE Progress
    BY <1>2, OthersLeaveWaiters DEF httpVars, Progress, Calling
<1>3. CASE Cleanup
    BY <1>3, OthersLeaveWaiters DEF httpVars, Cleanup
<1>4. ASSUME NEW i \in Ids, CreateSync(i)
      PROVE  /\ UNCHANGED <<pc, result, task_info>>
             /\ \E c \in Task : ~Created(c) /\ Created(c)' /\ sync' = sync \cup {c}
    <2>1. PICK c : c = total_tasks + 1
        OBVIOUS
    <2>2. /\ create_task(i) /\ sync' = sync \cup {total_tasks'} /\ UNCHANGED loopVars
          /\ total_tasks < MaxTasks
          /\ total_tasks' = c /\ status' = [status EXCEPT ![c] = "PENDING"]
        BY <1>4, <2>1 DEF CreateSync, create_task
    <2>3. c \in Task /\ ~(c <= total_tasks)
        BY <2>1, <2>2, ManagerAssumption DEF ServerInv, Inv, ManagerTypeOK, Task
    <2>4. ~Created(c)
        BY <2>3 DEF ServerInv, Inv, CreatedInOrder, Created
    <2>5. Created(c)'
        BY <2>2, <2>3 DEF ServerInv, Inv, ManagerTypeOK, Created
    <2>6. QED
        BY <2>2, <2>3, <2>4, <2>5 DEF loopVars
<1>5. CASE StopAllRunningTasks \/ \E i \in Ids : CreateAsync(i) \/ StopTask(i)
    BY <1>5 DEF StopAllRunningTasks, CreateAsync, StopTask, loopVars, httpVars
<1>6. CASE \E t \in Task : WaiterStep(t) \/ PollExpired(t) \/ ClientGone(t)
    BY <1>6 DEF WaiterStep, PollSettled, FetchImage, ExpireTask, Answer, PollExpired, ClientGone,
                WaiterMoves, loopVars
<1>7. CASE UNCHANGED serverVars
    BY <1>7 DEF serverVars, loopVars, httpVars
<1>8. QED
    BY <1>1, <1>2, <1>3, <1>4, <1>5, <1>6, <1>7 DEF Next, Request

\* The result handed on has the form that the task asked for.
LEMMA ResultForm ==
    ASSUME LoopStep, ImagesOfSync, UNCHANGED sync, pc' \in {"deliver", "publish"}
    PROVE  /\ result' = "image" => task_info' \in sync
           /\ result' = "file" => task_info' \notin sync
<1>1. Prepare \/ Inference \/ KeepResult
    BY DEF LoopStep, LoopScan, LoopWake, LoopStop, LoopFetch, Scan, ProcessTask, AcquireLock,
           RecordCurrent, Start, StoppedBeforeProcessing, ToGeneration, Discard, Publish,
           ReportError, Release, Goto, Calling
<1>2. UNCHANGED task_info
    BY <1>1 DEF Prepare, Inference, InferSuccess, InferCancelled, InferFailure, KeepResult, Goto
<1>3. CASE KeepResult
    BY <1>2, <1>3 DEF KeepResult, Goto, ImagesOfSync
<1>4. CASE Prepare \/ Inference
    BY <1>2, <1>4 DEF Prepare, Inference, InferSuccess, InferCancelled, InferFailure, Goto
<1>5. QED
    BY <1>1, <1>3, <1>4

\* Every step keeps images with the synchronous requests.
LEMMA ImagesStep ==
    ASSUME ServerInv, OrderInv, FreshIds, ImagesOfSync, [Next]_serverVars
    PROVE  ImagesOfSync'
<1>1. Inv /\ [ManagerNext]_managerVars
    BY ServerStep DEF ServerInv
<1>2. \A t \in Task : Created(t) => Created(t)'
    BY <1>1, CreatedStays DEF Created
<1>3. sync \in SUBSET Task /\ sync \subseteq sync'
    BY SyncSteps DEF ServerInv, ServerTypeOK
<1>4. \A t \in sync' : Created(t)'
    <2>1. \A t \in sync : Created(t)'
        BY <1>2, <1>3 DEF ImagesOfSync
    <2>2. QED
        BY <2>1, SyncSteps
<1>5. result_png' \subseteq sync'
    <2>1. CASE QuietCall
        BY <1>1, <1>3, <2>1, QuietImages DEF ImagesOfSync
    <2>2. CASE Completes
        <3>1. result_png' \subseteq result_png \cup (IF result = "image" THEN {task_info} ELSE {})
            BY <2>2 DEF Completes, complete_task
        <3>2. result = "image" => task_info \in sync
            BY <2>2 DEF Completes, ImagesOfSync
        <3>3. QED
            BY <1>3, <3>1, <3>2 DEF ImagesOfSync
    <2>3. QED
        BY <2>1, <2>2, ServerCalls
<1>6. ASSUME pc' \in {"deliver", "publish"}
      PROVE  /\ result' = "image" => task_info' \in sync'
             /\ result' = "file" => task_info' \notin sync'
    <2>1. CASE UNCHANGED sync /\ LoopStep
        BY <1>6, <2>1, ResultForm
    <2>2. CASE UNCHANGED <<pc, result, task_info>>
        <3>1. Created(task_info)
            BY <1>6, <2>2 DEF ServerInv, LoopInv, TaskInfoCreated, AtWork, Holding, Created
        <3>2. task_info \notin sync => task_info \notin sync'
            BY <3>1, SyncSteps
        <3>3. QED
            BY <1>3, <1>6, <2>2, <3>2 DEF ImagesOfSync
    <2>3. QED
        BY <2>1, <2>2, SyncSteps
<1>7. QED
    BY <1>4, <1>5, <1>6 DEF ImagesOfSync

\* A waiter learns that its image is gone by asking for it.
LEMMA OnlyFetchLoses ==
    ASSUME ServerInv, [Next]_serverVars, NEW t \in Task, waiter'[t] = "lost"
    PROVE  waiter[t] = "lost" \/ FetchImage(t)
<1>1. waiter \in [Task -> {"none", "poll", "fetch", "expire", "quit"} \cup Outcome]
    BY DEF ServerInv, ServerTypeOK
<1>2. CASE UNCHANGED waiter
    BY <1>2
<1>3. ASSUME NEW i \in Ids, CreateSync(i)
      PROVE  waiter[t] = "lost"
    BY <1>1, <1>3 DEF CreateSync
<1>4. ASSUME NEW u \in Task, PollSettled(u) \/ PollExpired(u) \/ ExpireTask(u) \/ ClientGone(u)
                             \/ Answer(u)
      PROVE  waiter[t] = "lost"
    BY <1>1, <1>4 DEF PollSettled, PollExpired, ExpireTask, ClientGone, Answer, WaiterMoves
<1>5. ASSUME NEW u \in Task, FetchImage(u)
      PROVE  waiter[t] = "lost" \/ FetchImage(t)
    BY <1>1, <1>5 DEF FetchImage, WaiterMoves
<1>6. CASE LoopStep \/ Progress \/ Cleanup \/ StopAllRunningTasks
            \/ \E i \in Ids : CreateAsync(i) \/ StopTask(i)
    BY <1>2, <1>6, OthersLeaveWaiters DEF httpVars
<1>7. QED
    BY <1>2, <1>3, <1>4, <1>5, <1>6 DEF Next, Request, WaiterStep, serverVars, httpVars

\* The synchronous requests completed after a completed one do not get fewer.
LEMMA NewerStays ==
    ASSUME ServerInv, OrderInv, [Next]_serverVars, NEW t \in Task, status[t] = "COMPLETED"
    PROVE  /\ Newer(t) \subseteq Newer(t)'
           /\ Cardinality(Newer(t)) >= PngKeepCount => Cardinality(Newer(t)') >= PngKeepCount
<1>1. Inv /\ [ManagerNext]_managerVars
    BY ServerStep DEF ServerInv
<1>2. EndsKept
    BY <1>1, NextKeepsOrder
<1>3. sync \in SUBSET Task /\ sync' \in SUBSET Task /\ sync \subseteq sync'
    BY SyncSteps DEF ServerInv, ServerTypeOK
<1>4. \A u \in Task : status[u] = "COMPLETED" => status'[u] = "COMPLETED"
    BY <1>1, NextKeepsEnded
<1>5. Newer(t) \subseteq Newer(t)'
    BY <1>2, <1>3, <1>4 DEF Newer, EndsKept
<1>6. Newer(t) \in SUBSET Task /\ Newer(t)' \in SUBSET Task
    BY <1>3 DEF Newer
<1>7. /\ Cardinality(Newer(t)) \in Nat /\ Cardinality(Newer(t)') \in Nat
      /\ Cardinality(Newer(t)) <= Cardinality(Newer(t)')
    BY <1>5, <1>6, TaskSets, FS_Subset
<1>8. QED
    BY <1>5, <1>7, ManagerAssumption

\* An evicted image has a whole cache of newer ones behind it.
LEMMA EvictedIsOldest ==
    ASSUME NEW held \in SUBSET Task, NEW when, NEW e \in EvictedPng(held, when),
           \A t \in held : when[t] \in Int,
           \A t, u \in held : when[t] = when[u] => t = u
    PROVE  Cardinality({u \in held : when[e] < when[u]}) >= PngKeepCount
<1> DEFINE later == {u \in held : when[e] < when[u]}
<1>1. /\ e \in held /\ \A u \in held : when[e] <= when[u]
      /\ ~ (Cardinality(held) <= PngKeepCount)
    BY DEF EvictedPng
<1>2. later = held \ {e}
    BY <1>1
<1>3. IsFiniteSet(held) /\ Cardinality(held) \in Nat
    BY TaskSets
<1> HIDE DEF later
<1>4. Cardinality(held \ {e}) = Cardinality(held) - 1
    BY <1>1, <1>3, FS_RemoveElement
<1>5. Cardinality(later) >= PngKeepCount
    BY <1>1, <1>2, <1>3, <1>4, ManagerAssumption
<1>6. QED
    BY <1>5 DEF later

\* The completion that evicts an image.
LEMMA EvictionKeepsNewer ==
    ASSUME ServerInv, OrderInv, FreshIds, ImagesOfSync, [Next]_serverVars, Completes,
           NEW e \in sync', status'[e] = "COMPLETED", e \notin result_png',
           e \in result_png \/ e = task_info
    PROVE  Cardinality(Newer(e)') >= PngKeepCount
<1> DEFINE held == result_png \cup {task_info}
<1>1. Inv /\ Inv' /\ [ManagerNext]_managerVars /\ OrderInv' /\ ImagesOfSync'
    BY ServerStep, NextKeepsOrder, ImagesStep DEF ServerInv
<1>2. task_info \in Task /\ sync \in SUBSET Task /\ sync' = sync
    BY TaskIdKnown DEF Completes, AtWork, Holding, httpVars, ServerInv, ServerTypeOK
<1>3. /\ Open(TaskId) = {task_info}
      /\ status' = [t \in Task |-> IF t \in {task_info} THEN "COMPLETED" ELSE status[t]]
      /\ result_png' = IF result = "image" THEN held \ EvictedPng(held, ended')
                       ELSE result_png
    BY DEF Completes, complete_task
<1>4. result = "image" /\ task_info \in sync
    <2>1. task_info \in sync => result = "image"
        BY DEF ImagesOfSync, Completes, ServerInv, ServerTypeOK
    <2>2. task_info \notin sync => result = "file"
        BY DEF ImagesOfSync, Completes, ServerInv, ServerTypeOK
    <2>3. QED
        BY <1>2, <1>3, <2>1, <2>2
<1>5. e \in EvictedPng(held, ended')
    BY <1>3, <1>4
<1>6. held \in SUBSET sync /\ held \in SUBSET Task
    BY <1>2, <1>4 DEF ImagesOfSync
<1>7. \A t \in held : status'[t] = "COMPLETED"
    BY <1>1, <1>2, <1>3 DEF Inv, PngBounded, ManagerTypeOK
<1>8. /\ \A t \in held : ended'[t] \in Int
      /\ \A t, u \in held : ended'[t] = ended'[u] => t = u
    <2>1. Ordered(ended)' /\ held \subseteq Placed(ended)'
        BY <1>1, <1>6, <1>7 DEF OrderInv
    <2> HIDE DEF held
    <2>2. QED
        BY <1>6, <2>1, ManagerAssumption DEF Ordered
<1>9. Cardinality({u \in held : ended'[e] < ended'[u]}) >= PngKeepCount
    <2> HIDE DEF held
    <2>1. QED
        BY <1>5, <1>6, <1>8, EvictedIsOldest
<1>10. {u \in held : ended'[e] < ended'[u]} \subseteq Newer(e)'
    BY <1>2, <1>6, <1>7 DEF Newer
<1>11. {u \in held : ended'[e] < ended'[u]} \in SUBSET Task /\ Newer(e)' \in SUBSET Task
    BY <1>2, <1>6 DEF Newer
<1> HIDE DEF held
<1>12. /\ Cardinality({u \in held : ended'[e] < ended'[u]}) \in Nat
       /\ Cardinality(Newer(e)') \in Nat
       /\ Cardinality({u \in held : ended'[e] < ended'[u]}) <= Cardinality(Newer(e)')
    BY <1>10, <1>11, TaskSets, FS_Subset
<1>13. QED
    BY <1>9, <1>12, ManagerAssumption

\* Every step keeps a whole cache of newer images behind each one that is gone.
LEMMA GoneStep ==
    ASSUME ServerInv, OrderInv, FreshIds, AnswerInv, ImagesOfSync, GoneToNewer,
           [Next]_serverVars
    PROVE  GoneToNewer'
<1>1. Inv /\ [ManagerNext]_managerVars
    BY ServerStep DEF ServerInv
<1>2. sync \in SUBSET Task /\ sync' \in SUBSET Task
    BY SyncSteps DEF ServerInv, ServerTypeOK
<1>3. \A t \in Task : Created(t) /\ t \in tasks' => t \in tasks
    BY <1>1, NotBack
<1>4. \A t \in sync' : status'[t] = "COMPLETED"
                            => status[t] = "COMPLETED" \/ (Completes /\ t = task_info)
    <2>1. CASE QuietCall
        BY <1>1, <1>2, <2>1, QuietImages
    <2>2. CASE Completes
        BY <1>2, <2>2 DEF Completes, complete_task
    <2>3. QED
        BY <2>1, <2>2, ServerCalls
<1>5. \A t \in sync' : status[t] = "COMPLETED" => t \in sync
    BY SyncSteps DEF Created, LoopStep
<1>6. ASSUME NEW t \in sync', status'[t] = "COMPLETED", t \in tasks', t \notin result_png'
      PROVE  Cardinality(Newer(t)') >= PngKeepCount
    <2>1. CASE status[t] = "COMPLETED" /\ t \notin result_png
        <3>1. t \in sync /\ t \in tasks
            BY <1>2, <1>3, <1>5, <1>6, <2>1 DEF Created
        <3>2. Cardinality(Newer(t)) >= PngKeepCount
            BY <2>1, <3>1 DEF GoneToNewer
        <3>3. QED
            BY <1>2, <2>1, <3>1, <3>2, NewerStays
    <2>2. CASE Completes /\ (t \in result_png \/ t = task_info)
        BY <1>6, <2>2, EvictionKeepsNewer
    <2>3. CASE QuietCall /\ t \in result_png
        BY <1>1, <1>6, <2>3, QuietImages
    <2>4. QED
        BY <1>4, <1>6, <2>1, <2>2, <2>3, ServerCalls
<1>7. ASSUME NEW t \in sync', waiter'[t] = "lost"
      PROVE  t \notin tasks' \/ Cardinality(Newer(t)') >= PngKeepCount
    <2>1. CASE waiter[t] = "lost"
        <3>1. t \in Task /\ status[t] = "COMPLETED" /\ t \in sync
            BY <1>2, <1>5, <2>1 DEF AnswerInv, Says
        <3>2. t \notin tasks \/ Cardinality(Newer(t)) >= PngKeepCount
            BY <2>1, <3>1 DEF GoneToNewer
        <3>3. QED
            BY <1>3, <3>1, <3>2, NewerStays DEF Created
    <2>2. CASE FetchImage(t)
        <3>1. /\ UNCHANGED managerVars /\ UNCHANGED sync
              /\ Lookup(id[t]) \cap result_png = {}
              /\ waiter[t] = "fetch"
            BY <1>2, <1>7, <2>2 DEF FetchImage, WaiterMoves, ServerInv, ServerTypeOK
        <3>2. t \in Task /\ status[t] = "COMPLETED" /\ t \in sync
            BY <1>2, <3>1 DEF AnswerInv, Says
        <3>3. t \in tasks => t \notin result_png
            BY <3>1, <3>2, FoundIsOwn DEF Created, ServerInv
        <3>4. t \notin tasks \/ Cardinality(Newer(t)) >= PngKeepCount
            BY <3>2, <3>3 DEF GoneToNewer
        <3>5. QED
            BY <1>3, <3>2, <3>4, NewerStays DEF Created
    <2>3. waiter[t] = "lost" \/ FetchImage(t)
        BY <1>2, <1>7, OnlyFetchLoses
    <2>4. QED
        BY <2>1, <2>2, <2>3
<1>8. QED
    BY <1>6, <1>7 DEF GoneToNewer

\* The state that TaskServer's properties are read from.
AnswerState == FreshIds /\ AnswerInv /\ ImagesOfSync /\ GoneToNewer

\* With fresh ids, the state above holds from the start on.
LEMMA AnswerStateHolds == ~ReuseIds /\ Safety => []AnswerState
<1>1. ~ReuseIds /\ Init => FreshIds /\ AnswerInv /\ ImagesOfSync /\ GoneToNewer
    BY DEF Init, ManagerInit, FreshIds, AnswerInv, Says, Created, ImagesOfSync, GoneToNewer
<1>2. ServerInv /\ OrderInv /\ AnswerState /\ [Next]_serverVars => AnswerState'
    BY FreshStep, AnswerStep, ImagesStep, GoneStep, ServerStep DEF ServerInv, AnswerState
<1>3. QED
    BY <1>1, <1>2, ServerInvHolds, ServerUsesTable, OrderHolds, PTL DEF Safety, AnswerState

\* A client is told that its task has no status only after the record was
\* cleaned up, and that its finished image is gone only when the cache has
\* filled with newer images, or the record went, before its poll came by
\* (LostOnlyToNewer): for every size of the table and of the cache.
THEOREM NothingElseIsLost == ~ReuseIds /\ Safety => []LostOnlyToNewer
<1>1. ServerInv /\ AnswerState => LostOnlyToNewer
    BY DEF ServerInv, ServerTypeOK, AnswerState, AnswerInv, Says, GoneToNewer, Newer,
           LostOnlyToNewer
<1>2. QED
    BY <1>1, AnswerStateHolds, ServerInvHolds, PTL

(***************************************************************************)
(* The abstract queue.                                                     *)
(***************************************************************************)

Queued == {t \in Task : status[t] = "PENDING"}
Running == {t \in Task : status[t] = "PROCESSING"}
Final == [t \in Task |-> IF status[t] \in TERMINAL_STATUSES THEN status[t] ELSE "none"]

\* The queue has the order of creation.
QueueInOrder == \A t, u \in Queued : t < u => seat[t] < seat[u]

\* The task the thread has found, and not started, is at the head of the queue
\* or no longer in it.
HeadInHand ==
    /\ pc = "picked" =>
        /\ \E t \in Task : Created(t) /\ id[t] = picked
        /\ \A t \in Queued : id[t] = picked => \A u \in Queued : t <= u
    /\ pc \in {"claim", "claimed", "start"} /\ task_info \in Queued =>
        \A u \in Queued : task_info <= u

\* The task the thread has started is not in the queue.
StartedLeftQueue ==
    pc \in Holding \ {"claimed", "start"} => task_info \notin Queued

QueueInv == QueueInOrder /\ HeadInHand /\ StartedLeftQueue

\* Only a new task enters the queue, at its end.
LEMMA QueueStep ==
    ASSUME Inv, OrderInv, QueueInOrder, [ManagerNext]_managerVars
    PROVE  /\ QueueInOrder'
           /\ \A u \in Queued' : u \in Queued \/ (\A t \in Task : Created(t) => t < u)
<1>1. Queued \subseteq tasks
    BY DEF Queued, Inv, ActiveKept
<1>2. ASSUME NEW i \in Ids, create_task(i)
      PROVE  /\ QueueInOrder'
             /\ \A u \in Queued' : u \in Queued \/ (\A t \in Task : Created(t) => t < u)
    <2>1. PICK c, gone : c = total_tasks + 1 /\ gone = Surplus(Cardinality(tasks) + 1)
        OBVIOUS
    <2>2. /\ status' = [status EXCEPT ![c] = "PENDING"] /\ c \in Task
          /\ \A u, v \in tasks \ gone : seat'[u] < seat'[v] <=> seat[u] < seat[v]
          /\ \A u \in tasks \ gone : seat'[u] < seat'[c]
        BY <1>2, <2>1, CreateOrder DEF create_task
    <2>3. \A t \in Task : Created(t) => t < c
        BY <2>1 DEF Created, Inv, CreatedInOrder, ManagerTypeOK, Task
    <2>4. \A u \in Queued' : u \in Queued \/ u = c
        BY <2>2 DEF Queued, Inv, ManagerTypeOK
    <2>5. Queued \subseteq tasks \ gone
        BY <1>1, <2>1 DEF Queued, Surplus
    <2>6. ASSUME NEW t \in Queued', NEW u \in Queued', t < u
          PROVE  seat'[t] < seat'[u]
        <3>1. CASE t \in Queued /\ u \in Queued
            BY <2>2, <2>5, <2>6, <3>1 DEF QueueInOrder
        <3>2. CASE t \in Queued /\ u = c
            BY <2>2, <2>5, <3>2
        <3>3. CASE t = c
            <4>1. u = c \/ u < c
                BY <2>3, <2>4 DEF Queued, Created
            <4>2. QED
                BY <2>2, <2>6, <3>3, <4>1 DEF Task, Queued
        <3>4. QED
            BY <2>4, <3>1, <3>2, <3>3
    <2>7. QED
        BY <2>3, <2>4, <2>6 DEF QueueInOrder
<1>3. CASE ~ \E i \in Ids : create_task(i)
    <2>1. Queued' \subseteq Queued
        <3>1. status \in [Task -> {"absent"} \cup ACTIVE_STATUSES \cup TERMINAL_STATUSES]
            BY DEF Inv, ManagerTypeOK
        <3>2. QED
            BY <1>3, <3>1
               DEF ManagerNext, cancel_all_tasks, cancel_task, Cancelled, start_task,
                   update_progress, complete_task, fail_task, managerVars, Queued
    <2>2. CASE UNCHANGED seat
        BY <2>1, <2>2 DEF QueueInOrder
    <2>3. ASSUME NEW i \in Ids, start_task(i), Open(i) # {}
          PROVE  QueueInOrder'
        <3>1. /\ seat' = ToEnd(seat, Open(i), seat)
              /\ \A t \in Open(i) : t \notin Queued'
            BY <2>3 DEF start_task, Queued
        <3>2. Open(i) \in SUBSET Placed(seat)
            BY DEF Open, Lookup, tasks
        <3>3. \A t, u \in Placed(seat) \ Open(i) : seat'[t] < seat'[u] <=> seat[t] < seat[u]
            BY <3>1, <3>2, ToEndOrder DEF OrderInv
        <3>4. Queued' \subseteq Placed(seat) \ Open(i)
            BY <1>1, <2>1, <3>1 DEF tasks
        <3>5. QED
            BY <2>1, <3>3, <3>4 DEF QueueInOrder
    <2>4. UNCHANGED seat \/ \E i \in Ids : start_task(i) /\ Open(i) # {}
        BY <1>3 DEF ManagerNext, cancel_all_tasks, cancel_task, Cancelled, start_task,
                    update_progress, complete_task, fail_task, managerVars
    <2>5. QED
        BY <2>1, <2>2, <2>3, <2>4
<1>4. QED
    BY <1>2, <1>3

\* A step of the server as the abstract queue sees it: the thread starts the
\* task in hand, or ends it after it was started.
Begins ==
    /\ pc = "start" /\ Open(TaskId) = {task_info} /\ start_task(TaskId)
    /\ pc' = "check" /\ UNCHANGED task_info

Ends ==
    /\ pc \in Holding \ {"claimed", "start"} /\ Open(TaskId) = {task_info}
    /\ fail_task(TaskId) \/ \E png \in BOOLEAN : complete_task(TaskId, png)
    /\ pc' = "release" /\ UNCHANGED task_info

\* The steps of the thread that leave the queue as it is.
ThreadMoves ==
    /\ UNCHANGED <<status, total_tasks, seat, id>>
    /\ \/ pc' = "picked" /\ picked' \in NextPending
       \/ /\ pc = "picked" /\ pc' = "claim"
          /\ task_info' \in Lookup(picked) \cap Pending
       \/ /\ pc \in {"claim", "claimed"} /\ pc' \in {"claimed", "start"} /\ UNCHANGED task_info
       \/ /\ pc = "start" /\ pc' \in Holding \ {"claimed", "start"}
          /\ UNCHANGED task_info /\ task_info \notin Open(TaskId)
       \/ /\ pc \in Holding \ {"claimed", "start"} /\ pc' \in Holding \ {"claimed", "start"}
          /\ UNCHANGED task_info
       \/ pc' \in {"idle", "sleeping", "stopped"}

\* The steps of the thread are of these three kinds.
LEMMA ThreadStep ==
    ASSUME ServerInv, FreshIds, LoopStep
    PROVE  Begins \/ Ends \/ ThreadMoves
<1>1. pc \in AtWork => /\ task_info \in Task /\ Created(task_info)
                       /\ Lookup(TaskId) = IF task_info \in tasks THEN {task_info} ELSE {}
                       /\ Open(TaskId) = {} \/ Open(TaskId) = {task_info}
    <2>1. pc \in AtWork => task_info \in Task /\ Created(task_info)
        BY DEF ServerInv, LoopInv, TaskInfoCreated, Created
    <2>2. pc \in AtWork => Lookup(TaskId) = IF task_info \in tasks THEN {task_info} ELSE {}
        BY <2>1, FoundIsOwn DEF ServerInv, TaskId
    <2>3. QED
        BY <2>1, <2>2 DEF Open
<1>2. CASE LoopScan \/ LoopWake \/ LoopStop
    BY <1>2 DEF LoopScan, LoopWake, LoopStop, Scan, ThreadMoves, managerVars
<1>3. CASE LoopFetch
    BY <1>3 DEF LoopFetch, ThreadMoves, managerVars
<1>4. CASE AcquireLock
    <2>1. ~processing_lock
        BY <1>4 DEF AcquireLock, ServerInv, LoopInv, RunningIsCurrent, Holding
    <2>2. QED
        BY <1>4, <2>1 DEF AcquireLock, ThreadMoves, managerVars
<1>5. CASE RecordCurrent
    BY <1>5 DEF RecordCurrent, ThreadMoves, managerVars
<1>6. CASE Start
    <2>1. pc = "start" /\ UNCHANGED task_info
        BY <1>6 DEF Start, Calling, Goto
    <2>2. CASE start_task(TaskId) /\ pc' = "check"
        BY <1>1, <2>1, <2>2 DEF start_task, Begins, ThreadMoves, managerVars, AtWork, Holding
    <2>3. CASE UNCHANGED managerVars /\ Lookup(TaskId) = {}
        BY <1>6, <2>1, <2>3 DEF Start, Calling, Goto, ThreadMoves, managerVars, Open, Holding
    <2>4. QED
        BY <1>6, <2>2, <2>3 DEF Start, Calling, Goto
<1>7. CASE StoppedBeforeProcessing \/ ReportError \/ Publish
    <2>1. /\ pc \in Holding \ {"claimed", "start"} /\ pc' = "release" /\ UNCHANGED task_info
          /\ fail_task(TaskId) \/ \E png \in BOOLEAN : complete_task(TaskId, png)
        BY <1>7 DEF StoppedBeforeProcessing, ReportError, Publish, Calling, Holding
    <2>2. CASE Open(TaskId) = {task_info}
        BY <2>1, <2>2 DEF Ends
    <2>3. CASE Open(TaskId) = {}
        BY <2>1, <2>3 DEF fail_task, complete_task, ThreadMoves, managerVars, Holding
    <2>4. QED
        BY <1>1, <2>1, <2>2, <2>3 DEF AtWork
<1>8. CASE ToGeneration \/ Prepare \/ Inference \/ Discard \/ KeepResult
    BY <1>8 DEF ToGeneration, Prepare, Inference, InferSuccess, InferCancelled, InferFailure,
                Discard, KeepResult, Goto, ThreadMoves, managerVars, Holding
<1>9. CASE Release
    BY <1>9 DEF Release, ThreadMoves, managerVars
<1>10. QED
    BY <1>2, <1>3, <1>4, <1>5, <1>6, <1>7, <1>8, <1>9 DEF LoopStep, ProcessTask

\* The scan finds the head of the queue, and nothing but the thread takes it out
\* or a cancellation ends it.
LEMMA ThreadKeepsQueue ==
    ASSUME ServerInv, FreshIds, QueueInv, LoopStep
    PROVE  HeadInHand' /\ StartedLeftQueue'
<1>1. CASE Begins
    <2>1. /\ status' = [t \in Task |-> IF t \in {task_info} THEN "PROCESSING" ELSE status[t]]
          /\ pc' = "check" /\ UNCHANGED task_info
        BY <1>1 DEF Begins, start_task
    <2>2. task_info \notin Queued'
        BY <2>1 DEF Queued
    <2>3. QED
        BY <2>1, <2>2 DEF HeadInHand, StartedLeftQueue
<1>2. CASE Ends
    <2>1. \A t \in Task : status'[t] = "PENDING" => t # task_info
        BY <1>2 DEF Ends, fail_task, complete_task
    <2>2. task_info \notin Queued' /\ pc' = "release" /\ UNCHANGED task_info
        BY <1>2, <2>1 DEF Queued, Ends
    <2>3. QED
        BY <2>2 DEF HeadInHand, StartedLeftQueue
<1>3. CASE ThreadMoves
    <2>1. Queued' = Queued /\ UNCHANGED <<id, status>>
        BY <1>3 DEF ThreadMoves, Queued
    <2>2. Queued = Pending /\ Queued \in SUBSET Task
        BY DEF Queued, Pending, ServerInv, Inv, ActiveKept, tasks, Placed
    <2>3. ASSUME pc' = "picked", picked' \in NextPending
          PROVE  /\ \E t \in Task : Created(t) /\ id[t] = picked'
                 /\ \A t \in Queued : id[t] = picked' => \A u \in Queued : t <= u
        <3>1. PICK t \in Queued : id[t] = picked' /\ \A u \in Queued : seat[t] <= seat[u]
            BY <2>2, <2>3 DEF NextPending
        <3>2. \A u \in Queued : t <= u
            <4>1. ASSUME NEW u \in Queued, ~(t <= u)
                  PROVE  FALSE
                <5>1. u < t
                    BY <2>2, <4>1 DEF Task
                <5>2. seat[u] < seat[t] /\ seat[t] <= seat[u]
                    BY <3>1, <5>1 DEF QueueInv, QueueInOrder
                <5>3. seat[t] \in Nat /\ seat[u] \in Nat
                    BY <2>2 DEF ServerInv, Inv, ManagerTypeOK
                <5>4. QED
                    BY <5>2, <5>3
            <4>2. QED
                BY <4>1
        <3>3. \A u \in Queued : Created(u)
            BY DEF Queued, Created
        <3>4. \A u \in Queued : id[u] = picked' => u = t
            BY <2>2, <3>1, <3>3 DEF FreshIds
        <3>5. QED
            BY <2>2, <3>1, <3>2, <3>3, <3>4
    <2>4. ASSUME pc = "picked", task_info' \in Lookup(picked) \cap Pending
          PROVE  \A u \in Queued : task_info' <= u
        <3>1. task_info' \in Queued /\ id[task_info'] = picked
            BY <2>2, <2>4 DEF Lookup
        <3>2. QED
            BY <2>4, <3>1 DEF QueueInv, HeadInHand
    <2>5. pc = "start" /\ task_info \notin Open(TaskId) => task_info \notin Queued
        BY <2>2 DEF Open, Lookup, TaskId, Pending
    <2>6. HeadInHand'
        BY <1>3, <2>1, <2>3, <2>4 DEF ThreadMoves, QueueInv, HeadInHand, Created, Holding
    <2>7. StartedLeftQueue'
        BY <1>3, <2>1, <2>5 DEF ThreadMoves, QueueInv, StartedLeftQueue, Holding
    <2>8. QED
        BY <2>6, <2>7
<1>4. QED
    BY <1>1, <1>2, <1>3, ThreadStep

\* The other steps do not move the thread.
LEMMA OthersLeaveThread ==
    ASSUME [Next]_serverVars, ~LoopStep
    PROVE  UNCHANGED <<pc, picked, task_info>>
BY DEF Next, Request, Progress, Cleanup, StopAllRunningTasks, CreateAsync, CreateSync, StopTask,
       WaiterStep, PollSettled, FetchImage, ExpireTask, Answer, PollExpired, ClientGone,
       WaiterMoves, Calling, serverVars, loopVars

\* A new task comes behind the head, with an id of its own.
LEMMA QueueInvStep ==
    ASSUME ServerInv, OrderInv, FreshIds, QueueInv, [Next]_serverVars
    PROVE  QueueInv'
<1>1. Inv /\ [ManagerNext]_managerVars /\ FreshIds'
    BY ServerStep, FreshStep DEF ServerInv
<1>2. /\ QueueInOrder'
      /\ \A u \in Queued' : u \in Queued \/ (\A t \in Task : Created(t) => t < u)
    BY <1>1, QueueStep DEF QueueInv
<1>3. CASE LoopStep
    BY <1>2, <1>3, ThreadKeepsQueue DEF QueueInv
<1>4. CASE ~LoopStep
    <2>1. UNCHANGED <<pc, picked, task_info>>
        BY <1>4, OthersLeaveThread
    <2>2. \A t \in Task : Created(t) => Created(t)' /\ id'[t] = id[t]
        BY <1>1, CreatedStays DEF Created
    <2>3. /\ Queued \in SUBSET Task /\ Queued' \in SUBSET Task
          /\ \A u \in Queued : Created(u)
          /\ \A u \in Queued' : Created(u)'
        BY DEF Queued, Created
    <2>4. \A t \in Task : t <= t /\ ~(t < t)
        BY DEF Task
    <2>5. \A t \in Queued' : Created(t) => t \in Queued
        BY <1>2, <2>3, <2>4
    <2>6. ASSUME NEW t \in Queued, \A u \in Queued : t <= u, NEW u \in Queued'
          PROVE  t <= u
        <3>1. t \in Task /\ u \in Task
            BY <2>3
        <3>2. u \in Queued \/ t < u
            BY <1>2, <2>3
        <3>3. QED
            BY <2>6, <3>1, <3>2 DEF Task
    <2>7. ASSUME pc = "picked"
          PROVE  /\ \E t \in Task : Created(t)' /\ id'[t] = picked
                 /\ \A t \in Queued' : id'[t] = picked => \A u \in Queued' : t <= u
        <3>1. PICK s \in Task : Created(s) /\ id[s] = picked
            BY <2>7 DEF QueueInv, HeadInHand
        <3>2. ASSUME NEW t \in Queued', id'[t] = picked
              PROVE  t = s /\ t \in Queued
            <4>1. t = s
                BY <1>1, <2>2, <2>3, <3>1, <3>2 DEF FreshIds, Created
            <4>2. QED
                BY <2>5, <3>1, <4>1
        <3>3. QED
            BY <2>2, <2>6, <2>7, <3>1, <3>2 DEF QueueInv, HeadInHand
    <2>8. ASSUME pc \in AtWork, task_info \in Queued'
          PROVE  task_info \in Queued
        BY <2>5, <2>8 DEF ServerInv, LoopInv, TaskInfoCreated, Created
    <2>9. HeadInHand'
        BY <2>1, <2>6, <2>7, <2>8 DEF QueueInv, HeadInHand, Created, AtWork, Holding
    <2>10. StartedLeftQueue'
        BY <2>1, <2>8 DEF QueueInv, StartedLeftQueue, AtWork
    <2>11. QED
        BY <1>2, <2>9, <2>10 DEF QueueInv
<1>5. QED
    BY <1>3, <1>4

(***************************************************************************)
(* Every step of the server is one of the abstract queue or of none.       *)
(***************************************************************************)

\* The state of the abstract queue is typed, and its two parts are the active
\* tasks of the table.
LEMMA QueueParts ==
    ASSUME Inv
    PROVE  /\ Queued \cup Running = Active /\ Queued \cap Running = {}
           /\ Cardinality(Queued) + Cardinality(Running) = Cardinality(Active)
<1>1. Queued \cup Running = Active /\ Queued \cap Running = {}
    BY DEF Queued, Running, Active, Inv, ActiveKept, tasks, Placed
<1>2. Queued \in SUBSET Task /\ Running \in SUBSET Task
    BY DEF Queued, Running
<1>3. /\ IsFiniteSet(Queued) /\ IsFiniteSet(Running)
      /\ Cardinality(Queued) \in Nat /\ Cardinality(Running) \in Nat
    BY <1>2, TaskSets
<1>4. Cardinality(Queued \cup Running)
        = Cardinality(Queued) + Cardinality(Running) - Cardinality(Queued \cap Running)
    BY <1>3, FS_Union
<1>5. QED
    BY <1>1, <1>3, <1>4, FS_EmptySet

\* What the abstract queue does not see.
LEMMA SameQueue ==
    ASSUME UNCHANGED <<status, total_tasks>>
    PROVE  UNCHANGED (Lifecycle!lifecycleVars)
BY DEF Lifecycle!lifecycleVars

\* The instance counts with an operator of its own.
LEMMA SameCardinality == \A S : Lifecycle!Cardinality(S) = Cardinality(S)
BY DEF Lifecycle!Cardinality, Cardinality

\* create_task accepts a task: queue and running task are the active ones of
\* the table, which max_queue_size bounds.
LEMMA CreateAccepts ==
    ASSUME Inv, OrderInv, NEW i \in Ids, create_task(i)
    PROVE  Lifecycle!Accept
<1>1. PICK c : c = total_tasks + 1
    OBVIOUS
<1>2. /\ total_tasks < MaxTasks /\ Cardinality(Active) < MaxQueueSize
      /\ total_tasks' = c /\ status' = [status EXCEPT ![c] = "PENDING"]
      /\ c \in Task /\ status[c] = "absent"
    BY <1>1, CreateOrder DEF create_task, HasRoom
<1>3. \A t \in Task : status'[t] = IF t = c THEN "PENDING" ELSE status[t]
    BY <1>2 DEF Inv, ManagerTypeOK
<1>4. Queued' = Queued \cup {c} /\ Running' = Running /\ Final' = Final
    BY <1>2, <1>3 DEF Queued, Running, Final
<1>5. Cardinality(Queued) + Cardinality(Running) < MaxQueueSize
    BY <1>2, QueueParts
<1>6. QED
    BY <1>1, <1>2, <1>4, <1>5, SameCardinality DEF Lifecycle!Accept, Queued, Running, Final

\* A cancellation cancels those of its tasks that are active.
LEMMA CancelCancels ==
    ASSUME Inv, NEW S \in SUBSET tasks, Cancelled(S),
           \A t \in S : status[t] \notin {"COMPLETED", "FAILED"}
    PROVE  Lifecycle!Cancel
<1> DEFINE A == {t \in S : status[t] \in ACTIVE_STATUSES}
<1>1. status' = [t \in Task |-> IF t \in S THEN "CANCELLED" ELSE status[t]] /\ UNCHANGED total_tasks
    BY DEF Cancelled
<1>2. S \in SUBSET Task /\ \A t \in S : t \in A \/ status[t] = "CANCELLED"
    BY DEF tasks, Placed, Inv, CreatedInOrder, ManagerTypeOK
<1>3. A \in SUBSET (Queued \cup Running)
    BY <1>2 DEF Queued, Running
<1>4. Queued' = Queued \ A /\ Running' = Running \ A
    BY <1>1, <1>2 DEF Queued, Running
<1>5. Final' = [t \in Task |-> IF t \in A THEN "CANCELLED" ELSE Final[t]]
    BY <1>1, <1>2 DEF Final
<1> HIDE DEF A
<1>6. QED
    BY <1>1, <1>3, <1>4, <1>5 DEF Lifecycle!Cancel, Queued, Running, Final, Task

\* start_task begins the head of the queue while nothing runs.
LEMMA StartBegins ==
    ASSUME ServerInv, QueueInv, Begins
    PROVE  Lifecycle!Begin
<1>1. /\ pc = "start" /\ Open(TaskId) = {task_info}
      /\ status' = [t \in Task |-> IF t \in {task_info} THEN "PROCESSING" ELSE status[t]]
      /\ UNCHANGED total_tasks
    BY DEF Begins, start_task
<1>2. Running = {}
    BY <1>1 DEF Running, ServerInv, LoopInv, RunningIsCurrent
<1>3. task_info \in Task
    BY <1>1, TaskIdKnown DEF AtWork, Holding
<1>4. task_info \in Queued
    <2>1. status[task_info] \notin TERMINAL_STATUSES /\ status[task_info] # "absent"
        BY <1>1 DEF Open, ServerInv, LoopInv, TaskInfoCreated, AtWork, Holding
    <2>2. QED
        BY <1>2, <1>3, <2>1 DEF Queued, Running, ServerInv, Inv, ManagerTypeOK
<1>5. \A u \in Queued : task_info <= u
    BY <1>1, <1>4 DEF QueueInv, HeadInHand
<1>6. Queued' = Queued \ {task_info} /\ Running' = {task_info} /\ Final' = Final
    BY <1>1, <1>2, <1>3, <1>4 DEF Queued, Running, Final
<1>7. QED
    BY <1>1, <1>2, <1>4, <1>5, <1>6 DEF Lifecycle!Begin, Queued, Running, Final

\* A report ends the running task.
LEMMA EndFinishes ==
    ASSUME ServerInv, QueueInv, Ends
    PROVE  Lifecycle!Finish
<1>1. pc \in Holding \ {"claimed", "start"} /\ Open(TaskId) = {task_info}
    BY DEF Ends
<1>2. PICK o \in {"COMPLETED", "FAILED"} :
        /\ status' = [t \in Task |-> IF t \in {task_info} THEN o ELSE status[t]]
        /\ UNCHANGED total_tasks
    BY <1>1 DEF Ends, fail_task, complete_task
<1>3. task_info \in Task
    BY <1>1, TaskIdKnown DEF AtWork
<1>4. task_info \in Running
    <2>1. status[task_info] \notin TERMINAL_STATUSES /\ status[task_info] # "absent"
        BY <1>1 DEF Open, ServerInv, LoopInv, TaskInfoCreated, AtWork
    <2>2. task_info \notin Queued
        BY <1>1 DEF QueueInv, StartedLeftQueue
    <2>3. QED
        BY <1>3, <2>1, <2>2 DEF Queued, Running, ServerInv, Inv, ManagerTypeOK
<1>5. Queued' = Queued /\ Running' = Running \ {task_info}
    BY <1>2, <1>3, <1>4 DEF Queued, Running
<1>6. Final' = [Final EXCEPT ![task_info] = o]
    BY <1>2, <1>3 DEF Final
<1>7. QED
    BY <1>2, <1>4, <1>5, <1>6 DEF Lifecycle!Finish, Queued, Running, Final

\* Every step of the server, as the abstract queue sees it.
LEMMA LifecycleStep ==
    ASSUME ServerInv, OrderInv, FreshIds, QueueInv, [Next]_serverVars
    PROVE  [Lifecycle!Next]_(Lifecycle!lifecycleVars)
<1>1. Inv
    BY DEF ServerInv
<1>2. CASE LoopStep
    BY <1>2, ThreadStep, StartBegins, EndFinishes, SameQueue DEF ThreadMoves, Lifecycle!Next
<1>3. ASSUME NEW i \in Ids, create_task(i)
      PROVE  Lifecycle!Next
    BY <1>1, <1>3, CreateAccepts DEF Lifecycle!Next
<1>4. ASSUME NEW i \in Ids, cancel_task(i)
      PROVE  Lifecycle!Next
    <2>1. /\ Cancellable(i) \in SUBSET tasks
          /\ \A t \in Cancellable(i) : status[t] \notin {"COMPLETED", "FAILED"}
        BY DEF Cancellable, Lookup
    <2>2. QED
        BY <1>1, <1>4, <2>1, CancelCancels DEF cancel_task, Lifecycle!Next
<1>5. CASE StopAllRunningTasks
    <2>1. /\ Active \in SUBSET tasks
          /\ \A t \in Active : status[t] \notin {"COMPLETED", "FAILED"}
        BY DEF Active
    <2>2. QED
        BY <1>1, <1>5, <2>1, CancelCancels DEF StopAllRunningTasks, cancel_all_tasks, Lifecycle!Next
<1>6. CASE Progress \/ Cleanup \/ UNCHANGED serverVars
    BY <1>6, SameQueue DEF Progress, update_progress, Cleanup, serverVars, managerVars
<1>7. CASE \E i \in Ids : CreateAsync(i) \/ CreateSync(i) \/ StopTask(i)
    BY <1>3, <1>4, <1>7 DEF CreateAsync, CreateSync, StopTask
<1>8. ASSUME NEW t \in Task, WaiterStep(t) \/ PollExpired(t) \/ ClientGone(t)
      PROVE  [Lifecycle!Next]_(Lifecycle!lifecycleVars)
    <2>1. waiter[t] # "none"
        BY <1>8 DEF WaiterStep, PollSettled, FetchImage, ExpireTask, Answer, PollExpired,
                    ClientGone, Waiting, Outcome
    <2>2. id[t] \in Ids
        BY <2>1 DEF ServerInv, LoopInv, WaitersCreated, Inv, CreatedInOrder
    <2>3. UNCHANGED managerVars \/ cancel_task(id[t])
        BY <1>8 DEF WaiterStep, PollSettled, FetchImage, ExpireTask, Answer, PollExpired, ClientGone
    <2>4. QED
        BY <1>4, <2>2, <2>3, SameQueue DEF managerVars
<1>9. QED
    BY <1>2, <1>5, <1>6, <1>7, <1>8 DEF Next, Request

\* Tasks start in the order they were accepted, one at a time, and end once,
\* whatever the interleaving of the thread with cancellations, deadlines and
\* disconnects: the server implements the abstract queue (ImplementsLifecycle).
THEOREM ServerIsQueue == ~ReuseIds /\ Safety => ImplementsLifecycle
<1>1. ~ReuseIds /\ Init => QueueInv /\ FreshIds /\ Lifecycle!Init
    BY DEF Init, ManagerInit, QueueInv, QueueInOrder, HeadInHand, StartedLeftQueue, Holding,
           Queued, FreshIds, Created, Lifecycle!Init, Task
<1>2. ServerInv /\ OrderInv /\ FreshIds /\ QueueInv /\ [Next]_serverVars => QueueInv' /\ FreshIds'
    BY QueueInvStep, FreshStep, ServerStep DEF ServerInv
<1>3. ServerInv /\ OrderInv /\ FreshIds /\ QueueInv /\ [Next]_serverVars
        => [Lifecycle!Next]_(Lifecycle!lifecycleVars)
    BY LifecycleStep
<1>4. QED
    BY <1>1, <1>2, <1>3, ServerInvHolds, ServerUsesTable, OrderHolds, PTL
    DEF Safety, ImplementsLifecycle, Lifecycle!Spec
=============================================================================
