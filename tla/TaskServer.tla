----------------------------- MODULE TaskServer -----------------------------
(***************************************************************************)
(* The HTTP server around the task table: the processing thread of         *)
(* api/server.py, the generation service it awaits, the synchronous image  *)
(* endpoint of api/tasks/image.py with its poller and its disconnect       *)
(* watcher, and the cancel endpoints of api/tasks/common.py.               *)
(*                                                                         *)
(* The processing thread runs beside the event loop, so every call into    *)
(* the task manager is a step of its own.  The thread remembers a TaskInfo *)
(* object (task_info) but reports on it by id; what it read may be stale   *)
(* by then.                                                                *)
(***************************************************************************)
EXTENDS TaskManager

CONSTANTS
    MaxSync,       \* bound on the number of synchronous requests
    ProgressSteps  \* the progress values the runner reports

ASSUME ServerAssumption == MaxSync \in Nat /\ ProgressSteps \subseteq -1..(Full + 1)

VARIABLES
    pc,                       \* where the processing thread is
    picked,                   \* the id it took from the queue
    task_info,                \* the object it processes, 0 when none
    result,                   \* what generate_with_stop_event returned
    processing_lock,          \* _processing_lock is held
    current_processing_task,  \* _current_processing_task
    stop_processing,
    sync,                     \* tasks created by the synchronous endpoint
    waiter,                   \* _wait_task_and_stream_result of each of them
    response                  \* what the synchronous request was answered

loopVars == <<pc, picked, task_info, result, processing_lock,
              current_processing_task, stop_processing>>
httpVars == <<sync, waiter, response>>
serverVars == <<managerVars, loopVars, httpVars>>

\* How _wait_task_and_stream_result may end.
Outcome == {"image", "lost", "missing", "failed", "cancelled", "timeout"}

\* Where the thread is while it holds the processing lock.
Holding == {"claimed", "start", "check", "prepare", "infer", "deliver", "publish",
            "error", "release"}

(***************************************************************************)
(* The processing thread: _task_processing_loop                            *)
(***************************************************************************)

\* One scan of wait_for_next_pending_task; `otherwise` is where an empty
\* queue leads.
Scan(otherwise) ==
    /\ IF NextPending = {}
       THEN pc' = otherwise /\ UNCHANGED picked
       ELSE pc' = "picked" /\ picked' \in NextPending
    /\ UNCHANGED <<managerVars, task_info, result, processing_lock,
                   current_processing_task, stop_processing, httpVars>>

LoopScan == pc = "idle" /\ ~stop_processing /\ Scan("sleeping")

\* The condition is notified by create_task or times out.
LoopWake == pc = "sleeping" /\ Scan("idle")

LoopStop ==
    /\ pc = "idle" /\ stop_processing
    /\ pc' = "stopped"
    /\ UNCHANGED <<managerVars, picked, task_info, result, processing_lock,
                   current_processing_task, stop_processing, httpVars>>

\* get_task(picked), and the status check on the object it returns.
LoopFetch ==
    /\ pc = "picked"
    /\ picked' = NoId
    /\ \/ \E t \in Lookup(picked) \cap Pending : task_info' = t /\ pc' = "claim"
       \/ Lookup(picked) \cap Pending = {} /\ pc' = "idle" /\ UNCHANGED task_info
    /\ UNCHANGED <<managerVars, result, processing_lock, current_processing_task,
                   stop_processing, httpVars>>

(***************************************************************************)
(* The processing thread: _process_single_task                             *)
(***************************************************************************)

\* The thread goes from one place to another without touching the table.
Goto(from, to) ==
    /\ pc = from /\ pc' = to
    /\ UNCHANGED <<managerVars, picked, task_info, processing_lock,
                   current_processing_task, stop_processing, httpVars>>

\* A call into the task manager, made on the way.
Calling(from, to) ==
    /\ pc = from /\ pc' = to
    /\ UNCHANGED <<picked, task_info, result, processing_lock,
                   current_processing_task, stop_processing, httpVars>>

TaskId == id[task_info]
Stopped == task_info \in stop_event

\* acquire_processing_lock, first half; a timeout fails the task.
AcquireLock ==
    /\ pc = "claim"
    /\ IF processing_lock
       THEN fail_task(TaskId) /\ pc' = "idle" /\ task_info' = 0 /\ UNCHANGED processing_lock
       ELSE processing_lock' = TRUE /\ pc' = "claimed" /\ UNCHANGED <<managerVars, task_info>>
    /\ UNCHANGED <<picked, result, current_processing_task, stop_processing, httpVars>>

\* acquire_processing_lock, second half, under _lock.
RecordCurrent ==
    /\ pc = "claimed" /\ pc' = "start"
    /\ current_processing_task' = TaskId
    /\ UNCHANGED <<managerVars, picked, task_info, result, processing_lock,
                   stop_processing, httpVars>>

Start ==
    \/ Calling("start", "check") /\ Lookup(TaskId) # {} /\ start_task(TaskId)
    \/ Goto("start", "error") /\ Lookup(TaskId) = {} /\ UNCHANGED result  \* KeyError

StoppedBeforeProcessing ==
    /\ Calling("check", "release")
    /\ Stopped
    /\ fail_task(TaskId)

ToGeneration == ~Stopped /\ UNCHANGED result /\ Goto("check", "prepare")

\* prepare_task_data, its stop check, and the resolution of the inputs, any
\* of which may raise.
Prepare ==
    \/ Stopped /\ result' = "none" /\ Goto("prepare", "deliver")
    \/ ~Stopped /\ UNCHANGED result /\ Goto("prepare", "infer")
    \/ UNCHANGED result /\ Goto("prepare", "error")

Progress ==
    \E p \in ProgressSteps :
        Calling("infer", "infer") /\ update_progress(TaskId, p)

\* submit_task_async returns.  The worker answers "cancelled" only when
\* check_stop saw the flag; a flag set after the last step of the denoise
\* loop is not seen, and the result is a success all the same.
InferSuccess ==
    /\ Goto("infer", "deliver")
    /\ result' = IF task_info \in sync THEN "image" ELSE "file"

InferCancelled == Stopped /\ result' = "none" /\ Goto("infer", "deliver")

InferFailure == UNCHANGED result /\ Goto("infer", "error")

\* The stop check after generation ...
Discard == Stopped /\ result' = "none" /\ Goto("deliver", "release")

KeepResult == ~Stopped /\ UNCHANGED result /\ Goto("deliver", "publish")

\* ... and the report, a moment later.
Publish ==
    /\ pc = "publish" /\ pc' = "release"
    /\ IF result = "none" THEN fail_task(TaskId)
       ELSE complete_task(TaskId, result = "image")
    /\ result' = "none"
    /\ UNCHANGED <<picked, task_info, processing_lock, current_processing_task,
                   stop_processing, httpVars>>

\* Faulty: the exception is logged and the task forgotten.
ErrorSwallowed == Calling("error", "release") /\ UNCHANGED managerVars

ReportError == Calling("error", "release") /\ fail_task(TaskId)

\* Faulty: the lock is released and the record of its holder stays.
ReleaseLockOnly ==
    /\ pc = "release" /\ pc' = "idle"
    /\ processing_lock' = FALSE
    /\ task_info' = 0
    /\ UNCHANGED <<managerVars, picked, result, current_processing_task, stop_processing,
                   httpVars>>

\* release_processing_lock, in the finally clause.
Release ==
    /\ pc = "release" /\ pc' = "idle"
    /\ IF current_processing_task = TaskId
       THEN current_processing_task' = NoId /\ processing_lock' = FALSE
       ELSE UNCHANGED <<current_processing_task, processing_lock>>
    /\ task_info' = 0
    /\ UNCHANGED <<managerVars, picked, result, stop_processing, httpVars>>

Inference == InferSuccess \/ InferCancelled \/ InferFailure

ProcessTask ==
    \/ AcquireLock \/ RecordCurrent \/ Start \/ StoppedBeforeProcessing \/ ToGeneration
    \/ Prepare \/ Inference \/ Discard \/ KeepResult \/ Publish \/ ReportError \/ Release

LoopStep == LoopScan \/ LoopWake \/ LoopStop \/ LoopFetch \/ ProcessTask

(***************************************************************************)
(* The endpoints, on the event loop                                        *)
(***************************************************************************)

CreateAsync(i) == create_task(i) /\ UNCHANGED <<loopVars, httpVars>>

\* create_image_task_sync up to its asyncio.wait.
CreateSync(i) ==
    /\ Cardinality(sync) < MaxSync
    /\ create_task(i)
    /\ sync' = sync \cup {total_tasks'}
    /\ waiter' = [waiter EXCEPT ![total_tasks'] = "poll"]
    /\ UNCHANGED <<loopVars, response>>

StopTask(i) == cancel_task(i) /\ UNCHANGED <<loopVars, httpVars>>

StopAllRunningTasks == cancel_all_tasks /\ UNCHANGED <<loopVars, httpVars>>

\* ApiServer.cleanup; the join that follows waits at most five seconds.
Cleanup ==
    /\ ~stop_processing
    /\ stop_processing' = TRUE
    /\ UNCHANGED <<managerVars, pc, picked, task_info, result, processing_lock,
                   current_processing_task, httpVars>>

(***************************************************************************)
(* _wait_task_and_stream_result                                            *)
(***************************************************************************)

Waiting(t) == waiter[t] = "poll" /\ response[t] = "none"

WaiterMoves(t, to) ==
    /\ waiter' = [waiter EXCEPT ![t] = to]
    /\ UNCHANGED <<loopVars, sync, response>>

StatusSeen(i) == {status[u] : u \in Lookup(i)}

\* A poll that finds the task ended, or no task.
PollSettled(t) ==
    /\ Waiting(t)
    /\ UNCHANGED managerVars
    /\ \/ StatusSeen(id[t]) = {} /\ WaiterMoves(t, "missing")
       \/ StatusSeen(id[t]) = {"COMPLETED"} /\ WaiterMoves(t, "fetch")
       \/ StatusSeen(id[t]) = {"FAILED"} /\ WaiterMoves(t, "failed")
       \/ StatusSeen(id[t]) = {"CANCELLED"} /\ WaiterMoves(t, "cancelled")

\* A poll that finds the task unfinished and the deadline passed.
PollExpired(t) ==
    /\ Waiting(t)
    /\ StatusSeen(id[t]) \cap ACTIVE_STATUSES # {}
    /\ WaiterMoves(t, "expire")
    /\ UNCHANGED managerVars

\* Faulty: no image, so poll again.
FetchRetried(t) ==
    /\ waiter[t] = "fetch"
    /\ WaiterMoves(t, IF Lookup(id[t]) \cap result_png # {} THEN "image" ELSE "poll")
    /\ UNCHANGED managerVars

\* get_task_result_png, after the status was read.
FetchImage(t) ==
    /\ waiter[t] = "fetch"
    /\ WaiterMoves(t, IF Lookup(id[t]) \cap result_png # {} THEN "image" ELSE "lost")
    /\ UNCHANGED managerVars

\* Faulty: the deadline is reported and the task left alone.
ExpireRequestOnly(t) ==
    /\ waiter[t] = "expire"
    /\ WaiterMoves(t, "timeout")
    /\ UNCHANGED managerVars

ExpireTask(t) ==
    /\ waiter[t] = "expire"
    /\ cancel_task(id[t])
    /\ WaiterMoves(t, "timeout")

\* create_image_task_sync goes on with the result of its waiter.
Answer(t) ==
    /\ waiter[t] \in Outcome /\ response[t] = "none"
    /\ response' = [response EXCEPT ![t] = waiter[t]]
    /\ UNCHANGED <<managerVars, loopVars, sync, waiter>>

\* _watch_client_disconnect, or the request itself is cancelled.  Both run on
\* the event loop, so not inside a poll.
ClientGone(t) ==
    /\ response[t] = "none" /\ waiter[t] \in Outcome \cup {"poll"}
    /\ cancel_task(id[t])
    /\ waiter' = [waiter EXCEPT ![t] = "quit"]
    /\ response' = [response EXCEPT ![t] = "gone"]
    /\ UNCHANGED <<loopVars, sync>>

WaiterStep(t) == PollSettled(t) \/ FetchImage(t) \/ ExpireTask(t) \/ Answer(t)

----------------------------------------------------------------------------

Init ==
    /\ ManagerInit
    /\ pc = "idle"
    /\ picked = NoId
    /\ task_info = 0
    /\ result = "none"
    /\ processing_lock = FALSE
    /\ current_processing_task = NoId
    /\ stop_processing = FALSE
    /\ sync = {}
    /\ waiter = [t \in Task |-> "none"]
    /\ response = [t \in Task |-> "none"]

Request ==
    \/ StopAllRunningTasks
    \/ \E i \in Ids : CreateAsync(i) \/ CreateSync(i) \/ StopTask(i)

Next ==
    \/ LoopStep
    \/ Progress
    \/ Cleanup
    \/ Request
    \/ \E t \in Task : WaiterStep(t) \/ PollExpired(t) \/ ClientGone(t)

Safety == Init /\ [][Next]_serverVars

(***************************************************************************)
(* The thread is scheduled and the pipeline returns; the event loop polls  *)
(* and its clock runs.  Nothing makes a client call, cancel or leave.      *)
(***************************************************************************)
Fairness ==
    /\ WF_serverVars(LoopStep)
    /\ \A t \in Task : WF_serverVars(WaiterStep(t)) /\ WF_serverVars(PollExpired(t))

Spec == Safety /\ Fairness

----------------------------------------------------------------------------

\* The values the variables range over.
ServerTypeOK ==
    /\ ManagerTypeOK
    /\ pc \in {"idle", "sleeping", "picked", "claim", "stopped"} \cup Holding
    /\ picked \in Ids \cup {NoId}
    /\ task_info \in Task \cup {0}
    /\ result \in {"none", "image", "file"}
    /\ processing_lock \in BOOLEAN
    /\ current_processing_task \in Ids \cup {NoId}
    /\ stop_processing \in BOOLEAN
    /\ sync \in SUBSET Task
    /\ waiter \in [Task -> {"none", "poll", "fetch", "expire", "quit"} \cup Outcome]
    /\ response \in [Task -> {"none", "gone"} \cup Outcome]

\* A task in PROCESSING is the one task the thread has recorded under the
\* processing lock; whichever way _process_single_task ends (a result, a late
\* cancellation, an exception), the thread goes back to the queue with the
\* lock free and no task left in PROCESSING.
RunningIsCurrent ==
    /\ \A t \in Task : status[t] = "PROCESSING" =>
            /\ pc \in Holding \ {"claimed", "start", "release"}
            /\ id[t] = current_processing_task
    /\ processing_lock <=> pc \in Holding
    /\ current_processing_task # NoId <=> pc \in Holding \ {"claimed"}

\* A request that was given up (504 after the deadline, 499 after a
\* disconnect) leaves no task behind that is still queued or running.
GivenUpIsStopped ==
    \A t \in Task : response[t] \in {"timeout", "gone"} => status[t] \in TERMINAL_STATUSES

\* A client is told that its task has no status only after the record was
\* cleaned up, and that its finished image is gone only when the cache filled
\* up with newer images, or the record went, before its poll came by.
LostOnlyToNewer ==
    \A t \in sync :
        /\ waiter[t] = "missing" => t \notin tasks /\ status[t] \in TERMINAL_STATUSES
        /\ waiter[t] = "lost" =>
            /\ status[t] = "COMPLETED"
            /\ \/ t \notin tasks
               \/ Cardinality({u \in sync : status[u] = "COMPLETED" /\ ended[t] < ended[u]})
                    >= PngKeepCount

\* The answer of a synchronous request agrees with the fate of its own task:
\* an image is served for a completed task only, and a cancelled task never
\* turns into an image, however late the worker's result arrives.
AnswerMatchesTask ==
    \A t \in sync :
        /\ response[t] = "image" => status[t] = "COMPLETED"
        /\ response[t] = "failed" => status[t] = "FAILED"
        /\ response[t] = "cancelled" => status[t] = "CANCELLED"

\* The server implements the abstract queue.
Lifecycle == INSTANCE TaskLifecycle WITH
    Capacity <- MaxQueueSize,
    accepted <- total_tasks,
    waiting  <- {t \in Task : status[t] = "PENDING"},
    running  <- {t \in Task : status[t] = "PROCESSING"},
    outcome  <- [t \in Task |-> IF status[t] \in TERMINAL_STATUSES THEN status[t] ELSE "none"]

\* Tasks start in the order they were accepted, one at a time, and end once,
\* whatever the interleaving of the thread with cancellations, deadlines and
\* disconnects.
ImplementsLifecycle == Lifecycle!Spec

\* Every accepted task ends, unless the server is shut down: no failure,
\* cancellation or lost notification stalls the processing thread.
EveryTaskEnds ==
    \A t \in Task : status[t] \in ACTIVE_STATUSES ~>
                        (status[t] \in TERMINAL_STATUSES \/ stop_processing)

\* Every synchronous request is answered, also across a shutdown.
EverySyncAnswered == \A t \in Task : waiter[t] = "poll" ~> response[t] # "none"

=============================================================================
