----------------------------- MODULE WorkerGroup -----------------------------
(***************************************************************************)
(* The distributed inference worker: TorchrunInferenceWorker of            *)
(* server/services/inference/worker.py on all ranks, the task broadcast of *)
(* server/services/distributed_utils.py, and the denoising loop of         *)
(* models/runners/default_runner.py with check_stop of base_runner.py.     *)
(*                                                                         *)
(* Rank 0 takes requests from the HTTP server and broadcasts them.  All    *)
(* ranks run each request and meet at a barrier.  Only rank 0 can see that *)
(* a request was cancelled; the ranks agree on it by a collective.         *)
(*                                                                         *)
(* A collective is a numbered meeting of a process group: it is over when  *)
(* all ranks have entered it, and it works only if all of them entered the *)
(* same operation.                                                         *)
(***************************************************************************)
EXTENDS Integers, Sequences

CONSTANTS
    World,        \* the number of ranks
    Steps,        \* how often check_stop is called in a request
    MaxRequests   \* bound on the number of requests

ASSUME WorkerAssumption ==
    /\ World \in Nat \ {0} /\ Steps \in Nat \ {0} /\ MaxRequests \in Nat

Rank == 0..World - 1
Group == {"world", "ctrl"}   \* the default group, and one that runners may add
Outcome == {"none", "ok", "stopped", "failed"}

VARIABLES
    requests,    \* the requests broadcast so far
    cancelled,   \* those whose stop event is set
    pc, turn,    \* where each rank is, and in which request
    step,        \* its place in the request
    outcome,     \* how each request ended on each rank
    meetings,    \* the collectives of each group
    attended     \* the number of collectives each rank has entered

requestVars == <<requests, cancelled>>
meetingVars == <<meetings, attended>>
workerVars == <<requestVars, pc, turn, step, outcome, meetingVars>>

Request(r) == requests[turn[r]]

(***************************************************************************)
(* Collectives                                                             *)
(***************************************************************************)
NewMeeting == [ops |-> {}, ranks |-> {}, stopped |-> FALSE, failed |-> FALSE]

\* Rank r joins meeting m with operation op; its signals are reduced with MAX.
Joined(m, r, op, stopped, failed) ==
    [ops |-> m.ops \cup {op}, ranks |-> m.ranks \cup {r},
     stopped |-> m.stopped \/ stopped, failed |-> m.failed \/ failed]

Enter(r, g, op, stopped, failed) ==
    LET n == attended[r][g] + 1
    IN  /\ attended' = [attended EXCEPT ![r][g] = n]
        /\ meetings' =
            IF n > Len(meetings[g])
            THEN [meetings EXCEPT ![g] = Append(@, Joined(NewMeeting, r, op, stopped, failed))]
            ELSE [meetings EXCEPT ![g][n] = Joined(@, r, op, stopped, failed)]

Meeting(r, g) == meetings[g][attended[r][g]]

Met(r, g) == Meeting(r, g).ranks = Rank /\ \E op \in Meeting(r, g).ops : Meeting(r, g).ops = {op}

(***************************************************************************)
(* Requests                                                                *)
(***************************************************************************)

\* The stop signal of the runner: attached on rank 0 for the time of a request.
stop_signal(r) == r = 0 /\ turn[r] \in cancelled

\* process_request on rank 0: broadcast_task_data.
Submit(request) ==
    /\ pc[0] = "idle" /\ Len(requests) < MaxRequests
    /\ requests' = Append(requests, request)
    /\ turn' = [turn EXCEPT ![0] = @ + 1]
    /\ pc' = [pc EXCEPT ![0] = "run"]
    /\ step' = [step EXCEPT ![0] = 1]
    /\ UNCHANGED <<cancelled, outcome, meetingVars>>

\* worker_loop on another rank: the broadcast arrives.
Receive(r) ==
    /\ r # 0 /\ pc[r] = "idle" /\ turn[r] < Len(requests)
    /\ turn' = [turn EXCEPT ![r] = @ + 1]
    /\ pc' = [pc EXCEPT ![r] = "run"]
    /\ step' = [step EXCEPT ![r] = 1]
    /\ UNCHANGED <<requestVars, outcome, meetingVars>>

\* The server sets the stop event of the task that rank 0 runs.
Cancel ==
    /\ pc[0] # "idle" /\ outcome[0][turn[0]] = "none"
    /\ cancelled' = cancelled \cup {turn[0]}
    /\ UNCHANGED <<requests, pc, turn, step, outcome, meetingVars>>

\* The request ends on rank r, which goes to the barrier.
Finish(r, how) ==
    /\ outcome' = [outcome EXCEPT ![r][turn[r]] = how]
    /\ pc' = [pc EXCEPT ![r] = "barrier"]
    /\ Enter(r, "world", "barrier", FALSE, FALSE)
    /\ UNCHANGED <<requestVars, turn, step>>

\* Past the barrier; rank 0 answers with its outcome.
Answer(r) ==
    /\ pc[r] = "barrier" /\ Met(r, "world")
    /\ pc' = [pc EXCEPT ![r] = "idle"]
    /\ UNCHANGED <<requestVars, turn, step, outcome, meetingVars>>

(***************************************************************************)
(* A request that all ranks work on in lockstep.  `broken` is the step in  *)
(* which every rank raises, as with an input the model cannot take.        *)
(***************************************************************************)
PlainRequest == [kind : {"plain"}, broken : 1..Steps + 1]

\* Faulty: each rank decides on its own.
CheckStopAlone(r) ==
    /\ pc[r] = "run" /\ Request(r).kind = "plain"
    /\ IF stop_signal(r)
       THEN Finish(r, "stopped")
       ELSE /\ pc' = [pc EXCEPT ![r] = "agree"]
            /\ Enter(r, "world", "stop", FALSE, FALSE)
            /\ UNCHANGED <<requestVars, turn, step, outcome>>

\* check_stop: the all-reduce of the stop signal.
CheckStop(r) ==
    /\ pc[r] = "run" /\ Request(r).kind = "plain"
    /\ pc' = [pc EXCEPT ![r] = "agree"]
    /\ Enter(r, "world", "stop", stop_signal(r), FALSE)
    /\ UNCHANGED <<requestVars, turn, step, outcome>>

\* Faulty: the rank looks at its own flag again.
StopByOwnFlag(r) ==
    /\ pc[r] = "agree" /\ Met(r, "world")
    /\ Meeting(r, "world").stopped \/ stop_signal(r)
    /\ Finish(r, "stopped")

AgreeToStop(r) ==
    /\ pc[r] = "agree" /\ Met(r, "world") /\ Meeting(r, "world").stopped
    /\ Finish(r, "stopped")

Raise(r) ==
    /\ pc[r] = "agree" /\ Met(r, "world") /\ ~Meeting(r, "world").stopped
    /\ step[r] = Request(r).broken
    /\ Finish(r, "failed")

\* One step of denoising.
Infer(r) ==
    /\ pc[r] = "agree" /\ Met(r, "world") /\ ~Meeting(r, "world").stopped
    /\ step[r] # Request(r).broken
    /\ IF step[r] = Steps
       THEN Finish(r, "ok")
       ELSE /\ step' = [step EXCEPT ![r] = @ + 1]
            /\ pc' = [pc EXCEPT ![r] = "run"]
            /\ UNCHANGED <<requestVars, turn, outcome, meetingVars>>

PlainStep(r) == CheckStop(r) \/ AgreeToStop(r) \/ Raise(r) \/ Infer(r)

----------------------------------------------------------------------------

WorkerInit ==
    /\ requests = <<>> /\ cancelled = {}
    /\ pc = [r \in Rank |-> "idle"]
    /\ turn = [r \in Rank |-> 0]
    /\ step = [r \in Rank |-> 1]
    /\ outcome = [r \in Rank |-> [n \in 1..MaxRequests |-> "none"]]
    /\ meetings = [g \in Group |-> <<>>]
    /\ attended = [r \in Rank |-> [g \in Group |-> 0]]

WorkerStep(r) == Receive(r) \/ PlainStep(r) \/ Answer(r)

WorkerNext ==
    \/ \E request \in PlainRequest : Submit(request)
    \/ Cancel
    \/ \E r \in Rank : WorkerStep(r)

WorkerSpec == WorkerInit /\ [][WorkerNext]_workerVars

----------------------------------------------------------------------------

\* The values the variables range over.
WorkerTypeOK ==
    /\ turn \in [Rank -> 0..Len(requests)]
    /\ cancelled \subseteq 1..Len(requests)
    /\ outcome \in [Rank -> [1..MaxRequests -> Outcome]]
    /\ attended \in [Rank -> [Group -> Nat]]
    /\ \A g \in Group : \A n \in 1..Len(meetings[g]) :
        meetings[g][n].ranks \subseteq Rank

\* "A rank aborting unilaterally would hang the others on the next collective"
\* (check_stop): all ranks enter the same collectives in the same order, none
\* is more than one ahead of another, and at the end of a request they have
\* entered equally many.
MeetingsAligned ==
    /\ \A g \in Group : \A n \in 1..Len(meetings[g]) :
        \A op, other \in meetings[g][n].ops : op = other
    /\ \A r, s \in Rank : \A g \in Group : attended[r][g] <= attended[s][g] + 1
    /\ \A r, s \in Rank :
        pc[r] = "barrier" /\ pc[s] = "barrier" /\ turn[r] = turn[s] =>
            attended[r] = attended[s]

\* A request that all ranks work on ends alike on all of them, and when it is
\* stopped, in the same step.
StopsTogether ==
    \A r, s \in Rank : \A n \in 1..Len(requests) :
        requests[n].kind = "plain" /\ "none" \notin {outcome[r][n], outcome[s][n]} =>
            /\ outcome[r][n] = outcome[s][n]
            /\ turn[r] = n /\ turn[s] = n => step[r] = step[s]

=============================================================================
