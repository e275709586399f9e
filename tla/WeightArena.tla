---------------------------- MODULE WeightArena ----------------------------
(***************************************************************************)
(* The initialization of models with shared CPU weights: _init_weights of  *)
(* models/networks/base_model.py, materialize_shared_weight_arena of       *)
(* common/offload/shared_weight_coordinator.py, and the System V segments  *)
(* of shared_pinned_arena.py.                                              *)
(*                                                                         *)
(* One rank of each replica group, the leader, creates a segment and fills *)
(* it; the others attach to it.  After each stage the ranks exchange       *)
(* statuses (StatusExchange).  Any step may fail on one rank only, a       *)
(* process may die at any time, and the kernel keeps a segment until it is *)
(* marked for deletion and nobody is attached.                             *)
(***************************************************************************)
EXTENDS StatusExchange

CONSTANTS
    Leader,  \* of each rank: leader_rank of its replica group
    Models   \* bound on the number of models initialized in turn

ASSUME ArenaAssumption ==
    /\ Leader \in [Rank -> Rank]
    /\ \A r \in Rank : Leader[r] <= r /\ Leader[Leader[r]] = Leader[r]
    /\ Models \in Nat \ {0}

VARIABLES
    step,      \* where each rank is in the initialization
    model,     \* of which model
    loaded,    \* the models it has initialized
    segment    \* of each leader's segment of each model: does it exist, is it
               \* marked for deletion, is it filled, and who is attached

localVars == <<step, model, loaded, segment>>
vars == <<exchangeVars, localVars>>

Model == 1..Models
NoSegment == [exists |-> FALSE, marked |-> FALSE, full |-> FALSE, users |-> {}]

Mine(r) == segment[model[r]][Leader[r]]
IsLeader(r) == Leader[r] = r

SetMine(r, s) == segment' = [segment EXCEPT ![model[r]][Leader[r]] = s]

\* The kernel's part of shmctl(IPC_RMID), shmdt and exit.
Settled(s) == IF s.marked /\ s.users = {} THEN NoSegment ELSE s

Detached(s, r) == IF r \in s.users THEN Settled([s EXCEPT !.users = @ \ {r}]) ELSE s

\* SysVSegment.close: the creator removes the segment, everyone detaches.
Closed(s, r) ==
    IF s.exists /\ IsLeader(r) THEN Settled([s EXCEPT !.marked = TRUE, !.users = @ \ {r}])
                               ELSE Detached(s, r)

Report(stage, ok) == [stage |-> stage, ok |-> ok, data |-> "same"]

Goto(r, from, to) ==
    /\ step[r] = from
    /\ step' = [step EXCEPT ![r] = to]
    /\ UNCHANGED <<model, loaded>>

\* Rank r, in step `from`, calls exchange for the next stage.
Exchanges(r, from, to, s) == Goto(r, from, to) /\ Enter(r, s) /\ UNCHANGED faults

\* The same with a local error.
Fault == faults < MaxFaults /\ faults' = faults + 1

ExchangesError(r, from, to) ==
    Goto(r, from, to) /\ Enter(r, Report(to, FALSE)) /\ Fault

(***************************************************************************)
(* Preflight and discovery                                                 *)
(***************************************************************************)

\* The checkpoint's headers are read and the manifest is made, or not
\* (coordinate_rank_local_error("checkpoint preflight", error)).
Preflight(r) ==
    /\ at[r] = "out"
    /\ Exchanges(r, "start", "preflight", Report("preflight", TRUE))
    /\ UNCHANGED segment

\* What comes before the preflight may fail as well, and is reported at the end.
PreflightFails(r) ==
    /\ at[r] = "out"
    /\ ExchangesError(r, "start", "preflight") \/ ExchangesError(r, "start", "initialization")
    /\ UNCHANGED segment

Preflighted(r) ==
    /\ Leave(r, "returned")
    /\ Goto(r, "preflight", "discover")
    /\ UNCHANGED <<faults, segment>>

\* The discovery of the topology succeeds, though the manifest of the rank may
\* be a different one.
Discover(r) ==
    /\ \/ Exchanges(r, "discover", "discovery", Report("discovery", TRUE))
       \/ /\ Goto(r, "discover", "discovery") /\ Fault
          /\ Enter(r, [Report("discovery", TRUE) EXCEPT !.data = "other"])
    /\ UNCHANGED segment

DiscoverFails(r) ==
    /\ ExchangesError(r, "discover", "discovery")
    /\ UNCHANGED segment

\* All manifests have to be the same.
ManifestsAgree(r) == \A p, q \in Rank : posted[p][Number(r)].data = posted[q][Number(r)].data

Discovered(r) ==
    /\ Leave(r, "returned")
    /\ Goto(r, "discovery", IF ManifestsAgree(r) THEN "make" ELSE "error")
    /\ UNCHANGED <<faults, segment>>

(***************************************************************************)
(* Creation and population                                                 *)
(***************************************************************************)

\* shmget, shmat, IPC_RMID: a marked segment can be attached to as long as its
\* creator is attached.
Allocate(r) ==
    /\ IsLeader(r) /\ Goto(r, "make", "map")
    /\ SetMine(r, [NoSegment EXCEPT !.exists = TRUE])
    /\ UNCHANGED exchangeVars

Map(r) ==
    /\ Goto(r, "map", "mark")
    /\ SetMine(r, [Mine(r) EXCEPT !.users = {r}])
    /\ UNCHANGED exchangeVars

\* Faulty: auto_remove is forgotten.
NotMarked(r) ==
    /\ Goto(r, "mark", "populate")
    /\ UNCHANGED <<exchangeVars, segment>>

Mark(r) ==
    /\ Goto(r, "mark", "populate")
    /\ SetMine(r, [Mine(r) EXCEPT !.marked = TRUE])
    /\ UNCHANGED exchangeVars

Populate(r) ==
    /\ Goto(r, "populate", "populated")
    /\ SetMine(r, [Mine(r) EXCEPT !.full = TRUE])
    /\ UNCHANGED exchangeVars

\* Faulty: the followers are told before the weights are there.
PublishEarly(r) ==
    /\ IsLeader(r) /\ step[r] \in {"populate", "populated"}
    /\ Exchanges(r, step[r], "population", Report("population", TRUE))
    /\ UNCHANGED segment

Publish(r) ==
    /\ Exchanges(r, "populated", "population", Report("population", TRUE))
    /\ UNCHANGED segment

\* A failure in create closes the segment at once, one in populate when the
\* stage has failed.
CreateFails(r) ==
    /\ IsLeader(r)
    /\ \E from \in {"make", "map", "mark", "populate"} : ExchangesError(r, from, "population")
    /\ \/ SetMine(r, Closed(Mine(r), r))
       \/ step[r] = "populate" /\ UNCHANGED segment

\* A follower has nothing to do.
Follow(r) ==
    /\ ~IsLeader(r)
    /\ Exchanges(r, "make", "population", Report("population", TRUE))
    /\ UNCHANGED segment

Populated(r) ==
    /\ Leave(r, "returned")
    /\ Goto(r, "population", "attach")
    /\ UNCHANGED <<faults, segment>>

(***************************************************************************)
(* Attachment                                                              *)
(***************************************************************************)

AttachOwn(r) ==
    /\ IsLeader(r)
    /\ Exchanges(r, "attach", "registration", Report("registration", TRUE))
    /\ UNCHANGED segment

\* SysVSegment.attach: IPC_STAT, then shmat, either of which fails when the
\* segment is gone.
Stat(r) ==
    /\ ~IsLeader(r) /\ Mine(r).exists
    /\ Goto(r, "attach", "shmat")
    /\ UNCHANGED <<exchangeVars, segment>>

Shmat(r) ==
    /\ Mine(r).exists
    /\ Goto(r, "shmat", "register")
    /\ SetMine(r, [Mine(r) EXCEPT !.users = @ \cup {r}])
    /\ UNCHANGED exchangeVars

SegmentIsGone(r) ==
    /\ ~IsLeader(r) /\ ~Mine(r).exists
    /\ \E from \in {"attach", "shmat"} :
        Exchanges(r, from, "registration", Report("registration", FALSE))
    /\ UNCHANGED segment

Register(r) ==
    /\ Exchanges(r, "register", "registration", Report("registration", TRUE))
    /\ UNCHANGED segment

AttachFails(r) ==
    /\ ~IsLeader(r)
    /\ \E from \in {"attach", "shmat", "register"} : ExchangesError(r, from, "registration")
    /\ SetMine(r, Closed(Mine(r), r))

Attached(r) ==
    /\ Leave(r, "returned")
    /\ Goto(r, "registration", "bind")
    /\ UNCHANGED <<faults, segment>>

(***************************************************************************)
(* The rest of _init_weights                                               *)
(***************************************************************************)

\* The other weights are loaded and the operators bound to the views.
Bind(r) ==
    /\ \/ Exchanges(r, "bind", "initialization", Report("initialization", TRUE))
       \/ ExchangesError(r, "bind", "initialization")
    /\ UNCHANGED segment

\* An exchange raised; materialize_shared_weight_arena closes the arena it has
\* (finally), before discovery there is none.
StageFailed(r) ==
    /\ Leave(r, "raised")
    /\ \E from \in {"preflight", "discovery", "population", "registration"} : Goto(r, from, "error")
    /\ SetMine(r, Closed(Mine(r), r))
    /\ UNCHANGED faults

\* coordinate_rank_local_error("model initialization", error).
ReportError(r) ==
    /\ Exchanges(r, "error", "initialization", Report("initialization", FALSE))
    /\ UNCHANGED segment

Ready(r) ==
    /\ Leave(r, "returned")
    /\ step[r] = "initialization"
    /\ step' = [step EXCEPT ![r] = "ready"]
    /\ loaded' = [loaded EXCEPT ![r] = @ \cup {model[r]}]
    /\ UNCHANGED <<faults, model, segment>>

\* Faulty: the arena is not closed.
FailedKept(r) ==
    /\ Leave(r, "raised")
    /\ Goto(r, "initialization", "failed")
    /\ UNCHANGED <<faults, segment>>

\* _init_weights closes the arena, if there still is one, and raises.
Failed(r) ==
    /\ Leave(r, "raised")
    /\ Goto(r, "initialization", "failed")
    /\ SetMine(r, Detached(Mine(r), r))
    /\ UNCHANGED faults

\* The next model, possibly after the failure of the one before.
NextModel(r) ==
    /\ step[r] \in {"ready", "failed"} /\ model[r] < Models
    /\ step' = [step EXCEPT ![r] = "start"]
    /\ model' = [model EXCEPT ![r] = @ + 1]
    /\ UNCHANGED <<exchangeVars, loaded, segment>>

\* The process ends.
Dies(r) ==
    /\ Outages /\ step[r] # "dead" /\ Fault
    /\ step' = [step EXCEPT ![r] = "dead"]
    /\ segment' = [m \in Model |-> [l \in Rank |-> Detached(segment[m][l], r)]]
    /\ UNCHANGED <<storeVars, callVars, model, loaded>>

----------------------------------------------------------------------------

Init ==
    /\ ExchangeInit
    /\ step = [r \in Rank |-> "start"]
    /\ model = [r \in Rank |-> 1]
    /\ loaded = [r \in Rank |-> {}]
    /\ segment = [m \in Model |-> [l \in Rank |-> NoSegment]]

\* What rank r does when nothing more goes wrong.
RankStep(r) ==
    \/ step[r] # "dead" /\ ExchangeStep(r) /\ UNCHANGED localVars
    \/ Preflight(r) \/ Preflighted(r) \/ Discover(r) \/ Discovered(r)
    \/ Allocate(r) \/ Map(r) \/ Mark(r) \/ Populate(r) \/ Publish(r) \/ Follow(r) \/ Populated(r)
    \/ AttachOwn(r) \/ Stat(r) \/ Shmat(r) \/ SegmentIsGone(r) \/ Register(r) \/ Attached(r)
    \/ Bind(r) \/ StageFailed(r) \/ ReportError(r) \/ Ready(r) \/ Failed(r)

RankFails(r) ==
    \/ step[r] # "dead" /\ Disconnected(r) /\ UNCHANGED localVars
    \/ PreflightFails(r) \/ DiscoverFails(r) \/ CreateFails(r) \/ AttachFails(r) \/ Dies(r)

Next == \E r \in Rank : RankStep(r) \/ NextModel(r) \/ RankFails(r)

Safety == Init /\ [][Next]_vars

(***************************************************************************)
(* The processes run, and one that waits long enough times out.            *)
(***************************************************************************)
Fairness ==
    \A r \in Rank :
        /\ WF_vars(RankStep(r))
        /\ SF_vars(step[r] # "dead" /\ TimedOut(r) /\ UNCHANGED localVars)

Spec == Safety /\ Fairness

----------------------------------------------------------------------------

Steps == {"start", "preflight", "discover", "discovery", "make", "map", "mark", "populate",
          "populated", "population", "attach", "shmat", "register", "registration", "bind",
          "error", "initialization", "ready", "failed", "dead"}

Segment == [exists : BOOLEAN, marked : BOOLEAN, full : BOOLEAN, users : SUBSET Rank]

\* The values the variables range over.
ArenaTypeOK ==
    /\ ExchangeTypeOK
    /\ step \in [Rank -> Steps]
    /\ model \in [Rank -> Model]
    /\ loaded \in [Rank -> SUBSET Model]
    /\ segment \in [Model -> [Rank -> Segment]]

\* Behind a successful allocation there is the segment of the leader, attached
\* and filled, also when the leader has failed or died since.
WholeWeights ==
    \A r \in Rank :
        /\ step[r] = "bind" => r \in Mine(r).users /\ Mine(r).full
        /\ step[r] # "dead" => \A m \in loaded[r] :
            r \in segment[m][Leader[r]].users /\ segment[m][Leader[r]].full

\* The stages of one initialization, in order.
Stages == <<"preflight", "discovery", "population", "registration", "initialization">>

\* "Make every rank fail when one rank reports a local shared-weight error": a
\* rank completes the initialization of a model only when all ranks have
\* reported that they succeeded in each of its stages.
FailureReachesAll ==
    [][\A q \in Rank : loaded'[q] # loaded[q] =>
        \A r \in Rank, i \in 1..5 :
            LET s == posted[r][sequence[q] - 6 + i] IN s.ok /\ s.stage = Stages[i]]_vars

\* A segment that nobody is attached to is one whose creator is inside create,
\* or died in it between shmget and IPC_RMID.
NoOrphan ==
    \A m \in Model, l \in Rank :
        segment[m][l].exists /\ segment[m][l].users = {} =>
            ~segment[m][l].full /\ step[l] \in {"map", "mark", "dead"}

\* A rank that failed to initialize a model holds no memory for it.
FailedHoldsNothing ==
    \A r \in Rank, m \in Model :
        m < model[r] \/ (m = model[r] /\ step[r] = "failed") =>
            m \in loaded[r] \/ r \notin segment[m][Leader[r]].users

\* "Failures are exchanged at every stage so one bad rank cannot strand its
\* peers": every process ends its initialization, one way or the other.
EveryRankEnds == \A r \in Rank : []<>(step[r] \in {"ready", "failed", "dead"})

=============================================================================
