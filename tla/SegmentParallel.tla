--------------------------- MODULE SegmentParallel ---------------------------
(***************************************************************************)
(* Segment parallelism, models/runners/seedvr/seedvr_runner.py: a long     *)
(* video is cut into overlapping segments, the ranks of the worker group   *)
(* take turns at them, and the owner of a segment hands its last frames,   *)
(* the tail, to the owner of the next, who blends them into its first.     *)
(* Rank 0 joins the files at the end.                                      *)
(*                                                                         *)
(* Tails travel over gloo, where a send is over when it was received, or   *)
(* as files in a directory that all ranks share.  A rank that stops or     *)
(* fails sends an abort marker in place of each tail it still owes and     *)
(* takes the tails that are still sent to it.  The time limits on the      *)
(* transport are left out: the protocol is meant to get by without them.   *)
(***************************************************************************)
EXTENDS WorkerGroup, FiniteSets, FiniteSetsExt

CONSTANTS
    Setups,        \* the configurations, each [runner, transport, failing]
    SegLen,        \* sr_segment_length
    SrOverlap,     \* sr_overlap
    VideoLengths,  \* the numbers of frames of the videos
    MaxFailures    \* bound on the exceptions on single ranks

ASSUME SegmentAssumption ==
    /\ World > 1
    /\ \A s \in Setups : s.runner \in {"default", "seedvr"} /\ s.transport \in {"gloo", "file"}
    /\ SegLen \in Nat \ {0} /\ SrOverlap \in Nat
    /\ VideoLengths \subseteq Nat \ {0} /\ MaxFailures \in Nat

NoTail == [request |-> 0, edge |-> 0, abort |-> FALSE]

VARIABLES
    setup,     \* the configuration
    index,     \* the segment each rank is at
    sent, received,     \* the edges each rank has dealt with in this request
    tail,      \* the tail each rank has at hand
    own,       \* how each rank leaves the segments, "none" while it does not
    agreed,    \* the ranks that owe the others no further rendezvous
    aborted,   \* the ranks that received an abort marker
    open,      \* the ranks that know the directory of this request
    channel,   \* the sends of each rank that nobody received yet
    held,      \* the ranks whose list of sends is not empty
    connected, \* the ranks that have the process group of the tails
    scratch,   \* the shared directory
    failures   \* history: the number of exceptions

loopVars == <<index, sent, received, tail>>
exitVars == <<own, agreed, aborted, open>>
wireVars == <<channel, held, connected, scratch>>
segmentVars == <<setup, loopVars, exitVars, wireVars, failures>>
vars == <<workerVars, segmentVars>>

(***************************************************************************)
(* The plan: _get_sr_segment_params and _build_sr_segments                 *)
(***************************************************************************)
Ceil(a, b) == (a + b - 1) \div b

ClampOverlap(len, overlap) == IF overlap >= len THEN len - 1 ELSE overlap

NumSegments(total, len, overlap) == Ceil(total - overlap, len - overlap)

\* Faulty: rounded down.
ShortLen(total, len, overlap) ==
    LET n == NumSegments(total, len, overlap)
    IN  Min({Max({(total + (n - 1) * overlap) \div n, overlap + 1}), len})

BalancedLen(total, len, overlap) ==
    LET n == NumSegments(total, len, overlap)
    IN  Min({Max({Ceil(total + (n - 1) * overlap, n), overlap + 1}), len})

\* Segment i, from its first frame up to the one after its last.
SegmentStart(total, len, overlap, i) ==
    IF total <= len THEN 0 ELSE i * (BalancedLen(total, len, overlap) - overlap)

SegmentEnd(total, len, overlap, i) ==
    IF total <= len THEN total
    ELSE Min({SegmentStart(total, len, overlap, i) + BalancedLen(total, len, overlap), total})

SegmentCount(total, len, overlap) ==
    Min({n \in 1..total : SegmentEnd(total, len, overlap, n - 1) >= total})

----------------------------------------------------------------------------

\* run_pipeline: short videos are left to rank 0.
VideoRequest(frames) ==
    LET n == SegmentCount(frames, SegLen, ClampOverlap(SegLen, SrOverlap))
    IN  IF n = 1 THEN [kind |-> "rank0", segments |-> 1]
                 ELSE [kind |-> "segments", segments |-> n]

Requests ==
    IF setup.runner = "default" THEN PlainRequest ELSE {VideoRequest(n) : n \in VideoLengths}

Last(r) == Request(r).segments - 1

\* _sr_segment_owner
Owner(i) == i % World
MySegments(r) == {i \in 0..Last(r) : Owner(i) = r}

(***************************************************************************)
(* Tails: _sr_send_tail, _sr_recv_tail, their file forms and the drain     *)
(***************************************************************************)
Gloo == setup.transport = "gloo"
Message(r, edge, abort) == [request |-> turn[r], edge |-> edge, abort |-> abort]

\* _sr_drain_tail_sends: wait until all sends were received.
Drain(r) == channel[r] = <<>> /\ held' = held \ {r}

\* A tail is sent after the one before was received; a file is just written.
SendTail(r, m) ==
    /\ IF Gloo
       THEN /\ channel[r] = <<>>
            /\ channel' = [channel EXCEPT ![r] = Append(@, m)]
            /\ held' = held \cup {r}
            /\ UNCHANGED scratch
       ELSE /\ scratch' = [scratch EXCEPT
                    !.tails = {t \in @ : t.edge # m.edge} \cup {m}]
            /\ UNCHANGED <<channel, held>>
    /\ UNCHANGED connected

\* The tail of `edge` is taken from its owner: with gloo the next one that the
\* owner has sent.
TakeTail(r, edge) ==
    /\ IF Gloo
       THEN LET from == Owner(edge)
            IN  /\ channel[from] # <<>>
                /\ tail' = [tail EXCEPT ![r] = Head(channel[from])]
                /\ channel' = [channel EXCEPT ![from] = Tail(@)]
                /\ UNCHANGED scratch
       ELSE \E m \in scratch.tails :
                /\ m.edge = edge
                /\ tail' = [tail EXCEPT ![r] = m]
                /\ scratch' = [scratch EXCEPT !.tails = @ \ {m}]
                /\ UNCHANGED channel
    /\ UNCHANGED <<held, connected>>

(***************************************************************************)
(* Meeting the other ranks: _sr_seg_rendezvous                             *)
(***************************************************************************)
Rendezvous(r, failed) == Enter(r, "ctrl", "rendezvous", stop_signal(r), failed)

\* What the rendezvous raises on a rank, "none" if it returns.  `failed` is
\* what the rank itself reported.
Raised(r, failed) ==
    LET m == Meeting(r, "ctrl")
    IN  CASE m.stopped -> "stopped"
          [] ~m.stopped /\ m.failed /\ ~failed -> "failed"
          [] OTHER -> "none"

Goto(r, place) ==
    /\ pc' = [pc EXCEPT ![r] = place]
    /\ UNCHANGED <<requestVars, turn, step, outcome>>

Meet(r, failed, place) == Rendezvous(r, failed) /\ Goto(r, place)

\* The request ends on rank r.  Rank 0 removes the directory, unless it never
\* got to its name.
Leave(r, how) ==
    /\ Finish(r, how)
    /\ index' = [index EXCEPT ![r] = 0]
    /\ sent' = [sent EXCEPT ![r] = {}] /\ received' = [received EXCEPT ![r] = {}]
    /\ tail' = [tail EXCEPT ![r] = NoTail]
    /\ own' = [own EXCEPT ![r] = "none"]
    /\ agreed' = agreed \ {r} /\ aborted' = aborted \ {r} /\ open' = open \ {r}
    /\ scratch' = IF r = 0 /\ Request(r).kind = "segments" /\ ~(pc[r] = "meet3" /\ r \notin open)
                  THEN [exists |-> FALSE, tails |-> {}, files |-> {}]
                  ELSE scratch
    /\ UNCHANGED <<setup, channel, connected, failures>>

(***************************************************************************)
(* _sr_run_on_rank0: rank 0 works alone, the others wait for it            *)
(***************************************************************************)
RunAlone(r) ==
    /\ pc[r] = "run" /\ Request(r).kind = "rank0"
    /\ IF r = 0 /\ stop_signal(r)
       THEN own' = [own EXCEPT ![r] = "stopped"] /\ Meet(r, TRUE, "meet3")
       ELSE UNCHANGED own /\ Meet(r, FALSE, "meet3")
    /\ UNCHANGED <<setup, loopVars, agreed, aborted, open, wireVars, failures>>

FailAlone ==
    /\ pc[0] = "run" /\ Request(0).kind = "rank0" /\ failures < MaxFailures
    /\ failures' = failures + 1
    /\ own' = [own EXCEPT ![0] = "failed"]
    /\ Meet(0, TRUE, "meet3")
    /\ UNCHANGED <<setup, loopVars, agreed, aborted, open, wireVars>>

(***************************************************************************)
(* _run_sr_segments                                                        *)
(***************************************************************************)

\* An exception at one of the places of this configuration.
Failing(place) ==
    /\ place \in setup.failing /\ failures < MaxFailures
    /\ failures' = failures + 1

Starts(r) == pc[r] = "run" /\ Request(r).kind = "segments"

\* The output directory cannot be made.
FailOutput(r) ==
    /\ Starts(r) /\ Failing("output")
    /\ own' = [own EXCEPT ![r] = "failed"] /\ held' = held \ {r}
    /\ Goto(r, "unwind")
    /\ UNCHANGED <<setup, loopVars, agreed, aborted, open, channel, connected, scratch,
                   meetingVars>>

\* Faulty: the leftovers of a crashed run stay.
Uncleared == [scratch EXCEPT !.exists = TRUE]

Cleared == [exists |-> TRUE, tails |-> {}, files |-> {}]

\* Rank 0 makes the directory and all ranks meet.
Prepare(r) ==
    /\ Starts(r) /\ Meet(r, FALSE, "meet1")
    /\ scratch' = IF r = 0 THEN Cleared ELSE scratch
    /\ agreed' = agreed \cup {r} /\ held' = held \ {r}
    /\ UNCHANGED <<setup, loopVars, own, aborted, open, channel, connected, failures>>

\* Rank 0 cannot make it, and tells the others first.
FailPrepare ==
    /\ Starts(0) /\ Failing("prepare") /\ Meet(0, TRUE, "meet1")
    /\ scratch' = [exists |-> FALSE, tails |-> {}, files |-> {}]
    /\ own' = [own EXCEPT ![0] = "failed"]
    /\ agreed' = agreed \cup {0} /\ held' = held \ {0}
    /\ UNCHANGED <<setup, loopVars, aborted, open, channel, connected>>

\* From the rendezvous to the exception handlers.
Rethrow(r, how) ==
    /\ own' = [own EXCEPT ![r] = how]
    /\ Goto(r, "unwind")
    /\ UNCHANGED <<setup, loopVars, agreed, aborted, open, wireVars, failures, meetingVars>>

Prepared(r) ==
    /\ pc[r] = "meet1" /\ Met(r, "ctrl")
    /\ LET raised == Raised(r, own[r] = "failed")
       IN  \/ raised # "none" /\ Rethrow(r, raised)
           \/ raised = "none" /\ own[r] = "failed" /\ Rethrow(r, "failed")
           \/ /\ raised = "none" /\ own[r] = "none"
              /\ agreed' = agreed \ {r} /\ open' = open \cup {r}
              /\ connected' = IF Gloo THEN connected \cup {r} ELSE connected
              /\ index' = [index EXCEPT ![r] = r]
              /\ Goto(r, IF MySegments(r) = {} THEN "settle" ELSE "diffuse")
              /\ UNCHANGED <<setup, sent, received, tail, own, aborted, channel, held,
                             scratch, failures, meetingVars>>

\* Denoising; check_stop looks at this rank's signal only.
Diffuse(r) ==
    /\ pc[r] = "diffuse" /\ ~stop_signal(r)
    /\ Goto(r, IF index[r] = 0 THEN "send" ELSE "recv")
    /\ UNCHANGED <<segmentVars, meetingVars>>

StopSegment(r) == pc[r] = "diffuse" /\ stop_signal(r) /\ Rethrow(r, "stopped")

\* An exception in the denoising, the blending, the saving or the joining.
FailSegment(r) ==
    /\ pc[r] \in {"diffuse", "send", "save", "concat"} /\ Failing(pc[r])
    /\ own' = [own EXCEPT ![r] = "failed"]
    /\ Goto(r, "unwind")
    /\ UNCHANGED <<setup, loopVars, agreed, aborted, open, wireVars, meetingVars>>

RecvTail(r) ==
    /\ pc[r] = "recv" /\ TakeTail(r, index[r] - 1)
    /\ received' = [received EXCEPT ![r] = @ \cup {index[r]}]
    /\ aborted' = IF tail'[r].abort THEN aborted \cup {r} ELSE aborted
    /\ Goto(r, CASE tail'[r].abort -> "unwind"
                 [] ~tail'[r].abort /\ index[r] < Last(r) -> "send"
                 [] OTHER -> "save")
    /\ UNCHANGED <<setup, index, sent, own, agreed, open, failures, meetingVars>>

\* Faulty: the edge is not marked as sent.
HandOffUnmarked(r) ==
    /\ pc[r] = "send" /\ SendTail(r, Message(r, index[r], FALSE))
    /\ Goto(r, "save")
    /\ UNCHANGED <<setup, loopVars, exitVars, failures, meetingVars>>

HandOff(r) ==
    /\ pc[r] = "send" /\ SendTail(r, Message(r, index[r], FALSE))
    /\ sent' = [sent EXCEPT ![r] = @ \cup {index[r]}]
    /\ Goto(r, "save")
    /\ UNCHANGED <<setup, index, received, tail, exitVars, failures, meetingVars>>

Save(r) ==
    /\ pc[r] = "save"
    /\ scratch' = [scratch EXCEPT !.files = {f \in @ : f.segment # index[r]} \cup
            {[segment |-> index[r], request |-> turn[r], blended |-> tail[r]]}]
    /\ tail' = [tail EXCEPT ![r] = NoTail]
    /\ IF index[r] + World <= Last(r)
       THEN index' = [index EXCEPT ![r] = @ + World] /\ Goto(r, "diffuse")
       ELSE UNCHANGED index /\ Goto(r, "settle")
    /\ UNCHANGED <<setup, sent, received, exitVars, channel, held, connected, failures,
                   meetingVars>>

Settle(r) ==
    /\ pc[r] = "settle" /\ Drain(r) /\ Meet(r, FALSE, "meet2")
    /\ agreed' = agreed \cup {r}
    /\ UNCHANGED <<setup, loopVars, own, aborted, open, channel, connected, scratch, failures>>

Settled(r) ==
    /\ pc[r] = "meet2" /\ Met(r, "ctrl")
    /\ \/ Raised(r, FALSE) # "none" /\ Rethrow(r, Raised(r, FALSE))
       \/ Raised(r, FALSE) = "none" /\ (r # 0 \/ r \in aborted) /\ Leave(r, "ok") /\ UNCHANGED held
       \/ /\ Raised(r, FALSE) = "none" /\ r = 0 /\ r \notin aborted
          /\ Goto(r, "concat") /\ UNCHANGED <<segmentVars, meetingVars>>

Complete(r) == Cardinality(scratch.files) = Request(r).segments

\* Nothing is left to unwind here when a file is missing.
Concat(r) ==
    /\ pc[r] = "concat"
    /\ Leave(r, IF Complete(r) THEN "ok" ELSE "failed")
    /\ UNCHANGED held

(***************************************************************************)
(* _sr_unwind_segment_loop, after an exception or an abort marker          *)
(***************************************************************************)
CanUnwind(r) == r \in open \/ r \in connected

\* _sr_abort_owed_edges and _sr_drain_inbound_edges
Owed(r) == IF CanUnwind(r) THEN {i \in MySegments(r) : i < Last(r)} \ sent[r] ELSE {}

\* Faulty: only what the rank owes is dealt with.
NoInbound(r) == {}

Inbound(r) == IF CanUnwind(r) THEN (MySegments(r) \ {0}) \ received[r] ELSE {}

AbortOwed(r) ==
    /\ pc[r] = "unwind" /\ Owed(r) # {}
    /\ LET edge == Min(Owed(r))
       IN  /\ SendTail(r, Message(r, edge, TRUE))
           /\ sent' = [sent EXCEPT ![r] = @ \cup {edge}]
    /\ Goto(r, "unwind")
    /\ UNCHANGED <<setup, index, received, tail, exitVars, failures, meetingVars>>

Discard(r) ==
    /\ pc[r] = "unwind" /\ Owed(r) = {} /\ Inbound(r) # {}
    /\ LET i == Min(Inbound(r))
       IN  /\ TakeTail(r, i - 1)
           /\ received' = [received EXCEPT ![r] = @ \cup {i}]
    /\ Goto(r, "unwind")
    /\ UNCHANGED <<setup, index, sent, exitVars, failures, meetingVars>>

\* What follows the unwinding: the rest of the loop after an abort marker,
\* otherwise the end, after a rendezvous if one is owed.
Continue(r) ==
    \/ /\ own[r] = "none" /\ Goto(r, "settle")
       /\ UNCHANGED <<setup, loopVars, exitVars, channel, connected, scratch, failures,
                      meetingVars>>
    \/ own[r] # "none" /\ r \in agreed /\ Leave(r, own[r])
    \/ /\ own[r] # "none" /\ r \notin agreed
       /\ agreed' = agreed \cup {r}
       /\ Meet(r, own[r] = "failed", "meet3")
       /\ UNCHANGED <<setup, loopVars, own, aborted, open, channel, connected, scratch, failures>>

\* Faulty: the markers are not waited for.
UnwoundUndrained(r) ==
    /\ pc[r] = "unwind" /\ Owed(r) = {} /\ Inbound(r) = {}
    /\ UNCHANGED held
    /\ Continue(r)

Unwound(r) ==
    /\ pc[r] = "unwind" /\ Owed(r) = {} /\ Inbound(r) = {}
    /\ Drain(r)
    /\ Continue(r)

\* The last rendezvous: a rank that failed keeps its own exception.
Reported(r) ==
    /\ pc[r] = "meet3" /\ Met(r, "ctrl")
    /\ LET raised == Raised(r, FALSE)
       IN  Leave(r, CASE own[r] = "failed" -> "failed"
                      [] own[r] # "failed" /\ raised # "none" -> raised
                      [] own[r] = "stopped" /\ raised = "none" -> "stopped"
                      [] OTHER -> "ok")
    /\ UNCHANGED held

----------------------------------------------------------------------------

Init ==
    /\ WorkerInit
    /\ setup \in Setups
    /\ index = [r \in Rank |-> 0]
    /\ sent = [r \in Rank |-> {}] /\ received = [r \in Rank |-> {}]
    /\ tail = [r \in Rank |-> NoTail]
    /\ own = [r \in Rank |-> "none"]
    /\ agreed = {} /\ aborted = {} /\ open = {}
    /\ channel = [r \in Rank |-> <<>>] /\ held = {} /\ connected = {}
    /\ scratch \in {[exists |-> FALSE, tails |-> {}, files |-> {}],
                    \* what a crashed server may have left behind
                    [exists |-> TRUE, tails |-> {NoTail},
                     files |-> {[segment |-> 0, request |-> 0, blended |-> NoTail]}]}
    /\ failures = 0

SegmentStep(r) ==
    \/ RunAlone(r)
    \/ Prepare(r) \/ Prepared(r) \/ Diffuse(r) \/ StopSegment(r)
    \/ RecvTail(r) \/ HandOff(r) \/ Save(r) \/ Settle(r) \/ Settled(r) \/ Concat(r)
    \/ AbortOwed(r) \/ Discard(r) \/ Unwound(r) \/ Reported(r)

RankStep(r) == (WorkerStep(r) /\ UNCHANGED segmentVars) \/ SegmentStep(r)

Next ==
    \/ \E request \in Requests : Submit(request) /\ UNCHANGED segmentVars
    \/ Cancel /\ UNCHANGED segmentVars
    \/ \E r \in Rank : RankStep(r) \/ FailOutput(r) \/ FailSegment(r)
    \/ FailAlone \/ FailPrepare

\* Every rank goes on with its program.  Nothing makes a request arrive, a user
\* cancel it or a rank fail.
Fairness == \A r \in Rank : WF_vars(RankStep(r))

Spec == Init /\ [][Next]_vars /\ Fairness

----------------------------------------------------------------------------

\* The values the variables range over.
SegmentTypeOK ==
    /\ WorkerTypeOK
    /\ \A r \in Rank :
        /\ own[r] \in Outcome \ {"ok"}
        /\ Len(channel[r]) <= 1
        /\ channel[r] # <<>> => r \in held
    /\ agreed \cup aborted \cup open \cup held \cup connected \subseteq Rank

\* _build_sr_segments: consecutive segments overlap by the width of the
\* cross-fade, they cover all frames, none is empty or longer than the memory
\* allows, each is longer than its overlap with the next, and there are no more
\* of them than a walk that fills every segment would make.  It does not depend
\* on the state and is evaluated at the start.
SegmentsCover ==
    requests = <<>> =>
        \A total \in 1..14, len \in 1..5, asked \in 0..5 :
            LET overlap == ClampOverlap(len, asked)
                count == SegmentCount(total, len, overlap)
                start(i) == SegmentStart(total, len, overlap, i)
                end(i) == SegmentEnd(total, len, overlap, i)
            IN  /\ start(0) = 0 /\ end(count - 1) = total
                /\ \A i \in 0..count - 1 : end(i) - start(i) \in 1..len
                /\ \A i \in 1..count - 1 :
                    /\ end(i - 1) - start(i) = overlap
                    /\ end(i) - start(i) > overlap
                /\ total > len => count <= NumSegments(total, len, overlap)

\* A tail is taken by the rank it is for, in the request it belongs to: no
\* marker or tail of an abandoned request is left for the next, and none is
\* taken for another edge's.
TailsBelong ==
    [][\A r \in Rank : received'[r] # received[r] /\ received'[r] # {} =>
            /\ tail'[r].request = turn[r]
            /\ tail'[r].edge + 1 \in received'[r] \ received[r]]_vars

\* "releasing tail hand-offs abandoned by a failed request" is never due: a
\* rank that begins a request has no send left of the one before.
NothingAbandoned == \A r \in Rank : pc[r] \in {"idle", "barrier"} => r \notin held

\* A video is reported as done only when every segment is saved in this
\* request, blended with the tail of the one before, and no rank stopped,
\* failed or gave up in it.
SuccessIsWhole ==
    [][\A n \in 1..MaxRequests :
        outcome[0][n] = "none" /\ outcome'[0][n] = "ok" /\ requests[n].kind = "segments" =>
            /\ aborted = {}
            /\ \A r \in Rank : outcome'[r][n] \in {"none", "ok"} /\ own[r] = "none"
            /\ {f.segment : f \in scratch.files} = 0..requests[n].segments - 1
            /\ \A f \in scratch.files : f.request = n /\
                f.blended = IF f.segment = 0 THEN NoTail
                            ELSE [request |-> n, edge |-> f.segment - 1, abort |-> FALSE]]_vars

\* _sr_abort_owed_edges: the markers undo the whole chain of waiting ranks
\* "within the current segment, instead of each waiting out the 15 minutes of
\* the tail timeout".
ChainUnwinds == \A r \in Rank : pc[r] = "unwind" ~> pc[r] # "unwind"

\* A rank failed before it met the others in this request, and has the process
\* group of an earlier one.  _sr_abort_owed_edges returns at once when the
\* transport is not set up, since "in that case the peer has not even begun to
\* wait for this tail".  Here it is set up, and the peer has not begun to wait.
FailedUnmet(r) == pc[r] = "unwind" /\ r \in connected /\ r \notin open \cup agreed

\* Every request ends on every rank, whatever is cancelled and whoever fails,
\* but for one case in which the code does stall until the time limit of the
\* tails: a rank that failed before it met the others in this request, or in an
\* earlier one, is never through with unwinding.  It is checked for videos of
\* at most two segments per rank; with more, see ChainUnwinds.
EveryRequestEnds ==
    \A n \in 1..MaxRequests :
        \/ Len(requests) >= n ~> \A r \in Rank : outcome[r][n] # "none"
        \/ <>[](\E r \in Rank : FailedUnmet(r) /\ turn[r] <= n)

=============================================================================
