----------------------------- MODULE DisaggFlow -----------------------------
(***************************************************************************)
(* A batch of requests through the disaggregated services: the controller  *)
(* (lightx2v/disagg/services/controller.py) hands them out, the encoder,   *)
(* the transformers and the decoder (services/encoder.py, transformer.py,  *)
(* decoder.py) pass each on, and the controller waits for one result per   *)
(* room.  What a request carries from stage to stage is metadata in a ring *)
(* (RdmaRing; a bounded sequence here) and tensors by RoomTransfer.        *)
(*                                                                         *)
(* In "ring" mode a service takes its next request from the ring of the    *)
(* stage before.  In "central" mode (IS_CENTRALIZED) the controller sends  *)
(* each request to an encoder, a transformer and a decoder chosen in turn; *)
(* encoder and transformer still fill the rings, which nobody reads.       *)
(*                                                                         *)
(* A service is one loop.  Each part of its body (take a request, take up  *)
(* a ready, failed or completed room, run one) is an action that is        *)
(* enabled when the part has something to do.  The poller and the queues   *)
(* of a sidecar between a final status and the service that takes it up    *)
(* are part of that action: nobody else touches the room in between.       *)
(*                                                                         *)
(* The monitor may reclaim a transformer that looked idle when its metrics *)
(* were read, which may be a request ago: here it may take any of them.    *)
(*                                                                         *)
(* The history variable lost names the rooms that a listed failure has     *)
(* ended without a result: the code reports none of these to anyone.       *)
(***************************************************************************)
EXTENDS RoomTransfer, FiniteSets, TLC, SequencesExt

CONSTANTS
    Deployments,    \* deployment, rdma_buffer_slots and the transformers in use
    MaxFaults       \* bound on failures of services and transfers, and on reclaims

ASSUME FlowAssumption ==
    /\ Rooms \subseteq Nat \ {0}
    /\ \A d \in Deployments :
          /\ d.mode \in {"ring", "central"}
          /\ d.slots \in Nat \ {0}
          /\ d.instances \in Seq(Transformers)

VARIABLES
    deployment, \* which of them this is
    ring,       \* the three meta rings
    inbox,      \* requests sent directly to an instance
    service,    \* the loop of each service: place and queues
    alive,      \* transformers whose process runs
    policy,     \* RoundRobinPolicy of the transformers
    undecided,  \* rooms the controller has not dispatched
    expected, received,   \* expected_rooms, and the results by room
    results,    \* decoder results on the way to the controller
    faults, lost

queueVars == <<ring, inbox>>
controllerVars == <<alive, policy, undecided, expected, received>>
vars == <<transferVars, deployment, queueVars, service, controllerVars, results, faults, lost>>

\* A request names its room and the instance that will send its tensors.
Request(r, s) == [room |-> r, from |-> s]

NewService == [pc |-> "idle", waiting_queue |-> {}, exec_queue |-> <<>>]

EmptyRings == [p \in {"request", "phase1", "phase2"} |-> <<>>]

Init ==
    /\ TransferInit
    /\ ring = EmptyRings
    /\ inbox = [n \in Nodes |-> <<>>]
    /\ service = [n \in Nodes |-> NewService]
    /\ results = <<>>
    /\ deployment \in Deployments
    /\ alive = ToSet(deployment.instances)
    /\ policy = [instances |-> deployment.instances, next |-> 0]
    /\ undecided = Rooms
    /\ expected = {}
    /\ received = [r \in {} |-> FALSE]
    /\ faults = 0
    /\ lost = {}

Fault == faults < MaxFaults /\ faults' = faults + 1

Lose(R) == lost' = lost \cup R

-----------------------------------------------------------------------------
(* What the loops share.                                                   *)

IsIdle(n) == service[n].pc = "idle" /\ (n \in Transformers => n \in alive)

StageRing(n) ==
    IF n = Encoder THEN "request" ELSE IF n \in Transformers THEN "phase1" ELSE "phase2"

Queue(n) == IF deployment.mode = "central" THEN inbox[n] ELSE ring[StageRing(n)]
HasRequest(n) == Queue(n) # <<>>
Offered(n) == Head(Queue(n))

HasSlot(p) == Len(ring[p]) < deployment.slots

\* Take the next request of the instance, and publish metadata in a ring.
Move(n, p, qs) ==
    IF deployment.mode = "central"
    THEN /\ inbox' = [inbox EXCEPT ![n] = Tail(@)]
         /\ ring' = [ring EXCEPT ![p] = @ \o qs]
    ELSE /\ ring' = [ring EXCEPT ![StageRing(n)] = Tail(@), ![p] = @ \o qs]
         /\ UNCHANGED inbox

Take(n) == Move(n, StageRing(n), <<>>)

\* Publish a room's metadata; a full ring makes produce raise.
Produce(p, q) == HasSlot(p) /\ ring' = [ring EXCEPT ![p] = Append(@, q)]

At(n, pc) == service' = [service EXCEPT ![n].pc = pc]

Runs(n) == service[n].exec_queue # <<>>
Current(n) == Head(service[n].exec_queue)

Finished(n) == service' = [service EXCEPT ![n].pc = "idle", ![n].exec_queue = Tail(@)]

\* Wait for the room's data.
AwaitInput(n, r) == service' = [service EXCEPT ![n].waiting_queue = @ \cup {r}]

Arrived(n, status) == {r \in service[n].waiting_queue : receiver[n].request_status[r] = status}

\* A ready room is queued for execution.
Ready(n) ==
    \E r \in Arrived(n, "success") :
        /\ IsIdle(n)
        /\ service' = [service EXCEPT ![n].waiting_queue = @ \ {r},
                                      ![n].exec_queue = Append(@, r)]
        /\ UNCHANGED <<transferVars, deployment, queueVars, controllerVars, results, faults, lost>>

\* A failed room is removed.  Nobody is told.
FailedInput(n) ==
    \E r \in Arrived(n, "failed") :
        /\ IsIdle(n)
        /\ service' = [service EXCEPT ![n].waiting_queue = @ \ {r}]
        /\ Drop(n, r)
        /\ IF n \in Transformers THEN Close(n, r) ELSE UNCHANGED sender
        /\ Lose({r})
        /\ UNCHANGED <<mover, output_watch, deployment, queueVars, controllerVars, results, faults>>

-----------------------------------------------------------------------------
(* The encoder.                                                            *)

\* A request is taken, its tensors are computed, and its metadata is published
\* when they are ready; they are offered after that.
EncoderRuns ==
    /\ IsIdle(Encoder)
    /\ HasRequest(Encoder)
    /\ HasSlot("phase1")
    /\ Move(Encoder, "phase1", <<Request(Offered(Encoder).room, Encoder)>>)
    /\ Open(Encoder, Offered(Encoder).room)
    /\ service' = [service EXCEPT ![Encoder].pc = "send", ![Encoder].exec_queue = <<Offered(Encoder).room>>]
    /\ UNCHANGED <<mover, receiver, output_watch, deployment, controllerVars, results, faults, lost>>

\* init or process raises, for a full ring if for nothing else: the room is
\* removed, and nobody is told.
EncoderFails ==
    /\ IsIdle(Encoder)
    /\ HasRequest(Encoder)
    /\ IF HasSlot("phase1") THEN Fault ELSE UNCHANGED faults
    /\ Take(Encoder)
    /\ Close(Encoder, Offered(Encoder).room)
    /\ Lose({Offered(Encoder).room})
    /\ UNCHANGED <<mover, receiver, output_watch, deployment, service, controllerVars, results>>

EncoderOffers ==
    /\ service[Encoder].pc = "send"
    /\ Offer(Encoder, Current(Encoder))
    /\ WatchOutput(Encoder, Current(Encoder))
    /\ Finished(Encoder)
    /\ UNCHANGED <<mover, receiver, deployment, queueVars, controllerVars, results, faults, lost>>

\* Faulty: the room is only forgotten.
EncoderForgets ==
    \E r \in output_watch[Encoder] :
        /\ IsIdle(Encoder)
        /\ sender[Encoder].request_status[r] \in Final
        /\ Unwatch(Encoder, r)
        /\ UNCHANGED <<sender, mover, receiver, deployment, queueVars, service, controllerVars,
                       results, faults, lost>>

\* A transfer has ended, well or not: the room is removed.
EncoderCompletes ==
    \E r \in output_watch[Encoder] :
        /\ IsIdle(Encoder)
        /\ sender[Encoder].request_status[r] \in Final
        /\ Unwatch(Encoder, r)
        /\ Close(Encoder, r)
        /\ UNCHANGED <<mover, receiver, deployment, queueVars, service, controllerVars, results, faults,
                       lost>>

-----------------------------------------------------------------------------
(* A transformer.                                                          *)

\* From a ring at most two requests are taken ahead.
MayTake(t) ==
    /\ IsIdle(t)
    /\ deployment.mode = "ring" => Cardinality(service[t].waiting_queue) < 2

TransformerTakes(t) ==
    /\ MayTake(t)
    /\ HasRequest(t)
    /\ Take(t)
    /\ Receive(t, Offered(t).room)
    /\ LET asked == [sender EXCEPT ![Offered(t).from] = Asked(@, Offered(t).room, t)]
       IN  sender' = [asked EXCEPT ![t] = Opened(@, Offered(t).room)]
    /\ AwaitInput(t, Offered(t).room)
    /\ UNCHANGED <<mover, output_watch, deployment, controllerVars, results, faults, lost>>

\* init raises, before or after the pull message: the room is removed.
TransformerTakeFails(t) ==
    /\ MayTake(t)
    /\ HasRequest(t)
    /\ Take(t)
    /\ Fault
    /\ sender' \in {sender, [sender EXCEPT ![Offered(t).from] = Asked(@, Offered(t).room, t)]}
    /\ Lose({Offered(t).room})
    /\ UNCHANGED <<mover, receiver, output_watch, deployment, service, controllerVars, results>>

\* process: the metadata for the decoder is published after the computation.
TransformerPublishes(t) ==
    /\ IsIdle(t)
    /\ Runs(t)
    /\ Produce("phase2", Request(Current(t), t))
    /\ At(t, "send")
    /\ UNCHANGED <<transferVars, deployment, inbox, controllerVars, results, faults, lost>>

\* send_transformer_output_room: from here on the sidecar owns the room.
TransformerOffers(t) ==
    /\ service[t].pc = "send"
    /\ Offer(t, Current(t))
    /\ WatchOutput(t, Current(t))
    /\ Finished(t)
    /\ UNCHANGED <<mover, receiver, deployment, queueVars, controllerVars, results, faults, lost>>

\* process raises: a failed computation, a full ring, or a refused hand-over.
TransformerFails(t) ==
    /\ t \in alive
    /\ Runs(t)
    /\ IF service[t].pc = "send" \/ HasSlot("phase2") THEN Fault ELSE UNCHANGED faults
    /\ Drop(t, Current(t))
    /\ Close(t, Current(t))
    /\ Finished(t)
    /\ Lose({Current(t)})
    /\ UNCHANGED <<mover, output_watch, deployment, queueVars, controllerVars, results>>

\* A transformer's outputs belong to its sidecar process.  It removes the room
\* when it sees a final status, and tells the service, if that still runs.
TransformerCompletes(t) ==
    \E r \in output_watch[t] :
        /\ sender[t].request_status[r] \in Final
        /\ Unwatch(t, r)
        /\ Close(t, r)
        /\ IF t \in alive THEN Drop(t, r) ELSE UNCHANGED receiver
        /\ UNCHANGED <<mover, deployment, queueVars, service, controllerVars, results, faults, lost>>

-----------------------------------------------------------------------------
(* The decoder.                                                            *)

DecoderTakes ==
    /\ IsIdle(Decoder)
    /\ HasRequest(Decoder)
    /\ Take(Decoder)
    /\ Receive(Decoder, Offered(Decoder).room)
    /\ sender' = [sender EXCEPT ![Offered(Decoder).from] = Asked(@, Offered(Decoder).room, Decoder)]
    /\ AwaitInput(Decoder, Offered(Decoder).room)
    /\ UNCHANGED <<mover, output_watch, deployment, controllerVars, results, faults, lost>>

\* init raises: the room is removed, and nobody is told.
DecoderTakeFails ==
    /\ IsIdle(Decoder)
    /\ HasRequest(Decoder)
    /\ Take(Decoder)
    /\ Fault
    /\ sender' \in {sender, [sender EXCEPT ![Offered(Decoder).from] = Asked(@, Offered(Decoder).room, Decoder)]}
    /\ Lose({Offered(Decoder).room})
    /\ UNCHANGED <<mover, receiver, output_watch, deployment, service, controllerVars, results>>

\* process returns or raises; either is reported, and the room removed.
DecoderRuns(ok) ==
    /\ IsIdle(Decoder)
    /\ Runs(Decoder)
    /\ IF ok THEN UNCHANGED faults ELSE Fault
    /\ results' = Append(results, [room |-> Current(Decoder), ok |-> ok])
    /\ Drop(Decoder, Current(Decoder))
    /\ Finished(Decoder)
    /\ UNCHANGED <<sender, mover, output_watch, deployment, queueVars, controllerVars, lost>>

-----------------------------------------------------------------------------
(* The controller and its monitor.                                         *)

\* _handle_decoder_result: the first result of an expected room counts.
Handled(known, rooms, messages) ==
    FoldLeft(LAMBDA got, m : IF m.room \in rooms \ DOMAIN got THEN m.room :> m.ok @@ got ELSE got,
             known, messages)

\* RoundRobinPolicy.schedule
Turn == IF policy.next >= Len(policy.instances) THEN 0 ELSE policy.next

Schedule(t) ==
    /\ t = policy.instances[Turn + 1]
    /\ policy' = [policy EXCEPT !.next = (Turn + 1) % Len(policy.instances)]

SendRequest(r) ==
    IF deployment.mode = "central"
    THEN \E t \in Transformers :
            /\ Schedule(t)
            /\ inbox' = [n \in Nodes |->
                   IF n \in {Encoder, t, Decoder}
                   THEN Append(inbox[n], Request(r, IF n = Decoder THEN t ELSE Encoder))
                   ELSE inbox[n]]
            /\ UNCHANGED ring
    ELSE Produce("request", Request(r, Encoder)) /\ UNCHANGED <<inbox, policy>>

\* The loop of run: send the next request, then take the results that are there.
Dispatch(r) ==
    /\ r \in undecided
    /\ \A q \in undecided : r <= q
    /\ SendRequest(r)
    /\ undecided' = undecided \ {r}
    /\ expected' = expected \cup {r}
    /\ received' = Handled(received, expected', results)
    /\ results' = <<>>
    /\ UNCHANGED <<transferVars, deployment, service, alive, faults, lost>>

\* A full request ring makes send_request raise: run ends the batch, and
\* reclaims every instance on its way out.
DispatchFails ==
    /\ undecided # {}
    /\ deployment.mode = "ring" /\ ~HasSlot("request")
    /\ TransferReset
    /\ ring' = EmptyRings
    /\ service' = [n \in Nodes |-> NewService]
    /\ results' = <<>>
    /\ alive' = {}
    /\ undecided' = {}
    /\ Lose(Rooms \ DOMAIN received)
    /\ UNCHANGED <<deployment, inbox, policy, expected, received, faults>>

\* After the last request the controller blocks for each result.
Collect ==
    /\ undecided = {}
    /\ results # <<>>
    /\ received' = Handled(received, expected, <<Head(results)>>)
    /\ results' = Tail(results)
    /\ UNCHANGED <<transferVars, deployment, queueVars, service, alive, policy, undecided, expected,
                   faults, lost>>

\* What the killed process had taken, or was sent.
Held(t) ==
    service[t].waiting_queue \cup ToSet(service[t].exec_queue) \cup {q.room : q \in ToSet(inbox[t])}

\* Faulty: the sidecar is stopped at once, with the outputs it still owns.
ReclaimAll(t) ==
    /\ t \in alive
    /\ Cardinality(alive) > 1
    /\ Fault
    /\ alive' = alive \ {t}
    /\ policy' = [policy EXCEPT !.instances = SelectSeq(@, LAMBDA i : i # t)]
    /\ service' = [service EXCEPT ![t] = NewService]
    /\ receiver' = [receiver EXCEPT ![t].data_args = {}, ![t].whole = {}]
    /\ sender' = [sender EXCEPT ![t] = NewSender]
    /\ output_watch' = [output_watch EXCEPT ![t] = {}]
    /\ Lose(Held(t))
    /\ UNCHANGED <<mover, deployment, queueVars, undecided, expected, received, results>>

\* reclaim_instance: the service is killed, its sidecar lives on.
Reclaim(t) ==
    /\ t \in alive
    /\ Cardinality(alive) > 1
    /\ Fault
    /\ alive' = alive \ {t}
    /\ policy' = [policy EXCEPT !.instances = SelectSeq(@, LAMBDA i : i # t)]
    /\ service' = [service EXCEPT ![t] = NewService]
    /\ receiver' = [receiver EXCEPT ![t].data_args = {}, ![t].whole = {}]
    /\ Lose(Held(t))
    /\ UNCHANGED <<sender, mover, output_watch, deployment, queueVars, undecided, expected, received, results>>

-----------------------------------------------------------------------------

flowVars == <<deployment, queueVars, service, controllerVars, results>>

TransferFails(s) ==
    /\ Fault
    /\ Transfer(s, FALSE)
    /\ UNCHANGED <<flowVars, lost>>

\* The sender has seen the final status and removed the room before the
\* transfer thread could send it.
FinalStatusLost(s) ==
    /\ ReportLost(s)
    /\ Lose({mover[s].room})
    /\ UNCHANGED <<flowVars, faults>>

\* A transfer thread, and the poller of a sidecar.
TransferStep(s) ==
    \/ MoverStep(s) /\ UNCHANGED <<flowVars, faults, lost>>
    \/ TransferFails(s)
    \/ FinalStatusLost(s)

EncoderStep == EncoderRuns \/ EncoderFails \/ EncoderOffers \/ EncoderCompletes

TransformerStep(t) ==
    \/ TransformerTakes(t) \/ TransformerTakeFails(t)
    \/ Ready(t) \/ FailedInput(t)
    \/ TransformerPublishes(t) \/ TransformerOffers(t) \/ TransformerFails(t)

DecoderStep ==
    \/ DecoderTakes \/ DecoderTakeFails
    \/ Ready(Decoder) \/ FailedInput(Decoder)
    \/ \E ok \in BOOLEAN : DecoderRuns(ok)

ControllerStep ==
    \/ \E r \in Rooms : Dispatch(r)
    \/ DispatchFails
    \/ Collect

Next ==
    \/ EncoderStep \/ DecoderStep \/ ControllerStep
    \/ \E s \in Senders : TransferStep(s)
    \/ \E t \in Transformers : TransformerStep(t) \/ TransformerCompletes(t) \/ Reclaim(t)

\* Every loop and thread goes on while it has something to do.  None can put
\* one part of its loop off for ever: each request gives it work only once.
Fairness ==
    /\ WF_vars(EncoderStep) /\ WF_vars(DecoderStep) /\ WF_vars(ControllerStep)
    /\ \A s \in Senders : WF_vars(TransferStep(s))
    /\ \A t \in Transformers : WF_vars(TransformerStep(t)) /\ WF_vars(TransformerCompletes(t))

Spec == Init /\ [][Next]_vars /\ Fairness

-----------------------------------------------------------------------------
(* Properties.                                                             *)

\* A service computes with a room only when all of the room's tensors have
\* arrived and are still there (process of transformer.py and decoder.py).
WholeWhenUsed ==
    \A x \in Receivers : ToSet(service[x].exec_queue) \subseteq receiver[x].whole

\* In the end every request has been handed out and has its result, unless one
\* of the listed failures ended it: no lost wake-up, no order of messages, no
\* reclaimed transformer whose sidecar has the output, and no other room's
\* failure keeps the controller waiting (the loop at the end of run).
EveryRoomAnswered ==
    <>[](undecided = {} /\ expected \subseteq DOMAIN received \cup lost)

\* In the end every room opened for sending has been removed, and its memory
\* given back, unless the room was lost.
RoomsReleased ==
    <>[](\A s \in Senders : sender[s].data_args \subseteq lost)
=============================================================================
