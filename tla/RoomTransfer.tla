---------------------------- MODULE RoomTransfer ----------------------------
(***************************************************************************)
(* The transfer of one room's tensors from a sender to a receiver: the     *)
(* DataManager of lightx2v/disagg/conn.py on either side with its transfer *)
(* thread and room threads, and the sidecar of                             *)
(* services/data_mgr_sidecar.py that polls it for the service.             *)
(*                                                                         *)
(* A receiver opens the room and sends one pull message.  The sender's     *)
(* transfer thread sleeps on an event; it takes a room that was both asked *)
(* for (waiting_pool) and offered (request_pool), announces it, writes the *)
(* receiver's memory, and sends the final status.  The service removes a   *)
(* room at any time it likes, and the sidecar of a transformer removes an  *)
(* output room by itself as soon as its transfer has ended.                *)
(*                                                                         *)
(* The operations (Open, Offer, Pull, Close, Drop) are conjuncts for the   *)
(* actions of the services in DisaggFlow; the threads are actions here.    *)
(***************************************************************************)
EXTENDS Naturals

CONSTANTS
    Rooms,          \* data_bootstrap_room: one per request, never used twice
    Encoder,        \* the encoder instance
    Transformers,   \* the transformer instances, each with its own sidecar
    Decoder         \* the decoder instance

Senders == {Encoder} \cup Transformers
Receivers == Transformers \cup {Decoder}
Nodes == Senders \cup Receivers

ASSUME NodesDiffer == Encoder \notin Receivers /\ Decoder \notin Senders

VARIABLES
    sender,     \* DataManager of a sender: rooms, pools, statuses, event
    mover,      \* its transfer thread
    receiver,   \* DataManager of a receiver, with the rooms whose data arrived
    output_watch    \* the outputs a sender's sidecar polls

transferVars == <<sender, mover, receiver, output_watch>>

\* Faulty: a transfer that has begun is taken for one that has ended.
Begun == {"transferring", "success", "failed"}

Statuses == {"none", "waiting", "transferring", "success", "failed"}
Final == {"success", "failed"}

\* The room a transfer thread works on, and the receiver it sends to.
Idle == [pc |-> "wait", room |-> 0, to |-> Decoder]

\* Data managers and sidecars as they start.
NewSender ==
    [data_args |-> {}, waiting_pool |-> {}, request_pool |-> {},
     request_status |-> [r \in Rooms |-> "none"], transfer_event |-> FALSE]
NewReceiver == [data_args |-> {}, request_status |-> [r \in Rooms |-> "none"], whole |-> {}]

TransferInit ==
    /\ sender = [s \in Senders |-> NewSender]
    /\ mover = [s \in Senders |-> Idle]
    /\ receiver = [x \in Receivers |-> NewReceiver]
    /\ output_watch = [s \in Senders |-> {}]

\* Every process is stopped.
TransferReset ==
    /\ sender' = [s \in Senders |-> NewSender]
    /\ mover' = [s \in Senders |-> Idle]
    /\ receiver' = [x \in Receivers |-> NewReceiver]
    /\ output_watch' = [s \in Senders |-> {}]

-----------------------------------------------------------------------------
(* Operations the services call.                                           *)

\* DataManager.init and DataSender.__init__; the room thread reads a pull that
\* came before.
Opened(m, r) ==
    [m EXCEPT !.data_args = @ \cup {r},
              !.request_status[r] = "waiting",
              !.transfer_event = @ \/ \E p \in m.waiting_pool : p[1] = r]

Open(s, r) == sender' = [sender EXCEPT ![s] = Opened(@, r)]

\* A pull message of receiver x.  The room thread that reads it is as good as
\* part of the message: until the room is open nobody looks at the pool for it.
Asked(m, r, x) ==
    [m EXCEPT !.waiting_pool = @ \cup {<<r, x>>},
              !.transfer_event = @ \/ r \in m.data_args]

\* Faulty: the transfer thread is not woken for an offer.
OfferQuietly(s, r) ==
    sender' = [sender EXCEPT ![s].request_pool = @ \cup {r},
                             ![s].request_status[r] = "waiting"]

\* DataSender.send
Offer(s, r) ==
    sender' = [sender EXCEPT ![s].request_pool = @ \cup {r},
                             ![s].request_status[r] = "waiting",
                             ![s].transfer_event = TRUE]

Closed(m, r) ==
    [m EXCEPT !.data_args = @ \ {r},
              !.request_pool = @ \ {r},
              !.request_status[r] = "none",
              !.waiting_pool = {p \in @ : p[1] # r}]

\* DataManager.remove on the sender's side
Close(s, r) == sender' = [sender EXCEPT ![s] = Closed(@, r)]

\* DataManager.init and DataReceiver.__init__; DataReceiver.init pulls.
Receive(x, r) ==
    receiver' = [receiver EXCEPT ![x].data_args = @ \cup {r}, ![x].request_status[r] = "waiting"]

\* DataManager.remove on the receiver's side
Drop(x, r) ==
    receiver' = [receiver EXCEPT ![x].data_args = @ \ {r},
                                 ![x].request_status[r] = "none",
                                 ![x].whole = @ \ {r}]

-----------------------------------------------------------------------------
(* The transfer thread of a sender.                                        *)

Matches(s) == {p \in sender[s].waiting_pool : p[1] \in sender[s].request_pool}

\* The event is cleared before the pools are looked at.
Wake(s) ==
    /\ mover[s].pc = "wait"
    /\ sender[s].transfer_event
    /\ sender' = [sender EXCEPT ![s].transfer_event = FALSE]
    /\ mover' = [mover EXCEPT ![s].pc = "scan"]

Pick(s) ==
    /\ mover[s].pc = "scan"
    /\ \E p \in Matches(s) :
          /\ sender' = [sender EXCEPT ![s].waiting_pool = @ \ {p},
                                      ![s].request_pool = @ \ {p[1]},
                                      ![s].request_status[p[1]] = "transferring"]
          /\ mover' = [mover EXCEPT ![s] = [pc |-> "announce", room |-> p[1], to |-> p[2]]]

Rest(s) ==
    /\ mover[s].pc = "scan"
    /\ Matches(s) = {}
    /\ mover' = [mover EXCEPT ![s] = Idle]
    /\ UNCHANGED sender

\* sync_status_to_transformer_endpoint raises for a room that was removed.
CanSync(s) == mover[s].room \in sender[s].data_args

\* The final message.  The room thread of the receiver notes the status, if
\* the room is still open.
Sync(s) ==
    LET r == mover[s].room
        x == mover[s].to
    IN  receiver' = IF r \in receiver[x].data_args
                    THEN [receiver EXCEPT ![x].request_status[r] = sender[s].request_status[r]]
                    ELSE receiver

\* The first message is sent outside the try: an exception ends the thread.
Dies(s) ==
    /\ mover[s].pc = "announce"
    /\ ~CanSync(s)
    /\ mover' = [mover EXCEPT ![s].pc = "dead"]
    /\ UNCHANGED <<sender, receiver, output_watch>>

\* Faulty: what send_data returns is not looked at.
TransferUnchecked(s, ok) ==
    LET r == mover[s].room
        x == mover[s].to
    IN  /\ mover[s].pc = "announce"
        /\ CanSync(s)
        /\ receiver' = IF ok /\ r \in receiver[x].data_args
                       THEN [receiver EXCEPT ![x].whole = @ \cup {r}]
                       ELSE receiver
        /\ sender' = [sender EXCEPT ![s].request_status[r] = "success"]
        /\ mover' = [mover EXCEPT ![s].pc = "report"]
        /\ UNCHANGED output_watch

\* The first message, send_data and the status after it.  A receiver that is
\* gone makes it fail, though its memory may outlive its room.  That the
\* receiver reads "transferring" meanwhile makes no difference to it.
Transfer(s, ok) ==
    LET r == mover[s].room
        x == mover[s].to
    IN  /\ mover[s].pc = "announce"
        /\ CanSync(s)
        /\ receiver' = IF ok /\ r \in receiver[x].data_args
                       THEN [receiver EXCEPT ![x].whole = @ \cup {r}]
                       ELSE receiver
        /\ sender' = [sender EXCEPT ![s].request_status[r] = IF ok THEN "success" ELSE "failed"]
        /\ mover' = [mover EXCEPT ![s].pc = "report"]
        /\ UNCHANGED output_watch

\* A transfer that cannot succeed any more.
Unreachable(s) == mover[s].room \notin receiver[mover[s].to].data_args

Report(s) ==
    /\ mover[s].pc = "report"
    /\ CanSync(s)
    /\ Sync(s)
    /\ mover' = [mover EXCEPT ![s].pc = "scan"]
    /\ UNCHANGED sender

\* The final message is lost when the room has been removed meanwhile: the
\* exception is logged, and the receiver waits for ever.
ReportLost(s) ==
    /\ mover[s].pc = "report"
    /\ ~CanSync(s)
    /\ mover' = [mover EXCEPT ![s].pc = "scan"]
    /\ UNCHANGED <<sender, receiver, output_watch>>

MoverStep(s) ==
    \/ (Wake(s) \/ Pick(s) \/ Rest(s)) /\ UNCHANGED <<receiver, output_watch>>
    \/ Dies(s)
    \/ Unreachable(s) /\ Transfer(s, FALSE)
    \/ Transfer(s, TRUE)
    \/ Report(s) /\ UNCHANGED output_watch

-----------------------------------------------------------------------------
(* The sidecar of a sender.                                                *)

WatchOutput(s, r) == output_watch' = [output_watch EXCEPT ![s] = @ \cup {r}]
Unwatch(s, r) == output_watch' = [output_watch EXCEPT ![s] = @ \ {r}]

-----------------------------------------------------------------------------
(* Properties.                                                             *)

RoomTransferTypeOK ==
    /\ sender \in [Senders ->
           [data_args : SUBSET Rooms, waiting_pool : SUBSET (Rooms \X Receivers),
            request_pool : SUBSET Rooms, request_status : [Rooms -> Statuses],
            transfer_event : BOOLEAN]]
    /\ mover \in [Senders ->
           [pc : {"wait", "scan", "announce", "report", "dead"},
            room : Rooms \cup {0}, to : Receivers]]
    /\ receiver \in [Receivers ->
           [data_args : SUBSET Rooms, request_status : [Rooms -> Statuses], whole : SUBSET Rooms]]

\* The transfer thread never sleeps over a room that can be transferred: the
\* event is set after each change of a pool, and cleared before the pools are
\* looked at (conn.py, transfer_loop).
NoMissedPair ==
    \A s \in Senders :
        mover[s].pc = "wait" /\ ~sender[s].transfer_event => Matches(s) = {}

\* The transfer thread is never ended by the status message it sends outside
\* its try block: no service removes a room whose transfer is under way, so one
\* room cannot stop the transfers of all later ones.
MoverLives == \A s \in Senders : mover[s].pc # "dead"
=============================================================================
