-------------------------- MODULE DisaggFlowProofs --------------------------
(***************************************************************************)
(* Theorems about DisaggFlow: for any number of rooms and transformers,    *)
(* any set of deployments, in either mode, and any number of failures.     *)
(***************************************************************************)
EXTENDS DisaggFlow, SequenceTheorems, TLAPS

(***************************************************************************)
(* The inductive invariant.                                                *)
(***************************************************************************)
Phases == {"request", "phase1", "phase2"}

RequestType == [room : Rooms, from : Senders]

SenderType ==
    [data_args : SUBSET Rooms, waiting_pool : SUBSET (Rooms \X Receivers),
     request_pool : SUBSET Rooms, request_status : [Rooms -> Statuses],
     transfer_event : BOOLEAN]

MoverType ==
    [pc : {"wait", "scan", "announce", "report", "dead"},
     room : Rooms \cup {0}, to : Receivers]

ReceiverType ==
    [data_args : SUBSET Rooms, request_status : [Rooms -> Statuses], whole : SUBSET Rooms]

ServiceType ==
    [pc : {"idle", "send"}, waiting_queue : SUBSET Rooms, exec_queue : Seq(Rooms)]

TransferTypes ==
    /\ sender \in [Senders -> SenderType]
    /\ mover \in [Senders -> MoverType]
    /\ receiver \in [Receivers -> ReceiverType]
    /\ output_watch \in [Senders -> SUBSET Rooms]
    /\ \A s \in Senders : mover[s].pc \in {"announce", "report"} => mover[s].room \in Rooms

QueueTypes ==
    /\ deployment \in Deployments
    /\ ring \in [Phases -> Seq(RequestType)]
    /\ inbox \in [Nodes -> Seq(RequestType)]
    /\ service \in [Nodes -> ServiceType]
    /\ undecided \subseteq Rooms
    /\ \A n \in Nodes : service[n].pc = "send" => n \in Senders /\ Runs(n)

\* The rooms of a queue of requests, and the rooms a service has taken up.
RoomsOf(q) == {m.room : m \in ToSet(q)}
Owned(n) == service[n].waiting_queue \cup ToSet(service[n].exec_queue)

\* Of the rooms a transformer has taken up, those whose metadata it has not
\* published.
Unpublished(t) ==
    service[t].waiting_queue \cup
    ToSet(IF service[t].pc = "send" THEN Tail(service[t].exec_queue) ELSE service[t].exec_queue)

\* The rooms that may still come to a node.
Coming == undecided \cup RoomsOf(ring["request"])
Halfway == Coming \cup RoomsOf(ring["phase1"])

Ahead(n) ==
    IF deployment.mode = "central" THEN undecided \cup RoomsOf(inbox[n])
    ELSE IF n = Encoder THEN Coming
    ELSE IF n \in Transformers THEN Halfway
    ELSE Halfway \cup RoomsOf(ring["phase2"]) \cup UNION {Unpublished(t) : t \in Transformers}

\* No two requests of a queue name the same room.
NoTwice(q) == \A i, j \in 1..Len(q) : q[i].room = q[j].room => i = j

\* No room is in a sequence of rooms twice.
Once(q) == \A i, j \in 1..Len(q) : q[i] = q[j] => i = j

Central == deployment.mode = "central"

\* A room is at one place of the chain only.
RingOrder ==
    ~Central =>
        /\ \A p \in Phases : NoTwice(ring[p])
        /\ undecided \cap RoomsOf(ring["request"]) = {}
        /\ Coming \cap RoomsOf(ring["phase1"]) = {}
        /\ \A t \in Transformers : Unpublished(t) \cap (Halfway \cup RoomsOf(ring["phase2"])) = {}
        /\ Halfway \cap RoomsOf(ring["phase2"]) = {}
        /\ \A t, u \in Transformers : Unpublished(t) \cap Unpublished(u) # {} => t = u

InboxOrder ==
    Central => \A n \in Nodes : NoTwice(inbox[n]) /\ undecided \cap RoomsOf(inbox[n]) = {}

\* A service has a room in one of its queues, once, and it never comes again.
OwnedOnce ==
    \A n \in Nodes :
        LET q == service[n].exec_queue
        IN  /\ Once(q)
            /\ service[n].waiting_queue \cap ToSet(q) = {}
            /\ Ahead(n) \cap Owned(n) = {}

Busy(s) == mover[s].pc \in {"announce", "report"}

\* What is still to come is unknown: not open, not asked for and not under way.
Unknown(s) ==
    /\ Ahead(s) \cap sender[s].data_args = {}
    /\ \A p \in sender[s].waiting_pool : p[1] \notin Ahead(p[2])
    /\ Busy(s) => mover[s].room \notin Ahead(mover[s].to)

\* What is offered is watched and open; what a service still has is open too,
\* and not watched.
SenderOwns(s) ==
    /\ sender[s].request_pool \subseteq output_watch[s]
    /\ output_watch[s] \subseteq sender[s].data_args
    /\ Owned(s) \subseteq sender[s].data_args
    /\ Owned(s) \cap output_watch[s] = {}

\* A room whose transfer is under way is watched and has no final status yet,
\* so that nobody removes it.
Announced(s) ==
    /\ mover[s].pc # "dead"
    /\ mover[s].pc = "announce" =>
          /\ mover[s].room \in output_watch[s]
          /\ sender[s].request_status[mover[s].room] \notin Final

NoMissed(s) == mover[s].pc = "wait" /\ ~sender[s].transfer_event => Matches(s) = {}

SenderInv(s) == Unknown(s) /\ SenderOwns(s) /\ Announced(s) /\ NoMissed(s)

\* Good news on its way is true.
ReportTrue(s) ==
    LET r == mover[s].room
        x == mover[s].to
    IN  /\ mover[s].pc = "report" /\ sender[s].request_status[r] = "success"
        /\ r \in receiver[x].data_args
        => r \in receiver[x].whole

\* Good news that has come is true.
InputTrue(x) ==
    /\ service[x].waiting_queue \subseteq receiver[x].data_args
    /\ \A r \in receiver[x].data_args :
          receiver[x].request_status[r] = "success" => r \in receiver[x].whole
    /\ ToSet(service[x].exec_queue) \subseteq receiver[x].whole

QueueInv == QueueTypes /\ RingOrder /\ InboxOrder /\ OwnedOnce

TransferInv ==
    /\ TransferTypes
    /\ \A s \in Senders : SenderInv(s) /\ ReportTrue(s)
    /\ \A x \in Receivers : InputTrue(x)

FlowInv == QueueInv /\ TransferInv

-----------------------------------------------------------------------------
(* Queues.                                                                 *)

\* The members of a sequence that gets longer or shorter by one.
LEMMA SetOfAppend ==
    ASSUME NEW S, NEW q \in Seq(S), NEW e \in S
    PROVE  ToSet(Append(q, e)) = ToSet(q) \cup {e}
  <1>1. /\ Append(q, e) \in Seq(S) /\ Len(Append(q, e)) = Len(q) + 1
        /\ \A i \in 1..Len(q) : Append(q, e)[i] = q[i]
        /\ Append(q, e)[Len(q) + 1] = e
    BY AppendProperties
  <1>2. Len(q) \in Nat BY LenProperties
  <1>3. ToSet(Append(q, e)) \subseteq ToSet(q) \cup {e}
    BY <1>1, <1>2 DEF ToSet
  <1>4. ToSet(q) \subseteq ToSet(Append(q, e))
    <2> SUFFICES ASSUME NEW i \in 1..Len(q) PROVE q[i] \in ToSet(Append(q, e)) BY DEF ToSet
    <2>1. i \in 1..Len(Append(q, e)) /\ Append(q, e)[i] = q[i] BY <1>1, <1>2
    <2> QED BY <2>1 DEF ToSet
  <1>5. e \in ToSet(Append(q, e)) 
    <2>1. Len(q) + 1 \in 1..Len(Append(q, e)) BY <1>1, <1>2
    <2> QED BY <1>1, <2>1 DEF ToSet
  <1> QED BY <1>3, <1>4, <1>5

LEMMA SetOfTail ==
    ASSUME NEW S, NEW q \in Seq(S), q # <<>>
    PROVE  /\ Head(q) \in S /\ Tail(q) \in Seq(S)
           /\ ToSet(q) = {Head(q)} \cup ToSet(Tail(q))
           /\ Len(Tail(q)) = Len(q) - 1 /\ Len(q) \in Nat \ {0}
           /\ \A i \in 1..Len(q) - 1 : Tail(q)[i] = q[i + 1]
           /\ Head(q) = q[1]
  <1>1. /\ Len(q) \in Nat \ {0} /\ Head(q) \in S /\ Tail(q) \in Seq(S)
        /\ Len(Tail(q)) = Len(q) - 1
        /\ \A i \in 1..Len(Tail(q)) : Tail(q)[i] = q[i + 1]
    BY HeadTailProperties, EmptySeq, LenProperties
  <1>2. Head(q) = q[1] OBVIOUS
  <1>3. Head(q) \in ToSet(q) BY <1>1, <1>2 DEF ToSet
  <1>4. ToSet(Tail(q)) \subseteq ToSet(q)
    <2> SUFFICES ASSUME NEW i \in 1..Len(Tail(q)) PROVE Tail(q)[i] \in ToSet(q) BY DEF ToSet
    <2>1. i + 1 \in 1..Len(q) BY <1>1
    <2> QED BY <1>1, <2>1 DEF ToSet
  <1>5. ToSet(q) \subseteq {Head(q)} \cup ToSet(Tail(q))
    <2> SUFFICES ASSUME NEW i \in 1..Len(q), i # 1 PROVE q[i] \in ToSet(Tail(q)) BY <1>2 DEF ToSet
    <2>1. PICK k \in 1..Len(Tail(q)) : k + 1 = i
      <3>1. i - 1 \in 1..Len(Tail(q)) /\ (i - 1) + 1 = i BY <1>1
      <3> QED BY <3>1
    <2>2. Tail(q)[k] = q[i] /\ DOMAIN Tail(q) = 1..Len(Tail(q)) BY <1>1, <2>1, LenProperties
    <2> QED BY <2>2 DEF ToSet
  <1> QED BY <1>1, <1>2, <1>3, <1>4, <1>5

LEMMA SetOfEmpty == ToSet(<<>>) = {}
  BY DEF ToSet

LEMMA OnceAppend ==
    ASSUME NEW S, NEW q \in Seq(S), NEW e \in S, Once(q), e \notin ToSet(q)
    PROVE  Once(Append(q, e))
  <1>1. /\ Len(Append(q, e)) = Len(q) + 1 /\ Len(q) \in Nat
        /\ \A i \in 1..Len(q) : Append(q, e)[i] = q[i]
        /\ Append(q, e)[Len(q) + 1] = e
    BY AppendProperties, LenProperties
  <1>2. \A i \in 1..Len(q) : q[i] # e BY DEF ToSet
  <1> QED BY <1>1, <1>2 DEF Once

LEMMA OnceTail ==
    ASSUME NEW S, NEW q \in Seq(S), Once(q), q # <<>>
    PROVE  Once(Tail(q)) /\ Head(q) \notin ToSet(Tail(q))
  <1>1. /\ Len(Tail(q)) = Len(q) - 1 /\ Len(q) \in Nat \ {0}
        /\ \A i \in 1..Len(q) - 1 : Tail(q)[i] = q[i + 1]
        /\ Head(q) = q[1]
    BY SetOfTail
  <1>2. Once(Tail(q)) 
    <2> SUFFICES ASSUME NEW i \in 1..Len(Tail(q)), NEW j \in 1..Len(Tail(q)),
                        Tail(q)[i] = Tail(q)[j]
                 PROVE  i = j
      BY DEF Once
    <2>1. i + 1 \in 1..Len(q) /\ j + 1 \in 1..Len(q) /\ q[i + 1] = q[j + 1] BY <1>1
    <2>2. i + 1 = j + 1 BY <2>1 DEF Once
    <2> QED BY <2>2
  <1>3. ASSUME NEW i \in 1..Len(Tail(q)), Tail(q)[i] = Head(q) PROVE FALSE
    <2>1. i + 1 \in 1..Len(q) /\ 1 \in 1..Len(q) /\ q[i + 1] = q[1] BY <1>1, <1>3
    <2>2. i + 1 = 1 BY <2>1 DEF Once
    <2> QED BY <2>2
  <1> QED BY <1>2, <1>3 DEF ToSet

\* The same for requests and their rooms.
LEMMA RoomsOfAppend ==
    ASSUME NEW q \in Seq(RequestType), NEW m \in RequestType
    PROVE  /\ RoomsOf(Append(q, m)) = RoomsOf(q) \cup {m.room}
           /\ NoTwice(q) /\ m.room \notin RoomsOf(q) => NoTwice(Append(q, m))
  <1>1. RoomsOf(Append(q, m)) = RoomsOf(q) \cup {m.room}
    BY SetOfAppend DEF RoomsOf
  <1>2. ASSUME NoTwice(q), m.room \notin RoomsOf(q) PROVE NoTwice(Append(q, m))
    <2>1. /\ Len(Append(q, m)) = Len(q) + 1 /\ Len(q) \in Nat
          /\ \A i \in 1..Len(q) : Append(q, m)[i] = q[i]
          /\ Append(q, m)[Len(q) + 1] = m
      BY AppendProperties, LenProperties
    <2>2. \A i \in 1..Len(q) : q[i].room # m.room BY <1>2 DEF RoomsOf, ToSet
    <2> QED BY <1>2, <2>1, <2>2 DEF NoTwice
  <1> QED BY <1>1, <1>2

LEMMA RoomsOfTail ==
    ASSUME NEW q \in Seq(RequestType), q # <<>>
    PROVE  /\ Head(q) \in RequestType /\ Tail(q) \in Seq(RequestType)
           /\ RoomsOf(q) = {Head(q).room} \cup RoomsOf(Tail(q))
           /\ NoTwice(q) => NoTwice(Tail(q)) /\ Head(q).room \notin RoomsOf(Tail(q))
  <1>1. /\ Head(q) \in RequestType /\ Tail(q) \in Seq(RequestType)
        /\ ToSet(q) = {Head(q)} \cup ToSet(Tail(q))
        /\ Len(Tail(q)) = Len(q) - 1 /\ Len(q) \in Nat \ {0}
        /\ \A i \in 1..Len(q) - 1 : Tail(q)[i] = q[i + 1]
        /\ Head(q) = q[1]
    BY SetOfTail
  <1>2. RoomsOf(q) = {Head(q).room} \cup RoomsOf(Tail(q)) BY <1>1 DEF RoomsOf
  <1>3. ASSUME NoTwice(q) PROVE NoTwice(Tail(q))
    <2> SUFFICES ASSUME NEW i \in 1..Len(Tail(q)), NEW j \in 1..Len(Tail(q)),
                        Tail(q)[i].room = Tail(q)[j].room
                 PROVE  i = j
      BY DEF NoTwice
    <2>1. i + 1 \in 1..Len(q) /\ j + 1 \in 1..Len(q) /\ q[i + 1].room = q[j + 1].room BY <1>1
    <2>2. i + 1 = j + 1 BY <1>3, <2>1 DEF NoTwice
    <2> QED BY <2>2
  <1>4. ASSUME NoTwice(q), NEW i \in 1..Len(Tail(q)), Tail(q)[i].room = Head(q).room PROVE FALSE
    <2>1. i + 1 \in 1..Len(q) /\ 1 \in 1..Len(q) /\ q[i + 1].room = q[1].room BY <1>1, <1>4
    <2>2. i + 1 = 1 BY <1>4, <2>1 DEF NoTwice
    <2> QED BY <2>2
  <1>5. NoTwice(q) => Head(q).room \notin RoomsOf(Tail(q)) BY <1>4 DEF RoomsOf, ToSet
  <1> QED BY <1>1, <1>2, <1>3, <1>5

LEMMA RoomsOfNone == RoomsOf(<<>>) = {} /\ NoTwice(<<>>)
  BY DEF RoomsOf, NoTwice, ToSet

-----------------------------------------------------------------------------
(* The queue half of the state: deployment, rings, inboxes, services and   *)
(* the rooms not dispatched.  What can happen to it, kind by kind.         *)

\* No room comes to a node for which it was not on the way already.
Shrinks == \A n \in Nodes : Ahead(n)' \subseteq Ahead(n)

LEMMA NodeFacts ==
    /\ Encoder \in Senders /\ Encoder \notin Receivers /\ Encoder \notin Transformers
    /\ Decoder \in Receivers /\ Decoder \notin Senders /\ Decoder \notin Transformers
    /\ Encoder # Decoder
    /\ Transformers \subseteq Senders /\ Transformers \subseteq Receivers
    /\ Senders \subseteq Nodes /\ Receivers \subseteq Nodes
    /\ Nodes = {Encoder, Decoder} \cup Transformers
    /\ \A d \in Deployments : d.mode # "central" <=> d.mode = "ring"
  BY NodesDiffer, FlowAssumption DEF Senders, Receivers, Nodes

LEMMA StageFacts ==
    ASSUME NEW n \in Nodes
    PROVE  /\ StageRing(n) \in Phases
           /\ n = Encoder => StageRing(n) = "request"
           /\ n \in Transformers => StageRing(n) = "phase1"
           /\ n = Decoder => StageRing(n) = "phase2"
  BY NodeFacts DEF StageRing, Phases

\* A node takes its next request.
LEMMA TakeEffect ==
    ASSUME QueueInv, NEW n \in Nodes, HasRequest(n), Take(n), UNCHANGED deployment
    PROVE  /\ ring' \in [Phases -> Seq(RequestType)]
           /\ inbox' \in [Nodes -> Seq(RequestType)]
           /\ Offered(n) \in RequestType
           /\ ~Central =>
                /\ inbox' = inbox
                /\ \A p \in Phases \ {StageRing(n)} : ring'[p] = ring[p]
                /\ RoomsOf(ring[StageRing(n)]) = {Offered(n).room} \cup RoomsOf(ring'[StageRing(n)])
                /\ Offered(n).room \notin RoomsOf(ring'[StageRing(n)])
                /\ NoTwice(ring'[StageRing(n)])
           /\ Central =>
                /\ \A m \in Nodes \ {n} : inbox'[m] = inbox[m]
                /\ RoomsOf(inbox[n]) = {Offered(n).room} \cup RoomsOf(inbox'[n])
                /\ Offered(n).room \notin RoomsOf(inbox'[n])
                /\ NoTwice(inbox'[n])
  <1> DEFINE p == StageRing(n)
  <1>0. p \in Phases BY StageFacts
  <1>1. /\ ring \in [Phases -> Seq(RequestType)] /\ inbox \in [Nodes -> Seq(RequestType)]
    BY DEF QueueInv, QueueTypes
  <1>2. ASSUME NEW q \in Seq(RequestType) PROVE q \o <<>> = q
    BY <1>2, ConcatEmptySeq
  <1>3. CASE Central
    <2>1. inbox' = [inbox EXCEPT ![n] = Tail(@)] /\ ring' = [ring EXCEPT ![p] = @ \o <<>>]
      BY <1>3 DEF Take, Move, Central
    <2>2. inbox[n] # <<>> /\ Offered(n) = Head(inbox[n])
      BY <1>3 DEF HasRequest, Queue, Offered, Central
    <2>3. NoTwice(inbox[n]) BY <1>3 DEF QueueInv, InboxOrder
    <2>4. inbox[n] \in Seq(RequestType) /\ ring[p] \in Seq(RequestType) BY <1>0, <1>1
    <2>5. /\ Offered(n) \in RequestType /\ Tail(inbox[n]) \in Seq(RequestType)
          /\ RoomsOf(inbox[n]) = {Offered(n).room} \cup RoomsOf(Tail(inbox[n]))
          /\ NoTwice(Tail(inbox[n])) /\ Offered(n).room \notin RoomsOf(Tail(inbox[n]))
      BY <2>2, <2>3, <2>4, RoomsOfTail
    <2>6. ring' \in [Phases -> Seq(RequestType)] BY <1>0, <1>1, <1>2, <2>1, <2>4
    <2>7. /\ inbox' \in [Nodes -> Seq(RequestType)] /\ inbox'[n] = Tail(inbox[n])
          /\ \A m \in Nodes \ {n} : inbox'[m] = inbox[m]
      BY <1>1, <2>1, <2>5
    <2> QED BY <1>3, <2>5, <2>6, <2>7
  <1>4. CASE ~Central
    <2>1. inbox' = inbox /\ ring' = [ring EXCEPT ![p] = Tail(@), ![p] = @ \o <<>>]
      BY <1>4 DEF Take, Move, Central
    <2>2. ring[p] # <<>> /\ Offered(n) = Head(ring[p])
      BY <1>4 DEF HasRequest, Queue, Offered, Central
    <2>3. NoTwice(ring[p]) BY <1>0, <1>4 DEF QueueInv, RingOrder
    <2>4. ring[p] \in Seq(RequestType) BY <1>0, <1>1
    <2>5. /\ Offered(n) \in RequestType /\ Tail(ring[p]) \in Seq(RequestType)
          /\ RoomsOf(ring[p]) = {Offered(n).room} \cup RoomsOf(Tail(ring[p]))
          /\ NoTwice(Tail(ring[p])) /\ Offered(n).room \notin RoomsOf(Tail(ring[p]))
      BY <2>2, <2>3, <2>4, RoomsOfTail
    <2>6. Tail(ring[p]) \o <<>> = Tail(ring[p]) BY <1>2, <2>5
    <2>7. /\ ring' \in [Phases -> Seq(RequestType)] /\ ring'[p] = Tail(ring[p])
          /\ \A q \in Phases \ {p} : ring'[q] = ring[q]
      BY <1>0, <1>1, <2>1, <2>5, <2>6
    <2> QED BY <1>1, <1>4, <2>1, <2>5, <2>7
  <1> QED BY <1>3, <1>4

\* A transformer or the decoder takes its next request and awaits its input.
LEMMA TakenAndAwaited ==
    ASSUME QueueInv, NEW n \in Receivers, IsIdle(n), HasRequest(n), Take(n),
           AwaitInput(n, Offered(n).room), UNCHANGED <<deployment, undecided>>
    PROVE  /\ QueueInv' /\ Shrinks
           /\ Offered(n).room \in Rooms
           /\ Offered(n).room \in Ahead(n) /\ Offered(n).room \notin Ahead(n)'
           /\ service'[n].waiting_queue = service[n].waiting_queue \cup {Offered(n).room}
           /\ service'[n].exec_queue = service[n].exec_queue
           /\ \A m \in Nodes \ {n} : service'[m] = service[m]
  <1> DEFINE r == Offered(n).room
             p == StageRing(n)
  <1>0. n \in Nodes /\ p \in Phases /\ n # Encoder
        /\ (n \in Transformers => p = "phase1") /\ (n = Decoder => p = "phase2")
        /\ (n \in Transformers \/ n = Decoder)
    BY NodeFacts, StageFacts DEF Nodes, Receivers
  <1>1. /\ service \in [Nodes -> ServiceType] /\ undecided \subseteq Rooms
        /\ deployment \in Deployments
        /\ \A m \in Nodes : service[m].pc = "send" => m \in Senders /\ Runs(m)
    BY DEF QueueInv, QueueTypes
  <1>2. /\ ring' \in [Phases -> Seq(RequestType)] /\ inbox' \in [Nodes -> Seq(RequestType)]
        /\ Offered(n) \in RequestType /\ r \in Rooms
    BY <1>0, TakeEffect DEF RequestType
  <1>3. service' = [service EXCEPT ![n].waiting_queue = @ \cup {r}] BY DEF AwaitInput
  <1>4. /\ service'[n].waiting_queue = service[n].waiting_queue \cup {r}
        /\ service'[n].exec_queue = service[n].exec_queue
        /\ service'[n].pc = service[n].pc
        /\ service[n].pc = "idle"
        /\ \A m \in Nodes \ {n} : service'[m] = service[m]
        /\ service' \in [Nodes -> ServiceType]
    BY <1>0, <1>1, <1>2, <1>3 DEF ServiceType, IsIdle
  <1>5. QueueTypes'
    BY <1>1, <1>2, <1>4 DEF QueueTypes, Runs
  <1>6. /\ Owned(n)' = Owned(n) \cup {r} /\ Unpublished(n)' = Unpublished(n) \cup {r}
        /\ \A m \in Nodes \ {n} : Owned(m)' = Owned(m) /\ Unpublished(m)' = Unpublished(m)
    BY <1>4 DEF Owned, Unpublished
  <1>7. Central' <=> Central BY DEF Central
  <1>8. r \in Ahead(n) /\ r \notin Ahead(n)' /\ Shrinks /\ RingOrder' /\ InboxOrder'
    <2>1. CASE Central
      <3>1. /\ \A m \in Nodes \ {n} : inbox'[m] = inbox[m]
            /\ RoomsOf(inbox[n]) = {r} \cup RoomsOf(inbox'[n])
            /\ r \notin RoomsOf(inbox'[n]) /\ NoTwice(inbox'[n])
        BY <1>0, <2>1, TakeEffect
      <3>2. \A m \in Nodes : NoTwice(inbox[m]) /\ undecided \cap RoomsOf(inbox[m]) = {}
        BY <2>1 DEF QueueInv, InboxOrder
      <3>3. \A m \in Nodes : /\ Ahead(m) = undecided \cup RoomsOf(inbox[m])
                             /\ Ahead(m)' = undecided \cup RoomsOf(inbox'[m])
        BY <2>1, <1>7 DEF Ahead, Central, RoomsOf
      <3> QED BY <1>0, <1>7, <2>1, <3>1, <3>2, <3>3 DEF Shrinks, RingOrder, InboxOrder, RoomsOf, NoTwice
    <2>2. CASE ~Central
      <3>1. /\ \A q \in Phases \ {p} : ring'[q] = ring[q]
            /\ RoomsOf(ring[p]) = {r} \cup RoomsOf(ring'[p])
            /\ r \notin RoomsOf(ring'[p]) /\ NoTwice(ring'[p])
        BY <1>0, <2>2, TakeEffect
      <3>2. /\ \A q \in Phases : NoTwice(ring[q])
            /\ undecided \cap RoomsOf(ring["request"]) = {}
            /\ Coming \cap RoomsOf(ring["phase1"]) = {}
            /\ \A t \in Transformers : Unpublished(t) \cap (Halfway \cup RoomsOf(ring["phase2"])) = {}
            /\ Halfway \cap RoomsOf(ring["phase2"]) = {}
            /\ \A t, u \in Transformers : Unpublished(t) \cap Unpublished(u) # {} => t = u
        BY <2>2 DEF QueueInv, RingOrder
      <3>3. Phases = {"request", "phase1", "phase2"} BY DEF Phases
      <3>4. \A q \in Phases : RoomsOf(ring[q])' = RoomsOf(ring'[q]) /\ NoTwice(ring[q])' = NoTwice(ring'[q])
        BY DEF RoomsOf, NoTwice
      <3>5. /\ Coming = undecided \cup RoomsOf(ring["request"])
            /\ Coming' = undecided \cup RoomsOf(ring'["request"])
            /\ Halfway = Coming \cup RoomsOf(ring["phase1"])
            /\ Halfway' = Coming' \cup RoomsOf(ring'["phase1"])
        BY <3>4, <3>3 DEF Coming, Halfway
      <3>6. /\ Ahead(Encoder) = Coming /\ Ahead(Encoder)' = Coming'
            /\ \A t \in Transformers : Ahead(t) = Halfway /\ Ahead(t)' = Halfway'
            /\ Ahead(Decoder) = Halfway \cup RoomsOf(ring["phase2"]) \cup UNION {Unpublished(t) : t \in Transformers}
            /\ Ahead(Decoder)' = Halfway' \cup RoomsOf(ring'["phase2"]) \cup UNION {Unpublished(t)' : t \in Transformers}
        BY <2>2, <1>7, <3>4, <3>3, NodeFacts DEF Ahead, Central
      <3>7. CASE n \in Transformers
        <4>1. p = "phase1" /\ n # Decoder BY <1>0, <3>7, NodeFacts
        <4>2. ring'["request"] = ring["request"] /\ ring'["phase2"] = ring["phase2"] BY <3>1, <3>3, <4>1
        <4>3. r \in Halfway /\ r \notin Halfway' /\ Coming' = Coming BY <3>1, <3>2, <3>5, <4>1, <4>2
        <4>4. \A t \in Transformers : Ahead(t) \cap Owned(t) = {} BY NodeFacts DEF QueueInv, OwnedOnce
        <4>5. \A t \in Transformers : r \notin Unpublished(t)
          BY <3>2, <4>3
        <4>6. RingOrder'
          <5>1. \A t \in Transformers : Unpublished(t)' \cap (Halfway' \cup RoomsOf(ring'["phase2"])) = {}
            BY <1>0, <1>6, <3>1, <3>2, <3>5, <4>1, <4>2, <4>3, <4>5, NodeFacts
          <5>2. \A t, u \in Transformers : Unpublished(t)' \cap Unpublished(u)' # {} => t = u
            BY <1>0, <1>6, <3>2, <4>5, NodeFacts
          <5>3. /\ Halfway' \cap RoomsOf(ring'["phase2"]) = {} /\ Coming' \cap RoomsOf(ring'["phase1"]) = {}
                /\ undecided \cap RoomsOf(ring'["request"]) = {}
                /\ \A q \in Phases : NoTwice(ring'[q])
            BY <3>1, <3>2, <3>3, <3>5, <4>1, <4>2, <4>3
          <5> QED BY <5>1, <5>2, <5>3, <3>4, <3>3 DEF RingOrder
        <4>7. Shrinks
          <5>1. Halfway' \subseteq Halfway BY <3>1, <3>5, <4>1, <4>3
          <5>2. Ahead(Decoder)' \subseteq Ahead(Decoder)
            <6>1. UNION {Unpublished(t)' : t \in Transformers} \subseteq {r} \cup UNION {Unpublished(t) : t \in Transformers}
              BY <1>6, NodeFacts
            <6> QED BY <6>1, <3>6, <5>1, <4>2, <4>3
          <5> QED BY <5>1, <5>2, <3>6, <4>3, NodeFacts DEF Shrinks
        <4> QED BY <4>3, <4>6, <4>7, <3>6, <3>7, <2>2, <1>7 DEF InboxOrder
      <3>8. CASE n = Decoder
        <4>1. p = "phase2" BY <1>0, <3>8
        <4>2. ring'["request"] = ring["request"] /\ ring'["phase1"] = ring["phase1"] BY <3>1, <3>3, <4>1
        <4>3. Halfway' = Halfway /\ Coming' = Coming /\ r \in RoomsOf(ring["phase2"])
          BY <3>1, <3>5, <4>1, <4>2
        <4>4. \A t \in Transformers : Unpublished(t)' = Unpublished(t) BY <1>6, <3>8, NodeFacts
        <4>5. RingOrder'
          <5>1. RoomsOf(ring'["phase2"]) \subseteq RoomsOf(ring["phase2"]) BY <3>1, <4>1
          <5>2. /\ \A t \in Transformers : Unpublished(t)' \cap (Halfway' \cup RoomsOf(ring'["phase2"])) = {}
                /\ \A t, u \in Transformers : Unpublished(t)' \cap Unpublished(u)' # {} => t = u
            BY <3>2, <4>3, <4>4, <5>1
          <5>3. /\ Halfway' \cap RoomsOf(ring'["phase2"]) = {} /\ Coming' \cap RoomsOf(ring'["phase1"]) = {}
                /\ undecided \cap RoomsOf(ring'["request"]) = {}
                /\ \A q \in Phases : NoTwice(ring'[q])
            BY <3>1, <3>2, <3>3, <4>1, <4>2, <4>3, <5>1
          <5> QED BY <5>2, <5>3, <3>4, <3>3 DEF RingOrder
        <4>6. UNION {Unpublished(t)' : t \in Transformers} = UNION {Unpublished(t) : t \in Transformers}
          BY <4>4
        <4>7. \A t \in Transformers : r \notin Unpublished(t) BY <3>2, <4>3
        <4>8. r \notin UNION {Unpublished(t) : t \in Transformers} BY <4>7
        <4>9. r \in Ahead(n) /\ r \notin Ahead(n)'
          BY <3>1, <3>2, <3>6, <3>8, <4>1, <4>3, <4>6, <4>8
        <4>10. Shrinks
          BY <3>1, <3>6, <4>1, <4>3, <4>6, NodeFacts DEF Shrinks
        <4> QED BY <4>5, <4>9, <4>10, <2>2, <1>7 DEF InboxOrder
      <3> QED BY <1>0, <3>7, <3>8
    <2> QED BY <2>1, <2>2
  <1>9. OwnedOnce'
    <2> SUFFICES ASSUME NEW m \in Nodes
                 PROVE  /\ Once(service'[m].exec_queue)
                        /\ service'[m].waiting_queue \cap ToSet(service'[m].exec_queue) = {}
                        /\ Ahead(m)' \cap Owned(m)' = {}
      BY DEF OwnedOnce, Once
    <2>1. /\ Once(service[m].exec_queue)
          /\ service[m].waiting_queue \cap ToSet(service[m].exec_queue) = {}
          /\ Ahead(m) \cap Owned(m) = {}
      BY DEF QueueInv, OwnedOnce
    <2>2. Ahead(m)' \subseteq Ahead(m) BY <1>8 DEF Shrinks
    <2>3. CASE m # n BY <1>4, <1>6, <2>1, <2>2, <2>3
    <2>4. CASE m = n
      <3>1. r \notin ToSet(service[m].exec_queue) BY <1>8, <2>1, <2>4 DEF Owned
      <3> QED BY <1>4, <1>6, <1>8, <2>1, <2>2, <2>4, <3>1
    <2> QED BY <2>3, <2>4
  <1> QED BY <1>2, <1>4, <1>5, <1>8, <1>9 DEF QueueInv

\* Nothing is added to a queue.
LEMMA LessToDo ==
    ASSUME QueueInv, QueueTypes', UNCHANGED deployment,
           undecided' \subseteq undecided,
           ~Central => \A p \in Phases :
               RoomsOf(ring'[p]) \subseteq RoomsOf(ring[p]) /\ NoTwice(ring'[p]),
           Central => \A n \in Nodes :
               RoomsOf(inbox'[n]) \subseteq RoomsOf(inbox[n]) /\ NoTwice(inbox'[n]),
           \A n \in Nodes :
               /\ Owned(n)' \subseteq Owned(n)
               /\ Once(service'[n].exec_queue)
               /\ service'[n].waiting_queue \cap ToSet(service'[n].exec_queue) = {},
           \A t \in Transformers : Unpublished(t)' \subseteq Unpublished(t)
    PROVE  QueueInv' /\ Shrinks
  <1>1. Central' <=> Central BY DEF Central
  <1>2. /\ \A q \in Phases : RoomsOf(ring[q])' = RoomsOf(ring'[q]) /\ NoTwice(ring[q])' = NoTwice(ring'[q])
        /\ \A n \in Nodes : RoomsOf(inbox[n])' = RoomsOf(inbox'[n]) /\ NoTwice(inbox[n])' = NoTwice(inbox'[n])
    BY DEF RoomsOf, NoTwice
  <1>3. Phases = {"request", "phase1", "phase2"} BY DEF Phases
  <1>4. Shrinks /\ RingOrder' /\ InboxOrder'
    <2>1. CASE Central
      <3>1. \A m \in Nodes : /\ Ahead(m) = undecided \cup RoomsOf(inbox[m])
                             /\ Ahead(m)' = undecided' \cup RoomsOf(inbox'[m])
        BY <1>1, <1>2, <2>1 DEF Ahead, Central
      <3>2. \A m \in Nodes : undecided \cap RoomsOf(inbox[m]) = {}
        BY <2>1 DEF QueueInv, InboxOrder
      <3>3. Shrinks BY <2>1, <3>1 DEF Shrinks
      <3>4. InboxOrder' BY <1>1, <1>2, <2>1, <3>2 DEF InboxOrder
      <3> QED BY <1>1, <2>1, <3>3, <3>4 DEF RingOrder
    <2>2. CASE ~Central
      <3>1. /\ undecided \cap RoomsOf(ring["request"]) = {}
            /\ Coming \cap RoomsOf(ring["phase1"]) = {}
            /\ \A t \in Transformers : Unpublished(t) \cap (Halfway \cup RoomsOf(ring["phase2"])) = {}
            /\ Halfway \cap RoomsOf(ring["phase2"]) = {}
            /\ \A t, u \in Transformers : Unpublished(t) \cap Unpublished(u) # {} => t = u
        BY <2>2 DEF QueueInv, RingOrder
      <3>2. /\ Coming = undecided \cup RoomsOf(ring["request"])
            /\ Coming' = undecided' \cup RoomsOf(ring'["request"])
            /\ Halfway = Coming \cup RoomsOf(ring["phase1"])
            /\ Halfway' = Coming' \cup RoomsOf(ring'["phase1"])
        BY <1>2, <1>3 DEF Coming, Halfway
      <3>3. /\ RoomsOf(ring'["request"]) \subseteq RoomsOf(ring["request"])
            /\ RoomsOf(ring'["phase1"]) \subseteq RoomsOf(ring["phase1"])
            /\ RoomsOf(ring'["phase2"]) \subseteq RoomsOf(ring["phase2"])
            /\ \A q \in Phases : NoTwice(ring'[q])
        BY <1>3, <2>2
      <3>4. Coming' \subseteq Coming /\ Halfway' \subseteq Halfway BY <3>2, <3>3
      <3>5. /\ Ahead(Encoder) = Coming /\ Ahead(Encoder)' = Coming'
            /\ \A t \in Transformers : Ahead(t) = Halfway /\ Ahead(t)' = Halfway'
            /\ Ahead(Decoder) = Halfway \cup RoomsOf(ring["phase2"]) \cup UNION {Unpublished(t) : t \in Transformers}
            /\ Ahead(Decoder)' = Halfway' \cup RoomsOf(ring'["phase2"]) \cup UNION {Unpublished(t)' : t \in Transformers}
        BY <2>2, <1>1, <1>2, <1>3, NodeFacts DEF Ahead, Central
      <3>6. UNION {Unpublished(t)' : t \in Transformers} \subseteq UNION {Unpublished(t) : t \in Transformers}
        OBVIOUS
      <3>7. Ahead(Decoder)' \subseteq Ahead(Decoder) BY <3>3, <3>4, <3>5, <3>6
      <3>8. Shrinks BY <3>4, <3>5, <3>7, NodeFacts DEF Shrinks
      <3>9. \A t \in Transformers : Unpublished(t)' \cap (Halfway' \cup RoomsOf(ring'["phase2"])) = {}
        BY <3>1, <3>3, <3>4
      <3>10. \A t, u \in Transformers : Unpublished(t)' \cap Unpublished(u)' # {} => t = u
        BY <3>1
      <3>11. /\ undecided' \cap RoomsOf(ring'["request"]) = {}
             /\ Coming' \cap RoomsOf(ring'["phase1"]) = {}
             /\ Halfway' \cap RoomsOf(ring'["phase2"]) = {}
        BY <3>1, <3>3, <3>4
      <3>12. RingOrder' BY <1>2, <1>3, <3>3, <3>9, <3>10, <3>11 DEF RingOrder
      <3> QED BY <1>1, <2>2, <3>8, <3>12 DEF InboxOrder
    <2> QED BY <2>1, <2>2
  <1>5. OwnedOnce'
    <2> SUFFICES ASSUME NEW m \in Nodes
                 PROVE  /\ Once(service'[m].exec_queue)
                        /\ service'[m].waiting_queue \cap ToSet(service'[m].exec_queue) = {}
                        /\ Ahead(m)' \cap Owned(m)' = {}
      BY DEF OwnedOnce, Once
    <2>1. Ahead(m) \cap Owned(m) = {} BY DEF QueueInv, OwnedOnce
    <2>2. Ahead(m)' \subseteq Ahead(m) BY <1>4 DEF Shrinks
    <2> QED BY <2>1, <2>2
  <1> QED BY <1>4, <1>5 DEF QueueInv

\* Nothing changes but one service, which keeps no room it did not have.
LEMMA OneService ==
    ASSUME QueueInv, UNCHANGED <<deployment, ring, inbox, undecided>>,
           NEW n \in Nodes, NEW new \in ServiceType, service' = [service EXCEPT ![n] = new],
           new.pc = "send" => n \in Senders /\ new.exec_queue # <<>>,
           Once(new.exec_queue), new.waiting_queue \cap ToSet(new.exec_queue) = {},
           new.waiting_queue \cup ToSet(new.exec_queue) \subseteq Owned(n),
           n \in Transformers =>
               new.waiting_queue \cup ToSet(IF new.pc = "send" THEN Tail(new.exec_queue) ELSE new.exec_queue)
                   \subseteq Unpublished(n)
    PROVE  QueueInv' /\ Shrinks
  <1>1. /\ service \in [Nodes -> ServiceType] /\ service' \in [Nodes -> ServiceType]
        /\ service'[n] = new /\ \A m \in Nodes \ {n} : service'[m] = service[m]
    BY DEF QueueInv, QueueTypes
  <1>2. QueueTypes'
    BY <1>1 DEF QueueInv, QueueTypes, Runs
  <1>3. \A m \in Nodes :
               /\ Owned(m)' \subseteq Owned(m)
               /\ Once(service'[m].exec_queue)
               /\ service'[m].waiting_queue \cap ToSet(service'[m].exec_queue) = {}
    <2> SUFFICES ASSUME NEW m \in Nodes
                 PROVE  /\ Owned(m)' \subseteq Owned(m)
                        /\ Once(service'[m].exec_queue)
                        /\ service'[m].waiting_queue \cap ToSet(service'[m].exec_queue) = {}
      OBVIOUS
    <2>1. CASE m = n BY <1>1, <2>1 DEF Owned
    <2>2. CASE m # n
      <3>1. /\ Once(service[m].exec_queue)
            /\ service[m].waiting_queue \cap ToSet(service[m].exec_queue) = {}
        BY DEF QueueInv, OwnedOnce
      <3> QED BY <1>1, <2>2, <3>1 DEF Owned
    <2> QED BY <2>1, <2>2
  <1>4. \A t \in Transformers : Unpublished(t)' \subseteq Unpublished(t)
    <2> SUFFICES ASSUME NEW t \in Transformers PROVE Unpublished(t)' \subseteq Unpublished(t)
      OBVIOUS
    <2>1. CASE t = n BY <1>1, <2>1 DEF Unpublished
    <2>2. CASE t # n BY <1>1, <2>2, NodeFacts DEF Unpublished
    <2> QED BY <2>1, <2>2
  <1>5. ~Central => \A p \in Phases :
               RoomsOf(ring'[p]) \subseteq RoomsOf(ring[p]) /\ NoTwice(ring'[p])
    BY DEF QueueInv, RingOrder, RoomsOf, NoTwice
  <1>6. Central => \A m \in Nodes :
               RoomsOf(inbox'[m]) \subseteq RoomsOf(inbox[m]) /\ NoTwice(inbox'[m])
    BY DEF QueueInv, InboxOrder, RoomsOf, NoTwice
  <1> QED BY <1>2, <1>3, <1>4, <1>5, <1>6, LessToDo

LEMMA ServiceFacts ==
    ASSUME QueueInv, NEW n \in Nodes
    PROVE  /\ service[n] \in ServiceType /\ service \in [Nodes -> ServiceType]
           /\ service[n].waiting_queue \subseteq Rooms /\ service[n].exec_queue \in Seq(Rooms)
           /\ service[n].pc \in {"idle", "send"}
           /\ Once(service[n].exec_queue)
           /\ service[n].waiting_queue \cap ToSet(service[n].exec_queue) = {}
           /\ Ahead(n) \cap Owned(n) = {}
           /\ service[n].pc = "send" => n \in Senders /\ service[n].exec_queue # <<>>
  BY DEF QueueInv, QueueTypes, OwnedOnce, ServiceType, Runs

\* A ready room is moved on to be run.
LEMMA MadeReady ==
    ASSUME QueueInv, UNCHANGED <<deployment, ring, inbox, undecided>>,
           NEW n \in Nodes, IsIdle(n), NEW r \in service[n].waiting_queue,
           service' = [service EXCEPT ![n].waiting_queue = @ \ {r},
                                      ![n].exec_queue = Append(@, r)]
    PROVE  /\ QueueInv' /\ Shrinks
           /\ service'[n].waiting_queue = service[n].waiting_queue \ {r}
           /\ ToSet(service'[n].exec_queue) = ToSet(service[n].exec_queue) \cup {r}
           /\ \A m \in Nodes \ {n} : service'[m] = service[m]
  <1> DEFINE q == service[n].exec_queue
             new == [service[n] EXCEPT !.waiting_queue = @ \ {r}, !.exec_queue = Append(@, r)]
  <1>1. /\ service \in [Nodes -> ServiceType] /\ service[n] \in ServiceType /\ r \in Rooms
        /\ q \in Seq(Rooms) /\ service[n].pc = "idle" /\ Once(q)
        /\ service[n].waiting_queue \cap ToSet(q) = {}
    BY ServiceFacts DEF IsIdle
  <1>2. Append(q, r) \in Seq(Rooms) /\ ToSet(Append(q, r)) = ToSet(q) \cup {r} /\ Once(Append(q, r))
    BY <1>1, SetOfAppend, OnceAppend, AppendProperties
  <1>3. /\ new \in ServiceType /\ new.pc = "idle" /\ new.exec_queue = Append(q, r)
        /\ new.waiting_queue = service[n].waiting_queue \ {r}
    BY <1>1, <1>2 DEF ServiceType
  <1>4. service' = [service EXCEPT ![n] = new]
    BY <1>1 DEF ServiceType
  <1>5. /\ service'[n] = new /\ \A m \in Nodes \ {n} : service'[m] = service[m]
    BY <1>1, <1>4
  <1>6. new.waiting_queue \cap ToSet(new.exec_queue) = {} BY <1>1, <1>2, <1>3
  <1>7. new.waiting_queue \cup ToSet(new.exec_queue) \subseteq Owned(n) BY <1>2, <1>3 DEF Owned
  <1>8. new.waiting_queue \cup ToSet(new.exec_queue) \subseteq Unpublished(n)
    BY <1>1, <1>2, <1>3 DEF Unpublished
  <1>9. Once(new.exec_queue) /\ ToSet(new.exec_queue) = ToSet(q) \cup {r} BY <1>2, <1>3
  <1> HIDE DEF new
  <1>10. QueueInv' /\ Shrinks BY <1>3, <1>4, <1>6, <1>7, <1>8, <1>9, OneService
  <1> QED BY <1>3, <1>5, <1>9, <1>10

\* A room that is awaited is given up.
LEMMA NotAwaited ==
    ASSUME QueueInv, UNCHANGED <<deployment, ring, inbox, undecided>>,
           NEW n \in Nodes, IsIdle(n), NEW r \in service[n].waiting_queue,
           service' = [service EXCEPT ![n].waiting_queue = @ \ {r}]
    PROVE  /\ QueueInv' /\ Shrinks
           /\ service'[n].waiting_queue = service[n].waiting_queue \ {r}
           /\ service'[n].exec_queue = service[n].exec_queue
           /\ \A m \in Nodes \ {n} : service'[m] = service[m]
  <1> DEFINE q == service[n].exec_queue
             new == [service[n] EXCEPT !.waiting_queue = @ \ {r}]
  <1>1. /\ service \in [Nodes -> ServiceType] /\ service[n] \in ServiceType /\ r \in Rooms
        /\ q \in Seq(Rooms) /\ service[n].pc = "idle" /\ Once(q)
        /\ service[n].waiting_queue \cap ToSet(q) = {}
    BY ServiceFacts DEF IsIdle
  <1>3. /\ new \in ServiceType /\ new.pc = "idle" /\ new.exec_queue = q
        /\ new.waiting_queue = service[n].waiting_queue \ {r}
    BY <1>1 DEF ServiceType
  <1>4. service' = [service EXCEPT ![n] = new]
    BY <1>1 DEF ServiceType
  <1>5. /\ service'[n] = new /\ \A m \in Nodes \ {n} : service'[m] = service[m]
    BY <1>1, <1>4
  <1>6. new.waiting_queue \cap ToSet(new.exec_queue) = {} BY <1>1, <1>3
  <1>7. new.waiting_queue \cup ToSet(new.exec_queue) \subseteq Owned(n) BY <1>3 DEF Owned
  <1>8. new.waiting_queue \cup ToSet(new.exec_queue) \subseteq Unpublished(n)
    BY <1>1, <1>3 DEF Unpublished
  <1> HIDE DEF new
  <1> QED BY <1>1, <1>3, <1>4, <1>5, <1>6, <1>7, <1>8, OneService

\* The room that was run leaves its queue.
LEMMA FinishedOne ==
    ASSUME QueueInv, UNCHANGED <<deployment, ring, inbox, undecided>>,
           NEW n \in Nodes, Runs(n), Finished(n)
    PROVE  /\ QueueInv' /\ Shrinks
           /\ Current(n) \in Rooms /\ Current(n) \in ToSet(service[n].exec_queue)
           /\ Current(n) \notin service[n].waiting_queue
           /\ service'[n].waiting_queue = service[n].waiting_queue
           /\ ToSet(service'[n].exec_queue) = ToSet(service[n].exec_queue) \ {Current(n)}
           /\ \A m \in Nodes \ {n} : service'[m] = service[m]
  <1> DEFINE q == service[n].exec_queue
             new == [service[n] EXCEPT !.pc = "idle", !.exec_queue = Tail(@)]
  <1>1. /\ service \in [Nodes -> ServiceType] /\ service[n] \in ServiceType
        /\ q \in Seq(Rooms) /\ Once(q) /\ service[n].pc \in {"idle", "send"}
        /\ service[n].waiting_queue \cap ToSet(q) = {} /\ q # <<>>
    BY ServiceFacts DEF Runs
  <1>2. /\ Head(q) \in Rooms /\ Tail(q) \in Seq(Rooms) /\ ToSet(q) = {Head(q)} \cup ToSet(Tail(q))
        /\ Once(Tail(q)) /\ Head(q) \notin ToSet(Tail(q))
    BY <1>1, SetOfTail, OnceTail
  <1>3. /\ new \in ServiceType /\ new.pc = "idle" /\ new.exec_queue = Tail(q)
        /\ new.waiting_queue = service[n].waiting_queue
    BY <1>1, <1>2 DEF ServiceType
  <1>4. service' = [service EXCEPT ![n] = new]
    BY <1>1 DEF ServiceType, Finished
  <1>5. /\ service'[n] = new /\ \A m \in Nodes \ {n} : service'[m] = service[m]
    BY <1>1, <1>4
  <1>6. new.waiting_queue \cap ToSet(new.exec_queue) = {} BY <1>1, <1>2, <1>3
  <1>7. new.waiting_queue \cup ToSet(new.exec_queue) \subseteq Owned(n) BY <1>2, <1>3 DEF Owned
  <1>8. new.waiting_queue \cup ToSet(new.exec_queue) \subseteq Unpublished(n)
    BY <1>1, <1>2, <1>3 DEF Unpublished
  <1>9. Current(n) = Head(q) BY DEF Current
  <1> HIDE DEF new
  <1> QED BY <1>1, <1>2, <1>3, <1>4, <1>5, <1>6, <1>7, <1>8, <1>9, OneService

\* A service that is killed has nothing any more.
LEMMA KilledOne ==
    ASSUME QueueInv, UNCHANGED <<deployment, ring, inbox, undecided>>,
           NEW n \in Nodes, service' = [service EXCEPT ![n] = NewService]
    PROVE  /\ QueueInv' /\ Shrinks
           /\ service'[n] = NewService
           /\ \A m \in Nodes \ {n} : service'[m] = service[m]
  <1>1. service \in [Nodes -> ServiceType] BY ServiceFacts
  <1>2. /\ NewService \in ServiceType /\ NewService.pc = "idle"
        /\ NewService.waiting_queue = {} /\ NewService.exec_queue = <<>>
    BY DEF NewService, ServiceType
  <1>3. ToSet(NewService.exec_queue) = {} /\ Once(NewService.exec_queue) BY <1>2, SetOfEmpty DEF Once
  <1>4. /\ service'[n] = NewService /\ \A m \in Nodes \ {n} : service'[m] = service[m] BY <1>1
  <1> QED BY <1>2, <1>3, <1>4, OneService

\* A request is taken and lost.
LEMMA TakenAndLost ==
    ASSUME QueueInv, NEW n \in Nodes, HasRequest(n), Take(n),
           UNCHANGED <<deployment, undecided, service>>
    PROVE  /\ QueueInv' /\ Shrinks
           /\ Offered(n) \in RequestType
           /\ Offered(n).room \in Rooms /\ Offered(n).room \in Ahead(n)
           /\ Offered(n).room \notin Ahead(n)'
  <1> DEFINE p == StageRing(n)
  <1>1. /\ ring' \in [Phases -> Seq(RequestType)] /\ inbox' \in [Nodes -> Seq(RequestType)]
        /\ Offered(n) \in RequestType /\ Offered(n).room \in Rooms
        /\ ~Central =>
                /\ inbox' = inbox
                /\ \A q \in Phases \ {p} : ring'[q] = ring[q]
                /\ RoomsOf(ring[p]) = {Offered(n).room} \cup RoomsOf(ring'[p])
                /\ Offered(n).room \notin RoomsOf(ring'[p])
                /\ NoTwice(ring'[p])
        /\ Central =>
                /\ \A m \in Nodes \ {n} : inbox'[m] = inbox[m]
                /\ RoomsOf(inbox[n]) = {Offered(n).room} \cup RoomsOf(inbox'[n])
                /\ Offered(n).room \notin RoomsOf(inbox'[n])
                /\ NoTwice(inbox'[n])
    BY TakeEffect DEF RequestType
  <1>2. QueueTypes' BY <1>1 DEF QueueInv, QueueTypes, Runs
  <1>3. p \in Phases /\ (n = Encoder => p = "request") /\ (n \in Transformers => p = "phase1")
        /\ (n = Decoder => p = "phase2")
    BY StageFacts
  <1>4. ~Central => \A q \in Phases : RoomsOf(ring'[q]) \subseteq RoomsOf(ring[q]) /\ NoTwice(ring'[q])
    BY <1>1 DEF QueueInv, RingOrder
  <1>5. Central => \A m \in Nodes : RoomsOf(inbox'[m]) \subseteq RoomsOf(inbox[m]) /\ NoTwice(inbox'[m])
    BY <1>1 DEF QueueInv, InboxOrder
  <1>6. \A m \in Nodes : /\ Owned(m)' \subseteq Owned(m)
                         /\ Once(service'[m].exec_queue)
                         /\ service'[m].waiting_queue \cap ToSet(service'[m].exec_queue) = {}
    BY DEF QueueInv, OwnedOnce, Owned
  <1>7. \A t \in Transformers : Unpublished(t)' \subseteq Unpublished(t) BY DEF Unpublished
  <1>8. QueueInv' /\ Shrinks BY <1>2, <1>4, <1>5, <1>6, <1>7, LessToDo
  <1>9. Offered(n).room \in Ahead(n)
    BY <1>1, <1>3, NodeFacts DEF Ahead, Central, Coming, Halfway
  <1>10. CASE Central
    <2>1. Offered(n).room \notin undecided BY <1>1, <1>10 DEF QueueInv, InboxOrder
    <2>2. Offered(n).room \notin Ahead(n)' BY <1>1, <1>10, <2>1 DEF Ahead, Central
    <2> QED BY <1>1, <1>8, <1>9, <2>2
  <1>11. CASE ~Central
    <2> DEFINE r == Offered(n).room
    <2>1. /\ undecided \cap RoomsOf(ring["request"]) = {}
          /\ Coming \cap RoomsOf(ring["phase1"]) = {}
          /\ Halfway \cap RoomsOf(ring["phase2"]) = {}
          /\ \A t \in Transformers : Unpublished(t) \cap RoomsOf(ring["phase2"]) = {}
      BY <1>11 DEF QueueInv, RingOrder
    <2>2. Phases = {"request", "phase1", "phase2"} /\ r \in RoomsOf(ring[p]) /\ r \notin RoomsOf(ring'[p])
          /\ ~Central' /\ deployment'.mode # "central"
      BY <1>1, <1>11 DEF Phases, Central
    <2>3. CASE n = Encoder
      <3>1. Ahead(n)' = undecided \cup RoomsOf(ring'[p])
        BY <1>3, <2>2, <2>3 DEF Ahead, Coming
      <3> QED BY <1>1, <1>3, <1>8, <1>9, <2>1, <2>2, <2>3, <3>1
    <2>4. CASE n \in Transformers
      <3>1. n # Encoder /\ ring'["request"] = ring["request"] BY <1>1, <1>3, <1>11, <2>2, <2>4, NodeFacts
      <3>2. Ahead(n)' = undecided \cup RoomsOf(ring["request"]) \cup RoomsOf(ring'[p])
        BY <1>3, <2>2, <2>4, <3>1 DEF Ahead, Coming, Halfway
      <3> QED BY <1>1, <1>3, <1>8, <1>9, <2>1, <2>2, <2>4, <3>2 DEF Coming
    <2>5. CASE n = Decoder
      <3>1. n # Encoder /\ n \notin Transformers
            /\ ring'["request"] = ring["request"] /\ ring'["phase1"] = ring["phase1"]
        BY <1>1, <1>3, <1>11, <2>2, <2>5, NodeFacts
      <3>2. \A t \in Transformers : Unpublished(t)' = Unpublished(t) BY DEF Unpublished
      <3>3. Halfway' = Halfway BY <3>1 DEF Halfway, Coming
      <3>4. Ahead(n)' = Halfway \cup RoomsOf(ring'[p]) \cup UNION {Unpublished(t) : t \in Transformers}
        BY <1>3, <2>2, <2>5, <3>1, <3>2, <3>3 DEF Ahead
      <3> QED BY <1>1, <1>3, <1>8, <1>9, <2>1, <2>2, <2>5, <3>4
    <2> QED BY <2>3, <2>4, <2>5, NodeFacts
  <1> QED BY <1>10, <1>11

\* The encoder takes a request and publishes its room.
LEMMA TakenAndPublished ==
    ASSUME QueueInv, IsIdle(Encoder), HasRequest(Encoder),
           Move(Encoder, "phase1", <<Request(Offered(Encoder).room, Encoder)>>),
           service' = [service EXCEPT ![Encoder].pc = "send",
                                      ![Encoder].exec_queue = <<Offered(Encoder).room>>],
           UNCHANGED <<deployment, undecided>>
    PROVE  /\ QueueInv' /\ Shrinks
           /\ Offered(Encoder).room \in Rooms
           /\ Offered(Encoder).room \in Ahead(Encoder)
           /\ Offered(Encoder).room \notin Ahead(Encoder)'
           /\ service'[Encoder].waiting_queue = service[Encoder].waiting_queue
           /\ ToSet(service'[Encoder].exec_queue) = {Offered(Encoder).room}
           /\ \A m \in Nodes \ {Encoder} : service'[m] = service[m]
  <1> DEFINE r == Offered(Encoder).room
             e == Request(r, Encoder)
             q == Queue(Encoder)
  <1>0. Encoder \in Nodes /\ Encoder \in Senders /\ Encoder \notin Transformers /\ Decoder # Encoder
        /\ StageRing(Encoder) = "request" /\ Phases = {"request", "phase1", "phase2"}
    BY NodeFacts, StageFacts DEF Phases
  <1>1. /\ ring \in [Phases -> Seq(RequestType)] /\ inbox \in [Nodes -> Seq(RequestType)]
        /\ undecided \subseteq Rooms
    BY DEF QueueInv, QueueTypes
  <1>2. /\ q \in Seq(RequestType) /\ q # <<>> /\ Offered(Encoder) = Head(q)
        /\ (Central => q = inbox[Encoder]) /\ (~Central => q = ring["request"])
    BY <1>0, <1>1 DEF Queue, HasRequest, Offered, Central
  <1>3. NoTwice(q) BY <1>0, <1>2 DEF QueueInv, RingOrder, InboxOrder
  <1>4. /\ Head(q) \in RequestType /\ Tail(q) \in Seq(RequestType)
        /\ RoomsOf(q) = {r} \cup RoomsOf(Tail(q))
        /\ NoTwice(Tail(q)) /\ r \notin RoomsOf(Tail(q))
    BY <1>2, <1>3, RoomsOfTail
  <1>5. r \in Rooms /\ e \in RequestType /\ e.room = r
    BY <1>0, <1>2, <1>4 DEF RequestType, Request
  <1>6. ASSUME NEW p \in Seq(RequestType) PROVE p \o <<e>> = Append(p, e)
    BY <1>5, <1>6, AppendIsConcat
  <1>7. ring["phase1"] \o <<e>> = Append(ring["phase1"], e) /\ Append(ring["phase1"], e) \in Seq(RequestType)
    BY <1>0, <1>1, <1>5, <1>6, AppendProperties
  <1>8. /\ ring' \in [Phases -> Seq(RequestType)] /\ inbox' \in [Nodes -> Seq(RequestType)]
        /\ ring'["phase1"] = Append(ring["phase1"], e)
        /\ ring'["phase2"] = ring["phase2"]
        /\ Central => inbox'[Encoder] = Tail(q) /\ \A m \in Nodes \ {Encoder} : inbox'[m] = inbox[m]
        /\ ~Central => ring'["request"] = Tail(q) /\ inbox' = inbox
    <2>1. CASE Central
      <3>1. /\ inbox' = [inbox EXCEPT ![Encoder] = Tail(@)]
            /\ ring' = [ring EXCEPT !["phase1"] = @ \o <<e>>]
        BY <2>1 DEF Move, Central
      <3>2. ring'["phase1"] = Append(ring["phase1"], e) /\ ring'["phase2"] = ring["phase2"]
            /\ ring' \in [Phases -> Seq(RequestType)]
        BY <1>0, <1>1, <1>7, <3>1
      <3>3. /\ inbox'[Encoder] = Tail(q) /\ \A m \in Nodes \ {Encoder} : inbox'[m] = inbox[m]
            /\ inbox' \in [Nodes -> Seq(RequestType)]
        BY <1>0, <1>1, <1>2, <1>4, <2>1, <3>1
      <3> QED BY <2>1, <3>2, <3>3
    <2>2. CASE ~Central
      <3>1. /\ inbox' = inbox
            /\ ring' = [ring EXCEPT !["request"] = Tail(@), !["phase1"] = @ \o <<e>>]
        BY <1>0, <2>2 DEF Move, Central
      <3>2. ring'["phase1"] = Append(ring["phase1"], e) /\ ring'["phase2"] = ring["phase2"]
            /\ ring'["request"] = Tail(q)
            /\ ring' \in [Phases -> Seq(RequestType)]
        BY <1>0, <1>1, <1>2, <1>4, <1>7, <2>2, <3>1
      <3> QED BY <1>1, <2>2, <3>1, <3>2
    <2> QED BY <2>1, <2>2
  <1>9. /\ service \in [Nodes -> ServiceType] /\ service[Encoder] \in ServiceType
        /\ service[Encoder].waiting_queue \subseteq Rooms
        /\ service[Encoder].waiting_queue \cap ToSet(service[Encoder].exec_queue) = {}
        /\ Ahead(Encoder) \cap Owned(Encoder) = {}
    BY <1>0, ServiceFacts
  <1>10. <<r>> \in Seq(Rooms) /\ ToSet(<<r>>) = {r} /\ Once(<<r>>) /\ <<r>> # <<>>
    BY <1>5 DEF ToSet, Once
  <1>11. /\ service' \in [Nodes -> ServiceType]
         /\ service'[Encoder].pc = "send" /\ service'[Encoder].exec_queue = <<r>>
         /\ service'[Encoder].waiting_queue = service[Encoder].waiting_queue
         /\ \A m \in Nodes \ {Encoder} : service'[m] = service[m]
    BY <1>0, <1>9, <1>10 DEF ServiceType
  <1>12. QueueTypes'
    BY <1>0, <1>1, <1>8, <1>10, <1>11 DEF QueueInv, QueueTypes, Runs
  <1>13. Central' <=> Central BY DEF Central
  <1>14. \A t \in Transformers : Unpublished(t)' = Unpublished(t) BY <1>0, <1>11, NodeFacts DEF Unpublished
  <1>15. r \in Ahead(Encoder) /\ r \notin Ahead(Encoder)' /\ Shrinks /\ RingOrder' /\ InboxOrder'
    <2>1. CASE Central
      <3>1. \A m \in Nodes : /\ Ahead(m) = undecided \cup RoomsOf(inbox[m])
                             /\ Ahead(m)' = undecided \cup RoomsOf(inbox'[m])
        BY <2>1, <1>13 DEF Ahead, Central, RoomsOf
      <3>2. \A m \in Nodes : NoTwice(inbox[m]) /\ undecided \cap RoomsOf(inbox[m]) = {}
        BY <2>1 DEF QueueInv, InboxOrder
      <3>3. \A m \in Nodes : RoomsOf(inbox'[m]) \subseteq RoomsOf(inbox[m]) /\ NoTwice(inbox'[m])
        BY <1>2, <1>4, <1>8, <2>1, <3>2
      <3>4. Shrinks BY <3>1, <3>3 DEF Shrinks
      <3>5. r \in Ahead(Encoder) /\ r \notin Ahead(Encoder)' BY <1>0, <1>2, <1>4, <1>8, <2>1, <3>1, <3>2
      <3>6. InboxOrder' BY <3>2, <3>3, <1>13, <2>1 DEF InboxOrder, RoomsOf, NoTwice
      <3> QED BY <2>1, <1>13, <3>4, <3>5, <3>6 DEF RingOrder
    <2>2. CASE ~Central
      <3>1. /\ \A p \in Phases : NoTwice(ring[p])
            /\ undecided \cap RoomsOf(ring["request"]) = {}
            /\ Coming \cap RoomsOf(ring["phase1"]) = {}
            /\ \A t \in Transformers : Unpublished(t) \cap (Halfway \cup RoomsOf(ring["phase2"])) = {}
            /\ Halfway \cap RoomsOf(ring["phase2"]) = {}
            /\ \A t, u \in Transformers : Unpublished(t) \cap Unpublished(u) # {} => t = u
        BY <2>2 DEF QueueInv, RingOrder
      <3>2. \A p \in Phases : RoomsOf(ring[p])' = RoomsOf(ring'[p]) /\ NoTwice(ring[p])' = NoTwice(ring'[p])
        BY DEF RoomsOf, NoTwice
      <3>3. /\ Coming = undecided \cup RoomsOf(ring["request"])
            /\ Coming' = undecided \cup RoomsOf(ring'["request"])
            /\ Halfway = Coming \cup RoomsOf(ring["phase1"])
            /\ Halfway' = Coming' \cup RoomsOf(ring'["phase1"])
        BY <1>0, <3>2 DEF Coming, Halfway
      <3>4. /\ RoomsOf(ring["request"]) = {r} \cup RoomsOf(ring'["request"])
            /\ r \notin RoomsOf(ring'["request"]) /\ NoTwice(ring'["request"])
        BY <1>2, <1>4, <1>8, <2>2
      <3>5. r \in Coming /\ r \notin Coming' /\ r \notin RoomsOf(ring["phase1"])
        BY <3>1, <3>3, <3>4
      <3>6. RoomsOf(ring'["phase1"]) = RoomsOf(ring["phase1"]) \cup {r} /\ NoTwice(ring'["phase1"])
        BY <1>0, <1>1, <1>5, <1>8, <3>1, <3>5, RoomsOfAppend
      <3>7. Coming' \subseteq Coming /\ Halfway' = Halfway BY <3>3, <3>4, <3>6
      <3>8. RingOrder'
        <4>1. \A p \in Phases : NoTwice(ring'[p]) BY <1>0, <1>8, <3>1, <3>4, <3>6
        <4>2. /\ undecided \cap RoomsOf(ring'["request"]) = {}
              /\ Coming' \cap RoomsOf(ring'["phase1"]) = {}
              /\ Halfway' \cap RoomsOf(ring'["phase2"]) = {}
          BY <1>8, <3>1, <3>4, <3>5, <3>6, <3>7
        <4>3. /\ \A t \in Transformers : Unpublished(t)' \cap (Halfway' \cup RoomsOf(ring'["phase2"])) = {}
              /\ \A t, u \in Transformers : Unpublished(t)' \cap Unpublished(u)' # {} => t = u
          BY <1>8, <1>14, <3>1, <3>7
        <4> QED BY <1>0, <4>1, <4>2, <4>3, <3>2 DEF RingOrder
      <3>9. /\ Ahead(Encoder) = Coming /\ Ahead(Encoder)' = Coming'
            /\ \A t \in Transformers : Ahead(t) = Halfway /\ Ahead(t)' = Halfway'
            /\ Ahead(Decoder) = Halfway \cup RoomsOf(ring["phase2"]) \cup UNION {Unpublished(t) : t \in Transformers}
            /\ Ahead(Decoder)' = Halfway' \cup RoomsOf(ring'["phase2"]) \cup UNION {Unpublished(t)' : t \in Transformers}
        BY <2>2, <1>0, <1>13, <3>2, NodeFacts DEF Ahead, Central
      <3>10. UNION {Unpublished(t)' : t \in Transformers} = UNION {Unpublished(t) : t \in Transformers}
        BY <1>14
      <3>11. Shrinks BY <1>8, <3>7, <3>9, <3>10, NodeFacts DEF Shrinks
      <3> QED BY <1>13, <2>2, <3>5, <3>8, <3>9, <3>11 DEF InboxOrder
    <2> QED BY <2>1, <2>2
  <1>16. OwnedOnce'
    <2> SUFFICES ASSUME NEW m \in Nodes
                 PROVE  /\ Once(service'[m].exec_queue)
                        /\ service'[m].waiting_queue \cap ToSet(service'[m].exec_queue) = {}
                        /\ Ahead(m)' \cap Owned(m)' = {}
      BY DEF OwnedOnce, Once
    <2>1. /\ Once(service[m].exec_queue)
          /\ service[m].waiting_queue \cap ToSet(service[m].exec_queue) = {}
          /\ Ahead(m) \cap Owned(m) = {} /\ Ahead(m)' \subseteq Ahead(m)
      BY <1>15, ServiceFacts DEF Shrinks
    <2>2. CASE m # Encoder
      <3>1. Owned(m)' = Owned(m) BY <1>11, <2>2 DEF Owned
      <3> QED BY <1>11, <2>1, <2>2, <3>1
    <2>3. CASE m = Encoder
      <3>1. Owned(m)' = service[Encoder].waiting_queue \cup {r} BY <1>10, <1>11, <2>3 DEF Owned
      <3>2. r \notin service[Encoder].waiting_queue BY <1>9, <1>15 DEF Owned
      <3>3. service'[m].waiting_queue \cap ToSet(service'[m].exec_queue) = {}
        BY <1>10, <1>11, <2>3, <3>2
      <3>4. Once(service'[m].exec_queue) BY <1>10, <1>11, <2>3
      <3>5. service[Encoder].waiting_queue \subseteq Owned(m) BY <2>3 DEF Owned
      <3> QED BY <1>15, <2>1, <2>3, <3>1, <3>3, <3>4, <3>5
    <2> QED BY <2>2, <2>3
  <1> QED BY <1>5, <1>10, <1>11, <1>12, <1>15, <1>16 DEF QueueInv

\* A transformer publishes the room it runs.
LEMMA PublishedOne ==
    ASSUME QueueInv, NEW t \in Transformers, IsIdle(t), Runs(t),
           Produce("phase2", Request(Current(t), t)), At(t, "send"),
           UNCHANGED <<deployment, undecided, inbox>>
    PROVE  /\ QueueInv' /\ Shrinks
           /\ \A m \in Nodes : /\ service'[m].waiting_queue = service[m].waiting_queue
                               /\ service'[m].exec_queue = service[m].exec_queue
  <1> DEFINE q == service[t].exec_queue
             r == Current(t)
             e == Request(r, t)
  <1>0. t \in Nodes /\ t \in Senders /\ t # Encoder /\ t # Decoder
        /\ Phases = {"request", "phase1", "phase2"}
    BY NodeFacts DEF Phases
  <1>1. /\ ring \in [Phases -> Seq(RequestType)]
        /\ service \in [Nodes -> ServiceType] /\ service[t] \in ServiceType
        /\ q \in Seq(Rooms) /\ Once(q) /\ q # <<>> /\ service[t].pc = "idle"
        /\ service[t].waiting_queue \cap ToSet(q) = {}
    BY <1>0, ServiceFacts DEF QueueInv, QueueTypes, IsIdle, Runs
  <1>2. /\ r = Head(q) /\ r \in Rooms /\ Tail(q) \in Seq(Rooms) /\ ToSet(q) = {r} \cup ToSet(Tail(q))
        /\ Once(Tail(q)) /\ r \notin ToSet(Tail(q))
    BY <1>1, SetOfTail, OnceTail DEF Current
  <1>3. e \in RequestType /\ e.room = r
    BY <1>0, <1>2 DEF RequestType, Request
  <1>4. ring' = [ring EXCEPT !["phase2"] = Append(@, e)] BY DEF Produce
  <1>5. /\ ring' \in [Phases -> Seq(RequestType)]
        /\ ring'["phase2"] = Append(ring["phase2"], e)
        /\ ring'["request"] = ring["request"] /\ ring'["phase1"] = ring["phase1"]
    <2>1. Append(ring["phase2"], e) \in Seq(RequestType) BY <1>0, <1>1, <1>3, AppendProperties
    <2> QED BY <1>0, <1>1, <1>4, <2>1
  <1>6. /\ service' \in [Nodes -> ServiceType] /\ service'[t].pc = "send"
        /\ service'[t].exec_queue = q /\ service'[t].waiting_queue = service[t].waiting_queue
        /\ \A m \in Nodes \ {t} : service'[m] = service[m]
    BY <1>0, <1>1 DEF At, ServiceType
  <1>7. QueueTypes'
    BY <1>0, <1>1, <1>5, <1>6 DEF QueueInv, QueueTypes, Runs
  <1>8. \A m \in Nodes : /\ service'[m].waiting_queue = service[m].waiting_queue
                         /\ service'[m].exec_queue = service[m].exec_queue
                         /\ Owned(m)' = Owned(m)
    BY <1>6 DEF Owned
  <1>9. Central' <=> Central BY DEF Central
  <1>10. /\ Unpublished(t) = service[t].waiting_queue \cup ToSet(q)
         /\ Unpublished(t)' = service[t].waiting_queue \cup ToSet(Tail(q))
         /\ \A u \in Transformers \ {t} : Unpublished(u)' = Unpublished(u)
    BY <1>1, <1>6, NodeFacts DEF Unpublished
  <1>11. Unpublished(t) = Unpublished(t)' \cup {r} /\ r \notin Unpublished(t)'
    BY <1>1, <1>2, <1>10
  <1>12. Shrinks /\ RingOrder' /\ InboxOrder'
    <2>1. CASE Central
      <3>1. \A m \in Nodes : Ahead(m)' = Ahead(m) BY <1>9, <2>1 DEF Ahead, Central, RoomsOf
      <3>2. InboxOrder' BY <1>9, <2>1 DEF QueueInv, InboxOrder, RoomsOf, NoTwice
      <3> QED BY <1>9, <2>1, <3>1, <3>2 DEF Shrinks, RingOrder
    <2>2. CASE ~Central
      <3>1. /\ \A p \in Phases : NoTwice(ring[p])
            /\ undecided \cap RoomsOf(ring["request"]) = {}
            /\ Coming \cap RoomsOf(ring["phase1"]) = {}
            /\ \A u \in Transformers : Unpublished(u) \cap (Halfway \cup RoomsOf(ring["phase2"])) = {}
            /\ Halfway \cap RoomsOf(ring["phase2"]) = {}
            /\ \A u, v \in Transformers : Unpublished(u) \cap Unpublished(v) # {} => u = v
        BY <2>2 DEF QueueInv, RingOrder
      <3>2. \A p \in Phases : RoomsOf(ring[p])' = RoomsOf(ring'[p]) /\ NoTwice(ring[p])' = NoTwice(ring'[p])
        BY DEF RoomsOf, NoTwice
      <3>3. Coming' = Coming /\ Halfway' = Halfway BY <1>5, <3>2, <1>0 DEF Coming, Halfway
      <3>4. r \notin RoomsOf(ring["phase2"]) /\ r \notin Halfway BY <1>11, <3>1
      <3>5. RoomsOf(ring'["phase2"]) = RoomsOf(ring["phase2"]) \cup {r} /\ NoTwice(ring'["phase2"])
        BY <1>0, <1>1, <1>3, <1>5, <3>1, <3>4, RoomsOfAppend
      <3>6. \A u \in Transformers : Unpublished(u)' \subseteq Unpublished(u) /\ r \notin Unpublished(u)'
        BY <1>10, <1>11, <3>1
      <3>7. RingOrder'
        <4>1. \A p \in Phases : NoTwice(ring'[p]) BY <1>0, <1>5, <3>1, <3>5
        <4>2. /\ undecided \cap RoomsOf(ring'["request"]) = {}
              /\ Coming' \cap RoomsOf(ring'["phase1"]) = {}
              /\ Halfway' \cap RoomsOf(ring'["phase2"]) = {}
          BY <1>5, <3>1, <3>3, <3>4, <3>5
        <4>3. \A u \in Transformers : Unpublished(u)' \cap (Halfway' \cup RoomsOf(ring'["phase2"])) = {}
          BY <3>1, <3>3, <3>5, <3>6
        <4>4. \A u, v \in Transformers : Unpublished(u)' \cap Unpublished(v)' # {} => u = v
          BY <3>1, <3>6
        <4> QED BY <1>0, <4>1, <4>2, <4>3, <4>4, <3>2 DEF RingOrder
      <3>8. /\ Ahead(Encoder) = Coming /\ Ahead(Encoder)' = Coming'
            /\ \A u \in Transformers : Ahead(u) = Halfway /\ Ahead(u)' = Halfway'
            /\ Ahead(Decoder) = Halfway \cup RoomsOf(ring["phase2"]) \cup UNION {Unpublished(u) : u \in Transformers}
            /\ Ahead(Decoder)' = Halfway' \cup RoomsOf(ring'["phase2"]) \cup UNION {Unpublished(u)' : u \in Transformers}
        BY <2>2, <1>0, <1>9, <3>2, NodeFacts DEF Ahead, Central
      <3>9. UNION {Unpublished(u)' : u \in Transformers} \subseteq UNION {Unpublished(u) : u \in Transformers}
        BY <3>6
      <3>10. r \in UNION {Unpublished(u) : u \in Transformers} BY <1>11
      <3>11. Ahead(Decoder)' \subseteq Ahead(Decoder) BY <3>3, <3>5, <3>8, <3>9, <3>10
      <3>12. Shrinks BY <3>3, <3>8, <3>11, NodeFacts DEF Shrinks
      <3> QED BY <1>9, <2>2, <3>7, <3>12 DEF InboxOrder
    <2> QED BY <2>1, <2>2
  <1>13. OwnedOnce'
    BY <1>8, <1>12 DEF QueueInv, OwnedOnce, Once, Shrinks
  <1> QED BY <1>7, <1>8, <1>12, <1>13 DEF QueueInv

\* The controller sends a request.
LEMMA Dispatched ==
    ASSUME QueueInv, NEW r \in Rooms, r \in undecided, SendRequest(r),
           undecided' = undecided \ {r}, UNCHANGED <<deployment, service>>
    PROVE  QueueInv' /\ Shrinks
  <1>0. /\ Phases = {"request", "phase1", "phase2"} /\ Encoder \in Nodes /\ Decoder \in Nodes
        /\ Encoder \in Senders /\ Transformers \subseteq Nodes /\ Transformers \subseteq Senders
    BY NodeFacts DEF Phases
  <1>1. /\ ring \in [Phases -> Seq(RequestType)] /\ inbox \in [Nodes -> Seq(RequestType)]
        /\ undecided \subseteq Rooms
    BY DEF QueueInv, QueueTypes
  <1>2. Central' <=> Central BY DEF Central
  <1>3. \A m \in Nodes : Owned(m)' = Owned(m) /\ Unpublished(m)' = Unpublished(m)
    BY DEF Owned, Unpublished
  <1>4. QueueTypes' /\ Shrinks /\ RingOrder' /\ InboxOrder'
    <2>1. CASE Central
      <3>1. PICK t \in Transformers :
              /\ inbox' = [n \in Nodes |->
                   IF n \in {Encoder, t, Decoder}
                   THEN Append(inbox[n], Request(r, IF n = Decoder THEN t ELSE Encoder))
                   ELSE inbox[n]]
              /\ ring' = ring
        BY <2>1 DEF SendRequest, Central
      <3>2. \A m \in Nodes : NoTwice(inbox[m]) /\ undecided \cap RoomsOf(inbox[m]) = {}
        BY <2>1 DEF QueueInv, InboxOrder
      <3>3. ASSUME NEW m \in Nodes
            PROVE  /\ inbox'[m] \in Seq(RequestType) /\ NoTwice(inbox'[m])
                   /\ RoomsOf(inbox[m]) \subseteq RoomsOf(inbox'[m])
                   /\ RoomsOf(inbox'[m]) \subseteq RoomsOf(inbox[m]) \cup {r}
        <4> DEFINE e == Request(r, IF m = Decoder THEN t ELSE Encoder)
        <4>1. e \in RequestType /\ e.room = r BY <1>0 DEF RequestType, Request
        <4>2. r \notin RoomsOf(inbox[m]) /\ inbox[m] \in Seq(RequestType) /\ NoTwice(inbox[m])
          BY <1>1, <3>2
        <4> HIDE DEF e
        <4>3. /\ Append(inbox[m], e) \in Seq(RequestType) /\ NoTwice(Append(inbox[m], e))
              /\ RoomsOf(Append(inbox[m], e)) = RoomsOf(inbox[m]) \cup {r}
          BY <4>1, <4>2, RoomsOfAppend, AppendProperties
        <4>4. inbox'[m] = Append(inbox[m], e) \/ inbox'[m] = inbox[m] BY <3>1 DEF e
        <4> QED BY <4>2, <4>3, <4>4
      <3>4. inbox' \in [Nodes -> Seq(RequestType)] BY <3>1, <3>3
      <3>5. QueueTypes' BY <1>1, <3>1, <3>4 DEF QueueInv, QueueTypes, Runs
      <3>6. \A m \in Nodes : /\ Ahead(m) = undecided \cup RoomsOf(inbox[m])
                             /\ Ahead(m)' = undecided' \cup RoomsOf(inbox'[m])
        BY <2>1, <1>2 DEF Ahead, Central, RoomsOf
      <3>7. Shrinks BY <3>3, <3>6 DEF Shrinks
      <3>8. InboxOrder' BY <1>2, <2>1, <3>2, <3>3 DEF InboxOrder, RoomsOf, NoTwice
      <3> QED BY <1>2, <2>1, <3>5, <3>7, <3>8 DEF RingOrder
    <2>2. CASE ~Central
      <3> DEFINE e == Request(r, Encoder)
      <3>1. /\ ring' = [ring EXCEPT !["request"] = Append(@, e)] /\ inbox' = inbox
        BY <2>2 DEF SendRequest, Central, Produce
      <3>2. e \in RequestType /\ e.room = r BY <1>0 DEF RequestType, Request
      <3>3. /\ \A p \in Phases : NoTwice(ring[p])
            /\ undecided \cap RoomsOf(ring["request"]) = {}
            /\ Coming \cap RoomsOf(ring["phase1"]) = {}
            /\ \A u \in Transformers : Unpublished(u) \cap (Halfway \cup RoomsOf(ring["phase2"])) = {}
            /\ Halfway \cap RoomsOf(ring["phase2"]) = {}
            /\ \A u, v \in Transformers : Unpublished(u) \cap Unpublished(v) # {} => u = v
        BY <2>2 DEF QueueInv, RingOrder
      <3> HIDE DEF e
      <3>4. /\ Append(ring["request"], e) \in Seq(RequestType)
            /\ RoomsOf(Append(ring["request"], e)) = RoomsOf(ring["request"]) \cup {r}
            /\ NoTwice(Append(ring["request"], e))
        BY <1>0, <1>1, <3>2, <3>3, RoomsOfAppend, AppendProperties
      <3>5. /\ ring' \in [Phases -> Seq(RequestType)]
            /\ ring'["request"] = Append(ring["request"], e)
            /\ ring'["phase2"] = ring["phase2"] /\ ring'["phase1"] = ring["phase1"]
        BY <1>0, <1>1, <3>1, <3>4
      <3>6. QueueTypes' BY <1>1, <3>1, <3>5 DEF QueueInv, QueueTypes, Runs
      <3>7. \A p \in Phases : RoomsOf(ring[p])' = RoomsOf(ring'[p]) /\ NoTwice(ring[p])' = NoTwice(ring'[p])
        BY DEF RoomsOf, NoTwice
      <3>8. Coming' = Coming /\ Halfway' = Halfway
        BY <1>0, <3>4, <3>5, <3>7 DEF Coming, Halfway
      <3>9. RingOrder'
        <4>1. \A p \in Phases : NoTwice(ring'[p]) BY <1>0, <3>3, <3>4, <3>5
        <4>2. undecided' \cap RoomsOf(ring'["request"]) = {} BY <3>3, <3>4, <3>5
        <4> QED BY <1>0, <1>3, <3>3, <3>5, <3>7, <3>8, <4>1, <4>2 DEF RingOrder
      <3>10. /\ Ahead(Encoder) = Coming /\ Ahead(Encoder)' = Coming'
             /\ \A u \in Transformers : Ahead(u) = Halfway /\ Ahead(u)' = Halfway'
             /\ Ahead(Decoder) = Halfway \cup RoomsOf(ring["phase2"]) \cup UNION {Unpublished(u) : u \in Transformers}
             /\ Ahead(Decoder)' = Halfway' \cup RoomsOf(ring'["phase2"]) \cup UNION {Unpublished(u)' : u \in Transformers}
        BY <2>2, <1>0, <1>2, <3>7, NodeFacts DEF Ahead, Central
      <3>11. UNION {Unpublished(u)' : u \in Transformers} = UNION {Unpublished(u) : u \in Transformers}
        BY <1>0, <1>3
      <3>12. Shrinks BY <3>5, <3>8, <3>10, <3>11, NodeFacts DEF Shrinks
      <3> QED BY <1>2, <2>2, <3>6, <3>9, <3>12 DEF InboxOrder
    <2> QED BY <2>1, <2>2
  <1>5. OwnedOnce'
    BY <1>3, <1>4 DEF QueueInv, OwnedOnce, Once, Shrinks
  <1> QED BY <1>4, <1>5 DEF QueueInv

\* The batch is given up.
LEMMA BatchGivenUp ==
    ASSUME QueueInv, ~Central, ring' = EmptyRings, service' = [n \in Nodes |-> NewService],
           undecided' = {}, UNCHANGED <<deployment, inbox>>
    PROVE  /\ QueueInv' /\ Shrinks
           /\ \A n \in Nodes : Owned(n)' = {} /\ Ahead(n)' = {} /\ service'[n] = NewService
  <1>1. <<>> \in Seq(RequestType) /\ <<>> \in Seq(Rooms) OBVIOUS
  <1>2. ring' \in [Phases -> Seq(RequestType)] /\ \A p \in Phases : ring'[p] = <<>>
    BY <1>1 DEF EmptyRings, Phases
  <1>3. NewService \in ServiceType /\ NewService.pc = "idle" /\ NewService.waiting_queue = {}
        /\ NewService.exec_queue = <<>>
    BY <1>1 DEF NewService, ServiceType
  <1>4. service' \in [Nodes -> ServiceType] /\ \A n \in Nodes : service'[n] = NewService BY <1>3
  <1>5. QueueTypes' BY <1>2, <1>3, <1>4 DEF QueueInv, QueueTypes
  <1>6. /\ \A n \in Nodes : Owned(n)' = {} /\ Once(service'[n].exec_queue)
        /\ \A n \in Nodes : service'[n].waiting_queue \cap ToSet(service'[n].exec_queue) = {}
        /\ \A n \in Nodes : Unpublished(n)' = {}
    BY <1>3, <1>4, SetOfEmpty DEF Owned, Unpublished, Once
  <1>7. \A p \in Phases : RoomsOf(ring'[p]) = {} /\ NoTwice(ring'[p]) BY <1>2, RoomsOfNone
  <1>8. QueueInv' /\ Shrinks BY <1>5, <1>6, <1>7, NodeFacts, LessToDo
  <1>9. \A n \in Nodes : Ahead(n)' = {}
    BY <1>6, <1>7, NodeFacts DEF Ahead, Central, Coming, Halfway, Phases, RoomsOf
  <1> QED BY <1>4, <1>6, <1>8, <1>9

-----------------------------------------------------------------------------
(* The transfer half of the state: what an operation does to its sender    *)
(* and its receiver, and to nobody else.                                   *)

LEMMA OpenedFacts ==
    ASSUME NEW m \in SenderType, NEW r \in Rooms
    PROVE  /\ Opened(m, r) \in SenderType
           /\ Opened(m, r).data_args = m.data_args \cup {r}
           /\ Opened(m, r).waiting_pool = m.waiting_pool
           /\ Opened(m, r).request_pool = m.request_pool
           /\ Opened(m, r).request_status[r] = "waiting"
           /\ \A q \in Rooms \ {r} : Opened(m, r).request_status[q] = m.request_status[q]
           /\ m.transfer_event => Opened(m, r).transfer_event
  <1>1. (m.transfer_event \/ \E p \in m.waiting_pool : p[1] = r) \in BOOLEAN OBVIOUS
  <1> QED BY <1>1 DEF Opened, SenderType, Statuses

LEMMA AskedFacts ==
    ASSUME NEW m \in SenderType, NEW r \in Rooms, NEW x \in Receivers
    PROVE  /\ Asked(m, r, x) \in SenderType
           /\ Asked(m, r, x).data_args = m.data_args
           /\ Asked(m, r, x).waiting_pool = m.waiting_pool \cup {<<r, x>>}
           /\ Asked(m, r, x).request_pool = m.request_pool
           /\ Asked(m, r, x).request_status = m.request_status
           /\ m.transfer_event \/ r \in m.data_args => Asked(m, r, x).transfer_event
  <1>1. (m.transfer_event \/ r \in m.data_args) \in BOOLEAN OBVIOUS
  <1>2. <<r, x>> \in Rooms \X Receivers OBVIOUS
  <1>3. m.waiting_pool \cup {<<r, x>>} \in SUBSET (Rooms \X Receivers) BY <1>2 DEF SenderType
  <1> QED BY <1>1, <1>3 DEF Asked, SenderType

LEMMA ClosedFacts ==
    ASSUME NEW m \in SenderType, NEW r \in Rooms
    PROVE  /\ Closed(m, r) \in SenderType
           /\ Closed(m, r).data_args = m.data_args \ {r}
           /\ Closed(m, r).waiting_pool \subseteq m.waiting_pool
           /\ Closed(m, r).request_pool = m.request_pool \ {r}
           /\ Closed(m, r).request_status[r] = "none"
           /\ \A q \in Rooms \ {r} : Closed(m, r).request_status[q] = m.request_status[q]
           /\ Closed(m, r).transfer_event = m.transfer_event
  BY DEF Closed, SenderType, Statuses

\* A sender that nothing happens to, but that its service lets go of rooms.
LEMMA SenderUntouched ==
    ASSUME Shrinks, NEW s \in Senders, sender[s] \in SenderType, SenderInv(s),
           sender'[s] = sender[s], mover'[s] = mover[s], output_watch'[s] = output_watch[s],
           mover[s].to \in Receivers,
           Owned(s)' \subseteq Owned(s)
    PROVE  SenderInv(s)'
  <1>1. \A n \in Nodes : Ahead(n)' \subseteq Ahead(n) BY DEF Shrinks
  <1>2. s \in Nodes /\ mover[s].to \in Nodes /\ \A p \in sender[s].waiting_pool : p[2] \in Nodes
    BY NodeFacts DEF SenderType
  <1>3. Unknown(s)' BY <1>1, <1>2 DEF SenderInv, Unknown, Busy
  <1> QED BY <1>3 DEF SenderInv, SenderOwns, Announced, NoMissed, Matches

\* The service opens a room that came to it.
LEMMA SenderOpens ==
    ASSUME Shrinks, NEW s \in Senders, sender[s] \in SenderType, SenderInv(s),
           NEW r \in Rooms, r \in Ahead(s), r \notin Ahead(s)',
           sender'[s] = Opened(sender[s], r),
           mover'[s] = mover[s], output_watch'[s] = output_watch[s], mover[s].to \in Receivers,
           mover[s].pc = "announce" => mover[s].room \in Rooms,
           Owned(s)' \subseteq Owned(s) \cup {r}
    PROVE  SenderInv(s)'
  <1>0. \A n \in Nodes : Ahead(n)' \subseteq Ahead(n) BY DEF Shrinks
  <1>1. s \in Nodes /\ mover[s].to \in Nodes /\ \A p \in sender[s].waiting_pool : p[2] \in Nodes
    BY NodeFacts DEF SenderType
  <1>2. /\ sender'[s].data_args = sender[s].data_args \cup {r}
        /\ sender'[s].waiting_pool = sender[s].waiting_pool
        /\ sender'[s].request_pool = sender[s].request_pool
        /\ \A q \in Rooms \ {r} : sender'[s].request_status[q] = sender[s].request_status[q]
        /\ sender[s].transfer_event => sender'[s].transfer_event
    BY OpenedFacts
  <1>3. r \notin sender[s].data_args BY DEF SenderInv, Unknown
  <1>4. Unknown(s)' BY <1>0, <1>1, <1>2 DEF SenderInv, Unknown, Busy
  <1>5. SenderOwns(s)' BY <1>2, <1>3 DEF SenderInv, SenderOwns
  <1>6. Announced(s)' BY <1>2, <1>3 DEF SenderInv, SenderOwns, Announced
  <1>7. NoMissed(s)' BY <1>2 DEF SenderInv, NoMissed, Matches
  <1> QED BY <1>4, <1>5, <1>6, <1>7 DEF SenderInv

\* A receiver that took a room asks for its tensors.
LEMMA SenderIsAsked ==
    ASSUME Shrinks, NEW s \in Senders, sender[s] \in SenderType, SenderInv(s),
           NEW r \in Rooms, NEW x \in Receivers, r \notin Ahead(x)',
           sender'[s] = Asked(sender[s], r, x),
           mover'[s] = mover[s], output_watch'[s] = output_watch[s], mover[s].to \in Receivers,
           Owned(s)' \subseteq Owned(s)
    PROVE  SenderInv(s)'
  <1>0. \A n \in Nodes : Ahead(n)' \subseteq Ahead(n) BY DEF Shrinks
  <1>1. s \in Nodes /\ mover[s].to \in Nodes /\ \A p \in sender[s].waiting_pool : p[2] \in Nodes
    BY NodeFacts DEF SenderType
  <1>2. /\ sender'[s].data_args = sender[s].data_args
        /\ sender'[s].waiting_pool = sender[s].waiting_pool \cup {<<r, x>>}
        /\ sender'[s].request_pool = sender[s].request_pool
        /\ sender'[s].request_status = sender[s].request_status
        /\ sender[s].transfer_event \/ r \in sender[s].data_args => sender'[s].transfer_event
    BY AskedFacts
  <1>4. Unknown(s)' BY <1>0, <1>1, <1>2 DEF SenderInv, Unknown, Busy
  <1>5. SenderOwns(s)' BY <1>2 DEF SenderInv, SenderOwns
  <1>6. Announced(s)' BY <1>2 DEF SenderInv, Announced
  <1>7. NoMissed(s)' BY <1>2 DEF SenderInv, SenderOwns, NoMissed, Matches
  <1> QED BY <1>4, <1>5, <1>6, <1>7 DEF SenderInv

\* Both at once, when a transformer should be its own sender.
LEMMA SenderAsksItself ==
    ASSUME Shrinks, NEW s \in Senders, sender[s] \in SenderType, SenderInv(s), s \in Receivers,
           NEW r \in Rooms, r \in Ahead(s), r \notin Ahead(s)',
           sender'[s] = Opened(Asked(sender[s], r, s), r),
           mover'[s] = mover[s], output_watch'[s] = output_watch[s], mover[s].to \in Receivers,
           mover[s].pc = "announce" => mover[s].room \in Rooms,
           Owned(s)' \subseteq Owned(s) \cup {r}
    PROVE  SenderInv(s)'
  <1>0. \A n \in Nodes : Ahead(n)' \subseteq Ahead(n) BY DEF Shrinks
  <1>1. s \in Nodes /\ mover[s].to \in Nodes /\ \A p \in sender[s].waiting_pool : p[2] \in Nodes
    BY NodeFacts DEF SenderType
  <1> DEFINE m == Asked(sender[s], r, s)
  <1>2. /\ m \in SenderType
        /\ m.data_args = sender[s].data_args
        /\ m.waiting_pool = sender[s].waiting_pool \cup {<<r, s>>}
        /\ m.request_pool = sender[s].request_pool
        /\ m.request_status = sender[s].request_status
        /\ sender[s].transfer_event => m.transfer_event
    BY AskedFacts
  <1> HIDE DEF m
  <1>3. /\ sender'[s].data_args = sender[s].data_args \cup {r}
        /\ sender'[s].waiting_pool = sender[s].waiting_pool \cup {<<r, s>>}
        /\ sender'[s].request_pool = sender[s].request_pool
        /\ \A q \in Rooms \ {r} : sender'[s].request_status[q] = sender[s].request_status[q]
        /\ sender[s].transfer_event => sender'[s].transfer_event
    BY <1>2, OpenedFacts DEF m
  <1>4. r \notin sender[s].data_args BY DEF SenderInv, Unknown
  <1>5. Unknown(s)' BY <1>0, <1>1, <1>3 DEF SenderInv, Unknown, Busy
  <1>6. SenderOwns(s)' BY <1>3, <1>4 DEF SenderInv, SenderOwns
  <1>7. Announced(s)' BY <1>3, <1>4 DEF SenderInv, SenderOwns, Announced
  <1>8. r \notin sender[s].request_pool BY <1>4 DEF SenderInv, SenderOwns
  <1>9. NoMissed(s)' BY <1>3, <1>8 DEF SenderInv, NoMissed, Matches
  <1> QED BY <1>5, <1>6, <1>7, <1>9 DEF SenderInv

\* A room is removed that is not announced.
LEMMA SenderCloses ==
    ASSUME Shrinks, NEW s \in Senders, sender[s] \in SenderType, SenderInv(s),
           NEW r \in Rooms, mover[s].pc = "announce" => mover[s].room \in Rooms \ {r},
           sender'[s] = Closed(sender[s], r),
           mover'[s] = mover[s], output_watch'[s] = output_watch[s] \ {r},
           mover[s].to \in Receivers,
           Owned(s)' \subseteq Owned(s) \ {r}
    PROVE  SenderInv(s)'
  <1>0. \A n \in Nodes : Ahead(n)' \subseteq Ahead(n) BY DEF Shrinks
  <1>1. s \in Nodes /\ mover[s].to \in Nodes /\ \A p \in sender[s].waiting_pool : p[2] \in Nodes
    BY NodeFacts DEF SenderType
  <1>2. /\ sender'[s].data_args = sender[s].data_args \ {r}
        /\ sender'[s].waiting_pool \subseteq sender[s].waiting_pool
        /\ sender'[s].request_pool = sender[s].request_pool \ {r}
        /\ \A q \in Rooms \ {r} : sender'[s].request_status[q] = sender[s].request_status[q]
        /\ sender'[s].transfer_event = sender[s].transfer_event
    BY ClosedFacts
  <1>4. Unknown(s)' BY <1>0, <1>1, <1>2 DEF SenderInv, Unknown, Busy
  <1>5. SenderOwns(s)' BY <1>2 DEF SenderInv, SenderOwns
  <1>6. Announced(s)' BY <1>2 DEF SenderInv, Announced
  <1>7. NoMissed(s)' BY <1>2 DEF SenderInv, NoMissed, Matches
  <1> QED BY <1>4, <1>5, <1>6, <1>7 DEF SenderInv

\* The service offers a room, which the sidecar watches from then on.
LEMMA SenderOffers ==
    ASSUME Shrinks, NEW s \in Senders, sender \in [Senders -> SenderType], SenderInv(s),
           NEW r \in Rooms, r \in Owned(s), Offer(s, r),
           mover'[s] = mover[s], output_watch'[s] = output_watch[s] \cup {r},
           mover[s].to \in Receivers, mover[s].pc = "announce" => mover[s].room \in Rooms,
           Owned(s)' \subseteq Owned(s) \ {r}
    PROVE  SenderInv(s)' /\ sender'[s].request_status[r] = "waiting" /\ sender' \in [Senders -> SenderType]
           /\ \A q \in Rooms \ {r} : sender'[s].request_status[q] = sender[s].request_status[q]
  <1>0. \A n \in Nodes : Ahead(n)' \subseteq Ahead(n) BY DEF Shrinks
  <1>1. s \in Nodes /\ mover[s].to \in Nodes /\ \A p \in sender[s].waiting_pool : p[2] \in Nodes
    BY NodeFacts DEF SenderType
  <1>2. /\ sender'[s].data_args = sender[s].data_args
        /\ sender'[s].waiting_pool = sender[s].waiting_pool
        /\ sender'[s].request_pool = sender[s].request_pool \cup {r}
        /\ sender'[s].request_status[r] = "waiting"
        /\ \A q \in Rooms \ {r} : sender'[s].request_status[q] = sender[s].request_status[q]
        /\ sender'[s].transfer_event
        /\ sender' \in [Senders -> SenderType]
    BY DEF Offer, SenderType, Statuses
  <1>3. r \in sender[s].data_args /\ r \notin output_watch[s] BY DEF SenderInv, SenderOwns
  <1>4. Unknown(s)' BY <1>0, <1>1, <1>2 DEF SenderInv, Unknown, Busy
  <1>5. SenderOwns(s)' BY <1>2, <1>3 DEF SenderInv, SenderOwns
  <1>6. Announced(s)' BY <1>2, <1>3 DEF SenderInv, Announced
  <1>7. NoMissed(s)' BY <1>2 DEF NoMissed
  <1> QED BY <1>2, <1>4, <1>5, <1>6, <1>7 DEF SenderInv

LEMMA TransferFacts ==
    ASSUME TransferInv, NEW s \in Senders
    PROVE  /\ sender \in [Senders -> SenderType] /\ sender[s] \in SenderType /\ mover[s] \in MoverType
           /\ mover[s].to \in Receivers /\ mover[s].to \in Nodes
           /\ output_watch[s] \subseteq Rooms /\ sender[s].data_args \subseteq Rooms
           /\ mover[s].pc \in {"announce", "report"} => mover[s].room \in Rooms
           /\ SenderInv(s) /\ ReportTrue(s)
           /\ sender[s].request_status \in [Rooms -> Statuses]
  BY NodeFacts DEF TransferInv, TransferTypes, SenderType, MoverType

LEMMA ReceiverFacts ==
    ASSUME TransferInv, NEW x \in Receivers
    PROVE  /\ receiver \in [Receivers -> ReceiverType] /\ receiver[x] \in ReceiverType
           /\ receiver[x].data_args \subseteq Rooms /\ receiver[x].whole \subseteq Rooms
           /\ receiver[x].request_status \in [Rooms -> Statuses]
           /\ InputTrue(x)
  BY DEF TransferInv, TransferTypes, ReceiverType

LEMMA ReceiveFacts ==
    ASSUME receiver \in [Receivers -> ReceiverType], NEW x \in Receivers, NEW r \in Rooms, Receive(x, r)
    PROVE  /\ receiver' \in [Receivers -> ReceiverType]
           /\ receiver'[x].data_args = receiver[x].data_args \cup {r}
           /\ receiver'[x].whole = receiver[x].whole
           /\ receiver'[x].request_status[r] = "waiting"
           /\ \A q \in Rooms \ {r} : receiver'[x].request_status[q] = receiver[x].request_status[q]
           /\ \A y \in Receivers \ {x} : receiver'[y] = receiver[y]
  BY DEF Receive, ReceiverType, Statuses

LEMMA DropFacts ==
    ASSUME receiver \in [Receivers -> ReceiverType], NEW x \in Receivers, NEW r \in Rooms, Drop(x, r)
    PROVE  /\ receiver' \in [Receivers -> ReceiverType]
           /\ receiver'[x].data_args = receiver[x].data_args \ {r}
           /\ receiver'[x].whole = receiver[x].whole \ {r}
           /\ \A q \in Rooms \ {r} : receiver'[x].request_status[q] = receiver[x].request_status[q]
           /\ \A y \in Receivers \ {x} : receiver'[y] = receiver[y]
  BY DEF Drop, ReceiverType, Statuses

\* What the steps of services and controller have in common: the transfer
\* threads are left alone, no status becomes a success, and a receiver opens
\* only a room that came to it.
LEMMA ServicesKeep ==
    ASSUME TransferInv, Shrinks, TransferTypes', UNCHANGED mover,
           \A s \in Senders :
               \/ SenderInv(s)'
               \/ /\ sender'[s] = sender[s] /\ output_watch'[s] = output_watch[s]
                  /\ Owned(s)' \subseteq Owned(s),
           \A s \in Senders : \A q \in Rooms :
               sender'[s].request_status[q] = "success" => sender[s].request_status[q] = "success",
           \A x \in Receivers :
               /\ receiver'[x].data_args \subseteq receiver[x].data_args \cup Ahead(x)
               /\ \A q \in receiver[x].data_args \cap receiver'[x].data_args :
                      q \in receiver[x].whole => q \in receiver'[x].whole,
           \A x \in Receivers :
               \/ InputTrue(x)'
               \/ /\ receiver'[x] = receiver[x]
                  /\ service'[x].waiting_queue \subseteq service[x].waiting_queue
                  /\ ToSet(service'[x].exec_queue) \subseteq ToSet(service[x].exec_queue)
    PROVE  TransferInv'
  <1>1. ASSUME NEW s \in Senders PROVE SenderInv(s)'
    <2>1. CASE sender'[s] = sender[s] /\ output_watch'[s] = output_watch[s] /\ Owned(s)' \subseteq Owned(s)
      BY <2>1, TransferFacts, SenderUntouched
    <2> QED BY <2>1
  <1>2. ASSUME NEW s \in Senders PROVE ReportTrue(s)'
    <2> DEFINE r == mover[s].room
               x == mover[s].to
    <2> SUFFICES ASSUME mover[s].pc = "report", sender'[s].request_status[r] = "success",
                        r \in receiver'[x].data_args
                 PROVE  r \in receiver'[x].whole
      BY DEF ReportTrue
    <2>1. r \in Rooms /\ x \in Receivers /\ ReportTrue(s) /\ SenderInv(s) BY TransferFacts
    <2>2. r \notin Ahead(x) BY <2>1 DEF SenderInv, Unknown, Busy
    <2>3. r \in receiver[x].data_args /\ sender[s].request_status[r] = "success" BY <2>1, <2>2
    <2>4. r \in receiver[x].whole BY <2>1, <2>3 DEF ReportTrue
    <2> QED BY <2>1, <2>3, <2>4
  <1>3. ASSUME NEW x \in Receivers PROVE InputTrue(x)'
    <2>1. CASE /\ receiver'[x] = receiver[x]
               /\ service'[x].waiting_queue \subseteq service[x].waiting_queue
               /\ ToSet(service'[x].exec_queue) \subseteq ToSet(service[x].exec_queue)
      BY <2>1, ReceiverFacts DEF InputTrue
    <2> QED BY <2>1
  <1> QED BY <1>1, <1>2, <1>3 DEF TransferInv

\* A room that was taken, and whose output nobody offers yet, is not announced.
LEMMA NotAnnounced ==
    ASSUME TransferInv, NEW s \in Senders, NEW r, r \in Ahead(s) \/ r \in Owned(s)
           \/ sender[s].request_status[r] \in Final
    PROVE  mover[s].pc = "announce" => mover[s].room \in Rooms \ {r}
  BY TransferFacts DEF SenderInv, Unknown, SenderOwns, Announced

\* One room is dropped by a receiver whose service has it no more.
LEMMA InputDropped ==
    ASSUME TransferInv, NEW x \in Receivers, NEW r \in Rooms, Drop(x, r),
           service'[x].waiting_queue \subseteq service[x].waiting_queue \ {r},
           ToSet(service'[x].exec_queue) \subseteq ToSet(service[x].exec_queue) \ {r}
    PROVE  /\ InputTrue(x)' /\ receiver' \in [Receivers -> ReceiverType]
           /\ \A y \in Receivers :
                 /\ receiver'[y].data_args \subseteq receiver[y].data_args
                 /\ \A q \in receiver[y].data_args \cap receiver'[y].data_args :
                        q \in receiver[y].whole => q \in receiver'[y].whole
           /\ \A y \in Receivers \ {x} : receiver'[y] = receiver[y]
  <1>1. /\ receiver' \in [Receivers -> ReceiverType]
        /\ receiver'[x].data_args = receiver[x].data_args \ {r}
        /\ receiver'[x].whole = receiver[x].whole \ {r}
        /\ \A q \in Rooms \ {r} : receiver'[x].request_status[q] = receiver[x].request_status[q]
        /\ \A y \in Receivers \ {x} : receiver'[y] = receiver[y]
    BY DropFacts, ReceiverFacts
  <1>2. /\ service[x].waiting_queue \subseteq receiver[x].data_args
        /\ \A q \in receiver[x].data_args :
              receiver[x].request_status[q] = "success" => q \in receiver[x].whole
        /\ ToSet(service[x].exec_queue) \subseteq receiver[x].whole
        /\ receiver[x].data_args \subseteq Rooms
    BY ReceiverFacts DEF InputTrue
  <1>3. InputTrue(x)' BY <1>1, <1>2 DEF InputTrue
  <1> QED BY <1>1, <1>3

\* A room is received whose request was taken.
LEMMA InputReceived ==
    ASSUME TransferInv, NEW x \in Receivers, NEW r \in Rooms, Receive(x, r), r \in Ahead(x),
           service'[x].waiting_queue = service[x].waiting_queue \cup {r},
           ToSet(service'[x].exec_queue) = ToSet(service[x].exec_queue)
    PROVE  /\ InputTrue(x)' /\ receiver' \in [Receivers -> ReceiverType]
           /\ \A y \in Receivers :
                 /\ receiver'[y].data_args \subseteq receiver[y].data_args \cup Ahead(y)
                 /\ \A q \in receiver[y].data_args \cap receiver'[y].data_args :
                        q \in receiver[y].whole => q \in receiver'[y].whole
           /\ \A y \in Receivers \ {x} : receiver'[y] = receiver[y]
  <1>1. /\ receiver' \in [Receivers -> ReceiverType]
        /\ receiver'[x].data_args = receiver[x].data_args \cup {r}
        /\ receiver'[x].whole = receiver[x].whole
        /\ receiver'[x].request_status[r] = "waiting"
        /\ \A q \in Rooms \ {r} : receiver'[x].request_status[q] = receiver[x].request_status[q]
        /\ \A y \in Receivers \ {x} : receiver'[y] = receiver[y]
    BY ReceiveFacts, ReceiverFacts
  <1>2. /\ service[x].waiting_queue \subseteq receiver[x].data_args
        /\ \A q \in receiver[x].data_args :
              receiver[x].request_status[q] = "success" => q \in receiver[x].whole
        /\ ToSet(service[x].exec_queue) \subseteq receiver[x].whole
        /\ receiver[x].data_args \subseteq Rooms
    BY ReceiverFacts DEF InputTrue
  <1>3. InputTrue(x)' BY <1>1, <1>2 DEF InputTrue
  <1> QED BY <1>1, <1>3

-----------------------------------------------------------------------------
(* The actions, one by one.                                                *)

LEMMA QueueSame ==
    ASSUME QueueInv, UNCHANGED <<deployment, ring, inbox, undecided, service>>
    PROVE  /\ QueueInv' /\ Shrinks
           /\ \A n \in Nodes : Owned(n)' = Owned(n) /\ Ahead(n)' = Ahead(n)
  <1>1. \A n \in Nodes : Owned(n)' = Owned(n) /\ Unpublished(n)' = Unpublished(n)
    BY DEF Owned, Unpublished
  <1>2. Halfway' = Halfway /\ Coming' = Coming
        /\ \A p \in Phases : RoomsOf(ring[p])' = RoomsOf(ring[p]) /\ (NoTwice(ring[p])' <=> NoTwice(ring[p]))
        /\ \A n \in Nodes : RoomsOf(inbox[n])' = RoomsOf(inbox[n]) /\ (NoTwice(inbox[n])' <=> NoTwice(inbox[n]))
    BY DEF Halfway, Coming, RoomsOf, NoTwice
  <1>3. UNION {Unpublished(u)' : u \in Transformers} = UNION {Unpublished(u) : u \in Transformers}
    BY <1>1, NodeFacts
  <1>4. \A n \in Nodes : Ahead(n)' = Ahead(n)
    BY <1>2, <1>3, NodeFacts DEF Ahead, Phases
  <1>5. QueueTypes' BY DEF QueueInv, QueueTypes, Runs
  <1>6. RingOrder' BY <1>1, <1>2, NodeFacts DEF QueueInv, RingOrder, Central, Phases
  <1>7. InboxOrder' BY <1>2 DEF QueueInv, InboxOrder, Central
  <1>8. OwnedOnce' BY <1>1, <1>4 DEF QueueInv, OwnedOnce, Once
  <1> QED BY <1>1, <1>4, <1>5, <1>6, <1>7, <1>8 DEF QueueInv, Shrinks

\* Nothing happens to the transfer half.
LEMMA TransferSame ==
    ASSUME TransferInv, Shrinks, UNCHANGED transferVars,
           \A n \in Nodes : Owned(n)' \subseteq Owned(n),
           \A x \in Receivers :
               /\ service'[x].waiting_queue \subseteq service[x].waiting_queue
               /\ ToSet(service'[x].exec_queue) \subseteq receiver[x].whole
    PROVE  TransferInv'
  <1>1. TransferTypes' BY DEF TransferInv, TransferTypes, transferVars
  <1>2. \A x \in Receivers : InputTrue(x)' BY DEF transferVars, TransferInv, InputTrue
  <1>3. \A s \in Senders : Owned(s)' \subseteq Owned(s) BY NodeFacts
  <1>4. /\ \A s \in Senders : sender'[s] = sender[s] /\ output_watch'[s] = output_watch[s]
        /\ \A x \in Receivers : receiver'[x] = receiver[x]
        /\ UNCHANGED mover
    BY DEF transferVars
  <1> QED BY <1>1, <1>2, <1>3, <1>4, ServicesKeep

LEMMA ReadyStep ==
    ASSUME FlowInv, NEW n \in Receivers, Ready(n)
    PROVE  FlowInv'
  <1>1. PICK r \in Arrived(n, "success") :
            /\ IsIdle(n)
            /\ service' = [service EXCEPT ![n].waiting_queue = @ \ {r},
                                      ![n].exec_queue = Append(@, r)]
            /\ UNCHANGED <<transferVars, deployment, queueVars, controllerVars, results, faults, lost>>
    BY DEF Ready
  <1>2. n \in Nodes /\ r \in service[n].waiting_queue /\ receiver[n].request_status[r] = "success"
    BY <1>1, NodeFacts DEF Arrived
  <1>3. UNCHANGED <<deployment, ring, inbox, undecided>> BY <1>1 DEF queueVars, controllerVars
  <1>4. /\ QueueInv' /\ Shrinks
        /\ service'[n].waiting_queue = service[n].waiting_queue \ {r}
        /\ ToSet(service'[n].exec_queue) = ToSet(service[n].exec_queue) \cup {r}
        /\ \A m \in Nodes \ {n} : service'[m] = service[m]
    BY <1>1, <1>2, <1>3, MadeReady DEF FlowInv
  <1>5. r \in receiver[n].whole /\ ToSet(service[n].exec_queue) \subseteq receiver[n].whole
    BY <1>2, ReceiverFacts DEF FlowInv, InputTrue
  <1>6. \A m \in Nodes : Owned(m)' \subseteq Owned(m) BY <1>2, <1>4 DEF Owned
  <1>7. \A x \in Receivers :
               /\ service'[x].waiting_queue \subseteq service[x].waiting_queue
               /\ ToSet(service'[x].exec_queue) \subseteq receiver[x].whole
    BY <1>4, <1>5, ReceiverFacts, NodeFacts DEF FlowInv, InputTrue
  <1> QED BY <1>1, <1>4, <1>6, <1>7, TransferSame DEF FlowInv

LEMMA FailedInputStep ==
    ASSUME FlowInv, NEW n \in Receivers, FailedInput(n)
    PROVE  FlowInv'
  <1>1. PICK r \in Arrived(n, "failed") :
            /\ IsIdle(n)
            /\ service' = [service EXCEPT ![n].waiting_queue = @ \ {r}]
            /\ Drop(n, r)
            /\ IF n \in Transformers THEN Close(n, r) ELSE UNCHANGED sender
            /\ UNCHANGED <<mover, output_watch, deployment, queueVars, controllerVars, results, faults>>
    BY DEF FailedInput
  <1>2. n \in Nodes /\ r \in service[n].waiting_queue /\ r \in Rooms /\ TransferInv /\ QueueInv
        /\ r \in Owned(n) /\ r \notin ToSet(service[n].exec_queue)
    BY <1>1, NodeFacts, ServiceFacts DEF Arrived, FlowInv, Owned
  <1>3. UNCHANGED <<deployment, ring, inbox, undecided>> BY <1>1 DEF queueVars, controllerVars
  <1>4. /\ QueueInv' /\ Shrinks
        /\ service'[n].waiting_queue = service[n].waiting_queue \ {r}
        /\ service'[n].exec_queue = service[n].exec_queue
        /\ \A m \in Nodes \ {n} : service'[m] = service[m]
    BY <1>1, <1>2, <1>3, NotAwaited
  <1>5. /\ InputTrue(n)' /\ receiver' \in [Receivers -> ReceiverType]
        /\ \A y \in Receivers :
                 /\ receiver'[y].data_args \subseteq receiver[y].data_args
                 /\ \A q \in receiver[y].data_args \cap receiver'[y].data_args :
                        q \in receiver[y].whole => q \in receiver'[y].whole
        /\ \A y \in Receivers \ {n} : receiver'[y] = receiver[y]
    BY <1>1, <1>2, <1>4, InputDropped
  <1>6. /\ Owned(n)' = Owned(n) \ {r}
        /\ \A m \in Nodes \ {n} : Owned(m)' = Owned(m)
    BY <1>2, <1>4 DEF Owned
  <1>7. /\ sender' \in [Senders -> SenderType]
        /\ \A s \in Senders :
               \/ SenderInv(s)'
               \/ /\ sender'[s] = sender[s] /\ output_watch'[s] = output_watch[s]
                  /\ Owned(s)' \subseteq Owned(s)
        /\ \A s \in Senders : \A q \in Rooms :
               sender'[s].request_status[q] = "success" => sender[s].request_status[q] = "success"
    <2>1. CASE n \in Transformers
      <3>1. n \in Senders /\ sender' = [sender EXCEPT ![n] = Closed(@, r)]
        BY <1>1, <2>1, NodeFacts DEF Close
      <3>2. /\ sender \in [Senders -> SenderType] /\ sender[n] \in SenderType /\ SenderInv(n)
            /\ mover[n].to \in Receivers
        BY <1>2, <3>1, TransferFacts
      <3>3. /\ Closed(sender[n], r) \in SenderType /\ Closed(sender[n], r).request_status[r] = "none"
            /\ \A q \in Rooms \ {r} : Closed(sender[n], r).request_status[q] = sender[n].request_status[q]
        BY <1>2, <3>2, ClosedFacts
      <3>4. /\ sender' \in [Senders -> SenderType] /\ sender'[n] = Closed(sender[n], r)
            /\ \A s \in Senders \ {n} : sender'[s] = sender[s]
        BY <3>1, <3>2, <3>3
      <3>5. mover[n].pc = "announce" => mover[n].room \in Rooms \ {r}
        BY <1>2, <3>1, NotAnnounced
      <3>6. output_watch'[n] = output_watch[n] \ {r}
        BY <1>1, <1>2, <3>2 DEF SenderInv, SenderOwns
      <3>7. SenderInv(n)'
        BY <1>1, <1>2, <1>4, <1>6, <3>1, <3>2, <3>4, <3>5, <3>6, SenderCloses
      <3>8. \A s \in Senders : \A q \in Rooms :
               sender'[s].request_status[q] = "success" => sender[s].request_status[q] = "success"
        BY <3>3, <3>4
      <3>9. \A s \in Senders \ {n} : sender'[s] = sender[s] /\ output_watch'[s] = output_watch[s]
                                     /\ Owned(s)' \subseteq Owned(s)
        BY <1>1, <1>6, <3>4, NodeFacts
      <3> QED BY <3>4, <3>7, <3>8, <3>9
    <2>2. CASE n \notin Transformers
      <3>1. sender' = sender /\ n \notin Senders BY <1>1, <2>2, NodeFacts DEF Receivers
      <3> QED BY <1>1, <1>2, <1>6, <3>1, NodeFacts DEF TransferInv, TransferTypes
    <2> QED BY <2>1, <2>2
  <1>8. TransferTypes' BY <1>1, <1>2, <1>5, <1>7 DEF TransferInv, TransferTypes
  <1>9. \A x \in Receivers :
               \/ InputTrue(x)'
               \/ /\ receiver'[x] = receiver[x]
                  /\ service'[x].waiting_queue \subseteq service[x].waiting_queue
                  /\ ToSet(service'[x].exec_queue) \subseteq ToSet(service[x].exec_queue)
    BY <1>4, <1>5, NodeFacts
  <1>10. UNCHANGED mover BY <1>1
  <1>11. TransferInv' BY <1>2, <1>4, <1>5, <1>7, <1>8, <1>9, <1>10, ServicesKeep
  <1> QED BY <1>4, <1>11 DEF FlowInv

\* One sender changes; no status becomes a success.
LEMMA RoomClosed ==
    ASSUME TransferInv, Shrinks, NEW s \in Senders, NEW r \in Rooms,
           r \in Ahead(s) \/ r \in Owned(s) \/ sender[s].request_status[r] \in Final,
           Close(s, r), UNCHANGED mover,
           output_watch'[s] = output_watch[s] \ {r}, Owned(s)' \subseteq Owned(s) \ {r},
           \A u \in Senders \ {s} : output_watch'[u] = output_watch[u] /\ Owned(u)' \subseteq Owned(u)
    PROVE  /\ sender' \in [Senders -> SenderType]
           /\ \A u \in Senders :
               \/ SenderInv(u)'
               \/ /\ sender'[u] = sender[u] /\ output_watch'[u] = output_watch[u]
                  /\ Owned(u)' \subseteq Owned(u)
           /\ \A u \in Senders : \A q \in Rooms :
               sender'[u].request_status[q] = "success" => sender[u].request_status[q] = "success"
  <1>1. sender' = [sender EXCEPT ![s] = Closed(@, r)] BY DEF Close
  <1>2. /\ sender \in [Senders -> SenderType] /\ sender[s] \in SenderType /\ SenderInv(s)
        /\ mover[s].to \in Receivers
    BY TransferFacts
  <1>3. /\ Closed(sender[s], r) \in SenderType /\ Closed(sender[s], r).request_status[r] = "none"
        /\ \A q \in Rooms \ {r} : Closed(sender[s], r).request_status[q] = sender[s].request_status[q]
    BY <1>2, ClosedFacts
  <1>4. /\ sender' \in [Senders -> SenderType] /\ sender'[s] = Closed(sender[s], r)
        /\ \A u \in Senders \ {s} : sender'[u] = sender[u]
    BY <1>1, <1>2, <1>3
  <1>5. mover[s].pc = "announce" => mover[s].room \in Rooms \ {r}
    BY NotAnnounced
  <1>6. SenderInv(s)' BY <1>2, <1>4, <1>5, SenderCloses
  <1>7. \A u \in Senders : \A q \in Rooms :
               sender'[u].request_status[q] = "success" => sender[u].request_status[q] = "success"
    BY <1>3, <1>4
  <1> QED BY <1>4, <1>6, <1>7

LEMMA EncoderRunsStep ==
    ASSUME FlowInv, EncoderRuns
    PROVE  FlowInv'
  <1> DEFINE r == Offered(Encoder).room
  <1>0. QueueInv /\ TransferInv /\ Encoder \in Senders /\ Encoder \in Nodes /\ Encoder \notin Receivers
    BY NodeFacts DEF FlowInv
  <1>1. UNCHANGED <<deployment, undecided, mover, receiver, output_watch>>
    BY DEF EncoderRuns, controllerVars
  <1>2. /\ QueueInv' /\ Shrinks /\ r \in Rooms /\ r \in Ahead(Encoder) /\ r \notin Ahead(Encoder)'
        /\ service'[Encoder].waiting_queue = service[Encoder].waiting_queue
        /\ ToSet(service'[Encoder].exec_queue) = {r}
        /\ \A m \in Nodes \ {Encoder} : service'[m] = service[m]
    BY <1>0, <1>1, TakenAndPublished DEF EncoderRuns
  <1>3. /\ Owned(Encoder)' \subseteq Owned(Encoder) \cup {r}
        /\ \A m \in Nodes \ {Encoder} : Owned(m)' = Owned(m)
    BY <1>2 DEF Owned
  <1>4. sender' = [sender EXCEPT ![Encoder] = Opened(@, r)] BY DEF EncoderRuns, Open
  <1>5. /\ sender \in [Senders -> SenderType] /\ sender[Encoder] \in SenderType /\ SenderInv(Encoder)
        /\ mover[Encoder].to \in Receivers
        /\ mover[Encoder].pc = "announce" => mover[Encoder].room \in Rooms
    BY <1>0, TransferFacts
  <1>6. /\ Opened(sender[Encoder], r) \in SenderType
        /\ Opened(sender[Encoder], r).request_status[r] = "waiting"
        /\ \A q \in Rooms \ {r} : Opened(sender[Encoder], r).request_status[q] = sender[Encoder].request_status[q]
    BY <1>2, <1>5, OpenedFacts
  <1>7. /\ sender' \in [Senders -> SenderType] /\ sender'[Encoder] = Opened(sender[Encoder], r)
        /\ \A s \in Senders \ {Encoder} : sender'[s] = sender[s]
    BY <1>0, <1>4, <1>5, <1>6
  <1>8. SenderInv(Encoder)' BY <1>0, <1>1, <1>2, <1>3, <1>5, <1>7, SenderOpens
  <1>9. \A s \in Senders : \A q \in Rooms :
               sender'[s].request_status[q] = "success" => sender[s].request_status[q] = "success"
    BY <1>6, <1>7
  <1>10. \A s \in Senders :
               \/ SenderInv(s)'
               \/ /\ sender'[s] = sender[s] /\ output_watch'[s] = output_watch[s]
                  /\ Owned(s)' \subseteq Owned(s)
    BY <1>1, <1>3, <1>7, <1>8, NodeFacts
  <1>11. TransferTypes' BY <1>0, <1>1, <1>7 DEF TransferInv, TransferTypes
  <1>12. \A x \in Receivers : receiver'[x] = receiver[x] /\ service'[x] = service[x]
    BY <1>0, <1>1, <1>2, NodeFacts
  <1>13. TransferInv' BY <1>0, <1>1, <1>2, <1>9, <1>10, <1>11, <1>12, ServicesKeep
  <1> QED BY <1>2, <1>13 DEF FlowInv

LEMMA EncoderFailsStep ==
    ASSUME FlowInv, EncoderFails
    PROVE  FlowInv'
  <1> DEFINE r == Offered(Encoder).room
  <1>0. QueueInv /\ TransferInv /\ Encoder \in Senders /\ Encoder \in Nodes
    BY NodeFacts DEF FlowInv
  <1>1. UNCHANGED <<deployment, undecided, service, mover, receiver, output_watch>>
    BY DEF EncoderFails, controllerVars
  <1>2. QueueInv' /\ Shrinks /\ r \in Rooms /\ r \in Ahead(Encoder)
    BY <1>0, <1>1, TakenAndLost DEF EncoderFails
  <1>3. \A m \in Nodes : Owned(m)' = Owned(m) BY <1>1 DEF Owned
  <1>4. r \notin Owned(Encoder) /\ r \notin output_watch[Encoder]
    BY <1>0, <1>2, TransferFacts DEF SenderInv, SenderOwns, Unknown
  <1>5. /\ sender' \in [Senders -> SenderType]
        /\ \A u \in Senders :
               \/ SenderInv(u)'
               \/ /\ sender'[u] = sender[u] /\ output_watch'[u] = output_watch[u]
                  /\ Owned(u)' \subseteq Owned(u)
        /\ \A u \in Senders : \A q \in Rooms :
               sender'[u].request_status[q] = "success" => sender[u].request_status[q] = "success"
    <2>1. Close(Encoder, r) BY DEF EncoderFails
    <2> QED BY <1>0, <1>1, <1>2, <1>3, <1>4, <2>1, RoomClosed, NodeFacts
  <1>6. TransferTypes' BY <1>0, <1>1, <1>5 DEF TransferInv, TransferTypes
  <1>7. TransferInv' BY <1>0, <1>1, <1>2, <1>5, <1>6, ServicesKeep
  <1> QED BY <1>2, <1>7 DEF FlowInv

\* Encoder and transformers offer what they computed in the same way.
LEMMA OffersStep ==
    ASSUME FlowInv, NEW s \in Senders, service[s].pc = "send",
           Offer(s, Current(s)), WatchOutput(s, Current(s)), Finished(s),
           UNCHANGED <<mover, receiver, deployment, ring, inbox, undecided>>
    PROVE  FlowInv'
  <1> DEFINE r == Current(s)
  <1>0. QueueInv /\ TransferInv /\ s \in Nodes /\ Runs(s)
    BY NodeFacts, ServiceFacts DEF FlowInv, Runs
  <1>1. /\ QueueInv' /\ Shrinks /\ r \in Rooms /\ r \in ToSet(service[s].exec_queue)
        /\ r \notin service[s].waiting_queue
        /\ service'[s].waiting_queue = service[s].waiting_queue
        /\ ToSet(service'[s].exec_queue) = ToSet(service[s].exec_queue) \ {r}
        /\ \A m \in Nodes \ {s} : service'[m] = service[m]
    BY <1>0, FinishedOne
  <1>2. /\ Owned(s)' \subseteq Owned(s) \ {r} /\ r \in Owned(s)
        /\ \A m \in Nodes \ {s} : Owned(m)' = Owned(m)
    BY <1>1 DEF Owned
  <1>3. /\ output_watch' = [output_watch EXCEPT ![s] = @ \cup {r}]
        /\ output_watch \in [Senders -> SUBSET Rooms]
    BY <1>0 DEF WatchOutput, TransferInv, TransferTypes
  <1>4. /\ output_watch'[s] = output_watch[s] \cup {r} /\ output_watch' \in [Senders -> SUBSET Rooms]
        /\ \A u \in Senders \ {s} : output_watch'[u] = output_watch[u]
    BY <1>1, <1>3
  <1>5. /\ sender \in [Senders -> SenderType] /\ SenderInv(s)
        /\ mover[s].to \in Receivers
        /\ mover[s].pc = "announce" => mover[s].room \in Rooms
    BY <1>0, TransferFacts
  <1>6. /\ SenderInv(s)' /\ sender'[s].request_status[r] = "waiting" /\ sender' \in [Senders -> SenderType]
        /\ \A q \in Rooms \ {r} : sender'[s].request_status[q] = sender[s].request_status[q]
    BY <1>0, <1>1, <1>2, <1>4, <1>5, SenderOffers
  <1>7. \A u \in Senders \ {s} : sender'[u] = sender[u] BY <1>5 DEF Offer
  <1>8. \A u \in Senders : \A q \in Rooms :
               sender'[u].request_status[q] = "success" => sender[u].request_status[q] = "success"
    BY <1>6, <1>7
  <1>9. \A u \in Senders :
               \/ SenderInv(u)'
               \/ /\ sender'[u] = sender[u] /\ output_watch'[u] = output_watch[u]
                  /\ Owned(u)' \subseteq Owned(u)
    BY <1>2, <1>4, <1>6, <1>7, NodeFacts
  <1>10. TransferTypes' BY <1>0, <1>4, <1>6 DEF TransferInv, TransferTypes
  <1>11. \A x \in Receivers :
                  /\ receiver'[x] = receiver[x]
                  /\ service'[x].waiting_queue \subseteq service[x].waiting_queue
                  /\ ToSet(service'[x].exec_queue) \subseteq ToSet(service[x].exec_queue)
    BY <1>1, NodeFacts
  <1>12. TransferInv' BY <1>0, <1>1, <1>8, <1>9, <1>10, <1>11, ServicesKeep
  <1> QED BY <1>1, <1>12 DEF FlowInv

LEMMA EncoderCompletesStep ==
    ASSUME FlowInv, EncoderCompletes
    PROVE  FlowInv'
  <1>0. QueueInv /\ TransferInv /\ Encoder \in Senders /\ Encoder \in Nodes
    BY NodeFacts DEF FlowInv
  <1>1. PICK r \in output_watch[Encoder] :
        /\ sender[Encoder].request_status[r] \in Final
        /\ Unwatch(Encoder, r)
        /\ Close(Encoder, r)
        /\ UNCHANGED <<mover, receiver, deployment, queueVars, service, controllerVars>>
    BY DEF EncoderCompletes
  <1>2. /\ QueueInv' /\ Shrinks /\ \A n \in Nodes : Owned(n)' = Owned(n)
    BY <1>0, <1>1, QueueSame DEF queueVars, controllerVars
  <1>3. /\ output_watch' = [output_watch EXCEPT ![Encoder] = @ \ {r}]
        /\ output_watch \in [Senders -> SUBSET Rooms]
    BY <1>0, <1>1 DEF Unwatch, TransferInv, TransferTypes
  <1>4. /\ r \in Rooms /\ output_watch'[Encoder] = output_watch[Encoder] \ {r}
        /\ output_watch' \in [Senders -> SUBSET Rooms]
        /\ \A u \in Senders \ {Encoder} : output_watch'[u] = output_watch[u]
    BY <1>0, <1>1, <1>3
  <1>5. Owned(Encoder)' \subseteq Owned(Encoder) \ {r}
    BY <1>0, <1>1, <1>2, TransferFacts DEF SenderInv, SenderOwns
  <1>6. /\ sender' \in [Senders -> SenderType]
        /\ \A u \in Senders :
               \/ SenderInv(u)'
               \/ /\ sender'[u] = sender[u] /\ output_watch'[u] = output_watch[u]
                  /\ Owned(u)' \subseteq Owned(u)
        /\ \A u \in Senders : \A q \in Rooms :
               sender'[u].request_status[q] = "success" => sender[u].request_status[q] = "success"
    BY <1>0, <1>1, <1>2, <1>4, <1>5, RoomClosed, NodeFacts
  <1>7. TransferTypes' BY <1>0, <1>1, <1>4, <1>6 DEF TransferInv, TransferTypes
  <1>8. \A x \in Receivers : receiver'[x] = receiver[x] /\ service'[x] = service[x]
    BY <1>1
  <1>9. TransferInv' BY <1>0, <1>1, <1>2, <1>6, <1>7, <1>8, ServicesKeep
  <1> QED BY <1>2, <1>9 DEF FlowInv

\* What a receiver that takes a request does to the senders, but for opening
\* the room on its own side.
LEMMA SendersAsked ==
    ASSUME TransferInv, Shrinks, NEW f \in Senders, NEW x \in Receivers, NEW r \in Rooms,
           r \notin Ahead(x)', sender' = [sender EXCEPT ![f] = Asked(@, r, x)],
           UNCHANGED <<mover, output_watch>>,
           \A u \in Senders : Owned(u)' \subseteq Owned(u)
    PROVE  /\ sender' \in [Senders -> SenderType]
           /\ \A u \in Senders :
               \/ SenderInv(u)'
               \/ /\ sender'[u] = sender[u] /\ output_watch'[u] = output_watch[u]
                  /\ Owned(u)' \subseteq Owned(u)
           /\ \A u \in Senders : sender'[u].request_status = sender[u].request_status
  <1>1. /\ sender \in [Senders -> SenderType] /\ sender[f] \in SenderType /\ SenderInv(f)
        /\ mover[f].to \in Receivers
    BY TransferFacts
  <1>2. /\ Asked(sender[f], r, x) \in SenderType
        /\ Asked(sender[f], r, x).request_status = sender[f].request_status
    BY <1>1, AskedFacts
  <1>3. /\ sender' \in [Senders -> SenderType] /\ sender'[f] = Asked(sender[f], r, x)
        /\ \A u \in Senders \ {f} : sender'[u] = sender[u]
    BY <1>1, <1>2
  <1>4. SenderInv(f)' BY <1>1, <1>3, SenderIsAsked
  <1> QED BY <1>2, <1>3, <1>4

\* A transformer takes a request: its room is open on both sides.
LEMMA TransformerTakesStep ==
    ASSUME FlowInv, NEW t \in Transformers, TransformerTakes(t)
    PROVE  FlowInv'
  <1> DEFINE r == Offered(t).room
  <1>0. /\ QueueInv /\ TransferInv /\ t \in Senders /\ t \in Receivers /\ t \in Nodes
    BY NodeFacts DEF FlowInv
  <1>1. UNCHANGED <<deployment, undecided, mover, output_watch>>
    BY DEF TransformerTakes, controllerVars
  <1>2. IsIdle(t) /\ HasRequest(t) /\ Take(t) /\ AwaitInput(t, r) /\ Receive(t, r)
    BY DEF TransformerTakes, MayTake
  <1>3. /\ QueueInv' /\ Shrinks /\ r \in Rooms /\ r \in Ahead(t) /\ r \notin Ahead(t)'
        /\ service'[t].waiting_queue = service[t].waiting_queue \cup {r}
        /\ service'[t].exec_queue = service[t].exec_queue
        /\ \A m \in Nodes \ {t} : service'[m] = service[m]
    BY <1>0, <1>1, <1>2, TakenAndAwaited
  <1>4. PICK f \in Senders : f = Offered(t).from
    BY <1>0, <1>1, <1>2, TakeEffect DEF RequestType
  <1>5. /\ Owned(t)' \subseteq Owned(t) \cup {r}
        /\ \A m \in Nodes \ {t} : Owned(m)' = Owned(m)
    BY <1>3 DEF Owned
  <1>6. /\ InputTrue(t)' /\ receiver' \in [Receivers -> ReceiverType]
        /\ \A y \in Receivers :
                 /\ receiver'[y].data_args \subseteq receiver[y].data_args \cup Ahead(y)
                 /\ \A q \in receiver[y].data_args \cap receiver'[y].data_args :
                        q \in receiver[y].whole => q \in receiver'[y].whole
        /\ \A y \in Receivers \ {t} : receiver'[y] = receiver[y]
    BY <1>0, <1>2, <1>3, InputReceived
  <1>7. /\ sender \in [Senders -> SenderType] /\ sender[t] \in SenderType /\ SenderInv(t)
        /\ mover[t].to \in Receivers
        /\ mover[t].pc = "announce" => mover[t].room \in Rooms
    BY <1>0, TransferFacts
  <1>8. /\ sender[f] \in SenderType /\ SenderInv(f) /\ mover[f].to \in Receivers
    BY <1>0, <1>4, TransferFacts
  <1> DEFINE asked == [sender EXCEPT ![f] = Asked(@, r, t)]
  <1>9. sender' = [asked EXCEPT ![t] = Opened(@, r)]
    BY <1>4 DEF TransformerTakes
  <1>10. /\ sender' \in [Senders -> SenderType]
         /\ \A u \in Senders :
               \/ SenderInv(u)'
               \/ /\ sender'[u] = sender[u] /\ output_watch'[u] = output_watch[u]
                  /\ Owned(u)' \subseteq Owned(u)
         /\ \A u \in Senders : \A q \in Rooms :
               sender'[u].request_status[q] = "success" => sender[u].request_status[q] = "success"
    <2>1. /\ Asked(sender[f], r, t) \in SenderType
          /\ Asked(sender[f], r, t).request_status = sender[f].request_status
      BY <1>0, <1>3, <1>8, AskedFacts
    <2>2. CASE f = t
      <3>1. /\ Opened(Asked(sender[t], r, t), r) \in SenderType
            /\ Opened(Asked(sender[t], r, t), r).request_status[r] = "waiting"
            /\ \A q \in Rooms \ {r} :
                   Opened(Asked(sender[t], r, t), r).request_status[q] = sender[t].request_status[q]
        BY <1>3, <2>1, <2>2, OpenedFacts
      <3>2. /\ sender' \in [Senders -> SenderType] /\ sender'[t] = Opened(Asked(sender[t], r, t), r)
            /\ \A u \in Senders \ {t} : sender'[u] = sender[u]
        <4>1. asked[t] = Asked(sender[t], r, t) /\ asked \in [Senders -> SenderType]
              /\ \A u \in Senders \ {t} : asked[u] = sender[u]
          BY <1>0, <1>7, <2>1, <2>2
        <4> HIDE DEF asked
        <4>2. sender' \in [Senders -> SenderType] /\ sender'[t] = Opened(asked[t], r)
              /\ \A u \in Senders \ {t} : sender'[u] = asked[u]
          BY <1>0, <1>9, <3>1, <4>1
        <4> QED BY <4>1, <4>2
      <3>3. SenderInv(t)' BY <1>0, <1>1, <1>3, <1>5, <1>7, <3>2, SenderAsksItself
      <3> QED BY <1>1, <1>5, <3>1, <3>2, <3>3, NodeFacts
    <2>3. CASE f # t
      <3>1. /\ Opened(sender[t], r) \in SenderType
            /\ Opened(sender[t], r).request_status[r] = "waiting"
            /\ \A q \in Rooms \ {r} : Opened(sender[t], r).request_status[q] = sender[t].request_status[q]
        BY <1>3, <1>7, OpenedFacts
      <3>2. /\ sender' \in [Senders -> SenderType] /\ sender'[t] = Opened(sender[t], r)
            /\ sender'[f] = Asked(sender[f], r, t)
            /\ \A u \in Senders \ {t, f} : sender'[u] = sender[u]
        BY <1>0, <1>4, <1>7, <1>9, <2>1, <2>3, <3>1
      <3>3. SenderInv(t)' BY <1>0, <1>1, <1>3, <1>5, <1>7, <3>2, SenderOpens
      <3>4. Owned(f)' \subseteq Owned(f) BY <1>4, <1>5, <2>3, NodeFacts
      <3>5. SenderInv(f)' BY <1>0, <1>1, <1>3, <1>4, <1>8, <3>2, <3>4, SenderIsAsked
      <3> QED BY <1>1, <1>5, <2>1, <3>1, <3>2, <3>3, <3>5, NodeFacts
    <2> QED BY <2>2, <2>3
  <1>11. TransferTypes' BY <1>0, <1>1, <1>6, <1>10 DEF TransferInv, TransferTypes
  <1>12. \A x \in Receivers :
               \/ InputTrue(x)'
               \/ /\ receiver'[x] = receiver[x]
                  /\ service'[x].waiting_queue \subseteq service[x].waiting_queue
                  /\ ToSet(service'[x].exec_queue) \subseteq ToSet(service[x].exec_queue)
    BY <1>3, <1>6, NodeFacts
  <1>13. TransferInv' BY <1>0, <1>1, <1>3, <1>6, <1>10, <1>11, <1>12, ServicesKeep
  <1> QED BY <1>3, <1>13 DEF FlowInv

LEMMA DecoderTakesStep ==
    ASSUME FlowInv, DecoderTakes
    PROVE  FlowInv'
  <1> DEFINE r == Offered(Decoder).room
             f == Offered(Decoder).from
  <1>0. /\ QueueInv /\ TransferInv /\ Decoder \notin Senders /\ Decoder \in Receivers /\ Decoder \in Nodes
    BY NodeFacts DEF FlowInv
  <1>1. UNCHANGED <<deployment, undecided, mover, output_watch>>
    BY DEF DecoderTakes, controllerVars
  <1>2. IsIdle(Decoder) /\ HasRequest(Decoder) /\ Take(Decoder) /\ AwaitInput(Decoder, r)
        /\ Receive(Decoder, r) /\ sender' = [sender EXCEPT ![f] = Asked(@, r, Decoder)]
    BY DEF DecoderTakes
  <1>3. /\ QueueInv' /\ Shrinks /\ r \in Rooms /\ r \in Ahead(Decoder) /\ r \notin Ahead(Decoder)'
        /\ service'[Decoder].waiting_queue = service[Decoder].waiting_queue \cup {r}
        /\ service'[Decoder].exec_queue = service[Decoder].exec_queue
        /\ \A m \in Nodes \ {Decoder} : service'[m] = service[m]
    BY <1>0, <1>1, <1>2, TakenAndAwaited
  <1>4. f \in Senders BY <1>0, <1>1, <1>2, TakeEffect DEF RequestType
  <1>5. \A m \in Nodes \ {Decoder} : Owned(m)' = Owned(m)
    BY <1>3 DEF Owned
  <1>6. /\ InputTrue(Decoder)' /\ receiver' \in [Receivers -> ReceiverType]
        /\ \A y \in Receivers :
                 /\ receiver'[y].data_args \subseteq receiver[y].data_args \cup Ahead(y)
                 /\ \A q \in receiver[y].data_args \cap receiver'[y].data_args :
                        q \in receiver[y].whole => q \in receiver'[y].whole
        /\ \A y \in Receivers \ {Decoder} : receiver'[y] = receiver[y]
    BY <1>0, <1>2, <1>3, InputReceived
  <1>7. \A u \in Senders : Owned(u)' \subseteq Owned(u) BY <1>0, <1>5, NodeFacts
  <1>8. /\ sender' \in [Senders -> SenderType]
        /\ \A u \in Senders :
               \/ SenderInv(u)'
               \/ /\ sender'[u] = sender[u] /\ output_watch'[u] = output_watch[u]
                  /\ Owned(u)' \subseteq Owned(u)
        /\ \A u \in Senders : sender'[u].request_status = sender[u].request_status
    BY <1>0, <1>1, <1>2, <1>3, <1>4, <1>7, SendersAsked
  <1>9. \A u \in Senders : \A q \in Rooms :
               sender'[u].request_status[q] = "success" => sender[u].request_status[q] = "success"
    BY <1>8
  <1>11. TransferTypes' BY <1>0, <1>1, <1>6, <1>8 DEF TransferInv, TransferTypes
  <1>12. \A x \in Receivers :
               \/ InputTrue(x)'
               \/ /\ receiver'[x] = receiver[x]
                  /\ service'[x].waiting_queue \subseteq service[x].waiting_queue
                  /\ ToSet(service'[x].exec_queue) \subseteq ToSet(service[x].exec_queue)
    BY <1>3, <1>6, NodeFacts
  <1>13. TransferInv' BY <1>0, <1>1, <1>3, <1>6, <1>8, <1>9, <1>11, <1>12, ServicesKeep
  <1> QED BY <1>3, <1>13 DEF FlowInv

\* A request is taken whose room cannot be opened.
LEMMA TakeFailsStep ==
    ASSUME FlowInv, NEW x \in Receivers, HasRequest(x), Take(x),
           sender' \in {sender, [sender EXCEPT ![Offered(x).from] = Asked(@, Offered(x).room, x)]},
           UNCHANGED <<mover, receiver, output_watch, deployment, service, undecided>>
    PROVE  FlowInv'
  <1> DEFINE r == Offered(x).room
             f == Offered(x).from
  <1>0. QueueInv /\ TransferInv /\ x \in Nodes BY NodeFacts DEF FlowInv
  <1>1. /\ QueueInv' /\ Shrinks /\ r \in Rooms /\ f \in Senders /\ r \notin Ahead(x)'
    BY <1>0, TakenAndLost DEF RequestType
  <1>2. \A m \in Nodes : Owned(m)' = Owned(m) BY DEF Owned
  <1>3. /\ sender' \in [Senders -> SenderType]
        /\ \A u \in Senders :
               \/ SenderInv(u)'
               \/ /\ sender'[u] = sender[u] /\ output_watch'[u] = output_watch[u]
                  /\ Owned(u)' \subseteq Owned(u)
        /\ \A u \in Senders : sender'[u].request_status = sender[u].request_status
    <2>1. CASE sender' = sender
      BY <1>0, <1>2, <2>1, NodeFacts DEF TransferInv, TransferTypes
    <2>2. CASE sender' = [sender EXCEPT ![f] = Asked(@, r, x)]
      <3>1. \A u \in Senders : Owned(u)' \subseteq Owned(u) BY <1>2, NodeFacts
      <3> QED BY <1>0, <1>1, <2>2, <3>1, SendersAsked
    <2> QED BY <2>1, <2>2
  <1>4. \A u \in Senders : \A q \in Rooms :
               sender'[u].request_status[q] = "success" => sender[u].request_status[q] = "success"
    BY <1>3
  <1>5. TransferTypes' BY <1>0, <1>3 DEF TransferInv, TransferTypes
  <1>6. TransferInv' BY <1>0, <1>1, <1>3, <1>4, <1>5, ServicesKeep
  <1> QED BY <1>1, <1>6 DEF FlowInv

LEMMA TransformerPublishesStep ==
    ASSUME FlowInv, NEW t \in Transformers, TransformerPublishes(t)
    PROVE  FlowInv'
  <1>0. QueueInv /\ TransferInv BY DEF FlowInv
  <1>1. /\ IsIdle(t) /\ Runs(t) /\ Produce("phase2", Request(Current(t), t)) /\ At(t, "send")
        /\ UNCHANGED <<transferVars, deployment, inbox, undecided>>
    BY DEF TransformerPublishes, controllerVars
  <1>2. /\ QueueInv' /\ Shrinks
        /\ \A m \in Nodes : /\ service'[m].waiting_queue = service[m].waiting_queue
                            /\ service'[m].exec_queue = service[m].exec_queue
    BY <1>0, <1>1, PublishedOne
  <1>3. \A n \in Nodes : Owned(n)' \subseteq Owned(n) BY <1>2 DEF Owned
  <1>4. \A x \in Receivers :
               /\ service'[x].waiting_queue \subseteq service[x].waiting_queue
               /\ ToSet(service'[x].exec_queue) \subseteq receiver[x].whole
    BY <1>0, <1>2, ReceiverFacts, NodeFacts DEF InputTrue
  <1>5. TransferInv' BY <1>0, <1>1, <1>2, <1>3, <1>4, TransferSame
  <1> QED BY <1>2, <1>5 DEF FlowInv

LEMMA TransformerFailsStep ==
    ASSUME FlowInv, NEW t \in Transformers, TransformerFails(t)
    PROVE  FlowInv'
  <1> DEFINE r == Current(t)
  <1>0. QueueInv /\ TransferInv /\ t \in Nodes /\ t \in Senders /\ t \in Receivers
    BY NodeFacts DEF FlowInv
  <1>1. /\ Runs(t) /\ Drop(t, r) /\ Close(t, r) /\ Finished(t)
        /\ UNCHANGED <<mover, output_watch, deployment, ring, inbox, undecided>>
    BY DEF TransformerFails, queueVars, controllerVars
  <1>2. /\ QueueInv' /\ Shrinks /\ r \in Rooms /\ r \in ToSet(service[t].exec_queue)
        /\ r \notin service[t].waiting_queue
        /\ service'[t].waiting_queue = service[t].waiting_queue
        /\ ToSet(service'[t].exec_queue) = ToSet(service[t].exec_queue) \ {r}
        /\ \A m \in Nodes \ {t} : service'[m] = service[m]
    BY <1>0, <1>1, FinishedOne
  <1>3. /\ Owned(t)' \subseteq Owned(t) \ {r} /\ r \in Owned(t)
        /\ \A m \in Nodes \ {t} : Owned(m)' = Owned(m)
    BY <1>2 DEF Owned
  <1>4. r \notin output_watch[t]
    BY <1>0, <1>3, TransferFacts DEF SenderInv, SenderOwns
  <1>5. /\ sender' \in [Senders -> SenderType]
        /\ \A u \in Senders :
               \/ SenderInv(u)'
               \/ /\ sender'[u] = sender[u] /\ output_watch'[u] = output_watch[u]
                  /\ Owned(u)' \subseteq Owned(u)
        /\ \A u \in Senders : \A q \in Rooms :
               sender'[u].request_status[q] = "success" => sender[u].request_status[q] = "success"
    BY <1>0, <1>1, <1>2, <1>3, <1>4, RoomClosed, NodeFacts
  <1>6. /\ InputTrue(t)' /\ receiver' \in [Receivers -> ReceiverType]
        /\ \A y \in Receivers :
                 /\ receiver'[y].data_args \subseteq receiver[y].data_args
                 /\ \A q \in receiver[y].data_args \cap receiver'[y].data_args :
                        q \in receiver[y].whole => q \in receiver'[y].whole
        /\ \A y \in Receivers \ {t} : receiver'[y] = receiver[y]
    <2>1. /\ service'[t].waiting_queue \subseteq service[t].waiting_queue \ {r}
          /\ ToSet(service'[t].exec_queue) \subseteq ToSet(service[t].exec_queue) \ {r}
      BY <1>2
    <2> QED BY <1>0, <1>1, <1>2, <2>1, InputDropped
  <1>7. TransferTypes' BY <1>0, <1>1, <1>5, <1>6 DEF TransferInv, TransferTypes
  <1>8. \A x \in Receivers :
               \/ InputTrue(x)'
               \/ /\ receiver'[x] = receiver[x]
                  /\ service'[x].waiting_queue \subseteq service[x].waiting_queue
                  /\ ToSet(service'[x].exec_queue) \subseteq ToSet(service[x].exec_queue)
    BY <1>2, <1>6, NodeFacts
  <1>9. TransferInv' BY <1>0, <1>1, <1>2, <1>5, <1>6, <1>7, <1>8, ServicesKeep
  <1> QED BY <1>2, <1>9 DEF FlowInv

\* The sidecar removes an output; the service drops the input it came from.
LEMMA TransformerCompletesStep ==
    ASSUME FlowInv, NEW t \in Transformers, TransformerCompletes(t)
    PROVE  FlowInv'
  <1>0. QueueInv /\ TransferInv /\ t \in Nodes /\ t \in Senders /\ t \in Receivers
    BY NodeFacts DEF FlowInv
  <1>1. PICK r \in output_watch[t] :
        /\ sender[t].request_status[r] \in Final
        /\ Unwatch(t, r)
        /\ Close(t, r)
        /\ IF t \in alive THEN Drop(t, r) ELSE UNCHANGED receiver
        /\ UNCHANGED <<mover, deployment, queueVars, service, controllerVars>>
    BY DEF TransformerCompletes
  <1>2. /\ QueueInv' /\ Shrinks /\ \A n \in Nodes : Owned(n)' = Owned(n)
    BY <1>0, <1>1, QueueSame DEF queueVars, controllerVars
  <1>3. /\ output_watch' = [output_watch EXCEPT ![t] = @ \ {r}]
        /\ output_watch \in [Senders -> SUBSET Rooms]
    BY <1>0, <1>1 DEF Unwatch, TransferInv, TransferTypes
  <1>4. /\ r \in Rooms /\ output_watch'[t] = output_watch[t] \ {r}
        /\ output_watch' \in [Senders -> SUBSET Rooms]
        /\ \A u \in Senders \ {t} : output_watch'[u] = output_watch[u]
    BY <1>0, <1>1, <1>3
  <1>5. r \notin Owned(t) /\ Owned(t)' \subseteq Owned(t) \ {r}
    BY <1>0, <1>1, <1>2, TransferFacts DEF SenderInv, SenderOwns
  <1>6. /\ sender' \in [Senders -> SenderType]
        /\ \A u \in Senders :
               \/ SenderInv(u)'
               \/ /\ sender'[u] = sender[u] /\ output_watch'[u] = output_watch[u]
                  /\ Owned(u)' \subseteq Owned(u)
        /\ \A u \in Senders : \A q \in Rooms :
               sender'[u].request_status[q] = "success" => sender[u].request_status[q] = "success"
    BY <1>0, <1>1, <1>2, <1>4, <1>5, RoomClosed, NodeFacts
  <1>7. /\ receiver' \in [Receivers -> ReceiverType]
        /\ \A y \in Receivers :
                 /\ receiver'[y].data_args \subseteq receiver[y].data_args
                 /\ \A q \in receiver[y].data_args \cap receiver'[y].data_args :
                        q \in receiver[y].whole => q \in receiver'[y].whole
        /\ \A y \in Receivers : InputTrue(y)' \/ receiver'[y] = receiver[y]
    <2>1. CASE t \in alive
      <3>1. Drop(t, r) BY <1>1, <2>1
      <3>2. /\ service'[t].waiting_queue \subseteq service[t].waiting_queue \ {r}
            /\ ToSet(service'[t].exec_queue) \subseteq ToSet(service[t].exec_queue) \ {r}
        BY <1>1, <1>5 DEF Owned
      <3> QED BY <1>0, <1>4, <3>1, <3>2, InputDropped
    <2>2. CASE t \notin alive
      <3>1. receiver' = receiver BY <1>1, <2>2
      <3> QED BY <1>0, <3>1 DEF TransferInv, TransferTypes
    <2> QED BY <2>1, <2>2
  <1>8. TransferTypes' BY <1>0, <1>1, <1>4, <1>6, <1>7 DEF TransferInv, TransferTypes
  <1>9. \A x \in Receivers :
               \/ InputTrue(x)'
               \/ /\ receiver'[x] = receiver[x]
                  /\ service'[x].waiting_queue \subseteq service[x].waiting_queue
                  /\ ToSet(service'[x].exec_queue) \subseteq ToSet(service[x].exec_queue)
    BY <1>1, <1>7
  <1>10. TransferInv' BY <1>0, <1>1, <1>2, <1>6, <1>7, <1>8, <1>9, ServicesKeep
  <1> QED BY <1>2, <1>10 DEF FlowInv

LEMMA DecoderRunsStep ==
    ASSUME FlowInv, NEW ok \in BOOLEAN, DecoderRuns(ok)
    PROVE  FlowInv'
  <1> DEFINE x == Decoder
             r == Current(Decoder)
  <1>0. QueueInv /\ TransferInv /\ x \in Nodes /\ x \notin Senders /\ x \in Receivers
    BY NodeFacts DEF FlowInv
  <1>1. /\ Runs(x) /\ Drop(x, r) /\ Finished(x)
        /\ UNCHANGED <<sender, mover, output_watch, deployment, ring, inbox, undecided>>
    BY DEF DecoderRuns, queueVars, controllerVars
  <1>2. /\ QueueInv' /\ Shrinks /\ r \in Rooms
        /\ r \notin service[x].waiting_queue
        /\ service'[x].waiting_queue = service[x].waiting_queue
        /\ ToSet(service'[x].exec_queue) = ToSet(service[x].exec_queue) \ {r}
        /\ \A m \in Nodes \ {x} : service'[m] = service[m]
    BY <1>0, <1>1, FinishedOne
  <1>3. \A u \in Senders : Owned(u)' \subseteq Owned(u) BY <1>0, <1>2, NodeFacts DEF Owned
  <1>4. /\ InputTrue(x)' /\ receiver' \in [Receivers -> ReceiverType]
        /\ \A y \in Receivers :
                 /\ receiver'[y].data_args \subseteq receiver[y].data_args
                 /\ \A q \in receiver[y].data_args \cap receiver'[y].data_args :
                        q \in receiver[y].whole => q \in receiver'[y].whole
        /\ \A y \in Receivers \ {x} : receiver'[y] = receiver[y]
    <2>1. /\ service'[x].waiting_queue \subseteq service[x].waiting_queue \ {r}
          /\ ToSet(service'[x].exec_queue) \subseteq ToSet(service[x].exec_queue) \ {r}
      BY <1>2
    <2> QED BY <1>0, <1>1, <1>2, <2>1, InputDropped
  <1>5. TransferTypes' BY <1>0, <1>1, <1>4 DEF TransferInv, TransferTypes
  <1>6. \A y \in Receivers :
               \/ InputTrue(y)'
               \/ /\ receiver'[y] = receiver[y]
                  /\ service'[y].waiting_queue \subseteq service[y].waiting_queue
                  /\ ToSet(service'[y].exec_queue) \subseteq ToSet(service[y].exec_queue)
    BY <1>2, <1>4, NodeFacts
  <1>7. TransferInv' BY <1>0, <1>1, <1>2, <1>3, <1>4, <1>5, <1>6, ServicesKeep
  <1> QED BY <1>2, <1>7 DEF FlowInv

LEMMA DispatchStep ==
    ASSUME FlowInv, NEW r \in Rooms, Dispatch(r)
    PROVE  FlowInv'
  <1>0. QueueInv /\ TransferInv BY DEF FlowInv
  <1>1. /\ r \in undecided /\ SendRequest(r) /\ undecided' = undecided \ {r}
        /\ UNCHANGED <<transferVars, deployment, service>>
    BY DEF Dispatch
  <1>2. QueueInv' /\ Shrinks BY <1>0, <1>1, Dispatched
  <1>3. \A n \in Nodes : Owned(n)' \subseteq Owned(n) BY <1>1 DEF Owned
  <1>4. \A x \in Receivers :
               /\ service'[x].waiting_queue \subseteq service[x].waiting_queue
               /\ ToSet(service'[x].exec_queue) \subseteq receiver[x].whole
    BY <1>0, <1>1, ReceiverFacts DEF InputTrue
  <1>5. TransferInv' BY <1>0, <1>1, <1>2, <1>3, <1>4, TransferSame
  <1> QED BY <1>2, <1>5 DEF FlowInv

\* The processes that start the next batch know of nothing.
Fresh == TransferInit /\ \A n \in Nodes : Owned(n) = {}

LEMMA FreshTransfer == Fresh => TransferInv
  <1> SUFFICES ASSUME Fresh PROVE TransferInv OBVIOUS
  <1>0. /\ sender = [s \in Senders |-> NewSender] /\ mover = [s \in Senders |-> Idle]
        /\ receiver = [x \in Receivers |-> NewReceiver] /\ output_watch = [s \in Senders |-> {}]
        /\ \A n \in Nodes : Owned(n) = {}
    BY DEF Fresh, TransferInit
  <1>1. /\ NewSender \in SenderType /\ NewReceiver \in ReceiverType /\ Idle \in MoverType
        /\ Idle.pc = "wait"
    BY NodeFacts DEF NewSender, NewReceiver, Idle, SenderType, ReceiverType, MoverType, Statuses
  <1>2. TransferTypes BY <1>0, <1>1 DEF TransferTypes
  <1>3. ASSUME NEW s \in Senders PROVE SenderInv(s) /\ ReportTrue(s)
    <2>1. /\ sender[s] = NewSender /\ mover[s] = Idle /\ output_watch[s] = {} /\ Owned(s) = {}
          /\ NewSender.data_args = {} /\ NewSender.waiting_pool = {} /\ NewSender.request_pool = {}
      BY <1>0, <1>3, NodeFacts DEF NewSender
    <2>2. Matches(s) = {} BY <2>1 DEF Matches
    <2> QED BY <1>1, <2>1, <2>2
            DEF SenderInv, ReportTrue, Unknown, SenderOwns, Announced, NoMissed, Busy
  <1>4. ASSUME NEW x \in Receivers PROVE InputTrue(x)
    <2>1. /\ receiver[x].data_args = {} /\ service[x].waiting_queue = {}
          /\ ToSet(service[x].exec_queue) = {}
      BY <1>0, <1>4, NodeFacts DEF NewReceiver, Owned
    <2> QED BY <2>1 DEF InputTrue
  <1> QED BY <1>2, <1>3, <1>4 DEF TransferInv

LEMMA DispatchFailsStep ==
    ASSUME FlowInv, DispatchFails
    PROVE  FlowInv'
  <1>0. QueueInv /\ deployment \in Deployments BY DEF FlowInv, QueueInv, QueueTypes
  <1>1. /\ ~Central /\ ring' = EmptyRings /\ service' = [n \in Nodes |-> NewService]
        /\ undecided' = {} /\ UNCHANGED <<deployment, inbox>> /\ TransferReset
    BY <1>0 DEF DispatchFails, Central
  <1>2. QueueInv' /\ \A n \in Nodes : Owned(n)' = {} BY <1>0, <1>1, BatchGivenUp
  <1>3. Fresh' BY <1>1, <1>2 DEF TransferReset, Fresh, TransferInit
  <1>4. TransferInv' BY <1>3, FreshTransfer, PTL
  <1> QED BY <1>2, <1>4 DEF FlowInv

LEMMA CollectStep ==
    ASSUME FlowInv, UNCHANGED <<transferVars, deployment, ring, inbox, service, undecided>>
    PROVE  FlowInv'
  <1>0. QueueInv /\ TransferInv BY DEF FlowInv
  <1>1. /\ QueueInv' /\ Shrinks /\ \A n \in Nodes : Owned(n)' = Owned(n)
    BY <1>0, QueueSame
  <1>2. \A x \in Receivers :
               /\ service'[x].waiting_queue \subseteq service[x].waiting_queue
               /\ ToSet(service'[x].exec_queue) \subseteq receiver[x].whole
    BY <1>0, ReceiverFacts DEF InputTrue
  <1>3. TransferInv' BY <1>0, <1>1, <1>2, TransferSame
  <1> QED BY <1>1, <1>3 DEF FlowInv

\* A service is killed; its sidecar and its sender go on.
LEMMA ReclaimStep ==
    ASSUME FlowInv, NEW t \in Transformers, Reclaim(t)
    PROVE  FlowInv'
  <1>0. QueueInv /\ TransferInv /\ t \in Nodes /\ t \in Senders /\ t \in Receivers
    BY NodeFacts DEF FlowInv
  <1>1. /\ service' = [service EXCEPT ![t] = NewService]
        /\ receiver' = [receiver EXCEPT ![t].data_args = {}, ![t].whole = {}]
        /\ UNCHANGED <<sender, mover, output_watch, deployment, ring, inbox, undecided>>
    BY DEF Reclaim, queueVars
  <1>2. /\ QueueInv' /\ Shrinks /\ service'[t] = NewService
        /\ \A m \in Nodes \ {t} : service'[m] = service[m]
    BY <1>0, <1>1, KilledOne
  <1>3. service'[t].waiting_queue = {} /\ ToSet(service'[t].exec_queue) = {}
    BY <1>2, SetOfEmpty DEF NewService
  <1>4. \A m \in Nodes : Owned(m)' \subseteq Owned(m) BY <1>2, <1>3 DEF Owned
  <1>5. receiver \in [Receivers -> ReceiverType] /\ receiver[t] \in ReceiverType
    BY <1>0, ReceiverFacts
  <1>6. /\ receiver' \in [Receivers -> ReceiverType]
        /\ receiver'[t].data_args = {} /\ receiver'[t].whole = {}
        /\ \A y \in Receivers \ {t} : receiver'[y] = receiver[y]
    BY <1>0, <1>1, <1>5 DEF ReceiverType
  <1>7. InputTrue(t)' BY <1>3, <1>6 DEF InputTrue
  <1>8. TransferTypes' BY <1>0, <1>1, <1>6 DEF TransferInv, TransferTypes
  <1>9. \A x \in Receivers :
               \/ InputTrue(x)'
               \/ /\ receiver'[x] = receiver[x]
                  /\ service'[x].waiting_queue \subseteq service[x].waiting_queue
                  /\ ToSet(service'[x].exec_queue) \subseteq ToSet(service[x].exec_queue)
    BY <1>2, <1>6, <1>7, NodeFacts
  <1>10. \A y \in Receivers :
                 /\ receiver'[y].data_args \subseteq receiver[y].data_args
                 /\ \A q \in receiver[y].data_args \cap receiver'[y].data_args :
                        q \in receiver[y].whole => q \in receiver'[y].whole
    BY <1>6
  <1>11. \A s \in Senders : Owned(s)' \subseteq Owned(s) BY <1>4, NodeFacts
  <1>12. TransferInv' BY <1>0, <1>1, <1>2, <1>8, <1>9, <1>10, <1>11, ServicesKeep
  <1> QED BY <1>2, <1>12 DEF FlowInv

-----------------------------------------------------------------------------
(* The transfer threads.                                                   *)

\* A transfer thread leaves the services, the other senders and the rooms of
\* the receivers alone.
LEMMA ThreadsKeep ==
    ASSUME FlowInv, TransferTypes',
           UNCHANGED <<deployment, ring, inbox, undecided, service, output_watch>>,
           NEW s \in Senders, SenderInv(s)', ReportTrue(s)',
           \A u \in Senders \ {s} : sender'[u] = sender[u] /\ mover'[u] = mover[u],
           \A x \in Receivers :
               /\ receiver'[x].data_args = receiver[x].data_args
               /\ receiver[x].whole \subseteq receiver'[x].whole
               /\ \A r \in receiver[x].data_args :
                      receiver'[x].request_status[r] = "success" => r \in receiver'[x].whole
    PROVE  FlowInv'
  <1>0. QueueInv /\ TransferInv BY DEF FlowInv
  <1>1. QueueInv' /\ Shrinks /\ \A n \in Nodes : Owned(n)' = Owned(n) BY <1>0, QueueSame
  <1>2. ASSUME NEW u \in Senders \ {s} PROVE SenderInv(u)' /\ ReportTrue(u)'
    <2>1. /\ sender[u] \in SenderType /\ SenderInv(u) /\ ReportTrue(u) /\ mover[u].to \in Receivers
      BY <1>0, TransferFacts
    <2>2. SenderInv(u)' BY <1>1, <2>1, SenderUntouched, NodeFacts
    <2>3. sender'[u] = sender[u] /\ mover'[u] = mover[u] BY <1>2
    <2>4. ReportTrue(u)' BY <2>1, <2>3 DEF ReportTrue
    <2> QED BY <2>2, <2>4
  <1>3. ASSUME NEW x \in Receivers PROVE InputTrue(x)'
    <2>1. InputTrue(x) BY <1>0, ReceiverFacts
    <2> QED BY <2>1 DEF InputTrue
  <1>4. TransferInv' BY <1>2, <1>3 DEF TransferInv
  <1> QED BY <1>1, <1>4 DEF FlowInv

LEMMA WakeStep ==
    ASSUME FlowInv, NEW s \in Senders, Wake(s), UNCHANGED <<receiver, output_watch>>,
           UNCHANGED <<deployment, ring, inbox, undecided, service>>
    PROVE  FlowInv'
  <1>0. QueueInv /\ TransferInv BY DEF FlowInv
  <1>1. /\ sender \in [Senders -> SenderType] /\ sender[s] \in SenderType /\ mover[s] \in MoverType
        /\ SenderInv(s) /\ mover \in [Senders -> MoverType] /\ mover[s].to \in Receivers
    BY <1>0, TransferFacts DEF TransferInv, TransferTypes
  <1>2. /\ sender' = [sender EXCEPT ![s].transfer_event = FALSE]
        /\ mover' = [mover EXCEPT ![s].pc = "scan"]
    BY DEF Wake
  <1>3. /\ sender' \in [Senders -> SenderType] /\ mover' \in [Senders -> MoverType]
        /\ sender'[s].data_args = sender[s].data_args
        /\ sender'[s].waiting_pool = sender[s].waiting_pool
        /\ sender'[s].request_pool = sender[s].request_pool
        /\ mover'[s].pc = "scan"
        /\ \A u \in Senders \ {s} : sender'[u] = sender[u] /\ mover'[u] = mover[u]
    BY <1>1, <1>2 DEF SenderType, MoverType
  <1>4. \A u \in Senders : mover'[u].pc \in {"announce", "report"} => mover'[u].room \in Rooms
    BY <1>0, <1>3, TransferFacts
  <1>5. TransferTypes' BY <1>0, <1>3, <1>4 DEF TransferInv, TransferTypes
  <1>6. \A n \in Nodes : Owned(n)' = Owned(n) /\ Ahead(n)' = Ahead(n) BY <1>0, QueueSame
  <1>7. SenderInv(s)'
    <2>1. Owned(s)' = Owned(s) /\ Ahead(s)' = Ahead(s) BY <1>6, NodeFacts
    <2>2. \A p \in sender[s].waiting_pool : p[2] \in Nodes
      BY <1>1, NodeFacts DEF SenderType
    <2>3. Unknown(s)'
      BY <1>1, <1>3, <1>6, <2>1, <2>2 DEF SenderInv, Unknown, Busy
    <2>4. SenderOwns(s)' /\ Announced(s)' /\ NoMissed(s)'
      BY <1>1, <1>3, <2>1 DEF SenderInv, SenderOwns, Announced, NoMissed
    <2> QED BY <2>3, <2>4 DEF SenderInv
  <1>8. ReportTrue(s)' BY <1>3 DEF ReportTrue
  <1>9. \A x \in Receivers :
               /\ receiver'[x].data_args = receiver[x].data_args
               /\ receiver[x].whole \subseteq receiver'[x].whole
               /\ \A r \in receiver[x].data_args :
                      receiver'[x].request_status[r] = "success" => r \in receiver'[x].whole
    BY <1>0, ReceiverFacts DEF InputTrue
  <1> QED BY <1>3, <1>5, <1>7, <1>8, <1>9, ThreadsKeep

LEMMA PickStep ==
    ASSUME FlowInv, NEW s \in Senders, Pick(s), UNCHANGED <<receiver, output_watch>>,
           UNCHANGED <<deployment, ring, inbox, undecided, service>>
    PROVE  FlowInv'
  <1>0. QueueInv /\ TransferInv BY DEF FlowInv
  <1>1. /\ sender \in [Senders -> SenderType] /\ sender[s] \in SenderType /\ mover[s] \in MoverType
        /\ SenderInv(s) /\ mover \in [Senders -> MoverType] /\ mover[s].to \in Receivers
    BY <1>0, TransferFacts DEF TransferInv, TransferTypes
  <1>2. PICK p \in Matches(s) :
          /\ sender' = [sender EXCEPT ![s].waiting_pool = @ \ {p},
                                      ![s].request_pool = @ \ {p[1]},
                                      ![s].request_status[p[1]] = "transferring"]
          /\ mover' = [mover EXCEPT ![s] = [pc |-> "announce", room |-> p[1], to |-> p[2]]]
    BY DEF Pick
  <1>3. /\ p \in sender[s].waiting_pool /\ p[1] \in sender[s].request_pool
        /\ p[1] \in Rooms /\ p[2] \in Receivers
    BY <1>1 DEF Matches, SenderType
  <1>4. /\ sender' \in [Senders -> SenderType] /\ mover' \in [Senders -> MoverType]
        /\ sender'[s].data_args = sender[s].data_args
        /\ sender'[s].waiting_pool \subseteq sender[s].waiting_pool
        /\ sender'[s].request_pool \subseteq sender[s].request_pool
        /\ sender'[s].request_status[p[1]] = "transferring"
        /\ mover'[s].pc = "announce" /\ mover'[s].room = p[1] /\ mover'[s].to = p[2]
        /\ \A u \in Senders \ {s} : sender'[u] = sender[u] /\ mover'[u] = mover[u]
    <2>1. [pc |-> "announce", room |-> p[1], to |-> p[2]] \in MoverType BY <1>3 DEF MoverType
    <2>2. /\ mover' \in [Senders -> MoverType]
          /\ mover'[s] = [pc |-> "announce", room |-> p[1], to |-> p[2]]
          /\ \A u \in Senders \ {s} : mover'[u] = mover[u]
      BY <1>1, <1>2, <2>1
    <2>3. DOMAIN sender = Senders /\ DOMAIN sender[s].request_status = Rooms /\ "transferring" \in Statuses
      BY <1>1 DEF SenderType, Statuses
    <2>4. /\ sender' \in [Senders -> SenderType]
          /\ sender'[s].data_args = sender[s].data_args
          /\ sender'[s].waiting_pool = sender[s].waiting_pool \ {p}
          /\ sender'[s].request_pool = sender[s].request_pool \ {p[1]}
          /\ sender'[s].request_status[p[1]] = "transferring"
          /\ \A u \in Senders \ {s} : sender'[u] = sender[u]
      BY <1>1, <1>2, <1>3, <2>3 DEF SenderType
    <2> QED BY <2>2, <2>4
  <1>5. \A u \in Senders : mover'[u].pc \in {"announce", "report"} => mover'[u].room \in Rooms
    BY <1>0, <1>3, <1>4, TransferFacts
  <1>6. TransferTypes' BY <1>0, <1>4, <1>5 DEF TransferInv, TransferTypes
  <1>7. \A n \in Nodes : Owned(n)' = Owned(n) /\ Ahead(n)' = Ahead(n) BY <1>0, QueueSame
  <1>8. SenderInv(s)'
    <2>1. Owned(s)' = Owned(s) /\ Ahead(s)' = Ahead(s) /\ Ahead(p[2])' = Ahead(p[2])
      BY <1>3, <1>7, NodeFacts
    <2>2. \A q \in sender[s].waiting_pool : q[2] \in Nodes
      BY <1>1, NodeFacts DEF SenderType
    <2>3. Unknown(s)'
      BY <1>1, <1>3, <1>4, <1>7, <2>1, <2>2 DEF SenderInv, Unknown, Busy
    <2>4. SenderOwns(s)' /\ Announced(s)' /\ NoMissed(s)'
      BY <1>1, <1>3, <1>4, <2>1 DEF SenderInv, SenderOwns, Announced, NoMissed, Final
    <2> QED BY <2>3, <2>4 DEF SenderInv
  <1>9. ReportTrue(s)' BY <1>4 DEF ReportTrue
  <1>10. \A x \in Receivers :
               /\ receiver'[x].data_args = receiver[x].data_args
               /\ receiver[x].whole \subseteq receiver'[x].whole
               /\ \A r \in receiver[x].data_args :
                      receiver'[x].request_status[r] = "success" => r \in receiver'[x].whole
    BY <1>0, ReceiverFacts DEF InputTrue
  <1> QED BY <1>4, <1>6, <1>8, <1>9, <1>10, ThreadsKeep

\* The thread goes on to look at the pools, or to sleep.
LEMMA RestStep ==
    ASSUME FlowInv, NEW s \in Senders, UNCHANGED <<sender, output_watch>>,
           UNCHANGED <<deployment, ring, inbox, undecided, service>>,
           NEW m \in MoverType, mover' = [mover EXCEPT ![s] = m],
           m.pc = "scan" \/ (m.pc = "wait" /\ Matches(s) = {}),
           receiver' \in [Receivers -> ReceiverType],
           \A x \in Receivers :
               /\ receiver'[x].data_args = receiver[x].data_args
               /\ receiver[x].whole \subseteq receiver'[x].whole
               /\ \A r \in receiver[x].data_args :
                      receiver'[x].request_status[r] = "success" => r \in receiver'[x].whole
    PROVE  FlowInv'
  <1>0. QueueInv /\ TransferInv BY DEF FlowInv
  <1>1. /\ SenderInv(s) /\ mover \in [Senders -> MoverType] /\ sender[s] \in SenderType
    BY <1>0, TransferFacts DEF TransferInv, TransferTypes
  <1>2. /\ mover' \in [Senders -> MoverType] /\ mover'[s] = m
        /\ \A u \in Senders \ {s} : sender'[u] = sender[u] /\ mover'[u] = mover[u]
    BY <1>1
  <1>3. \A u \in Senders : mover'[u].pc \in {"announce", "report"} => mover'[u].room \in Rooms
    BY <1>0, <1>2, TransferFacts
  <1>4. TransferTypes' BY <1>0, <1>2, <1>3 DEF TransferInv, TransferTypes
  <1>5. \A n \in Nodes : Owned(n)' = Owned(n) /\ Ahead(n)' = Ahead(n) BY <1>0, QueueSame
  <1>6. SenderInv(s)'
    <2>1. Owned(s)' = Owned(s) /\ Ahead(s)' = Ahead(s) /\ Matches(s)' = Matches(s)
      BY <1>5, NodeFacts DEF Matches
    <2>2. \A p \in sender[s].waiting_pool : p[2] \in Nodes
      BY <1>1, NodeFacts DEF SenderType
    <2>3. Unknown(s)' BY <1>1, <1>2, <1>5, <2>1, <2>2 DEF SenderInv, Unknown, Busy
    <2>4. SenderOwns(s)' /\ Announced(s)' /\ NoMissed(s)'
      BY <1>1, <1>2, <2>1 DEF SenderInv, SenderOwns, Announced, NoMissed
    <2> QED BY <2>3, <2>4 DEF SenderInv
  <1>7. ReportTrue(s)' BY <1>2 DEF ReportTrue
  <1> QED BY <1>2, <1>4, <1>6, <1>7, ThreadsKeep

\* The data is sent, and the status noted; the room is still watched.
LEMMA TransferDone ==
    ASSUME FlowInv, NEW s \in Senders, NEW ok \in BOOLEAN, Transfer(s, ok),
           UNCHANGED <<deployment, ring, inbox, undecided, service>>
    PROVE  FlowInv'
  <1> DEFINE r == mover[s].room
             x == mover[s].to
  <1>0. QueueInv /\ TransferInv BY DEF FlowInv
  <1>1. /\ sender \in [Senders -> SenderType] /\ sender[s] \in SenderType /\ mover[s] \in MoverType
        /\ SenderInv(s) /\ mover \in [Senders -> MoverType] /\ x \in Receivers
        /\ mover[s].pc = "announce" /\ r \in Rooms
    BY <1>0, TransferFacts DEF TransferInv, TransferTypes, Transfer
  <1>2. /\ sender' = [sender EXCEPT ![s].request_status[r] = IF ok THEN "success" ELSE "failed"]
        /\ mover' = [mover EXCEPT ![s].pc = "report"]
        /\ output_watch' = output_watch
        /\ receiver' = IF ok /\ r \in receiver[x].data_args
                       THEN [receiver EXCEPT ![x].whole = @ \cup {r}]
                       ELSE receiver
    BY DEF Transfer
  <1>3. /\ mover' \in [Senders -> MoverType]
        /\ mover'[s].pc = "report" /\ mover'[s].room = r /\ mover'[s].to = x
        /\ \A u \in Senders \ {s} : mover'[u] = mover[u]
    BY <1>1, <1>2 DEF MoverType
  <1>4. /\ sender' \in [Senders -> SenderType]
        /\ sender'[s].data_args = sender[s].data_args
        /\ sender'[s].waiting_pool = sender[s].waiting_pool
        /\ sender'[s].request_pool = sender[s].request_pool
        /\ sender'[s].request_status[r] = IF ok THEN "success" ELSE "failed"
        /\ \A u \in Senders \ {s} : sender'[u] = sender[u]
    BY <1>1, <1>2 DEF SenderType, Statuses
  <1>5. receiver \in [Receivers -> ReceiverType] BY <1>0 DEF TransferInv, TransferTypes
  <1>6. /\ receiver' \in [Receivers -> ReceiverType]
        /\ ok /\ r \in receiver[x].data_args => r \in receiver'[x].whole
        /\ \A y \in Receivers :
               /\ receiver'[y].data_args = receiver[y].data_args
               /\ receiver[y].whole \subseteq receiver'[y].whole
               /\ receiver'[y].request_status = receiver[y].request_status
    <2>1. CASE ok /\ r \in receiver[x].data_args
      <3>1. receiver' = [receiver EXCEPT ![x].whole = @ \cup {r}] BY <1>2, <2>1
      <3> QED BY <1>1, <1>5, <3>1 DEF ReceiverType
    <2>2. CASE ~(ok /\ r \in receiver[x].data_args)
      <3>1. receiver' = receiver BY <1>2, <2>2
      <3> QED BY <1>5, <2>2, <3>1
    <2> QED BY <2>1, <2>2
  <1>7. \A u \in Senders : mover'[u].pc \in {"announce", "report"} => mover'[u].room \in Rooms
    BY <1>0, <1>1, <1>3, TransferFacts
  <1>8. TransferTypes' BY <1>0, <1>2, <1>3, <1>4, <1>6, <1>7 DEF TransferInv, TransferTypes
  <1>9. \A n \in Nodes : Owned(n)' = Owned(n) /\ Ahead(n)' = Ahead(n) BY <1>0, QueueSame
  <1>10. SenderInv(s)'
    <2>1. Owned(s)' = Owned(s) /\ Ahead(s)' = Ahead(s)
      BY <1>9, NodeFacts
    <2>2. \A p \in sender[s].waiting_pool : p[2] \in Nodes
      BY <1>1, NodeFacts DEF SenderType
    <2>3. Unknown(s)'
      <3>1. r \notin Ahead(x) BY <1>1 DEF SenderInv, Unknown, Busy
      <3>2. (mover[s].room \notin Ahead(mover[s].to))'
        BY <1>1, <1>3, <1>9, <3>1, NodeFacts
      <3>3. (Ahead(s) \cap sender[s].data_args = {})'
        BY <1>1, <1>4, <2>1 DEF SenderInv, Unknown
      <3>4. (\A p \in sender[s].waiting_pool : p[1] \notin Ahead(p[2]))'
        BY <1>1, <1>4, <1>9, <2>2 DEF SenderInv, Unknown
      <3> QED BY <3>2, <3>3, <3>4 DEF Unknown
    <2>4. SenderOwns(s)' /\ Announced(s)' /\ NoMissed(s)'
      BY <1>1, <1>2, <1>3, <1>4, <2>1 DEF SenderInv, SenderOwns, Announced, NoMissed
    <2> QED BY <2>3, <2>4 DEF SenderInv
  <1>11. ReportTrue(s)' BY <1>1, <1>3, <1>4, <1>6 DEF ReportTrue
  <1>12. \A y \in Receivers : \A q \in receiver[y].data_args :
             receiver'[y].request_status[q] = "success" => q \in receiver'[y].whole
    BY <1>0, <1>6, ReceiverFacts DEF InputTrue
  <1> QED BY <1>2, <1>3, <1>4, <1>6, <1>8, <1>10, <1>11, <1>12, ThreadsKeep

\* The final status reaches the receiver: good news is true.
LEMMA ReportStep ==
    ASSUME FlowInv, NEW s \in Senders, Report(s), UNCHANGED output_watch,
           UNCHANGED <<deployment, ring, inbox, undecided, service>>
    PROVE  FlowInv'
  <1> DEFINE r == mover[s].room
             x == mover[s].to
             m == [mover[s] EXCEPT !.pc = "scan"]
  <1>0. QueueInv /\ TransferInv BY DEF FlowInv
  <1>1. /\ mover[s] \in MoverType /\ mover \in [Senders -> MoverType] /\ x \in Receivers
        /\ mover[s].pc = "report" /\ r \in Rooms /\ ReportTrue(s)
        /\ sender[s].request_status \in [Rooms -> Statuses]
        /\ receiver \in [Receivers -> ReceiverType]
    BY <1>0, TransferFacts DEF TransferInv, TransferTypes, Report
  <1>2. /\ mover' = [mover EXCEPT ![s] = m] /\ m \in MoverType /\ m.pc = "scan"
        /\ UNCHANGED sender /\ Sync(s)
    BY <1>1 DEF Report, MoverType
  <1>3. ASSUME NEW y \in Receivers
        PROVE  \A q \in receiver[y].data_args :
                   receiver[y].request_status[q] = "success" => q \in receiver[y].whole
    BY <1>0, ReceiverFacts DEF InputTrue
  <1>4. /\ receiver' \in [Receivers -> ReceiverType]
        /\ \A y \in Receivers :
               /\ receiver'[y].data_args = receiver[y].data_args
               /\ receiver[y].whole \subseteq receiver'[y].whole
               /\ \A q \in receiver[y].data_args :
                      receiver'[y].request_status[q] = "success" => q \in receiver'[y].whole
    <2>1. CASE r \in receiver[x].data_args
      <3>1. receiver' = [receiver EXCEPT ![x].request_status[r] = sender[s].request_status[r]]
        BY <1>2, <2>1 DEF Sync
      <3>2. /\ receiver' \in [Receivers -> ReceiverType]
            /\ receiver'[x].data_args = receiver[x].data_args
            /\ receiver'[x].whole = receiver[x].whole
            /\ receiver'[x].request_status[r] = sender[s].request_status[r]
            /\ \A q \in Rooms \ {r} : receiver'[x].request_status[q] = receiver[x].request_status[q]
            /\ \A y \in Receivers \ {x} : receiver'[y] = receiver[y]
        BY <1>1, <3>1 DEF ReceiverType
      <3>3. sender[s].request_status[r] = "success" => r \in receiver[x].whole
        BY <1>1, <2>1 DEF ReportTrue
      <3>4. receiver[x].data_args \subseteq Rooms BY <1>1 DEF ReceiverType
      <3>5. \A q \in receiver[x].data_args :
                receiver'[x].request_status[q] = "success" => q \in receiver'[x].whole
        BY <1>1, <1>3, <3>2, <3>3, <3>4
      <3> QED BY <1>3, <3>2, <3>5
    <2>2. CASE r \notin receiver[x].data_args
      <3>1. receiver' = receiver BY <1>2, <2>2 DEF Sync
      <3> QED BY <1>1, <1>3, <3>1
    <2> QED BY <2>1, <2>2
  <1> HIDE DEF m
  <1> QED BY <1>2, <1>4, RestStep

\* No service has removed a room whose transfer is announced.
LEMMA NeverDies ==
    ASSUME FlowInv, NEW s \in Senders
    PROVE  ~Dies(s)
  <1>1. SenderInv(s) BY TransferFacts DEF FlowInv
  <1>2. mover[s].pc = "announce" => mover[s].room \in sender[s].data_args
    BY <1>1 DEF SenderInv, SenderOwns, Announced
  <1> QED BY <1>2 DEF Dies, CanSync

LEMMA ThreadStep ==
    ASSUME FlowInv, NEW s \in Senders, TransferStep(s)
    PROVE  FlowInv'
  <1>0. QueueInv /\ TransferInv /\ mover[s] \in MoverType /\ mover \in [Senders -> MoverType]
        /\ receiver \in [Receivers -> ReceiverType]
    BY TransferFacts DEF FlowInv, TransferInv, TransferTypes
  <1>1. UNCHANGED <<deployment, ring, inbox, undecided, service>>
    BY DEF TransferStep, TransferFails, FinalStatusLost, flowVars, queueVars, controllerVars
  <1>2. receiver' = receiver => \A x \in Receivers :
               /\ receiver'[x].data_args = receiver[x].data_args
               /\ receiver[x].whole \subseteq receiver'[x].whole
               /\ \A r \in receiver[x].data_args :
                      receiver'[x].request_status[r] = "success" => r \in receiver'[x].whole
    BY <1>0, ReceiverFacts DEF InputTrue
  <1>3. CASE Wake(s) /\ UNCHANGED <<receiver, output_watch>> BY <1>1, <1>3, WakeStep
  <1>4. CASE Pick(s) /\ UNCHANGED <<receiver, output_watch>> BY <1>1, <1>4, PickStep
  <1>5. CASE Rest(s) /\ UNCHANGED <<receiver, output_watch>>
    <2>1. Idle \in MoverType /\ Idle.pc = "wait" BY NodeFacts DEF Idle, MoverType
    <2>2. mover' = [mover EXCEPT ![s] = Idle] /\ Matches(s) = {} /\ UNCHANGED sender
      BY <1>5 DEF Rest
    <2> QED BY <1>0, <1>1, <1>2, <1>5, <2>1, <2>2, RestStep
  <1>6. CASE Dies(s) BY <1>6, NeverDies
  <1>7. CASE Transfer(s, TRUE) BY <1>1, <1>7, TransferDone
  <1>8. CASE Transfer(s, FALSE) BY <1>1, <1>8, TransferDone
  <1>9. CASE Report(s) /\ UNCHANGED output_watch BY <1>1, <1>9, ReportStep
  <1>10. CASE ReportLost(s)
    <2> DEFINE m == [mover[s] EXCEPT !.pc = "scan"]
    <2>1. /\ mover' = [mover EXCEPT ![s] = m] /\ m \in MoverType /\ m.pc = "scan"
          /\ UNCHANGED <<sender, receiver, output_watch>>
      BY <1>0, <1>10 DEF ReportLost, MoverType
    <2> HIDE DEF m
    <2> QED BY <1>0, <1>1, <1>2, <2>1, RestStep
  <1> QED
    BY <1>3, <1>4, <1>5, <1>6, <1>7, <1>8, <1>9, <1>10
    DEF TransferStep, MoverStep, TransferFails, FinalStatusLost

-----------------------------------------------------------------------------
(* The invariant holds, and what follows.                                  *)

LEMMA FlowInit == Init => FlowInv
  <1> SUFFICES ASSUME Init PROVE FlowInv OBVIOUS
  <1>1. /\ ring = [p \in Phases |-> <<>>] /\ inbox = [n \in Nodes |-> <<>>]
        /\ service = [n \in Nodes |-> NewService] /\ undecided = Rooms
        /\ deployment \in Deployments /\ TransferInit
    BY DEF Init, EmptyRings, Phases
  <1>2. /\ NewService \in ServiceType /\ NewService.pc = "idle" /\ NewService.waiting_queue = {}
        /\ NewService.exec_queue = <<>>
    BY DEF NewService, ServiceType
  <1>3. \A n \in Nodes : Owned(n) = {} BY <1>1, <1>2, SetOfEmpty DEF Owned
  <1>4. QueueTypes BY <1>1, <1>2 DEF QueueTypes
  <1>5. \A t \in Transformers : Unpublished(t) = {}
    BY <1>1, <1>2, NodeFacts, SetOfEmpty DEF Unpublished
  <1>6. RingOrder
    <2>1. \A p \in Phases : RoomsOf(ring[p]) = {} /\ NoTwice(ring[p]) BY <1>1, RoomsOfNone
    <2> QED BY <1>5, <2>1 DEF RingOrder, Phases
  <1>7. InboxOrder BY <1>1, RoomsOfNone DEF InboxOrder
  <1>8. OwnedOnce
    <2>1. Once(<<>>) BY DEF Once
    <2> QED BY <1>1, <1>2, <1>3, <2>1, SetOfEmpty DEF OwnedOnce
  <1>9. TransferInv BY <1>1, <1>3, FreshTransfer DEF Fresh
  <1> QED BY <1>4, <1>6, <1>7, <1>8, <1>9 DEF FlowInv, QueueInv

LEMMA FlowStep == FlowInv /\ [Next]_vars => FlowInv'
  <1> SUFFICES ASSUME FlowInv, [Next]_vars PROVE FlowInv' OBVIOUS
  <1> USE NodeFacts
  <1>1. CASE EncoderStep
    <2>1. CASE EncoderRuns BY <2>1, EncoderRunsStep
    <2>2. CASE EncoderFails BY <2>2, EncoderFailsStep
    <2>3. CASE EncoderOffers
      BY <2>3, OffersStep DEF EncoderOffers, queueVars, controllerVars
    <2>4. CASE EncoderCompletes BY <2>4, EncoderCompletesStep
    <2> QED BY <1>1, <2>1, <2>2, <2>3, <2>4 DEF EncoderStep
  <1>2. CASE DecoderStep
    <2>1. CASE DecoderTakes BY <2>1, DecoderTakesStep
    <2>2. CASE DecoderTakeFails
      BY <2>2, TakeFailsStep DEF DecoderTakeFails, controllerVars
    <2>3. CASE Ready(Decoder) BY <2>3, ReadyStep
    <2>4. CASE FailedInput(Decoder) BY <2>4, FailedInputStep
    <2>5. CASE \E ok \in BOOLEAN : DecoderRuns(ok) BY <2>5, DecoderRunsStep
    <2> QED BY <1>2, <2>1, <2>2, <2>3, <2>4, <2>5 DEF DecoderStep
  <1>3. CASE ControllerStep
    <2>1. CASE \E r \in Rooms : Dispatch(r) BY <2>1, DispatchStep
    <2>2. CASE DispatchFails BY <2>2, DispatchFailsStep
    <2>3. CASE Collect BY <2>3, CollectStep DEF Collect, queueVars
    <2> QED BY <1>3, <2>1, <2>2, <2>3 DEF ControllerStep
  <1>4. CASE \E s \in Senders : TransferStep(s) BY <1>4, ThreadStep
  <1>5. ASSUME NEW t \in Transformers, TransformerStep(t) PROVE FlowInv'
    <2>1. CASE TransformerTakes(t) BY <2>1, TransformerTakesStep
    <2>2. CASE TransformerTakeFails(t)
      BY <2>2, TakeFailsStep DEF TransformerTakeFails, controllerVars
    <2>3. CASE Ready(t) BY <2>3, ReadyStep
    <2>4. CASE FailedInput(t) BY <2>4, FailedInputStep
    <2>5. CASE TransformerPublishes(t) BY <2>5, TransformerPublishesStep
    <2>6. CASE TransformerOffers(t)
      BY <2>6, OffersStep DEF TransformerOffers, queueVars, controllerVars
    <2>7. CASE TransformerFails(t) BY <2>7, TransformerFailsStep
    <2> QED BY <1>5, <2>1, <2>2, <2>3, <2>4, <2>5, <2>6, <2>7 DEF TransformerStep
  <1>6. CASE \E t \in Transformers : TransformerCompletes(t) BY <1>6, TransformerCompletesStep
  <1>7. CASE \E t \in Transformers : Reclaim(t) BY <1>7, ReclaimStep
  <1>8. CASE UNCHANGED vars
    BY <1>8, CollectStep DEF vars, queueVars, controllerVars
  <1> QED BY <1>1, <1>2, <1>3, <1>4, <1>5, <1>6, <1>7, <1>8 DEF Next

\* The transfer state, the rings, inboxes and queues of the services always
\* have their types, a room is at one place of the chain, and a service that is
\* about to send is a sender that has a room (encoder.py, transformer.py,
\* decoder.py, conn.py).
THEOREM FlowInvariant == Spec => []FlowInv
  BY FlowInit, FlowStep, PTL DEF Spec

\* The data managers and transfer threads of conn.py keep their types.
THEOREM TransferTypeCorrect == Spec => []RoomTransferTypeOK
  <1>1. FlowInv => RoomTransferTypeOK
    BY DEF FlowInv, TransferInv, TransferTypes, RoomTransferTypeOK, SenderType, MoverType, ReceiverType
  <1> QED BY <1>1, FlowInvariant, PTL

\* The transfer thread never sleeps over a room that was both asked for and
\* offered, in whatever order pull message, room thread and service change the
\* pools and the event (transfer_loop of conn.py).
THEOREM NoPairMissed == Spec => []NoMissedPair
  <1>1. FlowInv => NoMissedPair
    BY DEF FlowInv, TransferInv, SenderInv, NoMissed, NoMissedPair
  <1> QED BY <1>1, FlowInvariant, PTL

\* No service and no sidecar removes a room whose transfer is announced, so the
\* status sent outside the try block never ends the transfer thread.
THEOREM MoversLive == Spec => []MoverLives
  <1>1. FlowInv => MoverLives
    BY DEF FlowInv, TransferInv, SenderInv, Announced, MoverLives
  <1> QED BY <1>1, FlowInvariant, PTL

\* Transformers and decoder compute only with rooms whose tensors have all
\* arrived and are still there (process of transformer.py and decoder.py).
THEOREM UsesWholeRooms == Spec => []WholeWhenUsed
  <1>1. FlowInv => WholeWhenUsed
    BY DEF FlowInv, TransferInv, InputTrue, WholeWhenUsed
  <1> QED BY <1>1, FlowInvariant, PTL
=============================================================================
