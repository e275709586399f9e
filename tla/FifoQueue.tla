----------------------------- MODULE FifoQueue -----------------------------
(***************************************************************************)
(* What a meta ring promises its users, without counters, slots or         *)
(* addresses: a bounded first-in first-out queue, of which every dequeue   *)
(* hands the front to one consumer.  RdmaRing implements it when it has    *)
(* one producer.                                                           *)
(***************************************************************************)
EXTENDS Integers, Sequences

CONSTANTS
    Configs,
    Capacity,
    Lossy     \* whether a dequeue may lose its item on the way

VARIABLES
    queue,
    delivered  \* how often each config was handed to a consumer

queueVars == <<queue, delivered>>

Init == queue = <<>> /\ delivered = [c \in Configs |-> 0]

Enqueue(c) ==
    /\ Len(queue) < Capacity
    /\ queue' = Append(queue, c)
    /\ UNCHANGED delivered

Dequeue ==
    /\ queue # <<>>
    /\ queue' = Tail(queue)
    /\ delivered' = [delivered EXCEPT ![Head(queue)] = @ + 1]

Lose ==
    /\ Lossy
    /\ queue # <<>>
    /\ queue' = Tail(queue)
    /\ UNCHANGED delivered

Next == Dequeue \/ Lose \/ \E c \in Configs : Enqueue(c)

Spec == Init /\ [][Next]_queueVars

=============================================================================
