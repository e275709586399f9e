------------------------------ MODULE RdmaRing ------------------------------
(***************************************************************************)
(* The meta rings of the disaggregated services, class RDMABuffer of       *)
(* disagg/rdma_buffer.py.  One such ring, in the memory of the controller, *)
(* hands requests to the encoders, one hands rooms on to the transformers  *)
(* and one to the decoders.                                                *)
(*                                                                         *)
(* Nobody owns the ring: a producer and a consumer read and write its      *)
(* memory with one-sided operations, each of which is a step of its own.   *)
(* A slot is written and read in parts, its length header and its body.    *)
(*                                                                         *)
(* head and tail are counters of 64 bits that only grow.  The model never  *)
(* brings them near 2^64; their unsigned distance is taken modulo Modulus. *)
(***************************************************************************)
EXTENDS Integers, Sequences, FiniteSets

CONSTANTS
    Producers, Consumers,
    Configs,   \* the configs that are to be produced, one call for each
    NoConfig,  \* what an empty part of a slot holds
    Size,      \* buffer_size, the number of slots
    Modulus,   \* 2^64 in the code
    MaxFaults, \* bound on the number of failed RDMA operations
    LostAcks   \* whether a failed atomic may have been executed all the same

ASSUME RingAssumption ==
    /\ NoConfig \notin Configs
    /\ Size \in Nat \ {0}
    /\ Modulus \in Nat /\ Modulus > Size
    /\ MaxFaults \in Nat
    /\ LostAcks \in BOOLEAN

VARIABLES
    head, tail,
    slot,       \* of each slot, whose length header and whose body it holds
    todo,       \* the configs no producer has taken up
    at,         \* where each producer is in produce, "idle" outside
    config,     \* what it produces
    old_tail,   \* the tail it read
    stage,      \* where each consumer is in consume, "idle" outside
    cur_head,   \* the head it read
    read,       \* the parts of the slot it read
    delivered,  \* history: how often consume returned each config
    faults      \* history: how many RDMA operations failed

ringVars == <<head, tail, slot>>
produceVars == <<todo, at, config, old_tail>>
consumeVars == <<stage, cur_head, read, delivered>>
vars == <<ringVars, produceVars, consumeVars, faults>>

Part == Configs \cup {NoConfig}
Blank == [length |-> NoConfig, body |-> NoConfig]

Index(count) == count % Size

\* _u64_distance
Distance(newer, older) == (newer - older) % Modulus

(***************************************************************************)
(* produce                                                                 *)
(***************************************************************************)

\* Producer p goes on to another operation.
Produces(p, from, to) ==
    /\ at[p] = from
    /\ at' = [at EXCEPT ![p] = to]
    /\ UNCHANGED <<todo, config, consumeVars>>

\* Faulty: one config too many.
IsFullLate(p) == Distance(old_tail[p], head) > Size

IsFull(p) == Distance(old_tail[p], head) >= Size

Take(p) ==
    /\ at[p] = "idle"
    /\ \E c \in todo :
        /\ todo' = todo \ {c}
        /\ config' = [config EXCEPT ![p] = c]
    /\ at' = [at EXCEPT ![p] = "read tail"]
    /\ UNCHANGED <<ringVars, old_tail, consumeVars, faults>>

ReadTail(p) ==
    /\ Produces(p, "read tail", "read head")
    /\ old_tail' = [old_tail EXCEPT ![p] = tail]
    /\ UNCHANGED <<ringVars, faults>>

ReadHead(p) ==
    /\ Produces(p, "read head", "zero")
    /\ ~IsFull(p)
    /\ UNCHANGED <<ringVars, old_tail, faults>>

\* The three writes: zeros, the body, and the length header last.
Zero(p) ==
    /\ Produces(p, "zero", "body")
    /\ slot' = [slot EXCEPT ![Index(old_tail[p])] = Blank]
    /\ UNCHANGED <<head, tail, old_tail, faults>>

\* Faulty: the length header is forgotten.
BodyOnly(p) ==
    /\ Produces(p, "body", "publish")
    /\ slot' = [slot EXCEPT ![Index(old_tail[p])].body = config[p]]
    /\ UNCHANGED <<head, tail, old_tail, faults>>

Body(p) ==
    /\ Produces(p, "body", "length")
    /\ slot' = [slot EXCEPT ![Index(old_tail[p])].body = config[p]]
    /\ UNCHANGED <<head, tail, old_tail, faults>>

Length(p) ==
    /\ Produces(p, "length", "publish")
    /\ slot' = [slot EXCEPT ![Index(old_tail[p])].length = config[p]]
    /\ UNCHANGED <<head, tail, old_tail, faults>>

\* The fetch-and-add on the tail.
Publish(p) ==
    /\ Produces(p, "publish", "idle")
    /\ tail' = tail + 1
    /\ UNCHANGED <<head, slot, old_tail, faults>>

\* produce raises.  The caller calls again or gives the config up.
Raise(p) ==
    /\ at[p] # "idle"
    /\ at' = [at EXCEPT ![p] = "read tail"] \/ at' = [at EXCEPT ![p] = "idle"]
    /\ UNCHANGED <<todo, config, old_tail, consumeVars>>

RaiseFull(p) ==
    /\ at[p] = "read head" /\ IsFull(p)
    /\ Raise(p)
    /\ UNCHANGED <<ringVars, faults>>

\* An operation fails, or the config does not fit into a slot.
\* A write that failed after it was executed is one that failed at the next
\* operation, so only the fetch-and-add needs a case of its own.
ProduceFault(p) ==
    /\ faults < MaxFaults /\ faults' = faults + 1
    /\ Raise(p)
    /\ \/ UNCHANGED ringVars
       \/ LostAcks /\ at[p] = "publish" /\ tail' = tail + 1 /\ UNCHANGED <<head, slot>>

ProduceStep(p) ==
    \/ ReadTail(p) \/ ReadHead(p) \/ RaiseFull(p)
    \/ Zero(p) \/ Body(p) \/ Length(p) \/ Publish(p)

(***************************************************************************)
(* consume                                                                 *)
(***************************************************************************)

\* Consumer x goes on to another operation.
Consumes(x, from, to) ==
    /\ stage[x] = from
    /\ stage' = [stage EXCEPT ![x] = to]
    /\ UNCHANGED <<produceVars, faults>>

\* Faulty: the last config is overlooked.
IsEmptyEarly(x) == Distance(tail, cur_head[x]) <= 1

IsEmpty(x) == Distance(tail, cur_head[x]) = 0

LoadHead(x) ==
    /\ Consumes(x, "idle", "load tail")
    /\ cur_head' = [cur_head EXCEPT ![x] = head]
    /\ UNCHANGED <<ringVars, read, delivered>>

LoadTail(x) ==
    /\ stage[x] = "load tail"
    /\ IF IsEmpty(x) THEN Consumes(x, "load tail", "idle")
                     ELSE Consumes(x, "load tail", "length")
    /\ UNCHANGED <<ringVars, cur_head, read, delivered>>

\* One read of the slot, torn where a write may come between.
LoadLength(x) ==
    /\ Consumes(x, "length", "body")
    /\ read' = [read EXCEPT ![x].length = slot[Index(cur_head[x])].length]
    /\ UNCHANGED <<ringVars, cur_head, delivered>>

LoadBody(x) ==
    /\ Consumes(x, "body", "parse")
    /\ read' = [read EXCEPT ![x].body = slot[Index(cur_head[x])].body]
    /\ UNCHANGED <<ringVars, cur_head, delivered>>

\* _deserialize_config: a body under the length of another config parses when
\* both have the same length.
Parsed(x) ==
    /\ read[x].length # NoConfig /\ read[x].body # NoConfig
    /\ Consumes(x, "parse", "claim")
    /\ UNCHANGED <<ringVars, cur_head, read, delivered>>

\* Otherwise it is read again, and given up after the fifth time.
Unparsed(x) ==
    /\ read[x].length = NoConfig \/ read[x].length # read[x].body
    /\ Consumes(x, "parse", "length") \/ Consumes(x, "parse", "idle")
    /\ UNCHANGED <<ringVars, cur_head, read, delivered>>

Return(x, c) ==
    /\ delivered' = [delivered EXCEPT ![c] = @ + 1]
    /\ UNCHANGED cur_head
    /\ read' = [read EXCEPT ![x] = Blank]

\* Faulty: a plain write of the head.
ClaimByWrite(x) ==
    /\ Consumes(x, "claim", "idle")
    /\ head' = cur_head[x] + 1
    /\ Return(x, read[x].body)
    /\ UNCHANGED <<tail, slot>>

\* The compare-and-swap on the head.  After a lost race consume reads the head
\* again, or gives up when that happened too often; the service polls again.
Claim(x) ==
    /\ Consumes(x, "claim", "idle")
    /\ IF head = cur_head[x]
       THEN head' = head + 1 /\ Return(x, read[x].body)
       ELSE UNCHANGED <<head, cur_head, delivered>> /\ read' = [read EXCEPT ![x] = Blank]
    /\ UNCHANGED <<tail, slot>>

\* An operation fails: consume returns None, after the fifth time if it was the
\* read of the slot.
ConsumeFault(x) ==
    /\ faults < MaxFaults /\ faults' = faults + 1
    /\ stage[x] # "parse"
    /\ \/ stage' = [stage EXCEPT ![x] = "idle"]
       \/ stage[x] \in {"length", "body"} /\ stage' = [stage EXCEPT ![x] = "length"]
    /\ read' = [read EXCEPT ![x] = Blank]
    /\ UNCHANGED <<produceVars, cur_head, delivered, tail, slot>>
    /\ \/ UNCHANGED head
       \/ LostAcks /\ stage[x] = "claim" /\ head = cur_head[x] /\ head' = head + 1

ConsumeStep(x) ==
    \/ LoadHead(x) \/ LoadTail(x) \/ LoadLength(x) \/ LoadBody(x)
    \/ Parsed(x) \/ Unparsed(x) \/ Claim(x)

----------------------------------------------------------------------------

Init ==
    /\ head = 0 /\ tail = 0
    /\ slot = [n \in 0..Size - 1 |-> Blank]
    /\ todo = Configs
    /\ at = [p \in Producers |-> "idle"]
    /\ config = [p \in Producers |-> NoConfig]
    /\ old_tail = [p \in Producers |-> 0]
    /\ stage = [x \in Consumers |-> "idle"]
    /\ cur_head = [x \in Consumers |-> 0]
    /\ read = [x \in Consumers |-> Blank]
    /\ delivered = [c \in Configs |-> 0]
    /\ faults = 0

Next ==
    \/ \E p \in Producers : Take(p) \/ ProduceStep(p) \/ ProduceFault(p)
    \/ \E x \in Consumers : ConsumeStep(x) \/ ConsumeFault(x)

Safety == Init /\ [][Next]_vars

(***************************************************************************)
(* Services keep calling consume, and its operations come back.  Nothing   *)
(* makes a request arrive or an operation fail.                            *)
(***************************************************************************)
Fairness ==
    /\ \A p \in Producers : WF_vars(ProduceStep(p))
    /\ \A x \in Consumers : WF_vars(ConsumeStep(x))

Spec == Safety /\ Fairness

----------------------------------------------------------------------------

\* The values the variables range over; nobody has read a count that the shared
\* counters have not reached, so they never go back.
RingTypeOK ==
    /\ head \in Nat /\ tail \in Nat
    /\ slot \in [0..Size - 1 -> [length : Part, body : Part]]
    /\ todo \in SUBSET Configs
    /\ at \in [Producers -> {"idle", "read tail", "read head", "zero", "body", "length",
                             "publish"}]
    /\ config \in [Producers -> Part]
    /\ old_tail \in [Producers -> 0..tail]
    /\ stage \in [Consumers -> {"idle", "load tail", "length", "body", "parse", "claim"}]
    /\ cur_head \in [Consumers -> 0..head]
    /\ read \in [Consumers -> [length : Part, body : Part]]
    /\ delivered \in [Configs -> Nat]
    /\ faults \in 0..MaxFaults

\* "Read current indices first, write the slot fully, then publish by advancing
\* tail" (produce): every slot between head and tail holds one whole config,
\* and there are no more of them than slots.
PublishedIsWritten ==
    /\ tail - head \in 0..Size
    /\ \A n \in head..tail - 1 :
        LET s == slot[Index(n)] IN s.length # NoConfig /\ s.length = s.body

\* A consumer whose compare-and-swap is going to succeed has read all of the
\* config that is still in the slot, though it read it without any lock.
ClaimIsFresh ==
    \A x \in Consumers :
        stage[x] = "claim" /\ cur_head[x] = head =>
            head < tail /\ read[x] = slot[Index(head)]

\* The ring implements the queue.
Fifo == INSTANCE FifoQueue WITH
    Capacity <- Size,
    Lossy <- LostAcks,
    queue <- [n \in 1..(tail - head) |-> slot[Index(head + n - 1)].body]

\* Configs leave the ring in the order in which they were published, each to
\* one consumer.
ImplementsFifo == Fifo!Spec

\* A published config is taken out of the ring: there is no slot on which the
\* consumers get stuck.
PublishedIsConsumed ==
    \A n \in 0..Cardinality(Configs) : tail > n ~> head > n

=============================================================================
