----------------------------- MODULE EventSlots -----------------------------
(***************************************************************************)
(* Block offloading, EventSlotWeightAsyncStreamManager.run_blocks of       *)
(* common/offload/event_manager.py: the blocks of a transformer that do    *)
(* not stay on the device are copied, one ahead of the other, into two     *)
(* device buffers, while the device computes with the blocks before.       *)
(*                                                                         *)
(* The host only issues work.  Three device streams (the caller's, the     *)
(* load stream and the compute stream) execute it later, each in the order *)
(* of issue, and wait for one another where the host made them wait.       *)
(***************************************************************************)
EXTENDS Integers, Sequences

CONSTANTS
    Depth,     \* the number of blocks in the stack
    MaxCalls   \* bound on the number of calls of run_blocks

ASSUME EventAssumption == Depth \in Nat \ {0} /\ MaxCalls \in Nat

Block == 0..Depth - 1
Slot == {0, 1}
NoSlot == 2
Stream == {"caller", "load", "compute"}
Torn == -1  \* what a buffer holds during a copy, and before the first

VARIABLES
    residents,      \* the blocks that stay on the device
    pc, calls,      \* where the host is, and in which call
    index, slot,    \* the block and the slot of the loop
    offloaded,      \* the blocks not yet prefetched in this call
    pending, waited, free_recorded,  \* the slots of which the flags are set
    ready, free,    \* each slot's events: how far a stream had been issued
    misused,        \* a slot method raised RuntimeError
    ops, done,      \* what was issued to each stream, and how much is done
    active,         \* the streams whose next operation is in progress
    barrier,        \* how much of the other streams each stream waits for
    buffer,         \* the block each slot holds
    input           \* the call whose input the state tensor holds

hostVars == <<residents, pc, calls, index, slot, offloaded>>
flagVars == <<pending, waited, free_recorded, ready, free, misused>>
issueVars == <<ops, barrier>>
deviceVars == <<done, active, buffer, input>>
vars == <<hostVars, flagVars, issueVars, deviceVars>>

(***************************************************************************)
(* Issuing work.  q is a record of what has been issued, as ops, barrier   *)
(* and the events; one host step issues several operations.                *)
(***************************************************************************)

\* Stream s does op after what it waits for.
Issue(q, s, op) ==
    [q EXCEPT !.ops[s] = Append(@, [op |-> op, after |-> q.barrier[s]])]

\* s.wait_event(e) for an event e recorded when `upto` operations had been
\* issued to stream t; s.wait_stream(t) when that is now.
Wait(q, s, t, upto) == [q EXCEPT !.barrier[s][t] = upto]
WaitStream(q, s, t) == Wait(q, s, t, Len(q.ops[t]))

Copy(b, n) == [do |-> "copy", block |-> b, slot |-> n, call |-> calls]
Run(b, n) == [do |-> "run", block |-> b, slot |-> n, call |-> calls]
Prepare(k) == [do |-> "prepare", block |-> 0, slot |-> NoSlot, call |-> k]

Issued == [ops |-> ops, barrier |-> barrier, ready |-> ready, free |-> free,
           pending |-> pending, waited |-> waited, free_recorded |-> free_recorded,
           misused |-> misused, offloaded |-> offloaded]

Becomes(q) ==
    /\ ops' = q.ops /\ barrier' = q.barrier /\ ready' = q.ready /\ free' = q.free
    /\ pending' = q.pending /\ waited' = q.waited /\ free_recorded' = q.free_recorded
    /\ misused' = q.misused /\ offloaded' = q.offloaded

(***************************************************************************)
(* The slot methods                                                        *)
(***************************************************************************)

\* Faulty: the copy does not wait for the block that is computed.
AfterReady(q, n) == q

\* prefetch_to_slot waits for the consumers of the slot.
AfterFree(q, n) ==
    IF n \in q.free_recorded THEN Wait(q, "load", "compute", q.free[n]) ELSE q

Staged(q, n, b) ==
    [Issue(AfterFree(q, n), "load", Copy(b, n)) EXCEPT !.offloaded = @ \ {b}]

prefetch_to_slot(q, n, b) ==
    LET copied == Staged(q, n, b)
    IN  [copied EXCEPT !.ready[n] = Len(copied.ops["load"]),
                       !.misused = @ \/ n \in q.pending,
                       !.pending = @ \cup {n},
                       !.waited = @ \ {n}]

NextBlock(q) == CHOOSE b \in q.offloaded : \A c \in q.offloaded : b <= c

\* The local function prefetch of run_blocks: the next block, if there is one.
prefetch(q, n) ==
    IF q.offloaded = {} THEN q ELSE prefetch_to_slot(q, n, NextBlock(q))

\* What is left when the copy raises, before or after it was issued.
CopyRaised(q, n) ==
    IF q.offloaded = {} THEN {} ELSE {AfterFree(q, n), Staged(q, n, NextBlock(q))}

wait_ready(q, n) ==
    [Wait(q, "compute", "load", q.ready[n]) EXCEPT
        !.misused = @ \/ n \notin q.pending,
        !.waited = @ \cup {n}]

record_free(q, n) ==
    [q EXCEPT !.free[n] = Len(q.ops["compute"]),
              !.misused = @ \/ n \notin q.pending \/ n \notin q.waited,
              !.pending = @ \ {n},
              !.waited = @ \ {n},
              !.free_recorded = @ \cup {n}]

(***************************************************************************)
(* The host: run_blocks                                                    *)
(***************************************************************************)

\* The caller has issued work that uses the last output and makes the next
\* input; run_blocks makes both streams wait for it and fills both slots.
Call ==
    /\ pc = "idle" /\ calls < MaxCalls
    /\ calls' = calls + 1 /\ index' = 0 /\ slot' = 0
    /\ LET q0 == [Issue(Issued, "caller", Prepare(calls')) EXCEPT !.offloaded = Block \ residents]
           q1 == WaitStream(WaitStream(q0, "compute", "caller"), "load", "caller")
       IN  \/ pc' = "loop" /\ Becomes(prefetch(prefetch(q1, 0), 1))
           \/ /\ pc' = "except"
              /\ \E q \in CopyRaised(q1, 0) \cup CopyRaised(prefetch(q1, 0), 1) : Becomes(q)
    /\ UNCHANGED <<residents, deviceVars>>

\* One iteration of the loop.
RunResident ==
    /\ pc = "loop" /\ index < Depth /\ index \in residents
    /\ index' = index + 1
    /\ Becomes(Issue(Issued, "compute", Run(index, NoSlot)))
    /\ UNCHANGED <<residents, pc, calls, slot, deviceVars>>

RunStaged(q, n) == record_free(Issue(wait_ready(q, n), "compute", Run(index, n)), n)

\* Faulty: the same slot every time.
SlotKept == slot

NextSlot == (slot + 1) % 2

RunOffloaded ==
    /\ pc = "loop" /\ index < Depth /\ index \notin residents
    /\ index' = index + 1
    /\ slot' = NextSlot
    /\ Becomes(prefetch(RunStaged(Issued, slot), slot))
    /\ UNCHANGED <<residents, pc, calls, deviceVars>>

\* Faulty: the caller's stream does not wait for the result.
ReturnEarly ==
    /\ pc = "loop" /\ index = Depth
    /\ pc' = "idle"
    /\ UNCHANGED <<residents, calls, index, slot, offloaded, flagVars, issueVars, deviceVars>>

\* The caller's stream waits for the output.
Return ==
    /\ pc = "loop" /\ index = Depth
    /\ pc' = "idle"
    /\ Becomes(WaitStream(Issued, "caller", "compute"))
    /\ UNCHANGED <<residents, calls, index, slot, deviceVars>>

\* run_block raises, before or after it has issued its work, or the next copy.
Raise ==
    /\ pc = "loop" /\ index < Depth
    /\ pc' = "except"
    /\ LET n == IF index \in residents THEN NoSlot ELSE slot
           q == IF n = NoSlot THEN Issued ELSE wait_ready(Issued, n)
       IN  \/ Becomes(q)
           \/ Becomes(Issue(q, "compute", Run(index, n)))
           \/ n # NoSlot /\ \E r \in CopyRaised(RunStaged(Issued, n), n) : Becomes(r)
    /\ UNCHANGED <<residents, calls, index, slot, deviceVars>>

reset_slots ==
    /\ pending' = {} /\ waited' = {} /\ free_recorded' = {}
    /\ UNCHANGED <<ready, free, misused>>

Drained(s) == done[s] = Len(ops[s])

\* The except clause: synchronize both streams, reset the slots, raise.
Except ==
    /\ pc = "except" /\ Drained("compute") /\ Drained("load")
    /\ pc' = "idle"
    /\ reset_slots
    /\ UNCHANGED <<residents, calls, index, slot, offloaded, issueVars, deviceVars>>

(***************************************************************************)
(* The device                                                              *)
(***************************************************************************)

Current(s) == ops[s][done[s] + 1].op

Begin(s) ==
    /\ s \notin active /\ done[s] < Len(ops[s])
    /\ \A t \in Stream : ops[s][done[s] + 1].after[t] <= done[t]
    /\ active' = active \cup {s}
    /\ buffer' = IF Current(s).do = "copy" THEN [buffer EXCEPT ![Current(s).slot] = Torn]
                                           ELSE buffer
    /\ input' = IF Current(s).do = "prepare" THEN Current(s).call ELSE input
    /\ UNCHANGED <<hostVars, flagVars, issueVars, done>>

End(s) ==
    /\ s \in active
    /\ active' = active \ {s}
    /\ done' = [done EXCEPT ![s] = @ + 1]
    /\ buffer' = IF Current(s).do = "copy"
                 THEN [buffer EXCEPT ![Current(s).slot] = Current(s).block]
                 ELSE buffer
    /\ UNCHANGED <<hostVars, flagVars, issueVars, input>>

----------------------------------------------------------------------------

Init ==
    /\ residents \in SUBSET Block
    /\ pc = "idle" /\ calls = 0 /\ index = 0 /\ slot = 0 /\ offloaded = {}
    /\ pending = {} /\ waited = {} /\ free_recorded = {}
    /\ ready = [n \in Slot |-> 0] /\ free = [n \in Slot |-> 0]
    /\ misused = FALSE
    /\ ops = [s \in Stream |-> <<>>]
    /\ barrier = [s \in Stream |-> [t \in Stream |-> 0]]
    /\ done = [s \in Stream |-> 0]
    /\ active = {}
    /\ buffer = [n \in Slot |-> Torn]
    /\ input = 0

HostStep == Call \/ RunResident \/ RunOffloaded \/ Return \/ Raise \/ Except

Next == HostStep \/ \E s \in Stream : Begin(s) \/ End(s)

Spec == Init /\ [][Next]_vars

----------------------------------------------------------------------------

\* The values the variables range over.
EventTypeOK ==
    /\ residents \in SUBSET Block
    /\ pc \in {"idle", "loop", "except"}
    /\ calls \in 0..MaxCalls /\ index \in 0..Depth /\ slot \in Slot
    /\ offloaded \in SUBSET Block
    /\ pending \in SUBSET Slot /\ waited \in SUBSET Slot /\ free_recorded \in SUBSET Slot
    /\ ready \in [Slot -> Nat] /\ free \in [Slot -> Nat]
    /\ misused \in BOOLEAN
    /\ \A s \in Stream :
        /\ done[s] \in 0..Len(ops[s])
        /\ \A t \in Stream : barrier[s][t] \in 0..Len(ops[t])
    /\ active \in SUBSET Stream
    /\ buffer \in [Slot -> Block \cup {Torn}]
    /\ input \in 0..MaxCalls

\* While the device computes with a staged block, its slot holds that block and
\* no copy is writing into it, also after a call that raised.
RunsOwnBlock ==
    "compute" \in active /\ Current("compute").slot # NoSlot =>
        buffer[Current("compute").slot] = Current("compute").block

\* The device computes on the input of its own call, and the caller's stream
\* never touches the state tensor before all blocks of the call before are done.
InputIsStable ==
    "compute" \in active => input = Current("compute").call /\ "caller" \notin active

\* However residents and offloaded blocks alternate, and also in the call after
\* one that raised, run_blocks never makes a slot method raise RuntimeError, and
\* it returns with both slots free.
SlotsRecycled == ~misused /\ (pc = "idle" => pending = {} /\ waited = {})

=============================================================================
