-------------------------- MODULE EventSlotsProofs --------------------------
(***************************************************************************)
(* Theorems about EventSlots, for every stack of blocks, every set of      *)
(* residents and any number of calls.                                      *)
(***************************************************************************)
EXTENDS EventSlots, WellFoundedInduction, TLAPS

(***************************************************************************)
(* The inductive invariant.  What the host has issued is the record q,     *)
(* Issued in a state; d is how much of the compute stream is done.         *)
(***************************************************************************)

Op == [do : {"copy", "run", "prepare"}, block : Block, slot : {0, 1, NoSlot}, call : Nat]

Plan == [ops : [Stream -> Seq([op : Op, after : [Stream -> Nat]])],
         barrier : [Stream -> [Stream -> Nat]],
         ready : [Slot -> Nat], free : [Slot -> Nat],
         pending : SUBSET Slot, waited : SUBSET Slot, free_recorded : SUBSET Slot,
         misused : BOOLEAN, offloaded : SUBSET Block]

\* Nobody waits for what has not been issued, and each stream has its own kind
\* of work.
PlanOK(q) ==
    /\ q \in Plan
    /\ \A s, t \in Stream : q.barrier[s][t] <= Len(q.ops[t])
    /\ \A n \in Slot : q.ready[n] <= Len(q.ops["load"]) /\ q.free[n] <= Len(q.ops["compute"])
    /\ \A i \in 1..Len(q.ops["load"]) : q.ops["load"][i].op.do = "copy"
    /\ \A i \in 1..Len(q.ops["compute"]) : q.ops["compute"][i].op.do = "run"
    /\ \A i \in 1..Len(q.ops["caller"]) :
        q.ops["caller"][i].op.do = "prepare" /\ q.ops["caller"][i].op.call = i

\* Operation k of the load stream is not begun before run i is done.
Behind(q, d, k, i) == i <= d \/ i <= q.ops["load"][k].after["compute"]

\* A run with a slot waits for a copy of its block into the slot, and every
\* later copy into that slot waits for the run.
RunsGuarded(q, d) ==
    \A i \in 1..Len(q.ops["compute"]) :
        LET run == q.ops["compute"][i]
        IN  run.op.slot # NoSlot =>
                \E j \in 1..run.after["load"] :
                    /\ j <= Len(q.ops["load"])
                    /\ q.ops["load"][j].op.slot = run.op.slot
                    /\ q.ops["load"][j].op.block = run.op.block
                    /\ \A k \in j + 1..Len(q.ops["load"]) :
                        q.ops["load"][k].op.slot = run.op.slot => Behind(q, d, k, i)

\* A run waits for the input of its call, and what makes a later one waits for
\* the run.
CallsGuarded(q, d) ==
    \A i \in 1..Len(q.ops["compute"]) :
        LET run == q.ops["compute"][i]
        IN  /\ run.op.call \in 1..Len(q.ops["caller"])
            /\ run.op.call <= run.after["caller"]
            /\ \A k \in run.op.call + 1..Len(q.ops["caller"]) :
                i <= d \/ i <= q.ops["caller"][k].after["compute"]

\* The free event of a slot covers all runs that use it.
FreeCovers(q, d) ==
    \A n \in Slot, i \in 1..Len(q.ops["compute"]) :
        q.ops["compute"][i].op.slot = n => i <= d \/ (n \in q.free_recorded /\ i <= q.free[n])

\* A pending slot has been given the block of its ready event, and no other since.
Staging(q) ==
    \A n \in q.pending :
        /\ q.ready[n] \in 1..Len(q.ops["load"])
        /\ q.ops["load"][q.ready[n]].op.slot = n
        /\ \A k \in q.ready[n] + 1..Len(q.ops["load"]) : q.ops["load"][k].op.slot # n

InSlot(q, n) == q.ops["load"][q.ready[n]].op.block

\* The offloaded blocks from block i on.
Left(i) == {b \in Block \ residents : i <= b}

\* The blocks to come are those in the slots, in the order of the loop, and
\* those not prefetched.
InOrder(q, left, n) ==
    /\ left = q.offloaded \cup {InSlot(q, m) : m \in q.pending}
    /\ \A m \in q.pending, b \in q.offloaded : InSlot(q, m) < b
    /\ q.pending = Slot => InSlot(q, n) < InSlot(q, 1 - n)
    /\ n \notin q.pending => q.pending = {} /\ q.offloaded = {}
    /\ 1 - n \notin q.pending => q.offloaded = {}

HostInv ==
    /\ residents \in SUBSET Block
    /\ pc \in {"idle", "loop", "except"}
    /\ calls \in 0..MaxCalls /\ index \in 0..Depth /\ slot \in Slot
    /\ calls = Len(ops["caller"])
    /\ ~misused
    /\ pc = "idle" => pending = {} /\ waited = {}
    /\ pc = "idle" => \A i \in 1..Len(ops["compute"]) :
        i <= done["compute"] \/ i <= barrier["caller"]["compute"]
    /\ pc # "except" => FreeCovers(Issued, done["compute"])
    /\ pc = "loop" =>
        /\ calls > 0
        /\ barrier["compute"]["caller"] = calls
        /\ waited = {}
        /\ Staging(Issued)
        /\ InOrder(Issued, Left(index), slot)

IssueInv ==
    /\ PlanOK(Issued)
    /\ RunsGuarded(Issued, done["compute"])
    /\ CallsGuarded(Issued, done["compute"])

\* How much of a stream has been begun.
Begun(s) == IF s \in active THEN done[s] + 1 ELSE done[s]

DeviceInv ==
    /\ done \in [Stream -> Nat]
    /\ active \in SUBSET Stream
    /\ \A s \in Stream : Begun(s) <= Len(ops[s])
    /\ \A s, t \in Stream : \A k \in 1..Begun(s) : ops[s][k].after[t] <= done[t]
    /\ buffer \in [Slot -> Block \cup {Torn}]
    /\ \A n \in Slot, j \in 1..done["load"] :
        /\ ops["load"][j].op.slot = n
        /\ \A k \in j + 1..Begun("load") : ops["load"][k].op.slot # n
        => buffer[n] = ops["load"][j].op.block
    /\ input = Begun("caller")

Inv == HostInv /\ IssueInv /\ DeviceInv

(***************************************************************************)
(* What the methods make of a plan.                                        *)
(***************************************************************************)

\* r is q with one operation more on stream s.
Added(q, r, s, op, after) ==
    /\ Len(r.ops[s]) = Len(q.ops[s]) + 1
    /\ r.ops[s][Len(r.ops[s])] = [op |-> op, after |-> after]
    /\ \A k \in 1..Len(q.ops[s]) : r.ops[s][k] = q.ops[s][k]
    /\ \A t \in Stream \ {s} : r.ops[t] = q.ops[t]

\* r is q with any number of operations more.
Extends(q, r) ==
    \A s \in Stream :
        /\ Len(q.ops[s]) <= Len(r.ops[s])
        /\ \A k \in 1..Len(q.ops[s]) : r.ops[s][k] = q.ops[s][k]

\* r differs from q in ops and barrier only.
Unmarked(q, r) ==
    /\ r.ready = q.ready /\ r.free = q.free
    /\ r.pending = q.pending /\ r.waited = q.waited /\ r.free_recorded = q.free_recorded
    /\ r.misused = q.misused /\ r.offloaded = q.offloaded

LEMMA WaitPlan ==
    ASSUME NEW q \in Plan, NEW s \in Stream, NEW t \in Stream, NEW u \in Nat
    PROVE  LET r == Wait(q, s, t, u)
           IN  /\ r \in Plan
               /\ r.ops = q.ops
               /\ r.barrier = [q.barrier EXCEPT ![s][t] = u]
               /\ Unmarked(q, r)
<1>1. QED
    BY DEF Plan, Wait, Unmarked

LEMMA WaitStreamPlan ==
    ASSUME NEW q \in Plan, NEW s \in Stream, NEW t \in Stream
    PROVE  LET r == WaitStream(q, s, t)
           IN  /\ r \in Plan
               /\ r.ops = q.ops
               /\ r.barrier = [q.barrier EXCEPT ![s][t] = Len(q.ops[t])]
               /\ Unmarked(q, r)
<1>1. Len(q.ops[t]) \in Nat
    BY DEF Plan
<1>2. ASSUME NEW u \in Nat
      PROVE  LET r == Wait(q, s, t, u)
             IN  /\ r \in Plan
                 /\ r.ops = q.ops
                 /\ r.barrier = [q.barrier EXCEPT ![s][t] = u]
                 /\ Unmarked(q, r)
    BY WaitPlan
<1>3. QED
    BY <1>1, <1>2 DEF WaitStream

LEMMA IssuePlan ==
    ASSUME NEW q \in Plan, NEW s \in Stream, NEW op \in Op
    PROVE  LET r == Issue(q, s, op)
           IN  /\ r \in Plan
               /\ Added(q, r, s, op, q.barrier[s])
               /\ r.barrier = q.barrier
               /\ Unmarked(q, r)
<1> DEFINE e == [op |-> op, after |-> q.barrier[s]]
<1> DEFINE r == Issue(q, s, op)
<1> DEFINE Entry == [op : Op, after : [Stream -> Nat]]
<1>1. q.ops \in [Stream -> Seq(Entry)]
    BY DEF Plan
<1>2. e \in Entry
    BY DEF Plan
<1>3. Append(q.ops[s], e) \in Seq(Entry)
    <2> HIDE DEF Entry, e
    <2>1. QED
        BY <1>1, <1>2
<1>4. r.ops = [q.ops EXCEPT ![s] = Append(q.ops[s], e)]
    BY DEF Plan, Issue
<1>5. r.barrier = q.barrier /\ Unmarked(q, r)
    BY DEF Plan, Issue, Unmarked
<1>6. r \in Plan
    BY <1>1, <1>3 DEF Plan, Issue
<1>7. Added(q, r, s, op, q.barrier[s])
    <2>1. r.ops[s] = Append(q.ops[s], e)
        BY <1>1, <1>4
    <2>2. \A t \in Stream \ {s} : r.ops[t] = q.ops[t]
        BY <1>1, <1>4
    <2>3. QED
        BY <1>1, <1>2, <2>1, <2>2 DEF Added
<1>8. QED
    BY <1>5, <1>6, <1>7

LEMMA OpTypes ==
    ASSUME NEW b \in Block, NEW n \in {0, 1, NoSlot}, calls \in Nat, NEW k \in Nat, Depth \in Nat \ {0}
    PROVE  Copy(b, n) \in Op /\ Run(b, n) \in Op /\ Prepare(k) \in Op
<1>1. 0 \in Block
    BY DEF Block
<1>2. QED
    BY <1>1 DEF Op, Copy, Run, Prepare, NoSlot

LEMMA EntryTypes ==
    ASSUME NEW q \in Plan, NEW s \in Stream, NEW i \in 1..Len(q.ops[s])
    PROVE  /\ q.ops[s][i].op \in Op
           /\ q.ops[s][i].after \in [Stream -> Nat]
           /\ Len(q.ops[s]) \in Nat
<1> DEFINE Entry == [op : Op, after : [Stream -> Nat]]
<1>1. q.ops[s] \in Seq(Entry)
    BY DEF Plan
<1>2. q.ops[s][i] \in Entry
    <2> HIDE DEF Entry
    <2>1. QED
        BY <1>1
<1>3. QED
    BY <1>1, <1>2

LEMMA AddedExtends ==
    ASSUME NEW q \in Plan, NEW r, NEW s \in Stream, NEW op, NEW after, Added(q, r, s, op, after)
    PROVE  Extends(q, r)
<1>1. \A t \in Stream : Len(q.ops[t]) \in Nat
    BY DEF Plan
<1>2. ASSUME NEW t \in Stream
      PROVE  /\ Len(q.ops[t]) <= Len(r.ops[t])
             /\ \A k \in 1..Len(q.ops[t]) : r.ops[t][k] = q.ops[t][k]
    BY <1>1 DEF Added
<1>3. QED
    BY <1>2 DEF Extends

LEMMA ExtendsOn ==
    ASSUME NEW q \in Plan, NEW r \in Plan, NEW p \in Plan, Extends(q, r), Extends(r, p)
    PROVE  Extends(q, p)
<1>1. \A t \in Stream : Len(q.ops[t]) \in Nat /\ Len(r.ops[t]) \in Nat /\ Len(p.ops[t]) \in Nat
    BY DEF Plan
<1>2. ASSUME NEW t \in Stream
      PROVE  /\ Len(q.ops[t]) <= Len(p.ops[t])
             /\ \A k \in 1..Len(q.ops[t]) : p.ops[t][k] = q.ops[t][k]
    <2>1. /\ Len(q.ops[t]) <= Len(r.ops[t]) /\ Len(r.ops[t]) <= Len(p.ops[t])
          /\ \A k \in 1..Len(q.ops[t]) : r.ops[t][k] = q.ops[t][k]
          /\ \A k \in 1..Len(r.ops[t]) : p.ops[t][k] = r.ops[t][k]
        BY DEF Extends
    <2>2. QED
        BY <1>1, <2>1
<1>3. QED
    BY <1>2 DEF Extends

LEMMA PlanTypes ==
    ASSUME NEW q \in Plan
    PROVE  /\ \A s \in Stream : Len(q.ops[s]) \in Nat
           /\ \A s, t \in Stream : q.barrier[s][t] \in Nat
           /\ \A s \in Stream : q.barrier[s] \in [Stream -> Nat]
           /\ \A n \in Slot : q.ready[n] \in Nat /\ q.free[n] \in Nat
           /\ q.pending \subseteq Slot /\ q.waited \subseteq Slot /\ q.free_recorded \subseteq Slot
           /\ q.offloaded \subseteq Block
           /\ q.misused \in BOOLEAN
<1>1. \A s \in Stream : q.ops[s] \in Seq([op : Op, after : [Stream -> Nat]])
    BY DEF Plan
<1>2. QED
    BY <1>1 DEF Plan

\* What the load stream waits for when it is to copy into slot n.
FreeWait(q, n) ==
    IF n \in q.free_recorded THEN [q.barrier["load"] EXCEPT !["compute"] = q.free[n]]
                             ELSE q.barrier["load"]

LEMMA AfterFreePlan ==
    ASSUME NEW q \in Plan, NEW n \in Slot
    PROVE  LET r == AfterFree(q, n)
           IN  /\ r \in Plan
               /\ r.ops = q.ops
               /\ r.barrier = [q.barrier EXCEPT !["load"] = FreeWait(q, n)]
               /\ Unmarked(q, r)
<1>1. q.free[n] \in Nat /\ q.barrier \in [Stream -> [Stream -> Nat]]
    BY DEF Plan
<1>2. CASE n \in q.free_recorded
    <2>1. AfterFree(q, n) = Wait(q, "load", "compute", q.free[n])
        BY <1>2 DEF AfterFree
    <2>2. [q.barrier EXCEPT !["load"]["compute"] = q.free[n]]
            = [q.barrier EXCEPT !["load"] = FreeWait(q, n)]
        BY <1>1, <1>2 DEF FreeWait, Stream
    <2>3. "load" \in Stream /\ "compute" \in Stream
        BY DEF Stream
    <2> DEFINE w == Wait(q, "load", "compute", q.free[n])
    <2>4. /\ w \in Plan
          /\ w.ops = q.ops
          /\ w.barrier = [q.barrier EXCEPT !["load"]["compute"] = q.free[n]]
          /\ Unmarked(q, w)
        BY <1>1, <2>3, WaitPlan
    <2> HIDE DEF w
    <2>5. QED
        BY <2>1, <2>2, <2>4 DEF w
<1>3. CASE n \notin q.free_recorded
    <2>1. AfterFree(q, n) = q
        BY <1>3 DEF AfterFree
    <2>2. [q.barrier EXCEPT !["load"] = FreeWait(q, n)] = q.barrier
        BY <1>1, <1>3 DEF FreeWait, Stream
    <2>3. QED
        BY <2>1, <2>2 DEF Unmarked
<1>4. QED
    BY <1>2, <1>3

\* The effect of a copy into slot n that has been issued.
Copied(q, r, n, b) ==
    /\ r \in Plan
    /\ Added(q, r, "load", Copy(b, n), FreeWait(q, n))
    /\ r.barrier = [q.barrier EXCEPT !["load"] = FreeWait(q, n)]
    /\ r.free = q.free /\ r.free_recorded = q.free_recorded
    /\ r.offloaded = q.offloaded \ {b}

LEMMA StagedPlan ==
    ASSUME NEW q \in Plan, NEW n \in Slot, NEW b \in Block, calls \in Nat, Depth \in Nat \ {0}
    PROVE  LET r == Staged(q, n, b)
           IN  /\ Copied(q, r, n, b)
               /\ r.ready = q.ready /\ r.pending = q.pending /\ r.waited = q.waited
               /\ r.misused = q.misused
<1> DEFINE a == AfterFree(q, n)
<1> DEFINE i == Issue(a, "load", Copy(b, n))
<1> DEFINE r == Staged(q, n, b)
<1>1. Copy(b, n) \in Op
    BY OpTypes DEF Slot
<1>2. /\ a \in Plan /\ a.ops = q.ops
      /\ a.barrier = [q.barrier EXCEPT !["load"] = FreeWait(q, n)]
      /\ Unmarked(q, a)
    BY AfterFreePlan
<1>3. a.barrier["load"] = FreeWait(q, n)
    BY <1>2 DEF Plan, Stream
<1>4. /\ i \in Plan
      /\ Added(a, i, "load", Copy(b, n), a.barrier["load"])
      /\ i.barrier = a.barrier /\ Unmarked(a, i)
    <2> HIDE DEF a
    <2>1. QED
        BY <1>1, <1>2, IssuePlan DEF Stream
<1>5. Added(q, i, "load", Copy(b, n), FreeWait(q, n))
    BY <1>2, <1>3, <1>4 DEF Added
<1>6. r = [i EXCEPT !.offloaded = @ \ {b}]
    BY DEF Staged
<1> HIDE DEF i, r, a
<1>7. /\ r \in Plan /\ r.ops = i.ops /\ r.barrier = i.barrier
      /\ r.offloaded = i.offloaded \ {b}
      /\ r.ready = i.ready /\ r.free = i.free /\ r.pending = i.pending
      /\ r.waited = i.waited /\ r.free_recorded = i.free_recorded /\ r.misused = i.misused
    BY <1>4, <1>6 DEF Plan
<1>8. Added(q, r, "load", Copy(b, n), FreeWait(q, n))
    BY <1>5, <1>7 DEF Added
<1>9. QED
    BY <1>2, <1>4, <1>7, <1>8 DEF Copied, Unmarked, r

LEMMA PrefetchPlan ==
    ASSUME NEW q \in Plan, NEW n \in Slot, NEW b \in Block, calls \in Nat, Depth \in Nat \ {0}
    PROVE  LET r == prefetch_to_slot(q, n, b)
           IN  /\ Copied(q, r, n, b)
               /\ r.ready = [q.ready EXCEPT ![n] = Len(r.ops["load"])]
               /\ r.pending = q.pending \cup {n} /\ r.waited = q.waited \ {n}
               /\ r.misused = (q.misused \/ n \in q.pending)
<1> DEFINE c == Staged(q, n, b)
<1> DEFINE r == prefetch_to_slot(q, n, b)
<1>1. /\ Copied(q, c, n, b)
      /\ c.ready = q.ready /\ c.pending = q.pending /\ c.waited = q.waited
      /\ c.misused = q.misused
    BY StagedPlan
<1>2. r = [c EXCEPT !.ready[n] = Len(c.ops["load"]),
                    !.misused = @ \/ n \in q.pending,
                    !.pending = @ \cup {n},
                    !.waited = @ \ {n}]
    BY DEF prefetch_to_slot
<1> HIDE DEF c, r
<1>3. c \in Plan /\ Len(c.ops["load"]) \in Nat
    BY <1>1, PlanTypes DEF Copied, Stream
<1>4. /\ r.ops = c.ops /\ r.barrier = c.barrier /\ r.free = c.free
      /\ r.free_recorded = c.free_recorded /\ r.offloaded = c.offloaded
      /\ r.ready = [c.ready EXCEPT ![n] = Len(c.ops["load"])]
      /\ r.pending = c.pending \cup {n} /\ r.waited = c.waited \ {n}
    BY <1>2, <1>3 DEF Plan
<1>5. r.misused = (c.misused \/ n \in q.pending)
    BY <1>2, <1>3 DEF Plan
<1>6. r \in Plan
    BY <1>2, <1>3 DEF Plan
<1>7. Added(q, r, "load", Copy(b, n), FreeWait(q, n))
    BY <1>1, <1>4 DEF Added, Copied
<1>8. QED
    BY <1>1, <1>4, <1>5, <1>6, <1>7 DEF Copied, r

\* The effect of a run with slot n: the staged part of an iteration.
Ran(q, r, n) ==
    /\ r \in Plan
    /\ Added(q, r, "compute", Run(index, n), [q.barrier["compute"] EXCEPT !["load"] = q.ready[n]])
    /\ r.barrier = [q.barrier EXCEPT !["compute"]["load"] = q.ready[n]]
    /\ r.ready = q.ready /\ r.offloaded = q.offloaded

LEMMA WaitReadyPlan ==
    ASSUME NEW q \in Plan, NEW n \in Slot
    PROVE  LET r == wait_ready(q, n)
           IN  /\ r \in Plan /\ r.ops = q.ops
               /\ r.barrier = [q.barrier EXCEPT !["compute"]["load"] = q.ready[n]]
               /\ r.ready = q.ready /\ r.free = q.free /\ r.pending = q.pending
               /\ r.waited = q.waited \cup {n} /\ r.free_recorded = q.free_recorded
               /\ r.misused = (q.misused \/ n \notin q.pending)
               /\ r.offloaded = q.offloaded
<1> DEFINE w == Wait(q, "compute", "load", q.ready[n])
<1> DEFINE r == wait_ready(q, n)
<1>1. /\ w \in Plan /\ w.ops = q.ops
      /\ w.barrier = [q.barrier EXCEPT !["compute"]["load"] = q.ready[n]]
      /\ Unmarked(q, w)
    <2>1. q.ready[n] \in Nat
        BY PlanTypes
    <2>2. QED
        BY <2>1, WaitPlan DEF Stream
<1>2. r = [w EXCEPT !.misused = @ \/ n \notin q.pending, !.waited = @ \cup {n}]
    BY DEF wait_ready
<1> HIDE DEF w, r
<1>3. /\ r.ops = w.ops /\ r.barrier = w.barrier /\ r.ready = w.ready /\ r.free = w.free
      /\ r.pending = w.pending /\ r.waited = w.waited \cup {n}
      /\ r.free_recorded = w.free_recorded /\ r.offloaded = w.offloaded
    BY <1>1, <1>2 DEF Plan
<1>4. r.misused = (w.misused \/ n \notin q.pending)
    BY <1>1, <1>2 DEF Plan
<1>5. r \in Plan
    BY <1>1, <1>2 DEF Plan
<1>6. QED
    BY <1>1, <1>3, <1>4, <1>5 DEF Unmarked, r

\* A run that has been issued, its slot not yet given back.
LEMMA RunIssued ==
    ASSUME NEW q \in Plan, NEW n \in Slot, index \in Block, calls \in Nat, Depth \in Nat \ {0}
    PROVE  LET w == wait_ready(q, n)
               r == Issue(w, "compute", Run(index, n))
           IN  Ran(q, r, n) /\ Unmarked(w, r)
<1> DEFINE w == wait_ready(q, n)
<1> DEFINE r == Issue(w, "compute", Run(index, n))
<1>1. /\ w \in Plan /\ w.ops = q.ops
      /\ w.barrier = [q.barrier EXCEPT !["compute"]["load"] = q.ready[n]]
      /\ w.ready = q.ready /\ w.offloaded = q.offloaded
    BY WaitReadyPlan
<1> HIDE DEF w
<1>2. Run(index, n) \in Op
    BY OpTypes DEF Slot
<1>3. r \in Plan /\ Added(w, r, "compute", Run(index, n), w.barrier["compute"])
      /\ r.barrier = w.barrier /\ Unmarked(w, r)
    BY <1>1, <1>2, IssuePlan DEF Stream
<1>4. w.barrier["compute"] = [q.barrier["compute"] EXCEPT !["load"] = q.ready[n]]
    BY <1>1 DEF Plan, Stream
<1>5. Ran(q, r, n)
    BY <1>1, <1>3, <1>4 DEF Ran, Added, Unmarked
<1>6. QED
    BY <1>3, <1>5 DEF w

LEMMA RunPlan ==
    ASSUME NEW q \in Plan, NEW n \in Slot, index \in Block, calls \in Nat, Depth \in Nat \ {0}
    PROVE  LET r == RunStaged(q, n)
           IN  /\ Ran(q, r, n)
               /\ r.free = [q.free EXCEPT ![n] = Len(r.ops["compute"])]
               /\ r.pending = q.pending \ {n} /\ r.waited = q.waited \ {n}
               /\ r.free_recorded = q.free_recorded \cup {n}
               /\ r.misused = (q.misused \/ n \notin q.pending)
<1> DEFINE w == wait_ready(q, n)
<1> DEFINE i == Issue(w, "compute", Run(index, n))
<1> DEFINE r == RunStaged(q, n)
<1>1. /\ w.ready = q.ready /\ w.free = q.free /\ w.pending = q.pending
      /\ w.waited = q.waited \cup {n} /\ w.free_recorded = q.free_recorded
      /\ w.misused = (q.misused \/ n \notin q.pending)
      /\ w.offloaded = q.offloaded
    BY WaitReadyPlan
<1>2. Ran(q, i, n) /\ Unmarked(w, i)
    BY RunIssued
<1>3. r = [i EXCEPT !.free[n] = Len(i.ops["compute"]),
                    !.misused = @ \/ n \notin i.pending \/ n \notin i.waited,
                    !.pending = @ \ {n},
                    !.waited = @ \ {n},
                    !.free_recorded = @ \cup {n}]
    BY DEF RunStaged, record_free
<1> HIDE DEF w, i, r
<1>4. i \in Plan /\ Len(i.ops["compute"]) \in Nat
    BY <1>2, PlanTypes DEF Ran, Stream
<1>5. /\ r.ops = i.ops /\ r.barrier = i.barrier /\ r.ready = i.ready
      /\ r.free = [i.free EXCEPT ![n] = Len(i.ops["compute"])]
      /\ r.pending = i.pending \ {n} /\ r.waited = i.waited \ {n}
      /\ r.free_recorded = i.free_recorded \cup {n} /\ r.offloaded = i.offloaded
    BY <1>3, <1>4 DEF Plan
<1>6. r.misused = (i.misused \/ n \notin i.pending \/ n \notin i.waited)
    BY <1>3, <1>4 DEF Plan
<1>7. r \in Plan
    BY <1>3, <1>4 DEF Plan
<1>8. Ran(q, r, n)
    BY <1>2, <1>5, <1>7 DEF Ran, Added
<1>9. r.misused = (q.misused \/ n \notin q.pending)
    BY <1>1, <1>2, <1>6 DEF Unmarked
<1>10. QED
    BY <1>1, <1>2, <1>5, <1>8, <1>9 DEF Unmarked, r

(***************************************************************************)
(* The guards between the streams.                                         *)
(***************************************************************************)

LEMMA CopyGuards ==
    ASSUME NEW q, NEW r, NEW n \in Slot, NEW b \in Block, NEW d \in Nat,
           PlanOK(q), Copied(q, r, n, b), \A m \in Slot : r.ready[m] <= Len(r.ops["load"]),
           RunsGuarded(q, d), CallsGuarded(q, d), FreeCovers(q, d)
    PROVE  PlanOK(r) /\ RunsGuarded(r, d) /\ CallsGuarded(r, d) /\ FreeCovers(r, d)
<1> DEFINE a == FreeWait(q, n)
<1> DEFINE L == Len(q.ops["load"])
<1>1. /\ q \in Plan /\ r \in Plan /\ "load" \in Stream /\ "compute" \in Stream /\ "caller" \in Stream
      /\ L \in Nat
    BY PlanTypes DEF PlanOK, Copied, Stream
<1>2. /\ Len(r.ops["load"]) = L + 1
      /\ r.ops["load"][L + 1] = [op |-> Copy(b, n), after |-> a]
      /\ \A k \in 1..L : r.ops["load"][k] = q.ops["load"][k]
      /\ r.ops["compute"] = q.ops["compute"] /\ r.ops["caller"] = q.ops["caller"]
    BY <1>1 DEF Copied, Added, Stream
<1>3. /\ r.ops["load"][L + 1].op.slot = n
      /\ r.ops["load"][L + 1].op.do = "copy"
      /\ r.ops["load"][L + 1].after = a
    BY <1>2 DEF Copy
<1>4. a \in [Stream -> Nat] /\ \A t \in Stream : a[t] <= Len(q.ops[t])
    <2>1. \A t \in Stream : q.barrier["load"][t] \in Nat /\ q.barrier["load"][t] <= Len(q.ops[t])
        BY <1>1, PlanTypes DEF PlanOK
    <2>2. q.free[n] \in Nat /\ q.free[n] <= Len(q.ops["compute"])
        BY <1>1, PlanTypes DEF PlanOK
    <2>3. QED
        BY <1>1, <2>1, <2>2, PlanTypes DEF FreeWait, Stream
<1>5. PlanOK(r)
    <2>1. \A s, t \in Stream : r.barrier[s][t] <= Len(r.ops[t])
        <3>1. \A t \in Stream : Len(q.ops[t]) \in Nat /\ Len(q.ops[t]) <= Len(r.ops[t])
            BY <1>1, <1>2, PlanTypes DEF Stream
        <3>2. \A s \in Stream : r.barrier[s] = IF s = "load" THEN a ELSE q.barrier[s]
            BY <1>1 DEF Copied, Plan
        <3>3. \A s, t \in Stream : q.barrier[s][t] \in Nat /\ q.barrier[s][t] <= Len(q.ops[t])
            BY <1>1, PlanTypes DEF PlanOK
        <3>4. ASSUME NEW s \in Stream, NEW t \in Stream
              PROVE  r.barrier[s][t] <= Len(r.ops[t])
            <4>1. r.barrier[s][t] \in Nat /\ r.barrier[s][t] <= Len(q.ops[t])
                BY <1>4, <3>2, <3>3
            <4>2. Len(r.ops[t]) \in Nat
                BY <1>1, PlanTypes
            <4>3. QED
                BY <3>1, <4>1, <4>2
        <3>5. QED
            BY <3>4
    <2>2. \A m \in Slot : r.free[m] <= Len(r.ops["compute"])
        BY <1>2 DEF Copied, PlanOK
    <2>3. \A i \in 1..Len(r.ops["load"]) : r.ops["load"][i].op.do = "copy"
        <3>1. \A i \in 1..Len(r.ops["load"]) : i \in 1..L \/ i = L + 1
            BY <1>1, <1>2
        <3>2. \A i \in 1..L : q.ops["load"][i].op.do = "copy"
            BY DEF PlanOK
        <3>3. \A i \in 1..L : r.ops["load"][i].op.do = "copy"
            BY <1>2, <3>2
        <3> HIDE DEF a, L
        <3>4. QED
            BY <1>3, <3>1, <3>3
    <2>4. /\ \A i \in 1..Len(r.ops["compute"]) : r.ops["compute"][i].op.do = "run"
          /\ \A i \in 1..Len(r.ops["caller"]) :
              r.ops["caller"][i].op.do = "prepare" /\ r.ops["caller"][i].op.call = i
        BY <1>2 DEF PlanOK
    <2>5. r \in Plan /\ \A m \in Slot : r.ready[m] <= Len(r.ops["load"])
        BY <1>1
    <2>6. QED
        BY <2>1, <2>2, <2>3, <2>4, <2>5 DEF PlanOK
<1>6. RunsGuarded(r, d)
    <2> SUFFICES ASSUME NEW i \in 1..Len(r.ops["compute"]),
                        r.ops["compute"][i].op.slot # NoSlot
                 PROVE  \E j \in 1..r.ops["compute"][i].after["load"] :
                          /\ j <= Len(r.ops["load"])
                          /\ r.ops["load"][j].op.slot = r.ops["compute"][i].op.slot
                          /\ r.ops["load"][j].op.block = r.ops["compute"][i].op.block
                          /\ \A k \in j + 1..Len(r.ops["load"]) :
                              r.ops["load"][k].op.slot = r.ops["compute"][i].op.slot
                                => Behind(r, d, k, i)
        BY DEF RunsGuarded
    <2> DEFINE run == q.ops["compute"][i]
    <2>1. run = r.ops["compute"][i] /\ i \in 1..Len(q.ops["compute"])
        BY <1>2
    <2>2. run.after["load"] \in Nat
        BY <1>1, <2>1, EntryTypes
    <2>3. PICK j \in 1..run.after["load"] :
              /\ j <= L
              /\ q.ops["load"][j].op.slot = run.op.slot
              /\ q.ops["load"][j].op.block = run.op.block
              /\ \A k \in j + 1..L : q.ops["load"][k].op.slot = run.op.slot => Behind(q, d, k, i)
        BY <2>1 DEF RunsGuarded
    <2>4. j \in 1..L
        BY <1>1, <2>2, <2>3
    <2>5. ASSUME NEW k \in j + 1..Len(r.ops["load"]), r.ops["load"][k].op.slot = run.op.slot
          PROVE  Behind(r, d, k, i)
        <3>1. CASE k \in 1..L
            <4>1. k \in j + 1..L
                BY <1>1, <2>4, <2>5, <3>1
            <4>2. r.ops["load"][k] = q.ops["load"][k]
                BY <1>2, <3>1
            <4>3. Behind(q, d, k, i)
                BY <2>3, <2>5, <4>1, <4>2
            <4>4. QED
                BY <4>2, <4>3 DEF Behind
        <3>2. CASE k = L + 1
            <4>1. run.op.slot = n
                BY <1>3, <2>5, <3>2
            <4>2. i <= d \/ (n \in q.free_recorded /\ i <= q.free[n])
                BY <2>1, <4>1 DEF FreeCovers
            <4>3. n \in q.free_recorded => a["compute"] = q.free[n]
                BY <1>1, PlanTypes DEF FreeWait
            <4>4. QED
                BY <1>3, <3>2, <4>2, <4>3 DEF Behind
        <3>3. QED
            BY <1>1, <1>2, <2>4, <3>1, <3>2
    <2>6. j <= Len(r.ops["load"]) /\ r.ops["load"][j] = q.ops["load"][j]
        BY <1>1, <1>2, <2>4
    <2>7. QED
        BY <2>1, <2>3, <2>5, <2>6
<1>7. CallsGuarded(r, d)
    BY <1>2 DEF CallsGuarded
<1>8. FreeCovers(r, d)
    BY <1>2 DEF FreeCovers, Copied
<1>9. QED
    BY <1>5, <1>6, <1>7, <1>8

\* The compute stream after a run was issued.
LEMMA AddedRun ==
    ASSUME NEW q \in Plan, NEW r, NEW n, NEW a, Added(q, r, "compute", Run(index, n), a)
    PROVE  LET C == Len(q.ops["compute"])
           IN  /\ C \in Nat /\ Len(r.ops["compute"]) = C + 1
               /\ r.ops["compute"][C + 1].op.slot = n
               /\ \A k \in 1..C : r.ops["compute"][k] = q.ops["compute"][k]
               /\ r.ops["load"] = q.ops["load"] /\ r.ops["caller"] = q.ops["caller"]
<1>1. "compute" \in Stream /\ "load" \in Stream \ {"compute"} /\ "caller" \in Stream \ {"compute"}
    BY DEF Stream
<1>2. Len(q.ops["compute"]) \in Nat
    BY <1>1, PlanTypes
<1>3. /\ Len(r.ops["compute"]) = Len(q.ops["compute"]) + 1
      /\ r.ops["compute"][Len(r.ops["compute"])] = [op |-> Run(index, n), after |-> a]
      /\ \A k \in 1..Len(q.ops["compute"]) : r.ops["compute"][k] = q.ops["compute"][k]
      /\ r.ops["load"] = q.ops["load"] /\ r.ops["caller"] = q.ops["caller"]
    BY <1>1 DEF Added
<1>4. Run(index, n).slot = n
    BY DEF Run
<1>5. QED
    BY <1>2, <1>3, <1>4

LEMMA RunGuards ==
    ASSUME NEW q, NEW r \in Plan, NEW n \in {0, 1, NoSlot}, NEW a \in [Stream -> Nat], NEW d \in Nat,
           PlanOK(q), Added(q, r, "compute", Run(index, n), a),
           RunsGuarded(q, d), CallsGuarded(q, d),
           calls \in Nat \ {0}, calls = Len(q.ops["caller"]), a["caller"] = calls,
           n # NoSlot =>
            /\ a["load"] \in 1..Len(q.ops["load"])
            /\ q.ops["load"][a["load"]].op.slot = n
            /\ q.ops["load"][a["load"]].op.block = index
            /\ \A k \in a["load"] + 1..Len(q.ops["load"]) : q.ops["load"][k].op.slot # n
    PROVE  RunsGuarded(r, d) /\ CallsGuarded(r, d)
<1> DEFINE C == Len(q.ops["compute"])
<1>1. /\ q \in Plan /\ "load" \in Stream /\ "compute" \in Stream /\ "caller" \in Stream
      /\ C \in Nat
    BY PlanTypes DEF PlanOK, Stream
<1>2. /\ Len(r.ops["compute"]) = C + 1
      /\ r.ops["compute"][C + 1] = [op |-> Run(index, n), after |-> a]
      /\ \A k \in 1..C : r.ops["compute"][k] = q.ops["compute"][k]
      /\ r.ops["load"] = q.ops["load"] /\ r.ops["caller"] = q.ops["caller"]
    BY <1>1 DEF Added, Stream
<1>3. \A i \in 1..C + 1 : i \in 1..C \/ i = C + 1
    BY <1>1
<1>4. /\ r.ops["compute"][C + 1].op.slot = n
      /\ r.ops["compute"][C + 1].op.block = index
      /\ r.ops["compute"][C + 1].op.call = calls
      /\ r.ops["compute"][C + 1].after = a
    BY <1>2 DEF Run
<1>5. RunsGuarded(r, d)
    <2>1. ASSUME NEW i \in 1..C, q.ops["compute"][i].op.slot # NoSlot
          PROVE  \E j \in 1..q.ops["compute"][i].after["load"] :
                    /\ j <= Len(q.ops["load"])
                    /\ q.ops["load"][j].op.slot = q.ops["compute"][i].op.slot
                    /\ q.ops["load"][j].op.block = q.ops["compute"][i].op.block
                    /\ \A k \in j + 1..Len(q.ops["load"]) :
                        q.ops["load"][k].op.slot = q.ops["compute"][i].op.slot => Behind(r, d, k, i)
        BY <1>2, <2>1 DEF RunsGuarded, Behind
    <2>2. ASSUME n # NoSlot
          PROVE  \E j \in 1..a["load"] :
                    /\ j <= Len(q.ops["load"])
                    /\ q.ops["load"][j].op.slot = n
                    /\ q.ops["load"][j].op.block = index
                    /\ \A k \in j + 1..Len(q.ops["load"]) :
                        q.ops["load"][k].op.slot = n => Behind(r, d, k, C + 1)
        <3>1. a["load"] \in 1..a["load"] /\ a["load"] <= Len(q.ops["load"])
            BY <1>1, <2>2, PlanTypes
        <3>2. QED
            BY <2>2, <3>1
    <2>3. ASSUME NEW i \in 1..C + 1, r.ops["compute"][i].op.slot # NoSlot
          PROVE  \E j \in 1..r.ops["compute"][i].after["load"] :
                    /\ j <= Len(r.ops["load"])
                    /\ r.ops["load"][j].op.slot = r.ops["compute"][i].op.slot
                    /\ r.ops["load"][j].op.block = r.ops["compute"][i].op.block
                    /\ \A k \in j + 1..Len(r.ops["load"]) :
                        r.ops["load"][k].op.slot = r.ops["compute"][i].op.slot => Behind(r, d, k, i)
        <3>1. CASE i \in 1..C
            <4>1. r.ops["compute"][i] = q.ops["compute"][i]
                BY <1>2, <3>1
            <4>2. QED
                BY <1>2, <2>1, <2>3, <3>1, <4>1
        <3>2. CASE i = C + 1
            BY <1>2, <1>4, <2>2, <2>3, <3>2
        <3>3. QED
            BY <1>3, <3>1, <3>2
    <2>4. QED
        BY <1>2, <2>3 DEF RunsGuarded
<1>6. CallsGuarded(r, d)
    <2>1. ASSUME NEW i \in 1..C
          PROVE  LET run == q.ops["compute"][i]
                 IN  /\ run.op.call \in 1..Len(q.ops["caller"])
                     /\ run.op.call <= run.after["caller"]
                     /\ \A k \in run.op.call + 1..Len(q.ops["caller"]) :
                         i <= d \/ i <= q.ops["caller"][k].after["compute"]
        BY DEF CallsGuarded
    <2>2. calls \in 1..Len(q.ops["caller"]) /\ calls <= a["caller"]
        OBVIOUS
    <2>3. calls + 1..Len(q.ops["caller"]) = {}
        OBVIOUS
    <2>4. QED
        BY <1>2, <1>3, <1>4, <2>1, <2>2, <2>3 DEF CallsGuarded
<1>7. QED
    BY <1>5, <1>6

(***************************************************************************)
(* Prefetching.                                                            *)
(***************************************************************************)

LEMMA NextBlockIsFirst ==
    ASSUME NEW q \in Plan, q.offloaded # {}, Depth \in Nat \ {0}
    PROVE  /\ NextBlock(q) \in q.offloaded
           /\ NextBlock(q) \in Block
           /\ \A b \in q.offloaded : NextBlock(q) <= b
<1>1. q.offloaded \subseteq Block /\ Block \subseteq Nat
    BY DEF Plan, Block
<1>2. PICK b \in q.offloaded : \A c \in q.offloaded : ~(<<c, b>> \in OpToRel(<, Nat))
    BY <1>1, NatLessThanWellFounded, WFMin
<1>3. \A c \in q.offloaded : c \in Nat /\ b \in Nat /\ ~(c < b)
    BY <1>1, <1>2, Zenon DEF OpToRel
<1>4. \E x \in q.offloaded : \A c \in q.offloaded : x <= c
    BY <1>3
<1>5. NextBlock(q) \in q.offloaded /\ \A c \in q.offloaded : NextBlock(q) <= c
    BY <1>4 DEF NextBlock
<1>6. QED
    BY <1>1, <1>5

\* The effect of prefetch(q, n) on a plan whose slot n is free.
LEMMA PrefetchEffect ==
    ASSUME NEW q, NEW n \in Slot, NEW d \in Nat, calls \in Nat, Depth \in Nat \ {0},
           PlanOK(q), RunsGuarded(q, d), CallsGuarded(q, d), FreeCovers(q, d), Staging(q),
           n \notin q.pending, ~q.misused, q.waited = {}
    PROVE  LET r == prefetch(q, n)
           IN  /\ PlanOK(r) /\ RunsGuarded(r, d) /\ CallsGuarded(r, d) /\ FreeCovers(r, d)
               /\ Staging(r) /\ ~r.misused /\ r.waited = {} /\ Extends(q, r)
               /\ \A s \in {"caller", "compute"} : r.ops[s] = q.ops[s] /\ r.barrier[s] = q.barrier[s]
               /\ \A m \in q.pending : InSlot(r, m) = InSlot(q, m)
               /\ \/ q.offloaded = {} /\ r.offloaded = {} /\ r.pending = q.pending
                  \/ /\ q.offloaded # {}
                     /\ r.pending = q.pending \cup {n}
                     /\ InSlot(r, n) \in q.offloaded
                     /\ r.offloaded = q.offloaded \ {InSlot(r, n)}
                     /\ \A b \in r.offloaded : InSlot(r, n) < b
<1> DEFINE r == prefetch(q, n)
<1> DEFINE b == NextBlock(q)
<1>1. q \in Plan
    BY DEF PlanOK
<1>2. CASE q.offloaded = {}
    BY <1>1, <1>2, PlanTypes DEF prefetch, Extends
<1>3. CASE q.offloaded # {}
    <2>1. b \in q.offloaded /\ b \in Block /\ (\A c \in q.offloaded : b <= c)
        BY <1>1, <1>3, NextBlockIsFirst
    <2>2. r = prefetch_to_slot(q, n, b)
        BY <1>3 DEF prefetch
    <2>3. /\ Copied(q, r, n, b)
          /\ r.ready = [q.ready EXCEPT ![n] = Len(r.ops["load"])]
          /\ r.pending = q.pending \cup {n} /\ r.waited = q.waited \ {n}
          /\ r.misused = (q.misused \/ n \in q.pending)
        <3> DEFINE p == prefetch_to_slot(q, n, b)
        <3> HIDE DEF b
        <3>1. /\ Copied(q, p, n, b)
              /\ p.ready = [q.ready EXCEPT ![n] = Len(p.ops["load"])]
              /\ p.pending = q.pending \cup {n} /\ p.waited = q.waited \ {n}
              /\ p.misused = (q.misused \/ n \in q.pending)
            BY <1>1, <2>1, PrefetchPlan
        <3>2. r = p
            BY <2>2
        <3> HIDE DEF p, r
        <3>3. QED
            BY <3>1, <3>2
    <2> HIDE DEF r, b
    <2> DEFINE L == Len(q.ops["load"])
    <2>4. /\ L \in Nat /\ q.ready \in [Slot -> Nat] /\ q.pending \subseteq Slot
          /\ \A m \in Slot : q.ready[m] <= L
        BY <1>1, PlanTypes DEF PlanOK, Plan, Stream
    <2>5. /\ Len(r.ops["load"]) = L + 1
          /\ r.ops["load"][L + 1] = [op |-> Copy(b, n), after |-> FreeWait(q, n)]
          /\ \A k \in 1..L : r.ops["load"][k] = q.ops["load"][k]
          /\ r.ops["compute"] = q.ops["compute"] /\ r.ops["caller"] = q.ops["caller"]
        <3>1. "load" \in Stream /\ "compute" \in Stream \ {"load"} /\ "caller" \in Stream \ {"load"}
            BY DEF Stream
        <3>2. QED
            BY <2>3, <2>4, <3>1 DEF Copied, Added
    <2>6. r.ops["load"][L + 1].op.slot = n /\ r.ops["load"][L + 1].op.block = b
        BY <2>5 DEF Copy
    <2>7. r.ready[n] = L + 1 /\ \A m \in Slot \ {n} : r.ready[m] = q.ready[m]
        BY <2>3, <2>4, <2>5
    <2>8. \A m \in Slot : r.ready[m] <= Len(r.ops["load"])
        BY <2>4, <2>5, <2>7
    <2>9. PlanOK(r) /\ RunsGuarded(r, d) /\ CallsGuarded(r, d) /\ FreeCovers(r, d)
        BY <2>1, <2>3, <2>8, CopyGuards
    <2>10. InSlot(r, n) = b
        BY <2>6, <2>7 DEF InSlot
    <2>11. \A m \in q.pending : m \in Slot \ {n} /\ q.ready[m] \in 1..L
        BY <2>4 DEF Staging
    <2>12. \A m \in q.pending : InSlot(r, m) = InSlot(q, m)
        BY <2>5, <2>7, <2>11 DEF InSlot
    <2>13. Staging(r)
        <3>1. ASSUME NEW m \in q.pending
              PROVE  /\ r.ready[m] \in 1..Len(r.ops["load"])
                     /\ r.ops["load"][r.ready[m]].op.slot = m
                     /\ \A k \in r.ready[m] + 1..Len(r.ops["load"]) : r.ops["load"][k].op.slot # m
            <4>1. /\ q.ops["load"][q.ready[m]].op.slot = m
                  /\ \A k \in q.ready[m] + 1..L : q.ops["load"][k].op.slot # m
                BY DEF Staging
            <4>2. m # n /\ r.ready[m] = q.ready[m] /\ q.ready[m] \in 1..L
                BY <2>7, <2>11
            <4>3. \A k \in q.ready[m] + 1..L + 1 : k \in q.ready[m] + 1..L \/ k = L + 1
                BY <2>4, <4>2
            <4>4. \A k \in q.ready[m] + 1..L : k \in 1..L
                BY <2>4, <4>2
            <4>5. \A k \in q.ready[m] + 1..L + 1 : r.ops["load"][k].op.slot # m
                <5> HIDE DEF L
                <5>1. QED
                    BY <2>5, <2>6, <4>1, <4>2, <4>3, <4>4
            <4>6. r.ops["load"][q.ready[m]] = q.ops["load"][q.ready[m]]
                BY <2>5, <4>2
            <4>7. QED
                BY <2>4, <2>5, <4>1, <4>2, <4>5, <4>6
        <3>2. /\ r.ready[n] \in 1..Len(r.ops["load"])
              /\ r.ops["load"][r.ready[n]].op.slot = n
              /\ r.ready[n] + 1..Len(r.ops["load"]) = {}
            BY <2>4, <2>5, <2>6, <2>7
        <3>3. QED
            BY <2>3, <3>1, <3>2 DEF Staging
    <2>14. \A s \in {"caller", "compute"} : r.ops[s] = q.ops[s] /\ r.barrier[s] = q.barrier[s]
        <3>1. r.barrier["caller"] = q.barrier["caller"] /\ r.barrier["compute"] = q.barrier["compute"]
            BY <1>1, <2>3 DEF Copied, Plan, Stream
        <3>2. QED
            BY <2>5, <3>1
    <2>15. r.offloaded = q.offloaded \ {b} /\ ~r.misused /\ r.waited = {}
        BY <2>3 DEF Copied
    <2>16. \A c \in r.offloaded : b < c
        <3>1. q.offloaded \subseteq Block /\ Block \subseteq Nat
            BY <1>1 DEF Plan, Block
        <3>2. QED
            BY <2>1, <2>15, <3>1
    <2>17. Extends(q, r)
        BY <1>1, <2>3, AddedExtends DEF Copied, Stream
    <2>18. QED
        BY <1>3, <2>1, <2>3, <2>9, <2>10, <2>12, <2>13, <2>14, <2>15, <2>16, <2>17 DEF r
<1>4. QED
    BY <1>2, <1>3

\* A plan that differs from q in the barriers and flags only keeps the guards.
LEMMA SameOps ==
    ASSUME NEW q, NEW r \in Plan, NEW d, PlanOK(q), RunsGuarded(q, d), CallsGuarded(q, d),
           r.ops = q.ops, r.ready = q.ready, r.free = q.free,
           \A s, t \in Stream : r.barrier[s][t] <= Len(q.ops[t])
    PROVE  PlanOK(r) /\ RunsGuarded(r, d) /\ CallsGuarded(r, d) /\ Extends(q, r)
<1>1. PlanOK(r)
    BY DEF PlanOK
<1>2. RunsGuarded(r, d) /\ CallsGuarded(r, d)
    BY DEF RunsGuarded, CallsGuarded, Behind
<1>3. Extends(q, r)
    BY PlanTypes DEF PlanOK, Extends
<1>4. QED
    BY <1>1, <1>2, <1>3

\* What is left when a copy raises keeps the guards.
LEMMA CopyRaisedGuards ==
    ASSUME NEW q, NEW n \in Slot, NEW d \in Nat, calls \in Nat, Depth \in Nat \ {0},
           PlanOK(q), RunsGuarded(q, d), CallsGuarded(q, d), FreeCovers(q, d), ~q.misused,
           NEW r \in CopyRaised(q, n)
    PROVE  /\ PlanOK(r) /\ RunsGuarded(r, d) /\ CallsGuarded(r, d) /\ ~r.misused
           /\ r.ops["caller"] = q.ops["caller"] /\ Extends(q, r)
<1> DEFINE b == NextBlock(q)
<1>1. q \in Plan /\ q.offloaded # {} /\ r \in {AfterFree(q, n), Staged(q, n, b)}
    BY DEF PlanOK, CopyRaised
<1>2. b \in Block
    BY <1>1, NextBlockIsFirst
<1> HIDE DEF b
<1>3. CASE r = AfterFree(q, n)
    <2>1. /\ r \in Plan /\ r.ops = q.ops
          /\ r.barrier = [q.barrier EXCEPT !["load"] = FreeWait(q, n)]
          /\ Unmarked(q, r)
        BY <1>1, <1>3, AfterFreePlan
    <2>2. \A t \in Stream : FreeWait(q, n)[t] <= Len(q.ops[t])
        <3>1. q.free[n] <= Len(q.ops["compute"])
            BY DEF PlanOK
        <3>2. \A t \in Stream : q.barrier["load"][t] <= Len(q.ops[t])
            BY DEF PlanOK, Stream
        <3>3. QED
            BY <1>1, <3>1, <3>2, PlanTypes DEF FreeWait, Stream
    <2>3. \A s, t \in Stream : r.barrier[s][t] <= Len(q.ops[t])
        BY <1>1, <2>1, <2>2 DEF PlanOK, Plan
    <2>4. PlanOK(r) /\ RunsGuarded(r, d) /\ CallsGuarded(r, d) /\ Extends(q, r)
        BY <2>1, <2>3, SameOps DEF Unmarked
    <2>5. QED
        BY <2>1, <2>4 DEF Unmarked
<1>4. CASE r = Staged(q, n, b)
    <2>1. /\ Copied(q, r, n, b)
          /\ r.ready = q.ready /\ r.misused = q.misused
        BY <1>1, <1>2, <1>4, StagedPlan
    <2>2. \A m \in Slot : r.ready[m] <= Len(r.ops["load"])
        <3>1. Len(q.ops["load"]) \in Nat /\ Len(r.ops["load"]) = Len(q.ops["load"]) + 1
            BY <1>1, <2>1, PlanTypes DEF Copied, Added, Stream
        <3>2. QED
            BY <1>1, <2>1, <3>1, PlanTypes DEF PlanOK
    <2>3. PlanOK(r) /\ RunsGuarded(r, d) /\ CallsGuarded(r, d)
        BY <1>2, <2>1, <2>2, CopyGuards
    <2>4. r.ops["caller"] = q.ops["caller"]
        BY <2>1 DEF Copied, Added, Stream
    <2>5. Extends(q, r)
        BY <1>1, <2>1, AddedExtends DEF Copied, Stream
    <2>6. QED
        BY <2>1, <2>3, <2>4, <2>5
<1>5. QED
    BY <1>1, <1>3, <1>4

(***************************************************************************)
(* The steps of the host.                                                  *)
(***************************************************************************)

LEMMA BecomesPlan ==
    ASSUME NEW r \in Plan, Becomes(r)
    PROVE  Issued' = r
<1>1. r = [ops |-> r.ops, barrier |-> r.barrier, ready |-> r.ready, free |-> r.free,
           pending |-> r.pending, waited |-> r.waited, free_recorded |-> r.free_recorded,
           misused |-> r.misused, offloaded |-> r.offloaded]
    BY DEF Plan
<1>2. QED
    BY <1>1 DEF Becomes, Issued

LEMMA IssuedFields ==
    /\ Issued.ops = ops /\ Issued.barrier = barrier /\ Issued.ready = ready /\ Issued.free = free
    /\ Issued.pending = pending /\ Issued.waited = waited
    /\ Issued.free_recorded = free_recorded /\ Issued.misused = misused
    /\ Issued.offloaded = offloaded
<1>1. QED
    BY DEF Issued

\* What the device has done is not disturbed by work that is added.
LEMMA HostKeepsDevice ==
    ASSUME Inv, NEW r \in Plan, Becomes(r), Extends(Issued, r), UNCHANGED deviceVars
    PROVE  DeviceInv'
<1>1. /\ ops' = r.ops /\ Issued.ops = ops
      /\ done' = done /\ active' = active /\ buffer' = buffer /\ input' = input
    BY IssuedFields DEF Becomes, deviceVars
<1>2. \A s \in Stream : Begun(s)' = Begun(s) /\ Begun(s) \in Nat /\ Begun(s) <= Len(ops[s])
    BY <1>1 DEF Inv, DeviceInv, Begun
<1>3. \A s \in Stream : Len(ops[s]) \in Nat /\ Len(ops'[s]) \in Nat /\ Len(ops[s]) <= Len(ops'[s])
    <2>1. \A s \in Stream : Len(ops[s]) \in Nat
        BY <1>1, PlanTypes DEF Inv, IssueInv, PlanOK
    <2>2. QED
        BY <1>1, <2>1, PlanTypes DEF Extends
<1>4. \A s \in Stream : \A k \in 1..Begun(s) : k \in 1..Len(ops[s]) /\ ops'[s][k] = ops[s][k]
    BY <1>1, <1>2, <1>3 DEF Extends
<1>5. "load" \in Stream /\ "caller" \in Stream /\ done["load"] \in Nat
      /\ done["load"] <= Begun("load")
    BY DEF Stream, Inv, DeviceInv, Begun
<1>6. \A s \in Stream : Begun(s)' <= Len(ops'[s])
    BY <1>2, <1>3
<1>7. \A s, t \in Stream : \A k \in 1..Begun(s)' : ops'[s][k].after[t] <= done'[t]
    BY <1>1, <1>2, <1>4 DEF Inv, DeviceInv
<1>8. ASSUME NEW n \in Slot, NEW j \in 1..done'["load"],
             ops'["load"][j].op.slot = n,
             \A k \in j + 1..Begun("load")' : ops'["load"][k].op.slot # n
      PROVE  buffer'[n] = ops'["load"][j].op.block
    <2>1. j \in 1..done["load"] /\ j \in 1..Begun("load")
        BY <1>1, <1>2, <1>5
    <2>2. \A k \in j + 1..Begun("load") : k \in 1..Begun("load")
        BY <1>2, <1>5, <2>1
    <2>3. \A k \in j + 1..Begun("load") : ops["load"][k].op.slot # n
        BY <1>2, <1>4, <1>5, <1>8, <2>2
    <2>4. ops["load"][j].op.slot = n
        BY <1>4, <1>5, <1>8, <2>1
    <2>5. buffer[n] = ops["load"][j].op.block
        BY <2>1, <2>3, <2>4 DEF Inv, DeviceInv
    <2>6. QED
        BY <1>1, <1>4, <1>5, <2>1, <2>5
<1>9. /\ done' \in [Stream -> Nat] /\ active' \in SUBSET Stream
      /\ buffer' \in [Slot -> Block \cup {Torn}] /\ input' = Begun("caller")'
    BY <1>1, <1>2, <1>5 DEF Inv, DeviceInv
<1>10. QED
    BY <1>6, <1>7, <1>8, <1>9 DEF DeviceInv

\* A step of the host that issues r.
LEMMA HostIssues ==
    ASSUME Inv, NEW r, Becomes(r), UNCHANGED deviceVars, Extends(Issued, r),
           PlanOK(r), RunsGuarded(r, done["compute"]), CallsGuarded(r, done["compute"]),
           HostInv'
    PROVE  Inv'
<1>1. r \in Plan /\ Issued' = r /\ done' = done
    BY BecomesPlan DEF PlanOK, deviceVars
<1>2. IssueInv'
    <2>1. PlanOK(Issued') /\ RunsGuarded(Issued', done'["compute"])
          /\ CallsGuarded(Issued', done'["compute"])
        BY <1>1
    <2>2. QED
        BY <2>1 DEF IssueInv, PlanOK, RunsGuarded, CallsGuarded, Behind
<1>3. QED
    BY <1>1, <1>2, HostKeepsDevice DEF Inv

\* The call's plan before the first prefetch.
Opened ==
    WaitStream(WaitStream([Issue(Issued, "caller", Prepare(calls')) EXCEPT !.offloaded = Block \ residents],
                          "compute", "caller"), "load", "caller")

LEMMA OpenedPlan ==
    ASSUME Inv, pc = "idle", calls' = calls + 1, Depth \in Nat \ {0}, MaxCalls \in Nat
    PROVE  LET q == Opened
               d == done["compute"]
           IN  /\ PlanOK(q) /\ RunsGuarded(q, d) /\ CallsGuarded(q, d) /\ FreeCovers(q, d)
               /\ Extends(Issued, q) /\ q.pending = {} /\ q.waited = {} /\ ~q.misused
               /\ q.offloaded = Block \ residents
               /\ Len(q.ops["caller"]) = calls + 1 /\ q.barrier["compute"]["caller"] = calls + 1
<1> DEFINE d == done["compute"]
<1> DEFINE e == Issue(Issued, "caller", Prepare(calls + 1))
<1> DEFINE f == [e EXCEPT !.offloaded = Block \ residents]
<1> DEFINE g == WaitStream(f, "compute", "caller")
<1> DEFINE q == WaitStream(g, "load", "caller")
<1> DEFINE N == calls + 1
<1>1. /\ Issued \in Plan /\ PlanOK(Issued) /\ RunsGuarded(Issued, d) /\ CallsGuarded(Issued, d)
      /\ FreeCovers(Issued, d)
      /\ calls \in Nat /\ calls = Len(Issued.ops["caller"])
      /\ Issued.pending = {} /\ Issued.waited = {} /\ ~Issued.misused
      /\ \A i \in 1..Len(Issued.ops["compute"]) : i <= d \/ i <= Issued.barrier["caller"]["compute"]
    BY IssuedFields DEF Inv, HostInv, IssueInv, PlanOK
<1>2. "caller" \in Stream /\ "load" \in Stream /\ "compute" \in Stream
    BY DEF Stream
<1>3. /\ e \in Plan /\ Added(Issued, e, "caller", Prepare(N), Issued.barrier["caller"])
      /\ e.barrier = Issued.barrier /\ Unmarked(Issued, e)
    <2>1. Prepare(N) \in Op
        <3>1. 0 \in Block /\ calls \in Nat /\ N \in Nat
            BY <1>1 DEF Block
        <3>2. QED
            BY <3>1 DEF Op, Prepare
    <2>2. QED
        BY <1>1, <1>2, <2>1, IssuePlan
<1> HIDE DEF e
<1>4. /\ f \in Plan /\ f.ops = e.ops /\ f.barrier = e.barrier
      /\ f.ready = e.ready /\ f.free = e.free /\ f.pending = e.pending /\ f.waited = e.waited
      /\ f.free_recorded = e.free_recorded /\ f.misused = e.misused
      /\ f.offloaded = Block \ residents
    BY <1>3 DEF Plan
<1> HIDE DEF f
<1>5. Len(f.ops["caller"]) = N /\ N \in Nat
    BY <1>1, <1>3, <1>4 DEF Added
<1>6. /\ g \in Plan /\ g.ops = f.ops /\ g.barrier = [f.barrier EXCEPT !["compute"]["caller"] = N]
      /\ Unmarked(f, g)
    BY <1>2, <1>4, <1>5, WaitStreamPlan
<1> HIDE DEF g
<1>7. /\ q \in Plan /\ q.ops = g.ops /\ q.barrier = [g.barrier EXCEPT !["load"]["caller"] = N]
      /\ Unmarked(g, q)
    <2>1. g \in Plan
        BY <1>6
    <2>2. /\ q \in Plan /\ q.ops = g.ops
          /\ q.barrier = [g.barrier EXCEPT !["load"]["caller"] = Len(g.ops["caller"])]
          /\ Unmarked(g, q)
        BY <1>2, <2>1, WaitStreamPlan
    <2> HIDE DEF q
    <2>3. QED
        BY <1>5, <1>6, <2>2
<1> HIDE DEF q
<1>8. /\ q.ready = Issued.ready /\ q.free = Issued.free /\ q.pending = {} /\ q.waited = {}
      /\ q.free_recorded = Issued.free_recorded /\ ~q.misused
      /\ q.offloaded = Block \ residents
    BY <1>1, <1>3, <1>4, <1>6, <1>7 DEF Unmarked
<1>9. /\ Len(q.ops["caller"]) = N
      /\ q.ops["caller"][N] = [op |-> Prepare(N), after |-> Issued.barrier["caller"]]
      /\ \A k \in 1..calls : q.ops["caller"][k] = Issued.ops["caller"][k]
      /\ q.ops["load"] = Issued.ops["load"] /\ q.ops["compute"] = Issued.ops["compute"]
    BY <1>1, <1>2, <1>3, <1>4, <1>5, <1>6, <1>7 DEF Added, Stream
<1>10. \A s, t \in Stream :
        q.barrier[s][t] = IF t = "caller" /\ s # "caller" THEN N ELSE Issued.barrier[s][t]
    <2>1. Issued.barrier \in [Stream -> [Stream -> Nat]]
        BY <1>1 DEF Plan
    <2>2. QED
        BY <1>3, <1>4, <1>6, <1>7, <2>1 DEF Stream
<1>11. PlanOK(q)
    <2>1. \A s, t \in Stream : q.barrier[s][t] <= Len(q.ops[t])
        <3>1. \A s, t \in Stream : Issued.barrier[s][t] \in Nat /\ Issued.barrier[s][t] <= Len(Issued.ops[t])
            BY <1>1, PlanTypes DEF PlanOK
        <3>2. \A t \in Stream : Len(Issued.ops[t]) <= Len(q.ops[t]) /\ Len(q.ops[t]) \in Nat
                                /\ Len(Issued.ops[t]) \in Nat
            BY <1>1, <1>7, <1>9, PlanTypes DEF Stream
        <3>3. QED
            BY <1>1, <1>9, <1>10, <3>1, <3>2
    <2>2. \A i \in 1..N : q.ops["caller"][i].op.do = "prepare" /\ q.ops["caller"][i].op.call = i
        <3>1. \A i \in 1..N : i \in 1..calls \/ i = N
            BY <1>1
        <3>2. \A i \in 1..calls : Issued.ops["caller"][i].op.do = "prepare"
                                  /\ Issued.ops["caller"][i].op.call = i
            BY <1>1 DEF PlanOK
        <3>3. q.ops["caller"][N].op.do = "prepare" /\ q.ops["caller"][N].op.call = N
            BY <1>9 DEF Prepare
        <3> HIDE DEF N
        <3>4. QED
            BY <1>9, <3>1, <3>2, <3>3
    <2>3. QED
        BY <1>1, <1>7, <1>8, <1>9, <2>1, <2>2 DEF PlanOK
<1>12. RunsGuarded(q, d)
    BY <1>1, <1>9 DEF RunsGuarded, Behind
<1>13. CallsGuarded(q, d)
    <2> SUFFICES ASSUME NEW i \in 1..Len(q.ops["compute"])
                 PROVE  LET run == q.ops["compute"][i]
                        IN  /\ run.op.call \in 1..N
                            /\ run.op.call <= run.after["caller"]
                            /\ \A k \in run.op.call + 1..N :
                                i <= d \/ i <= q.ops["caller"][k].after["compute"]
        BY <1>9 DEF CallsGuarded
    <2> DEFINE run == Issued.ops["compute"][i]
    <2>1. run = q.ops["compute"][i] /\ i \in 1..Len(Issued.ops["compute"])
        BY <1>9
    <2>2. /\ run.op.call \in 1..calls /\ run.op.call <= run.after["caller"]
          /\ \A k \in run.op.call + 1..calls : i <= d \/ i <= Issued.ops["caller"][k].after["compute"]
        BY <1>1, <2>1 DEF CallsGuarded
    <2>3. i <= d \/ i <= q.ops["caller"][N].after["compute"]
        BY <1>1, <1>9, <2>1
    <2>4. \A k \in run.op.call + 1..N : k = N \/ (k \in run.op.call + 1..calls /\ k \in 1..calls)
        BY <1>1, <2>2
    <2>5. run.op.call \in 1..N
        BY <1>1, <2>2
    <2> HIDE DEF N, run
    <2>6. QED
        BY <1>9, <2>1, <2>2, <2>3, <2>4, <2>5
<1>14. FreeCovers(q, d)
    BY <1>1, <1>8, <1>9 DEF FreeCovers
<1>15. Extends(Issued, q)
    BY <1>1, <1>2, <1>9, PlanTypes DEF Extends, Stream
<1>16. Opened = q
    BY DEF Opened, q, g, f, e
<1>17. QED
    BY <1>2, <1>8, <1>9, <1>10, <1>11, <1>12, <1>13, <1>14, <1>15, <1>16

LEMMA CallKeeps ==
    ASSUME Inv, Call
    PROVE  Inv'
<1> DEFINE d == done["compute"]
<1> DEFINE q == Opened
<1> DEFINE p == prefetch(q, 0)
<1> DEFINE r == prefetch(p, 1)
<1>1. Depth \in Nat \ {0} /\ MaxCalls \in Nat
    BY EventAssumption
<1>2. /\ pc = "idle" /\ calls < MaxCalls /\ calls' = calls + 1 /\ index' = 0 /\ slot' = 0
      /\ residents' = residents /\ UNCHANGED deviceVars
      /\ \/ pc' = "loop" /\ Becomes(r)
         \/ pc' = "except" /\ \E x \in CopyRaised(q, 0) \cup CopyRaised(p, 1) : Becomes(x)
    BY DEF Call, Opened
<1>3. /\ PlanOK(q) /\ RunsGuarded(q, d) /\ CallsGuarded(q, d) /\ FreeCovers(q, d)
      /\ Extends(Issued, q) /\ q.pending = {} /\ q.waited = {} /\ ~q.misused
      /\ q.offloaded = Block \ residents
      /\ Len(q.ops["caller"]) = calls + 1 /\ q.barrier["compute"]["caller"] = calls + 1
    BY <1>1, <1>2, OpenedPlan
<1> HIDE DEF q
<1>4. /\ calls \in Nat /\ d \in Nat /\ Issued \in Plan /\ residents \in SUBSET Block
      /\ calls + 1 \in 0..MaxCalls
    BY <1>1, <1>2 DEF Inv, HostInv, IssueInv, DeviceInv, PlanOK, Stream
<1>5. 0 \in Slot /\ 1 \in Slot /\ Slot = {0, 1}
    BY DEF Slot
<1> HIDE DEF d
<1>6. /\ PlanOK(p) /\ RunsGuarded(p, d) /\ CallsGuarded(p, d) /\ FreeCovers(p, d)
      /\ Staging(p) /\ ~p.misused /\ p.waited = {} /\ Extends(q, p)
      /\ \A s \in {"caller", "compute"} : p.ops[s] = q.ops[s] /\ p.barrier[s] = q.barrier[s]
      /\ \/ q.offloaded = {} /\ p.offloaded = {} /\ p.pending = {}
         \/ /\ q.offloaded # {}
            /\ p.pending = {0}
            /\ InSlot(p, 0) \in q.offloaded
            /\ p.offloaded = q.offloaded \ {InSlot(p, 0)}
            /\ \A b \in p.offloaded : InSlot(p, 0) < b
    <2>1. Staging(q) /\ 0 \notin q.pending
        BY <1>3 DEF Staging
    <2>2. QED
        BY <1>1, <1>3, <1>4, <1>5, <2>1, PrefetchEffect
<1> HIDE DEF p
<1>7. Extends(Issued, p) /\ p \in Plan /\ 1 \notin p.pending
    BY <1>3, <1>4, <1>6, ExtendsOn DEF PlanOK
<1>8. CASE pc' = "loop" /\ Becomes(r)
    <2>1. /\ PlanOK(r) /\ RunsGuarded(r, d) /\ CallsGuarded(r, d) /\ FreeCovers(r, d)
          /\ Staging(r) /\ ~r.misused /\ r.waited = {} /\ Extends(p, r)
          /\ \A s \in {"caller", "compute"} : r.ops[s] = p.ops[s] /\ r.barrier[s] = p.barrier[s]
          /\ \A m \in p.pending : InSlot(r, m) = InSlot(p, m)
          /\ \/ p.offloaded = {} /\ r.offloaded = {} /\ r.pending = p.pending
             \/ /\ p.offloaded # {}
                /\ r.pending = p.pending \cup {1}
                /\ InSlot(r, 1) \in p.offloaded
                /\ r.offloaded = p.offloaded \ {InSlot(r, 1)}
                /\ \A b \in r.offloaded : InSlot(r, 1) < b
        BY <1>1, <1>4, <1>5, <1>6, <1>7, PrefetchEffect
    <2> HIDE DEF r
    <2>2. r \in Plan /\ Extends(Issued, r) /\ Issued' = r
        BY <1>4, <1>7, <1>8, <2>1, ExtendsOn, BecomesPlan DEF PlanOK
    <2>3. Left(index)' = Block \ residents
        BY <1>2 DEF Left, Block
    <2>4. InOrder(r, Block \ residents, 0)
        <3>1. Block \ residents = q.offloaded
            BY <1>3
        <3>2. /\ Block \ residents = r.offloaded \cup {InSlot(r, m) : m \in r.pending}
              /\ \A m \in r.pending, b \in r.offloaded : InSlot(r, m) < b
              /\ r.pending = Slot => InSlot(r, 0) < InSlot(r, 1 - 0)
              /\ 0 \notin r.pending => r.pending = {} /\ r.offloaded = {}
              /\ 1 - 0 \notin r.pending => r.offloaded = {}
            <4>1. CASE p.pending = {}
                <5>1. q.offloaded = {} /\ r.pending = {} /\ r.offloaded = {}
                    BY <1>6, <2>1, <4>1
                <5>2. QED
                    BY <1>5, <3>1, <5>1
            <4>2. CASE p.pending = {0} /\ p.offloaded = {}
                BY <1>5, <1>6, <2>1, <3>1, <4>2
            <4>3. CASE p.pending = {0} /\ p.offloaded # {}
                <5>1. r.pending = {0, 1} /\ InSlot(r, 0) = InSlot(p, 0)
                    BY <2>1, <4>3
                <5>2. InSlot(r, 0) < InSlot(r, 1)
                    BY <1>6, <2>1, <4>3, <5>1
                <5>3. \A m \in r.pending, b \in r.offloaded : InSlot(r, m) < b
                    BY <1>6, <2>1, <4>3, <5>1
                <5>4. Block \ residents = r.offloaded \cup {InSlot(r, m) : m \in r.pending}
                    BY <1>6, <2>1, <3>1, <4>3, <5>1
                <5>5. QED
                    BY <5>1, <5>2, <5>3, <5>4
            <4>4. QED
                BY <1>6, <4>1, <4>2, <4>3
        <3>3. QED
            BY <3>2 DEF InOrder
    <2>5. /\ ops' = r.ops /\ barrier' = r.barrier /\ pending' = r.pending /\ waited' = r.waited
          /\ misused' = r.misused /\ offloaded' = r.offloaded /\ done' = done
        BY <1>2, <1>8 DEF Becomes, deviceVars
    <2>6. HostInv'
        <3>1. FreeCovers(Issued, done["compute"])'
            BY <2>1, <2>2, <2>5 DEF FreeCovers, d
        <3>2. Staging(Issued)' /\ InOrder(Issued, Left(index), slot)'
            <4>1. Staging(Issued') /\ InOrder(Issued', Left(index)', slot')
                BY <1>2, <2>1, <2>2, <2>3, <2>4
            <4>2. QED
                BY <4>1 DEF Staging, InOrder, InSlot
        <3>3. /\ residents' \in SUBSET Block /\ pc' = "loop"
              /\ calls' \in 0..MaxCalls /\ calls' > 0 /\ index' \in 0..Depth /\ slot' \in Slot
              /\ calls' = Len(ops'["caller"]) /\ ~misused'
              /\ barrier'["compute"]["caller"] = calls' /\ waited' = {}
            BY <1>1, <1>2, <1>3, <1>4, <1>5, <1>6, <1>8, <2>1, <2>5
        <3>4. QED
            BY <3>1, <3>2, <3>3 DEF HostInv
    <2>7. QED
        BY <1>2, <1>8, <2>1, <2>2, <2>6, HostIssues DEF d
<1>9. ASSUME NEW x \in CopyRaised(q, 0) \cup CopyRaised(p, 1), pc' = "except", Becomes(x)
      PROVE  Inv'
    <2>1. /\ PlanOK(x) /\ RunsGuarded(x, d) /\ CallsGuarded(x, d) /\ ~x.misused
          /\ x.ops["caller"] = q.ops["caller"] /\ (Extends(q, x) \/ Extends(p, x))
        <3>1. CASE x \in CopyRaised(q, 0)
            BY <1>1, <1>3, <1>4, <1>5, <3>1, CopyRaisedGuards
        <3>2. CASE x \in CopyRaised(p, 1)
            BY <1>1, <1>4, <1>5, <1>6, <3>2, CopyRaisedGuards
        <3>3. QED
            BY <3>1, <3>2
    <2>2. Extends(Issued, x)
        BY <1>3, <1>4, <1>7, <2>1, ExtendsOn DEF PlanOK
    <2>3. ops' = x.ops /\ misused' = x.misused
        BY <1>9 DEF Becomes
    <2>4. HostInv'
        BY <1>1, <1>2, <1>3, <1>4, <1>5, <1>9, <2>1, <2>3 DEF HostInv
    <2>5. QED
        BY <1>2, <1>9, <2>1, <2>2, <2>4, HostIssues DEF d
<1>10. QED
    BY <1>2, <1>8, <1>9

\* A run that is added keeps the plan well-formed.
LEMMA RunPlanOK ==
    ASSUME NEW q, NEW r \in Plan, NEW n, NEW a, PlanOK(q),
           Added(q, r, "compute", Run(index, n), a), r.ready = q.ready,
           \A s, t \in Stream : r.barrier[s][t] <= Len(q.ops[t]),
           \A m \in Slot : r.free[m] <= Len(r.ops["compute"])
    PROVE  PlanOK(r)
<1> DEFINE C == Len(q.ops["compute"])
<1>1. q \in Plan /\ "compute" \in Stream /\ C \in Nat /\ {"load", "caller"} \subseteq Stream \ {"compute"}
    BY PlanTypes DEF PlanOK, Stream
<1>2. /\ Len(r.ops["compute"]) = C + 1
      /\ r.ops["compute"][C + 1].op.do = "run"
      /\ \A k \in 1..C : r.ops["compute"][k] = q.ops["compute"][k]
      /\ r.ops["load"] = q.ops["load"] /\ r.ops["caller"] = q.ops["caller"]
    BY <1>1 DEF Added, Run
<1>3. \A s, t \in Stream : r.barrier[s][t] <= Len(r.ops[t])
    <2>1. \A t \in Stream : Len(q.ops[t]) \in Nat
        BY <1>1, PlanTypes
    <2>2. /\ \A t \in Stream : Len(r.ops[t]) \in Nat
          /\ \A s, t \in Stream : r.barrier[s][t] \in Nat
        BY PlanTypes
    <2>3. ASSUME NEW t \in Stream
          PROVE  Len(q.ops[t]) <= Len(r.ops[t])
        <3>1. CASE t = "compute"
            BY <1>1, <1>2, <3>1
        <3>2. CASE t # "compute"
            <4>1. r.ops[t] = q.ops[t]
                BY <1>2, <3>2 DEF Stream
            <4>2. QED
                BY <2>1, <4>1
        <3>3. QED
            BY <3>1, <3>2
    <2>4. QED
        BY <2>1, <2>2, <2>3
<1>4. \A i \in 1..Len(r.ops["compute"]) : r.ops["compute"][i].op.do = "run"
    <2>1. \A i \in 1..C + 1 : i \in 1..C \/ i = C + 1
        BY <1>1
    <2>2. \A i \in 1..C : q.ops["compute"][i].op.do = "run"
        BY DEF PlanOK
    <2> HIDE DEF C
    <2>3. QED
        BY <1>2, <2>1, <2>2
<1>5. QED
    BY <1>1, <1>2, <1>3, <1>4 DEF PlanOK

LEMMA LoopFacts ==
    ASSUME Inv, pc = "loop"
    PROVE  /\ Issued \in Plan /\ PlanOK(Issued)
           /\ RunsGuarded(Issued, done["compute"]) /\ CallsGuarded(Issued, done["compute"])
           /\ FreeCovers(Issued, done["compute"])
           /\ Staging(Issued) /\ InOrder(Issued, Left(index), slot)
           /\ done["compute"] \in Nat /\ slot \in Slot /\ index \in 0..Depth
           /\ calls \in Nat \ {0} /\ calls = Len(Issued.ops["caller"])
           /\ Issued.barrier["compute"]["caller"] = calls
           /\ Issued.waited = {} /\ ~Issued.misused
           /\ \A s, t \in Stream : Issued.barrier[s][t] <= Len(Issued.ops[t])
           /\ \A m \in Slot : Issued.ready[m] <= Len(Issued.ops["load"])
                              /\ Issued.free[m] <= Len(Issued.ops["compute"])
<1>1. QED
    BY IssuedFields, EventAssumption DEF Inv, HostInv, IssueInv, DeviceInv, PlanOK, Stream

LEMMA RunResidentKeeps ==
    ASSUME Inv, RunResident
    PROVE  Inv'
<1> DEFINE d == done["compute"]
<1> DEFINE q == Issued
<1> DEFINE r == Issue(q, "compute", Run(index, NoSlot))
<1>1. /\ Depth \in Nat \ {0} /\ MaxCalls \in Nat
      /\ pc = "loop" /\ index < Depth /\ index \in residents /\ index' = index + 1
      /\ Becomes(r) /\ UNCHANGED <<residents, pc, calls, slot>> /\ UNCHANGED deviceVars
    BY EventAssumption DEF RunResident
<1>2. /\ q \in Plan /\ PlanOK(q) /\ RunsGuarded(q, d) /\ CallsGuarded(q, d) /\ FreeCovers(q, d)
      /\ Staging(q) /\ InOrder(q, Left(index), slot)
      /\ d \in Nat /\ slot \in Slot /\ index \in 0..Depth
      /\ calls \in Nat \ {0} /\ calls = Len(q.ops["caller"])
      /\ q.barrier["compute"]["caller"] = calls /\ q.waited = {} /\ ~q.misused
      /\ \A s, t \in Stream : q.barrier[s][t] <= Len(q.ops[t])
      /\ \A m \in Slot : q.ready[m] <= Len(q.ops["load"]) /\ q.free[m] <= Len(q.ops["compute"])
    BY <1>1, LoopFacts
<1>3. index \in Block /\ "compute" \in Stream /\ NoSlot \notin Slot /\ NoSlot \in {0, 1, NoSlot}
    BY <1>1, <1>2 DEF Block, Stream, Slot, NoSlot
<1> HIDE DEF q, d
<1>4. /\ r \in Plan /\ Added(q, r, "compute", Run(index, NoSlot), q.barrier["compute"])
      /\ r.barrier = q.barrier /\ Unmarked(q, r)
    <2>1. Run(index, NoSlot) \in Op
        BY <1>1, <1>2, <1>3, OpTypes
    <2>2. QED
        BY <1>2, <1>3, <2>1, IssuePlan
<1> HIDE DEF r
<1> DEFINE C == Len(q.ops["compute"])
<1>5. /\ Len(r.ops["compute"]) = C + 1 /\ C \in Nat
      /\ r.ops["compute"][C + 1].op.slot = NoSlot
      /\ \A k \in 1..C : r.ops["compute"][k] = q.ops["compute"][k]
      /\ r.ops["load"] = q.ops["load"] /\ r.ops["caller"] = q.ops["caller"]
    <2>1. q \in Plan /\ Added(q, r, "compute", Run(index, NoSlot), q.barrier["compute"])
        BY <1>2, <1>4
    <2>2. QED
        BY <2>1, AddedRun
<1>6. PlanOK(r)
    <2>1. \A m \in Slot : r.free[m] <= Len(r.ops["compute"])
        BY <1>2, <1>4, <1>5, PlanTypes DEF Unmarked
    <2>2. QED
        BY <1>2, <1>4, <2>1, RunPlanOK DEF Unmarked
<1>7. RunsGuarded(r, d) /\ CallsGuarded(r, d)
    <2>1. q.barrier["compute"] \in [Stream -> Nat]
        BY <1>2, <1>3, PlanTypes
    <2>2. QED
        BY <1>2, <1>3, <1>4, <2>1, RunGuards
<1>8. FreeCovers(r, d)
    <2>1. \A i \in 1..C + 1 : i \in 1..C \/ i = C + 1
        BY <1>5
    <2>2. \A n \in Slot, i \in 1..C :
            q.ops["compute"][i].op.slot = n => i <= d \/ (n \in q.free_recorded /\ i <= q.free[n])
        BY <1>2 DEF FreeCovers
    <2> HIDE DEF C
    <2>3. QED
        BY <1>3, <1>4, <1>5, <2>1, <2>2 DEF FreeCovers, Unmarked
<1>9. Staging(r) /\ \A m \in Slot : InSlot(r, m) = InSlot(q, m)
    BY <1>2, <1>4, <1>5 DEF Staging, InSlot, Unmarked
<1>10. Left(index)' = Left(index)
    <2>1. Left(index)' = {b \in Block \ residents : index + 1 <= b}
        BY <1>1 DEF Left
    <2>2. \A b \in Block \ residents : index <= b <=> index + 1 <= b
        BY <1>1, <1>2 DEF Block
    <2>3. QED
        BY <2>1, <2>2 DEF Left
<1>11. InOrder(r, Left(index), slot)
    <2>1. r.pending = q.pending /\ r.offloaded = q.offloaded /\ q.pending \subseteq Slot
        BY <1>2, <1>4, PlanTypes DEF Unmarked
    <2>2. {InSlot(r, m) : m \in r.pending} = {InSlot(q, m) : m \in q.pending}
        BY <1>9, <2>1
    <2>3. r.pending = Slot => InSlot(r, slot) < InSlot(r, 1 - slot)
        BY <1>2, <1>9, <2>1 DEF InOrder, Slot
    <2>4. QED
        BY <1>2, <1>9, <2>1, <2>2, <2>3 DEF InOrder
<1>12. Issued' = r
    BY <1>1, <1>4, BecomesPlan DEF r
<1>13. HostInv'
    <2>1. /\ ops' = r.ops /\ barrier' = r.barrier /\ pending' = r.pending /\ waited' = r.waited
          /\ misused' = r.misused /\ done' = done
        BY <1>1 DEF Becomes, deviceVars, r, q
    <2>2. FreeCovers(Issued', done'["compute"]) /\ Staging(Issued')
          /\ InOrder(Issued', Left(index)', slot')
        BY <1>1, <1>8, <1>9, <1>10, <1>11, <1>12, <2>1 DEF d
    <2>3. FreeCovers(Issued, done["compute"])' /\ Staging(Issued)' /\ InOrder(Issued, Left(index), slot)'
        BY <2>2 DEF FreeCovers, Staging, InOrder, InSlot
    <2>4. /\ residents' \in SUBSET Block /\ calls' \in 0..MaxCalls /\ index' \in 0..Depth
        BY <1>1, <1>2 DEF Inv, HostInv
    <2>5. barrier'["compute"]["caller"] = calls' /\ waited' = {} /\ ~misused'
          /\ calls' = Len(ops'["caller"]) /\ calls' > 0
        BY <1>1, <1>2, <1>4, <1>5, <2>1 DEF Unmarked
    <2>6. QED
        BY <1>1, <1>2, <2>3, <2>4, <2>5 DEF HostInv
<1>14. Extends(Issued, r)
    BY <1>2, <1>3, <1>4, AddedExtends DEF q
<1>15. QED
    BY <1>1, <1>6, <1>7, <1>13, <1>14, HostIssues DEF q, d, r

\* What an iteration of the loop needs to know of the plan after its run.
LEMMA StagedRun ==
    ASSUME Inv, pc = "loop", index < Depth, index \notin residents
    PROVE  LET q == Issued
               p == RunStaged(q, slot)
               d == done["compute"]
           IN  /\ slot \in q.pending /\ InSlot(q, slot) = index
               /\ Ran(q, p, slot) /\ Extends(q, p)
               /\ PlanOK(p) /\ RunsGuarded(p, d) /\ CallsGuarded(p, d) /\ FreeCovers(p, d)
               /\ Staging(p) /\ ~p.misused /\ p.waited = {} /\ p.pending = q.pending \ {slot}
               /\ p.ops["caller"] = q.ops["caller"] /\ p.barrier["compute"]["caller"] = calls
               /\ p.ops["load"] = q.ops["load"]
<1> DEFINE q == Issued
<1> DEFINE p == RunStaged(q, slot)
<1> DEFINE d == done["compute"]
<1> DEFINE n == slot
<1>1. Depth \in Nat \ {0} /\ MaxCalls \in Nat
    BY EventAssumption
<1>2. /\ q \in Plan /\ PlanOK(q) /\ RunsGuarded(q, d) /\ CallsGuarded(q, d) /\ FreeCovers(q, d)
      /\ Staging(q) /\ InOrder(q, Left(index), n)
      /\ d \in Nat /\ n \in Slot /\ index \in 0..Depth
      /\ calls \in Nat \ {0} /\ calls = Len(q.ops["caller"])
      /\ q.barrier["compute"]["caller"] = calls /\ q.waited = {} /\ ~q.misused
      /\ \A s, t \in Stream : q.barrier[s][t] <= Len(q.ops[t])
      /\ \A m \in Slot : q.ready[m] <= Len(q.ops["load"]) /\ q.free[m] <= Len(q.ops["compute"])
    BY LoopFacts
<1>3. index \in Block /\ "compute" \in Stream /\ "load" \in Stream /\ "caller" \in Stream
      /\ NoSlot \notin Slot /\ n \in {0, 1, NoSlot}
    BY <1>1, <1>2 DEF Block, Stream, Slot, NoSlot
<1> HIDE DEF q, d
<1>4. n \in q.pending /\ InSlot(q, n) = index
    <2>1. index \in Left(index)
        BY <1>2, <1>3 DEF Left
    <2>2. n \in q.pending
        BY <1>2, <2>1 DEF InOrder
    <2>3. q.pending \subseteq Slot /\ q.offloaded \subseteq Block /\ Block \subseteq Int
        BY <1>2, PlanTypes DEF Block
    <2>4. InSlot(q, n) \in Left(index) /\ \A m \in q.pending : InSlot(q, m) \in Left(index)
        BY <1>2, <2>2 DEF InOrder
    <2>5. \A b \in Left(index) : b \in Int /\ index <= b
        BY DEF Left, Block
    <2>6. ASSUME InSlot(q, n) # index
          PROVE  FALSE
        <3>1. index < InSlot(q, n)
            BY <1>2, <2>4, <2>5, <2>6
        <3>2. CASE index \in q.offloaded
            <4>1. InSlot(q, n) < index
                BY <1>2, <2>2, <3>2 DEF InOrder
            <4>2. QED
                BY <1>2, <2>4, <2>5, <3>1, <4>1
        <3>3. CASE index \in {InSlot(q, m) : m \in q.pending}
            <4>1. PICK m \in q.pending : index = InSlot(q, m)
                BY <3>3
            <4>2. m # n /\ m \in Slot
                BY <2>3, <2>6, <4>1
            <4>3. q.pending = Slot /\ m = 1 - n
                BY <1>2, <2>2, <2>3, <4>2 DEF Slot
            <4>4. InSlot(q, n) < index
                BY <1>2, <4>1, <4>3 DEF InOrder
            <4>5. QED
                BY <1>2, <2>4, <2>5, <3>1, <4>4
        <3>4. QED
            BY <1>2, <2>1, <3>2, <3>3 DEF InOrder
    <2>7. QED
        BY <2>2, <2>6
<1> HIDE DEF n
<1>5. /\ Ran(q, p, n)
      /\ p.free = [q.free EXCEPT ![n] = Len(p.ops["compute"])]
      /\ p.pending = q.pending \ {n} /\ p.waited = q.waited \ {n}
      /\ p.free_recorded = q.free_recorded \cup {n}
      /\ p.misused = (q.misused \/ n \notin q.pending)
    <2>1. LET r == RunStaged(q, n)
          IN  /\ Ran(q, r, n)
              /\ r.free = [q.free EXCEPT ![n] = Len(r.ops["compute"])]
              /\ r.pending = q.pending \ {n} /\ r.waited = q.waited \ {n}
              /\ r.free_recorded = q.free_recorded \cup {n}
              /\ r.misused = (q.misused \/ n \notin q.pending)
        BY <1>1, <1>2, <1>3, RunPlan
    <2>2. p = RunStaged(q, n)
        BY DEF n
    <2> HIDE DEF p
    <2>3. QED
        BY <2>1, <2>2
<1> HIDE DEF p
<1> DEFINE a == [q.barrier["compute"] EXCEPT !["load"] = q.ready[n]]
<1> DEFINE C == Len(q.ops["compute"])
<1>6. /\ p \in Plan /\ Added(q, p, "compute", Run(index, n), a)
      /\ p.barrier = [q.barrier EXCEPT !["compute"]["load"] = q.ready[n]]
      /\ p.ready = q.ready /\ p.offloaded = q.offloaded
    BY <1>5 DEF Ran
<1>7. /\ q.barrier["compute"] \in [Stream -> Nat] /\ q.ready[n] \in 1..Len(q.ops["load"])
      /\ a \in [Stream -> Nat] /\ a["load"] = q.ready[n] /\ a["caller"] = calls
    <2>1. q.barrier["compute"] \in [Stream -> Nat] /\ q.ready[n] \in 1..Len(q.ops["load"])
        BY <1>2, <1>3, <1>4, PlanTypes DEF Staging
    <2>2. q.ready[n] \in Nat
        BY <1>2, PlanTypes
    <2>3. QED
        BY <1>2, <1>3, <2>1, <2>2
<1>8. /\ Len(p.ops["compute"]) = C + 1 /\ C \in Nat
      /\ p.ops["compute"][C + 1].op.slot = n
      /\ \A k \in 1..C : p.ops["compute"][k] = q.ops["compute"][k]
      /\ p.ops["load"] = q.ops["load"] /\ p.ops["caller"] = q.ops["caller"]
    <2> HIDE DEF a
    <2>1. q \in Plan /\ Added(q, p, "compute", Run(index, n), a)
        BY <1>2, <1>6
    <2>2. QED
        BY <2>1, AddedRun
<1>9. PlanOK(p)
    <2>1. \A m \in Slot : p.free[m] <= Len(p.ops["compute"])
        <3>1. \A m \in Slot : p.free[m] = C + 1 \/ p.free[m] = q.free[m]
            BY <1>2, <1>5, <1>8, PlanTypes DEF Plan
        <3>2. \A m \in Slot : q.free[m] \in Nat /\ q.free[m] <= C
            BY <1>2, PlanTypes
        <3> HIDE DEF C
        <3>3. QED
            BY <1>8, <3>1, <3>2
    <2>2. \A s, t \in Stream : p.barrier[s][t] <= Len(q.ops[t])
        <3>1. q.barrier \in [Stream -> [Stream -> Nat]]
            BY <1>2 DEF Plan
        <3>2. \A s, t \in Stream :
                p.barrier[s][t] = IF s = "compute" /\ t = "load" THEN q.ready[n] ELSE q.barrier[s][t]
            BY <1>3, <1>6, <3>1
        <3>3. QED
            BY <1>2, <3>2
    <2> HIDE DEF a
    <2>3. QED
        BY <1>2, <1>6, <2>1, <2>2, RunPlanOK
<1>10. RunsGuarded(p, d) /\ CallsGuarded(p, d)
    <2>1. /\ a["load"] \in 1..Len(q.ops["load"])
          /\ q.ops["load"][a["load"]].op.slot = n
          /\ q.ops["load"][a["load"]].op.block = index
          /\ \A k \in a["load"] + 1..Len(q.ops["load"]) : q.ops["load"][k].op.slot # n
        BY <1>2, <1>4, <1>7 DEF Staging, InSlot
    <2> HIDE DEF a
    <2>2. QED
        BY <1>2, <1>3, <1>6, <1>7, <2>1, RunGuards
<1>11. FreeCovers(p, d)
    <2> SUFFICES ASSUME NEW m \in Slot, NEW i \in 1..C + 1, p.ops["compute"][i].op.slot = m
                 PROVE  i <= d \/ (m \in p.free_recorded /\ i <= p.free[m])
        BY <1>8 DEF FreeCovers
    <2>1. p.free[n] = C + 1 /\ (m # n => p.free[m] = q.free[m])
        BY <1>2, <1>5, <1>8 DEF Plan
    <2>2. CASE m = n
        BY <1>5, <1>8, <2>1, <2>2
    <2>3. CASE m # n
        <3>1. i \in 1..C
            BY <1>8, <2>3
        <3>2. q.ops["compute"][i].op.slot = m
            BY <1>8, <3>1
        <3>3. QED
            BY <1>2, <1>5, <2>1, <2>3, <3>1, <3>2 DEF FreeCovers
    <2>4. QED
        BY <2>2, <2>3
<1>12. Staging(p)
    BY <1>2, <1>5, <1>6, <1>8 DEF Staging
<1>13. p.barrier["compute"]["caller"] = calls
    BY <1>2, <1>3, <1>6 DEF Plan, Stream
<1>14. Extends(q, p)
    BY <1>2, <1>3, <1>6, AddedExtends
<1>15. QED
    BY <1>2, <1>4, <1>5, <1>8, <1>9, <1>10, <1>11, <1>12, <1>13, <1>14 DEF p, q, n, d

\* The order of the slots after slot n was run and filled again.
LEMMA NextInOrder ==
    ASSUME NEW q \in Plan, NEW p, NEW r, NEW n \in Slot, NEW left, NEW i,
           InOrder(q, left, n), n \in q.pending, InSlot(q, n) = i, i \in Int, left \subseteq Int,
           p.pending = q.pending \ {n}, p.offloaded = q.offloaded,
           \A m \in Slot : InSlot(p, m) = InSlot(q, m),
           \A m \in p.pending : InSlot(r, m) = InSlot(p, m),
           \/ p.offloaded = {} /\ r.offloaded = {} /\ r.pending = p.pending
           \/ /\ p.offloaded # {}
              /\ r.pending = p.pending \cup {n}
              /\ InSlot(r, n) \in p.offloaded
              /\ r.offloaded = p.offloaded \ {InSlot(r, n)}
              /\ \A b \in r.offloaded : InSlot(r, n) < b
    PROVE  InOrder(r, left \ {i}, 1 - n)
<1>1. /\ Slot = {n, 1 - n} /\ n # 1 - n /\ 1 - (1 - n) = n /\ 1 - n \in Slot
      /\ q.pending \subseteq Slot
    BY PlanTypes DEF Slot
<1>2. CASE q.pending = {n}
    <2>1. q.offloaded = {}
        BY <1>1, <1>2 DEF InOrder
    <2>2. left = {i}
        BY <1>2, <2>1 DEF InOrder
    <2>3. r.pending = {} /\ r.offloaded = {}
        BY <1>2, <2>1
    <2>4. QED
        BY <1>1, <2>2, <2>3 DEF InOrder
<1>3. CASE q.pending = Slot
    <2> DEFINE o == InSlot(q, 1 - n)
    <2>1. /\ left = q.offloaded \cup {i, o}
          /\ i < o
          /\ \A b \in q.offloaded : i < b /\ o < b
        BY <1>1, <1>3 DEF InOrder
    <2>2. p.pending = {1 - n} /\ InSlot(r, 1 - n) = o /\ i \in Int /\ o \in Int
        BY <1>1, <1>3, <2>1
    <2> HIDE DEF o
    <2>3. left \ {i} = q.offloaded \cup {o}
        BY <2>1, <2>2
    <2>4. CASE q.offloaded = {}
        <3>1. r.pending = {1 - n} /\ r.offloaded = {}
            BY <2>2, <2>4
        <3>2. QED
            BY <1>1, <2>2, <2>3, <2>4, <3>1 DEF InOrder
    <2>5. CASE q.offloaded # {}
        <3> DEFINE x == InSlot(r, n)
        <3>1. r.pending = {n, 1 - n} /\ x \in q.offloaded /\ r.offloaded = q.offloaded \ {x}
              /\ \A b \in r.offloaded : x < b
            BY <1>1, <2>2, <2>5
        <3>2. {InSlot(r, m) : m \in r.pending} = {x, o}
            BY <2>2, <3>1
        <3>3. \A m \in r.pending, b \in r.offloaded : InSlot(r, m) < b
            BY <2>1, <2>2, <3>1
        <3> HIDE DEF x
        <3>4. left \ {i} = r.offloaded \cup {x, o}
            BY <2>3, <3>1
        <3>5. o < x
            BY <2>1, <3>1
        <3>6. InSlot(r, 1 - n) < InSlot(r, 1 - (1 - n))
            BY <1>1, <2>2, <3>5 DEF x
        <3>7. QED
            BY <1>1, <3>1, <3>2, <3>3, <3>4, <3>6 DEF InOrder
    <2>6. QED
        BY <2>4, <2>5
<1>4. QED
    BY <1>1, <1>2, <1>3

LEMMA RunOffloadedKeeps ==
    ASSUME Inv, RunOffloaded
    PROVE  Inv'
<1> DEFINE q == Issued
<1> DEFINE p == RunStaged(q, slot)
<1> DEFINE r == prefetch(p, slot)
<1> DEFINE d == done["compute"]
<1>1. /\ Depth \in Nat \ {0} /\ MaxCalls \in Nat
      /\ pc = "loop" /\ index < Depth /\ index \notin residents
      /\ index' = index + 1 /\ slot' = (slot + 1) % 2
      /\ Becomes(r) /\ UNCHANGED <<residents, pc, calls>> /\ UNCHANGED deviceVars
    BY EventAssumption DEF RunOffloaded, NextSlot
<1>2. /\ q \in Plan /\ InOrder(q, Left(index), slot)
      /\ d \in Nat /\ slot \in Slot /\ index \in 0..Depth
      /\ calls \in Nat \ {0} /\ calls = Len(q.ops["caller"])
    BY <1>1, LoopFacts
<1>3. /\ slot \in q.pending /\ InSlot(q, slot) = index
      /\ Ran(q, p, slot) /\ Extends(q, p)
      /\ PlanOK(p) /\ RunsGuarded(p, d) /\ CallsGuarded(p, d) /\ FreeCovers(p, d)
      /\ Staging(p) /\ ~p.misused /\ p.waited = {} /\ p.pending = q.pending \ {slot}
      /\ p.ops["caller"] = q.ops["caller"] /\ p.barrier["compute"]["caller"] = calls
      /\ p.ops["load"] = q.ops["load"]
    BY <1>1, StagedRun
<1>4. slot' = 1 - slot /\ slot' \in Slot
    BY <1>1, <1>2 DEF Slot
<1> HIDE DEF q, d, p
<1>5. /\ PlanOK(r) /\ RunsGuarded(r, d) /\ CallsGuarded(r, d) /\ FreeCovers(r, d)
      /\ Staging(r) /\ ~r.misused /\ r.waited = {} /\ Extends(p, r)
      /\ \A s \in {"caller", "compute"} : r.ops[s] = p.ops[s] /\ r.barrier[s] = p.barrier[s]
      /\ \A m \in p.pending : InSlot(r, m) = InSlot(p, m)
      /\ \/ p.offloaded = {} /\ r.offloaded = {} /\ r.pending = p.pending
         \/ /\ p.offloaded # {}
            /\ r.pending = p.pending \cup {slot}
            /\ InSlot(r, slot) \in p.offloaded
            /\ r.offloaded = p.offloaded \ {InSlot(r, slot)}
            /\ \A b \in r.offloaded : InSlot(r, slot) < b
    BY <1>1, <1>2, <1>3, PrefetchEffect
<1> HIDE DEF r
<1>6. p.offloaded = q.offloaded /\ \A m \in Slot : InSlot(p, m) = InSlot(q, m)
    BY <1>3 DEF Ran, InSlot
<1>7. Left(index) \subseteq Int /\ index \in Int
    BY <1>2 DEF Left, Block
<1>8. InOrder(r, Left(index) \ {index}, 1 - slot)
    BY <1>2, <1>3, <1>5, <1>6, <1>7, NextInOrder
<1>9. Left(index)' = Left(index) \ {index}
    <2>1. Left(index)' = {b \in Block \ residents : index + 1 <= b}
        BY <1>1 DEF Left
    <2>2. \A b \in Block : (index <= b /\ b # index) <=> index + 1 <= b
        BY <1>2 DEF Block
    <2>3. QED
        BY <2>1, <2>2 DEF Left
<1>10. r \in Plan /\ Issued' = r /\ Extends(Issued, r)
    <2>1. r \in Plan /\ p \in Plan
        BY <1>3, <1>5 DEF PlanOK
    <2>2. Extends(q, r)
        BY <1>2, <1>3, <1>5, <2>1, ExtendsOn
    <2>3. Becomes(r)
        BY <1>1 DEF r, p, q
    <2>4. QED
        BY <2>1, <2>2, <2>3, BecomesPlan DEF q
<1>11. HostInv'
    <2>1. /\ ops' = r.ops /\ barrier' = r.barrier /\ pending' = r.pending /\ waited' = r.waited
          /\ misused' = r.misused /\ done' = done
        BY <1>1 DEF Becomes, deviceVars, r, p, q
    <2>2. FreeCovers(Issued', done'["compute"]) /\ Staging(Issued')
          /\ InOrder(Issued', Left(index)', slot')
        BY <1>4, <1>5, <1>8, <1>9, <1>10, <2>1 DEF d
    <2>3. FreeCovers(Issued, done["compute"])' /\ Staging(Issued)' /\ InOrder(Issued, Left(index), slot)'
        BY <2>2 DEF FreeCovers, Staging, InOrder, InSlot
    <2>4. /\ residents' \in SUBSET Block /\ calls' \in 0..MaxCalls /\ index' \in 0..Depth
        BY <1>1, <1>2 DEF Inv, HostInv
    <2>5. barrier'["compute"]["caller"] = calls' /\ waited' = {} /\ ~misused'
          /\ calls' = Len(ops'["caller"]) /\ calls' > 0
        BY <1>1, <1>2, <1>3, <1>5, <2>1
    <2>6. QED
        BY <1>1, <1>4, <2>3, <2>4, <2>5 DEF HostInv
<1>12. QED
    <2>1. Becomes(r) /\ UNCHANGED deviceVars
        BY <1>1 DEF r, p, q
    <2>2. QED
        BY <1>5, <1>10, <1>11, <2>1, HostIssues DEF d

LEMMA ReturnKeeps ==
    ASSUME Inv, Return
    PROVE  Inv'
<1> DEFINE q == Issued
<1> DEFINE r == WaitStream(q, "caller", "compute")
<1> DEFINE d == done["compute"]
<1>1. /\ Depth \in Nat \ {0} /\ MaxCalls \in Nat
      /\ pc = "loop" /\ index = Depth /\ pc' = "idle"
      /\ Becomes(r) /\ UNCHANGED <<residents, calls, index, slot>> /\ UNCHANGED deviceVars
    BY EventAssumption DEF Return
<1>2. /\ q \in Plan /\ PlanOK(q) /\ RunsGuarded(q, d) /\ CallsGuarded(q, d) /\ FreeCovers(q, d)
      /\ InOrder(q, Left(index), slot)
      /\ slot \in Slot /\ index \in 0..Depth
      /\ calls \in Nat \ {0} /\ calls = Len(q.ops["caller"])
      /\ q.waited = {} /\ ~q.misused
      /\ \A s, t \in Stream : q.barrier[s][t] <= Len(q.ops[t])
    BY <1>1, LoopFacts
<1>3. "caller" \in Stream /\ "compute" \in Stream
    BY DEF Stream
<1> HIDE DEF q, d
<1> DEFINE C == Len(q.ops["compute"])
<1>4. /\ r \in Plan /\ r.ops = q.ops
      /\ r.barrier = [q.barrier EXCEPT !["caller"]["compute"] = C]
      /\ Unmarked(q, r)
    <2>1. q \in Plan
        BY <1>2
    <2>2. QED
        BY <1>3, <2>1, WaitStreamPlan
<1> HIDE DEF r
<1>5. q.pending = {} /\ q.offloaded = {}
    <2>1. Left(index) = {}
        BY <1>1 DEF Left, Block
    <2>2. {InSlot(q, m) : m \in q.pending} = {} /\ q.offloaded = {}
        BY <1>2, <2>1 DEF InOrder
    <2>3. QED
        BY <2>2
<1>6. /\ r.barrier["caller"]["compute"] = C
      /\ \A s, t \in Stream : r.barrier[s][t] <= Len(q.ops[t])
    <2>1. q.barrier \in [Stream -> [Stream -> Nat]] /\ C \in Nat
        BY <1>2, <1>3, PlanTypes DEF Plan
    <2>2. \A s, t \in Stream :
            r.barrier[s][t] = IF s = "caller" /\ t = "compute" THEN C ELSE q.barrier[s][t]
        BY <1>3, <1>4, <2>1
    <2>3. ASSUME NEW s \in Stream, NEW t \in Stream
          PROVE  r.barrier[s][t] <= Len(q.ops[t])
        <3>1. CASE s = "caller" /\ t = "compute"
            BY <2>1, <2>2, <3>1
        <3>2. CASE ~(s = "caller" /\ t = "compute")
            BY <1>2, <2>2, <3>2
        <3>3. QED
            BY <3>1, <3>2
    <2>4. QED
        BY <1>3, <2>2, <2>3
<1>7. PlanOK(r) /\ RunsGuarded(r, d) /\ CallsGuarded(r, d) /\ Extends(q, r)
    BY <1>2, <1>4, <1>6, SameOps DEF Unmarked
<1>8. FreeCovers(r, d)
    BY <1>2, <1>4 DEF FreeCovers, Unmarked
<1>9. Issued' = r /\ Becomes(r)
    <2>1. Becomes(r)
        BY <1>1 DEF r, q
    <2>2. QED
        BY <1>4, <2>1, BecomesPlan
<1>10. HostInv'
    <2>1. /\ ops' = r.ops /\ barrier' = r.barrier /\ pending' = r.pending /\ waited' = r.waited
          /\ misused' = r.misused /\ done' = done
        BY <1>1, <1>9 DEF Becomes, deviceVars
    <2>2. FreeCovers(Issued, done["compute"])'
        BY <1>8, <1>9, <2>1 DEF FreeCovers, d
    <2>3. \A i \in 1..Len(ops'["compute"]) : i <= barrier'["caller"]["compute"]
        <3>1. C \in Nat
            BY <1>2, <1>3, PlanTypes
        <3>2. QED
            BY <1>4, <1>6, <2>1, <3>1
    <2>4. /\ residents' \in SUBSET Block /\ calls' \in 0..MaxCalls /\ index' \in 0..Depth
          /\ slot' \in Slot
        BY <1>1 DEF Inv, HostInv
    <2>5. /\ pending' = {} /\ waited' = {} /\ ~misused' /\ calls' = Len(ops'["caller"])
        BY <1>1, <1>2, <1>4, <1>5, <2>1 DEF Unmarked
    <2>6. QED
        BY <1>1, <2>2, <2>3, <2>4, <2>5 DEF HostInv
<1>11. QED
    BY <1>1, <1>7, <1>9, <1>10, HostIssues DEF q, d

\* Any plan that keeps the guards may be left behind by an exception.
LEMMA RaisedKeeps ==
    ASSUME Inv, NEW r, Becomes(r), UNCHANGED deviceVars, Extends(Issued, r),
           PlanOK(r), RunsGuarded(r, done["compute"]), CallsGuarded(r, done["compute"]), ~r.misused,
           r.ops["caller"] = ops["caller"], pc' = "except",
           UNCHANGED <<residents, calls, index, slot>>
    PROVE  Inv'
<1>1. ops' = r.ops /\ misused' = r.misused
    BY DEF Becomes
<1>2. HostInv'
    BY <1>1 DEF Inv, HostInv
<1>3. QED
    BY <1>2, HostIssues

LEMMA RaiseKeeps ==
    ASSUME Inv, Raise
    PROVE  Inv'
<1> DEFINE q == Issued
<1> DEFINE d == done["compute"]
<1> DEFINE n == IF index \in residents THEN NoSlot ELSE slot
<1> DEFINE w == IF n = NoSlot THEN q ELSE wait_ready(q, n)
<1> DEFINE r == Issue(w, "compute", Run(index, n))
<1>1. /\ Depth \in Nat \ {0} /\ MaxCalls \in Nat
      /\ pc = "loop" /\ index < Depth /\ pc' = "except"
      /\ \/ Becomes(w)
         \/ Becomes(r)
         \/ n # NoSlot /\ \E x \in CopyRaised(RunStaged(q, n), n) : Becomes(x)
      /\ UNCHANGED <<residents, calls, index, slot>> /\ UNCHANGED deviceVars
    BY EventAssumption DEF Raise
<1>2. /\ q \in Plan /\ PlanOK(q) /\ RunsGuarded(q, d) /\ CallsGuarded(q, d)
      /\ Staging(q)
      /\ d \in Nat /\ slot \in Slot /\ index \in 0..Depth
      /\ calls \in Nat \ {0} /\ calls = Len(q.ops["caller"])
      /\ q.barrier["compute"]["caller"] = calls /\ ~q.misused
      /\ \A s, t \in Stream : q.barrier[s][t] <= Len(q.ops[t])
      /\ \A m \in Slot : q.ready[m] <= Len(q.ops["load"]) /\ q.free[m] <= Len(q.ops["compute"])
    BY <1>1, LoopFacts
<1>3. /\ index \in Block /\ "compute" \in Stream /\ "load" \in Stream /\ "caller" \in Stream
      /\ NoSlot \notin Slot /\ Slot \subseteq {0, 1, NoSlot}
      /\ Issued.ops["caller"] = ops["caller"]
    BY <1>1, <1>2, IssuedFields DEF Block, Stream, Slot, NoSlot
<1>4. /\ n = NoSlot \/ (n = slot /\ index \notin residents)
      /\ n \in {0, 1, NoSlot}
    BY <1>2, <1>3
<1>5. ASSUME n # NoSlot
      PROVE  /\ slot \in q.pending /\ InSlot(q, slot) = index
             /\ Extends(q, RunStaged(q, slot))
             /\ PlanOK(RunStaged(q, slot)) /\ RunsGuarded(RunStaged(q, slot), d)
             /\ CallsGuarded(RunStaged(q, slot), d) /\ FreeCovers(RunStaged(q, slot), d)
             /\ ~RunStaged(q, slot).misused
             /\ RunStaged(q, slot).ops["caller"] = q.ops["caller"]
    BY <1>1, <1>4, <1>5, StagedRun
<1> HIDE DEF q, d, n
<1>6. /\ w \in Plan /\ w.ops = q.ops /\ w.ready = q.ready /\ w.free = q.free /\ ~w.misused
      /\ w.barrier = IF n = NoSlot THEN q.barrier
                     ELSE [q.barrier EXCEPT !["compute"]["load"] = q.ready[n]]
    <2>1. CASE n = NoSlot
        BY <1>2, <2>1
    <2>2. CASE n # NoSlot
        <3>1. n \in Slot /\ n \in q.pending
            BY <1>2, <1>4, <1>5, <2>2
        <3>2. w = wait_ready(q, n)
            BY <2>2
        <3> HIDE DEF w
        <3>3. /\ wait_ready(q, n) \in Plan /\ wait_ready(q, n).ops = q.ops
              /\ wait_ready(q, n).barrier = [q.barrier EXCEPT !["compute"]["load"] = q.ready[n]]
              /\ wait_ready(q, n).ready = q.ready /\ wait_ready(q, n).free = q.free
              /\ wait_ready(q, n).misused = (q.misused \/ n \notin q.pending)
            BY <1>2, <3>1, WaitReadyPlan
        <3>4. QED
            BY <1>2, <2>2, <3>1, <3>2, <3>3
    <2>3. QED
        BY <2>1, <2>2
<1> HIDE DEF w
<1> DEFINE a == w.barrier["compute"]
<1>7. /\ a \in [Stream -> Nat] /\ a["caller"] = calls
      /\ n # NoSlot => a["load"] = q.ready[n]
      /\ \A s, t \in Stream : w.barrier[s][t] <= Len(q.ops[t])
    <2>1. q.barrier \in [Stream -> [Stream -> Nat]]
        BY <1>2 DEF Plan
    <2>2. n # NoSlot => q.ready[n] \in Nat /\ q.ready[n] <= Len(q.ops["load"])
        BY <1>2, <1>4, PlanTypes
    <2>3. \A s, t \in Stream : w.barrier[s][t] =
                IF n # NoSlot /\ s = "compute" /\ t = "load" THEN q.ready[n] ELSE q.barrier[s][t]
        BY <1>3, <1>6, <2>1
    <2>4. a \in [Stream -> Nat]
        BY <1>3, <1>6, PlanTypes
    <2> HIDE DEF a
    <2>5. \A t \in Stream : a[t] = w.barrier["compute"][t]
        BY DEF a
    <2>6. "caller" # "load"
        OBVIOUS
    <2>7. QED
        BY <1>2, <1>3, <2>2, <2>3, <2>4, <2>5, <2>6
<1>8. PlanOK(w) /\ RunsGuarded(w, d) /\ CallsGuarded(w, d) /\ Extends(q, w)
    BY <1>2, <1>6, <1>7, SameOps
<1>9. CASE Becomes(w)
    <2>1. w.ops["caller"] = ops["caller"] /\ Extends(Issued, w)
        BY <1>3, <1>6, <1>8 DEF q
    <2>2. QED
        BY <1>1, <1>6, <1>8, <1>9, <2>1, RaisedKeeps DEF d
<1>10. CASE Becomes(r)
    <2>1. /\ r \in Plan /\ Added(w, r, "compute", Run(index, n), a)
          /\ r.barrier = w.barrier /\ Unmarked(w, r)
        <3>1. Run(index, n) \in Op
            BY <1>1, <1>2, <1>3, <1>4, OpTypes
        <3>2. QED
            BY <1>3, <1>6, <3>1, IssuePlan
    <2> HIDE DEF r
    <2>2. /\ Len(r.ops["compute"]) = Len(w.ops["compute"]) + 1 /\ Len(w.ops["compute"]) \in Nat
          /\ r.ops["caller"] = w.ops["caller"]
        BY <1>3, <1>6, <2>1, PlanTypes DEF Added, Stream
    <2>3. PlanOK(r)
        <3>1. /\ \A m \in Slot : r.free[m] <= Len(r.ops["compute"])
              /\ \A s, t \in Stream : r.barrier[s][t] <= Len(w.ops[t])
              /\ r.ready = w.ready
            BY <1>2, <1>6, <1>7, <2>1, <2>2, PlanTypes DEF Unmarked
        <3>2. QED
            BY <1>8, <2>1, <3>1, RunPlanOK
    <2>4. RunsGuarded(r, d) /\ CallsGuarded(r, d)
        <3>1. n # NoSlot =>
                /\ a["load"] \in 1..Len(w.ops["load"])
                /\ w.ops["load"][a["load"]].op.slot = n
                /\ w.ops["load"][a["load"]].op.block = index
                /\ \A k \in a["load"] + 1..Len(w.ops["load"]) : w.ops["load"][k].op.slot # n
            <4> SUFFICES ASSUME n # NoSlot
                         PROVE  /\ a["load"] \in 1..Len(w.ops["load"])
                                /\ w.ops["load"][a["load"]].op.slot = n
                                /\ w.ops["load"][a["load"]].op.block = index
                                /\ \A k \in a["load"] + 1..Len(w.ops["load"]) :
                                    w.ops["load"][k].op.slot # n
                OBVIOUS
            <4>1. n \in q.pending /\ InSlot(q, n) = index
                BY <1>4, <1>5
            <4>2. /\ q.ready[n] \in 1..Len(q.ops["load"])
                  /\ q.ops["load"][q.ready[n]].op.slot = n
                  /\ \A k \in q.ready[n] + 1..Len(q.ops["load"]) : q.ops["load"][k].op.slot # n
                BY <1>2, <4>1 DEF Staging
            <4>3. a["load"] = q.ready[n] /\ w.ops = q.ops
                BY <1>6, <1>7
            <4> HIDE DEF a
            <4>4. QED
                BY <4>1, <4>2, <4>3 DEF InSlot
        <3>2. calls = Len(w.ops["caller"])
            BY <1>2, <1>6
        <3> HIDE DEF a
        <3>3. QED
            BY <1>2, <1>4, <1>7, <1>8, <2>1, <3>1, <3>2, RunGuards
    <2>5. Extends(Issued, r) /\ r.ops["caller"] = ops["caller"]
        <3>1. Extends(w, r)
            BY <1>3, <1>6, <2>1, AddedExtends
        <3>2. Extends(q, r)
            BY <1>2, <1>6, <1>8, <2>1, <3>1, ExtendsOn
        <3>3. QED
            BY <1>3, <1>6, <2>2, <3>2 DEF q
    <2>6. ~r.misused
        BY <1>6, <2>1 DEF Unmarked
    <2>7. QED
        BY <1>1, <1>10, <2>3, <2>4, <2>5, <2>6, RaisedKeeps DEF d
<1>11. ASSUME n # NoSlot, NEW x \in CopyRaised(RunStaged(q, n), n), Becomes(x)
       PROVE  Inv'
    <2> DEFINE p == RunStaged(q, slot)
    <2>1. n = slot
        BY <1>4, <1>11
    <2>2. /\ PlanOK(p) /\ RunsGuarded(p, d) /\ CallsGuarded(p, d) /\ FreeCovers(p, d)
          /\ ~p.misused /\ Extends(q, p) /\ p.ops["caller"] = q.ops["caller"]
        BY <1>5, <1>11
    <2>3. x \in CopyRaised(p, slot)
        BY <1>11, <2>1
    <2> HIDE DEF p
    <2>4. /\ PlanOK(x) /\ RunsGuarded(x, d) /\ CallsGuarded(x, d) /\ ~x.misused
          /\ x.ops["caller"] = p.ops["caller"] /\ Extends(p, x)
        BY <1>1, <1>2, <2>2, <2>3, CopyRaisedGuards
    <2>5. Extends(Issued, x) /\ x.ops["caller"] = ops["caller"]
        <3>1. Extends(q, x)
            BY <1>2, <2>2, <2>4, ExtendsOn DEF PlanOK
        <3>2. QED
            BY <1>3, <2>2, <2>4, <3>1 DEF q
    <2>6. QED
        BY <1>1, <1>11, <2>4, <2>5, RaisedKeeps DEF d
<1>12. QED
    BY <1>1, <1>9, <1>10, <1>11 DEF r

LEMMA ExceptKeeps ==
    ASSUME Inv, Except
    PROVE  Inv'
<1> DEFINE d == done["compute"]
<1>1. /\ d = Len(ops["compute"]) /\ pc' = "idle"
      /\ pending' = {} /\ waited' = {} /\ free_recorded' = {}
      /\ UNCHANGED <<residents, calls, index, slot, offloaded, ready, free, misused, ops, barrier>>
      /\ UNCHANGED deviceVars
    BY DEF Except, Drained, reset_slots, issueVars
<1>2. /\ PlanOK(Issued) /\ RunsGuarded(Issued, d) /\ CallsGuarded(Issued, d) /\ Issued \in Plan
    BY DEF Inv, IssueInv, PlanOK
<1>3. /\ Issued'.ops = ops /\ Issued'.barrier = barrier /\ Issued'.ready = ready
      /\ Issued'.free = free /\ done' = done /\ ops' = ops
    BY <1>1 DEF Issued, deviceVars
<1>4. Issued' \in Plan
    <2>1. Issued' = [ops |-> ops, barrier |-> barrier, ready |-> ready, free |-> free,
                     pending |-> {}, waited |-> {}, free_recorded |-> {},
                     misused |-> misused, offloaded |-> offloaded]
        BY <1>1 DEF Issued
    <2>2. QED
        BY <1>2, <2>1 DEF Plan, Issued
<1>5. IssueInv'
    <2>1. PlanOK(Issued') /\ RunsGuarded(Issued', d) /\ CallsGuarded(Issued', d)
        BY <1>2, <1>3, <1>4, IssuedFields DEF PlanOK, RunsGuarded, CallsGuarded, Behind
    <2>2. QED
        BY <1>3, <2>1 DEF IssueInv, PlanOK, RunsGuarded, CallsGuarded, Behind
<1>6. HostInv'
    <2>1. \A i \in 1..Len(ops'["compute"]) : i <= done'["compute"]
        BY <1>1, <1>3 DEF Inv, DeviceInv, Stream
    <2>2. FreeCovers(Issued, done["compute"])'
        BY <1>3, <2>1 DEF FreeCovers, Issued
    <2>3. QED
        BY <1>1, <1>3, <2>1, <2>2 DEF Inv, HostInv
<1>7. DeviceInv'
    BY <1>1, <1>3 DEF Inv, DeviceInv, Begun, deviceVars
<1>8. QED
    BY <1>5, <1>6, <1>7 DEF Inv

(***************************************************************************)
(* The steps of the device.                                                *)
(***************************************************************************)

\* What the invariant says of the next operation of a stream.
LEMMA NextOperation ==
    ASSUME Inv, NEW s \in Stream, done[s] < Len(ops[s])
    PROVE  /\ done[s] \in Nat /\ Len(ops[s]) \in Nat
           /\ Current(s) = ops[s][done[s] + 1].op
           /\ Current(s) \in Op
           /\ s = "load" <=> Current(s).do = "copy"
           /\ s = "caller" <=> Current(s).do = "prepare"
           /\ s = "caller" => Current(s).call = done[s] + 1
<1>1. done[s] \in Nat /\ PlanOK(Issued) /\ Issued.ops = ops
    BY IssuedFields DEF Inv, DeviceInv, IssueInv
<1>2. Issued \in Plan
    BY <1>1 DEF PlanOK
<1>3. Len(ops[s]) \in Nat
    BY <1>1, <1>2, PlanTypes
<1>4. done[s] + 1 \in 1..Len(ops[s])
    BY <1>1, <1>3
<1>5. Current(s) \in Op
    BY <1>1, <1>2, <1>4, EntryTypes DEF Current
<1>6. /\ s = "load" => Current(s).do = "copy"
      /\ s = "compute" => Current(s).do = "run"
      /\ s = "caller" => Current(s).do = "prepare" /\ Current(s).call = done[s] + 1
    BY <1>1, <1>4 DEF PlanOK, Current
<1>7. s \in {"caller", "load", "compute"}
    BY DEF Stream
<1>8. QED
    BY <1>1, <1>3, <1>5, <1>6, <1>7 DEF Current

LEMMA BeginKeeps ==
    ASSUME Inv, NEW s \in Stream, Begin(s)
    PROVE  Inv'
<1> DEFINE L == done["load"]
<1> DEFINE op == Current(s)
<1>1. /\ s \notin active /\ done[s] < Len(ops[s])
      /\ \A t \in Stream : ops[s][done[s] + 1].after[t] <= done[t]
      /\ active' = active \cup {s}
      /\ buffer' = IF op.do = "copy" THEN [buffer EXCEPT ![op.slot] = Torn] ELSE buffer
      /\ input' = IF op.do = "prepare" THEN op.call ELSE input
      /\ UNCHANGED <<hostVars, flagVars, issueVars, done>>
    BY DEF Begin
<1>2. /\ op = ops[s][done[s] + 1].op /\ op \in Op /\ Len(ops[s]) \in Nat
      /\ s = "load" <=> op.do = "copy"
      /\ s = "caller" <=> op.do = "prepare"
      /\ s = "caller" => op.call = done[s] + 1
    BY <1>1, NextOperation
<1>3. /\ done \in [Stream -> Nat] /\ active \in SUBSET Stream
      /\ buffer \in [Slot -> Block \cup {Torn}] /\ input = Begun("caller")
      /\ "load" \in Stream /\ "caller" \in Stream
    BY DEF Inv, DeviceInv, Stream
<1> HIDE DEF op
<1>4. ops' = ops /\ done' = done /\ Issued' = Issued
    BY <1>1 DEF issueVars, flagVars, hostVars, Issued
<1>5. Begun(s) = done[s] /\ Begun(s)' = done[s] + 1 /\ \A t \in Stream \ {s} : Begun(t)' = Begun(t)
    BY <1>1, <1>3, <1>4 DEF Begun
<1>6. HostInv'
    <2>1. HostInv
        BY DEF Inv
    <2>2. /\ UNCHANGED <<residents, pc, calls, index, slot, offloaded, pending, waited,
                         free_recorded, ready, free, misused, ops, barrier, done>>
        BY <1>1 DEF issueVars, flagVars, hostVars
    <2>3. QED
        BY <2>1, <2>2, <1>4 DEF HostInv, FreeCovers, Staging, InOrder, Left, InSlot
<1>7. IssueInv'
    BY <1>4 DEF Inv, IssueInv, PlanOK, RunsGuarded, CallsGuarded, Behind
<1>8. \A t \in Stream : Begun(t)' <= Len(ops'[t])
    <2>1. \A t \in Stream : Begun(t) <= Len(ops[t])
        BY DEF Inv, DeviceInv
    <2>2. done[s] + 1 <= Len(ops[s])
        BY <1>1, <1>2, <1>3
    <2>3. QED
        BY <1>4, <1>5, <2>1, <2>2
<1>9. ASSUME NEW u \in Stream, NEW t \in Stream, NEW k \in 1..Begun(u)'
      PROVE  ops'[u][k].after[t] <= done'[t]
    <2>1. \A i \in 1..Begun(u) : ops[u][i].after[t] <= done[t]
        BY DEF Inv, DeviceInv
    <2>2. CASE u = s /\ k = done[s] + 1
        BY <1>1, <1>4, <2>2
    <2>3. CASE ~(u = s /\ k = done[s] + 1)
        <3>1. k \in 1..Begun(u)
            <4>1. CASE u = s
                BY <1>3, <1>5, <2>3, <4>1
            <4>2. CASE u # s
                BY <1>5, <4>2
            <4>3. QED
                BY <4>1, <4>2
        <3>2. QED
            BY <1>4, <2>1, <3>1
    <2>4. QED
        BY <2>2, <2>3
<1>10. ASSUME NEW n \in Slot, NEW j \in 1..done'["load"], ops'["load"][j].op.slot = n,
              \A k \in j + 1..Begun("load")' : ops'["load"][k].op.slot # n
       PROVE  buffer'[n] = ops'["load"][j].op.block
    <2>1. Begun("load")' \in Nat /\ Begun("load") \in Nat /\ Begun("load") <= Begun("load")'
          /\ done["load"] \in Nat /\ j \in 1..L
        BY <1>3, <1>4, <1>5 DEF Begun
    <2>2. \A k \in j + 1..Begun("load") : ops["load"][k].op.slot # n
        BY <1>4, <1>10, <2>1
    <2>3. buffer[n] = ops["load"][j].op.block
        BY <1>4, <1>10, <2>1, <2>2 DEF Inv, DeviceInv
    <2>4. buffer'[n] = buffer[n]
        <3>1. CASE s = "load"
            <4>1. L + 1 \in j + 1..Begun("load")'
                BY <1>5, <2>1, <3>1
            <4>2. op.slot # n
                BY <1>2, <1>4, <1>10, <3>1, <4>1
            <4>3. QED
                BY <1>1, <1>3, <4>2
        <3>2. CASE s # "load"
            BY <1>1, <1>2, <3>2
        <3>3. QED
            BY <3>1, <3>2
    <2>5. QED
        BY <1>4, <2>3, <2>4
<1>11. /\ done' \in [Stream -> Nat] /\ active' \in SUBSET Stream
       /\ buffer' \in [Slot -> Block \cup {Torn}]
    BY <1>1, <1>3, <1>4
<1>12. input' = Begun("caller")'
    <2>1. CASE s = "caller"
        BY <1>1, <1>2, <1>5, <2>1
    <2>2. CASE s # "caller"
        BY <1>1, <1>2, <1>3, <1>5, <2>2
    <2>3. QED
        BY <2>1, <2>2
<1>13. DeviceInv'
    BY <1>8, <1>9, <1>10, <1>11, <1>12 DEF DeviceInv
<1>14. QED
    BY <1>6, <1>7, <1>13 DEF Inv

\* The guards do not get weaker as the device proceeds.
LEMMA LaterGuards ==
    ASSUME NEW q \in Plan, NEW d \in Nat, NEW e \in Nat, d <= e
    PROVE  /\ RunsGuarded(q, d) => RunsGuarded(q, e)
           /\ CallsGuarded(q, d) => CallsGuarded(q, e)
           /\ FreeCovers(q, d) => FreeCovers(q, e)
<1>1. \A i \in 1..Len(q.ops["compute"]) : i <= d => i <= e
    OBVIOUS
<1>2. RunsGuarded(q, d) => RunsGuarded(q, e)
    BY <1>1, Zenon DEF RunsGuarded, Behind
<1>3. CallsGuarded(q, d) => CallsGuarded(q, e)
    BY <1>1, Zenon DEF CallsGuarded
<1>4. FreeCovers(q, d) => FreeCovers(q, e)
    BY <1>1, Zenon DEF FreeCovers
<1>5. QED
    BY <1>2, <1>3, <1>4

LEMMA EndKeeps ==
    ASSUME Inv, NEW s \in Stream, End(s)
    PROVE  Inv'
<1> DEFINE L == done["load"]
<1> DEFINE op == Current(s)
<1>1. /\ s \in active /\ active' = active \ {s} /\ done' = [done EXCEPT ![s] = @ + 1]
      /\ buffer' = IF op.do = "copy" THEN [buffer EXCEPT ![op.slot] = op.block] ELSE buffer
      /\ UNCHANGED <<hostVars, flagVars, issueVars, input>>
    BY DEF End
<1>2. /\ done \in [Stream -> Nat] /\ active \in SUBSET Stream
      /\ buffer \in [Slot -> Block \cup {Torn}] /\ input = Begun("caller")
      /\ "load" \in Stream /\ "caller" \in Stream /\ "compute" \in Stream
      /\ \A t \in Stream : Begun(t) <= Len(ops[t])
      /\ Issued \in Plan /\ Issued.ops = ops
    BY IssuedFields DEF Inv, DeviceInv, IssueInv, PlanOK, Stream
<1>3. done[s] < Len(ops[s])
    <2>1. done[s] \in Nat /\ Len(ops[s]) \in Nat /\ done[s] + 1 <= Len(ops[s])
        BY <1>1, <1>2, PlanTypes DEF Begun
    <2>2. QED
        BY <2>1
<1>4. /\ op = ops[s][done[s] + 1].op /\ op \in Op
      /\ s = "load" <=> op.do = "copy"
    BY <1>3, NextOperation
<1> HIDE DEF op
<1>5. ops' = ops /\ Issued' = Issued
    BY <1>1 DEF issueVars, flagVars, hostVars, Issued
<1>6. /\ \A t \in Stream : Begun(t)' = Begun(t) /\ done[t] \in Nat /\ done[t] <= done'[t]
                           /\ done'[t] \in Nat
      /\ done' \in [Stream -> Nat]
    BY <1>1, <1>2 DEF Begun
<1>7. IssueInv'
    <2>1. PlanOK(Issued) /\ RunsGuarded(Issued, done'["compute"])
          /\ CallsGuarded(Issued, done'["compute"])
        BY <1>2, <1>6, LaterGuards DEF Inv, IssueInv
    <2>2. QED
        BY <1>5, <2>1 DEF IssueInv, PlanOK, RunsGuarded, CallsGuarded, Behind
<1>8. HostInv'
    <2>1. HostInv
        BY DEF Inv
    <2>2. /\ UNCHANGED <<residents, pc, calls, index, slot, offloaded, pending, waited,
                         free_recorded, ready, free, misused, ops, barrier>>
        BY <1>1 DEF issueVars, flagVars, hostVars
    <2>3. pc # "except" => FreeCovers(Issued, done["compute"])'
        <3>1. pc # "except" => FreeCovers(Issued, done'["compute"])
            BY <1>2, <1>6, <2>1, LaterGuards DEF HostInv
        <3>2. QED
            BY <1>5, <3>1 DEF FreeCovers
    <2>4. pc = "loop" => Staging(Issued)' /\ InOrder(Issued, Left(index), slot)'
        BY <1>5, <2>1, <2>2 DEF HostInv, Staging, InOrder, Left, InSlot
    <2>5. pc = "idle" => \A i \in 1..Len(ops["compute"]) :
            i <= done'["compute"] \/ i <= barrier["caller"]["compute"]
        BY <1>2, <1>6, <2>1 DEF HostInv
    <2>6. QED
        BY <2>1, <2>2, <2>3, <2>4, <2>5 DEF HostInv
<1>9. ASSUME NEW u \in Stream, NEW t \in Stream, NEW k \in 1..Begun(u)'
      PROVE  ops'[u][k].after[t] <= done'[t]
    <2>1. k \in 1..Begun(u) /\ Begun(u) <= Len(ops[u]) /\ Begun(u) \in Nat
        BY <1>2, <1>6 DEF Begun
    <2>2. ops[u][k].after[t] <= done[t]
        BY <2>1 DEF Inv, DeviceInv
    <2>3. ops[u][k].after[t] \in Nat
        <3>1. k \in 1..Len(Issued.ops[u])
            BY <1>2, <2>1, PlanTypes
        <3>2. QED
            BY <1>2, <3>1, EntryTypes
    <2>4. QED
        BY <1>5, <1>6, <2>2, <2>3
<1>10. ASSUME NEW n \in Slot, NEW j \in 1..done'["load"], ops'["load"][j].op.slot = n,
              \A k \in j + 1..Begun("load")' : ops'["load"][k].op.slot # n
       PROVE  buffer'[n] = ops'["load"][j].op.block
    <2>1. Begun("load") \in Nat /\ L \in Nat
        BY <1>2 DEF Begun
    <2>2. CASE s = "load" /\ j = L + 1
        BY <1>1, <1>2, <1>4, <1>5, <1>10, <2>2
    <2>3. CASE ~(s = "load" /\ j = L + 1)
        <3>1. j \in 1..L
            <4>1. CASE s = "load"
                BY <1>1, <1>2, <2>1, <2>3, <4>1
            <4>2. CASE s # "load"
                BY <1>1, <1>2, <4>2
            <4>3. QED
                BY <4>1, <4>2
        <3>2. buffer[n] = ops["load"][j].op.block
            BY <1>2, <1>5, <1>6, <1>10, <3>1 DEF Inv, DeviceInv
        <3>3. buffer'[n] = buffer[n]
            <4>1. CASE s = "load"
                <5>1. L + 1 \in j + 1..Begun("load")
                    BY <1>1, <2>1, <3>1, <4>1 DEF Begun
                <5>2. op.slot # n
                    BY <1>2, <1>4, <1>5, <1>6, <1>10, <4>1, <5>1
                <5>3. QED
                    BY <1>1, <1>2, <5>2
            <4>2. CASE s # "load"
                BY <1>1, <1>4, <4>2
            <4>3. QED
                BY <4>1, <4>2
        <3>4. QED
            BY <1>5, <3>2, <3>3
    <2>4. QED
        BY <2>2, <2>3
<1>11. buffer' \in [Slot -> Block \cup {Torn}] /\ active' \in SUBSET Stream
    <2>1. op.block \in Block
        BY <1>4 DEF Op
    <2>2. QED
        BY <1>1, <1>2, <2>1
<1>12. input' = Begun("caller")'
    BY <1>1, <1>2, <1>6
<1>13. DeviceInv'
    BY <1>2, <1>5, <1>6, <1>9, <1>10, <1>11, <1>12 DEF DeviceInv
<1>14. QED
    BY <1>7, <1>8, <1>13 DEF Inv

(***************************************************************************)
(* The invariant and the theorems.                                         *)
(***************************************************************************)

LEMMA InitHolds ==
    ASSUME Init
    PROVE  Inv
<1>1. /\ Depth \in Nat \ {0} /\ MaxCalls \in Nat
      /\ "load" \in Stream /\ "compute" \in Stream /\ "caller" \in Stream
    BY EventAssumption DEF Stream
<1>2. /\ \A s \in Stream : ops[s] = <<>> /\ Len(ops[s]) = 0 /\ done[s] = 0 /\ Begun(s) = 0
      /\ \A s, t \in Stream : barrier[s][t] = 0
      /\ \A n \in Slot : ready[n] = 0 /\ free[n] = 0
    BY DEF Init, Begun
<1>3. Issued \in Plan
    <2> DEFINE Entry == [op : Op, after : [Stream -> Nat]]
    <2>1. <<>> \in Seq(Entry)
        OBVIOUS
    <2> HIDE DEF Entry
    <2>2. ops \in [Stream -> Seq(Entry)]
        BY <2>1 DEF Init
    <2>3. /\ barrier \in [Stream -> [Stream -> Nat]]
          /\ ready \in [Slot -> Nat] /\ free \in [Slot -> Nat]
          /\ pending = {} /\ waited = {} /\ free_recorded = {} /\ offloaded = {}
          /\ misused = FALSE
        BY DEF Init
    <2>4. QED
        BY <2>2, <2>3 DEF Plan, Issued, Entry
<1>4. IssueInv
    BY <1>1, <1>2, <1>3, IssuedFields DEF IssueInv, PlanOK, RunsGuarded, CallsGuarded
<1>5. HostInv
    <2>1. FreeCovers(Issued, done["compute"])
        BY <1>1, <1>2, IssuedFields DEF FreeCovers
    <2>2. QED
        BY <1>1, <1>2, <2>1, IssuedFields DEF HostInv, Init, Slot
<1>6. DeviceInv
    BY <1>1, <1>2 DEF DeviceInv, Init
<1>7. QED
    BY <1>4, <1>5, <1>6 DEF Inv

LEMMA StutterKeeps ==
    ASSUME Inv, UNCHANGED vars
    PROVE  Inv'
<1>1. /\ UNCHANGED <<residents, pc, calls, index, slot, offloaded, pending, waited,
                     free_recorded, ready, free, misused, ops, barrier, done, active, buffer, input>>
    BY DEF vars, hostVars, flagVars, issueVars, deviceVars
<1>2. Issued' = Issued
    BY <1>1 DEF Issued
<1>3. HostInv'
    BY <1>1, <1>2 DEF Inv, HostInv, FreeCovers, Staging, InOrder, Left, InSlot
<1>4. IssueInv'
    BY <1>1, <1>2 DEF Inv, IssueInv, PlanOK, RunsGuarded, CallsGuarded, Behind
<1>5. DeviceInv'
    BY <1>1 DEF Inv, DeviceInv, Begun
<1>6. QED
    BY <1>3, <1>4, <1>5 DEF Inv

\* Every state keeps the guards: what run_blocks has issued, and what the device
\* has done of it, satisfy the inductive invariant.
THEOREM GuardsKept == Spec => []Inv
<1>1. Init => Inv
    BY InitHolds
<1>2. Inv /\ [Next]_vars => Inv'
    <2> SUFFICES ASSUME Inv, [Next]_vars
                 PROVE  Inv'
        OBVIOUS
    <2>1. CASE Call
        BY <2>1, CallKeeps
    <2>2. CASE RunResident
        BY <2>2, RunResidentKeeps
    <2>3. CASE RunOffloaded
        BY <2>3, RunOffloadedKeeps
    <2>4. CASE Return
        BY <2>4, ReturnKeeps
    <2>5. CASE Raise
        BY <2>5, RaiseKeeps
    <2>6. CASE Except
        BY <2>6, ExceptKeeps
    <2>7. ASSUME NEW s \in Stream, Begin(s)
          PROVE  Inv'
        BY <2>7, BeginKeeps
    <2>8. ASSUME NEW s \in Stream, End(s)
          PROVE  Inv'
        BY <2>8, EndKeeps
    <2>9. CASE UNCHANGED vars
        BY <2>9, StutterKeeps
    <2>10. QED
        BY <2>1, <2>2, <2>3, <2>4, <2>5, <2>6, <2>7, <2>8, <2>9 DEF Next, HostStep
<1>3. QED
    BY <1>1, <1>2, PTL DEF Spec

\* What the invariant says of a run the device is at.
LEMMA AtRun ==
    ASSUME Inv, "compute" \in active
    PROVE  /\ done["compute"] + 1 \in 1..Len(ops["compute"])
           /\ Current("compute") = ops["compute"][done["compute"] + 1].op
           /\ \A t \in Stream : /\ ops["compute"][done["compute"] + 1].after[t] \in Nat
                                /\ ops["compute"][done["compute"] + 1].after[t] <= done[t]
           /\ \A t \in Stream : done[t] \in Nat /\ Begun(t) \in Nat /\ done[t] <= Begun(t)
                                /\ Begun(t) <= Len(ops[t]) /\ Len(ops[t]) \in Nat
           /\ Issued.ops = ops
<1> DEFINE i == done["compute"] + 1
<1>1. /\ "compute" \in Stream /\ done \in [Stream -> Nat]
      /\ \A t \in Stream : Begun(t) <= Len(ops[t])
      /\ Issued \in Plan /\ Issued.ops = ops
    BY IssuedFields DEF Inv, DeviceInv, IssueInv, PlanOK, Stream
<1>2. \A t \in Stream : Len(ops[t]) \in Nat
    BY <1>1, PlanTypes
<1>3. \A t \in Stream : done[t] \in Nat /\ Begun(t) \in Nat /\ done[t] <= Begun(t)
    BY <1>1 DEF Begun
<1>4. Begun("compute") = i /\ i \in 1..Len(ops["compute"]) /\ i \in 1..Begun("compute")
    BY <1>1, <1>2, <1>3 DEF Begun
<1>5. ops["compute"][i].after \in [Stream -> Nat]
    BY <1>1, <1>4, EntryTypes
<1>6. \A t \in Stream : ops["compute"][i].after[t] <= done[t]
    BY <1>1, <1>4 DEF Inv, DeviceInv
<1>7. QED
    BY <1>1, <1>2, <1>3, <1>4, <1>5, <1>6 DEF Current

LEMMA InvRunsOwnBlock ==
    ASSUME Inv
    PROVE  RunsOwnBlock
<1> DEFINE i == done["compute"] + 1
<1> DEFINE run == ops["compute"][i]
<1> DEFINE Ls == ops["load"]
<1> SUFFICES ASSUME "compute" \in active, Current("compute").slot # NoSlot
             PROVE  buffer[Current("compute").slot] = Current("compute").block
    BY DEF RunsOwnBlock
<1>1. /\ i \in 1..Len(ops["compute"]) /\ Current("compute") = run.op
      /\ \A t \in Stream : run.after[t] \in Nat /\ run.after[t] <= done[t]
      /\ \A t \in Stream : done[t] \in Nat /\ Begun(t) \in Nat /\ done[t] <= Begun(t)
                           /\ Begun(t) <= Len(ops[t]) /\ Len(ops[t]) \in Nat
      /\ Issued.ops = ops
    BY AtRun
<1>2. "load" \in Stream /\ "compute" \in Stream
    BY DEF Stream
<1>3. run.op.slot \in Slot
    <2>1. run.op \in Op
        BY <1>1, <1>2, EntryTypes DEF Inv, IssueInv, PlanOK
    <2>2. QED
        BY <1>1, <2>1 DEF Op, Slot
<1>4. PICK j \in 1..run.after["load"] :
        /\ j <= Len(Ls)
        /\ Ls[j].op.slot = run.op.slot
        /\ Ls[j].op.block = run.op.block
        /\ \A k \in j + 1..Len(Ls) :
            Ls[k].op.slot = run.op.slot => Behind(Issued, done["compute"], k, i)
    BY <1>1 DEF Inv, IssueInv, RunsGuarded
<1>5. j \in 1..done["load"]
    BY <1>1, <1>2
<1>6. ASSUME NEW k \in j + 1..Begun("load")
      PROVE  Ls[k].op.slot # run.op.slot
    <2>1. k \in j + 1..Len(Ls) /\ k \in 1..Begun("load")
        BY <1>1, <1>2, <1>5
    <2>2. Ls[k].after["compute"] <= done["compute"]
        BY <1>2, <2>1 DEF Inv, DeviceInv
    <2>3. Ls[k].after["compute"] \in Nat
        <3>1. k \in 1..Len(Issued.ops["load"])
            BY <1>1, <1>2, <2>1
        <3>2. QED
            BY <1>1, <1>2, <3>1, EntryTypes DEF Inv, IssueInv, PlanOK
    <2>4. ~Behind(Issued, done["compute"], k, i)
        BY <1>1, <1>2, <2>2, <2>3 DEF Behind
    <2>5. QED
        BY <1>4, <2>1, <2>4
<1>7. buffer[run.op.slot] = Ls[j].op.block
    BY <1>3, <1>4, <1>5, <1>6 DEF Inv, DeviceInv
<1>8. QED
    BY <1>1, <1>4, <1>7

LEMMA InvInputIsStable ==
    ASSUME Inv
    PROVE  InputIsStable
<1> DEFINE i == done["compute"] + 1
<1> DEFINE run == ops["compute"][i]
<1> DEFINE Cs == ops["caller"]
<1> DEFINE c == run.op.call
<1> SUFFICES ASSUME "compute" \in active
             PROVE  input = Current("compute").call /\ "caller" \notin active
    BY DEF InputIsStable
<1>1. /\ i \in 1..Len(ops["compute"]) /\ Current("compute") = run.op
      /\ \A t \in Stream : run.after[t] \in Nat /\ run.after[t] <= done[t]
      /\ \A t \in Stream : done[t] \in Nat /\ Begun(t) \in Nat /\ done[t] <= Begun(t)
                           /\ Begun(t) <= Len(ops[t]) /\ Len(ops[t]) \in Nat
      /\ Issued.ops = ops
    BY AtRun
<1>2. "caller" \in Stream /\ "compute" \in Stream
    BY DEF Stream
<1>3. /\ c \in 1..Len(Cs) /\ c <= run.after["caller"]
      /\ \A k \in c + 1..Len(Cs) : i <= done["compute"] \/ i <= Cs[k].after["compute"]
    BY <1>1 DEF Inv, IssueInv, CallsGuarded
<1> HIDE DEF run, c
<1>4. Begun("caller") = c
    <2>1. c <= Begun("caller")
        BY <1>1, <1>2, <1>3
    <2>2. ASSUME c < Begun("caller")
          PROVE  FALSE
        <3> DEFINE k == c + 1
        <3>1. k \in c + 1..Len(Cs) /\ k \in 1..Begun("caller") /\ k \in 1..Len(Cs)
            BY <1>1, <1>2, <1>3, <2>2
        <3>2. Cs[k].after["compute"] <= done["compute"]
            BY <1>2, <3>1 DEF Inv, DeviceInv
        <3>3. Cs[k].after["compute"] \in Nat
            BY <1>1, <1>2, <3>1, EntryTypes DEF Inv, IssueInv, PlanOK
        <3>4. i <= done["compute"] \/ i <= Cs[k].after["compute"]
            BY <1>3, <3>1
        <3>5. QED
            BY <1>1, <1>2, <3>2, <3>3, <3>4
    <2>3. QED
        BY <1>1, <1>2, <1>3, <2>1, <2>2
<1>5. "caller" \notin active
    BY <1>1, <1>2, <1>3, <1>4 DEF Begun
<1>6. input = c
    BY <1>4 DEF Inv, DeviceInv
<1>7. QED
    BY <1>1, <1>5, <1>6 DEF c

\* While the device computes with a staged block, its slot holds that block and no
\* copy is writing into it (the events of prefetch_to_slot, wait_ready and
\* record_free), for every depth of the stack and every set of residents.
THEOREM BlocksRunOwn == Spec => []RunsOwnBlock
<1>1. Spec => []Inv
    BY GuardsKept
<1>2. Inv => RunsOwnBlock
    BY InvRunsOwnBlock
<1>3. QED
    BY <1>1, <1>2, PTL

\* The device computes on the input of its own call, and the caller does not touch
\* it meanwhile (the wait_stream calls of run_blocks).
THEOREM InputStable == Spec => []InputIsStable
<1>1. Spec => []Inv
    BY GuardsKept
<1>2. Inv => InputIsStable
    BY InvInputIsStable
<1>3. QED
    BY <1>1, <1>2, PTL

\* run_blocks never makes a slot method raise RuntimeError and returns with both
\* slots free, also after a call that raised.
THEOREM SlotsAlwaysRecycled == Spec => []SlotsRecycled
<1>1. Spec => []Inv
    BY GuardsKept
<1>2. Inv => SlotsRecycled
    BY DEF Inv, HostInv, SlotsRecycled
<1>3. QED
    BY <1>1, <1>2, PTL

LEMMA InvTypes ==
    ASSUME Inv
    PROVE  EventTypeOK
<1>1. /\ Issued \in Plan /\ PlanOK(Issued) /\ "caller" \in Stream
    BY DEF Inv, IssueInv, PlanOK, Stream
<1>2. /\ pending \subseteq Slot /\ waited \subseteq Slot /\ free_recorded \subseteq Slot
      /\ offloaded \subseteq Block /\ ready \in [Slot -> Nat] /\ free \in [Slot -> Nat]
      /\ misused \in BOOLEAN
    BY <1>1 DEF Plan, Issued
<1>3. ASSUME NEW s \in Stream, NEW t \in Stream
      PROVE  done[s] \in 0..Len(ops[s]) /\ barrier[s][t] \in 0..Len(ops[t])
    <2>1. /\ barrier[s][t] \in Nat /\ barrier[s][t] <= Len(ops[t])
          /\ Len(ops[s]) \in Nat /\ Len(ops[t]) \in Nat
        BY <1>1, PlanTypes, IssuedFields DEF PlanOK
    <2>2. done[s] \in Nat /\ done[s] <= Len(ops[s])
        BY <2>1 DEF Inv, DeviceInv, Begun
    <2>3. QED
        BY <2>1, <2>2
<1>4. input \in 0..MaxCalls
    <2>1. Begun("caller") \in Nat /\ Begun("caller") <= Len(ops["caller"])
        BY <1>1 DEF Inv, DeviceInv, Begun
    <2>2. Len(ops["caller"]) \in 0..MaxCalls /\ input = Begun("caller") /\ MaxCalls \in Nat
        BY EventAssumption DEF Inv, HostInv, DeviceInv
    <2>3. QED
        BY <2>1, <2>2
<1>5. QED
    BY <1>2, <1>3, <1>4 DEF EventTypeOK, Inv, HostInv, DeviceInv

\* Types: the device never does more than was issued, and no stream waits for work
\* that was not issued.
THEOREM EventTypeCorrect == Spec => []EventTypeOK
<1>1. Spec => []Inv
    BY GuardsKept
<1>2. Inv => EventTypeOK
    BY InvTypes
<1>3. QED
    BY <1>1, <1>2, PTL

=============================================================================
