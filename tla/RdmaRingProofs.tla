--------------------------- MODULE RdmaRingProofs ---------------------------
(***************************************************************************)
(* Theorems about RdmaRing, for rings of every size, every number of       *)
(* consumers, configs and failed operations, and one producer.             *)
(***************************************************************************)
EXTENDS RdmaRing, SequenceTheorems, TLAPS

(***************************************************************************)
(* Slots.                                                                  *)
(***************************************************************************)

\* Division with remainder.
LEMMA DivMod ==
    ASSUME NEW a \in Int, NEW n \in Nat \ {0}
    PROVE  /\ a \div n \in Int
           /\ a % n \in 0..n - 1
           /\ a = n * (a \div n) + (a % n)
    OBVIOUS

\* Counts that are less than the size of the ring apart have different slots.
LEMMA IndexDiffers ==
    ASSUME NEW a \in Nat, NEW b \in Nat, a < b, b - a < Size
    PROVE  Index(a) # Index(b)
<1> SUFFICES ASSUME Index(a) = Index(b)
             PROVE  FALSE
    OBVIOUS
<1> DEFINE k == b \div Size - a \div Size
<1>1. k \in Int /\ b - a = Size * k
    BY DivMod, RingAssumption DEF Index
<1> HIDE DEF k
<1>2. CASE k <= 0
    <2>1. Size * k <= 0
        BY <1>1, <1>2, RingAssumption
    <2>2. QED
        BY <1>1, <2>1
<1>3. CASE k >= 1
    <2>1. Size * k >= Size
        BY <1>1, <1>3, RingAssumption
    <2>2. QED
        BY <1>1, <2>1, RingAssumption
<1>4. QED
    BY <1>1, <1>2, <1>3

\* Every count has a slot.
LEMMA IndexType ==
    ASSUME NEW a \in Int
    PROVE  Index(a) \in 0..Size - 1
    BY DivMod, RingAssumption DEF Index

\* The unsigned distance of counts in order is their difference, as long as it
\* is below Modulus; and counts that are the same have none.
LEMMA DistanceIsDifference ==
    ASSUME NEW a \in Nat, NEW b \in Nat, b <= a, a - b < Modulus
    PROVE  Distance(a, b) = a - b
    BY RingAssumption DEF Distance

(***************************************************************************)
(* The inductive invariant.                                                *)
(***************************************************************************)

OneProducer == \A p, q \in Producers : p = q

\* The producer works on the slot after the last published one, which no
\* consumer looks at.
ProducerKnows ==
    \A p \in Producers :
        /\ at[p] # "idle" => config[p] \in Configs
        /\ at[p] \in {"read head", "zero", "body", "length", "publish"} => old_tail[p] = tail
        /\ at[p] \in {"zero", "body", "length", "publish"} => tail - head < Size
        /\ at[p] \in {"length", "publish"} => slot[Index(tail)].body = config[p]
        /\ at[p] = "publish" => slot[Index(tail)].length = config[p]

Reading(x) == stage[x] \in {"length", "body", "parse", "claim"}

\* What a consumer has read is still in the slot, unless another one has
\* advanced the head since.
ConsumerKnows ==
    \A x \in Consumers :
        /\ Reading(x) => cur_head[x] < tail
        /\ cur_head[x] = head /\ stage[x] \in {"body", "parse", "claim"} =>
            read[x].length = slot[Index(head)].length
        /\ cur_head[x] = head /\ stage[x] \in {"parse", "claim"} =>
            read[x].body = slot[Index(head)].body

Inv == OneProducer /\ RingTypeOK /\ PublishedIsWritten /\ ProducerKnows /\ ConsumerKnows

\* The facts about numbers that the steps use.
LEMMA Numbers ==
    ASSUME Inv
    PROVE  /\ head \in Nat /\ tail \in Nat /\ head <= tail /\ tail - head <= Size
           /\ Size \in Nat \ {0}
           /\ Index(tail) \in 0..Size - 1 /\ Index(head) \in 0..Size - 1
           /\ \A p \in Producers : old_tail[p] \in 0..tail
           /\ \A x \in Consumers : cur_head[x] \in 0..head
<1>1. head \in Nat /\ tail \in Nat
    BY DEF Inv, RingTypeOK
<1>2. head <= tail /\ tail - head <= Size /\ Size \in Nat \ {0}
    <2>1. tail - head \in 0..Size
        BY DEF Inv, PublishedIsWritten
    <2>2. QED
        BY <1>1, <2>1, RingAssumption
<1>3. Index(tail) \in 0..Size - 1 /\ Index(head) \in 0..Size - 1
    BY <1>1, IndexType
<1>4. /\ \A p \in Producers : old_tail[p] \in 0..tail
      /\ \A x \in Consumers : cur_head[x] \in 0..head
    BY DEF Inv, RingTypeOK
<1>5. QED
    BY <1>1, <1>2, <1>3, <1>4

(***************************************************************************)
(* The producer.                                                           *)
(***************************************************************************)

\* Steps that touch neither the ring nor a consumer.
LEMMA RingUntouched ==
    ASSUME Inv, UNCHANGED <<ringVars, consumeVars>>
    PROVE  OneProducer' /\ PublishedIsWritten' /\ ConsumerKnows'
<1>1. /\ head' = head /\ tail' = tail /\ slot' = slot
      /\ stage' = stage /\ cur_head' = cur_head /\ read' = read
    BY DEF ringVars, consumeVars
<1>2. PublishedIsWritten'
    BY <1>1 DEF Inv, PublishedIsWritten
<1>3. ConsumerKnows'
    BY <1>1 DEF Inv, ConsumerKnows, Reading
<1>4. QED
    BY <1>2, <1>3 DEF Inv, OneProducer

\* A write into the slot after the last published one.
LEMMA WriteKeeps ==
    ASSUME Inv, NEW s, slot' = [slot EXCEPT ![Index(tail)] = s], tail - head < Size,
           head' = head, tail' = tail, UNCHANGED consumeVars
    PROVE  OneProducer' /\ PublishedIsWritten' /\ ConsumerKnows'
<1>n. /\ head \in Nat /\ tail \in Nat /\ head <= tail /\ tail - head <= Size
      /\ Size \in Nat \ {0}
      /\ \A x \in Consumers : cur_head[x] \in 0..head
    BY Numbers
<1>1. stage' = stage /\ cur_head' = cur_head /\ read' = read
    BY DEF consumeVars
<1>2. \A n \in head..tail - 1 : slot'[Index(n)] = slot[Index(n)]
    <2> SUFFICES ASSUME NEW n \in head..tail - 1
                 PROVE  slot'[Index(n)] = slot[Index(n)]
        OBVIOUS
    <2>1. n \in Nat /\ n < tail /\ tail - n < Size
        BY <1>n
    <2>2. Index(n) # Index(tail) /\ Index(n) \in 0..Size - 1
        BY <1>n, <2>1, IndexDiffers, IndexType
    <2>3. QED
        BY <2>2 DEF Inv, RingTypeOK
<1>3. PublishedIsWritten'
    BY <1>2 DEF Inv, PublishedIsWritten
<1>4. ConsumerKnows'
    <2> SUFFICES ASSUME NEW x \in Consumers
                 PROVE  /\ Reading(x) => cur_head[x] < tail
                        /\ cur_head[x] = head /\ stage[x] \in {"body", "parse", "claim"} =>
                            read[x].length = slot'[Index(head)].length
                        /\ cur_head[x] = head /\ stage[x] \in {"parse", "claim"} =>
                            read[x].body = slot'[Index(head)].body
        BY <1>1 DEF ConsumerKnows, Reading
    <2>1. cur_head[x] = head /\ stage[x] \in {"body", "parse", "claim"} =>
            slot'[Index(head)] = slot[Index(head)]
        <3> SUFFICES ASSUME cur_head[x] = head, stage[x] \in {"body", "parse", "claim"}
                     PROVE  slot'[Index(head)] = slot[Index(head)]
            OBVIOUS
        <3>1. head < tail
            BY DEF Inv, ConsumerKnows, Reading
        <3>2. QED
            BY <1>2, <1>n, <3>1
    <2>2. QED
        BY <2>1 DEF Inv, ConsumerKnows
<1>5. QED
    BY <1>3, <1>4 DEF Inv, OneProducer

\* The tail advances over a slot that is written.
LEMMA TailKeeps ==
    ASSUME Inv, NEW p \in Producers, at[p] = "publish", tail' = tail + 1,
           head' = head, slot' = slot, UNCHANGED consumeVars
    PROVE  OneProducer' /\ PublishedIsWritten' /\ ConsumerKnows'
<1>n. /\ head \in Nat /\ tail \in Nat /\ head <= tail /\ Size \in Nat \ {0}
      /\ \A x \in Consumers : cur_head[x] \in 0..head
    BY Numbers
<1>1. stage' = stage /\ cur_head' = cur_head /\ read' = read
    BY DEF consumeVars
<1>2. /\ tail - head < Size /\ config[p] \in Configs
      /\ slot[Index(tail)].body = config[p] /\ slot[Index(tail)].length = config[p]
    BY DEF Inv, ProducerKnows
<1>3. PublishedIsWritten'
    <2>1. tail' - head' \in 0..Size
        BY <1>2, <1>n
    <2>2. ASSUME NEW n \in head'..tail' - 1
          PROVE  slot[Index(n)].length # NoConfig /\ slot[Index(n)].length = slot[Index(n)].body
        <3>1. CASE n = tail
            BY <1>2, <3>1, RingAssumption
        <3>2. CASE n # tail
            <4>1. n \in head..tail - 1
                BY <1>n, <3>2
            <4>2. QED
                BY <4>1 DEF Inv, PublishedIsWritten
        <3>3. QED
            BY <3>1, <3>2
    <2>3. QED
        BY <2>1, <2>2 DEF PublishedIsWritten
<1>4. ConsumerKnows'
    <2>1. \A x \in Consumers : Reading(x) => cur_head[x] < tail + 1
        BY <1>n DEF Inv, ConsumerKnows
    <2>2. QED
        BY <1>1, <2>1 DEF Inv, ConsumerKnows, Reading
<1>5. QED
    BY <1>3, <1>4 DEF Inv, OneProducer

\* Every step of the producer.
LEMMA ProduceKeeps ==
    ASSUME Inv, NEW p \in Producers, Take(p) \/ ProduceStep(p) \/ ProduceFault(p)
    PROVE  Inv'
<1> USE DEF Inv
<1>n. /\ head \in Nat /\ tail \in Nat /\ head <= tail /\ tail - head <= Size
      /\ Size \in Nat \ {0} /\ Index(tail) \in 0..Size - 1
      /\ \A q \in Producers : old_tail[q] \in 0..tail
    BY Numbers
<1>p. Producers = {p}
    BY DEF OneProducer
<1>f. faults \in 0..MaxFaults /\ MaxFaults \in Nat
    BY RingAssumption DEF RingTypeOK
<1> DEFINE ProducerTypes ==
              /\ todo \in SUBSET Configs
              /\ at \in [Producers -> {"idle", "read tail", "read head", "zero", "body", "length",
                                       "publish"}]
              /\ config \in [Producers -> Part]
              /\ old_tail \in [Producers -> 0..tail]
           ConsumerTypes ==
              /\ head \in Nat
              /\ stage \in [Consumers -> {"idle", "load tail", "length", "body", "parse", "claim"}]
              /\ cur_head \in [Consumers -> 0..head]
              /\ read \in [Consumers -> [length : Part, body : Part]]
              /\ delivered \in [Configs -> Nat]
           SlotType == slot \in [0..Size - 1 -> [length : Part, body : Part]]
<1>t. /\ ProducerTypes /\ ConsumerTypes /\ SlotType
      /\ (ProducerTypes /\ ConsumerTypes /\ SlotType /\ tail \in Nat /\ faults \in 0..MaxFaults)'
            => RingTypeOK'
    BY DEF RingTypeOK
<1>c. UNCHANGED consumeVars /\ head' = head => ConsumerTypes'
    BY <1>t DEF consumeVars
<1>o. /\ old_tail \in [Producers -> 0..tail]
      /\ old_tail \in [Producers -> 0..tail + 1]
    <2>1. 0..tail \subseteq 0..tail + 1
        BY <1>n
    <2>2. QED
        BY <1>t, <2>1
<1> HIDE DEF ConsumerTypes, SlotType
<1>1. CASE Take(p)
    <2>1. PICK c \in todo : /\ todo' = todo \ {c} /\ config' = [config EXCEPT ![p] = c]
                           /\ at' = [at EXCEPT ![p] = "read tail"]
        BY <1>1 DEF Take
    <2>2. /\ head' = head /\ tail' = tail /\ slot' = slot /\ old_tail' = old_tail
          /\ UNCHANGED <<ringVars, consumeVars>> /\ faults' = faults
        BY <1>1 DEF Take, ringVars
    <2>3. ProducerTypes' /\ SlotType'
        BY <1>t, <2>1, <2>2 DEF Part, SlotType
    <2>4. ProducerKnows'
        BY <1>p, <1>t, <2>1, <2>2 DEF ProducerKnows
    <2>5. QED
        BY <1>c, <1>f, <1>n, <1>t, <2>2, <2>3, <2>4, RingUntouched
<1>2. CASE ReadTail(p)
    <2>1. /\ at[p] = "read tail" /\ at' = [at EXCEPT ![p] = "read head"]
          /\ old_tail' = [old_tail EXCEPT ![p] = tail]
          /\ todo' = todo /\ config' = config
          /\ head' = head /\ tail' = tail /\ slot' = slot
          /\ UNCHANGED <<ringVars, consumeVars>> /\ faults' = faults
        BY <1>2 DEF ReadTail, Produces, ringVars
    <2>2. ProducerTypes' /\ SlotType'
        <3>1. tail \in 0..tail
            BY <1>n
        <3>2. old_tail' \in [Producers -> 0..tail]
            BY <1>t, <2>1, <3>1
        <3>3. QED
            BY <1>t, <2>1, <3>2 DEF SlotType
    <2>3. ProducerKnows'
        BY <1>p, <1>t, <2>1 DEF ProducerKnows
    <2>4. QED
        BY <1>c, <1>f, <1>n, <1>t, <2>1, <2>2, <2>3, RingUntouched
<1>3. CASE ReadHead(p)
    <2>1. /\ at[p] = "read head" /\ at' = [at EXCEPT ![p] = "zero"] /\ ~IsFull(p)
          /\ old_tail' = old_tail /\ todo' = todo /\ config' = config
          /\ head' = head /\ tail' = tail /\ slot' = slot
          /\ UNCHANGED <<ringVars, consumeVars>> /\ faults' = faults
        BY <1>3 DEF ReadHead, Produces, ringVars
    <2>2. tail - head < Size
        <3>1. old_tail[p] = tail
            BY <2>1 DEF ProducerKnows
        <3>2. Distance(tail, head) = tail - head
            <4>1. tail - head < Modulus
                BY <1>n, RingAssumption
            <4>2. QED
                BY <1>n, <4>1, DistanceIsDifference
        <3>3. ~(tail - head >= Size)
            BY <2>1, <3>1, <3>2 DEF IsFull
        <3>4. QED
            BY <1>n, <3>3
    <2>3. ProducerTypes' /\ SlotType'
        BY <1>t, <2>1 DEF SlotType
    <2>4. ProducerKnows'
        BY <1>p, <1>t, <2>1, <2>2 DEF ProducerKnows
    <2>5. QED
        BY <1>c, <1>f, <1>n, <1>t, <2>1, <2>3, <2>4, RingUntouched
\* produce raises before it has changed the ring.
<1>4. ASSUME Raise(p), UNCHANGED ringVars, faults' \in 0..MaxFaults
      PROVE  Inv'
    <2>1. /\ at[p] # "idle"
          /\ at' = [at EXCEPT ![p] = "read tail"] \/ at' = [at EXCEPT ![p] = "idle"]
          /\ old_tail' = old_tail /\ todo' = todo /\ config' = config
          /\ head' = head /\ tail' = tail /\ slot' = slot
          /\ UNCHANGED <<ringVars, consumeVars>>
        BY <1>4 DEF Raise, ringVars
    <2>2. ProducerTypes' /\ SlotType'
        BY <1>t, <2>1 DEF SlotType
    <2>3. ProducerKnows'
        BY <1>p, <1>t, <2>1 DEF ProducerKnows
    <2>4. QED
        BY <1>4, <1>c, <1>n, <1>t, <2>1, <2>2, <2>3, RingUntouched
<1>5. CASE RaiseFull(p)
    BY <1>4, <1>5, <1>f DEF RaiseFull
\* A write of the slot.
<1>6. ASSUME NEW s \in [length : Part, body : Part], NEW to \in {"body", "length", "publish"},
             slot' = [slot EXCEPT ![Index(old_tail[p])] = s],
             at' = [at EXCEPT ![p] = to], at[p] \in {"zero", "body", "length"},
             UNCHANGED <<todo, config, consumeVars, head, tail, old_tail, faults>>,
             to \in {"length", "publish"} => s.body = config[p],
             to = "publish" => s.length = config[p]
      PROVE  Inv'
    <2>1. old_tail[p] = tail /\ tail - head < Size /\ config[p] \in Configs
        BY <1>6 DEF ProducerKnows
    <2>2. /\ slot' = [slot EXCEPT ![Index(tail)] = s] /\ head' = head /\ tail' = tail
          /\ old_tail' = old_tail /\ todo' = todo /\ config' = config
          /\ UNCHANGED consumeVars /\ faults' = faults
        BY <1>6, <2>1
    <2>3. slot'[Index(tail)] = s /\ SlotType'
        BY <1>n, <1>t, <2>2 DEF SlotType
    <2>4. ProducerTypes'
        BY <1>6, <1>t, <2>2
    <2>5. ProducerKnows'
        BY <1>6, <1>p, <1>t, <2>1, <2>2, <2>3 DEF ProducerKnows
    <2>6. OneProducer' /\ PublishedIsWritten' /\ ConsumerKnows'
        BY <2>1, <2>2, WriteKeeps
    <2>7. QED
        BY <1>c, <1>f, <1>n, <1>t, <2>2, <2>3, <2>4, <2>5, <2>6
<1>s. /\ Index(old_tail[p]) \in 0..Size - 1
      /\ slot[Index(old_tail[p])] \in [length : Part, body : Part]
      /\ config[p] \in Part
    <2>1. old_tail[p] \in Int
        BY <1>n
    <2>2. Index(old_tail[p]) \in 0..Size - 1
        BY <2>1, IndexType
    <2>3. QED
        BY <1>t, <2>2 DEF SlotType
<1>7. CASE Zero(p)
    <2>1. Blank \in [length : Part, body : Part]
        BY DEF Blank, Part
    <2>2. QED
        BY <1>6, <1>7, <2>1 DEF Zero, Produces
<1>8. CASE Body(p)
    <2> DEFINE s == [slot[Index(old_tail[p])] EXCEPT !.body = config[p]]
    <2>1. s \in [length : Part, body : Part] /\ s.body = config[p]
        BY <1>s
    <2>2. slot' = [slot EXCEPT ![Index(old_tail[p])] = s]
        BY <1>8 DEF Body
    <2> HIDE DEF s
    <2>3. QED
        BY <1>6, <1>8, <2>1, <2>2 DEF Body, Produces
<1>9. CASE Length(p)
    <2> DEFINE s == [slot[Index(old_tail[p])] EXCEPT !.length = config[p]]
    <2>1. slot[Index(old_tail[p])].body = config[p]
        BY <1>9 DEF Length, Produces, ProducerKnows
    <2>2. s \in [length : Part, body : Part] /\ s.body = config[p] /\ s.length = config[p]
        BY <1>s, <2>1
    <2>3. slot' = [slot EXCEPT ![Index(old_tail[p])] = s]
        BY <1>9 DEF Length
    <2> HIDE DEF s
    <2>4. QED
        BY <1>6, <1>9, <2>2, <2>3 DEF Length, Produces
\* The tail advances, and produce may not know it.
<1>10. ASSUME at[p] = "publish", tail' = tail + 1,
              at' = [at EXCEPT ![p] = "read tail"] \/ at' = [at EXCEPT ![p] = "idle"],
              UNCHANGED <<todo, config, consumeVars, head, slot, old_tail>>, faults' \in 0..MaxFaults
       PROVE  Inv'
    <2>1. /\ old_tail' = old_tail /\ todo' = todo /\ config' = config
          /\ head' = head /\ slot' = slot /\ UNCHANGED consumeVars
        BY <1>10
    <2>2. ProducerTypes' /\ SlotType' /\ tail' \in Nat
        <3>1. tail' \in Nat /\ old_tail' \in [Producers -> 0..tail']
            <4>1. tail + 1 \in Nat
                BY <1>n
            <4>2. tail' = tail + 1 /\ tail' \in Nat
                BY <1>10, <4>1
            <4>3. old_tail' \in [Producers -> 0..tail + 1]
                BY <1>o, <2>1
            <4>4. QED
                BY <4>2, <4>3
        <3>2. at' \in [Producers -> {"idle", "read tail", "read head", "zero", "body", "length",
                                    "publish"}]
            BY <1>10, <1>t
        <3>3. QED
            BY <1>t, <2>1, <3>1, <3>2 DEF SlotType
    <2>3. ProducerKnows'
        BY <1>10, <1>p, <1>t, <2>1 DEF ProducerKnows
    <2>4. OneProducer' /\ PublishedIsWritten' /\ ConsumerKnows'
        BY <1>10, <2>1, TailKeeps
    <2>5. QED
        BY <1>10, <1>c, <1>t, <2>1, <2>2, <2>3, <2>4
<1>11. CASE Publish(p)
    BY <1>10, <1>11, <1>f DEF Publish, Produces
<1>12. CASE ProduceFault(p)
    <2>1. Raise(p) /\ faults' \in 0..MaxFaults
        BY <1>12, <1>f DEF ProduceFault
    <2>2. CASE UNCHANGED ringVars
        BY <1>4, <2>1, <2>2
    <2>3. CASE at[p] = "publish" /\ tail' = tail + 1 /\ UNCHANGED <<head, slot>>
        BY <1>10, <2>1, <2>3 DEF Raise
    <2>4. QED
        BY <1>12, <2>2, <2>3 DEF ProduceFault
<1>13. QED
    BY <1>1, <1>2, <1>3, <1>5, <1>7, <1>8, <1>9, <1>11, <1>12 DEF ProduceStep

(***************************************************************************)
(* The consumers.                                                          *)
(***************************************************************************)

\* Steps of consumer x that leave the ring as it is.
LEMMA ReadingKeeps ==
    ASSUME Inv, NEW x \in Consumers, UNCHANGED <<ringVars, produceVars>>, faults' \in 0..MaxFaults,
           stage' \in [Consumers -> {"idle", "load tail", "length", "body", "parse", "claim"}],
           cur_head' \in [Consumers -> 0..head],
           read' \in [Consumers -> [length : Part, body : Part]],
           delivered' \in [Configs -> Nat],
           \A y \in Consumers \ {x} :
                stage'[y] = stage[y] /\ cur_head'[y] = cur_head[y] /\ read'[y] = read[y],
           stage'[x] \in {"length", "body", "parse", "claim"} => cur_head'[x] < tail,
           cur_head'[x] = head /\ stage'[x] \in {"body", "parse", "claim"} =>
                read'[x].length = slot[Index(head)].length,
           cur_head'[x] = head /\ stage'[x] \in {"parse", "claim"} =>
                read'[x].body = slot[Index(head)].body
    PROVE  Inv'
<1>1. /\ head' = head /\ tail' = tail /\ slot' = slot
      /\ todo' = todo /\ at' = at /\ config' = config /\ old_tail' = old_tail
    BY DEF ringVars, produceVars
<1>2. RingTypeOK'
    BY <1>1 DEF Inv, RingTypeOK
<1>3. OneProducer' /\ PublishedIsWritten' /\ ProducerKnows'
    BY <1>1 DEF Inv, OneProducer, PublishedIsWritten, ProducerKnows
<1>4. ConsumerKnows'
    <2> SUFFICES ASSUME NEW y \in Consumers
                 PROVE  /\ Reading(y)' => cur_head'[y] < tail
                        /\ cur_head'[y] = head /\ stage'[y] \in {"body", "parse", "claim"} =>
                            read'[y].length = slot[Index(head)].length
                        /\ cur_head'[y] = head /\ stage'[y] \in {"parse", "claim"} =>
                            read'[y].body = slot[Index(head)].body
        BY <1>1 DEF ConsumerKnows
    <2>1. CASE y = x
        BY <2>1 DEF Reading
    <2>2. CASE y # x
        BY <2>2 DEF Inv, ConsumerKnows, Reading
    <2>3. QED
        BY <2>1, <2>2
<1>5. QED
    BY <1>2, <1>3, <1>4 DEF Inv

\* The head advances over a config that consumer x has read.
LEMMA HeadKeeps ==
    ASSUME Inv, NEW x \in Consumers, stage[x] = "claim", cur_head[x] = head, head' = head + 1,
           UNCHANGED <<tail, slot, produceVars, cur_head>>, faults' \in 0..MaxFaults,
           stage' = [stage EXCEPT ![x] = "idle"] \/ stage' = [stage EXCEPT ![x] = "length"],
           read' = [read EXCEPT ![x] = Blank],
           stage'[x] = "idle",
           delivered' \in [Configs -> Nat]
    PROVE  Inv'
<1>n. /\ head \in Nat /\ tail \in Nat /\ head <= tail /\ tail - head <= Size
      /\ Size \in Nat \ {0}
      /\ \A y \in Consumers : cur_head[y] \in 0..head
    BY Numbers
<1>1. /\ todo' = todo /\ at' = at /\ config' = config /\ old_tail' = old_tail
      /\ tail' = tail /\ slot' = slot /\ cur_head' = cur_head
    BY DEF produceVars
<1>2. head < tail
    BY <1>n DEF Inv, ConsumerKnows, Reading
<1>3. RingTypeOK'
    <2>1. cur_head' \in [Consumers -> 0..head']
        <3>1. 0..head \subseteq 0..head + 1
            BY <1>n
        <3>2. QED
            BY <1>1, <3>1 DEF Inv, RingTypeOK
    <2>2. read' \in [Consumers -> [length : Part, body : Part]]
        BY DEF Inv, RingTypeOK, Blank, Part
    <2>3. stage' \in [Consumers -> {"idle", "load tail", "length", "body", "parse", "claim"}]
        BY DEF Inv, RingTypeOK
    <2>4. head' \in Nat
        BY <1>n
    <2>5. QED
        BY <1>1, <2>1, <2>2, <2>3, <2>4 DEF Inv, RingTypeOK
<1>4. PublishedIsWritten'
    <2>1. tail' - head' \in 0..Size
        BY <1>1, <1>2, <1>n
    <2>2. \A n \in head'..tail' - 1 : n \in head..tail - 1
        BY <1>1, <1>n
    <2>3. QED
        BY <1>1, <2>1, <2>2 DEF Inv, PublishedIsWritten
<1>5. ProducerKnows'
    <2>1. \A p \in Producers : at[p] \in {"zero", "body", "length", "publish"} => tail - head' < Size
        <3> SUFFICES ASSUME NEW p \in Producers, at[p] \in {"zero", "body", "length", "publish"}
                     PROVE  tail - head' < Size
            OBVIOUS
        <3>1. tail - head < Size
            BY DEF Inv, ProducerKnows
        <3>2. QED
            BY <1>n, <3>1
    <2>2. QED
        BY <1>1, <2>1 DEF Inv, ProducerKnows
<1>6. ConsumerKnows'
    <2> SUFFICES ASSUME NEW y \in Consumers
                 PROVE  cur_head[y] # head' /\ (Reading(y)' => cur_head[y] < tail)
        BY <1>1 DEF ConsumerKnows
    <2>1. cur_head[y] # head'
        BY <1>n
    <2>2. Reading(y)' => Reading(y)
        BY DEF Inv, RingTypeOK, Reading
    <2>3. QED
        BY <2>1, <2>2 DEF Inv, ConsumerKnows
<1>7. QED
    BY <1>3, <1>4, <1>5, <1>6 DEF Inv, OneProducer

\* A consumer whose claim is going to succeed has the oldest config.
LEMMA ClaimsConfig ==
    ASSUME Inv, NEW x \in Consumers, stage[x] = "claim", cur_head[x] = head
    PROVE  /\ head < tail /\ read[x] = slot[Index(head)]
           /\ read[x].body = slot[Index(head)].body /\ read[x].body \in Configs
<1>n. head \in Nat /\ tail \in Nat /\ Index(head) \in 0..Size - 1
    BY Numbers
<1>1. head < tail
    BY DEF Inv, ConsumerKnows, Reading
<1>2. /\ read[x].length = slot[Index(head)].length
      /\ read[x].body = slot[Index(head)].body
    BY DEF Inv, ConsumerKnows
<1>3. /\ read[x] \in [length : Part, body : Part]
      /\ slot[Index(head)] \in [length : Part, body : Part]
    BY <1>n DEF Inv, RingTypeOK
<1>4. slot[Index(head)].length # NoConfig /\ slot[Index(head)].length = slot[Index(head)].body
    <2>1. head \in head..tail - 1
        BY <1>1, <1>n
    <2>2. QED
        BY <2>1 DEF Inv, PublishedIsWritten
<1>5. QED
    BY <1>1, <1>2, <1>3, <1>4 DEF Part

\* Every step of a consumer.
LEMMA ConsumeKeeps ==
    ASSUME Inv, NEW x \in Consumers, ConsumeStep(x) \/ ConsumeFault(x)
    PROVE  Inv'
<1>n. /\ head \in Nat /\ tail \in Nat /\ head <= tail
      /\ Size \in Nat \ {0} /\ Index(head) \in 0..Size - 1
      /\ \A y \in Consumers : cur_head[y] \in 0..head
    BY Numbers
<1>t. /\ stage \in [Consumers -> {"idle", "load tail", "length", "body", "parse", "claim"}]
      /\ cur_head \in [Consumers -> 0..head]
      /\ read \in [Consumers -> [length : Part, body : Part]]
      /\ delivered \in [Configs -> Nat]
      /\ faults \in 0..MaxFaults /\ MaxFaults \in Nat
      /\ slot \in [0..Size - 1 -> [length : Part, body : Part]]
    BY RingAssumption DEF Inv, RingTypeOK
<1>d. delivered \in [Configs -> Nat]
    BY <1>t
<1>f. faults \in 0..MaxFaults /\ MaxFaults \in Nat
    BY <1>t
<1>k. /\ Reading(x) => cur_head[x] < tail
      /\ cur_head[x] = head /\ stage[x] \in {"body", "parse", "claim"} =>
            read[x].length = slot[Index(head)].length
      /\ cur_head[x] = head /\ stage[x] \in {"parse", "claim"} =>
            read[x].body = slot[Index(head)].body
    BY DEF Inv, ConsumerKnows
<1>b. [read EXCEPT ![x] = Blank] \in [Consumers -> [length : Part, body : Part]]
    BY <1>t DEF Blank, Part
<1>1. CASE LoadHead(x)
    <2>1. /\ stage' = [stage EXCEPT ![x] = "load tail"] /\ cur_head' = [cur_head EXCEPT ![x] = head]
          /\ read' = read /\ delivered' = delivered /\ faults' = faults
          /\ UNCHANGED <<ringVars, produceVars>>
        BY <1>1 DEF LoadHead, Consumes
    <2>2. cur_head' \in [Consumers -> 0..head]
        <3>1. head \in 0..head
            BY <1>n
        <3>2. QED
            BY <1>t, <2>1, <3>1
    <2>3. /\ stage'[x] = "load tail"
          /\ stage' \in [Consumers -> {"idle", "load tail", "length", "body", "parse", "claim"}]
          /\ \A y \in Consumers \ {x} :
                stage'[y] = stage[y] /\ cur_head'[y] = cur_head[y] /\ read'[y] = read[y]
        BY <1>t, <2>1
    <2>4. QED
        BY <1>t, <2>1, <2>2, <2>3, ReadingKeeps
<1>2. CASE LoadTail(x)
    <2>1. /\ \/ stage' = [stage EXCEPT ![x] = "idle"]
             \/ ~IsEmpty(x) /\ stage' = [stage EXCEPT ![x] = "length"]
          /\ cur_head' = cur_head
          /\ read' = read /\ delivered' = delivered /\ faults' = faults
          /\ UNCHANGED <<ringVars, produceVars>>
        BY <1>2 DEF LoadTail, Consumes
    <2>2. ~IsEmpty(x) => cur_head[x] < tail
        <3> SUFFICES ASSUME ~(cur_head[x] < tail)
                     PROVE  IsEmpty(x)
            OBVIOUS
        <3>1. cur_head[x] = tail
            BY <1>n
        <3>2. Distance(tail, tail) = tail - tail
            BY <1>n, DistanceIsDifference, RingAssumption
        <3>3. QED
            BY <1>n, <3>1, <3>2 DEF IsEmpty
    <2>3. /\ stage'[x] = "idle" \/ (stage'[x] = "length" /\ cur_head[x] < tail)
          /\ stage' \in [Consumers -> {"idle", "load tail", "length", "body", "parse", "claim"}]
          /\ \A y \in Consumers \ {x} :
                stage'[y] = stage[y] /\ cur_head'[y] = cur_head[y] /\ read'[y] = read[y]
        BY <1>t, <2>1, <2>2
    <2>4. QED
        BY <1>t, <2>1, <2>3, ReadingKeeps
<1>i. Index(cur_head[x]) \in 0..Size - 1
    <2>1. cur_head[x] \in Int
        BY <1>n
    <2>2. QED
        BY <2>1, IndexType
<1>3. CASE LoadLength(x)
    <2>1. /\ stage[x] = "length" /\ stage' = [stage EXCEPT ![x] = "body"] /\ cur_head' = cur_head
          /\ read' = [read EXCEPT ![x].length = slot[Index(cur_head[x])].length]
          /\ delivered' = delivered /\ faults' = faults
          /\ UNCHANGED <<ringVars, produceVars>>
        BY <1>3 DEF LoadLength, Consumes
    <2>2. /\ read'[x].length = slot[Index(cur_head[x])].length
          /\ read' \in [Consumers -> [length : Part, body : Part]]
        BY <1>i, <1>t, <2>1
    <2>3. /\ stage'[x] = "body"
          /\ stage' \in [Consumers -> {"idle", "load tail", "length", "body", "parse", "claim"}]
          /\ \A y \in Consumers \ {x} :
                stage'[y] = stage[y] /\ cur_head'[y] = cur_head[y] /\ read'[y] = read[y]
        BY <1>t, <2>1
    <2>4. cur_head[x] < tail
        BY <1>k, <2>1 DEF Reading
    <2>5. QED
        BY <1>t, <2>1, <2>2, <2>3, <2>4, ReadingKeeps
<1>4. CASE LoadBody(x)
    <2>1. /\ stage[x] = "body" /\ stage' = [stage EXCEPT ![x] = "parse"] /\ cur_head' = cur_head
          /\ read' = [read EXCEPT ![x].body = slot[Index(cur_head[x])].body]
          /\ delivered' = delivered /\ faults' = faults
          /\ UNCHANGED <<ringVars, produceVars>>
        BY <1>4 DEF LoadBody, Consumes
    <2>2. /\ read'[x].body = slot[Index(cur_head[x])].body
          /\ read'[x].length = read[x].length
          /\ read' \in [Consumers -> [length : Part, body : Part]]
        BY <1>i, <1>t, <2>1
    <2>3. /\ stage'[x] = "parse"
          /\ stage' \in [Consumers -> {"idle", "load tail", "length", "body", "parse", "claim"}]
          /\ \A y \in Consumers \ {x} :
                stage'[y] = stage[y] /\ cur_head'[y] = cur_head[y] /\ read'[y] = read[y]
        BY <1>t, <2>1
    <2>4. cur_head[x] < tail
        BY <1>k, <2>1 DEF Reading
    <2>5. QED
        BY <1>k, <1>t, <2>1, <2>2, <2>3, <2>4, ReadingKeeps
<1>5. CASE Parsed(x) \/ Unparsed(x)
    <2>1. /\ stage[x] = "parse"
          /\ \E to \in {"claim", "length", "idle"} : stage' = [stage EXCEPT ![x] = to]
          /\ cur_head' = cur_head /\ read' = read /\ delivered' = delivered /\ faults' = faults
          /\ UNCHANGED <<ringVars, produceVars>>
        BY <1>5 DEF Parsed, Unparsed, Consumes
    <2>2. /\ stage'[x] \in {"claim", "length", "idle"}
          /\ stage' \in [Consumers -> {"idle", "load tail", "length", "body", "parse", "claim"}]
          /\ \A y \in Consumers \ {x} :
                stage'[y] = stage[y] /\ cur_head'[y] = cur_head[y] /\ read'[y] = read[y]
        BY <1>t, <2>1
    <2>3. cur_head[x] < tail
        BY <1>k, <2>1 DEF Reading
    <2>4. QED
        BY <1>k, <1>t, <2>1, <2>2, <2>3, ReadingKeeps
<1>6. CASE Claim(x)
    <2>1. /\ stage[x] = "claim" /\ stage' = [stage EXCEPT ![x] = "idle"] /\ cur_head' = cur_head
          /\ read' = [read EXCEPT ![x] = Blank]
          /\ UNCHANGED <<tail, slot, produceVars>> /\ faults' = faults
        BY <1>6 DEF Claim, Return, Consumes
    <2>2. CASE head = cur_head[x]
        <3>1. head' = head + 1 /\ delivered' = [delivered EXCEPT ![read[x].body] = @ + 1]
            BY <1>6, <2>2 DEF Claim, Return
        <3>2. delivered' \in [Configs -> Nat]
            <4>1. read[x].body \in Configs
                BY <2>1, <2>2, ClaimsConfig
            <4>2. \A c \in Configs : [delivered EXCEPT ![c] = @ + 1] \in [Configs -> Nat]
                BY <1>d
            <4>3. QED
                BY <3>1, <4>1, <4>2
        <3>3. stage'[x] = "idle"
            BY <1>t, <2>1
        <3>4. QED
            BY <1>t, <2>1, <2>2, <3>1, <3>2, <3>3, HeadKeeps
    <2>3. CASE head # cur_head[x]
        <3>1. head' = head /\ delivered' = delivered /\ UNCHANGED <<ringVars, produceVars>>
            BY <1>6, <2>1, <2>3 DEF Claim, ringVars
        <3>2. /\ stage'[x] = "idle"
              /\ stage' \in [Consumers -> {"idle", "load tail", "length", "body", "parse", "claim"}]
              /\ \A y \in Consumers \ {x} :
                    stage'[y] = stage[y] /\ cur_head'[y] = cur_head[y] /\ read'[y] = read[y]
            BY <1>t, <2>1
        <3>3. QED
            BY <1>b, <1>t, <2>1, <3>1, <3>2, ReadingKeeps
    <2>4. QED
        BY <2>2, <2>3
<1>7. CASE ConsumeFault(x)
    <2>1. /\ \/ stage' = [stage EXCEPT ![x] = "idle"]
             \/ stage[x] \in {"length", "body"} /\ stage' = [stage EXCEPT ![x] = "length"]
          /\ read' = [read EXCEPT ![x] = Blank] /\ faults' \in 0..MaxFaults
          /\ UNCHANGED <<produceVars, cur_head, delivered, tail, slot>>
          /\ \/ UNCHANGED head
             \/ stage[x] = "claim" /\ head = cur_head[x] /\ head' = head + 1
        <3>1. faults' \in 0..MaxFaults
            <4>1. faults < MaxFaults /\ faults' = faults + 1
                BY <1>7 DEF ConsumeFault
            <4>2. QED
                BY <1>f, <4>1
        <3>2. QED
            BY <1>7, <3>1 DEF ConsumeFault
    <2>2. /\ stage'[x] = "idle" \/ (Reading(x) /\ stage'[x] = "length")
          /\ stage' \in [Consumers -> {"idle", "load tail", "length", "body", "parse", "claim"}]
          /\ \A y \in Consumers \ {x} :
                stage'[y] = stage[y] /\ cur_head'[y] = cur_head[y] /\ read'[y] = read[y]
        BY <1>t, <2>1 DEF Reading
    <2>3. CASE UNCHANGED head
        <3>1. UNCHANGED <<ringVars, produceVars>>
            BY <2>1, <2>3 DEF ringVars
        <3>2. cur_head' = cur_head /\ delivered' = delivered
            BY <2>1
        <3>3. QED
            BY <1>b, <1>k, <1>t, <2>1, <2>2, <3>1, <3>2, ReadingKeeps
    <2>4. CASE stage[x] = "claim" /\ head = cur_head[x] /\ head' = head + 1
        <3>1. stage' = [stage EXCEPT ![x] = "idle"] /\ stage'[x] = "idle"
            BY <1>t, <2>1, <2>4
        <3>2. QED
            BY <1>t, <2>1, <2>4, <3>1, HeadKeeps
    <2>5. QED
        BY <2>1, <2>3, <2>4
<1>8. QED
    BY <1>1, <1>2, <1>3, <1>4, <1>5, <1>6, <1>7 DEF ConsumeStep

(***************************************************************************)
(* The theorems.                                                           *)
(***************************************************************************)

\* The invariant holds in an empty ring.
LEMMA InvInit == OneProducer /\ Init => Inv
<1> SUFFICES ASSUME OneProducer, Init
             PROVE  Inv
    OBVIOUS
<1>1. RingTypeOK
    BY RingAssumption DEF Init, RingTypeOK, Blank, Part
<1>2. PublishedIsWritten
    BY RingAssumption DEF Init, PublishedIsWritten
<1>3. ProducerKnows /\ ConsumerKnows
    BY DEF Init, ProducerKnows, ConsumerKnows, Reading
<1>4. QED
    BY <1>1, <1>2, <1>3 DEF Inv

\* Every step keeps the invariant.
LEMMA InvStep == Inv /\ [Next]_vars => Inv'
<1> SUFFICES ASSUME Inv, [Next]_vars
             PROVE  Inv'
    OBVIOUS
<1>1. ASSUME NEW p \in Producers, Take(p) \/ ProduceStep(p) \/ ProduceFault(p)
      PROVE  Inv'
    BY <1>1, ProduceKeeps
<1>2. ASSUME NEW x \in Consumers, ConsumeStep(x) \/ ConsumeFault(x)
      PROVE  Inv'
    BY <1>2, ConsumeKeeps
<1>3. CASE UNCHANGED vars
    BY <1>3 DEF vars, ringVars, produceVars, consumeVars, Inv, OneProducer, RingTypeOK,
       PublishedIsWritten, ProducerKnows, ConsumerKnows, Reading
<1>4. QED
    BY <1>1, <1>2, <1>3 DEF Next

\* The invariant, which the theorems below follow from, for rings with one
\* producer.
THEOREM InvAlways == OneProducer /\ Safety => []Inv
<1>1. QED
    BY InvInit, InvStep, PTL DEF Safety

\* Type correctness: with it, that nobody holds a count the shared counters
\* have not reached.
THEOREM RingTypeCorrect == OneProducer /\ Safety => []RingTypeOK
<1>1. Inv => RingTypeOK
    BY DEF Inv
<1>2. QED
    BY <1>1, InvAlways, PTL

\* With one producer, all slots between head and tail hold whole configs, and
\* there are never more of them than slots, also when produce fails anywhere,
\* is repeated, or has published without knowing it.
THEOREM PublishedAlwaysWritten == OneProducer /\ Safety => []PublishedIsWritten
<1>1. Inv => PublishedIsWritten
    BY DEF Inv
<1>2. QED
    BY <1>1, InvAlways, PTL

\* A consumer whose compare-and-swap is going to succeed holds the config that
\* is in the slot, though it read it in parts and without a lock: the head is
\* the only thing it has to check.
THEOREM ClaimAlwaysFresh == OneProducer /\ Safety => []ClaimIsFresh
<1>1. Inv => ClaimIsFresh
    BY ClaimsConfig DEF ClaimIsFresh
<1>2. QED
    BY <1>1, InvAlways, PTL

(***************************************************************************)
(* The refinement of FifoQueue.                                            *)
(***************************************************************************)

\* The bodies of the published slots, the queue of the refinement mapping.
Queue == [n \in 1..(tail - head) |-> slot[Index(head + n - 1)].body]

IsQueue ==
    /\ Queue \in Seq(Configs) /\ Len(Queue) = tail - head
    /\ \A n \in 1..(tail - head) : Queue[n] = slot[Index(head + n - 1)].body

\* The queue of the refinement mapping is a sequence of configs.
LEMMA QueueType == Inv => IsQueue
<1> SUFFICES ASSUME Inv
             PROVE  IsQueue
    OBVIOUS
<1>n. head \in Nat /\ tail \in Nat /\ head <= tail
    BY Numbers
<1>1. ASSUME NEW n \in 1..(tail - head)
      PROVE  slot[Index(head + n - 1)].body \in Configs
    <2>1. head + n - 1 \in head..tail - 1 /\ head + n - 1 \in Int
        BY <1>n
    <2>2. /\ slot[Index(head + n - 1)].length # NoConfig
          /\ slot[Index(head + n - 1)].length = slot[Index(head + n - 1)].body
        BY <2>1 DEF Inv, PublishedIsWritten
    <2>3. Index(head + n - 1) \in 0..Size - 1
        BY <2>1, IndexType
    <2>4. slot[Index(head + n - 1)] \in [length : Part, body : Part]
        BY <2>3 DEF Inv, RingTypeOK
    <2>5. QED
        BY <2>2, <2>4 DEF Part
<1>2. Queue \in [1..(tail - head) -> Configs]
    BY <1>1 DEF Queue
<1>3. tail - head \in Nat
    BY <1>n
<1>4. Queue \in Seq(Configs)
    BY <1>2, <1>3, SeqDef
<1>5. Len(Queue) = tail - head
    <2>1. DOMAIN Queue = 1..(tail - head)
        BY <1>2
    <2>2. Len(Queue) \in Nat /\ DOMAIN Queue = 1..Len(Queue)
        BY <1>4, LenProperties
    <2>3. QED
        BY <1>3, <2>1, <2>2
<1>6. QED
    BY <1>4, <1>5 DEF IsQueue, Queue

\* What a step does to the ring and to what was delivered: nothing to the
\* published slots, or it publishes one, or it takes one away.
Keeps ==
    /\ head' = head /\ tail' = tail /\ delivered' = delivered
    /\ \A n \in head..tail - 1 : slot'[Index(n)] = slot[Index(n)]
Publishes ==
    /\ head' = head /\ tail' = tail + 1 /\ slot' = slot /\ delivered' = delivered
    /\ slot[Index(tail)].body \in Configs /\ tail - head < Size
TakesAway ==
    /\ head' = head + 1 /\ tail' = tail /\ slot' = slot /\ head < tail
    /\ \/ delivered' = [delivered EXCEPT ![slot[Index(head)].body] = @ + 1]
       \/ LostAcks /\ delivered' = delivered

\* The producer's writes do not touch published slots.
LEMMA WriteIsKept ==
    ASSUME Inv, NEW p \in Producers, at[p] \in {"zero", "body", "length"},
           NEW s, slot' = [slot EXCEPT ![Index(old_tail[p])] = s],
           head' = head, tail' = tail, delivered' = delivered
    PROVE  Keeps
<1>n. head \in Nat /\ tail \in Nat /\ head <= tail /\ Size \in Nat \ {0}
    BY Numbers
<1>1. old_tail[p] = tail /\ tail - head < Size
    BY DEF Inv, ProducerKnows
<1>2. ASSUME NEW n \in head..tail - 1
      PROVE  slot'[Index(n)] = slot[Index(n)]
    <2>1. n \in Nat /\ n < tail /\ tail - n < Size
        BY <1>1, <1>n
    <2>2. Index(n) # Index(tail) /\ Index(n) \in 0..Size - 1
        BY <1>n, <2>1, IndexDiffers, IndexType
    <2>3. QED
        BY <1>1, <2>2 DEF Inv, RingTypeOK
<1>3. QED
    BY <1>2 DEF Keeps

\* There are no other effects.
LEMMA StepEffect ==
    ASSUME Inv, [Next]_vars
    PROVE  Keeps \/ Publishes \/ TakesAway
<1>0. UNCHANGED ringVars /\ delivered' = delivered => Keeps
    BY DEF ringVars, Keeps
<1>1. ASSUME NEW p \in Producers, at[p] = "publish", tail' = tail + 1, head' = head,
             slot' = slot, delivered' = delivered
      PROVE  Publishes
    BY <1>1 DEF Inv, ProducerKnows, Publishes
<1>2. ASSUME NEW p \in Producers, Take(p) \/ ProduceStep(p) \/ ProduceFault(p)
      PROVE  Keeps \/ Publishes
    <2>1. CASE Take(p) \/ ReadTail(p) \/ ReadHead(p) \/ RaiseFull(p)
        BY <1>0, <2>1 DEF Take, ReadTail, ReadHead, RaiseFull, Produces, Raise, consumeVars
    <2>2. CASE Zero(p)
        BY <2>2, WriteIsKept DEF Zero, Produces, consumeVars
    <2>3. CASE Body(p)
        BY <2>3, WriteIsKept DEF Body, Produces, consumeVars
    <2>4. CASE Length(p)
        BY <2>4, WriteIsKept DEF Length, Produces, consumeVars
    <2>5. CASE Publish(p)
        BY <1>1, <2>5 DEF Publish, Produces, consumeVars
    <2>6. CASE ProduceFault(p)
        BY <1>0, <1>1, <2>6 DEF ProduceFault, Raise, consumeVars
    <2>7. QED
        BY <1>2, <2>1, <2>2, <2>3, <2>4, <2>5, <2>6 DEF ProduceStep
<1>3. ASSUME NEW x \in Consumers, ConsumeStep(x) \/ ConsumeFault(x)
      PROVE  Keeps \/ TakesAway
    <2>1. CASE LoadHead(x) \/ LoadTail(x) \/ LoadLength(x) \/ LoadBody(x) \/ Parsed(x) \/ Unparsed(x)
        BY <1>0, <2>1 DEF LoadHead, LoadTail, LoadLength, LoadBody, Parsed, Unparsed
    <2>2. CASE Claim(x)
        <3>1. CASE head = cur_head[x]
            <4>1. /\ stage[x] = "claim" /\ head' = head + 1 /\ tail' = tail /\ slot' = slot
                  /\ delivered' = [delivered EXCEPT ![read[x].body] = @ + 1]
                BY <2>2, <3>1 DEF Claim, Consumes, Return
            <4>2. head < tail /\ read[x].body = slot[Index(head)].body
                BY <3>1, <4>1, ClaimsConfig
            <4>3. QED
                BY <4>1, <4>2 DEF TakesAway
        <3>2. CASE head # cur_head[x]
            BY <1>0, <2>2, <3>2 DEF Claim, ringVars
        <3>3. QED
            BY <3>1, <3>2
    <2>3. CASE ConsumeFault(x)
        <3>1. CASE head' = head
            BY <1>0, <2>3, <3>1 DEF ConsumeFault, ringVars
        <3>2. CASE head' # head
            <4>1. /\ LostAcks /\ stage[x] = "claim" /\ head = cur_head[x] /\ head' = head + 1
                  /\ tail' = tail /\ slot' = slot /\ delivered' = delivered
                BY <2>3, <3>2 DEF ConsumeFault
            <4>2. head < tail
                BY <4>1, ClaimsConfig
            <4>3. QED
                BY <4>1, <4>2 DEF TakesAway
        <3>3. QED
            BY <3>1, <3>2
    <2>4. QED
        BY <1>3, <2>1, <2>2, <2>3 DEF ConsumeStep
<1>4. CASE UNCHANGED vars
    BY <1>0, <1>4 DEF vars, consumeVars
<1>5. QED
    BY <1>2, <1>3, <1>4 DEF Next

\* The same in terms of the queue.
LEMMA KeepsQueue ==
    ASSUME Inv, Keeps
    PROVE  Queue' = Queue
<1>n. head \in Nat /\ tail \in Nat /\ head <= tail
    BY Numbers
<1>1. \A n \in 1..(tail - head) : slot'[Index(head + n - 1)].body = slot[Index(head + n - 1)].body
    <2> SUFFICES ASSUME NEW n \in 1..(tail - head)
                 PROVE  slot'[Index(head + n - 1)].body = slot[Index(head + n - 1)].body
        OBVIOUS
    <2>1. head + n - 1 \in head..tail - 1
        BY <1>n
    <2>2. QED
        BY <2>1 DEF Keeps
<1>2. QED
    BY <1>1 DEF Keeps, Queue

\* Publishing a slot appends its config to the queue.
LEMMA PublishesAppends ==
    ASSUME Inv, Inv', Publishes
    PROVE  Queue' = Append(Queue, slot[Index(tail)].body)
<1> DEFINE c == slot[Index(tail)].body
           q == Queue
           r == Queue'
<1>n. head \in Nat /\ tail \in Nat /\ head <= tail
    BY Numbers
<1>1. /\ q \in Seq(Configs) /\ Len(q) = tail - head
      /\ \A n \in 1..(tail - head) : q[n] = slot[Index(head + n - 1)].body
    BY QueueType DEF IsQueue
<1>q. IsQueue'
    BY QueueType, PTL
<1>2. /\ r \in Seq(Configs) /\ Len(r) = tail' - head'
      /\ \A n \in 1..(tail' - head') : r[n] = slot'[Index(head' + n - 1)].body
    BY <1>q DEF IsQueue
<1>3. /\ c \in Configs /\ head' = head /\ tail' = tail + 1 /\ slot' = slot
    BY DEF Publishes
<1> HIDE DEF c, q, r
<1>4. /\ Append(q, c) \in Seq(Configs) /\ Len(Append(q, c)) = Len(q) + 1
      /\ \A i \in 1..Len(q) : Append(q, c)[i] = q[i]
      /\ Append(q, c)[Len(q) + 1] = c
    BY <1>1, <1>3, AppendProperties
<1>5. Len(r) = Len(Append(q, c)) /\ Len(r) = tail - head + 1 /\ tail - head \in Nat
    BY <1>1, <1>2, <1>3, <1>4, <1>n
<1>6. ASSUME NEW i \in 1..Len(r)
      PROVE  r[i] = Append(q, c)[i]
    <2>1. r[i] = slot[Index(head + i - 1)].body
        BY <1>2, <1>3
    <2>2. CASE i = tail - head + 1
        <3>1. head + i - 1 = tail
            BY <1>n, <2>2
        <3>2. QED
            BY <1>1, <1>4, <2>1, <2>2, <3>1 DEF c
    <2>3. CASE i # tail - head + 1
        <3>1. i \in 1..(tail - head)
            BY <1>5, <2>3
        <3>2. QED
            BY <1>1, <1>4, <2>1, <3>1
    <2>4. QED
        BY <2>2, <2>3
<1>7. r = Append(q, c)
    BY <1>2, <1>4, <1>5, <1>6, SeqEqual
<1>8. QED
    BY <1>7 DEF c, q, r

\* Advancing the head takes the front of the queue.
LEMMA TakesAwayFront ==
    ASSUME Inv, Inv', TakesAway
    PROVE  Queue # <<>> /\ Queue' = Tail(Queue) /\ Head(Queue) = slot[Index(head)].body
<1> DEFINE q == Queue
           r == Queue'
<1>n. head \in Nat /\ tail \in Nat /\ head <= tail
    BY Numbers
<1>1. /\ q \in Seq(Configs) /\ Len(q) = tail - head
      /\ \A n \in 1..(tail - head) : q[n] = slot[Index(head + n - 1)].body
    BY QueueType DEF IsQueue
<1>q. IsQueue'
    BY QueueType, PTL
<1>2. /\ r \in Seq(Configs) /\ Len(r) = tail' - head'
      /\ \A n \in 1..(tail' - head') : r[n] = slot'[Index(head' + n - 1)].body
    BY <1>q DEF IsQueue
<1>3. head' = head + 1 /\ tail' = tail /\ slot' = slot /\ head < tail
    BY DEF TakesAway
<1> HIDE DEF q, r
<1>4. q # <<>>
    BY <1>1, <1>3, <1>n
<1>5. /\ Tail(q) \in Seq(Configs) /\ Len(Tail(q)) = Len(q) - 1
      /\ \A i \in 1..Len(Tail(q)) : Tail(q)[i] = q[i + 1]
    BY <1>1, <1>4, HeadTailProperties
<1>6. Head(q) = slot[Index(head)].body
    <2>1. Head(q) = q[1]
        BY <1>1, <1>4
    <2>2. 1 \in 1..(tail - head) /\ head + 1 - 1 = head
        BY <1>3, <1>n
    <2>3. q[1] = slot[Index(head + 1 - 1)].body
        BY <1>1, <2>2
    <2>4. QED
        BY <2>1, <2>2, <2>3
<1>7. Len(r) = Len(Tail(q)) /\ Len(r) = tail - head - 1
    BY <1>1, <1>2, <1>3, <1>5, <1>n
<1>8. ASSUME NEW i \in 1..Len(r)
      PROVE  r[i] = Tail(q)[i]
    <2>1. r[i] = slot[Index(head + 1 + i - 1)].body
        BY <1>2, <1>3
    <2>2. i + 1 \in 1..(tail - head) /\ head + 1 + i - 1 = head + (i + 1) - 1
        BY <1>7, <1>n
    <2>3. q[i + 1] = slot[Index(head + (i + 1) - 1)].body
        BY <1>1, <2>2
    <2>4. QED
        BY <1>5, <1>7, <2>1, <2>2, <2>3
<1>9. r = Tail(q)
    BY <1>2, <1>5, <1>7, <1>8, SeqEqual
<1>10. QED
    BY <1>4, <1>6, <1>9 DEF q, r

\* The empty ring is the empty queue.
LEMMA RefinesInit == OneProducer /\ Init => Fifo!Init
<1> SUFFICES ASSUME OneProducer, Init
             PROVE  Fifo!Init
    OBVIOUS
<1>1. Inv
    BY InvInit
<1>2. Queue \in Seq(Configs) /\ Len(Queue) = 0
    BY <1>1, QueueType DEF Init, IsQueue
<1>3. Queue = <<>>
    BY <1>2, EmptySeq
<1>4. QED
    BY <1>3 DEF Init, Fifo!Init, Queue

\* Every step of the ring is one of the queue, or leaves it alone.
LEMMA RefinesStep == Inv /\ Inv' /\ [Next]_vars => [Fifo!Next]_(Fifo!queueVars)
<1> SUFFICES ASSUME Inv, Inv', [Next]_vars
             PROVE  [Fifo!Next]_(Fifo!queueVars)
    OBVIOUS
<1>1. CASE Keeps
    <2>1. Queue' = Queue /\ delivered' = delivered
        BY <1>1, KeepsQueue DEF Keeps
    <2>2. QED
        BY <2>1 DEF Queue, Fifo!queueVars
<1>2. CASE Publishes
    <2> DEFINE c == slot[Index(tail)].body
    <2>1. Queue' = Append(Queue, c) /\ c \in Configs /\ delivered' = delivered
        BY <1>2, PublishesAppends DEF Publishes
    <2>2. Len(Queue) < Size
        BY <1>2, QueueType DEF Publishes, IsQueue
    <2> HIDE DEF c
    <2>3. Fifo!Enqueue(c)
        BY <2>1, <2>2 DEF Queue, Fifo!Enqueue
    <2>4. QED
        BY <2>1, <2>3 DEF Fifo!Next
<1>3. CASE TakesAway
    <2>1. Queue # <<>> /\ Queue' = Tail(Queue) /\ Head(Queue) = slot[Index(head)].body
        BY <1>3, TakesAwayFront
    <2>2. CASE delivered' = [delivered EXCEPT ![slot[Index(head)].body] = @ + 1]
        <3>1. delivered' = [delivered EXCEPT ![Head(Queue)] = @ + 1]
            BY <2>1, <2>2
        <3>2. Fifo!Dequeue
            BY <2>1, <3>1 DEF Queue, Fifo!Dequeue
        <3>3. QED
            BY <3>2 DEF Fifo!Next
    <2>3. CASE LostAcks /\ delivered' = delivered
        <3>1. Fifo!Lose
            BY <2>1, <2>3 DEF Queue, Fifo!Lose
        <3>2. QED
            BY <3>1 DEF Fifo!Next
    <2>4. QED
        BY <1>3, <2>2, <2>3 DEF TakesAway
<1>4. QED
    BY <1>1, <1>2, <1>3, StepEffect

\* With one producer the ring is a first-in first-out queue: for any number of
\* consumers racing for the head, every published config is handed out in
\* order and once, except that one is lost when the acknowledgement of a
\* compare-and-swap is.
THEOREM RingIsFifo == OneProducer /\ Safety => ImplementsFifo
<1>1. QED
    BY InvAlways, RefinesInit, RefinesStep, PTL DEF Safety, ImplementsFifo, Fifo!Spec

=============================================================================
