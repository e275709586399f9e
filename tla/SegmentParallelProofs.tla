----------------------- MODULE SegmentParallelProofs -----------------------
(***************************************************************************)
(* Theorems about SegmentParallel: the plan of the segments for videos of  *)
(* any length; what a rank leaves behind when a request ends; that the     *)
(* ranks meet; that every tail is taken by the rank it is for; and what a  *)
(* video that is reported as done stands for.  For any number of ranks,    *)
(* segments, requests and failures, and with either transport.             *)
(***************************************************************************)
EXTENDS SegmentParallel, WorkerGroupProofs, FiniteSetTheorems, WellFoundedInduction

(***************************************************************************)
(* The plan.                                                               *)
(***************************************************************************)

LEMMA MinIs ==
    ASSUME NEW S \in SUBSET Int, NEW c \in S, \A y \in S : c <= y
    PROVE  Min(S) = c
  <1>1. \A x \in S : (\A y \in S : x <= y) => x = c OBVIOUS
  <1> QED BY <1>1 DEF Min

LEMMA OfTwo ==
    ASSUME NEW a \in Int, NEW b \in Int, a <= b
    PROVE  Min({a, b}) = a /\ Min({b, a}) = a /\ Max({a, b}) = b /\ Max({b, a}) = b
  <1>1. {a, b} \in SUBSET Int /\ {b, a} = {a, b} OBVIOUS
  <1>2. Min({a, b}) = a BY <1>1, MinIs
  <1>3. \A x \in {a, b} : (\A y \in {a, b} : x >= y) => x = b OBVIOUS
  <1>4. Max({a, b}) = b BY <1>3 DEF Max
  <1> QED BY <1>1, <1>2, <1>4

\* Two multiples of one number.
LEMMA Multiples ==
    ASSUME NEW i \in Int, NEW j \in Int, NEW e \in Nat \ {0}
    PROVE  /\ i <= j => i * e <= j * e
           /\ i * e < j * e => i < j
           /\ i * e \in Int /\ (i + 1) * e = i * e + e
  OBVIOUS

\* A division that is rounded up.
LEMMA CeilFacts ==
    ASSUME NEW a \in Nat \ {0}, NEW b \in Nat \ {0}
    PROVE  /\ Ceil(a, b) \in Nat \ {0}
           /\ a <= Ceil(a, b) * b
           /\ (Ceil(a, b) - 1) * b < a
  <1> DEFINE q == (a + b - 1) \div b
  <1>1. /\ q \in Int /\ b * q <= a + b - 1 /\ a + b - 1 < b * q + b
    <2> DEFINE m == a + b - 1
    <2>1. m \in Int OBVIOUS
    <2> HIDE DEF m
    <2>2. /\ m \div b \in Int /\ b * (m \div b) <= m /\ m < b * (m \div b) + b BY <2>1
    <2> QED BY <2>2 DEF m
  <1>2. Ceil(a, b) = q BY DEF Ceil
  <1> HIDE DEF q
  <1>3. q * b = b * q /\ (q - 1) * b = b * q - b BY <1>1
  <1>4. a <= q * b /\ (q - 1) * b < a BY <1>1, <1>3
  <1>5. q > 0
    <2>1. q <= 0 => q * b <= 0 * b BY <1>1, Multiples
    <2> QED BY <1>1, <1>4, <2>1
  <1> QED BY <1>1, <1>2, <1>4, <1>5

\* Adding a multiple of the divisor.
LEMMA CeilShift ==
    ASSUME NEW a \in Nat \ {0}, NEW b \in Nat \ {0}, NEW k \in Nat
    PROVE  Ceil(a + b * k, b) = Ceil(a, b) + k
  <1> DEFINE p == Ceil(a + b * k, b)
             q == Ceil(a, b)
  <1>1. b * k \in Nat /\ a + b * k \in Nat \ {0} OBVIOUS
  <1>2. p \in Nat \ {0} /\ a + b * k <= p * b /\ (p - 1) * b < a + b * k BY <1>1, CeilFacts
  <1>3. q \in Nat \ {0} /\ a <= q * b /\ (q - 1) * b < a BY CeilFacts
  <1> HIDE DEF p, q
  <1>4. /\ (p - k) * b = p * b - b * k /\ (p - 1 - k) * b = (p - 1) * b - b * k
    BY <1>2
  <1>5. (q - 1) * b < (p - k) * b /\ (p - 1 - k) * b < q * b BY <1>1, <1>2, <1>3, <1>4
  <1>6. q - 1 < p - k BY <1>2, <1>3, <1>5
  <1>7. p - 1 - k < q BY <1>2, <1>3, <1>5
  <1> QED BY <1>2, <1>3, <1>6, <1>7 DEF p, q

\* A video that is longer than one segment: `stride` frames of each segment are
\* its own, and the segments are as many as it takes.
LEMMA PlanOfLong ==
    ASSUME NEW total \in Nat \ {0}, NEW len \in Nat \ {0}, NEW overlap \in 0..len - 1, total > len
    PROVE  \E stride \in 1..len - overlap :
               LET count == Ceil(total - overlap, stride)
               IN  /\ BalancedLen(total, len, overlap) = stride + overlap
                   /\ SegmentCount(total, len, overlap) = count
                   /\ count <= NumSegments(total, len, overlap)
  <1> DEFINE T == total - overlap
             d == len - overlap
             n == NumSegments(total, len, overlap)
             e == Ceil(T, n)
             c == Ceil(T, e)
  <1>1. T \in Nat \ {0} /\ d \in Nat \ {0} /\ T > d OBVIOUS
  <1>2. /\ n = Ceil(T, d) BY DEF NumSegments
  <1>3. /\ n \in Nat \ {0} /\ T <= n * d /\ (n - 1) * d < T BY <1>1, <1>2, CeilFacts
  <1> HIDE DEF n
  <1>4. /\ e \in Nat \ {0} /\ T <= e * n /\ (e - 1) * n < T BY <1>1, <1>3, CeilFacts
  <1> HIDE DEF e
  <1>5. e <= d
    <2>1. (e - 1) * n < d * n BY <1>3, <1>4
    <2>2. e - 1 < d BY <1>1, <1>3, <1>4, <2>1, Multiples
    <2> QED BY <1>1, <1>4, <2>2
  <1>6. BalancedLen(total, len, overlap) = e + overlap
    <2>1. n * overlap \in Nat /\ total + (n - 1) * overlap = T + n * overlap BY <1>3
    <2>2. Ceil(total + (n - 1) * overlap, n) = e + overlap
      BY <1>1, <1>3, <2>1, CeilShift DEF e
    <2>3. Max({e + overlap, overlap + 1}) = e + overlap
      <3>1. e + overlap \in Int /\ overlap + 1 \in Int /\ overlap + 1 <= e + overlap BY <1>4
      <3> QED BY <3>1, OfTwo
    <2>4. Min({e + overlap, len}) = e + overlap BY <1>4, <1>5, OfTwo
    <2> QED BY <2>2, <2>3, <2>4 DEF BalancedLen, n
  <1>7. /\ c \in Nat \ {0} /\ T <= c * e /\ (c - 1) * e < T BY <1>1, <1>4, CeilFacts
  <1> HIDE DEF c
  <1>8. c <= n
    <2>1. (c - 1) * e < n * e BY <1>1, <1>3, <1>4, <1>7
    <2>2. c - 1 < n BY <1>3, <1>4, <1>7, <2>1, Multiples
    <2> QED BY <1>3, <1>7, <2>2
  <1>9. c <= total
    <2>1. c - 1 <= (c - 1) * e
      <3>1. ASSUME NEW k \in Nat PROVE k <= k * e
        <4>1. k * e = e * k /\ 1 * k = k BY <1>4
        <4>2. k # 0 => 1 * k <= e * k BY <1>4, Multiples
        <4>3. k = 0 => k * e = 0 BY <1>4
        <4>4. k * e \in Int BY <1>4
        <4> QED BY <4>1, <4>2, <4>3, <4>4
      <3> QED BY <1>7, <3>1
    <2>2. (c - 1) * e \in Int /\ (c - 1) * e < total - overlap BY <1>4, <1>7
    <2> QED BY <1>7, <2>1, <2>2
  <1>10. ASSUME NEW m \in 1..total
         PROVE  SegmentEnd(total, len, overlap, m - 1) >= total <=> T <= m * e
    <2>1. SegmentStart(total, len, overlap, m - 1) = (m - 1) * e
      BY <1>4, <1>6 DEF SegmentStart
    <2>2. (m - 1) * e \in Int /\ m * e = (m - 1) * e + e /\ m * e \in Int
      BY <1>4
    <2>3. SegmentEnd(total, len, overlap, m - 1) = Min({m * e + overlap, total})
      <3>1. ~(total <= len) OBVIOUS
      <3>2. (m - 1) * e + (e + overlap) = m * e + overlap BY <1>4, <2>2
      <3> QED BY <1>6, <2>1, <3>1, <3>2 DEF SegmentEnd
    <2>4. CASE m * e + overlap <= total
      <3>1. Min({m * e + overlap, total}) = m * e + overlap BY <2>2, <2>4, OfTwo
      <3> QED BY <2>2, <2>3, <2>4, <3>1
    <2>5. CASE m * e + overlap > total
      <3>1. Min({m * e + overlap, total}) = total BY <2>2, <2>5, OfTwo
      <3> QED BY <2>2, <2>3, <2>5, <3>1
    <2> QED BY <2>2, <2>4, <2>5
  <1>11. SegmentCount(total, len, overlap) = c
    <2> DEFINE S == {m \in 1..total : SegmentEnd(total, len, overlap, m - 1) >= total}
    <2>1. c \in S BY <1>7, <1>9, <1>10
    <2>2. ASSUME NEW m \in S PROVE c <= m
      <3>1. m \in 1..total /\ T <= m * e BY <1>10
      <3>2. (c - 1) * e < m * e BY <1>1, <1>4, <1>7, <3>1
      <3>3. c - 1 < m BY <1>4, <1>7, <3>1, <3>2, Multiples
      <3> QED BY <1>7, <3>1, <3>3
    <2>3. S \in SUBSET Int OBVIOUS
    <2> HIDE DEF S
    <2>4. Min(S) = c BY <2>1, <2>2, <2>3, MinIs
    <2> QED BY <2>4 DEF SegmentCount, S
  <1>12. e \in 1..len - overlap BY <1>4, <1>5
  <1> QED BY <1>6, <1>8, <1>11, <1>12 DEF c, n

\* What the segments of such a video are.
LEMMA LongCovers ==
    ASSUME NEW total \in Nat \ {0}, NEW len \in Nat \ {0}, NEW overlap \in 0..len - 1, total > len
    PROVE  LET count == SegmentCount(total, len, overlap)
               start(i) == SegmentStart(total, len, overlap, i)
               end(i) == SegmentEnd(total, len, overlap, i)
           IN  /\ start(0) = 0 /\ end(count - 1) = total
               /\ \A i \in 0..count - 1 : end(i) - start(i) \in 1..len
               /\ \A i \in 1..count - 1 :
                   /\ end(i - 1) - start(i) = overlap
                   /\ end(i) - start(i) > overlap
               /\ total > len => count <= NumSegments(total, len, overlap)
  <1> DEFINE T == total - overlap
             count == SegmentCount(total, len, overlap)
             start(i) == SegmentStart(total, len, overlap, i)
             end(i) == SegmentEnd(total, len, overlap, i)
  <1>1. PICK e \in 1..len - overlap :
            /\ BalancedLen(total, len, overlap) = e + overlap
            /\ count = Ceil(T, e)
            /\ count <= NumSegments(total, len, overlap)
    BY PlanOfLong
  <1>2. e \in Nat \ {0} /\ T \in Nat \ {0} BY <1>1
  <1>3. /\ count \in Nat \ {0} /\ T <= count * e /\ (count - 1) * e < T
    BY <1>1, <1>2, CeilFacts
  <1>4. ASSUME NEW i \in Nat
        PROVE  /\ start(i) = i * e /\ i * e \in Nat
               /\ end(i) = IF T <= i * e + e THEN total ELSE i * e + e + overlap
    <2>1. ~(total <= len) OBVIOUS
    <2>2. start(i) = i * e /\ i * e \in Nat BY <1>1, <1>2, <2>1 DEF SegmentStart
    <2>3. end(i) = Min({i * e + (e + overlap), total}) BY <1>1, <2>1, <2>2 DEF SegmentEnd
    <2>4. i * e + (e + overlap) = i * e + e + overlap BY <1>2, <2>2
    <2>5. CASE T <= i * e + e
      <3>1. total <= i * e + (e + overlap) BY <1>2, <2>2, <2>5
      <3>2. Min({i * e + (e + overlap), total}) = total BY <1>2, <2>2, <3>1, OfTwo
      <3> QED BY <2>2, <2>3, <2>5, <3>2
    <2>6. CASE ~(T <= i * e + e)
      <3>1. i * e + (e + overlap) <= total BY <1>2, <2>2, <2>6
      <3>2. Min({i * e + (e + overlap), total}) = i * e + (e + overlap) BY <1>2, <2>2, <3>1, OfTwo
      <3> QED BY <2>2, <2>3, <2>4, <2>6, <3>2
    <2> QED BY <2>5, <2>6
  <1> HIDE DEF count, start, end
  <1>5. start(0) = 0 BY <1>2, <1>4
  <1>6. end(count - 1) = total
    <2>1. count - 1 \in Nat /\ (count - 1) * e + e = count * e BY <1>2, <1>3
    <2> QED BY <1>3, <1>4, <2>1
  <1>7. ASSUME NEW i \in 0..count - 1
        PROVE  i * e \in Nat /\ i * e < T
    <2>1. i \in Int /\ count - 1 \in Int /\ i <= count - 1 BY <1>3
    <2>2. i * e <= (count - 1) * e BY <1>2, <2>1, Multiples
    <2> QED BY <1>2, <1>3, <1>4, <2>1, <2>2
  <1>8. ASSUME NEW i \in 0..count - 1
        PROVE  end(i) - start(i) \in 1..len /\ end(i) - start(i) > overlap
    <2>1. i \in Nat /\ i * e \in Nat /\ i * e < T BY <1>3, <1>7
    <2>2. start(i) = i * e /\ end(i) = IF T <= i * e + e THEN total ELSE i * e + e + overlap
      BY <1>4, <2>1
    <2> QED BY <1>1, <1>2, <2>1, <2>2
  <1>9. ASSUME NEW i \in 1..count - 1
        PROVE  end(i - 1) - start(i) = overlap
    <2>1. i \in Nat /\ i - 1 \in Nat /\ i \in 0..count - 1 /\ i * e < T /\ i * e \in Nat BY <1>3, <1>7
    <2>2. (i - 1) * e + e = i * e BY <1>2, <2>1
    <2>3. end(i - 1) = i * e + overlap BY <1>2, <1>4, <2>1, <2>2
    <2> QED BY <1>4, <2>1, <2>3
  <1> QED BY <1>1, <1>5, <1>6, <1>8, <1>9 DEF count, start, end

\* A video that fits into one segment is one.
LEMMA ShortCovers ==
    ASSUME NEW total \in Nat \ {0}, NEW len \in Nat \ {0}, NEW overlap \in 0..len - 1, total <= len
    PROVE  /\ SegmentCount(total, len, overlap) = 1
           /\ SegmentStart(total, len, overlap, 0) = 0
           /\ SegmentEnd(total, len, overlap, 0) = total
  <1> DEFINE S == {n \in 1..total : SegmentEnd(total, len, overlap, n - 1) >= total}
  <1>1. \A n \in 1..total : SegmentEnd(total, len, overlap, n - 1) = total BY DEF SegmentEnd
  <1>2. 1 \in S /\ S \in SUBSET Int /\ \A n \in S : 1 <= n BY <1>1
  <1> HIDE DEF S
  <1>3. Min(S) = 1 BY <1>2, MinIs
  <1> QED BY <1>3 DEF SegmentCount, SegmentStart, SegmentEnd, S

\* _build_sr_segments, for a video of any length, any length of a segment and
\* any overlap that is asked for: the segments cover all frames, each overlaps
\* the one before by the width of the cross-fade and is longer than that, none
\* is longer than the memory allows, and there are no more of them than a walk
\* that fills every segment would make.
THEOREM PlanCovers ==
    ASSUME NEW total \in Nat \ {0}, NEW len \in Nat \ {0}, NEW asked \in Nat
    PROVE  LET overlap == ClampOverlap(len, asked)
               count == SegmentCount(total, len, overlap)
               start(i) == SegmentStart(total, len, overlap, i)
               end(i) == SegmentEnd(total, len, overlap, i)
           IN  /\ start(0) = 0 /\ end(count - 1) = total
               /\ \A i \in 0..count - 1 : end(i) - start(i) \in 1..len
               /\ \A i \in 1..count - 1 :
                   /\ end(i - 1) - start(i) = overlap
                   /\ end(i) - start(i) > overlap
               /\ total > len => count <= NumSegments(total, len, overlap)
  <1>1. ClampOverlap(len, asked) \in 0..len - 1 BY DEF ClampOverlap
  <1>2. CASE total > len BY <1>1, <1>2, LongCovers
  <1>3. CASE ~(total > len)
    <2>1. /\ SegmentCount(total, len, ClampOverlap(len, asked)) = 1
          /\ SegmentStart(total, len, ClampOverlap(len, asked), 0) = 0
          /\ SegmentEnd(total, len, ClampOverlap(len, asked), 0) = total
      BY <1>1, <1>3, ShortCovers
    <2>2. 1 - 1 = 0 /\ 0..0 = {0} /\ 1..0 = {} OBVIOUS
    <2> QED BY <1>3, <2>1, <2>2
  <1> QED BY <1>2, <1>3

\* The same of the lengths that TLC looks at.
THEOREM SegmentsAlwaysCover == Spec => []SegmentsCover
  <1>1. SegmentsCover
    <2> SUFFICES ASSUME NEW total \in 1..14, NEW len \in 1..5, NEW asked \in 0..5
                 PROVE  LET overlap == ClampOverlap(len, asked)
                            count == SegmentCount(total, len, overlap)
                            start(i) == SegmentStart(total, len, overlap, i)
                            end(i) == SegmentEnd(total, len, overlap, i)
                        IN  /\ start(0) = 0 /\ end(count - 1) = total
                            /\ \A i \in 0..count - 1 : end(i) - start(i) \in 1..len
                            /\ \A i \in 1..count - 1 :
                                /\ end(i - 1) - start(i) = overlap
                                /\ end(i) - start(i) > overlap
                            /\ total > len => count <= NumSegments(total, len, overlap)
      BY DEF SegmentsCover
    <2>1. total \in Nat \ {0} /\ len \in Nat \ {0} /\ asked \in Nat OBVIOUS
    <2> HIDE DEF ClampOverlap
    <2> QED BY <2>1, PlanCovers
  <1> QED BY <1>1, PTL

(***************************************************************************)
(* The sends that a rank has not waited for.                               *)
(***************************************************************************)

\* Where a rank may be that keeps the list of its sends.
Sending == {"diffuse", "recv", "send", "save", "settle", "unwind"}

\* A rank has emptied its list before it meets the others or leaves.
HeldInv ==
    /\ pc \in [Rank -> Sending \cup {"idle", "run", "agree", "barrier", "meet1", "meet2", "meet3",
                                     "concat"}]
    /\ \A r \in Rank : r \in held => pc[r] \in Sending

LEMMA HeldRefl == HeldInv /\ UNCHANGED <<pc, held>> => HeldInv'
  BY DEF HeldInv

\* A rank that goes where it may keep them, or has none.
LEMMA HeldMoves ==
    ASSUME HeldInv, NEW r \in Rank,
           NEW place \in Sending \cup {"idle", "run", "agree", "barrier", "meet1", "meet2", "meet3",
                                       "concat"},
           pc' = [pc EXCEPT ![r] = place],
           held' \in {held, held \ {r}, held \cup {r}},
           place \in Sending \/ r \notin held'
    PROVE  HeldInv'
  BY DEF HeldInv, Sending

\* The steps of the worker.
LEMMA HeldWorker ==
    ASSUME HeldInv, held' = held, NEW r \in Rank,
           Receive(r) \/ PlainStep(r) \/ Answer(r)
    PROVE  HeldInv'
  <1> DEFINE P == {"idle", "run", "agree", "barrier"}
  <1>1. pc[r] \in P /\ \E place \in P : pc' = [pc EXCEPT ![r] = place]
    <2>1. CASE Receive(r) BY <2>1 DEF Receive
    <2>2. CASE PlainStep(r) BY <2>2 DEF PlainStep, CheckStop, AgreeToStop, Raise, Infer, Finish
    <2>3. CASE Answer(r) BY <2>3 DEF Answer
    <2> QED BY <2>1, <2>2, <2>3
  <1>2. r \notin held BY <1>1 DEF HeldInv, Sending
  <1> QED BY <1>1, <1>2, HeldMoves

\* The steps on segments of which nothing is sent.
LEMMA HeldLocal ==
    ASSUME HeldInv, NEW r \in Rank,
           \/ RunAlone(r) \/ Prepare(r) \/ Prepared(r) \/ Diffuse(r) \/ StopSegment(r)
           \/ RecvTail(r) \/ Save(r) \/ FailOutput(r) \/ FailSegment(r)
    PROVE  HeldInv'
  <1>1. CASE RunAlone(r)
    <2>1. pc[r] = "run" /\ pc' = [pc EXCEPT ![r] = "meet3"] /\ held' = held
      BY <1>1 DEF RunAlone, Meet, Goto, wireVars
    <2> QED BY <2>1, HeldMoves DEF HeldInv, Sending
  <1>2. CASE Prepare(r)
    <2>1. pc' = [pc EXCEPT ![r] = "meet1"] /\ held' = held \ {r}
      BY <1>2 DEF Prepare, Meet, Goto
    <2> QED BY <2>1, HeldMoves
  <1>3. CASE Prepared(r)
    <2>1. held' = held /\ \E place \in {"unwind", "settle", "diffuse"} : pc' = [pc EXCEPT ![r] = place]
      BY <1>3 DEF Prepared, Rethrow, Goto, wireVars
    <2> QED BY <2>1, HeldMoves DEF Sending
  <1>4. CASE Diffuse(r)
    <2>1. held' = held /\ \E place \in {"send", "recv"} : pc' = [pc EXCEPT ![r] = place]
      BY <1>4 DEF Diffuse, Goto, segmentVars, wireVars
    <2> QED BY <2>1, HeldMoves DEF Sending
  <1>5. CASE StopSegment(r)
    <2>1. held' = held /\ pc' = [pc EXCEPT ![r] = "unwind"]
      BY <1>5 DEF StopSegment, Rethrow, Goto, wireVars
    <2> QED BY <2>1, HeldMoves DEF Sending
  <1>6. CASE RecvTail(r)
    <2>1. held' = held /\ \E place \in {"unwind", "send", "save"} : pc' = [pc EXCEPT ![r] = place]
      <3>1. held' = held BY <1>6 DEF RecvTail, TakeTail
      <3>2. pc' = [pc EXCEPT ![r] = CASE tail'[r].abort -> "unwind"
                 [] ~tail'[r].abort /\ index[r] < Last(r) -> "send"
                 [] OTHER -> "save"]
        BY <1>6 DEF RecvTail, Goto
      <3> QED BY <3>1, <3>2
    <2> QED BY <2>1, HeldMoves DEF Sending
  <1>7. CASE Save(r)
    <2>1. held' = held /\ \E place \in {"diffuse", "settle"} : pc' = [pc EXCEPT ![r] = place]
      BY <1>7 DEF Save, Goto
    <2> QED BY <2>1, HeldMoves DEF Sending
  <1>8. CASE FailOutput(r)
    <2>1. held' = held \ {r} /\ pc' = [pc EXCEPT ![r] = "unwind"]
      BY <1>8 DEF FailOutput, Goto
    <2> QED BY <2>1, HeldMoves DEF Sending
  <1>9. CASE FailSegment(r)
    <2>1. held' = held /\ pc' = [pc EXCEPT ![r] = "unwind"]
      BY <1>9 DEF FailSegment, Goto, wireVars
    <2> QED BY <2>1, HeldMoves DEF Sending
  <1> QED BY <1>1, <1>2, <1>3, <1>4, <1>5, <1>6, <1>7, <1>8, <1>9

\* The others: a send, and the ways to the rendezvous and to the end.
LEMMA HeldSends ==
    ASSUME HeldInv, NEW r \in Rank,
           \/ HandOff(r) \/ Settle(r) \/ Settled(r) \/ Concat(r)
           \/ AbortOwed(r) \/ Discard(r) \/ Unwound(r) \/ Reported(r)
    PROVE  HeldInv'
  <1>1. CASE HandOff(r)
    <2>1. held' \in {held, held \cup {r}} /\ pc' = [pc EXCEPT ![r] = "save"]
      BY <1>1 DEF HandOff, SendTail, Goto
    <2> QED BY <2>1, HeldMoves DEF Sending
  <1>2. CASE Settle(r)
    <2>1. held' = held \ {r} /\ pc' = [pc EXCEPT ![r] = "meet2"]
      BY <1>2 DEF Settle, Drain, Meet, Goto
    <2> QED BY <2>1, HeldMoves
  <1>3. CASE Settled(r)
    <2>1. /\ pc[r] = "meet2" /\ held' = held
          /\ \E place \in {"unwind", "barrier", "concat"} : pc' = [pc EXCEPT ![r] = place]
      BY <1>3 DEF Settled, Rethrow, Leave, Finish, Goto, segmentVars, wireVars
    <2> QED BY <2>1, HeldMoves DEF HeldInv, Sending
  <1>4. CASE Concat(r)
    <2>1. pc[r] = "concat" /\ held' = held /\ pc' = [pc EXCEPT ![r] = "barrier"]
      BY <1>4 DEF Concat, Leave, Finish
    <2> QED BY <2>1, HeldMoves DEF HeldInv, Sending
  <1>5. CASE AbortOwed(r)
    <2>1. held' \in {held, held \cup {r}} /\ pc' = [pc EXCEPT ![r] = "unwind"]
      BY <1>5 DEF AbortOwed, SendTail, Goto
    <2> QED BY <2>1, HeldMoves DEF Sending
  <1>6. CASE Discard(r)
    <2>1. held' = held /\ pc' = [pc EXCEPT ![r] = "unwind"]
      BY <1>6 DEF Discard, TakeTail, Goto
    <2> QED BY <2>1, HeldMoves DEF Sending
  <1>7. CASE Unwound(r)
    <2>1. /\ held' = held \ {r}
          /\ \E place \in {"settle", "barrier", "meet3"} : pc' = [pc EXCEPT ![r] = place]
      BY <1>7 DEF Unwound, Drain, Continue, Goto, Leave, Finish, Meet
    <2> QED BY <2>1, HeldMoves DEF Sending
  <1>8. CASE Reported(r)
    <2>1. pc[r] = "meet3" /\ held' = held /\ pc' = [pc EXCEPT ![r] = "barrier"]
      BY <1>8 DEF Reported, Leave, Finish
    <2> QED BY <2>1, HeldMoves DEF HeldInv, Sending
  <1> QED BY <1>1, <1>2, <1>3, <1>4, <1>5, <1>6, <1>7, <1>8

LEMMA HeldInit == Init => HeldInv
  BY DEF Init, WorkerInit, HeldInv

LEMMA HeldStep == HeldInv /\ [Next]_vars => HeldInv'
  <1> SUFFICES ASSUME HeldInv, [Next]_vars
               PROVE  HeldInv'
    OBVIOUS
  <1>0. 0 \in Rank BY SegmentAssumption, WorkerAssumption DEF Rank
  <1>1. CASE UNCHANGED vars
    BY <1>1, HeldRefl DEF vars, workerVars, segmentVars, wireVars
  <1>2. ASSUME NEW request \in Requests, Submit(request), UNCHANGED segmentVars
        PROVE  HeldInv'
    <2>1. pc[0] = "idle" /\ pc' = [pc EXCEPT ![0] = "run"] /\ held' = held
      BY <1>2 DEF Submit, segmentVars, wireVars
    <2> QED BY <1>0, <2>1, HeldMoves DEF HeldInv, Sending
  <1>3. CASE Cancel /\ UNCHANGED segmentVars
    BY <1>3, HeldRefl DEF Cancel, segmentVars, wireVars
  <1>4. ASSUME NEW r \in Rank, WorkerStep(r), UNCHANGED segmentVars
        PROVE  HeldInv'
    BY <1>4, HeldWorker DEF WorkerStep, segmentVars, wireVars
  <1>5. ASSUME NEW r \in Rank, SegmentStep(r) \/ FailOutput(r) \/ FailSegment(r)
        PROVE  HeldInv'
    BY <1>5, HeldLocal, HeldSends DEF SegmentStep
  <1>6. CASE FailAlone
    <2>1. pc[0] = "run" /\ pc' = [pc EXCEPT ![0] = "meet3"] /\ held' = held
      BY <1>6 DEF FailAlone, Meet, Goto, wireVars
    <2> QED BY <1>0, <2>1, HeldMoves DEF HeldInv, Sending
  <1>7. CASE FailPrepare
    <2>1. pc' = [pc EXCEPT ![0] = "meet1"] /\ held' = held \ {0}
      BY <1>7 DEF FailPrepare, Meet, Goto
    <2> QED BY <1>0, <2>1, HeldMoves
  <1> QED BY <1>1, <1>2, <1>3, <1>4, <1>5, <1>6, <1>7 DEF Next, RankStep

\* A rank that begins a request has no send left of the one before, however
\* that one ended on it and wherever it stopped or failed: there is nothing to
\* abandon.
THEOREM NeverAbandons == Spec => []NothingAbandoned
  <1>1. HeldInv => NothingAbandoned
    BY DEF HeldInv, NothingAbandoned, Sending
  <1> QED BY <1>1, HeldInit, HeldStep, PTL DEF Spec

(***************************************************************************)
(* How the ranks keep together over a video.                               *)
(*                                                                         *)
(* A request that is left to rank 0 has one rendezvous.  One that is cut   *)
(* into segments has two, the first before the directory is used and the   *)
(* other after the segments, unless the first tells of a failure or a      *)
(* stop: then it is the only one.  A rank that fails in between takes part *)
(* in the one that is due when it leaves.                                  *)
(***************************************************************************)

Places == Sending \cup {"idle", "run", "barrier", "meet1", "meet2", "meet3", "concat"}

VideoMeeting ==
    [ops : SUBSET {"barrier", "rendezvous"}, ranks : SUBSET Rank, stopped : BOOLEAN,
     failed : BOOLEAN]

VideoTypes ==
    /\ requests \in Seq({VideoRequest(n) : n \in VideoLengths}) /\ Len(requests) <= MaxRequests
    /\ pc \in [Rank -> Places] /\ turn \in [Rank -> Nat]
    /\ own \in [Rank -> {"none", "stopped", "failed"}]
    /\ open \cup agreed \cup aborted \subseteq Rank
    /\ meetings \in [Group -> Seq(VideoMeeting)]
    /\ attended \in [Rank -> [Group -> Nat]]

\* The last request, and the ranks that are in it or past it.
Epoch == Len(requests)
Active(r) == pc[r] \notin {"idle", "barrier"}
Here(r) == Epoch >= 1 /\ turn[r] = Epoch
Done(r) == Here(r) /\ ~Active(r)
Loops == Epoch >= 1 /\ requests[Epoch].kind = "segments"

\* The requests of the ranks, and their barriers: one at the end of each.
Stages ==
    /\ turn[0] = Epoch
    /\ \A r \in Rank : turn[r] = Epoch \/ (turn[r] = Epoch - 1 /\ ~Active(r))
    /\ \A r \in Rank : pc[r] # "idle" => turn[r] >= 1
    /\ \A r \in Rank : attended[r]["world"] = IF Active(r) THEN turn[r] - 1 ELSE turn[r]
    /\ \A r, s \in Rank : pc[r] = "idle" => attended[s]["world"] >= turn[r]

OpOf(g) == IF g = "world" THEN "barrier" ELSE "rendezvous"

\* A collective is attended by the ranks that have come that far, at least
\* one of them, and by none for another operation.
Roll ==
    \A g \in Group :
        /\ \A r \in Rank : attended[r][g] <= Len(meetings[g])
        /\ \A n \in 1..Len(meetings[g]) :
            /\ meetings[g][n].ranks = {r \in Rank : attended[r][g] >= n}
            /\ meetings[g][n].ranks # {}
            /\ meetings[g][n].ops = {OpOf(g)}

\* What rendezvous n tells, and that all ranks have come to it.
Fails(n) == n <= Len(meetings["ctrl"]) /\ meetings["ctrl"][n].failed
Stops(n) == n <= Len(meetings["ctrl"]) /\ meetings["ctrl"][n].stopped
Bad(n) == Fails(n) \/ Stops(n)
Everyone(n) == \A r \in Rank : attended[r]["ctrl"] >= n

\* The number of rendezvous of this request that rank r has come to, when b
\* were held before it.
One(P) == IF P THEN 1 ELSE 0
Rounds(r, b) ==
    IF ~Here(r) THEN 0
    ELSE IF ~Active(r) THEN (IF Loops /\ ~Bad(b + 1) THEN 2 ELSE 1)
    ELSE IF Loops THEN One(r \in open) + One(r \in agreed)
    ELSE One(pc[r] = "meet3")

\* What a rank knows at each place.
Spot(r, b) ==
    /\ pc[r] \in {"idle", "barrier", "run"} => r \notin open \cup agreed /\ own[r] = "none"
    /\ pc[r] \notin {"settle", "meet2", "unwind", "meet3"} => r \notin aborted
    /\ pc[r] \notin {"idle", "barrier", "run", "meet3"} => Loops
    /\ pc[r] = "meet1" =>
        /\ r \notin open /\ r \in agreed /\ r \notin aborted
        /\ own[r] # "stopped" /\ (own[r] = "failed" => Fails(b + 1))
    /\ pc[r] \in {"diffuse", "recv", "send", "save", "settle"} =>
        r \in open /\ r \notin agreed /\ own[r] = "none"
    /\ pc[r] \in {"meet2", "concat"} => r \in open /\ r \in agreed /\ own[r] = "none"
    /\ pc[r] = "concat" => r = 0 /\ Everyone(b + 2) /\ ~Bad(b + 2)
    /\ pc[r] = "unwind" =>
        /\ own[r] = "none" => r \in open /\ r \notin agreed /\ r \in aborted
        /\ r \notin open /\ r \in agreed => Everyone(b + 1) /\ Bad(b + 1)
        /\ r \notin open /\ r \notin agreed => own[r] = "failed"
        /\ r \in open /\ r \notin agreed /\ own[r] = "stopped" => stop_signal(r)
        /\ r \in open /\ r \in agreed => Everyone(b + 2) /\ (Bad(b + 2) \/ r = 0)
    /\ pc[r] = "meet3" =>
        IF Loops
        THEN /\ r \in agreed /\ own[r] # "none"
             /\ r \notin open => Fails(b + 1) /\ own[r] = "failed"
             /\ r \in open => Bad(b + 2)
        ELSE r \notin open \cup agreed \cup aborted

Control(b) ==
    /\ \A r \in Rank : attended[r]["ctrl"] = b + Rounds(r, b)
    /\ \A r \in Rank : Done(r) => Everyone(b + Rounds(r, b))
    /\ \A r \in Rank : r \in open => Everyone(b + 1) /\ ~Bad(b + 1)
    /\ \A r \in Rank : r \in aborted => r \in open
    /\ \A r \in Rank : Spot(r, b)

VideoInv(b) == VideoTypes /\ Stages /\ Roll /\ Control(b)

\* What Enter does: rank r is in its next collective of the group, the other
\* ranks, collectives and groups are as they were.
LEMMA Entering ==
    ASSUME VideoTypes, Roll, NEW r \in Rank, NEW g \in Group, NEW stopped \in BOOLEAN,
           NEW failed \in BOOLEAN, Enter(r, g, OpOf(g), stopped, failed)
    PROVE  LET n == attended[r][g] + 1
               known == n <= Len(meetings[g])
           IN  /\ attended' \in [Rank -> [Group -> Nat]] /\ meetings' \in [Group -> Seq(VideoMeeting)]
               /\ attended'[r][g] = n
               /\ \A x \in Rank : \A h \in Group : x # r \/ h # g => attended'[x][h] = attended[x][h]
               /\ \A h \in Group : h # g => meetings'[h] = meetings[h]
               /\ Len(meetings'[g]) = IF known THEN Len(meetings[g]) ELSE n
               /\ n <= Len(meetings[g]) + 1
               /\ \A k \in 1..Len(meetings[g]) : k # n => meetings'[g][k] = meetings[g][k]
               /\ meetings'[g][n].ops = {OpOf(g)}
               /\ meetings'[g][n].ranks = (IF known THEN meetings[g][n].ranks ELSE {}) \cup {r}
               /\ meetings'[g][n].stopped <=> (known /\ meetings[g][n].stopped) \/ stopped
               /\ meetings'[g][n].failed <=> (known /\ meetings[g][n].failed) \/ failed
  <1> DEFINE n == attended[r][g] + 1
             M == meetings[g]
             known == n <= Len(M)
             J == Joined(IF known THEN M[n] ELSE NewMeeting, r, OpOf(g), stopped, failed)
             N == IF known THEN [M EXCEPT ![n] = J] ELSE Append(M, J)
  <1>1. /\ M \in Seq(VideoMeeting) /\ attended[r][g] \in Nat /\ n \in Nat /\ n >= 1
        /\ attended[r][g] <= Len(M) /\ Len(M) \in Nat
    BY DEF VideoTypes, Roll
  <1>2. /\ attended' = [attended EXCEPT ![r][g] = n]
        /\ meetings' = [meetings EXCEPT ![g] = N]
    <2>1. attended' = [attended EXCEPT ![r][g] = n] BY DEF Enter
    <2>2. CASE known
      <3>1. ~(n > Len(meetings[g])) BY <1>1, <2>2
      <3>2. meetings' = [meetings EXCEPT ![g][n] = Joined(@, r, OpOf(g), stopped, failed)]
        BY <3>1 DEF Enter
      <3>3. N = [meetings[g] EXCEPT ![n] = Joined(meetings[g][n], r, OpOf(g), stopped, failed)]
        BY <2>2
      <3> HIDE DEF N, n
      <3> QED BY <2>1, <3>2, <3>3
    <2>3. CASE ~known
      <3>1. n > Len(meetings[g]) BY <1>1, <2>3
      <3>2. meetings' = [meetings EXCEPT ![g] =
                Append(@, Joined(NewMeeting, r, OpOf(g), stopped, failed))]
        BY <3>1 DEF Enter
      <3>3. N = Append(meetings[g], Joined(NewMeeting, r, OpOf(g), stopped, failed))
        BY <2>3
      <3> HIDE DEF N, n
      <3> QED BY <2>1, <3>2, <3>3
    <2> QED BY <2>2, <2>3
  <1>3. OpOf(g) \in {"barrier", "rendezvous"} BY DEF OpOf
  <1>4. known => M[n] \in VideoMeeting /\ M[n].ops = {OpOf(g)} BY <1>1 DEF Roll
  <1>5. /\ J \in VideoMeeting /\ J.ops = {OpOf(g)}
        /\ J.ranks = (IF known THEN M[n].ranks ELSE {}) \cup {r}
        /\ J.stopped <=> (known /\ M[n].stopped) \/ stopped
        /\ J.failed <=> (known /\ M[n].failed) \/ failed
    <2>1. CASE known
      <3> DEFINE m == M[n]
      <3>1. J = Joined(m, r, OpOf(g), stopped, failed) BY <2>1
      <3>2. m \in VideoMeeting /\ m.ops = {OpOf(g)} BY <1>4, <2>1
      <3> HIDE DEF J, m
      <3>3. /\ J \in VideoMeeting /\ J.ops = {OpOf(g)} /\ J.ranks = m.ranks \cup {r}
            /\ J.stopped = (m.stopped \/ stopped) /\ J.failed = (m.failed \/ failed)
        BY <1>3, <3>1, <3>2 DEF Joined, VideoMeeting
      <3> QED BY <2>1, <3>3 DEF m
    <2>2. CASE ~known
      <3>1. J = Joined(NewMeeting, r, OpOf(g), stopped, failed) BY <2>2
      <3> HIDE DEF J
      <3> QED BY <1>3, <2>2, <3>1 DEF Joined, NewMeeting, VideoMeeting
    <2> QED BY <2>1, <2>2
  <1> HIDE DEF J
  <1>6. /\ N \in Seq(VideoMeeting) /\ Len(N) = (IF known THEN Len(M) ELSE n) /\ N[n] = J
        /\ \A k \in 1..Len(M) : k # n => N[k] = M[k]
    <2>1. CASE known BY <1>1, <1>5, <2>1
    <2>2. CASE ~known
      <3>1. n = Len(M) + 1 BY <1>1, <2>2
      <3> QED BY <1>1, <1>5, <2>2, <3>1
    <2> QED BY <2>1, <2>2
  <1> HIDE DEF N
  <1>7. /\ meetings' \in [Group -> Seq(VideoMeeting)] /\ meetings'[g] = N
        /\ \A h \in Group : h # g => meetings'[h] = meetings[h]
    BY <1>2, <1>6 DEF VideoTypes
  <1>8. /\ attended' \in [Rank -> [Group -> Nat]] /\ attended'[r][g] = n
        /\ \A x \in Rank : \A h \in Group : x # r \/ h # g => attended'[x][h] = attended[x][h]
    BY <1>1, <1>2 DEF VideoTypes
  <1>9. n <= Len(M) + 1 BY <1>1
  <1> QED BY <1>5, <1>6, <1>7, <1>8, <1>9

\* The attendance after that.
LEMMA RollKept ==
    ASSUME VideoTypes, Roll, NEW r \in Rank, NEW g \in Group, NEW stopped \in BOOLEAN,
           NEW failed \in BOOLEAN, Enter(r, g, OpOf(g), stopped, failed)
    PROVE  Roll'
  <1> DEFINE n == attended[r][g] + 1
             known == n <= Len(meetings[g])
  <1>1. /\ attended' \in [Rank -> [Group -> Nat]] /\ meetings' \in [Group -> Seq(VideoMeeting)]
        /\ attended'[r][g] = n
        /\ \A x \in Rank : \A h \in Group : x # r \/ h # g => attended'[x][h] = attended[x][h]
        /\ \A h \in Group : h # g => meetings'[h] = meetings[h]
        /\ Len(meetings'[g]) = IF known THEN Len(meetings[g]) ELSE n
        /\ n <= Len(meetings[g]) + 1
        /\ \A k \in 1..Len(meetings[g]) : k # n => meetings'[g][k] = meetings[g][k]
        /\ meetings'[g][n].ops = {OpOf(g)}
        /\ meetings'[g][n].ranks = (IF known THEN meetings[g][n].ranks ELSE {}) \cup {r}
    BY Entering
  <1>2. /\ \A x \in Rank : \A h \in Group : attended[x][h] \in Nat /\ attended'[x][h] \in Nat
        /\ n \in Nat /\ n >= 1 /\ Len(meetings[g]) \in Nat
    BY <1>1 DEF VideoTypes
  <1> HIDE DEF n
  <1>3. n = attended[r][g] + 1 BY DEF n
  <1>a. /\ \A x \in Rank : x # r => attended'[x][g] = attended[x][g]
        /\ \A x \in Rank : attended[x][g] <= Len(meetings[g])
    BY <1>1 DEF Roll
  <1>b. Len(meetings[g]) <= Len(meetings'[g]) /\ n <= Len(meetings'[g])
    BY <1>1, <1>2
  <1> SUFFICES ASSUME NEW h \in Group
               PROVE  /\ \A x \in Rank : attended'[x][h] <= Len(meetings'[h])
                      /\ \A k \in 1..Len(meetings'[h]) :
                          /\ meetings'[h][k].ranks = {x \in Rank : attended'[x][h] >= k}
                          /\ meetings'[h][k].ranks # {}
                          /\ meetings'[h][k].ops = {OpOf(h)}
    BY DEF Roll
  <1>4. CASE h # g
    <2>1. meetings'[h] = meetings[h] /\ \A x \in Rank : attended'[x][h] = attended[x][h]
      BY <1>1, <1>4
    <2> QED BY <2>1 DEF Roll
  <1>5. CASE h = g
    <2>0. Len(meetings'[g]) \in Nat BY <1>1, <1>2
    <2>1. ASSUME NEW x \in Rank
          PROVE  attended'[x][g] <= Len(meetings'[g])
      <3>1. attended'[x][g] \in Nat BY <1>2
      <3>2. CASE x = r BY <1>1, <1>b, <3>2
      <3>3. CASE x # r
        <4>1. attended'[x][g] = attended[x][g] /\ attended[x][g] <= Len(meetings[g]) BY <1>a, <3>3
        <4> HIDE DEF known
        <4> QED BY <1>2, <1>b, <2>0, <3>1, <4>1
      <3> QED BY <3>2, <3>3
    <2>2. ASSUME NEW k \in 1..Len(meetings'[g]), k # n
          PROVE  /\ meetings'[g][k].ranks = {x \in Rank : attended'[x][g] >= k}
                 /\ meetings'[g][k].ranks # {}
                 /\ meetings'[g][k].ops = {OpOf(g)}
      <3>1. k \in 1..Len(meetings[g]) /\ meetings'[g][k] = meetings[g][k] BY <1>1, <1>2, <2>2
      <3>2. ASSUME NEW x \in Rank
            PROVE  attended'[x][g] >= k <=> attended[x][g] >= k
        <4>1. CASE x # r BY <1>a, <4>1
        <4>2. CASE x = r
          <5>1. attended'[x][g] = n /\ attended[x][g] + 1 = n /\ k # n /\ k \in Nat
            BY <1>1, <1>3, <2>2, <4>2
          <5>2. attended[x][g] \in Nat BY <1>2
          <5> HIDE DEF known
          <5> QED BY <1>2, <5>1, <5>2
        <4> QED BY <4>1, <4>2
      <3> QED BY <3>1, <3>2 DEF Roll
    <2>3. meetings'[g][n].ranks = {x \in Rank : attended'[x][g] >= n}
      <3>1. CASE known
        <4>1. n \in 1..Len(meetings[g]) BY <1>2, <3>1
        <4>2. meetings[g][n].ranks = {x \in Rank : attended[x][g] >= n} BY <4>1 DEF Roll
        <4>3. \A x \in Rank : attended'[x][g] >= n <=> attended[x][g] >= n \/ x = r
          BY <1>1, <1>2
        <4> QED BY <1>1, <3>1, <4>2, <4>3
      <3>2. CASE ~known
        <4>1. \A x \in Rank : attended'[x][g] >= n <=> x = r BY <1>1, <1>2, <3>2 DEF Roll
        <4> QED BY <1>1, <3>2, <4>1
      <3> QED BY <3>1, <3>2
    <2>4. r \in meetings'[g][n].ranks BY <1>1
    <2>5. ASSUME NEW k \in 1..Len(meetings'[g])
          PROVE  /\ meetings'[g][k].ranks = {x \in Rank : attended'[x][g] >= k}
                 /\ meetings'[g][k].ranks # {}
                 /\ meetings'[g][k].ops = {OpOf(g)}
      <3>1. CASE k # n BY <2>2, <3>1
      <3>2. CASE k = n
        <4>1. meetings'[g][n].ops = {OpOf(g)} BY <1>1
        <4>2. meetings'[g][n].ranks # {} BY <2>4
        <4> QED BY <2>3, <3>2, <4>1, <4>2
      <3> QED BY <3>1, <3>2
    <2> QED BY <1>5, <2>1, <2>5
  <1> QED BY <1>4, <1>5

\* A step of rank r that leaves the others where they are.
Elsewhere(r) ==
    \A x \in Rank \ {r} :
        /\ pc'[x] = pc[x] /\ own'[x] = own[x]
        /\ x \in open' <=> x \in open
        /\ x \in agreed' <=> x \in agreed
        /\ x \in aborted' <=> x \in aborted

\* The rest of the types.
OwnTypes ==
    /\ pc \in [Rank -> Places]
    /\ own \in [Rank -> {"none", "stopped", "failed"}]
    /\ open \cup agreed \cup aborted \subseteq Rank

\* Rank r moves on within a request, without a collective.
LEMMA MoveKeeps ==
    ASSUME NEW b \in Nat, VideoInv(b), NEW r \in Rank, Active(r), Active(r)', Elsewhere(r), OwnTypes',
           UNCHANGED <<requestVars, turn, meetings, attended>>,
           Rounds(r, b)' = Rounds(r, b),
           r \in open' => Everyone(b + 1) /\ ~Bad(b + 1),
           r \in aborted' => r \in open',
           Spot(r, b)'
    PROVE  VideoInv(b)'
  <1>u. /\ requests' = requests /\ cancelled' = cancelled /\ turn' = turn
        /\ meetings' = meetings /\ attended' = attended
    BY DEF requestVars
  <1>t. VideoTypes /\ Stages /\ Roll /\ Control(b) BY DEF VideoInv
  <1>1. VideoTypes' BY <1>t, <1>u DEF VideoTypes, OwnTypes
  <1>2. \A x \in Rank : Active(x)' <=> Active(x) BY DEF Active, Elsewhere
  <1>3. Stages'
    <2>1. turn'[0] = Len(requests') BY <1>t, <1>u DEF Stages, Epoch
    <2>2. \A x \in Rank : turn'[x] = Epoch' \/ (turn'[x] = Epoch' - 1 /\ ~Active(x)')
      BY <1>t, <1>u, <1>2 DEF Stages, Epoch
    <2>3. \A x \in Rank : pc'[x] # "idle" => turn'[x] >= 1
      BY <1>t, <1>u DEF Stages, Active, Elsewhere
    <2>4. \A x \in Rank : attended'[x]["world"] = IF Active(x)' THEN turn'[x] - 1 ELSE turn'[x]
      BY <1>t, <1>u, <1>2 DEF Stages
    <2>5. \A x, s \in Rank : pc'[x] = "idle" => attended'[s]["world"] >= turn'[x]
      BY <1>t, <1>u DEF Stages, Active, Elsewhere
    <2> QED BY <2>1, <2>2, <2>3, <2>4, <2>5 DEF Stages, Epoch
  <1>4. Roll' BY <1>t, <1>u DEF Roll
  <1>5. /\ \A n \in Nat : (Fails(n)' <=> Fails(n)) /\ (Stops(n)' <=> Stops(n)) /\ (Bad(n)' <=> Bad(n))
                          /\ (Everyone(n)' <=> Everyone(n))
        /\ Loops' <=> Loops
        /\ \A x \in Rank : (Here(x)' <=> Here(x)) /\ (stop_signal(x)' <=> stop_signal(x))
    BY <1>u DEF Fails, Stops, Bad, Everyone, Loops, Here, Epoch, stop_signal
  <1>6. ASSUME NEW x \in Rank, x # r
        PROVE  Rounds(x, b)' = Rounds(x, b) /\ Spot(x, b)'
    <2>1. /\ pc'[x] = pc[x] /\ own'[x] = own[x]
          /\ x \in open' <=> x \in open
          /\ x \in agreed' <=> x \in agreed
          /\ x \in aborted' <=> x \in aborted
      BY <1>6 DEF Elsewhere
    <2>2. Rounds(x, b)' = Rounds(x, b)
      BY <1>2, <1>5, <2>1 DEF Rounds, One
    <2>3. Spot(x, b) BY <1>t DEF Control
    <2>4. b + 1 \in Nat /\ b + 2 \in Nat OBVIOUS
    <2>5. Spot(x, b)' BY <1>5, <2>1, <2>3, <2>4 DEF Spot
    <2> QED BY <2>2, <2>5
  <1>7. \A x \in Rank : Rounds(x, b)' = Rounds(x, b) BY <1>6
  <1>8. Control(b)'
    <2>1. \A x \in Rank : attended'[x]["ctrl"] = b + Rounds(x, b)' BY <1>t, <1>u, <1>7 DEF Control
    <2>2. \A x \in Rank : Done(x)' => Everyone(b + Rounds(x, b))'
      <3>1. \A x \in Rank : Done(x)' <=> Done(x) BY <1>2, <1>5 DEF Done
      <3> QED BY <1>t, <1>u, <1>7, <3>1 DEF Control, Everyone
    <2>3. \A x \in Rank : x \in open' => Everyone(b + 1)' /\ ~Bad(b + 1)'
      BY <1>t, <1>5 DEF Control, Elsewhere
    <2>4. \A x \in Rank : x \in aborted' => x \in open' BY <1>t DEF Control, Elsewhere
    <2>5. \A x \in Rank : Spot(x, b)' BY <1>6
    <2> QED BY <2>1, <2>2, <2>3, <2>4, <2>5 DEF Control
  <1> QED BY <1>1, <1>3, <1>4, <1>8 DEF VideoInv

\* What a rank that comes to a rendezvous does to those signals.
LEMMA Comes ==
    ASSUME NEW b \in Nat, VideoInv(b), NEW r \in Rank, NEW stopped \in BOOLEAN, NEW failed \in BOOLEAN,
           Enter(r, "ctrl", "rendezvous", stopped, failed),
           NEW n \in Nat, n = b + Rounds(r, b) + 1
    PROVE  /\ attended[r]["ctrl"] + 1 = n
           /\ attended'[r]["ctrl"] = n
           /\ \A x \in Rank : x # r => attended'[x]["ctrl"] = attended[x]["ctrl"]
           /\ \A x \in Rank : attended'[x]["world"] = attended[x]["world"]
           /\ \A k \in Nat \ {0} : k # n => (Fails(k)' <=> Fails(k)) /\ (Bad(k)' <=> Bad(k))
           /\ Fails(n)' <=> Fails(n) \/ failed
           /\ Bad(n)' <=> Bad(n) \/ failed \/ stopped
           /\ \A k \in Nat : Everyone(k) => Everyone(k)' /\ k # n
           /\ attended' \in [Rank -> [Group -> Nat]] /\ meetings' \in [Group -> Seq(VideoMeeting)]
           /\ Roll'
  <1> DEFINE M == meetings["ctrl"]
             N == meetings'["ctrl"]
  <1>g. "ctrl" \in Group /\ "world" \in Group /\ "ctrl" # "world" BY DEF Group
  <1>t. VideoTypes /\ Roll /\ Control(b) BY DEF VideoInv
  <1>e. Enter(r, "ctrl", OpOf("ctrl"), stopped, failed) /\ OpOf("ctrl") = "rendezvous" BY DEF OpOf
  <1>4. attended[r]["ctrl"] + 1 = n
    <2>1. Rounds(r, b) \in Nat BY DEF Rounds, One
    <2> QED BY <1>t, <2>1 DEF Control
  <1>1. /\ attended' \in [Rank -> [Group -> Nat]] /\ meetings' \in [Group -> Seq(VideoMeeting)]
        /\ attended'[r]["ctrl"] = n
        /\ \A x \in Rank : \A h \in Group : x # r \/ h # "ctrl" => attended'[x][h] = attended[x][h]
        /\ Len(N) = IF n <= Len(M) THEN Len(M) ELSE n
        /\ n <= Len(M) + 1
        /\ \A k \in 1..Len(M) : k # n => N[k] = M[k]
        /\ N[n].stopped <=> (n <= Len(M) /\ M[n].stopped) \/ stopped
        /\ N[n].failed <=> (n <= Len(M) /\ M[n].failed) \/ failed
    BY <1>g, <1>t, <1>e, <1>4, Entering
  <1>2. Roll' BY <1>g, <1>t, <1>e, RollKept
  <1>3. /\ \A x \in Rank : attended[x]["ctrl"] \in Nat /\ attended'[x]["ctrl"] \in Nat
        /\ n \in Nat /\ n >= 1 /\ Len(M) \in Nat
    <2>1. \A x \in Rank : attended[x]["ctrl"] \in Nat BY <1>g, <1>t DEF VideoTypes
    <2>2. \A x \in Rank : attended'[x]["ctrl"] \in Nat BY <1>1, <1>g
    <2>3. Len(M) \in Nat BY <1>g, <1>t DEF VideoTypes
    <2> QED BY <1>4, <2>1, <2>2, <2>3
  <1> HIDE DEF M, N
  <1>5. ASSUME NEW k \in Nat \ {0}, k # n
        PROVE  (k <= Len(N) <=> k <= Len(M)) /\ (k <= Len(M) => N[k] = M[k])
    <2>1. k <= Len(M) => k \in 1..Len(M) BY <1>3
    <2>2. n > Len(M) => n = Len(M) + 1 BY <1>1, <1>3
    <2> QED BY <1>1, <1>3, <1>5, <2>1, <2>2
  <1>6. ASSUME NEW k \in Nat \ {0}, k # n
        PROVE  (Fails(k)' <=> Fails(k)) /\ (Bad(k)' <=> Bad(k))
    BY <1>5, <1>6 DEF Fails, Stops, Bad, M, N
  <1>7. n <= Len(N) BY <1>1, <1>3
  <1>8. (Fails(n)' <=> Fails(n) \/ failed) /\ (Bad(n)' <=> Bad(n) \/ failed \/ stopped)
    BY <1>1, <1>7 DEF Fails, Stops, Bad, M, N
  <1>9. ASSUME NEW k \in Nat, Everyone(k)
        PROVE  Everyone(k)' /\ k # n
    <2>1. \A x \in Rank : attended[x]["ctrl"] >= k BY <1>9 DEF Everyone
    <2>2. k # n BY <2>1, <1>3, <1>4
    <2>3. ASSUME NEW x \in Rank
          PROVE  attended'[x]["ctrl"] >= k
      <3>1. CASE x = r BY <1>1, <1>3, <2>1, <3>1, <1>4
      <3>2. CASE x # r BY <1>1, <1>g, <2>1, <3>2
      <3> QED BY <3>1, <3>2
    <2> QED BY <2>2, <2>3 DEF Everyone
  <1> QED BY <1>1, <1>2, <1>3, <1>4, <1>6, <1>8, <1>9, <1>g

\* Rank r comes to its next rendezvous.
LEMMA MeetKeeps ==
    ASSUME NEW b \in Nat, VideoInv(b), NEW r \in Rank, NEW stopped \in BOOLEAN, NEW failed \in BOOLEAN,
           Enter(r, "ctrl", "rendezvous", stopped, failed),
           Active(r), Active(r)', Elsewhere(r), OwnTypes', UNCHANGED <<requestVars, turn>>,
           Rounds(r, b)' = Rounds(r, b) + 1,
           r \in open' <=> r \in open, r \in aborted' <=> r \in aborted,
           Spot(r, b)'
    PROVE  VideoInv(b)'
  <1>u. requests' = requests /\ cancelled' = cancelled /\ turn' = turn BY DEF requestVars
  <1>t. VideoTypes /\ Stages /\ Roll /\ Control(b) BY DEF VideoInv
  <1>r. \A x \in Rank : Rounds(x, b) \in Nat BY DEF Rounds, One
  <1>n. PICK n \in Nat : n = b + Rounds(r, b) + 1 BY <1>r
  <1>e. /\ attended[r]["ctrl"] + 1 = n
        /\ attended'[r]["ctrl"] = n
        /\ \A x \in Rank : x # r => attended'[x]["ctrl"] = attended[x]["ctrl"]
        /\ \A x \in Rank : attended'[x]["world"] = attended[x]["world"]
        /\ \A k \in Nat \ {0} : k # n => (Fails(k)' <=> Fails(k)) /\ (Bad(k)' <=> Bad(k))
        /\ Fails(n)' <=> Fails(n) \/ failed
        /\ Bad(n)' <=> Bad(n) \/ failed \/ stopped
        /\ \A k \in Nat : Everyone(k) => Everyone(k)' /\ k # n
        /\ attended' \in [Rank -> [Group -> Nat]] /\ meetings' \in [Group -> Seq(VideoMeeting)]
        /\ Roll'
    BY <1>n, Comes
  <1>1. VideoTypes' BY <1>t, <1>u, <1>e DEF VideoTypes, OwnTypes
  <1>2. \A x \in Rank : Active(x)' <=> Active(x) BY DEF Active, Elsewhere
  <1>3. Stages'
    <2>1. turn'[0] = Len(requests') BY <1>t, <1>u DEF Stages, Epoch
    <2>2. \A x \in Rank : turn'[x] = Epoch' \/ (turn'[x] = Epoch' - 1 /\ ~Active(x)')
      BY <1>t, <1>u, <1>2 DEF Stages, Epoch
    <2>3. \A x \in Rank : pc'[x] # "idle" => turn'[x] >= 1
      BY <1>t, <1>u DEF Stages, Active, Elsewhere
    <2>4. \A x \in Rank : attended'[x]["world"] = IF Active(x)' THEN turn'[x] - 1 ELSE turn'[x]
      BY <1>t, <1>u, <1>e, <1>2 DEF Stages
    <2>5. \A x, s \in Rank : pc'[x] = "idle" => attended'[s]["world"] >= turn'[x]
      BY <1>t, <1>u, <1>e DEF Stages, Active, Elsewhere
    <2> QED BY <2>1, <2>2, <2>3, <2>4, <2>5 DEF Stages, Epoch
  <1>5. /\ \A k \in Nat \ {0} : (Fails(k) => Fails(k)') /\ (Bad(k) => Bad(k)')
        /\ \A k \in Nat \ {0} : Everyone(k) => Everyone(k)' /\ (Bad(k)' <=> Bad(k))
        /\ Loops' <=> Loops
        /\ \A x \in Rank : (Here(x)' <=> Here(x)) /\ (stop_signal(x)' <=> stop_signal(x))
    <2>1. \A k \in Nat \ {0} : (Fails(k) => Fails(k)') /\ (Bad(k) => Bad(k)')
      <3> SUFFICES ASSUME NEW k \in Nat \ {0} PROVE (Fails(k) => Fails(k)') /\ (Bad(k) => Bad(k)')
        OBVIOUS
      <3>1. CASE k = n BY <1>e, <3>1
      <3>2. CASE k # n BY <1>e, <3>2
      <3> QED BY <3>1, <3>2
    <2>2. \A k \in Nat \ {0} : Everyone(k) => Everyone(k)' /\ (Bad(k)' <=> Bad(k)) BY <1>e
    <2>3. /\ Loops' <=> Loops
          /\ \A x \in Rank : (Here(x)' <=> Here(x)) /\ (stop_signal(x)' <=> stop_signal(x))
      BY <1>u DEF Loops, Here, Epoch, stop_signal
    <2> QED BY <2>1, <2>2, <2>3
  <1>b. b + 1 \in Nat \ {0} /\ b + 2 \in Nat \ {0} OBVIOUS
  <1>6. ASSUME NEW x \in Rank, x # r
        PROVE  Rounds(x, b)' = Rounds(x, b) /\ Spot(x, b)'
    <2>1. /\ pc'[x] = pc[x] /\ own'[x] = own[x]
          /\ x \in open' <=> x \in open
          /\ x \in agreed' <=> x \in agreed
          /\ x \in aborted' <=> x \in aborted
      BY <1>6 DEF Elsewhere
    <2>2. Rounds(x, b)' = Rounds(x, b)
      <3>1. CASE Done(x)
        <4>1. Everyone(b + Rounds(x, b)) /\ Rounds(x, b) >= 1
          BY <1>t, <3>1 DEF Control, Done, Rounds
        <4>2. Everyone(b + 1)
          <5>1. \A y \in Rank : attended[y]["ctrl"] \in Nat BY <1>t DEF VideoTypes, Group
          <5> QED BY <1>r, <4>1, <5>1 DEF Everyone
        <4>3. Bad(b + 1)' <=> Bad(b + 1) BY <1>5, <1>b, <4>2
        <4> QED BY <1>2, <1>5, <2>1, <4>3 DEF Rounds, One
      <3>2. CASE ~Done(x) BY <1>2, <1>5, <2>1, <3>2 DEF Rounds, One, Done
      <3> QED BY <3>1, <3>2
    <2>3. Spot(x, b) BY <1>t DEF Control
    <2>5. Spot(x, b)' BY <1>5, <2>1, <2>3, <1>b DEF Spot
    <2> QED BY <2>2, <2>5
  <1>8. Control(b)'
    <2>1. ASSUME NEW x \in Rank
          PROVE  /\ attended'[x]["ctrl"] = b + Rounds(x, b)'
                 /\ Done(x)' => Everyone(b + Rounds(x, b))'
      <3>1. CASE x = r BY <1>e, <1>n, <1>r, <3>1 DEF Done
      <3>2. CASE x # r
        <4>1. attended'[x]["ctrl"] = b + Rounds(x, b)' BY <1>t, <1>e, <1>6, <3>2 DEF Control
        <4>2. ASSUME Done(x)'
              PROVE  Everyone(b + Rounds(x, b))'
          <5>1. Done(x) BY <1>2, <1>5, <4>2 DEF Done
          <5>2. PICK k \in Nat : k = b + Rounds(x, b) BY <1>r
          <5>3. Everyone(k) BY <1>t, <5>1, <5>2 DEF Control
          <5>4. Everyone(k)' BY <1>e, <5>3
          <5>5. k = b + Rounds(x, b)' BY <1>6, <3>2, <5>2
          <5> QED BY <5>4, <5>5
        <4> QED BY <4>1, <4>2
      <3> QED BY <3>1, <3>2
    <2>3. \A x \in Rank : x \in open' => Everyone(b + 1)' /\ ~Bad(b + 1)'
      BY <1>t, <1>5, <1>b DEF Control, Elsewhere
    <2>4. \A x \in Rank : x \in aborted' => x \in open' BY <1>t DEF Control, Elsewhere
    <2>5. \A x \in Rank : Spot(x, b)' BY <1>6
    <2> QED BY <2>1, <2>3, <2>4, <2>5 DEF Control
  <1> QED BY <1>1, <1>3, <1>e, <1>8 DEF VideoInv

\* The request ends on rank r.
LEMMA LeaveKeeps ==
    ASSUME NEW b \in Nat, VideoInv(b), NEW r \in Rank, NEW how, Active(r), Leave(r, how),
           Rounds(r, b) = IF Loops /\ ~Bad(b + 1) THEN 2 ELSE 1,
           Everyone(b + Rounds(r, b))
    PROVE  VideoInv(b)'
  <1>t. VideoTypes /\ Stages /\ Roll /\ Control(b) BY DEF VideoInv
  <1>r. \A x \in Rank : Rounds(x, b) \in Nat BY DEF Rounds, One
  <1>g. "ctrl" \in Group /\ "world" \in Group /\ "ctrl" # "world" BY DEF Group
  <1>c. /\ pc' = [pc EXCEPT ![r] = "barrier"]
        /\ Enter(r, "world", OpOf("world"), FALSE, FALSE)
        /\ requests' = requests /\ cancelled' = cancelled /\ turn' = turn
        /\ own' = [own EXCEPT ![r] = "none"]
        /\ agreed' = agreed \ {r} /\ aborted' = aborted \ {r} /\ open' = open \ {r}
    BY DEF Leave, Finish, requestVars, OpOf
  <1>e. /\ attended' \in [Rank -> [Group -> Nat]] /\ meetings' \in [Group -> Seq(VideoMeeting)]
        /\ attended'[r]["world"] = attended[r]["world"] + 1
        /\ \A x \in Rank : x # r => attended'[x]["world"] = attended[x]["world"]
        /\ \A x \in Rank : attended'[x]["ctrl"] = attended[x]["ctrl"]
        /\ meetings'["ctrl"] = meetings["ctrl"]
    <2>1. LET n == attended[r]["world"] + 1
          IN  /\ attended' \in [Rank -> [Group -> Nat]] /\ meetings' \in [Group -> Seq(VideoMeeting)]
              /\ attended'[r]["world"] = n
              /\ \A x \in Rank : \A h \in Group : x # r \/ h # "world" => attended'[x][h] = attended[x][h]
              /\ \A h \in Group : h # "world" => meetings'[h] = meetings[h]
      BY <1>g, <1>t, <1>c, Entering
    <2> QED BY <1>g, <2>1
  <1>f. Roll' BY <1>g, <1>t, <1>c, RollKept
  <1>p. \A x \in Rank \ {r} : pc'[x] = pc[x] /\ own'[x] = own[x] BY <1>c, <1>t DEF VideoTypes
  <1>q. pc'[r] = "barrier" /\ own'[r] = "none" /\ ~Active(r)' /\ pc[r] # "idle"
    BY <1>c, <1>t DEF VideoTypes, Active
  <1>1. VideoTypes'
    <2>1. pc' \in [Rank -> Places] /\ own' \in [Rank -> {"none", "stopped", "failed"}]
      BY <1>c, <1>t DEF VideoTypes, Places
    <2>2. open' \cup agreed' \cup aborted' \subseteq Rank BY <1>c, <1>t DEF VideoTypes
    <2> QED BY <1>t, <1>c, <1>e, <2>1, <2>2 DEF VideoTypes
  <1>2. \A x \in Rank \ {r} : Active(x)' <=> Active(x) BY <1>p DEF Active
  <1>h. turn[r] = Epoch /\ turn[r] >= 1 /\ Epoch \in Nat /\ attended[r]["world"] = turn[r] - 1
    BY <1>t, <1>q DEF Stages, Epoch, VideoTypes
  <1>3. Stages'
    <2>1. turn'[0] = Len(requests') BY <1>t, <1>c DEF Stages, Epoch
    <2>2. \A x \in Rank : turn'[x] = Epoch' \/ (turn'[x] = Epoch' - 1 /\ ~Active(x)')
      BY <1>t, <1>c, <1>2, <1>h DEF Stages, Epoch
    <2>3. \A x \in Rank : pc'[x] # "idle" => turn'[x] >= 1
      BY <1>t, <1>c, <1>p, <1>h DEF Stages
    <2>4. \A x \in Rank : attended'[x]["world"] = IF Active(x)' THEN turn'[x] - 1 ELSE turn'[x]
      <3> SUFFICES ASSUME NEW x \in Rank
                   PROVE  attended'[x]["world"] = IF Active(x)' THEN turn'[x] - 1 ELSE turn'[x]
        OBVIOUS
      <3>1. CASE x = r BY <1>c, <1>e, <1>h, <1>q, <3>1
      <3>2. CASE x # r
        <4>1. attended[x]["world"] = IF Active(x) THEN turn[x] - 1 ELSE turn[x] BY <1>t DEF Stages
        <4> QED BY <1>2, <1>c, <1>e, <3>2, <4>1
      <3> QED BY <3>1, <3>2
    <2>5. \A x, s \in Rank : pc'[x] = "idle" => attended'[s]["world"] >= turn'[x]
      <3> SUFFICES ASSUME NEW x \in Rank, NEW s \in Rank, pc'[x] = "idle"
                   PROVE  attended'[s]["world"] >= turn'[x]
        OBVIOUS
      <3>1. pc[x] = "idle" /\ turn'[x] = turn[x] BY <1>c, <1>p, <1>q
      <3>2. attended[s]["world"] >= turn[x] BY <1>t, <3>1 DEF Stages
      <3>3. attended[s]["world"] \in Nat /\ turn[x] \in Nat BY <1>t, <1>g DEF VideoTypes
      <3>4. attended'[s]["world"] \in {attended[s]["world"], attended[s]["world"] + 1}
        <4>1. CASE s = r BY <1>e, <4>1
        <4>2. CASE s # r BY <1>e, <4>2
        <4> QED BY <4>1, <4>2
      <3>5. attended'[s]["world"] \in Nat BY <1>e, <1>g
      <3> QED BY <3>1, <3>2, <3>3, <3>4, <3>5
    <2> QED BY <2>1, <2>2, <2>3, <2>4, <2>5 DEF Stages, Epoch
  <1>5. /\ \A n \in Nat : (Fails(n)' <=> Fails(n)) /\ (Bad(n)' <=> Bad(n)) /\ (Everyone(n)' <=> Everyone(n))
        /\ Loops' <=> Loops
        /\ \A x \in Rank : (Here(x)' <=> Here(x)) /\ (stop_signal(x)' <=> stop_signal(x))
    BY <1>c, <1>e DEF Fails, Stops, Bad, Everyone, Loops, Here, Epoch, stop_signal
  <1>b. b + 1 \in Nat /\ b + 2 \in Nat OBVIOUS
  <1>6. ASSUME NEW x \in Rank
        PROVE  Rounds(x, b)' = Rounds(x, b) /\ Spot(x, b)'
    <2>1. CASE x = r
      <3>1. Rounds(r, b)' = IF Loops /\ ~Bad(b + 1) THEN 2 ELSE 1
        BY <1>5, <1>b, <1>h, <1>q, <1>c DEF Rounds, Here, Epoch
      <3>2. Spot(r, b)' BY <1>q, <1>c DEF Spot
      <3> QED BY <2>1, <3>1, <3>2
    <2>2. CASE x # r
      <3>1. /\ pc'[x] = pc[x] /\ own'[x] = own[x]
            /\ x \in open' <=> x \in open
            /\ x \in agreed' <=> x \in agreed
            /\ x \in aborted' <=> x \in aborted
        BY <1>c, <1>p, <2>2
      <3>2. Rounds(x, b)' = Rounds(x, b) BY <1>2, <1>5, <1>b, <2>2, <3>1 DEF Rounds, One
      <3>3. Spot(x, b) BY <1>t DEF Control
      <3>4. Spot(x, b)' BY <1>5, <1>b, <3>1, <3>3 DEF Spot
      <3> QED BY <3>2, <3>4
    <2> QED BY <2>1, <2>2
  <1>8. Control(b)'
    <2>1. ASSUME NEW x \in Rank
          PROVE  /\ attended'[x]["ctrl"] = b + Rounds(x, b)'
                 /\ Done(x)' => Everyone(b + Rounds(x, b))'
      <3>1. attended'[x]["ctrl"] = b + Rounds(x, b)' BY <1>t, <1>e, <1>6 DEF Control
      <3>2. ASSUME Done(x)'
            PROVE  Everyone(b + Rounds(x, b))'
        <4>2. PICK k \in Nat : k = b + Rounds(x, b) BY <1>r
        <4>1. CASE x = r BY <1>5, <1>6, <4>1, <4>2
        <4>3. CASE x # r
          <5>1. Done(x) BY <1>2, <1>5, <3>2, <4>3 DEF Done
          <5>2. Everyone(k) BY <1>t, <4>2, <5>1 DEF Control
          <5> QED BY <1>5, <1>6, <4>2, <5>2
        <4> QED BY <4>1, <4>3
      <3> QED BY <3>1, <3>2
    <2>3. \A x \in Rank : x \in open' => Everyone(b + 1)' /\ ~Bad(b + 1)'
      BY <1>t, <1>5, <1>b, <1>c DEF Control
    <2>4. \A x \in Rank : x \in aborted' => x \in open' BY <1>t, <1>c DEF Control
    <2>5. \A x \in Rank : Spot(x, b)' BY <1>6
    <2> QED BY <2>1, <2>3, <2>4, <2>5 DEF Control
  <1> QED BY <1>1, <1>3, <1>f, <1>8 DEF VideoInv

\* A rank past a rendezvous has no rank behind it.
LEMMA MetAll ==
    ASSUME VideoTypes, Roll, NEW r \in Rank, NEW g \in Group, Met(r, g), attended[r][g] >= 1
    PROVE  \A x \in Rank : attended[x][g] >= attended[r][g]
  <1>1. attended[r][g] \in Nat /\ Len(meetings[g]) \in Nat BY DEF VideoTypes
  <1>2. attended[r][g] \in 1..Len(meetings[g]) BY <1>1 DEF Roll
  <1>3. meetings[g][attended[r][g]].ranks = {x \in Rank : attended[x][g] >= attended[r][g]}
    BY <1>2 DEF Roll
  <1>4. meetings[g][attended[r][g]].ranks = Rank BY DEF Met, Meeting
  <1> QED BY <1>3, <1>4

\* Rank r goes to another place, and its own data change.
LEMMA Moves ==
    ASSUME VideoTypes, NEW r \in Rank, NEW place \in Places, pc' = [pc EXCEPT ![r] = place],
           NEW how \in {"none", "stopped", "failed"},
           (own' = own /\ how = own[r]) \/ own' = [own EXCEPT ![r] = how],
           open' \in {open, open \cup {r}}, aborted' \in {aborted, aborted \cup {r}},
           agreed' \in {agreed, agreed \cup {r}, agreed \ {r}}
    PROVE  Elsewhere(r) /\ OwnTypes' /\ pc'[r] = place /\ own'[r] = how
  <1>1. pc' \in [Rank -> Places] /\ pc'[r] = place /\ \A x \in Rank \ {r} : pc'[x] = pc[x]
    BY DEF VideoTypes
  <1>2. /\ own' \in [Rank -> {"none", "stopped", "failed"}] /\ own'[r] = how
        /\ \A x \in Rank \ {r} : own'[x] = own[x]
    BY DEF VideoTypes
  <1>3. open' \cup agreed' \cup aborted' \subseteq Rank BY DEF VideoTypes
  <1> QED BY <1>1, <1>2, <1>3 DEF Elsewhere, OwnTypes

\* A rank that is at work is in the last request.
LEMMA ActiveHere ==
    ASSUME NEW b \in Nat, VideoInv(b), NEW r \in Rank, Active(r)
    PROVE  /\ Here(r) /\ turn[r] = Epoch /\ Epoch \in 1..Len(requests)
           /\ Loops <=> Request(r).kind = "segments"
           /\ ~Loops <=> Request(r).kind = "rank0"
           /\ Spot(r, b)
           /\ attended[r]["ctrl"] = b + Rounds(r, b)
           /\ Rounds(r, b) = IF Loops THEN One(r \in open) + One(r \in agreed) ELSE One(pc[r] = "meet3")
           /\ r \in open => Everyone(b + 1) /\ ~Bad(b + 1)
  <1>1. VideoTypes /\ Stages /\ Control(b) BY DEF VideoInv
  <1>2. turn[r] = Epoch /\ turn[r] >= 1 /\ Epoch \in Nat BY <1>1 DEF Stages, Active, Epoch, VideoTypes
  <1>3. requests[Epoch] \in {VideoRequest(n) : n \in VideoLengths}
    BY <1>1, <1>2 DEF VideoTypes, Epoch
  <1>4. requests[Epoch].kind \in {"segments", "rank0"} BY <1>3 DEF VideoRequest
  <1>5. Here(r) BY <1>2 DEF Here
  <1>6. /\ Spot(r, b) /\ attended[r]["ctrl"] = b + Rounds(r, b)
        /\ r \in open => Everyone(b + 1) /\ ~Bad(b + 1)
    BY <1>1 DEF Control
  <1>7. Rounds(r, b) = IF Loops THEN One(r \in open) + One(r \in agreed) ELSE One(pc[r] = "meet3")
    BY <1>5 DEF Rounds
  <1> QED BY <1>2, <1>4, <1>5, <1>6, <1>7 DEF Request, Loops, Epoch

\* A move without a rendezvous, within the segments.
LEMMA LocalKeeps ==
    ASSUME NEW b \in Nat, VideoInv(b), NEW r \in Rank, Active(r), Loops,
           NEW place \in Places \ {"idle", "barrier", "run", "meet3"}, pc' = [pc EXCEPT ![r] = place],
           NEW how \in {"none", "stopped", "failed"},
           (own' = own /\ how = own[r]) \/ own' = [own EXCEPT ![r] = how],
           open' = open, agreed' = agreed,
           aborted' = aborted \/ (r \in open /\ aborted' = aborted \cup {r}),
           UNCHANGED <<requestVars, turn, meetingVars>>,
           Spot(r, b)'
    PROVE  VideoInv(b)'
  <1>1. Elsewhere(r) /\ OwnTypes' /\ pc'[r] = place /\ own'[r] = how BY Moves DEF VideoInv
  <1>2. UNCHANGED <<requestVars, turn, meetings, attended>> BY DEF meetingVars
  <1>3. Active(r)' BY <1>1 DEF Active
  <1>4. Loops' /\ Here(r)' BY <1>2, ActiveHere DEF Loops, Here, Epoch, requestVars
  <1>5. Rounds(r, b)' = Rounds(r, b) BY <1>3, <1>4, ActiveHere DEF Rounds, One
  <1>6. r \in open' => Everyone(b + 1) /\ ~Bad(b + 1) BY ActiveHere
  <1>7. r \in aborted' => r \in open' BY DEF VideoInv, Control
  <1> QED BY <1>1, <1>2, <1>3, <1>5, <1>6, <1>7, MoveKeeps

\* From one place of a segment to the next.
LEMMA ForwardKeeps ==
    ASSUME NEW b \in Nat, VideoInv(b), NEW r \in Rank, pc[r] \in {"diffuse", "recv", "send", "save"},
           NEW place \in {"diffuse", "recv", "send", "save", "settle"}, pc' = [pc EXCEPT ![r] = place],
           UNCHANGED <<own, open, agreed, aborted>>,
           UNCHANGED <<requestVars, turn, meetingVars>>
    PROVE  VideoInv(b)'
  <1>1. Active(r) BY DEF Active
  <1>2. Spot(r, b) BY <1>1, ActiveHere
  <1>3. Loops /\ r \in open /\ r \notin agreed /\ own[r] = "none" /\ r \notin aborted BY <1>2 DEF Spot
  <1>4. place \in Places \ {"idle", "barrier", "run", "meet3"} BY DEF Places, Sending
  <1>5. pc'[r] = place BY DEF VideoInv, VideoTypes
  <1>6. Loops' BY <1>3 DEF Loops, Epoch, requestVars
  <1>7. Spot(r, b)' BY <1>3, <1>5, <1>6 DEF Spot
  <1> QED BY <1>1, <1>3, <1>4, <1>7, LocalKeeps

\* To the exception handlers, from a place between the two rendezvous.
LEMMA RethrowKeeps ==
    ASSUME NEW b \in Nat, VideoInv(b), NEW r \in Rank, Active(r), Loops,
           NEW how \in {"stopped", "failed"}, pc' = [pc EXCEPT ![r] = "unwind"],
           own' = [own EXCEPT ![r] = how], open' = open, agreed' = agreed, aborted' = aborted,
           UNCHANGED <<requestVars, turn, meetingVars>>,
           r \notin open /\ r \in agreed => Everyone(b + 1) /\ Bad(b + 1),
           r \notin open /\ r \notin agreed => how = "failed",
           r \in open /\ r \notin agreed /\ how = "stopped" => stop_signal(r),
           r \in open /\ r \in agreed => Everyone(b + 2) /\ (Bad(b + 2) \/ r = 0)
    PROVE  VideoInv(b)'
  <1>1. "unwind" \in Places \ {"idle", "barrier", "run", "meet3"} BY DEF Places, Sending
  <1>2. pc'[r] = "unwind" /\ own'[r] = how BY DEF VideoInv, VideoTypes
  <1>3. /\ Loops' /\ (stop_signal(r)' <=> stop_signal(r))
        /\ \A n \in Nat : (Everyone(n)' <=> Everyone(n)) /\ (Bad(n)' <=> Bad(n))
    BY DEF Loops, Epoch, stop_signal, Everyone, Bad, Fails, Stops, requestVars, meetingVars
  <1>4. b + 1 \in Nat /\ b + 2 \in Nat OBVIOUS
  <1>5. Spot(r, b)' BY <1>2, <1>3, <1>4 DEF Spot
  <1> QED BY <1>1, <1>5, LocalKeeps

\* What a rendezvous raises.
LEMMA RaisedTells ==
    ASSUME NEW b \in Nat, VideoInv(b), NEW r \in Rank, NEW n \in Nat \ {0},
           attended[r]["ctrl"] = n, NEW failed \in BOOLEAN
    PROVE  /\ Raised(r, failed) \in {"none", "stopped", "failed"}
           /\ Raised(r, failed) # "none" => Bad(n)
           /\ Raised(r, failed) = "none" /\ ~failed => ~Bad(n)
           /\ Met(r, "ctrl") => Everyone(n)
  <1>t. VideoTypes /\ Roll BY DEF VideoInv
  <1>g. "ctrl" \in Group BY DEF Group
  <1>1. n \in 1..Len(meetings["ctrl"]) BY <1>t, <1>g DEF Roll, VideoTypes
  <1>2. Meeting(r, "ctrl") = meetings["ctrl"][n] BY DEF Meeting
  <1>3. meetings["ctrl"][n] \in VideoMeeting BY <1>1, <1>t, <1>g DEF VideoTypes
  <1> DEFINE m == meetings["ctrl"][n]
  <1>4. m.stopped \in BOOLEAN /\ m.failed \in BOOLEAN BY <1>3 DEF VideoMeeting
  <1>5. Bad(n) <=> m.failed \/ m.stopped BY <1>1 DEF Bad, Fails, Stops
  <1>6. Raised(r, failed) = CASE m.stopped -> "stopped"
                              [] ~m.stopped /\ m.failed /\ ~failed -> "failed"
                              [] OTHER -> "none"
    BY <1>2 DEF Raised
  <1> HIDE DEF m
  <1>7. Met(r, "ctrl") => Everyone(n) BY <1>t, <1>g, MetAll DEF Everyone
  <1> QED BY <1>4, <1>5, <1>6, <1>7

\* The steps that meet nobody.
LEMMA SegmentMoves ==
    ASSUME NEW b \in Nat, VideoInv(b), NEW r \in Rank,
           \/ FailOutput(r) \/ Diffuse(r) \/ StopSegment(r) \/ FailSegment(r) \/ RecvTail(r)
           \/ HandOff(r) \/ Save(r) \/ AbortOwed(r) \/ Discard(r)
    PROVE  VideoInv(b)'
  <1> USE DEF Goto
  <1>1. CASE FailOutput(r)
    <2>1. /\ pc[r] = "run" /\ Request(r).kind = "segments"
          /\ pc' = [pc EXCEPT ![r] = "unwind"] /\ own' = [own EXCEPT ![r] = "failed"]
          /\ open' = open /\ agreed' = agreed /\ aborted' = aborted
          /\ UNCHANGED <<requestVars, turn, meetingVars>>
      BY <1>1 DEF FailOutput, Starts
    <2>2. Active(r) BY <2>1 DEF Active
    <2>3. Loops /\ r \notin open /\ r \notin agreed BY <2>1, <2>2, ActiveHere DEF Spot
    <2> QED BY <2>1, <2>2, <2>3, RethrowKeeps
  <1>2. CASE Diffuse(r)
    <2>1. /\ pc[r] = "diffuse" /\ \E place \in {"send", "recv"} : pc' = [pc EXCEPT ![r] = place]
          /\ UNCHANGED <<own, open, agreed, aborted>> /\ UNCHANGED <<requestVars, turn, meetingVars>>
      BY <1>2 DEF Diffuse, segmentVars, exitVars
    <2> QED BY <2>1, ForwardKeeps
  <1>3. CASE StopSegment(r)
    <2>1. /\ pc[r] = "diffuse" /\ stop_signal(r)
          /\ pc' = [pc EXCEPT ![r] = "unwind"] /\ own' = [own EXCEPT ![r] = "stopped"]
          /\ open' = open /\ agreed' = agreed /\ aborted' = aborted
          /\ UNCHANGED <<requestVars, turn, meetingVars>>
      BY <1>3 DEF StopSegment, Rethrow
    <2>2. Active(r) BY <2>1 DEF Active
    <2>3. Loops /\ r \in open /\ r \notin agreed BY <2>1, <2>2, ActiveHere DEF Spot
    <2> QED BY <2>1, <2>2, <2>3, RethrowKeeps
  <1>4. CASE FailSegment(r)
    <2>1. /\ pc[r] \in {"diffuse", "send", "save", "concat"}
          /\ pc' = [pc EXCEPT ![r] = "unwind"] /\ own' = [own EXCEPT ![r] = "failed"]
          /\ open' = open /\ agreed' = agreed /\ aborted' = aborted
          /\ UNCHANGED <<requestVars, turn, meetingVars>>
      BY <1>4 DEF FailSegment
    <2>2. Active(r) BY <2>1 DEF Active
    <2>3. Loops /\ r \in open /\ (r \in agreed => r = 0 /\ Everyone(b + 2))
      BY <2>1, <2>2, ActiveHere DEF Spot
    <2> QED BY <2>1, <2>2, <2>3, RethrowKeeps
  <1>5. CASE RecvTail(r)
    <2>1. /\ pc[r] = "recv" /\ UNCHANGED <<own, open, agreed>>
          /\ UNCHANGED <<requestVars, turn, meetingVars>>
          /\ \/ /\ aborted' = aborted \cup {r} /\ pc' = [pc EXCEPT ![r] = "unwind"]
             \/ /\ aborted' = aborted /\ \E place \in {"send", "save"} : pc' = [pc EXCEPT ![r] = place]
      <3>1. /\ pc[r] = "recv" /\ UNCHANGED <<own, open, agreed>>
            /\ UNCHANGED <<requestVars, turn, meetingVars>>
            /\ aborted' = IF tail'[r].abort THEN aborted \cup {r} ELSE aborted
            /\ pc' = [pc EXCEPT ![r] = CASE tail'[r].abort -> "unwind"
                                         [] ~tail'[r].abort /\ index[r] < Last(r) -> "send"
                                         [] OTHER -> "save"]
        BY <1>5 DEF RecvTail
      <3>2. CASE tail'[r].abort BY <3>1, <3>2
      <3>3. CASE ~tail'[r].abort
        <4>1. CASE index[r] < Last(r) BY <3>1, <3>3, <4>1
        <4>2. CASE ~(index[r] < Last(r)) BY <3>1, <3>3, <4>2
        <4> QED BY <4>1, <4>2
      <3> QED BY <3>2, <3>3
    <2>2. Active(r) BY <2>1 DEF Active
    <2>3. Loops /\ r \in open /\ r \notin agreed /\ own[r] = "none" BY <2>1, <2>2, ActiveHere DEF Spot
    <2>4. CASE aborted' = aborted /\ \E place \in {"send", "save"} : pc' = [pc EXCEPT ![r] = place]
      BY <2>1, <2>4, ForwardKeeps
    <2>5. CASE aborted' = aborted \cup {r} /\ pc' = [pc EXCEPT ![r] = "unwind"]
      <3>1. "unwind" \in Places \ {"idle", "barrier", "run", "meet3"} BY DEF Places, Sending
      <3>2. pc'[r] = "unwind" /\ own'[r] = "none" /\ Loops'
        BY <2>1, <2>3, <2>5 DEF VideoInv, VideoTypes, Loops, Epoch, requestVars
      <3>3. Spot(r, b)' BY <2>1, <2>3, <2>5, <3>2 DEF Spot
      <3> QED BY <2>1, <2>2, <2>3, <2>5, <3>1, <3>3, LocalKeeps
    <2> QED BY <2>1, <2>4, <2>5
  <1>6. CASE HandOff(r)
    <2>1. /\ pc[r] = "send" /\ pc' = [pc EXCEPT ![r] = "save"]
          /\ UNCHANGED <<own, open, agreed, aborted>> /\ UNCHANGED <<requestVars, turn, meetingVars>>
      BY <1>6 DEF HandOff, exitVars
    <2> QED BY <2>1, ForwardKeeps
  <1>7. CASE Save(r)
    <2>1. /\ pc[r] = "save" /\ \E place \in {"diffuse", "settle"} : pc' = [pc EXCEPT ![r] = place]
          /\ UNCHANGED <<own, open, agreed, aborted>> /\ UNCHANGED <<requestVars, turn, meetingVars>>
      BY <1>7 DEF Save, exitVars
    <2> QED BY <2>1, ForwardKeeps
  <1>8. CASE AbortOwed(r) \/ Discard(r)
    <2>1. /\ pc[r] = "unwind" /\ pc' = [pc EXCEPT ![r] = "unwind"]
          /\ own' = own /\ open' = open /\ agreed' = agreed /\ aborted' = aborted
          /\ UNCHANGED <<requestVars, turn, meetingVars>>
      BY <1>8 DEF AbortOwed, Discard, exitVars
    <2>2. Active(r) BY <2>1 DEF Active
    <2>3. Spot(r, b) /\ Loops BY <2>1, <2>2, ActiveHere DEF Spot
    <2>4. pc' = pc BY <2>1 DEF VideoInv, VideoTypes
    <2>5. Spot(r, b)'
      BY <2>1, <2>3, <2>4 DEF Spot, Loops, Epoch, stop_signal, Everyone, Bad, Fails, Stops,
         requestVars, meetingVars
    <2>6. "unwind" \in Places \ {"idle", "barrier", "run", "meet3"} BY DEF Places, Sending
    <2>7. own[r] \in {"none", "stopped", "failed"} BY DEF VideoInv, VideoTypes
    <2> QED BY <2>1, <2>2, <2>3, <2>5, <2>6, <2>7, LocalKeeps
  <1> QED BY <1>1, <1>2, <1>3, <1>4, <1>5, <1>6, <1>7, <1>8

\* A rank comes to a rendezvous and waits there.
LEMMA ComesKeeps ==
    ASSUME NEW b \in Nat, VideoInv(b), NEW r \in Rank, Active(r), r \notin agreed,
           NEW place \in {"meet1", "meet2", "meet3"}, NEW failed \in BOOLEAN,
           Meet(r, failed, place), pc[r] # "meet3",
           NEW how \in {"none", "stopped", "failed"},
           (own' = own /\ how = own[r]) \/ own' = [own EXCEPT ![r] = how],
           open' = open, aborted' = aborted,
           agreed' = IF Loops THEN agreed \cup {r} ELSE agreed,
           place = "meet1" => Loops /\ r \notin open /\ r \notin aborted /\ how # "stopped"
                              /\ (how = "failed" => failed),
           place = "meet2" => Loops /\ r \in open /\ how = "none",
           place = "meet3" =>
               IF Loops THEN /\ how # "none"
                             /\ r \notin open => how = "failed" /\ failed
                             /\ r \in open => failed \/ stop_signal(r)
               ELSE r \notin open \cup aborted
    PROVE  VideoInv(b)'
  <1>0. place \in Places BY DEF Places
  <1>1. /\ Enter(r, "ctrl", "rendezvous", stop_signal(r), failed)
        /\ pc' = [pc EXCEPT ![r] = place] /\ UNCHANGED <<requestVars, turn>>
    BY DEF Meet, Rendezvous, Goto
  <1>2. Elsewhere(r) /\ OwnTypes' /\ pc'[r] = place /\ own'[r] = how
    BY <1>0, <1>1, Moves DEF VideoInv
  <1>3. Active(r)' BY <1>2 DEF Active
  <1>4. /\ Loops' <=> Loops
        /\ Here(r)' <=> Here(r)
    BY <1>1 DEF Loops, Here, Epoch, requestVars
  <1>5. Here(r) BY ActiveHere
  <1>6. Rounds(r, b)' = Rounds(r, b) + 1
    <2>1. Rounds(r, b) = IF Loops THEN One(r \in open) + One(r \in agreed) ELSE One(pc[r] = "meet3")
      BY ActiveHere
    <2>2. Rounds(r, b)' = IF Loops THEN One(r \in open') + One(r \in agreed') ELSE One(pc'[r] = "meet3")
      BY <1>3, <1>4, <1>5 DEF Rounds, One
    <2>3. CASE Loops
      <3>1. r \in agreed' /\ (r \in open' <=> r \in open) BY <2>3
      <3> QED BY <2>1, <2>2, <2>3, <3>1 DEF One
    <2>4. CASE ~Loops
      <3>1. place = "meet3" BY <2>4
      <3> QED BY <1>2, <2>1, <2>2, <2>4, <3>1 DEF One
    <2> QED BY <2>3, <2>4
  <1>7. stop_signal(r) \in BOOLEAN BY DEF stop_signal
  <1>n. PICK n \in Nat : n = b + Rounds(r, b) + 1 BY DEF Rounds, One
  <1>8. /\ Fails(n)' <=> Fails(n) \/ failed
        /\ Bad(n)' <=> Bad(n) \/ failed \/ stop_signal(r)
    BY <1>1, <1>7, <1>n, Comes
  <1>9. Loops => n = IF r \in open THEN b + 2 ELSE b + 1
    BY <1>n, ActiveHere DEF One
  <1>10. Spot(r, b)'
    <2>1. CASE place = "meet1"
      <3>1. n = b + 1 BY <1>9, <2>1
      <3>2. how = "failed" => Fails(b + 1)' BY <1>8, <2>1, <3>1
      <3> QED BY <1>2, <1>4, <2>1, <3>2 DEF Spot
    <2>2. CASE place = "meet2" BY <1>2, <1>4, <2>2 DEF Spot
    <2>3. CASE place = "meet3" /\ Loops
      <3>1. r \notin open => Fails(b + 1)' BY <1>8, <1>9, <2>3
      <3>2. r \in open => Bad(b + 2)' BY <1>8, <1>9, <2>3
      <3> QED BY <1>2, <1>4, <2>3, <3>1, <3>2 DEF Spot
    <2>4. CASE place = "meet3" /\ ~Loops BY <1>2, <1>4, <2>4 DEF Spot
    <2> QED BY <2>1, <2>2, <2>3, <2>4
  <1> QED BY <1>1, <1>2, <1>3, <1>6, <1>7, <1>10, MeetKeeps

\* The steps that lead to a rendezvous.
LEMMA SegmentComes ==
    ASSUME NEW b \in Nat, VideoInv(b), NEW r \in Rank,
           \/ RunAlone(r) \/ Prepare(r) \/ Settle(r)
           \/ r = 0 /\ FailAlone
           \/ r = 0 /\ FailPrepare
    PROVE  VideoInv(b)'
  <1>1. CASE RunAlone(r) \/ (r = 0 /\ FailAlone)
    <2>1. /\ pc[r] = "run" /\ Request(r).kind = "rank0"
          /\ open' = open /\ aborted' = aborted /\ agreed' = agreed
          /\ \E failed \in BOOLEAN : Meet(r, failed, "meet3")
          /\ \E how \in {"none", "stopped", "failed"} :
                (own' = own /\ how = own[r]) \/ own' = [own EXCEPT ![r] = how]
      <3>0. own[r] \in {"none", "stopped", "failed"} BY DEF VideoInv, VideoTypes
      <3>1. CASE RunAlone(r) BY <3>0, <3>1 DEF RunAlone
      <3>2. CASE r = 0 /\ FailAlone BY <3>2 DEF FailAlone
      <3> QED BY <1>1, <3>1, <3>2
    <2>2. Active(r) BY <2>1 DEF Active
    <2>3. ~Loops /\ r \notin open /\ r \notin aborted /\ r \notin agreed
      BY <2>1, <2>2, ActiveHere DEF Spot
    <2>4. PICK failed \in BOOLEAN : Meet(r, failed, "meet3") BY <2>1
    <2>5. PICK how \in {"none", "stopped", "failed"} :
            (own' = own /\ how = own[r]) \/ own' = [own EXCEPT ![r] = how]
      BY <2>1
    <2> QED BY <2>1, <2>2, <2>3, <2>4, <2>5, ComesKeeps
  <1>2. CASE Prepare(r)
    <2>1. /\ pc[r] = "run" /\ Request(r).kind = "segments" /\ Meet(r, FALSE, "meet1")
          /\ open' = open /\ aborted' = aborted /\ agreed' = agreed \cup {r} /\ own' = own
      BY <1>2 DEF Prepare, Starts
    <2>2. Active(r) BY <2>1 DEF Active
    <2>3. Loops /\ r \notin open /\ r \notin aborted /\ r \notin agreed /\ own[r] = "none"
      BY <2>1, <2>2, ActiveHere DEF Spot
    <2> QED BY <2>1, <2>2, <2>3, ComesKeeps
  <1>3. CASE r = 0 /\ FailPrepare
    <2>1. /\ pc[r] = "run" /\ Request(r).kind = "segments" /\ Meet(r, TRUE, "meet1")
          /\ open' = open /\ aborted' = aborted /\ agreed' = agreed \cup {r}
          /\ own' = [own EXCEPT ![r] = "failed"]
      BY <1>3 DEF FailPrepare, Starts
    <2>2. Active(r) BY <2>1 DEF Active
    <2>3. Loops /\ r \notin open /\ r \notin aborted /\ r \notin agreed
      BY <2>1, <2>2, ActiveHere DEF Spot
    <2> QED BY <2>1, <2>2, <2>3, ComesKeeps
  <1>4. CASE Settle(r)
    <2>1. /\ pc[r] = "settle" /\ Meet(r, FALSE, "meet2")
          /\ open' = open /\ aborted' = aborted /\ agreed' = agreed \cup {r} /\ own' = own
      BY <1>4 DEF Settle
    <2>2. Active(r) BY <2>1 DEF Active
    <2>3. Loops /\ r \in open /\ r \notin agreed /\ own[r] = "none"
      BY <2>1, <2>2, ActiveHere DEF Spot
    <2> QED BY <2>1, <2>2, <2>3, ComesKeeps
  <1> QED BY <1>1, <1>2, <1>3, <1>4

\* The steps that leave one, or the request.
LEMMA SegmentLeaves ==
    ASSUME NEW b \in Nat, VideoInv(b), NEW r \in Rank,
           Prepared(r) \/ Settled(r) \/ Concat(r) \/ Unwound(r) \/ Reported(r)
    PROVE  VideoInv(b)'
  <1>b. b + 1 \in Nat \ {0} /\ b + 2 \in Nat \ {0} /\ b + 0 = b OBVIOUS
  <1>1. CASE Prepared(r)
    <2>1. pc[r] = "meet1" /\ Met(r, "ctrl") BY <1>1 DEF Prepared
    <2>2. Active(r) BY <2>1 DEF Active
    <2>3. /\ Loops /\ r \notin open /\ r \in agreed /\ r \notin aborted /\ own[r] # "stopped"
          /\ own[r] = "failed" => Fails(b + 1)
          /\ attended[r]["ctrl"] = b + 1
      BY <2>1, <2>2, ActiveHere DEF Spot, One
    <2> DEFINE raised == Raised(r, own[r] = "failed")
    <2>4. /\ raised \in {"none", "stopped", "failed"}
          /\ raised # "none" => Bad(b + 1)
          /\ raised = "none" /\ own[r] # "failed" => ~Bad(b + 1)
          /\ Everyone(b + 1)
      BY <1>b, <2>1, <2>3, RaisedTells
    <2> HIDE DEF raised
    <2>5. \/ \E how \in {"stopped", "failed"} :
                Rethrow(r, how) /\ ((how = raised /\ raised # "none") \/ own[r] = "failed")
          \/ /\ raised = "none" /\ own[r] = "none"
             /\ agreed' = agreed \ {r} /\ open' = open \cup {r}
             /\ \E place \in {"settle", "diffuse"} : Goto(r, place)
             /\ own' = own /\ aborted' = aborted /\ UNCHANGED meetingVars
      <3>1. CASE raised # "none" /\ Rethrow(r, raised) BY <2>4, <3>1
      <3>2. CASE raised = "none" /\ own[r] = "failed" /\ Rethrow(r, "failed") BY <3>2
      <3>3. CASE ~(raised # "none" /\ Rethrow(r, raised))
                 /\ ~(raised = "none" /\ own[r] = "failed" /\ Rethrow(r, "failed"))
        BY <1>1, <3>3 DEF Prepared, raised
      <3> QED BY <3>1, <3>2, <3>3
    <2>6. ASSUME NEW how \in {"stopped", "failed"}, Rethrow(r, how),
                 (how = raised /\ raised # "none") \/ own[r] = "failed"
          PROVE  VideoInv(b)'
      <3>1. Bad(b + 1) BY <2>3, <2>4, <2>6 DEF Bad
      <3>2. /\ pc' = [pc EXCEPT ![r] = "unwind"] /\ own' = [own EXCEPT ![r] = how]
            /\ open' = open /\ agreed' = agreed /\ aborted' = aborted
            /\ UNCHANGED <<requestVars, turn, meetingVars>>
        BY <2>6 DEF Rethrow, Goto
      <3> QED BY <2>2, <2>3, <2>4, <3>1, <3>2, RethrowKeeps
    <2>7. ASSUME raised = "none", own[r] = "none", agreed' = agreed \ {r}, open' = open \cup {r},
                 NEW place \in {"settle", "diffuse"}, Goto(r, place), own' = own,
                 aborted' = aborted, UNCHANGED meetingVars
          PROVE  VideoInv(b)'
      <3>1. pc' = [pc EXCEPT ![r] = place] /\ UNCHANGED <<requestVars, turn, meetings, attended>>
        BY <2>7 DEF Goto, meetingVars
      <3>2. place \in Places BY DEF Places, Sending
      <3>3. Elsewhere(r) /\ OwnTypes' /\ pc'[r] = place /\ own'[r] = "none"
        BY <2>7, <3>1, <3>2, Moves DEF VideoInv
      <3>4. Active(r)' /\ Loops' /\ Here(r)'
        BY <2>2, <2>3, <3>1, <3>3, ActiveHere DEF Active, Loops, Here, Epoch, requestVars
      <3>5. Rounds(r, b)' = Rounds(r, b)
        BY <2>2, <2>3, <2>7, <3>4, ActiveHere DEF Rounds, One
      <3>6. Spot(r, b)' BY <2>3, <2>7, <3>3, <3>4 DEF Spot
      <3>7. ~Bad(b + 1) BY <2>4, <2>7
      <3> QED BY <2>2, <2>3, <2>4, <2>7, <3>1, <3>3, <3>4, <3>5, <3>6, <3>7, MoveKeeps
    <2> QED BY <2>5, <2>6, <2>7
  <1>2. CASE Settled(r)
    <2>1. pc[r] = "meet2" /\ Met(r, "ctrl") BY <1>2 DEF Settled
    <2>2. Active(r) BY <2>1 DEF Active
    <2>3. /\ Loops /\ r \in open /\ r \in agreed /\ own[r] = "none"
          /\ attended[r]["ctrl"] = b + 2 /\ Rounds(r, b) = 2 /\ ~Bad(b + 1)
      BY <2>1, <2>2, ActiveHere DEF Spot, One
    <2>4. /\ Raised(r, FALSE) \in {"none", "stopped", "failed"}
          /\ Raised(r, FALSE) # "none" => Bad(b + 2)
          /\ Raised(r, FALSE) = "none" => ~Bad(b + 2)
          /\ Everyone(b + 2)
      BY <1>b, <2>1, <2>3, RaisedTells
    <2>5. CASE Raised(r, FALSE) # "none" /\ Rethrow(r, Raised(r, FALSE))
      <3>1. /\ pc' = [pc EXCEPT ![r] = "unwind"] /\ own' = [own EXCEPT ![r] = Raised(r, FALSE)]
            /\ open' = open /\ agreed' = agreed /\ aborted' = aborted
            /\ UNCHANGED <<requestVars, turn, meetingVars>>
        BY <2>5 DEF Rethrow, Goto
      <3>2. PICK how \in {"stopped", "failed"} : how = Raised(r, FALSE) BY <2>4, <2>5
      <3> QED BY <2>2, <2>3, <2>4, <2>5, <3>1, <3>2, RethrowKeeps
    <2>6. CASE Leave(r, "ok") BY <2>2, <2>3, <2>4, <2>6, LeaveKeeps
    <2>7. CASE Raised(r, FALSE) = "none" /\ r = 0 /\ r \notin aborted /\ Goto(r, "concat")
               /\ UNCHANGED <<segmentVars, meetingVars>>
      <3>1. /\ pc' = [pc EXCEPT ![r] = "concat"] /\ own' = own /\ open' = open /\ agreed' = agreed
            /\ aborted' = aborted /\ UNCHANGED <<requestVars, turn, meetingVars>>
        BY <2>7 DEF Goto, segmentVars, exitVars
      <3>2. "concat" \in Places \ {"idle", "barrier", "run", "meet3"} BY DEF Places
      <3>3. pc'[r] = "concat" BY <3>1 DEF VideoInv, VideoTypes
      <3>4. Everyone(b + 2)' /\ ~Bad(b + 2)' /\ Loops'
        BY <2>3, <2>4, <2>7, <3>1 DEF Everyone, Bad, Fails, Stops, Loops, Epoch, requestVars, meetingVars
      <3>5. Spot(r, b)' BY <2>3, <2>7, <3>1, <3>3, <3>4 DEF Spot
      <3> QED BY <2>2, <2>3, <3>1, <3>2, <3>5, LocalKeeps
    <2> QED BY <1>2, <2>5, <2>6, <2>7 DEF Settled
  <1>3. CASE Concat(r)
    <2>1. pc[r] = "concat" /\ \E how : Leave(r, how) BY <1>3 DEF Concat
    <2>2. Active(r) BY <2>1 DEF Active
    <2>3. Loops /\ Rounds(r, b) = 2 /\ ~Bad(b + 1) /\ Everyone(b + 2)
      BY <2>1, <2>2, ActiveHere DEF Spot, One
    <2> QED BY <2>1, <2>2, <2>3, LeaveKeeps
  <1>4. CASE Unwound(r)
    <2>1. pc[r] = "unwind" /\ Continue(r) BY <1>4 DEF Unwound
    <2>2. Active(r) BY <2>1 DEF Active
    <2>3. /\ Loops /\ Rounds(r, b) = One(r \in open) + One(r \in agreed)
          /\ r \in open => ~Bad(b + 1)
      BY <2>1, <2>2, ActiveHere DEF Spot
    <2>4. /\ own[r] = "none" => r \in open /\ r \notin agreed /\ r \in aborted
          /\ r \notin open /\ r \in agreed => Everyone(b + 1) /\ Bad(b + 1)
          /\ r \notin open /\ r \notin agreed => own[r] = "failed"
          /\ r \in open /\ r \notin agreed /\ own[r] = "stopped" => stop_signal(r)
          /\ r \in open /\ r \in agreed => Everyone(b + 2) /\ (Bad(b + 2) \/ r = 0)
      BY <2>1, <2>2, ActiveHere DEF Spot
    <2>o. own[r] \in {"none", "stopped", "failed"} BY DEF VideoInv, VideoTypes
    <2>5. CASE own[r] = "none" /\ Goto(r, "settle") /\ UNCHANGED <<exitVars, meetingVars>>
      <3>1. /\ pc' = [pc EXCEPT ![r] = "settle"] /\ own' = own /\ open' = open /\ agreed' = agreed
            /\ aborted' = aborted /\ UNCHANGED <<requestVars, turn, meetingVars>>
        BY <2>5 DEF Goto, exitVars
      <3>2. "settle" \in Places \ {"idle", "barrier", "run", "meet3"} BY DEF Places, Sending
      <3>3. pc'[r] = "settle" /\ Loops'
        BY <2>3, <3>1 DEF VideoInv, VideoTypes, Loops, Epoch, requestVars
      <3>4. Spot(r, b)' BY <2>4, <2>5, <3>1, <3>3 DEF Spot
      <3> QED BY <2>2, <2>3, <2>5, <3>1, <3>2, <3>4, LocalKeeps
    <2>6. CASE r \in agreed /\ Leave(r, own[r])
      <3>1. CASE r \in open BY <2>2, <2>3, <2>4, <2>6, <3>1, LeaveKeeps DEF One
      <3>2. CASE r \notin open BY <2>2, <2>3, <2>4, <2>6, <3>2, LeaveKeeps DEF One
      <3> QED BY <3>1, <3>2
    <2>7. CASE /\ own[r] # "none" /\ r \notin agreed /\ agreed' = agreed \cup {r}
               /\ Meet(r, own[r] = "failed", "meet3") /\ UNCHANGED <<own, aborted, open>>
      <3>1. (own[r] = "failed") \in BOOLEAN OBVIOUS
      <3> QED BY <2>1, <2>2, <2>3, <2>4, <2>o, <2>7, <3>1, ComesKeeps
    <2> QED BY <2>1, <2>5, <2>6, <2>7 DEF Continue
  <1>5. CASE Reported(r)
    <2>1. pc[r] = "meet3" /\ Met(r, "ctrl") /\ \E how : Leave(r, how) BY <1>5 DEF Reported
    <2>2. Active(r) BY <2>1 DEF Active
    <2>3. CASE Loops /\ r \in open
      <3>1. attended[r]["ctrl"] = b + 2 /\ Rounds(r, b) = 2 /\ ~Bad(b + 1)
        BY <2>1, <2>2, <2>3, ActiveHere DEF Spot, One
      <3>2. Everyone(b + 2) BY <1>b, <2>1, <3>1, RaisedTells
      <3> QED BY <2>1, <2>2, <2>3, <3>1, <3>2, LeaveKeeps
    <2>4. CASE Loops /\ r \notin open
      <3>1. attended[r]["ctrl"] = b + 1 /\ Rounds(r, b) = 1 /\ Bad(b + 1)
        BY <2>1, <2>2, <2>4, ActiveHere DEF Spot, One, Bad
      <3>2. Everyone(b + 1) BY <1>b, <2>1, <3>1, RaisedTells
      <3> QED BY <2>1, <2>2, <2>4, <3>1, <3>2, LeaveKeeps
    <2>5. CASE ~Loops
      <3>1. attended[r]["ctrl"] = b + 1 /\ Rounds(r, b) = 1
        BY <2>1, <2>2, <2>5, ActiveHere DEF One
      <3>2. Everyone(b + 1) BY <1>b, <2>1, <3>1, RaisedTells
      <3> QED BY <2>1, <2>2, <2>5, <3>1, <3>2, LeaveKeeps
    <2> QED BY <2>3, <2>4, <2>5
  <1> QED BY <1>1, <1>2, <1>3, <1>4, <1>5

\* A cancellation, or nothing.
LEMMA CancelKeeps ==
    ASSUME NEW b \in Nat, VideoInv(b), cancelled \subseteq cancelled',
           UNCHANGED <<requests, pc, turn, meetings, attended, own, open, agreed, aborted>>
    PROVE  VideoInv(b)'
  <1>t. VideoTypes /\ Stages /\ Roll /\ Control(b) BY DEF VideoInv
  <1>1. VideoTypes' BY <1>t DEF VideoTypes
  <1>2. Stages'
    <2>1. \A x \in Rank : Active(x)' <=> Active(x) BY DEF Active
    <2> QED BY <1>t, <2>1 DEF Stages, Epoch
  <1>3. Roll' BY <1>t DEF Roll
  <1>4. /\ \A n \in Nat : (Fails(n)' <=> Fails(n)) /\ (Bad(n)' <=> Bad(n)) /\ (Everyone(n)' <=> Everyone(n))
        /\ Loops' <=> Loops
        /\ \A x \in Rank : (Here(x)' <=> Here(x)) /\ (Active(x)' <=> Active(x)) /\ (Done(x)' <=> Done(x))
        /\ \A x \in Rank : stop_signal(x) => stop_signal(x)'
    BY DEF Fails, Stops, Bad, Everyone, Loops, Here, Epoch, stop_signal, Active, Done
  <1>b. b + 1 \in Nat /\ b + 2 \in Nat OBVIOUS
  <1>5. \A x \in Rank : Rounds(x, b)' = Rounds(x, b) BY <1>4, <1>b DEF Rounds, One
  <1>6. ASSUME NEW x \in Rank PROVE Spot(x, b)'
    <2>1. Spot(x, b) BY <1>t DEF Control
    <2> QED BY <2>1, <1>4, <1>b DEF Spot
  <1>7. Control(b)'
    <2>2. ASSUME NEW x \in Rank, Done(x)'
          PROVE  Everyone(b + Rounds(x, b))'
      <3>1. PICK k \in Nat : k = b + Rounds(x, b) BY DEF Rounds, One
      <3>2. Everyone(k) BY <1>t, <1>4, <2>2, <3>1 DEF Control
      <3> QED BY <1>4, <1>5, <3>1, <3>2
    <2>3. \A x \in Rank : x \in open' => Everyone(b + 1)' /\ ~Bad(b + 1)' BY <1>t, <1>4, <1>b DEF Control
    <2> QED BY <1>t, <1>5, <1>6, <2>2, <2>3 DEF Control
  <1> QED BY <1>1, <1>2, <1>3, <1>7 DEF VideoInv

\* Rank r answers, past the barrier of its request.
LEMMA AnswerVideo ==
    ASSUME NEW b \in Nat, VideoInv(b), NEW r \in Rank, Answer(r), UNCHANGED segmentVars
    PROVE  VideoInv(b)'
  <1>t. VideoTypes /\ Stages /\ Roll /\ Control(b) BY DEF VideoInv
  <1>c. /\ pc[r] = "barrier" /\ Met(r, "world") /\ pc' = [pc EXCEPT ![r] = "idle"]
        /\ UNCHANGED <<requests, cancelled, turn, meetings, attended, own, open, agreed, aborted>>
    BY DEF Answer, requestVars, meetingVars, segmentVars, exitVars
  <1>p. /\ pc' \in [Rank -> Places] /\ pc'[r] = "idle" /\ \A x \in Rank \ {r} : pc'[x] = pc[x]
    BY <1>c, <1>t DEF VideoTypes, Places
  <1>1. VideoTypes' BY <1>t, <1>c, <1>p DEF VideoTypes
  <1>2. \A x \in Rank : Active(x)' <=> Active(x) BY <1>c, <1>p DEF Active
  <1>3. Stages'
    <2>1. turn[r] >= 1 /\ attended[r]["world"] = turn[r] BY <1>t, <1>c DEF Stages, Active
    <2>2. \A s \in Rank : attended[s]["world"] >= turn[r]
      BY <1>t, <1>c, <2>1, MetAll DEF Group
    <2>3. \A x, s \in Rank : pc'[x] = "idle" => attended'[s]["world"] >= turn'[x]
      BY <1>t, <1>c, <1>p, <2>2 DEF Stages
    <2>4. \A x \in Rank : pc'[x] # "idle" => turn'[x] >= 1 BY <1>t, <1>c, <1>p DEF Stages
    <2> QED BY <1>t, <1>c, <1>2, <2>3, <2>4 DEF Stages, Epoch
  <1>4. Roll' BY <1>t, <1>c DEF Roll
  <1>5. /\ \A n \in Nat : (Fails(n)' <=> Fails(n)) /\ (Bad(n)' <=> Bad(n)) /\ (Everyone(n)' <=> Everyone(n))
        /\ Loops' <=> Loops
        /\ \A x \in Rank : (Here(x)' <=> Here(x)) /\ (Done(x)' <=> Done(x))
                           /\ (stop_signal(x)' <=> stop_signal(x))
    BY <1>c, <1>2 DEF Fails, Stops, Bad, Everyone, Loops, Here, Epoch, stop_signal, Done
  <1>b. b + 1 \in Nat /\ b + 2 \in Nat OBVIOUS
  <1>6. \A x \in Rank : Rounds(x, b)' = Rounds(x, b)
    <2> SUFFICES ASSUME NEW x \in Rank PROVE Rounds(x, b)' = Rounds(x, b) OBVIOUS
    <2>1. CASE x = r BY <1>2, <1>5, <1>b, <1>c, <2>1 DEF Rounds, One, Active
    <2>2. CASE x # r BY <1>2, <1>5, <1>b, <1>c, <1>p, <2>2 DEF Rounds, One
    <2> QED BY <2>1, <2>2
  <1>7. ASSUME NEW x \in Rank PROVE Spot(x, b)'
    <2>1. Spot(x, b) BY <1>t DEF Control
    <2>2. CASE x = r BY <1>c, <1>p, <2>1, <2>2 DEF Spot
    <2>3. CASE x # r BY <1>5, <1>b, <1>c, <1>p, <2>1, <2>3 DEF Spot
    <2> QED BY <2>2, <2>3
  <1>8. Control(b)'
    <2>2. ASSUME NEW x \in Rank, Done(x)'
          PROVE  Everyone(b + Rounds(x, b))'
      <3>1. PICK k \in Nat : k = b + Rounds(x, b) BY DEF Rounds, One
      <3>2. Everyone(k) BY <1>t, <1>5, <2>2, <3>1 DEF Control
      <3> QED BY <1>5, <1>6, <3>1, <3>2
    <2>3. \A x \in Rank : x \in open' => Everyone(b + 1)' /\ ~Bad(b + 1)'
      BY <1>t, <1>c, <1>5, <1>b DEF Control
    <2> QED BY <1>t, <1>c, <1>6, <1>7, <2>2, <2>3 DEF Control
  <1> QED BY <1>1, <1>3, <1>4, <1>8 DEF VideoInv

\* The broadcast arrives at rank r.
LEMMA ReceiveVideo ==
    ASSUME NEW b \in Nat, VideoInv(b), NEW r \in Rank, Receive(r), UNCHANGED segmentVars
    PROVE  VideoInv(b)'
  <1>t. VideoTypes /\ Stages /\ Roll /\ Control(b) BY DEF VideoInv
  <1>c. /\ r # 0 /\ pc[r] = "idle" /\ turn[r] < Len(requests)
        /\ turn' = [turn EXCEPT ![r] = turn[r] + 1] /\ pc' = [pc EXCEPT ![r] = "run"]
        /\ UNCHANGED <<requests, cancelled, meetings, attended, own, open, agreed, aborted>>
    BY DEF Receive, requestVars, meetingVars, segmentVars, exitVars
  <1>p. /\ pc' \in [Rank -> Places] /\ pc'[r] = "run" /\ \A x \in Rank \ {r} : pc'[x] = pc[x]
        /\ turn' \in [Rank -> Nat] /\ turn'[r] = turn[r] + 1
        /\ \A x \in Rank \ {r} : turn'[x] = turn[x]
    BY <1>c, <1>t DEF VideoTypes, Places, Sending
  <1>h. /\ Epoch \in Nat /\ turn[r] \in Nat /\ turn[r] = Epoch - 1 /\ turn'[r] = Epoch
        /\ ~Active(r) /\ Active(r)' /\ ~Here(r) /\ Here(r)'
    BY <1>t, <1>c, <1>p DEF Stages, Epoch, VideoTypes, Active, Here
  <1>1. VideoTypes' BY <1>t, <1>c, <1>p DEF VideoTypes
  <1>2. \A x \in Rank \ {r} : (Active(x)' <=> Active(x)) /\ (Here(x)' <=> Here(x))
    BY <1>c, <1>p DEF Active, Here, Epoch
  <1>3. Stages'
    <2>1. turn'[0] = Epoch' BY <1>t, <1>c, <1>p, WorkerAssumption DEF Stages, Epoch, Rank
    <2>2. ASSUME NEW x \in Rank
          PROVE  /\ turn'[x] = Epoch' \/ (turn'[x] = Epoch' - 1 /\ ~Active(x)')
                 /\ pc'[x] # "idle" => turn'[x] >= 1
                 /\ attended'[x]["world"] = IF Active(x)' THEN turn'[x] - 1 ELSE turn'[x]
      <3>e. Epoch' = Epoch BY <1>c DEF Epoch
      <3>1. CASE x = r
        <4>1. attended[r]["world"] = turn[r] BY <1>t, <1>h DEF Stages
        <4> QED BY <1>c, <1>h, <3>1, <3>e, <4>1
      <3>2. CASE x # r BY <1>t, <1>c, <1>p, <1>2, <3>2, <3>e DEF Stages
      <3> QED BY <3>1, <3>2
    <2>3. \A x, s \in Rank : pc'[x] = "idle" => attended'[s]["world"] >= turn'[x]
      BY <1>t, <1>c, <1>p DEF Stages
    <2> QED BY <2>1, <2>2, <2>3 DEF Stages
  <1>4. Roll' BY <1>t, <1>c DEF Roll
  <1>5. /\ \A n \in Nat : (Fails(n)' <=> Fails(n)) /\ (Bad(n)' <=> Bad(n)) /\ (Everyone(n)' <=> Everyone(n))
        /\ Loops' <=> Loops
        /\ \A x \in Rank \ {r} : (Done(x)' <=> Done(x)) /\ (stop_signal(x)' <=> stop_signal(x))
        /\ ~Done(r)'
    BY <1>c, <1>p, <1>h, <1>2 DEF Fails, Stops, Bad, Everyone, Loops, Epoch, stop_signal, Done
  <1>b. b + 1 \in Nat /\ b + 2 \in Nat OBVIOUS
  <1>s. Spot(r, b) BY <1>t DEF Control
  <1>6. \A x \in Rank : Rounds(x, b)' = Rounds(x, b)
    <2> SUFFICES ASSUME NEW x \in Rank PROVE Rounds(x, b)' = Rounds(x, b) OBVIOUS
    <2>1. CASE x = r
      <3>1. r \notin open' /\ r \notin agreed' BY <1>s, <1>c DEF Spot
      <3> QED BY <1>h, <1>p, <2>1, <3>1 DEF Rounds, One
    <2>2. CASE x # r BY <1>2, <1>5, <1>b, <1>c, <1>p, <2>2 DEF Rounds, One
    <2> QED BY <2>1, <2>2
  <1>7. ASSUME NEW x \in Rank PROVE Spot(x, b)'
    <2>1. Spot(x, b) BY <1>t DEF Control
    <2>2. CASE x = r BY <1>c, <1>p, <2>1, <2>2 DEF Spot
    <2>3. CASE x # r BY <1>5, <1>b, <1>c, <1>p, <2>1, <2>3 DEF Spot
    <2> QED BY <2>2, <2>3
  <1>8. Control(b)'
    <2>2. ASSUME NEW x \in Rank, Done(x)'
          PROVE  Everyone(b + Rounds(x, b))'
      <3>0. x # r BY <1>5, <2>2
      <3>1. PICK k \in Nat : k = b + Rounds(x, b) BY DEF Rounds, One
      <3>2. Everyone(k) BY <1>t, <1>5, <2>2, <3>0, <3>1 DEF Control
      <3> QED BY <1>5, <1>6, <3>1, <3>2
    <2>3. \A x \in Rank : x \in open' => Everyone(b + 1)' /\ ~Bad(b + 1)'
      BY <1>t, <1>c, <1>5, <1>b DEF Control
    <2> QED BY <1>t, <1>c, <1>6, <1>7, <2>2, <2>3 DEF Control
  <1> QED BY <1>1, <1>3, <1>4, <1>8 DEF VideoInv

\* When rank 0 is idle, no rank is at work, and all have come to as many
\* rendezvous.
LEMMA AllDone ==
    ASSUME NEW b \in Nat, VideoInv(b), pc[0] = "idle"
    PROVE  \A x \in Rank : /\ turn[x] = Epoch /\ ~Active(x)
                           /\ attended[x]["ctrl"] = b + Rounds(0, b)
                           /\ x \notin open \cup agreed \cup aborted /\ own[x] = "none"
  <1>t. VideoTypes /\ Stages /\ Roll /\ Control(b) BY DEF VideoInv
  <1>0. 0 \in Rank BY WorkerAssumption DEF Rank
  <1> SUFFICES ASSUME NEW x \in Rank
               PROVE  /\ turn[x] = Epoch /\ ~Active(x)
                      /\ attended[x]["ctrl"] = b + Rounds(0, b)
                      /\ x \notin open \cup agreed \cup aborted /\ own[x] = "none"
    OBVIOUS
  <1>1. /\ attended[x]["world"] >= Epoch
        /\ attended[x]["world"] = IF Active(x) THEN turn[x] - 1 ELSE turn[x]
        /\ turn[x] = Epoch \/ turn[x] = Epoch - 1
    BY <1>0, <1>t DEF Stages
  <1>2. turn[x] \in Nat /\ Epoch \in Nat BY <1>t DEF VideoTypes, Epoch
  <1>3. turn[x] = Epoch /\ ~Active(x) BY <1>1, <1>2
  <1>4. turn[0] = Epoch /\ ~Active(0) BY <1>t DEF Stages, Active
  <1>5. Rounds(x, b) = Rounds(0, b) BY <1>3, <1>4 DEF Rounds, Here
  <1>6. Spot(x, b) /\ attended[x]["ctrl"] = b + Rounds(x, b) BY <1>t DEF Control
  <1> QED BY <1>3, <1>5, <1>6 DEF Spot, Active

\* A request is broadcast.
LEMMA SubmitVideo ==
    ASSUME NEW b \in Nat, VideoInv(b), NEW request \in {VideoRequest(n) : n \in VideoLengths},
           Submit(request), UNCHANGED segmentVars
    PROVE  \E c \in Nat : VideoInv(c)'
  <1>t. VideoTypes /\ Stages /\ Roll /\ Control(b) BY DEF VideoInv
  <1>0. 0 \in Rank BY WorkerAssumption DEF Rank
  <1>c. /\ pc[0] = "idle" /\ Len(requests) < MaxRequests /\ requests' = Append(requests, request)
        /\ turn' = [turn EXCEPT ![0] = turn[0] + 1] /\ pc' = [pc EXCEPT ![0] = "run"]
        /\ UNCHANGED <<cancelled, meetings, attended, own, open, agreed, aborted>>
    BY DEF Submit, meetingVars, segmentVars, exitVars
  <1>d. \A x \in Rank : /\ turn[x] = Epoch /\ ~Active(x)
                        /\ attended[x]["ctrl"] = b + Rounds(0, b)
                        /\ x \notin open \cup agreed \cup aborted /\ own[x] = "none"
    BY <1>c, AllDone
  <1>1. PICK c \in Nat : c = b + Rounds(0, b) BY DEF Rounds, One
  <1>p. /\ pc' \in [Rank -> Places] /\ pc'[0] = "run" /\ \A x \in Rank \ {0} : pc'[x] = pc[x]
        /\ turn' \in [Rank -> Nat] /\ turn'[0] = turn[0] + 1
        /\ \A x \in Rank \ {0} : turn'[x] = turn[x]
    BY <1>c, <1>0, <1>t DEF VideoTypes, Places, Sending
  <1>e. /\ requests' \in Seq({VideoRequest(n) : n \in VideoLengths})
        /\ Epoch \in Nat /\ Epoch' = Epoch + 1 /\ Len(requests') <= MaxRequests
    BY <1>c, <1>t, WorkerAssumption DEF VideoTypes, Epoch
  <1>2. VideoTypes' BY <1>t, <1>c, <1>p, <1>e DEF VideoTypes
  <1>3. /\ \A x \in Rank \ {0} : ~Active(x)' /\ ~Here(x)' /\ pc'[x] \in {"idle", "barrier"}
        /\ Active(0)'
    BY <1>d, <1>e, <1>p DEF Active, Here
  <1>4. Stages'
    <2>1. turn'[0] = Epoch' BY <1>0, <1>d, <1>e, <1>p
    <2>2. ASSUME NEW x \in Rank
          PROVE  /\ turn'[x] = Epoch' \/ (turn'[x] = Epoch' - 1 /\ ~Active(x)')
                 /\ pc'[x] # "idle" => turn'[x] >= 1
                 /\ attended'[x]["world"] = IF Active(x)' THEN turn'[x] - 1 ELSE turn'[x]
      <3>1. attended[x]["world"] = turn[x] BY <1>t, <1>d DEF Stages
      <3>2. CASE x = 0 BY <1>c, <1>d, <1>e, <1>p, <1>3, <3>1, <3>2
      <3>3. CASE x # 0
        <4>1. pc'[x] # "idle" => turn'[x] >= 1 BY <1>t, <1>p, <3>3 DEF Stages
        <4> QED BY <1>c, <1>d, <1>e, <1>p, <1>3, <3>1, <3>3, <4>1
      <3> QED BY <3>2, <3>3
    <2>3. \A x, s \in Rank : pc'[x] = "idle" => attended'[s]["world"] >= turn'[x]
      BY <1>t, <1>c, <1>p DEF Stages
    <2> QED BY <2>1, <2>2, <2>3 DEF Stages
  <1>5. Roll' BY <1>t, <1>c DEF Roll
  <1>6. \A x \in Rank : Rounds(x, c)' = 0
    <2> SUFFICES ASSUME NEW x \in Rank PROVE Rounds(x, c)' = 0 OBVIOUS
    <2>1. CASE x = 0
      <3>1. 0 \notin open' /\ 0 \notin agreed' BY <1>0, <1>c, <1>d
      <3> QED BY <1>3, <1>p, <2>1, <3>1 DEF Rounds, One
    <2>2. CASE x # 0 BY <1>3, <2>2 DEF Rounds
    <2> QED BY <2>1, <2>2
  <1>7. Control(c)'
    <2>1. \A x \in Rank : attended'[x]["ctrl"] = c + Rounds(x, c)' BY <1>1, <1>6, <1>c, <1>d
    <2>2. \A x \in Rank : ~Done(x)' BY <1>3 DEF Done
    <2>3. \A x \in Rank : x \notin open' /\ x \notin aborted' BY <1>c, <1>d
    <2>4. ASSUME NEW x \in Rank PROVE Spot(x, c)'
      <3>1. pc'[x] \in {"idle", "barrier", "run"} BY <1>3, <1>p
      <3> QED BY <1>c, <1>d, <3>1 DEF Spot
    <2> QED BY <2>1, <2>2, <2>3, <2>4 DEF Control
  <1>8. VideoInv(c)' BY <1>2, <1>4, <1>5, <1>7 DEF VideoInv
  <1> QED BY <1>8

LEMMA VideoStarts == setup.runner # "default" /\ Init => VideoInv(0)
  <1> SUFFICES ASSUME Init PROVE VideoInv(0) OBVIOUS
  <1> USE DEF Init, WorkerInit
  <1>1. VideoTypes
    <2>1. requests \in Seq({VideoRequest(n) : n \in VideoLengths}) /\ Len(requests) <= MaxRequests
      BY WorkerAssumption
    <2>2. pc \in [Rank -> Places] /\ own \in [Rank -> {"none", "stopped", "failed"}] BY DEF Places
    <2>3. meetings \in [Group -> Seq(VideoMeeting)] OBVIOUS
    <2> QED BY <2>1, <2>2, <2>3 DEF VideoTypes
  <1>2. Epoch = 0 /\ \A r \in Rank : ~Active(r) /\ ~Here(r) BY DEF Epoch, Active, Here
  <1>g. "ctrl" \in Group /\ "world" \in Group BY DEF Group
  <1>3. Stages BY <1>2, <1>g, WorkerAssumption DEF Stages, Rank
  <1>4. Roll BY DEF Roll
  <1>5. Control(0)
    <2>1. \A r \in Rank : Rounds(r, 0) = 0 BY <1>2 DEF Rounds
    <2>2. \A r \in Rank : Spot(r, 0) BY DEF Spot
    <2>3. \A r \in Rank : ~Done(r) BY <1>2 DEF Done
    <2> QED BY <1>g, <2>1, <2>2, <2>3 DEF Control
  <1> QED BY <1>1, <1>3, <1>4, <1>5 DEF VideoInv

\* The steps of a rank in a video.
VideoStepOf(r) ==
    SegmentStep(r) \/ FailOutput(r) \/ FailSegment(r) \/ (r = 0 /\ (FailAlone \/ FailPrepare))

LEMMA StepOfVideo ==
    ASSUME NEW b \in Nat, VideoInv(b), NEW r \in Rank, VideoStepOf(r)
    PROVE  VideoInv(b)'
  <1> QED BY SegmentMoves, SegmentComes, SegmentLeaves DEF VideoStepOf, SegmentStep

\* The steps between the requests, and the cancellations.
LEMMA RestOfVideo ==
    ASSUME NEW b \in Nat, VideoInv(b), NEW r \in Rank, UNCHANGED segmentVars,
           Receive(r) \/ Answer(r) \/ Cancel \/ UNCHANGED workerVars
    PROVE  VideoInv(b)'
  <1>1. CASE Receive(r) \/ Answer(r) BY <1>1, ReceiveVideo, AnswerVideo
  <1>2. CASE Cancel \/ UNCHANGED workerVars
    BY <1>2, CancelKeeps DEF Cancel, workerVars, requestVars, meetingVars, segmentVars, exitVars
  <1> QED BY <1>1, <1>2

\* What a step can be in a video.
LEMMA VideoSteps ==
    ASSUME NEW b \in Nat, VideoInv(b), setup.runner # "default", [Next]_vars
    PROVE  \/ \E request \in {VideoRequest(n) : n \in VideoLengths} :
                Submit(request) /\ UNCHANGED segmentVars
           \/ \E r \in Rank :
                /\ Receive(r) \/ Answer(r) \/ Cancel \/ UNCHANGED workerVars
                /\ UNCHANGED segmentVars
           \/ \E r \in Rank : VideoStepOf(r)
  <1>0. 0 \in Rank BY WorkerAssumption DEF Rank
  <1>1. Requests = {VideoRequest(n) : n \in VideoLengths} BY DEF Requests
  <1>2. ASSUME NEW r \in Rank, WorkerStep(r) PROVE Receive(r) \/ Answer(r)
    <2>1. pc[r] # "agree" BY DEF VideoInv, VideoTypes, Places, Sending
    <2>2. pc[r] = "run" => Request(r).kind \in {"segments", "rank0"} BY ActiveHere DEF Active
    <2>3. ~CheckStop(r) BY <2>2 DEF CheckStop
    <2>4. ~PlainStep(r) BY <2>1, <2>3 DEF PlainStep, AgreeToStop, Raise, Infer
    <2> QED BY <1>2, <2>4 DEF WorkerStep
  <1>3. CASE UNCHANGED vars BY <1>0, <1>3 DEF vars
  <1>4. CASE Cancel /\ UNCHANGED segmentVars BY <1>0, <1>4
  <1>5. CASE FailAlone \/ FailPrepare BY <1>0, <1>5 DEF VideoStepOf
  <1>6. CASE \E request \in Requests : Submit(request) /\ UNCHANGED segmentVars BY <1>1, <1>6
  <1>7. CASE \E r \in Rank : RankStep(r) \/ FailOutput(r) \/ FailSegment(r)
    BY <1>2, <1>7 DEF RankStep, VideoStepOf
  <1> QED BY <1>3, <1>4, <1>5, <1>6, <1>7 DEF Next

LEMMA VideoStep ==
    ASSUME NEW b \in Nat, VideoInv(b), setup.runner # "default", [Next]_vars
    PROVE  \E c \in Nat : VideoInv(c)'
  <1> QED BY SubmitVideo, RestOfVideo, StepOfVideo, VideoSteps

\* What a video does to the collectives.
LEMMA VideoAligned ==
    ASSUME NEW b \in Nat, VideoInv(b)
    PROVE  MeetingsAligned
  <1>t. VideoTypes /\ Stages /\ Roll /\ Control(b) BY DEF VideoInv
  <1>g. "ctrl" \in Group /\ "world" \in Group /\ \A g \in Group : g = "ctrl" \/ g = "world" BY DEF Group
  <1>n. /\ \A r \in Rank : Rounds(r, b) \in {0, 1, 2} /\ turn[r] \in Nat
        /\ \A r \in Rank : \A g \in Group : attended[r][g] \in Nat
    BY <1>t DEF Rounds, One, VideoTypes
  <1>1. \A g \in Group : \A n \in 1..Len(meetings[g]) :
            \A op, other \in meetings[g][n].ops : op = other
    BY <1>t DEF Roll
  <1>2. ASSUME NEW r \in Rank, NEW s \in Rank
        PROVE  attended[r]["world"] <= attended[s]["world"] + 1
    BY <1>t, <1>n DEF Stages, VideoTypes, Epoch
  <1>3. ASSUME NEW r \in Rank, NEW s \in Rank
        PROVE  attended[r]["ctrl"] <= attended[s]["ctrl"] + 1
    <2>1. attended[r]["ctrl"] = b + Rounds(r, b) /\ attended[s]["ctrl"] = b + Rounds(s, b)
      BY <1>t DEF Control
    <2>2. CASE Rounds(r, b) = 2
      <3>1. Done(r) \/ r \in open BY <2>2 DEF Rounds, Done, One
      <3>2. CASE Done(r)
        <4>1. Everyone(b + 2) BY <1>t, <2>2, <3>2 DEF Control
        <4> QED BY <1>g, <1>n, <2>1, <2>2, <4>1 DEF Everyone
      <3>3. CASE r \in open
        <4>1. Everyone(b + 1) BY <1>t, <3>3 DEF Control
        <4> QED BY <1>g, <1>n, <2>1, <2>2, <4>1 DEF Everyone
      <3> QED BY <3>1, <3>2, <3>3
    <2>3. CASE Rounds(r, b) # 2 BY <1>n, <2>1, <2>3
    <2> QED BY <2>2, <2>3
  <1>4. ASSUME NEW r \in Rank, NEW s \in Rank,
               pc[r] = "barrier", pc[s] = "barrier", turn[r] = turn[s]
        PROVE  attended[r] = attended[s]
    <2>1. ~Active(r) /\ ~Active(s) BY <1>4 DEF Active
    <2>2. attended[r]["world"] = attended[s]["world"] BY <1>4, <1>t, <2>1 DEF Stages
    <2>3. Rounds(r, b) = Rounds(s, b) BY <1>4, <2>1 DEF Rounds, Here
    <2>4. attended[r]["ctrl"] = attended[s]["ctrl"] BY <1>t, <2>3 DEF Control
    <2>5. \A g \in Group : attended[r][g] = attended[s][g] BY <1>g, <2>2, <2>4
    <2> QED BY <1>t, <2>5 DEF VideoTypes
  <1> QED BY <1>g, <1>1, <1>2, <1>3, <1>4 DEF MeetingsAligned

(***************************************************************************)
(* Both kinds of runners.  With a runner that leaves the collectives to    *)
(* the worker, every step is one of WorkerGroup's.                         *)
(***************************************************************************)

Together ==
    IF setup.runner = "default" THEN Inv ELSE \E b \in Nat : VideoInv(b)

LEMMA SetupStays == [Next]_vars => setup' = setup
  <1> SUFFICES ASSUME [Next]_vars PROVE setup' = setup OBVIOUS
  <1>1. CASE UNCHANGED vars BY <1>1 DEF vars, segmentVars
  <1>2. CASE UNCHANGED segmentVars BY <1>2 DEF segmentVars
  <1>3. ASSUME NEW r \in Rank, SegmentStep(r) \/ FailOutput(r) \/ FailSegment(r)
        PROVE  setup' = setup
    BY <1>3 DEF SegmentStep, FailOutput, FailSegment, RunAlone, Prepare, Prepared, Rethrow, Diffuse,
       StopSegment, RecvTail, HandOff, Save, Settle, Settled, Leave, Concat, AbortOwed, Discard,
       Unwound, Continue, Reported, segmentVars
  <1>4. FailAlone \/ FailPrepare => setup' = setup BY DEF FailAlone, FailPrepare
  <1> QED BY <1>1, <1>2, <1>3, <1>4 DEF Next, RankStep

LEMMA PlainSteps ==
    ASSUME Inv, setup.runner = "default", [Next]_vars
    PROVE  [WorkerNext]_workerVars /\ UNCHANGED segmentVars
  <1>0. 0 \in Rank BY WorkerAssumption DEF Rank
  <1>1. \A r \in Rank : pc[r] \in {"idle", "run", "agree", "barrier"} BY DEF Inv, Types
  <1>2. ASSUME NEW r \in Rank, pc[r] = "run" PROVE Request(r).kind = "plain"
    <2>1. turn[r] \in 1..Len(requests) BY <1>2 DEF Inv, Types, Turns
    <2>2. requests[turn[r]] \in PlainRequest BY <2>1 DEF Inv, Types
    <2> QED BY <2>2 DEF PlainRequest, Request
  <1>3. ASSUME NEW r \in Rank PROVE ~SegmentStep(r) /\ ~FailOutput(r) /\ ~FailSegment(r)
    <2>1. ~RunAlone(r) /\ ~Prepare(r) /\ ~FailOutput(r) /\ ~FailSegment(r)
      BY <1>1, <1>2 DEF RunAlone, Prepare, FailOutput, Starts, FailSegment
    <2>2. /\ ~Prepared(r) /\ ~Diffuse(r) /\ ~StopSegment(r) /\ ~RecvTail(r) /\ ~HandOff(r)
          /\ ~Save(r) /\ ~Settle(r) /\ ~Settled(r) /\ ~Concat(r) /\ ~AbortOwed(r) /\ ~Discard(r)
          /\ ~Unwound(r) /\ ~Reported(r)
      BY <1>1 DEF Prepared, Diffuse, StopSegment, RecvTail, HandOff, Save, Settle, Settled, Concat,
         AbortOwed, Discard, Unwound, Reported
    <2> QED BY <2>1, <2>2 DEF SegmentStep
  <1>4. ~FailAlone /\ ~FailPrepare BY <1>0, <1>2 DEF FailAlone, FailPrepare, Starts
  <1>5. Requests = PlainRequest BY DEF Requests
  <1> QED BY <1>3, <1>4, <1>5 DEF Next, RankStep, WorkerNext, vars

LEMMA TogetherInit == Init => Together
  <1> SUFFICES ASSUME Init PROVE Together OBVIOUS
  <1>1. CASE setup.runner = "default" BY <1>1, InvInit DEF Init, Together
  <1>2. CASE setup.runner # "default" BY <1>2, VideoStarts DEF Together
  <1> QED BY <1>1, <1>2

LEMMA TogetherStep == Together /\ [Next]_vars => Together'
  <1> SUFFICES ASSUME Together, [Next]_vars PROVE Together' OBVIOUS
  <1>0. setup' = setup BY SetupStays
  <1>1. CASE setup.runner = "default"
    <2>1. Inv BY <1>1 DEF Together
    <2>2. Inv' BY <1>1, <2>1, PlainSteps, InvStep
    <2> QED BY <1>0, <1>1, <2>2 DEF Together
  <1>2. CASE setup.runner # "default"
    <2>1. PICK b \in Nat : VideoInv(b) BY <1>2 DEF Together
    <2>2. \E c \in Nat : VideoInv(c)' BY <1>2, <2>1, VideoStep
    <2> QED BY <1>0, <1>2, <2>2 DEF Together
  <1> QED BY <1>1, <1>2

\* The invariant, which the two theorems below follow from.
THEOREM TogetherAlways == Spec => []Together
  <1> QED BY TogetherInit, TogetherStep, PTL DEF Spec

\* The collectives stay aligned with every runner, however the ranks are
\* scheduled, whenever a request is cancelled and whichever ranks raise at
\* whichever places: all ranks enter the same rendezvous and barriers in the
\* same order, and equally many in a request.
THEOREM VideosAligned == Spec => []MeetingsAligned
  <1>1. Together => MeetingsAligned BY InvAligned, VideoAligned DEF Together
  <1> QED BY <1>1, TogetherAlways, PTL

\* A request that all ranks work on ends alike on all of them.
THEOREM VideosStopTogether == Spec => []StopsTogether
  <1>1. ASSUME NEW b \in Nat, VideoInv(b) PROVE StopsTogether
    <2>1. ASSUME NEW n \in 1..Len(requests) PROVE requests[n].kind # "plain"
      <3>1. requests[n] \in {VideoRequest(l) : l \in VideoLengths} BY <1>1, <2>1 DEF VideoInv, VideoTypes
      <3> QED BY <3>1 DEF VideoRequest
    <2> QED BY <2>1 DEF StopsTogether
  <1>2. Together => StopsTogether BY <1>1, InvTogether DEF Together
  <1> QED BY <1>2, TogetherAlways, PTL

(***************************************************************************)
(* The hand-offs of a video.                                               *)
(***************************************************************************)

Tails == [request : Nat, edge : Nat, abort : BOOLEAN]
Files == [segment : Nat, request : Nat, blended : Tails]

DataTypes ==
    /\ index \in [Rank -> Nat]
    /\ sent \in [Rank -> SUBSET Nat] /\ received \in [Rank -> SUBSET Nat]
    /\ tail \in [Rank -> Tails]
    /\ channel \in [Rank -> Seq(Tails)]
    /\ connected \subseteq Rank
    /\ scratch \in [exists : BOOLEAN, tails : SUBSET Tails, files : SUBSET Files]
    /\ outcome \in [Rank -> [1..MaxRequests -> Outcome]]

\* The hops of the last request, and those that a rank sends or takes.
Hops == IF Loops THEN {e \in Nat : e + 1 < requests[Epoch].segments} ELSE {}
Sends(r) == {e \in Hops : Owner(e) = r}
Takes(r) == {i \in Nat : i >= 1 /\ i - 1 \in Hops /\ Owner(i) = r}

Nothing(r) == sent[r] = {} /\ received[r] = {}
Full(r) == sent[r] = Sends(r) /\ received[r] = Takes(r)

\* S holds the first members of T.
FirstOf(S, T) == S \subseteq T /\ \A k \in S, j \in T : j < k => j \in S

\* How far a rank is with its own hand-offs.
Progress(r) ==
    /\ ~Active(r) \/ ~Loops \/ pc[r] \in {"run", "meet1"} => Nothing(r) /\ tail[r] = NoTail
    /\ pc[r] \in {"diffuse", "recv", "send", "save"} =>
        /\ Owner(index[r]) = r /\ index[r] < requests[Epoch].segments
        /\ sent[r] = {e \in Sends(r) : e < index[r] \/ (pc[r] = "save" /\ e = index[r])}
        /\ received[r] = {i \in Takes(r) : i < index[r] \/ (pc[r] \in {"send", "save"} /\ i = index[r])}
    /\ pc[r] = "recv" => index[r] # 0
    /\ pc[r] = "send" => index[r] \in Hops
    /\ pc[r] \in {"settle", "meet2", "concat"} => Full(r)
    /\ Loops /\ pc[r] = "meet3" => IF CanUnwind(r) THEN Full(r) ELSE Nothing(r)
    /\ pc[r] = "unwind" =>
        /\ FirstOf(sent[r], Sends(r)) /\ FirstOf(received[r], Takes(r))
        /\ ~CanUnwind(r) => Nothing(r)
        /\ r \in open /\ r \in agreed => Full(r)

\* What is blended into segment i.
Before(i) == IF i = 0 THEN NoTail ELSE [request |-> Epoch, edge |-> i - 1, abort |-> FALSE]
AtHand(r) ==
    /\ pc[r] \in {"diffuse", "recv"} => tail[r] = NoTail
    /\ pc[r] \in {"send", "save"} => tail[r] = Before(index[r])

\* The ranks that have the process group of the tails: none or all, but for
\* the time in which they make it.
Linked(b) ==
    /\ ~Gloo => connected = {}
    /\ Gloo => \A r \in Rank : r \in open \/ (Done(r) /\ Loops /\ ~Bad(b + 1)) => r \in connected
    /\ connected \in {{}, Rank} \/ (Loops /\ Everyone(b + 1) /\ ~Bad(b + 1))

\* The hand-offs of a rank, those of a rank that is done included.
Ran(b) == ~Bad(b + 1) \/ connected = Rank
SentBy(r, b) == IF Done(r) /\ Ran(b) THEN Sends(r) ELSE sent[r]
TakenBy(r, b) == IF Done(r) /\ Ran(b) THEN Takes(r) ELSE received[r]

\* Rank 0 has made the directory.
Prepped == Loops /\ Active(0) /\ (0 \in open \/ (pc[0] = "meet1" /\ own[0] = "none"))

\* The tails that are sent and not taken.
Transit ==
    IF Gloo THEN {m \in Tails : \E r \in Rank : channel[r] = <<m>>}
    ELSE IF Prepped THEN scratch.tails ELSE {}

Wire(b) ==
    /\ \A m \in Transit : m.request = Epoch /\ m.edge \in Hops
    /\ \A m, q \in Transit : m.edge = q.edge => m = q
    /\ \A e \in Hops :
        (\E m \in Transit : m.edge = e) <=> e \in SentBy(Owner(e), b) /\ e + 1 \notin TakenBy(Owner(e + 1), b)
    /\ \A e \in Hops : e + 1 \in TakenBy(Owner(e + 1), b) => e \in SentBy(Owner(e), b)
    /\ Gloo => \A r \in Rank : channel[r] = <<>> \/ \E m \in Tails : channel[r] = <<m>> /\ Owner(m.edge) = r

SavedFiles ==
    Prepped =>
        /\ \A f \in scratch.files :
            f.request = Epoch /\ f.segment < requests[Epoch].segments /\ f.blended = Before(f.segment)
        /\ \A f, h \in scratch.files : f.segment = h.segment => f = h

\* Someone has raised between the two rendezvous, or told so in the second.
Trouble(b) == Bad(b + 2) \/ \E r \in open \ agreed : own[r] # "none"

Causes(b) ==
    /\ open # {} /\ (aborted # {} \/ \E m \in Transit : m.abort) => Trouble(b)
    /\ \A r \in Rank : Done(r) /\ Loops /\ outcome[r][Epoch] # "ok" => Bad(b + 1) \/ Bad(b + 2) \/ r = 0

\* A request that rank r has not ended has no outcome.
Unsettled(r) ==
    \A n \in 1..MaxRequests :
        n > turn[r] \/ (n = turn[r] /\ Active(r)) => outcome[r][n] = "none"

Data(b) ==
    /\ DataTypes
    /\ \A r \in Rank : Progress(r) /\ AtHand(r) /\ Unsettled(r)
    /\ Linked(b) /\ Wire(b) /\ SavedFiles /\ Causes(b)
(***************************************************************************)
(* Who owns which segment.                                                 *)
(***************************************************************************)

\* Division with remainder.
LEMMA Division ==
    ASSUME NEW a \in Int, NEW n \in Nat \ {0}
    PROVE  /\ a \div n \in Int
           /\ a % n \in 0..n - 1
           /\ a = n * (a \div n) + (a % n)
  OBVIOUS

LEMMA Remainder ==
    ASSUME NEW a \in Int, NEW n \in Nat \ {0}, NEW q \in Int, NEW p \in Int, n * q = p,
           NEW k \in 0..n - 1, a = p + k
    PROVE  a % n = k
  <1> DEFINE d == q - a \div n
  <1>1. a \div n \in Int /\ a % n \in 0..n - 1 /\ a = n * (a \div n) + (a % n) BY Division
  <1>2. d \in Int /\ n * d = (a % n) - k BY <1>1
  <1> HIDE DEF d
  <1>3. d <= -1 => n * d <= -n BY <1>2
  <1>4. d >= 1 => n * d >= n BY <1>2
  <1>5. d = 0 BY <1>1, <1>2, <1>3, <1>4
  <1> QED BY <1>1, <1>2, <1>5

LEMMA Owners ==
    ASSUME NEW i \in Nat
    PROVE  /\ Owner(i) \in Rank
           /\ Owner(i) <= i
           /\ Owner(i + 1) = IF Owner(i) = World - 1 THEN 0 ELSE Owner(i) + 1
           /\ Owner(i + World) = Owner(i)
  <1>0. World \in Nat \ {0} /\ World > 1 BY WorkerAssumption, SegmentAssumption
  <1> DEFINE q == i \div World
             m == i % World
  <1>1. q \in Int /\ m \in 0..World - 1 /\ i = World * q + m BY <1>0, Division
  <1>2. Owner(i) = m BY DEF Owner
  <1> HIDE DEF q, m
  <1>3. q >= 0
    <2>1. q <= -1 => World * q <= -World BY <1>0, <1>1
    <2> QED BY <1>0, <1>1, <2>1
  <1>p. PICK p \in Int : World * q = p BY <1>0, <1>1
  <1>4. p \in Nat /\ World * q = p BY <1>0, <1>1, <1>3, <1>p
  <1>5. i = p + m /\ m <= i BY <1>1, <1>4
  <1>6. PICK t \in Int, u \in Int : t = q + 1 /\ u = p + World BY <1>0, <1>1, <1>4
  <1>7. World * t = u BY <1>0, <1>1, <1>4, <1>6
  <1>8. Owner(i + World) = m
    <2>1. PICK a \in Int : a = i + World BY <1>0
    <2>2. a = u + m BY <1>0, <1>1, <1>5, <1>6, <2>1
    <2>3. a % World = m BY <1>0, <1>1, <1>7, <2>2, Remainder
    <2> QED BY <2>1, <2>3 DEF Owner
  <1>9. PICK a \in Int : a = i + 1 OBVIOUS
  <1>10. CASE m = World - 1
    <2>1. a = u + 0 /\ 0 \in 0..World - 1 BY <1>0, <1>1, <1>5, <1>6, <1>9, <1>10
    <2>2. a % World = 0 BY <1>0, <1>7, <2>1, Remainder
    <2>3. Owner(i + 1) = 0 BY <1>9, <2>2 DEF Owner
    <2> QED BY <1>1, <1>2, <1>5, <1>8, <1>10, <2>3 DEF Rank
  <1>11. CASE m # World - 1
    <2>1. PICK k \in 0..World - 1 : k = m + 1 BY <1>0, <1>1, <1>11
    <2>2. a = p + k BY <1>0, <1>1, <1>5, <1>9, <2>1
    <2>3. a % World = k BY <1>0, <1>1, <1>p, <2>2, Remainder
    <2>4. Owner(i + 1) = m + 1 BY <1>9, <2>1, <2>3 DEF Owner
    <2> QED BY <1>1, <1>2, <1>5, <1>8, <1>11, <2>4 DEF Rank
  <1> QED BY <1>10, <1>11

LEMMA OwnFirst ==
    ASSUME NEW r \in Rank
    PROVE  r \in Nat /\ Owner(r) = r
  <1>0. World \in Nat \ {0} BY WorkerAssumption
  <1>1. r \in 0..World - 1 /\ World * 0 = 0 /\ r = 0 + r BY <1>0 DEF Rank
  <1> QED BY <1>0, <1>1, Remainder DEF Owner

\* The segments of one owner are `World` apart.
LEMMA OwnApart ==
    ASSUME NEW i \in Nat, NEW j \in Nat, Owner(i) = Owner(j), i < j
    PROVE  i + World <= j
  <1>0. World \in Nat \ {0} BY WorkerAssumption
  <1>1. /\ i \div World \in Int /\ i = World * (i \div World) + Owner(i)
        /\ j \div World \in Int /\ j = World * (j \div World) + Owner(j)
        /\ Owner(i) \in Int
    BY <1>0, Division DEF Owner
  <1> DEFINE d == j \div World - i \div World
  <1>2. d \in Int /\ World * d = j - i BY <1>0, <1>1
  <1> HIDE DEF d
  <1>3. d <= 0 => World * d <= 0 BY <1>0, <1>2
  <1>4. d >= 1 => World * d >= World BY <1>0, <1>2
  <1> QED BY <1>0, <1>2, <1>3, <1>4

\* The owners of two segments are the same when those of the next ones are.
LEMMA NextOwners ==
    ASSUME NEW i \in Nat, NEW j \in Nat
    PROVE  Owner(i) = Owner(j) <=> Owner(i + 1) = Owner(j + 1)
  <1>1. World \in Nat \ {0} /\ Owner(i) \in 0..World - 1 /\ Owner(j) \in 0..World - 1
    BY WorkerAssumption, Owners DEF Rank
  <1>2. /\ Owner(i + 1) = IF Owner(i) = World - 1 THEN 0 ELSE Owner(i) + 1
        /\ Owner(j + 1) = IF Owner(j) = World - 1 THEN 0 ELSE Owner(j) + 1
    BY Owners
  <1> HIDE DEF Owner
  <1> QED BY <1>1, <1>2

\* A request has at least one segment, and one that is cut has more.
LEMMA RequestShape ==
    ASSUME NEW request \in {VideoRequest(n) : n \in VideoLengths}
    PROVE  /\ request.segments \in Nat \ {0}
           /\ request.kind = "segments" => request.segments > 1
  <1>1. PICK n \in VideoLengths : request = VideoRequest(n) OBVIOUS
  <1> DEFINE o == ClampOverlap(SegLen, SrOverlap)
             count == SegmentCount(n, SegLen, o)
  <1>2. n \in Nat \ {0} /\ SegLen \in Nat \ {0} BY SegmentAssumption
  <1>3. o \in 0..SegLen - 1 BY SegmentAssumption DEF ClampOverlap
  <1> HIDE DEF o
  <1>4. count \in Nat \ {0}
    <2>1. CASE n <= SegLen BY <1>2, <1>3, <2>1, ShortCovers
    <2>2. CASE n > SegLen
      <3>1. PICK stride \in 1..SegLen - o : count = Ceil(n - o, stride) BY <1>2, <1>3, <2>2, PlanOfLong
      <3>2. n - o \in Nat \ {0} /\ stride \in Nat \ {0} BY <1>2, <1>3, <2>2
      <3> QED BY <3>1, <3>2, CeilFacts
    <2> QED BY <1>2, <2>1, <2>2
  <1> HIDE DEF count
  <1>5. request = IF count = 1 THEN [kind |-> "rank0", segments |-> 1]
                  ELSE [kind |-> "segments", segments |-> count]
    BY <1>1 DEF VideoRequest, count, o
  <1> QED BY <1>4, <1>5

(***************************************************************************)
(* What the places of the ranks say about the hand-offs.                   *)
(***************************************************************************)

\* The segments of a rank that is at work in a request that is cut.
LEMMA AtWork ==
    ASSUME NEW b \in Nat, VideoInv(b), NEW r \in Rank, Active(r), Loops
    PROVE  /\ requests[Epoch].segments \in Nat /\ requests[Epoch].segments > 1
           /\ turn[r] = Epoch /\ Request(r) = requests[Epoch]
           /\ Last(r) = requests[Epoch].segments - 1
           /\ {i \in MySegments(r) : i < Last(r)} = Sends(r)
           /\ MySegments(r) \ {0} = Takes(r)
           /\ \A i \in MySegments(r) : i \in Nat /\ i < requests[Epoch].segments /\ Owner(i) = r
           /\ \A i \in Nat : i < requests[Epoch].segments /\ Owner(i) = r => i \in MySegments(r)
  <1>1. /\ turn[r] = Epoch /\ Epoch \in 1..Len(requests) BY ActiveHere
  <1>2. requests[Epoch] \in {VideoRequest(n) : n \in VideoLengths}
    BY <1>1 DEF VideoInv, VideoTypes
  <1>3. requests[Epoch].kind = "segments" BY DEF Loops
  <1>4. requests[Epoch].segments \in Nat /\ requests[Epoch].segments > 1 BY <1>2, <1>3, RequestShape
  <1>5. Request(r) = requests[Epoch] BY <1>1 DEF Request
  <1>6. Last(r) = requests[Epoch].segments - 1 BY <1>5 DEF Last
  <1>7. Hops = {e \in Nat : e + 1 < requests[Epoch].segments} BY DEF Hops
  <1>8. MySegments(r) = {i \in 0..requests[Epoch].segments - 1 : Owner(i) = r}
    BY <1>6 DEF MySegments
  <1> DEFINE k == requests[Epoch].segments
  <1>9. {i \in MySegments(r) : i < Last(r)} = Sends(r)
    BY <1>4, <1>6, <1>7, <1>8 DEF Sends
  <1>10. MySegments(r) \ {0} = Takes(r)
    <2>1. \A i \in Nat : i >= 1 => (i - 1 \in Hops <=> i < k) BY <1>4, <1>7
    <2>2. \A i : i \in MySegments(r) <=> i \in Nat /\ i < k /\ Owner(i) = r BY <1>4, <1>8
    <2> HIDE DEF k
    <2>3. \A i : i \in Takes(r) <=> i \in Nat /\ i >= 1 /\ i - 1 \in Hops /\ Owner(i) = r BY DEF Takes
    <2> QED BY <2>1, <2>2, <2>3
  <1> QED BY <1>1, <1>4, <1>5, <1>6, <1>8, <1>9, <1>10

\* Numbers, and what hops are.
LEMMA HopsAre ==
    /\ Hops \subseteq Nat
    /\ \A r \in Rank : Sends(r) \subseteq Hops /\ Sends(r) \subseteq Nat /\ Takes(r) \subseteq Nat
    /\ \A e \in Hops : e \in Sends(Owner(e)) /\ e + 1 \in Takes(Owner(e + 1))
  <1>1. Hops \subseteq Nat BY DEF Hops
  <1>2. \A e \in Nat : e + 1 \in Nat /\ e + 1 >= 1 /\ (e + 1) - 1 = e OBVIOUS
  <1> QED BY <1>1, <1>2 DEF Sends, Takes

LEMMA HopOwners ==
    \A e \in Hops : e \in Nat /\ e + 1 \in Nat /\ Owner(e) \in Rank /\ Owner(e + 1) \in Rank
  <1> TAKE e \in Hops
  <1>1. e \in Nat /\ e + 1 \in Nat BY HopsAre
  <1> QED BY <1>1, Owners

\* A rank between the two rendezvous has rank 0 in the request, past the first.
LEMMA PreppedWhen ==
    ASSUME NEW b \in Nat, VideoInv(b), NEW r \in Rank, r \in open, r \notin agreed
    PROVE  Prepped
  <1>0. 0 \in Rank BY WorkerAssumption DEF Rank
  <1>1. Active(r) BY DEF VideoInv, Control, Spot, Active
  <1>2. /\ Everyone(b + 1) /\ ~Bad(b + 1) /\ Spot(r, b) /\ attended[r]["ctrl"] = b + Rounds(r, b)
        /\ Here(r)
    BY <1>1, ActiveHere
  <1>3. Loops BY <1>1, <1>2 DEF Spot, Active
  <1>4. attended[r]["ctrl"] = b + 1 BY <1>1, <1>2, <1>3 DEF Rounds, One
  <1>5. /\ turn[0] = Epoch /\ Epoch >= 1 BY <1>3 DEF VideoInv, Stages, Loops
  <1>6. Here(0) BY <1>5 DEF Here
  <1>7. Active(0)
    <2> SUFFICES ASSUME ~Active(0) PROVE FALSE OBVIOUS
    <2>1. Done(0) /\ Rounds(0, b) = 2 BY <1>2, <1>3, <1>6 DEF Done, Rounds
    <2>2. Everyone(b + 2) BY <1>0, <2>1 DEF VideoInv, Control
    <2> QED BY <1>4, <2>2 DEF Everyone
  <1>8. Spot(0, b) /\ attended[0]["ctrl"] = b + One(0 \in open) + One(0 \in agreed)
    <2>1. attended[0]["ctrl"] = b + Rounds(0, b) /\ Spot(0, b) BY <1>0, <1>7, ActiveHere
    <2>2. Rounds(0, b) = One(0 \in open) + One(0 \in agreed) BY <1>0, <1>3, <1>7, ActiveHere
    <2> QED BY <2>1, <2>2 DEF One
  <1>9. attended[0]["ctrl"] >= b + 1 BY <1>0, <1>2 DEF Everyone
  <1>10. 0 \in open \/ 0 \in agreed BY <1>8, <1>9 DEF One
  <1>11. 0 \in open \/ (pc[0] = "meet1" /\ own[0] = "none")
    <2> SUFFICES ASSUME 0 \notin open, 0 \in agreed PROVE pc[0] = "meet1" /\ own[0] = "none"
      BY <1>10
    <2>1. ~Fails(b + 1) BY <1>2 DEF Bad
    <2>2. own[0] \in {"none", "stopped", "failed"} /\ pc[0] \in Places BY <1>0 DEF VideoInv, VideoTypes
    <2>3. pc[0] \notin {"idle", "barrier", "run", "diffuse", "recv", "send", "save", "settle", "meet2", "concat"}
      BY <1>8 DEF Spot
    <2>4. pc[0] # "meet3" BY <1>3, <1>8, <2>1 DEF Spot
    <2>5. pc[0] # "unwind" BY <1>2, <1>8 DEF Spot
    <2>6. pc[0] = "meet1" BY <2>2, <2>3, <2>4, <2>5 DEF Places, Sending
    <2> QED BY <1>8, <2>1, <2>2, <2>6 DEF Spot
  <1> QED BY <1>3, <1>7, <1>11 DEF Prepped

\* A rank that knows the directory is at work in a request that is cut.
LEMMA OpenLoops ==
    ASSUME NEW b \in Nat, VideoInv(b), NEW r \in Rank, r \in open
    PROVE  Active(r) /\ Loops /\ Everyone(b + 1) /\ ~Bad(b + 1)
  <1>1. Active(r) BY DEF VideoInv, Control, Spot, Active
  <1>2. Everyone(b + 1) /\ ~Bad(b + 1) /\ Spot(r, b) BY <1>1, ActiveHere
  <1>3. Loops BY <1>1, <1>2 DEF Spot, Active
  <1> QED BY <1>1, <1>2, <1>3

\* Nothing is under way when nothing was sent, or all of it was taken.
LEMMA NoneSent ==
    ASSUME NEW b, Wire(b), \A x \in Rank : SentBy(x, b) = {}
    PROVE  Transit = {}
  <1> SUFFICES ASSUME NEW m \in Transit PROVE FALSE OBVIOUS
  <1>1. m.edge \in Hops BY DEF Wire
  <1>2. m.edge \in SentBy(Owner(m.edge), b) BY <1>1 DEF Wire
  <1>3. Owner(m.edge) \in Rank BY <1>1, HopsAre, Owners
  <1> QED BY <1>2, <1>3

LEMMA AllTaken ==
    ASSUME NEW b, Wire(b), \A x \in Rank : TakenBy(x, b) = Takes(x)
    PROVE  Transit = {}
  <1> SUFFICES ASSUME NEW m \in Transit PROVE FALSE OBVIOUS
  <1>1. m.edge \in Hops BY DEF Wire
  <1>2. m.edge + 1 \notin TakenBy(Owner(m.edge + 1), b) BY <1>1 DEF Wire
  <1>3. m.edge \in Nat /\ m.edge + 1 \in Takes(Owner(m.edge + 1)) BY <1>1, HopsAre
  <1>4. Owner(m.edge + 1) \in Rank BY <1>3, Owners
  <1> QED BY <1>2, <1>3, <1>4

\* With files, a first rendezvous that tells of a failure or a stop means that
\* nothing is sent.
LEMMA FileQuiet ==
    ASSUME NEW b \in Nat, VideoInv(b), Data(b), ~Gloo, Bad(b + 1)
    PROVE  Transit = {}
  <1>1. ASSUME NEW x \in Rank PROVE SentBy(x, b) = {}
    <2>1. connected = {} BY DEF Data, Linked
    <2>2. connected # Rank BY <2>1
    <2>3. ~Ran(b) BY <2>2 DEF Ran
    <2>4. x \notin open BY DEF VideoInv, Control
    <2>5. ~CanUnwind(x) BY <2>1, <2>4 DEF CanUnwind
    <2>6. Progress(x) /\ pc[x] \in Places BY DEF Data, VideoInv, VideoTypes
    <2>7. Spot(x, b) BY DEF VideoInv, Control
    <2>8. sent[x] = {}
      <3>1. CASE ~Active(x) \/ pc[x] \in {"run", "meet1"} BY <2>6, <3>1 DEF Progress, Nothing
      <3>2. CASE pc[x] = "unwind" BY <2>5, <2>6, <3>2 DEF Progress, Nothing
      <3>3. CASE pc[x] = "meet3" BY <2>5, <2>6, <3>3 DEF Progress, Nothing
      <3>4. pc[x] \notin {"diffuse", "recv", "send", "save", "settle", "meet2", "concat"}
        BY <2>4, <2>7 DEF Spot
      <3> QED BY <2>6, <3>1, <3>2, <3>3, <3>4 DEF Places, Sending, Active
    <2> QED BY <2>3, <2>8 DEF SentBy
  <1> QED BY <1>1, NoneSent DEF Data

\* Before a rank knows the directory nothing is sent.
LEMMA NoneYet ==
    ASSUME NEW b \in Nat, VideoInv(b), Data(b), Loops, Everyone(b + 1), ~Bad(b + 1), open = {},
           NEW s \in Rank, attended[s]["ctrl"] = b + 1
    PROVE  Transit = {} /\ aborted = {}
  <1>1. ASSUME NEW x \in Rank PROVE SentBy(x, b) = {}
    <2>1. ~Done(x)
      <3> SUFFICES ASSUME Done(x) PROVE FALSE OBVIOUS
      <3>1. Rounds(x, b) = 2 BY DEF Done, Rounds
      <3>2. Everyone(b + 2) BY <3>1 DEF VideoInv, Control
      <3> QED BY <3>2 DEF Everyone
    <2>2. Progress(x) /\ pc[x] \in Places BY DEF Data, VideoInv, VideoTypes
    <2>3. Spot(x, b) /\ attended[x]["ctrl"] >= b + 1 /\ attended[x]["ctrl"] = b + Rounds(x, b)
      BY DEF VideoInv, Control, Everyone
    <2>4. sent[x] = {}
      <3>1. CASE ~Active(x) \/ pc[x] \in {"run", "meet1"} BY <2>2, <3>1 DEF Progress, Nothing
      <3>2. CASE pc[x] = "unwind"
        <4>1. x \notin agreed BY <2>3, <3>2 DEF Spot
        <4>2. Rounds(x, b) = 0 BY <3>2, <4>1 DEF Rounds, One, Active
        <4> QED BY <2>3, <4>2
      <3>3. CASE pc[x] = "meet3"
        <4>1. Fails(b + 1) BY <2>3, <3>3 DEF Spot
        <4> QED BY <4>1 DEF Bad
      <3>4. pc[x] \notin {"diffuse", "recv", "send", "save", "settle", "meet2", "concat"}
        BY <2>3 DEF Spot
      <3> QED BY <2>2, <3>1, <3>2, <3>3, <3>4 DEF Places, Sending, Active
    <2> QED BY <2>1, <2>4 DEF SentBy
  <1>2. Transit = {} BY <1>1, NoneSent DEF Data
  <1>3. aborted = {} BY DEF VideoInv, VideoTypes, Control
  <1> QED BY <1>2, <1>3

(***************************************************************************)
(* Steps.                                                                  *)
(***************************************************************************)

\* What a step within a request does with the collectives: all ranks stay
\* past what they are past, and what that tells stays.
Onward ==
    \A n \in Nat \ {0} :
        /\ Everyone(n) => Everyone(n)' /\ (Bad(n)' <=> Bad(n))
        /\ Bad(n) => Bad(n)'

LEMMA OnwardSame == ASSUME UNCHANGED meetingVars PROVE Onward
  BY DEF meetingVars, Onward, Everyone, Bad, Fails, Stops

LEMMA OnwardMeet ==
    ASSUME NEW b \in Nat, VideoInv(b), NEW r \in Rank, NEW failed \in BOOLEAN, Rendezvous(r, failed)
    PROVE  Onward
  <1>1. Enter(r, "ctrl", "rendezvous", stop_signal(r), failed) BY DEF Rendezvous
  <1>2. PICK n \in Nat : n = b + Rounds(r, b) + 1 BY DEF Rounds, One
  <1>3. PICK stopped \in BOOLEAN : stopped = stop_signal(r) BY DEF stop_signal
  <1>4. Enter(r, "ctrl", "rendezvous", stopped, failed) BY <1>1, <1>3
  <1>5. /\ \A k \in Nat \ {0} : k # n => (Bad(k)' <=> Bad(k))
        /\ Bad(n)' <=> Bad(n) \/ failed \/ stopped
        /\ \A k \in Nat : Everyone(k) => Everyone(k)' /\ k # n
    BY <1>2, <1>4, Comes
  <1> QED BY <1>5 DEF Onward

LEMMA OnwardLeave ==
    ASSUME NEW b \in Nat, VideoInv(b), NEW r \in Rank, NEW how, Finish(r, how)
    PROVE  Onward
  <1>t. VideoTypes /\ Roll BY DEF VideoInv
  <1>g. "ctrl" \in Group /\ "world" \in Group /\ "ctrl" # "world" BY DEF Group
  <1>c. Enter(r, "world", OpOf("world"), FALSE, FALSE) BY DEF Finish, OpOf
  <1>e. /\ \A x \in Rank : attended'[x]["ctrl"] = attended[x]["ctrl"]
        /\ meetings'["ctrl"] = meetings["ctrl"]
    <2>1. LET n == attended[r]["world"] + 1
          IN  /\ \A x \in Rank : \A h \in Group : x # r \/ h # "world" => attended'[x][h] = attended[x][h]
              /\ \A h \in Group : h # "world" => meetings'[h] = meetings[h]
      BY <1>g, <1>t, <1>c, Entering
    <2> QED BY <1>g, <2>1
  <1> QED BY <1>e DEF Onward, Everyone, Bad, Fails, Stops

\* A step of rank r leaves the others and their data alone.
Alone(r) ==
    /\ Elsewhere(r) /\ UNCHANGED <<requests, setup>>
    /\ \A x \in Rank \ {r} :
        /\ turn'[x] = turn[x] /\ outcome'[x] = outcome[x]
        /\ index'[x] = index[x] /\ tail'[x] = tail[x]
        /\ sent'[x] = sent[x] /\ received'[x] = received[x]
        /\ x \in connected' <=> x \in connected

LEMMA SameRequest ==
    ASSUME UNCHANGED <<requests, setup>>
    PROVE  /\ Epoch' = Epoch /\ (Loops' <=> Loops) /\ (Gloo' <=> Gloo) /\ Hops' = Hops
           /\ \A x \in Rank : Sends(x)' = Sends(x) /\ Takes(x)' = Takes(x)
           /\ \A i : Before(i)' = Before(i)
  <1>1. /\ Epoch' = Epoch /\ (Loops' <=> Loops) /\ (Gloo' <=> Gloo) BY DEF Epoch, Loops, Gloo
  <1>2. Hops' = Hops BY <1>1 DEF Hops
  <1> QED BY <1>1, <1>2 DEF Sends, Takes, Before

\* The data of the others stay right.
LEMMA OthersKeep ==
    ASSUME NEW b \in Nat, Data(b), NEW r \in Rank, Alone(r)
    PROVE  \A x \in Rank \ {r} : Progress(x)' /\ AtHand(x)' /\ Unsettled(x)'
  <1> SUFFICES ASSUME NEW x \in Rank \ {r} PROVE Progress(x)' /\ AtHand(x)' /\ Unsettled(x)'
    OBVIOUS
  <1>1. /\ pc'[x] = pc[x] /\ own'[x] = own[x] /\ (x \in open' <=> x \in open)
        /\ (x \in agreed' <=> x \in agreed)
        /\ turn'[x] = turn[x] /\ outcome'[x] = outcome[x]
        /\ index'[x] = index[x] /\ tail'[x] = tail[x]
        /\ sent'[x] = sent[x] /\ received'[x] = received[x]
        /\ (x \in connected' <=> x \in connected)
    BY DEF Alone, Elsewhere
  <1>2. requests' = requests /\ setup' = setup BY DEF Alone
  <1>3. /\ Epoch' = Epoch /\ (Loops' <=> Loops) /\ Hops' = Hops
        /\ Sends(x)' = Sends(x) /\ Takes(x)' = Takes(x)
        /\ \A i : Before(i)' = Before(i)
    BY <1>2, SameRequest
  <1>4. (Active(x)' <=> Active(x)) /\ (CanUnwind(x)' <=> CanUnwind(x)) BY <1>1 DEF Active, CanUnwind
  <1>5. (Nothing(x)' <=> Nothing(x)) /\ (Full(x)' <=> Full(x)) BY <1>1, <1>3 DEF Nothing, Full
  <1>6. Progress(x) /\ AtHand(x) /\ Unsettled(x) BY DEF Data
  <1>7. Progress(x)' BY <1>1, <1>2, <1>3, <1>4, <1>5, <1>6 DEF Progress, FirstOf
  <1>8. AtHand(x)'
    <2>1. Before(index[x])' = Before(index[x]) BY <1>1, <1>3 DEF Before
    <2> QED BY <1>1, <1>3, <1>6, <2>1 DEF AtHand, Before
  <1>9. Unsettled(x)' BY <1>1, <1>4, <1>6 DEF Unsettled
  <1> QED BY <1>7, <1>8, <1>9

\* So do their hand-offs, and those of r while it is in the request.
LEMMA Ledgers ==
    ASSUME NEW b \in Nat, VideoInv(b), NEW r \in Rank, Alone(r), Onward,
           connected' = connected \/ ~Bad(b + 1)
    PROVE  /\ \A x \in Rank : Done(x) => (Ran(b)' <=> Ran(b))
           /\ \A x \in Rank \ {r} :
                /\ (Done(x)' <=> Done(x))
                /\ SentBy(x, b)' = SentBy(x, b) /\ TakenBy(x, b)' = TakenBy(x, b)
  <1>1. requests' = requests /\ setup' = setup BY DEF Alone
  <1>2. /\ Epoch' = Epoch /\ (Loops' <=> Loops)
        /\ \A x \in Rank : Sends(x)' = Sends(x) /\ Takes(x)' = Takes(x)
    BY <1>1, SameRequest
  <1>b. b + 1 \in Nat \ {0} OBVIOUS
  <1>3. ASSUME NEW x \in Rank, Done(x) PROVE Ran(b)' <=> Ran(b)
    <2>1. Everyone(b + Rounds(x, b)) BY <1>3 DEF VideoInv, Control
    <2>2. Rounds(x, b) \in {1, 2} BY <1>3 DEF Rounds, Done
    <2>3. \A y \in Rank : attended[y]["ctrl"] \in Nat BY DEF VideoInv, VideoTypes, Group
    <2>4. Everyone(b + 1) BY <2>1, <2>2, <2>3 DEF Everyone
    <2>5. Bad(b + 1)' <=> Bad(b + 1) BY <1>b, <2>4 DEF Onward
    <2> QED BY <2>5 DEF Ran
  <1>4. ASSUME NEW x \in Rank \ {r}
        PROVE  /\ (Done(x)' <=> Done(x))
               /\ SentBy(x, b)' = SentBy(x, b) /\ TakenBy(x, b)' = TakenBy(x, b)
    <2>1. pc'[x] = pc[x] /\ turn'[x] = turn[x] /\ sent'[x] = sent[x] /\ received'[x] = received[x]
      BY DEF Alone, Elsewhere
    <2>2. Done(x)' <=> Done(x) BY <1>2, <2>1 DEF Done, Here, Active
    <2>3. Done(x) => (Ran(b)' <=> Ran(b)) BY <1>3
    <2>4. SentBy(x, b)' = SentBy(x, b) BY <1>2, <2>1, <2>2, <2>3 DEF SentBy
    <2>5. TakenBy(x, b)' = TakenBy(x, b) BY <1>2, <2>1, <2>2, <2>3 DEF TakenBy
    <2> QED BY <2>2, <2>4, <2>5
  <1> QED BY <1>3, <1>4

\* What is on its way is right as long as hand-offs and wires stay.
LEMMA WireSame ==
    ASSUME NEW b \in Nat, Wire(b), UNCHANGED <<requests, setup, channel>>, Transit' = Transit,
           \A x \in Rank : SentBy(x, b)' = SentBy(x, b) /\ TakenBy(x, b)' = TakenBy(x, b)
    PROVE  Wire(b)'
  <1>1. Epoch' = Epoch /\ (Gloo' <=> Gloo) /\ Hops' = Hops BY SameRequest
  <1>2. \A e \in Hops : e \in Nat /\ e + 1 \in Nat /\ Owner(e) \in Rank /\ Owner(e + 1) \in Rank
    BY HopOwners
  <1>3. /\ \A m \in Transit' : m.request = Epoch' /\ m.edge \in Hops'
        /\ \A m, q \in Transit' : m.edge = q.edge => m = q
    BY <1>1 DEF Wire
  <1>4. ASSUME NEW e \in Hops
        PROVE  /\ (\E m \in Transit' : m.edge = e) <=>
                    e \in SentBy(Owner(e), b)' /\ e + 1 \notin TakenBy(Owner(e + 1), b)'
               /\ e + 1 \in TakenBy(Owner(e + 1), b)' => e \in SentBy(Owner(e), b)'
    <2>1. /\ SentBy(Owner(e), b)' = SentBy(Owner(e), b)
          /\ TakenBy(Owner(e + 1), b)' = TakenBy(Owner(e + 1), b)
      BY <1>2
    <2> QED BY <2>1 DEF Wire
  <1>5. Gloo' => \A r \in Rank : channel'[r] = <<>> \/ \E m \in Tails : channel'[r] = <<m>> /\ Owner(m.edge) = r
    BY <1>1 DEF Wire
  <1> QED BY <1>1, <1>3, <1>4, <1>5 DEF Wire

\* A rank that is in trouble reports it when it meets the others.
LEMMA TroubleKept ==
    ASSUME NEW b \in Nat, VideoInv(b), VideoInv(b)', NEW r \in Rank, Elsewhere(r),
           UNCHANGED requests, Onward, open \subseteq open',
           own'[r] = own[r] \/ own[r] = "none",
           r \in agreed' => r \in agreed \/ pc'[r] = "meet3" \/ own[r] = "none",
           open # {}, Trouble(b)
    PROVE  Trouble(b)'
  <1>b. b + 2 \in Nat \ {0} OBVIOUS
  <1>1. CASE Bad(b + 2) BY <1>b, <1>1 DEF Onward, Trouble
  <1>2. ASSUME NEW x \in open \ agreed, own[x] # "none" PROVE Trouble(b)'
    <2>0. x \in Rank BY DEF VideoInv, VideoTypes
    <2>1. CASE x # r
      <3>1. x \in open' \ agreed' /\ own'[x] # "none" BY <1>2, <2>0, <2>1 DEF Elsewhere
      <3> QED BY <3>1 DEF Trouble
    <2>2. CASE x = r /\ r \notin agreed'
      <3>1. x \in open' \ agreed' /\ own'[x] # "none" BY <1>2, <2>2
      <3> QED BY <3>1 DEF Trouble
    <2>3. CASE x = r /\ r \in agreed'
      <3>1. pc'[r] = "meet3" BY <1>2, <2>3
      <3>2. r \in open' BY <2>3
      <3>3. Loops BY <1>2, OpenLoops, <2>0
      <3>4. Loops' BY <3>3 DEF Loops, Epoch
      <3>5. Spot(r, b)' BY DEF VideoInv, Control
      <3>6. Bad(b + 2)' BY <3>1, <3>2, <3>4, <3>5 DEF Spot
      <3> QED BY <3>6 DEF Trouble
    <2> QED BY <2>1, <2>2, <2>3
  <1> QED BY <1>1, <1>2 DEF Trouble

dataVars == <<index, sent, received, tail, channel, connected, scratch, outcome>>

\* What remains to be shown of a step that ends no request.
LEMMA StepData ==
    ASSUME NEW b \in Nat, VideoInv(b), Data(b), NEW r \in Rank, Alone(r), Onward,
           UNCHANGED <<connected, outcome, open>>, Done(r)' <=> Done(r),
           DataTypes', Progress(r)', AtHand(r)', Unsettled(r)', Wire(b)', SavedFiles',
           open # {} /\ (aborted' # {} \/ \E m \in Transit' : m.abort) => Trouble(b)'
    PROVE  Data(b)'
  <1>b. b + 1 \in Nat \ {0} /\ b + 2 \in Nat \ {0} OBVIOUS
  <1>s. Epoch' = Epoch /\ (Loops' <=> Loops) /\ (Gloo' <=> Gloo) BY SameRequest DEF Alone
  <1>1. \A x \in Rank : Progress(x)' /\ AtHand(x)' /\ Unsettled(x)' BY OthersKeep
  <1>2. \A x \in Rank : Done(x)' <=> Done(x) BY Ledgers
  <1>3. Linked(b)'
    <2>1. ASSUME NEW x \in Rank, Gloo', x \in open' \/ (Done(x)' /\ Loops' /\ ~Bad(b + 1)')
          PROVE  x \in connected'
      <3>1. ~Bad(b + 1)' => ~Bad(b + 1) BY <1>b DEF Onward
      <3> QED BY <1>2, <1>s, <2>1, <3>1 DEF Data, Linked
    <2>2. Loops /\ Everyone(b + 1) /\ ~Bad(b + 1) => Loops' /\ Everyone(b + 1)' /\ ~Bad(b + 1)'
      BY <1>b, <1>s DEF Onward
    <2> QED BY <1>s, <2>1, <2>2 DEF Data, Linked
  <1>4. Causes(b)'
    <2>1. ASSUME NEW x \in Rank, Done(x)', Loops', outcome'[x][Epoch'] # "ok"
          PROVE  Bad(b + 1)' \/ Bad(b + 2)' \/ x = 0
      <3>1. Bad(b + 1) \/ Bad(b + 2) \/ x = 0 BY <1>2, <1>s, <2>1 DEF Data, Causes
      <3> QED BY <1>b, <3>1 DEF Onward
    <2> QED BY <2>1 DEF Causes
  <1> QED BY <1>1, <1>3, <1>4 DEF Data

\* A step that leaves the hand-offs, the wires and the files alone.
LEMMA Quiet ==
    ASSUME NEW b \in Nat, VideoInv(b), VideoInv(b)', Data(b), NEW r \in Rank,
           Elsewhere(r), \A x \in Rank \ {r} : turn'[x] = turn[x],
           UNCHANGED <<requests, setup>>, UNCHANGED dataVars, Onward, Done(r)' <=> Done(r),
           Prepped' => Prepped, Prepped /\ ~Prepped' /\ ~Gloo => Transit = {},
           open' = open, aborted' = aborted,
           open # {} /\ Trouble(b) => Trouble(b)',
           Progress(r)', AtHand(r)', Unsettled(r)'
    PROVE  Data(b)'
  <1>u. /\ index' = index /\ sent' = sent /\ received' = received /\ tail' = tail
        /\ channel' = channel /\ connected' = connected /\ scratch' = scratch /\ outcome' = outcome
    BY DEF dataVars
  <1>a. Alone(r) BY <1>u DEF Alone
  <1>s. Epoch' = Epoch /\ (Gloo' <=> Gloo)
        /\ \A x \in Rank : Sends(x)' = Sends(x) /\ Takes(x)' = Takes(x)
        /\ \A i : Before(i)' = Before(i)
    BY SameRequest
  <1>1. DataTypes' BY <1>u DEF Data, DataTypes
  <1>2. \A x \in Rank : SentBy(x, b)' = SentBy(x, b) /\ TakenBy(x, b)' = TakenBy(x, b)
    <2>1. /\ \A x \in Rank : Done(x) => (Ran(b)' <=> Ran(b))
          /\ \A x \in Rank \ {r} : SentBy(x, b)' = SentBy(x, b) /\ TakenBy(x, b)' = TakenBy(x, b)
      BY <1>a, <1>u, Ledgers
    <2>2. SentBy(r, b)' = SentBy(r, b) /\ TakenBy(r, b)' = TakenBy(r, b)
      BY <1>s, <1>u, <2>1 DEF SentBy, TakenBy
    <2> QED BY <2>1, <2>2
  <1>3. Transit' = Transit
    <2>1. CASE Gloo BY <1>s, <1>u, <2>1 DEF Transit
    <2>2. CASE ~Gloo BY <1>s, <1>u, <2>2 DEF Transit
    <2> QED BY <2>1, <2>2
  <1>4. Wire(b)' BY <1>2, <1>3, <1>u, WireSame DEF Data
  <1>5. SavedFiles' BY <1>s, <1>u DEF Data, SavedFiles
  <1>6. open # {} /\ (aborted' # {} \/ \E m \in Transit' : m.abort) => Trouble(b)'
    BY <1>3 DEF Data, Causes
  <1> QED BY <1>1, <1>4, <1>5, <1>6, <1>a, <1>u, StepData

\* Such a step within the request.
LEMMA QuietStep ==
    ASSUME NEW b \in Nat, VideoInv(b), VideoInv(b)', Data(b), NEW r \in Rank, Active(r),
           NEW place \in Places \ {"idle", "barrier"}, pc' = [pc EXCEPT ![r] = place],
           NEW how \in {"none", "stopped", "failed"},
           (own' = own /\ how = own[r]) \/ own' = [own EXCEPT ![r] = how],
           how = own[r] \/ own[r] = "none" \/ pc[r] = "meet1",
           open' = open, aborted' = aborted, agreed' \in {agreed, agreed \cup {r}, agreed \ {r}},
           r \in agreed' => r \in agreed \/ place = "meet3" \/ own[r] = "none",
           UNCHANGED <<requests, turn, setup>>, UNCHANGED dataVars, Onward,
           place # "meet1" \/ how # "none" \/ r # 0,
           pc[r] = "meet1" => Bad(b + 1),
           Progress(r)', AtHand(r)'
    PROVE  Data(b)'
  <1>0. 0 \in Rank BY WorkerAssumption DEF Rank
  <1>m. Elsewhere(r) /\ pc'[r] = place /\ own'[r] = how BY Moves DEF VideoInv
  <1>1. Active(r)' BY <1>m DEF Active
  <1>2. Done(r)' <=> Done(r) BY <1>1 DEF Done
  <1>s. Epoch' = Epoch /\ (Loops' <=> Loops) BY SameRequest
  <1>3. (Active(0)' <=> Active(0)) /\ (r # 0 => pc'[0] = pc[0] /\ own'[0] = own[0])
    BY <1>0, <1>1, <1>m DEF Elsewhere, Active
  <1>4. Prepped' => Prepped BY <1>3, <1>m, <1>s DEF Prepped
  <1>5. Prepped /\ ~Prepped' => pc[r] = "meet1" BY <1>3, <1>m, <1>s DEF Prepped
  <1>6. Prepped /\ ~Prepped' /\ ~Gloo => Transit = {} BY <1>5, FileQuiet
  <1>7. open # {} /\ Trouble(b) => Trouble(b)'
    <2>0. pc[r] = "meet1" => open = {} BY DEF VideoInv, VideoTypes, Control
    <2>1. own'[r] = own[r] \/ own[r] = "none" \/ open = {} BY <1>m, <2>0
    <2>2. r \in agreed' => r \in agreed \/ pc'[r] = "meet3" \/ own[r] = "none" BY <1>m
    <2> QED BY <1>m, <2>1, <2>2, TroubleKept
  <1>8. Unsettled(r)' BY <1>1 DEF Data, Unsettled, dataVars
  <1> QED BY <1>m, <1>2, <1>4, <1>6, <1>7, <1>8, Quiet

\* What a rank in the middle of a segment knows.
LEMMA InSegment ==
    ASSUME NEW b \in Nat, VideoInv(b), Data(b), NEW r \in Rank, pc[r] \in {"diffuse", "recv", "send", "save"}
    PROVE  /\ Active(r) /\ Loops /\ r \in open /\ r \notin agreed /\ r \notin aborted /\ own[r] = "none"
           /\ CanUnwind(r) /\ Progress(r) /\ AtHand(r) /\ index[r] \in Nat
           /\ Owner(index[r]) = r /\ index[r] < requests[Epoch].segments
           /\ FirstOf(sent[r], Sends(r)) /\ FirstOf(received[r], Takes(r))
  <1>1. Active(r) BY DEF Active
  <1>2. Spot(r, b) /\ Progress(r) /\ AtHand(r) /\ index[r] \in Nat
    BY DEF VideoInv, Control, Data, DataTypes
  <1>3. /\ Loops /\ r \in open /\ r \notin agreed /\ own[r] = "none" /\ r \notin aborted
    BY <1>2 DEF Spot
  <1>4. /\ Owner(index[r]) = r /\ index[r] < requests[Epoch].segments
        /\ sent[r] = {e \in Sends(r) : e < index[r] \/ (pc[r] = "save" /\ e = index[r])}
        /\ received[r] = {i \in Takes(r) : i < index[r] \/ (pc[r] \in {"send", "save"} /\ i = index[r])}
    BY <1>2 DEF Progress
  <1>5. Sends(r) \subseteq Nat /\ Takes(r) \subseteq Nat BY HopsAre
  <1>6. FirstOf(sent[r], Sends(r)) BY <1>2, <1>4, <1>5 DEF FirstOf
  <1>7. FirstOf(received[r], Takes(r)) BY <1>2, <1>4, <1>5 DEF FirstOf
  <1> QED BY <1>1, <1>2, <1>3, <1>4, <1>6, <1>7 DEF CanUnwind

\* To the exception handlers.
LEMMA RethrowData ==
    ASSUME NEW b \in Nat, VideoInv(b), VideoInv(b)', Data(b), NEW r \in Rank, Active(r),
           NEW how \in {"stopped", "failed"}, pc' = [pc EXCEPT ![r] = "unwind"],
           own' = [own EXCEPT ![r] = how], how = own[r] \/ own[r] = "none" \/ pc[r] = "meet1",
           UNCHANGED <<open, agreed, aborted>>, UNCHANGED <<requests, turn, setup, meetingVars>>,
           UNCHANGED dataVars, pc[r] = "meet1" => Bad(b + 1),
           FirstOf(sent[r], Sends(r)), FirstOf(received[r], Takes(r)),
           ~CanUnwind(r) => Nothing(r), r \in open /\ r \in agreed => Full(r)
    PROVE  Data(b)'
  <1>1. "unwind" \in Places \ {"idle", "barrier"} BY DEF Places, Sending
  <1>2. pc'[r] = "unwind" BY DEF VideoInv, VideoTypes
  <1>3. Onward BY OnwardSame
  <1>u. /\ index' = index /\ sent' = sent /\ received' = received /\ tail' = tail
        /\ connected' = connected
    BY DEF dataVars
  <1>s. Epoch' = Epoch /\ (Loops' <=> Loops) /\ Sends(r)' = Sends(r) /\ Takes(r)' = Takes(r)
    BY SameRequest
  <1>4. (Nothing(r)' <=> Nothing(r)) /\ (Full(r)' <=> Full(r)) /\ (CanUnwind(r)' <=> CanUnwind(r))
    BY <1>u, <1>s DEF Nothing, Full, CanUnwind
  <1>5. Spot(r, b)' /\ Active(r)' BY <1>2 DEF VideoInv, Control, Active
  <1>6. Loops' BY <1>2, <1>5 DEF Spot
  <1>7. Progress(r)' BY <1>2, <1>4, <1>5, <1>6, <1>s, <1>u DEF Progress, FirstOf
  <1>8. AtHand(r)' BY <1>2 DEF AtHand
  <1> QED BY <1>1, <1>3, <1>7, <1>8, QuietStep

\* The steps of a rank that meet nobody and hand nothing on.
LEMMA MovesData ==
    ASSUME NEW b \in Nat, VideoInv(b), VideoInv(b)', Data(b), NEW r \in Rank,
           FailOutput(r) \/ Diffuse(r) \/ StopSegment(r) \/ FailSegment(r)
    PROVE  Data(b)'
  <1>p. Progress(r) /\ AtHand(r) /\ Spot(r, b) /\ own[r] \in {"none", "stopped", "failed"}
    BY DEF Data, VideoInv, Control, VideoTypes
  <1>1. CASE FailOutput(r)
    <2>1. /\ pc[r] = "run" /\ pc' = [pc EXCEPT ![r] = "unwind"] /\ own' = [own EXCEPT ![r] = "failed"]
          /\ UNCHANGED <<open, agreed, aborted>> /\ UNCHANGED <<requests, turn, setup, meetingVars>>
          /\ UNCHANGED dataVars
      BY <1>1 DEF FailOutput, Starts, Goto, requestVars, loopVars, dataVars
    <2>2. Nothing(r) /\ r \notin open /\ own[r] = "none" BY <1>p, <2>1 DEF Progress, Spot
    <2>3. FirstOf(sent[r], Sends(r)) /\ FirstOf(received[r], Takes(r)) BY <2>2 DEF Nothing, FirstOf
    <2>4. Active(r) BY <2>1 DEF Active
    <2> QED BY <2>1, <2>2, <2>3, <2>4, RethrowData
  <1>2. CASE StopSegment(r) \/ (FailSegment(r) /\ pc[r] # "concat")
    <2>1. /\ pc[r] \in {"diffuse", "recv", "send", "save"} /\ pc' = [pc EXCEPT ![r] = "unwind"]
          /\ \E how \in {"stopped", "failed"} : own' = [own EXCEPT ![r] = how]
          /\ UNCHANGED <<open, agreed, aborted>> /\ UNCHANGED <<requests, turn, setup, meetingVars>>
          /\ UNCHANGED dataVars
      BY <1>2 DEF StopSegment, Rethrow, FailSegment, Goto, requestVars, loopVars, wireVars, dataVars
    <2>2. PICK how \in {"stopped", "failed"} : own' = [own EXCEPT ![r] = how] BY <2>1
    <2>3. /\ Active(r) /\ r \in open /\ r \notin agreed /\ own[r] = "none" /\ CanUnwind(r)
          /\ FirstOf(sent[r], Sends(r)) /\ FirstOf(received[r], Takes(r))
      BY <2>1, InSegment
    <2>4. pc[r] # "meet1" BY <2>1
    <2> QED BY <2>1, <2>2, <2>3, <2>4, RethrowData
  <1>3. CASE FailSegment(r) /\ pc[r] = "concat"
    <2>1. /\ pc' = [pc EXCEPT ![r] = "unwind"] /\ own' = [own EXCEPT ![r] = "failed"]
          /\ UNCHANGED <<open, agreed, aborted>> /\ UNCHANGED <<requests, turn, setup, meetingVars>>
          /\ UNCHANGED dataVars
      BY <1>3 DEF FailSegment, Goto, requestVars, loopVars, wireVars, dataVars
    <2>2. Full(r) /\ r \in open /\ own[r] = "none" BY <1>3, <1>p DEF Progress, Spot
    <2>3. FirstOf(sent[r], Sends(r)) /\ FirstOf(received[r], Takes(r)) BY <2>2 DEF Full, FirstOf
    <2>4. Active(r) /\ CanUnwind(r) BY <1>3, <2>2 DEF Active, CanUnwind
    <2> QED BY <1>3, <2>1, <2>2, <2>3, <2>4, RethrowData
  <1>4. CASE Diffuse(r)
    <2> DEFINE place == IF index[r] = 0 THEN "send" ELSE "recv"
    <2>1. /\ pc[r] = "diffuse" /\ pc' = [pc EXCEPT ![r] = place]
          /\ UNCHANGED <<own, open, agreed, aborted>> /\ UNCHANGED <<requests, turn, setup, meetingVars>>
          /\ UNCHANGED dataVars
      BY <1>4 DEF Diffuse, Goto, requestVars, segmentVars, loopVars, exitVars, wireVars, dataVars
    <2>2. pc'[r] = place BY <2>1 DEF VideoInv, VideoTypes
    <2>3. /\ Active(r) /\ Loops /\ own[r] = "none" /\ index[r] \in Nat
          /\ Owner(index[r]) = r /\ index[r] < requests[Epoch].segments
      BY <2>1, InSegment
    <2>4. requests[Epoch].segments > 1 /\ requests[Epoch].segments \in Nat BY <2>3, AtWork
    <2>s. Epoch' = Epoch /\ (Loops' <=> Loops) /\ Sends(r)' = Sends(r) /\ Takes(r)' = Takes(r)
          /\ Hops' = Hops
      BY <2>1, SameRequest
    <2>u. /\ index' = index /\ sent' = sent /\ received' = received /\ tail' = tail
          /\ requests' = requests
      BY <2>1 DEF dataVars
    <2>5. index[r] = 0 => index[r] \in Hops BY <2>3, <2>4 DEF Hops
    <2>6. /\ sent[r] = {e \in Sends(r) : e < index[r]}
          /\ received[r] = {i \in Takes(r) : i < index[r]} /\ tail[r] = NoTail
      BY <1>p, <2>1 DEF Progress, AtHand
    <2>7. index[r] = 0 => received[r] = {i \in Takes(r) : i < index[r] \/ i = index[r]}
      BY <2>6 DEF Takes
    <2> HIDE DEF place
    <2>8. place = IF index[r] = 0 THEN "send" ELSE "recv" BY DEF place
    <2>9. Active(r)' BY <2>2, <2>8 DEF Active
    <2>10. Progress(r)'
      BY <2>2, <2>3, <2>5, <2>6, <2>7, <2>8, <2>9, <2>s, <2>u DEF Progress
    <2>11. AtHand(r)' BY <2>2, <2>6, <2>8, <2>u DEF AtHand, Before
    <2>12. place \in Places \ {"idle", "barrier"} /\ place # "meet1" BY <2>8 DEF Places, Sending
    <2>13. Onward BY <2>1, OnwardSame
    <2> QED BY <2>1, <2>3, <2>10, <2>11, <2>12, <2>13, QuietStep
  <1>5. FailSegment(r) => pc[r] = "concat" \/ pc[r] # "concat" OBVIOUS
  <1> QED BY <1>1, <1>2, <1>3, <1>4, <1>5

\* The steps that end at a rendezvous.
LEMMA ComesData ==
    ASSUME NEW b \in Nat, VideoInv(b), VideoInv(b)', Data(b), NEW r \in Rank,
           \/ RunAlone(r) \/ Settle(r)
           \/ r # 0 /\ Prepare(r)
           \/ r = 0 /\ FailAlone
    PROVE  Data(b)'
  <1>p. Progress(r) /\ AtHand(r) /\ Spot(r, b) /\ own[r] \in {"none", "stopped", "failed"}
    BY DEF Data, VideoInv, Control, VideoTypes
  <1>1. CASE RunAlone(r) \/ (r = 0 /\ FailAlone)
    <2>1. /\ pc[r] = "run" /\ Request(r).kind = "rank0" /\ pc' = [pc EXCEPT ![r] = "meet3"]
          /\ UNCHANGED <<open, agreed, aborted>> /\ UNCHANGED <<requests, turn, setup>>
          /\ UNCHANGED dataVars
          /\ \E failed \in BOOLEAN : Rendezvous(r, failed)
          /\ \E how \in {"none", "stopped", "failed"} :
                (own' = own /\ how = own[r]) \/ own' = [own EXCEPT ![r] = how]
      <3>1. CASE RunAlone(r)
        BY <1>p, <3>1 DEF RunAlone, Meet, Goto, requestVars, loopVars, wireVars, dataVars
      <3>2. CASE r = 0 /\ FailAlone
        BY <3>2 DEF FailAlone, Meet, Goto, requestVars, loopVars, wireVars, dataVars
      <3> QED BY <1>1, <3>1, <3>2
    <2>2. PICK how \in {"none", "stopped", "failed"} :
                (own' = own /\ how = own[r]) \/ own' = [own EXCEPT ![r] = how]
      BY <2>1
    <2>3. Onward BY <2>1, OnwardMeet
    <2>4. Active(r) /\ own[r] = "none" BY <1>p, <2>1 DEF Active, Spot
    <2>5. ~Loops BY <2>1, <2>4, ActiveHere
    <2>6. ~Loops' /\ pc'[r] = "meet3" BY <2>1, <2>5, SameRequest DEF VideoInv, VideoTypes
    <2>7. Nothing(r) /\ tail[r] = NoTail BY <1>p, <2>1 DEF Progress
    <2>8. Nothing(r)' /\ tail'[r] = NoTail BY <2>1, <2>7 DEF Nothing, dataVars
    <2>9. Progress(r)' /\ AtHand(r)' BY <2>6, <2>8 DEF Progress, AtHand
    <2>10. "meet3" \in Places \ {"idle", "barrier"} BY DEF Places
    <2> QED BY <2>1, <2>2, <2>3, <2>4, <2>9, <2>10, QuietStep
  <1>2. CASE Settle(r)
    <2>1. /\ pc[r] = "settle" /\ pc' = [pc EXCEPT ![r] = "meet2"]
          /\ UNCHANGED <<own, open, aborted>> /\ agreed' = agreed \cup {r}
          /\ UNCHANGED <<requests, turn, setup>> /\ UNCHANGED dataVars
          /\ Rendezvous(r, FALSE)
      BY <1>2 DEF Settle, Drain, Meet, Goto, requestVars, loopVars, dataVars
    <2>3. Onward BY <2>1, OnwardMeet
    <2>4. Active(r) /\ own[r] = "none" BY <1>p, <2>1 DEF Active, Spot
    <2>s. Epoch' = Epoch /\ (Loops' <=> Loops) /\ Sends(r)' = Sends(r) /\ Takes(r)' = Takes(r)
      BY <2>1, SameRequest
    <2>5. Full(r) /\ Loops BY <1>p, <2>1 DEF Progress, Spot
    <2>6. pc'[r] = "meet2" BY <2>1 DEF VideoInv, VideoTypes
    <2>7. Full(r)' /\ Loops' BY <2>1, <2>5, <2>s DEF Full, dataVars
    <2>8. Progress(r)' /\ AtHand(r)' BY <2>6, <2>7 DEF Progress, AtHand, Active
    <2>9. "meet2" \in Places \ {"idle", "barrier"} BY DEF Places
    <2> QED BY <2>1, <2>3, <2>4, <2>8, <2>9, QuietStep
  <1>3. CASE r # 0 /\ Prepare(r)
    <2>1. /\ pc[r] = "run" /\ pc' = [pc EXCEPT ![r] = "meet1"]
          /\ UNCHANGED <<own, open, aborted>> /\ agreed' = agreed \cup {r}
          /\ UNCHANGED <<requests, turn, setup>> /\ UNCHANGED dataVars
          /\ Rendezvous(r, FALSE)
      BY <1>3 DEF Prepare, Starts, Meet, Goto, requestVars, loopVars, dataVars
    <2>3. Onward BY <2>1, OnwardMeet
    <2>4. Active(r) /\ own[r] = "none" BY <1>p, <2>1 DEF Active, Spot
    <2>5. Nothing(r) /\ tail[r] = NoTail BY <1>p, <2>1 DEF Progress
    <2>6. pc'[r] = "meet1" BY <2>1 DEF VideoInv, VideoTypes
    <2>7. Nothing(r)' /\ tail'[r] = NoTail BY <2>1, <2>5 DEF Nothing, dataVars
    <2>8. Progress(r)' /\ AtHand(r)' BY <2>6, <2>7 DEF Progress, AtHand
    <2>9. "meet1" \in Places \ {"idle", "barrier"} BY DEF Places
    <2> QED BY <1>3, <2>1, <2>3, <2>4, <2>8, <2>9, QuietStep
  <1> QED BY <1>1, <1>2, <1>3

\* A rank that has unwound has dealt with all its tails, if it could.
LEMMA Unwinds ==
    ASSUME NEW b \in Nat, VideoInv(b), Data(b), NEW r \in Rank, pc[r] = "unwind",
           Owed(r) = {}, Inbound(r) = {}
    PROVE  IF CanUnwind(r) THEN Full(r) ELSE Nothing(r)
  <1>1. Progress(r) /\ Spot(r, b) BY DEF Data, VideoInv, Control
  <1>2. Active(r) /\ Loops BY <1>1 DEF Active, Spot
  <1>3. /\ {i \in MySegments(r) : i < Last(r)} = Sends(r)
        /\ MySegments(r) \ {0} = Takes(r)
    BY <1>2, AtWork
  <1>4. sent[r] \subseteq Sends(r) /\ received[r] \subseteq Takes(r) BY <1>1 DEF Progress, FirstOf
  <1>5. CASE CanUnwind(r)
    <2>1. /\ {i \in MySegments(r) : i < Last(r)} \ sent[r] = {}
          /\ (MySegments(r) \ {0}) \ received[r] = {}
      BY <1>5 DEF Owed, Inbound
    <2>2. Sends(r) \ sent[r] = {} /\ Takes(r) \ received[r] = {} BY <1>3, <2>1
    <2>3. sent[r] = Sends(r) /\ received[r] = Takes(r) BY <1>4, <2>2
    <2> QED BY <1>5, <2>3 DEF Full
  <1>6. CASE ~CanUnwind(r) BY <1>1, <1>6 DEF Progress
  <1> QED BY <1>5, <1>6

\* The steps that leave a rendezvous or the unwinding, and not the request.
LEMMA OnData ==
    ASSUME NEW b \in Nat, VideoInv(b), VideoInv(b)', Data(b), NEW r \in Rank,
           \/ Prepared(r) /\ open' = open
           \/ Settled(r) /\ pc'[r] # "barrier"
           \/ Unwound(r) /\ pc'[r] # "barrier"
    PROVE  Data(b)'
  <1>b. b + 1 \in Nat \ {0} /\ b + 2 \in Nat \ {0} OBVIOUS
  <1>p. Progress(r) /\ AtHand(r) /\ Spot(r, b) /\ own[r] \in {"none", "stopped", "failed"}
    BY DEF Data, VideoInv, Control, VideoTypes
  <1>c. pc \in [Rank -> Places] /\ own \in [Rank -> {"none", "stopped", "failed"}]
    BY DEF VideoInv, VideoTypes
  <1>1. CASE Prepared(r) /\ open' = open
    <2>1. pc[r] = "meet1" /\ Met(r, "ctrl") BY <1>1 DEF Prepared
    <2>2. Active(r) BY <2>1 DEF Active
    <2>3. /\ Loops /\ r \notin open /\ r \in agreed /\ own[r] # "stopped"
          /\ own[r] = "failed" => Fails(b + 1)
          /\ attended[r]["ctrl"] = b + 1
      BY <2>1, <2>2, ActiveHere DEF Spot, One
    <2> DEFINE raised == Raised(r, own[r] = "failed")
    <2>4. raised \in {"none", "stopped", "failed"} /\ (raised # "none" => Bad(b + 1))
      <3>1. PICK f \in BOOLEAN : f = (own[r] = "failed") OBVIOUS
      <3>2. Raised(r, f) \in {"none", "stopped", "failed"} /\ (Raised(r, f) # "none" => Bad(b + 1))
        BY <1>b, <2>3, RaisedTells
      <3> QED BY <3>1, <3>2
    <2>5. \/ raised # "none" /\ Rethrow(r, raised)
          \/ raised = "none" /\ own[r] = "failed" /\ Rethrow(r, "failed")
      <3>1. ~(raised = "none" /\ own[r] = "none" /\ open' = open \cup {r}) BY <1>1, <2>3
      <3> QED BY <1>1, <3>1 DEF Prepared
    <2> HIDE DEF raised
    <2>6. /\ Bad(b + 1)
          /\ \E how \in {"stopped", "failed"} : Rethrow(r, how)
      BY <2>3, <2>4, <2>5 DEF Bad
    <2>7. PICK how \in {"stopped", "failed"} : Rethrow(r, how) BY <2>6
    <2>8. /\ pc' = [pc EXCEPT ![r] = "unwind"] /\ own' = [own EXCEPT ![r] = how]
          /\ UNCHANGED <<open, agreed, aborted>> /\ UNCHANGED <<requests, turn, setup, meetingVars>>
          /\ UNCHANGED dataVars
      BY <2>7 DEF Rethrow, Goto, requestVars, loopVars, wireVars, dataVars
    <2>9. Nothing(r) BY <1>p, <2>1 DEF Progress
    <2>10. FirstOf(sent[r], Sends(r)) /\ FirstOf(received[r], Takes(r)) BY <2>9 DEF Nothing, FirstOf
    <2> QED BY <2>1, <2>2, <2>3, <2>6, <2>8, <2>9, <2>10, RethrowData
  <1>2. CASE Settled(r) /\ pc'[r] # "barrier"
    <2>1. pc[r] = "meet2" BY <1>2 DEF Settled
    <2>2. Active(r) /\ Full(r) /\ r \in open /\ r \in agreed /\ own[r] = "none" /\ Loops
      BY <1>p, <2>1 DEF Active, Progress, Spot
    <2>3. attended[r]["ctrl"] = b + 2 BY <2>2, ActiveHere DEF One
    <2>4. Raised(r, FALSE) \in {"none", "stopped", "failed"} BY <1>b, <2>3, RaisedTells
    <2>5. \/ Raised(r, FALSE) \in {"stopped", "failed"} /\ Rethrow(r, Raised(r, FALSE))
          \/ Goto(r, "concat") /\ UNCHANGED <<segmentVars, meetingVars>>
      <3>1. \A how : Leave(r, how) => pc'[r] = "barrier" BY <1>c DEF Leave, Finish
      <3> QED BY <1>2, <2>4, <3>1 DEF Settled
    <2>6. CASE Raised(r, FALSE) \in {"stopped", "failed"} /\ Rethrow(r, Raised(r, FALSE))
      <3>1. PICK how \in {"stopped", "failed"} : Rethrow(r, how) BY <2>6
      <3>2. /\ pc' = [pc EXCEPT ![r] = "unwind"] /\ own' = [own EXCEPT ![r] = how]
            /\ UNCHANGED <<open, agreed, aborted>> /\ UNCHANGED <<requests, turn, setup, meetingVars>>
            /\ UNCHANGED dataVars
        BY <3>1 DEF Rethrow, Goto, requestVars, loopVars, wireVars, dataVars
      <3>3. FirstOf(sent[r], Sends(r)) /\ FirstOf(received[r], Takes(r)) BY <2>2 DEF Full, FirstOf
      <3>4. CanUnwind(r) /\ pc[r] # "meet1" BY <2>1, <2>2 DEF CanUnwind
      <3> QED BY <2>2, <3>2, <3>3, <3>4, RethrowData
    <2>7. CASE Goto(r, "concat") /\ UNCHANGED <<segmentVars, meetingVars>>
      <3>1. /\ pc' = [pc EXCEPT ![r] = "concat"] /\ UNCHANGED <<own, open, agreed, aborted>>
            /\ UNCHANGED <<requests, turn, setup, meetingVars>> /\ UNCHANGED dataVars
        BY <2>7 DEF Goto, requestVars, segmentVars, loopVars, exitVars, wireVars, dataVars
      <3>2. pc'[r] = "concat" BY <1>c, <3>1
      <3>s. Epoch' = Epoch /\ (Loops' <=> Loops) /\ Sends(r)' = Sends(r) /\ Takes(r)' = Takes(r)
        BY <3>1, SameRequest
      <3>3. Full(r)' /\ Loops' BY <2>2, <3>1, <3>s DEF Full, dataVars
      <3>4. Progress(r)' /\ AtHand(r)' BY <3>2, <3>3 DEF Progress, AtHand, Active
      <3>5. "concat" \in Places \ {"idle", "barrier"} BY DEF Places
      <3>6. Onward /\ pc[r] # "meet1" BY <2>1, <3>1, OnwardSame
      <3> QED BY <2>2, <3>1, <3>4, <3>5, <3>6, QuietStep
    <2> QED BY <2>5, <2>6, <2>7
  <1>3. CASE Unwound(r) /\ pc'[r] # "barrier"
    <2>1. /\ pc[r] = "unwind" /\ Owed(r) = {} /\ Inbound(r) = {} /\ UNCHANGED channel /\ Continue(r)
      <3>1. Unwound(r) BY <1>3
      <3>2. \A how : Leave(r, how) => UNCHANGED channel BY DEF Leave
      <3>3. Continue(r) => UNCHANGED channel BY <3>2 DEF Continue
      <3> QED BY <3>1, <3>3 DEF Unwound
    <2>2. IF CanUnwind(r) THEN Full(r) ELSE Nothing(r) BY <2>1, Unwinds
    <2>3. Active(r) /\ Loops /\ (own[r] = "none" => r \in open) BY <1>p, <2>1 DEF Active, Spot
    <2>4. \/ /\ own[r] = "none" /\ Goto(r, "settle")
             /\ UNCHANGED <<setup, loopVars, exitVars, channel, connected, scratch, meetingVars>>
          \/ /\ own[r] # "none" /\ r \notin agreed /\ agreed' = agreed \cup {r}
             /\ Meet(r, own[r] = "failed", "meet3")
             /\ UNCHANGED <<setup, loopVars, own, aborted, open, channel, connected, scratch>>
      <3>1. \A how : Leave(r, how) => pc'[r] = "barrier" BY <1>c DEF Leave, Finish
      <3> QED BY <1>3, <2>1, <3>1 DEF Continue
    <2>5. CASE own[r] = "none" /\ pc' = [pc EXCEPT ![r] = "settle"]
      <3>1. /\ UNCHANGED <<own, open, agreed, aborted>>
            /\ UNCHANGED <<requests, turn, setup, meetingVars>> /\ UNCHANGED dataVars
        <4>1. pc'[r] # "meet3" BY <1>c, <2>5
        <4>2. ~Meet(r, own[r] = "failed", "meet3") BY <1>c, <4>1 DEF Meet, Goto
        <4> QED BY <2>4, <4>2 DEF Goto, requestVars, loopVars, exitVars, dataVars
      <3>2. pc'[r] = "settle" BY <1>c, <2>5
      <3>s. Epoch' = Epoch /\ (Loops' <=> Loops) /\ Sends(r)' = Sends(r) /\ Takes(r)' = Takes(r)
        BY <3>1, SameRequest
      <3>3. Full(r) BY <2>2, <2>3, <2>5 DEF CanUnwind
      <3>4. Full(r)' /\ Loops' BY <2>3, <3>1, <3>3, <3>s DEF Full, dataVars
      <3>5. Progress(r)' /\ AtHand(r)' BY <3>2, <3>4 DEF Progress, AtHand, Active
      <3>6. "settle" \in Places \ {"idle", "barrier"} BY DEF Places, Sending
      <3>7. Onward /\ pc[r] # "meet1" BY <2>1, <3>1, OnwardSame
      <3> QED BY <2>3, <2>5, <3>1, <3>5, <3>6, <3>7, QuietStep
    <2>6. CASE own[r] # "none" /\ agreed' = agreed \cup {r} /\ Meet(r, own[r] = "failed", "meet3")
      <3>0. PICK failed \in BOOLEAN : failed = (own[r] = "failed") OBVIOUS
      <3>1. /\ pc' = [pc EXCEPT ![r] = "meet3"] /\ Rendezvous(r, failed)
            /\ UNCHANGED <<own, open, aborted>> /\ agreed' = agreed \cup {r}
            /\ UNCHANGED <<requests, turn, setup>> /\ UNCHANGED dataVars
        BY <2>4, <2>6, <3>0 DEF Meet, Goto, requestVars, loopVars, exitVars, dataVars
      <3>2. pc'[r] = "meet3" BY <1>c, <3>1
      <3>s. Epoch' = Epoch /\ (Loops' <=> Loops) /\ Sends(r)' = Sends(r) /\ Takes(r)' = Takes(r)
        BY <3>1, SameRequest
      <3>3. IF CanUnwind(r)' THEN Full(r)' ELSE Nothing(r)'
        BY <2>2, <3>1, <3>s DEF CanUnwind, Full, Nothing, dataVars
      <3>4. Progress(r)' /\ AtHand(r)' BY <2>3, <3>2, <3>3, <3>s DEF Progress, AtHand, Active
      <3>5. "meet3" \in Places \ {"idle", "barrier"} BY DEF Places
      <3>6. Onward /\ pc[r] # "meet1" BY <2>1, <3>1, OnwardMeet
      <3> QED BY <1>p, <2>3, <3>1, <3>4, <3>5, <3>6, QuietStep
    <2> QED BY <2>4, <2>5, <2>6 DEF Goto
  <1> QED BY <1>1, <1>2, <1>3

(***************************************************************************)
(* Tails that are sent and taken.                                          *)
(***************************************************************************)

LEMMA MinIsFirst ==
    ASSUME NEW S \in SUBSET Nat, S # {}
    PROVE  Min(S) \in S /\ \A y \in S : Min(S) <= y
  <1>1. PICK c \in S : \A y \in S : ~(<<y, c>> \in OpToRel(<, Nat))
    BY NatLessThanWellFounded, WFMin
  <1>2. \A y \in S : ~(y < c) BY <1>1, Zenon DEF OpToRel
  <1>3. \A y \in S : c <= y BY <1>2
  <1> QED BY <1>3 DEF Min

\* A rank sends its tails in order.
LEMMA SentInOrder ==
    ASSUME NEW b \in Nat, VideoInv(b), Data(b), NEW x \in Rank
    PROVE  FirstOf(SentBy(x, b), Sends(x))
  <1>1. CASE Done(x) /\ Ran(b) BY <1>1 DEF SentBy, FirstOf
  <1>2. CASE ~(Done(x) /\ Ran(b))
    <2>1. SentBy(x, b) = sent[x] BY <1>2 DEF SentBy
    <2>2. Progress(x) /\ pc[x] \in Places /\ Spot(x, b) BY DEF Data, VideoInv, VideoTypes, Control
    <2>3. Nothing(x) \/ Full(x) \/ FirstOf(sent[x], Sends(x))
      <3>1. CASE pc[x] \in {"diffuse", "recv", "send", "save"} BY <3>1, InSegment
      <3>2. CASE pc[x] \notin {"diffuse", "recv", "send", "save"}
        BY <2>2, <3>2 DEF Progress, Active, Places, Sending
      <3> QED BY <3>1, <3>2
    <2> QED BY <2>1, <2>3 DEF Nothing, Full, FirstOf
  <1> QED BY <1>1, <1>2

\* A tail comes off the wire.
LEMMA WireTake ==
    ASSUME NEW b \in Nat, Wire(b), UNCHANGED <<requests, setup>>, NEW r \in Rank,
           NEW m \in Transit, Transit' = Transit \ {m}, Owner(m.edge + 1) = r,
           \A x \in Rank : SentBy(x, b)' = SentBy(x, b),
           \A x \in Rank \ {r} : TakenBy(x, b)' = TakenBy(x, b),
           TakenBy(r, b)' = TakenBy(r, b) \cup {m.edge + 1},
           Gloo => \A x \in Rank : channel'[x] = <<>> \/ channel'[x] = channel[x]
    PROVE  Wire(b)'
  <1>1. Epoch' = Epoch /\ (Gloo' <=> Gloo) /\ Hops' = Hops BY SameRequest
  <1>2. \A e \in Hops : e \in Nat /\ e + 1 \in Nat /\ Owner(e) \in Rank /\ Owner(e + 1) \in Rank
    BY HopOwners
  <1>m. m.edge \in Hops /\ m.edge \in Nat BY <1>2 DEF Wire
  <1>3. /\ \A q \in Transit' : q.request = Epoch' /\ q.edge \in Hops'
        /\ \A p, q \in Transit' : p.edge = q.edge => p = q
    BY <1>1 DEF Wire
  <1>4. ASSUME NEW e \in Hops
        PROVE  /\ (\E q \in Transit' : q.edge = e) <=>
                    e \in SentBy(Owner(e), b)' /\ e + 1 \notin TakenBy(Owner(e + 1), b)'
               /\ e + 1 \in TakenBy(Owner(e + 1), b)' => e \in SentBy(Owner(e), b)'
    <2>1. SentBy(Owner(e), b)' = SentBy(Owner(e), b) BY <1>2
    <2>2. /\ (\E q \in Transit : q.edge = e) <=>
                e \in SentBy(Owner(e), b) /\ e + 1 \notin TakenBy(Owner(e + 1), b)
          /\ e + 1 \in TakenBy(Owner(e + 1), b) => e \in SentBy(Owner(e), b)
      BY DEF Wire
    <2>3. CASE e = m.edge
      <3>1. ~\E q \in Transit' : q.edge = e BY <2>3 DEF Wire
      <3>2. e + 1 \in TakenBy(Owner(e + 1), b)' BY <2>3
      <3>3. e \in SentBy(Owner(e), b) BY <2>2, <2>3
      <3> QED BY <2>1, <3>1, <3>2, <3>3
    <2>4. CASE e # m.edge
      <3>1. (\E q \in Transit' : q.edge = e) <=> (\E q \in Transit : q.edge = e) BY <2>4
      <3>2. e + 1 # m.edge + 1 BY <1>2, <1>m, <2>4
      <3>3. e + 1 \in TakenBy(Owner(e + 1), b)' <=> e + 1 \in TakenBy(Owner(e + 1), b)
        <4>1. CASE Owner(e + 1) = r BY <3>2, <4>1
        <4>2. CASE Owner(e + 1) # r BY <1>2, <4>2
        <4> QED BY <4>1, <4>2
      <3> QED BY <2>1, <2>2, <3>1, <3>3
    <2> QED BY <2>3, <2>4
  <1>5. Gloo' => \A x \in Rank : channel'[x] = <<>> \/ \E q \in Tails : channel'[x] = <<q>> /\ Owner(q.edge) = x
    BY <1>1 DEF Wire
  <1> QED BY <1>1, <1>3, <1>4, <1>5 DEF Wire

\* A tail goes on the wire.
LEMMA WireSend ==
    ASSUME NEW b \in Nat, Wire(b), UNCHANGED <<requests, setup>>, NEW r \in Rank,
           NEW m \in Tails, Transit' = Transit \cup {m}, m.request = Epoch,
           m.edge \in Hops, Owner(m.edge) = r, m.edge \notin SentBy(r, b),
           \A x \in Rank : TakenBy(x, b)' = TakenBy(x, b),
           \A x \in Rank \ {r} : SentBy(x, b)' = SentBy(x, b),
           SentBy(r, b)' = SentBy(r, b) \cup {m.edge},
           Gloo => \A x \in Rank : channel'[x] = channel[x] \/ (x = r /\ channel'[x] = <<m>>)
    PROVE  Wire(b)'
  <1>1. Epoch' = Epoch /\ (Gloo' <=> Gloo) /\ Hops' = Hops BY SameRequest
  <1>2. \A e \in Hops : e \in Nat /\ e + 1 \in Nat /\ Owner(e) \in Rank /\ Owner(e + 1) \in Rank
    BY HopOwners
  <1>m. ~\E q \in Transit : q.edge = m.edge BY DEF Wire
  <1>3. /\ \A q \in Transit' : q.request = Epoch' /\ q.edge \in Hops'
        /\ \A p, q \in Transit' : p.edge = q.edge => p = q
    BY <1>1, <1>m DEF Wire
  <1>4. ASSUME NEW e \in Hops
        PROVE  /\ (\E q \in Transit' : q.edge = e) <=>
                    e \in SentBy(Owner(e), b)' /\ e + 1 \notin TakenBy(Owner(e + 1), b)'
               /\ e + 1 \in TakenBy(Owner(e + 1), b)' => e \in SentBy(Owner(e), b)'
    <2>1. TakenBy(Owner(e + 1), b)' = TakenBy(Owner(e + 1), b) BY <1>2
    <2>2. /\ (\E q \in Transit : q.edge = e) <=>
                e \in SentBy(Owner(e), b) /\ e + 1 \notin TakenBy(Owner(e + 1), b)
          /\ e + 1 \in TakenBy(Owner(e + 1), b) => e \in SentBy(Owner(e), b)
      BY DEF Wire
    <2>3. CASE e = m.edge
      <3>1. \E q \in Transit' : q.edge = e BY <2>3
      <3>2. e + 1 \notin TakenBy(Owner(e + 1), b) BY <2>2, <2>3
      <3>3. e \in SentBy(Owner(e), b)' BY <2>3
      <3> QED BY <2>1, <3>1, <3>2, <3>3
    <2>4. CASE e # m.edge
      <3>1. (\E q \in Transit' : q.edge = e) <=> (\E q \in Transit : q.edge = e) BY <2>4
      <3>2. e \in SentBy(Owner(e), b)' <=> e \in SentBy(Owner(e), b)
        <4>1. CASE Owner(e) = r BY <2>4, <4>1
        <4>2. CASE Owner(e) # r BY <1>2, <4>2
        <4> QED BY <4>1, <4>2
      <3> QED BY <2>1, <2>2, <3>1, <3>2
    <2> QED BY <2>3, <2>4
  <1>5. Gloo' => \A x \in Rank : channel'[x] = <<>> \/ \E q \in Tails : channel'[x] = <<q>> /\ Owner(q.edge) = x
    BY <1>1 DEF Wire
  <1> QED BY <1>1, <1>3, <1>4, <1>5 DEF Wire

\* What is in a channel is under way, and the sender's.
LEMMA InChannel ==
    ASSUME NEW b \in Nat, Data(b), Gloo, NEW x \in Rank, channel[x] # <<>>
    PROVE  \E m \in Transit : m \in Tails /\ channel[x] = <<m>> /\ Owner(m.edge) = x
  <1>1. PICK m \in Tails : channel[x] = <<m>> /\ Owner(m.edge) = x BY DEF Data, Wire
  <1>2. m \in Transit BY <1>1 DEF Transit
  <1> QED BY <1>1, <1>2

\* The owner of a tail hands on the one that is due: no other of its tails is
\* under way to that rank.
LEMMA DueTail ==
    ASSUME NEW b \in Nat, VideoInv(b), Data(b), Gloo, NEW r \in Rank, Active(r),
           NEW e \in Hops, Owner(e + 1) = r, e + 1 \notin received[r],
           \A j \in Takes(r) : j < e + 1 => j \in received[r],
           channel[Owner(e)] # <<>>
    PROVE  \E m \in Transit : m \in Tails /\ channel[Owner(e)] = <<m>> /\ m.edge = e /\ m.request = Epoch
  <1>e. e \in Nat /\ e + 1 \in Nat /\ Owner(e) \in Rank BY HopOwners
  <1>x. PICK x \in Rank : x = Owner(e) BY <1>e
  <1>1. PICK m \in Transit : m \in Tails /\ channel[x] = <<m>> /\ Owner(m.edge) = x
    BY <1>x, InChannel
  <1>2. m.request = Epoch /\ m.edge \in Hops BY DEF Data, Wire
  <1>d. PICK d \in Hops : d = m.edge BY <1>2
  <1>3. d \in Nat /\ d + 1 \in Nat BY HopOwners
  <1>4. Owner(d) = Owner(e) BY <1>1, <1>d, <1>x
  <1>5. Owner(d + 1) = r BY <1>3, <1>4, <1>e, NextOwners
  <1>6. d + 1 \notin received[r]
    <2>1. d \in SentBy(Owner(d), b) /\ d + 1 \notin TakenBy(Owner(d + 1), b) BY <1>d DEF Data, Wire
    <2>2. TakenBy(r, b) = received[r] BY DEF TakenBy, Done
    <2> QED BY <1>5, <2>1, <2>2
  <1>7. d + 1 \in Takes(r) BY <1>5, HopsAre
  <1>8. d >= e BY <1>3, <1>6, <1>7, <1>e
  <1>9. d = e
    <2> SUFFICES ASSUME e < d PROVE FALSE BY <1>3, <1>8, <1>e
    <2>1. d \in SentBy(x, b) BY <1>1, <1>d DEF Data, Wire
    <2>2. FirstOf(SentBy(x, b), Sends(x)) BY SentInOrder
    <2>3. e \in Sends(x) BY <1>x, HopsAre
    <2>4. e \in SentBy(Owner(e), b) BY <1>x, <2>1, <2>2, <2>3 DEF FirstOf
    <2>5. TakenBy(r, b) = received[r] BY DEF TakenBy, Done
    <2>6. e + 1 \notin TakenBy(Owner(e + 1), b) BY <2>5
    <2>7. PICK q \in Transit : q.edge = e BY <2>4, <2>6 DEF Data, Wire
    <2>8. PICK y \in Rank : channel[y] = <<q>> BY <2>7 DEF Transit
    <2>9. PICK p \in Tails : channel[y] = <<p>> /\ Owner(p.edge) = y BY <2>8 DEF Data, Wire
    <2>10. p = q BY <2>8, <2>9
    <2>11. y = x BY <1>x, <2>7, <2>9, <2>10
    <2>12. q = m BY <1>1, <2>8, <2>11
    <2> QED BY <1>3, <1>d, <1>e, <2>7, <2>12
  <1> QED BY <1>1, <1>2, <1>9, <1>d, <1>x

\* A rank takes a tail: it is the one of the edge.
LEMMA TakesTail ==
    ASSUME NEW b \in Nat, VideoInv(b), Data(b), NEW r \in Rank, Active(r),
           NEW e \in Hops, Owner(e + 1) = r, e + 1 \notin received[r],
           \A j \in Takes(r) : j < e + 1 => j \in received[r],
           TakeTail(r, e), UNCHANGED <<requests, setup>>, Gloo \/ (Prepped /\ Prepped')
    PROVE  /\ \E m \in Transit :
                /\ m \in Tails /\ m.edge = e /\ m.request = Epoch
                /\ tail' = [tail EXCEPT ![r] = m] /\ Transit' = Transit \ {m}
           /\ connected' = connected /\ scratch'.files = scratch.files
           /\ channel' \in [Rank -> Seq(Tails)]
           /\ \A x \in Rank : channel'[x] = <<>> \/ channel'[x] = channel[x]
           /\ scratch' \in [exists : BOOLEAN, tails : SUBSET Tails, files : SUBSET Files]
  <1>t. /\ channel \in [Rank -> Seq(Tails)]
        /\ scratch \in [exists : BOOLEAN, tails : SUBSET Tails, files : SUBSET Files]
    BY DEF Data, DataTypes
  <1>e. e \in Nat /\ Owner(e) \in Rank BY HopOwners
  <1>s. Gloo' <=> Gloo BY SameRequest
  <1>1. CASE Gloo
    <2> DEFINE from == Owner(e)
    <2>1. /\ channel[from] # <<>> /\ tail' = [tail EXCEPT ![r] = Head(channel[from])]
          /\ channel' = [channel EXCEPT ![from] = Tail(@)] /\ scratch' = scratch
          /\ connected' = connected
      BY <1>1 DEF TakeTail
    <2>2. PICK m \in Transit : m \in Tails /\ channel[from] = <<m>> /\ m.edge = e /\ m.request = Epoch
      BY <1>1, <2>1, DueTail
    <2> HIDE DEF from
    <2>f. from \in Rank /\ from = Owner(e) BY <1>e DEF from
    <2>3. /\ Head(channel[from]) = m /\ Tail(channel[from]) = <<>> BY <2>2
    <2>4. /\ channel' \in [Rank -> Seq(Tails)] /\ channel'[from] = <<>>
          /\ \A x \in Rank \ {from} : channel'[x] = channel[x]
      BY <1>t, <2>1, <2>3, <2>f
    <2>n. \A q : <<q>> # <<>> OBVIOUS
    <2>5. Transit' = Transit \ {m}
      <3>1. Transit = {q \in Tails : \E x \in Rank : channel[x] = <<q>>} BY <1>1 DEF Transit
      <3>2. Transit' = {q \in Tails : \E x \in Rank : channel'[x] = <<q>>} BY <1>1, <1>s DEF Transit
      <3>3. \A x \in Rank : channel[x] = <<m>> => x = from
        <4> SUFFICES ASSUME NEW x \in Rank, channel[x] = <<m>> PROVE x = from OBVIOUS
        <4>1. PICK p \in Transit : channel[x] = <<p>> /\ Owner(p.edge) = x BY <1>1, InChannel
        <4>2. p = m BY <4>1
        <4> QED BY <2>2, <2>f, <4>1, <4>2
      <3>4. ASSUME NEW q \in Tails PROVE q \in Transit' <=> q \in Transit /\ q # m
        <4>1. CASE q = m
          <5>1. \A x \in Rank : channel'[x] # <<m>> BY <2>4, <2>n, <3>3
          <5> QED BY <3>2, <4>1, <5>1
        <4>2. CASE q # m
          <5>1. channel[from] # <<q>> BY <2>2, <4>2
          <5>2. (\E x \in Rank : channel'[x] = <<q>>) <=> (\E x \in Rank : channel[x] = <<q>>)
            BY <2>4, <2>n, <5>1
          <5> QED BY <3>1, <3>2, <4>2, <5>2
        <4> QED BY <4>1, <4>2
      <3>5. Transit \subseteq Tails /\ Transit' \subseteq Tails BY <3>1, <3>2
      <3> QED BY <3>4, <3>5
    <2> QED BY <1>t, <2>1, <2>2, <2>3, <2>4, <2>5
  <1>2. CASE ~Gloo
    <2>0. Prepped /\ Prepped' BY <1>2
    <2>1. PICK m \in scratch.tails :
            /\ m.edge = e /\ tail' = [tail EXCEPT ![r] = m]
            /\ scratch' = [scratch EXCEPT !.tails = @ \ {m}]
            /\ channel' = channel /\ connected' = connected
      BY <1>2 DEF TakeTail
    <2>2. Transit = scratch.tails /\ Transit' = scratch'.tails BY <1>2, <1>s, <2>0 DEF Transit
    <2>3. /\ scratch'.tails = scratch.tails \ {m} /\ scratch'.files = scratch.files
          /\ scratch' \in [exists : BOOLEAN, tails : SUBSET Tails, files : SUBSET Files]
      BY <1>t, <2>1
    <2>4. m \in Transit /\ m \in Tails BY <1>t, <2>2
    <2>5. m.request = Epoch BY <2>4 DEF Data, Wire
    <2> QED BY <1>t, <2>1, <2>2, <2>3, <2>4, <2>5
  <1> QED BY <1>1, <1>2

\* A rank sends a tail.
LEMMA SendsTail ==
    ASSUME NEW b \in Nat, VideoInv(b), Data(b), NEW r \in Rank, Active(r),
           NEW m \in Tails, m.edge \in Sends(r), m.edge \notin sent[r],
           SendTail(r, m), UNCHANGED <<requests, setup>>, Gloo \/ (Prepped /\ Prepped')
    PROVE  /\ Transit' = Transit \cup {m}
           /\ connected' = connected /\ scratch'.files = scratch.files
           /\ channel' \in [Rank -> Seq(Tails)]
           /\ Gloo => \A x \in Rank : channel'[x] = channel[x] \/ (x = r /\ channel'[x] = <<m>>)
           /\ scratch' \in [exists : BOOLEAN, tails : SUBSET Tails, files : SUBSET Files]
  <1>t. /\ channel \in [Rank -> Seq(Tails)]
        /\ scratch \in [exists : BOOLEAN, tails : SUBSET Tails, files : SUBSET Files]
    BY DEF Data, DataTypes
  <1>s. Gloo' <=> Gloo BY SameRequest
  <1>1. CASE Gloo
    <2>1. /\ channel[r] = <<>> /\ channel' = [channel EXCEPT ![r] = Append(@, m)]
          /\ scratch' = scratch /\ connected' = connected
      BY <1>1 DEF SendTail
    <2>2. /\ channel' \in [Rank -> Seq(Tails)] /\ channel'[r] = <<m>>
          /\ \A x \in Rank \ {r} : channel'[x] = channel[x]
      BY <1>t, <2>1
    <2>3. Transit' = Transit \cup {m}
      <3>1. Transit = {q \in Tails : \E x \in Rank : channel[x] = <<q>>} BY <1>1 DEF Transit
      <3>2. Transit' = {q \in Tails : \E x \in Rank : channel'[x] = <<q>>} BY <1>1, <1>s DEF Transit
      <3>3. ASSUME NEW q \in Tails PROVE q \in Transit' <=> q \in Transit \/ q = m
        <4>1. CASE q = m BY <2>2, <3>2, <4>1
        <4>2. CASE q # m
          <5>1. channel'[r] # <<q>> /\ channel[r] # <<q>> BY <2>1, <2>2, <4>2
          <5>2. (\E x \in Rank : channel'[x] = <<q>>) <=> (\E x \in Rank : channel[x] = <<q>>)
            BY <2>2, <5>1
          <5> QED BY <3>1, <3>2, <4>2, <5>2
        <4> QED BY <4>1, <4>2
      <3>4. Transit \subseteq Tails /\ Transit' \subseteq Tails BY <3>1, <3>2
      <3> QED BY <3>3, <3>4
    <2> QED BY <1>t, <2>1, <2>2, <2>3
  <1>2. CASE ~Gloo
    <2>0. Prepped /\ Prepped' BY <1>2
    <2>1. /\ scratch' = [scratch EXCEPT !.tails = {t \in @ : t.edge # m.edge} \cup {m}]
          /\ channel' = channel /\ connected' = connected
      BY <1>2 DEF SendTail
    <2>2. Transit = scratch.tails /\ Transit' = scratch'.tails BY <1>2, <1>s, <2>0 DEF Transit
    <2>3. /\ scratch'.tails = {t \in scratch.tails : t.edge # m.edge} \cup {m}
          /\ scratch'.files = scratch.files
          /\ scratch' \in [exists : BOOLEAN, tails : SUBSET Tails, files : SUBSET Files]
      BY <1>t, <2>1
    <2>4. \A t \in Transit : t.edge # m.edge
      <3>1. SentBy(r, b) = sent[r] BY DEF SentBy, Done
      <3>2. m.edge \in Hops /\ Owner(m.edge) = r BY DEF Sends
      <3> QED BY <3>1, <3>2 DEF Data, Wire
    <2>5. Transit' = Transit \cup {m} BY <2>2, <2>3, <2>4
    <2> QED BY <1>2, <1>t, <2>1, <2>3, <2>5
  <1> QED BY <1>1, <1>2

\* The directory stays in use, or not.
LEMMA PreppedStays ==
    ASSUME NEW r \in Rank, Elsewhere(r), Active(r), Active(r)', pc[r] # "meet1", pc'[r] # "meet1",
           UNCHANGED <<requests, open>>
    PROVE  Prepped' <=> Prepped
  <1>0. 0 \in Rank BY WorkerAssumption DEF Rank
  <1>1. (Active(0)' <=> Active(0)) /\ (r # 0 => pc'[0] = pc[0] /\ own'[0] = own[0])
    BY <1>0 DEF Elsewhere, Active
  <1>2. Loops' <=> Loops BY DEF Loops, Epoch
  <1> QED BY <1>1, <1>2 DEF Prepped

\* What the sending of a tail leaves to be shown.
LEMMA SendData ==
    ASSUME NEW b \in Nat, VideoInv(b), VideoInv(b)', Data(b), NEW r \in Rank, Active(r),
           NEW m \in Tails, m.request = Epoch, m.edge \in Sends(r), m.edge \notin sent[r],
           SendTail(r, m), sent' = [sent EXCEPT ![r] = @ \cup {m.edge}],
           NEW place \in {"save", "unwind"}, pc' = [pc EXCEPT ![r] = place], pc[r] # "meet1",
           UNCHANGED <<requests, turn, setup, index, received, tail, own, agreed, aborted, open>>,
           UNCHANGED <<outcome, meetingVars>>,
           Gloo \/ (r \in open /\ r \notin agreed),
           m.abort /\ open # {} => Trouble(b),
           Progress(r)', AtHand(r)'
    PROVE  Data(b)'
  <1>0. place \in Places BY DEF Places, Sending
  <1>t. VideoTypes /\ DataTypes BY DEF VideoInv, Data
  <1>m. Elsewhere(r) /\ pc'[r] = place
    <2>1. own[r] \in {"none", "stopped", "failed"} BY <1>t DEF VideoTypes
    <2> QED BY <1>0, <1>t, <2>1, Moves
  <1>1. Active(r)' BY <1>m DEF Active
  <1>2. Prepped' <=> Prepped BY <1>1, <1>m, PreppedStays
  <1>3. Gloo \/ (Prepped /\ Prepped') BY <1>2, PreppedWhen
  <1>4. /\ Transit' = Transit \cup {m}
        /\ connected' = connected /\ scratch'.files = scratch.files
        /\ channel' \in [Rank -> Seq(Tails)]
        /\ Gloo => \A x \in Rank : channel'[x] = channel[x] \/ (x = r /\ channel'[x] = <<m>>)
        /\ scratch' \in [exists : BOOLEAN, tails : SUBSET Tails, files : SUBSET Files]
    BY <1>3, SendsTail
  <1>5. /\ sent' \in [Rank -> SUBSET Nat] /\ sent'[r] = sent[r] \cup {m.edge}
        /\ \A x \in Rank \ {r} : sent'[x] = sent[x]
    <2>1. m.edge \in Nat BY HopsAre
    <2> QED BY <1>t, <2>1 DEF DataTypes
  <1>6. DataTypes' BY <1>t, <1>4, <1>5 DEF DataTypes
  <1>a. Alone(r) BY <1>m, <1>4, <1>5 DEF Alone
  <1>o. Onward BY OnwardSame
  <1>s. /\ Epoch' = Epoch /\ (Loops' <=> Loops)
        /\ \A x \in Rank : Sends(x)' = Sends(x) /\ Takes(x)' = Takes(x)
        /\ \A i : Before(i)' = Before(i)
    BY SameRequest
  <1>7. ~Done(r) /\ ~Done(r)' BY <1>1 DEF Done
  <1>8. Wire(b)'
    <2>1. \A x \in Rank \ {r} : SentBy(x, b)' = SentBy(x, b) /\ TakenBy(x, b)' = TakenBy(x, b)
      BY <1>a, <1>o, <1>4, Ledgers
    <2>2. SentBy(r, b)' = SentBy(r, b) \cup {m.edge} /\ TakenBy(r, b)' = TakenBy(r, b)
      BY <1>5, <1>7 DEF SentBy, TakenBy
    <2>3. m.edge \in Hops /\ Owner(m.edge) = r BY DEF Sends
    <2>4. m.edge \notin SentBy(r, b) BY <1>7 DEF SentBy
    <2>5. Wire(b) BY DEF Data
    <2>6. \A x \in Rank : TakenBy(x, b)' = TakenBy(x, b) BY <2>1, <2>2
    <2> QED BY <1>4, <2>1, <2>2, <2>3, <2>4, <2>5, <2>6, WireSend
  <1>9. SavedFiles' BY <1>2, <1>4, <1>s DEF Data, SavedFiles
  <1>10. Unsettled(r)' BY <1>1 DEF Data, Unsettled
  <1>11. open # {} /\ (aborted' # {} \/ \E q \in Transit' : q.abort) => Trouble(b)'
    <2>1. open # {} /\ Trouble(b) => Trouble(b)' BY <1>m, <1>o, TroubleKept
    <2> QED BY <1>4, <2>1 DEF Data, Causes
  <1> QED BY <1>4, <1>6, <1>7, <1>8, <1>9, <1>10, <1>11, <1>a, <1>o, StepData

\* And the taking of one.
LEMMA TakeData ==
    ASSUME NEW b \in Nat, VideoInv(b), VideoInv(b)', Data(b), NEW r \in Rank, Active(r),
           NEW m \in Transit, m \in Tails, NEW i, i = m.edge + 1, Owner(i) = r,
           tail' = [tail EXCEPT ![r] = m], Transit' = Transit \ {m},
           connected' = connected, scratch'.files = scratch.files,
           channel' \in [Rank -> Seq(Tails)],
           \A x \in Rank : channel'[x] = <<>> \/ channel'[x] = channel[x],
           scratch' \in [exists : BOOLEAN, tails : SUBSET Tails, files : SUBSET Files],
           received' = [received EXCEPT ![r] = @ \cup {i}],
           NEW place \in Places \ {"idle", "barrier", "meet1"}, pc' = [pc EXCEPT ![r] = place],
           pc[r] # "meet1",
           UNCHANGED <<requests, turn, setup, index, sent, own, agreed, open>>,
           UNCHANGED <<outcome, meetingVars>>,
           aborted' = aborted \/ (aborted' = aborted \cup {r} /\ m.abort),
           Progress(r)', AtHand(r)'
    PROVE  Data(b)'
  <1>t. VideoTypes /\ DataTypes BY DEF VideoInv, Data
  <1>m. Elsewhere(r) /\ pc'[r] = place
    <2>1. pc'[r] = place /\ \A x \in Rank \ {r} : pc'[x] = pc[x] BY <1>t DEF VideoTypes
    <2>2. \A x \in Rank \ {r} : x \in aborted' <=> x \in aborted OBVIOUS
    <2> QED BY <2>1, <2>2 DEF Elsewhere
  <1>1. Active(r)' BY <1>m DEF Active
  <1>2. Prepped' <=> Prepped BY <1>1, <1>m, PreppedStays
  <1>3. m.edge \in Nat /\ i \in Nat BY DEF Tails
  <1>5. /\ received' \in [Rank -> SUBSET Nat] /\ received'[r] = received[r] \cup {i}
        /\ \A x \in Rank \ {r} : received'[x] = received[x]
        /\ tail' \in [Rank -> Tails] /\ \A x \in Rank \ {r} : tail'[x] = tail[x]
    BY <1>t, <1>3 DEF DataTypes
  <1>6. DataTypes' BY <1>t, <1>5 DEF DataTypes
  <1>a. Alone(r) BY <1>m, <1>5 DEF Alone
  <1>o. Onward BY OnwardSame
  <1>s. /\ Epoch' = Epoch /\ (Loops' <=> Loops)
        /\ \A x \in Rank : Sends(x)' = Sends(x) /\ Takes(x)' = Takes(x)
        /\ \A j : Before(j)' = Before(j)
    BY SameRequest
  <1>7. ~Done(r) /\ ~Done(r)' BY <1>1 DEF Done
  <1>8. Wire(b)'
    <2>1. \A x \in Rank \ {r} : SentBy(x, b)' = SentBy(x, b) /\ TakenBy(x, b)' = TakenBy(x, b)
      BY <1>a, <1>o, Ledgers
    <2>2. SentBy(r, b)' = SentBy(r, b) /\ TakenBy(r, b)' = TakenBy(r, b) \cup {m.edge + 1}
      BY <1>5, <1>7 DEF SentBy, TakenBy
    <2>5. Wire(b) BY DEF Data
    <2>6. \A x \in Rank : SentBy(x, b)' = SentBy(x, b) BY <2>1, <2>2
    <2>7. Owner(m.edge + 1) = r OBVIOUS
    <2>8. \A x \in Rank \ {r} : TakenBy(x, b)' = TakenBy(x, b) BY <2>1
    <2> QED BY <2>2, <2>5, <2>6, <2>7, <2>8, WireTake
  <1>9. SavedFiles' BY <1>2, <1>s DEF Data, SavedFiles
  <1>10. Unsettled(r)' BY <1>1 DEF Data, Unsettled
  <1>11. open # {} /\ (aborted' # {} \/ \E q \in Transit' : q.abort) => Trouble(b)'
    <2>1. open # {} /\ Trouble(b) => Trouble(b)' BY <1>m, <1>o, TroubleKept
    <2>2. open # {} /\ (aborted # {} \/ \E q \in Transit : q.abort) => Trouble(b) BY DEF Data, Causes
    <2>3. aborted' # {} => aborted # {} \/ m.abort OBVIOUS
    <2> QED BY <2>1, <2>2, <2>3
  <1> QED BY <1>6, <1>7, <1>8, <1>9, <1>10, <1>11, <1>a, <1>o, StepData

\* The hand-offs and the markers.
LEMMA HandsData ==
    ASSUME NEW b \in Nat, VideoInv(b), VideoInv(b)', Data(b), NEW r \in Rank,
           HandOff(r) \/ AbortOwed(r)
    PROVE  Data(b)'
  <1>t. VideoTypes /\ DataTypes /\ Linked(b) /\ Progress(r) /\ AtHand(r) /\ Spot(r, b)
    BY DEF VideoInv, Control, Data
  <1>1. CASE HandOff(r)
    <2>1. pc[r] = "send" BY <1>1 DEF HandOff
    <2>2. /\ Active(r) /\ Loops /\ r \in open /\ r \notin agreed /\ index[r] \in Nat
          /\ Owner(index[r]) = r /\ index[r] \in Hops
      BY <1>t, <2>1, InSegment DEF Progress
    <2>e. PICK e \in Nat : e = index[r] BY <2>2
    <2>3. turn[r] = Epoch /\ Epoch \in Nat BY <2>2, ActiveHere
    <2>m. PICK m \in Tails : m = [request |-> Epoch, edge |-> e, abort |-> FALSE]
      BY <2>3 DEF Tails
    <2>4. /\ SendTail(r, m) /\ sent' = [sent EXCEPT ![r] = @ \cup {m.edge}]
          /\ pc' = [pc EXCEPT ![r] = "save"]
          /\ UNCHANGED <<requests, turn, setup, index, received, tail, own, agreed, aborted, open>>
          /\ UNCHANGED <<outcome, meetingVars>>
      BY <1>1, <2>3, <2>e, <2>m DEF HandOff, Message, Goto, requestVars, exitVars
    <2>5. e \in Sends(r) /\ m.edge = e BY <2>2, <2>e, <2>m DEF Sends
    <2>6. /\ sent[r] = {x \in Sends(r) : x < e}
          /\ received[r] = {i \in Takes(r) : i < e \/ i = e}
      BY <1>t, <2>1, <2>e DEF Progress
    <2>7. pc'[r] = "save" /\ sent'[r] = sent[r] \cup {e}
      BY <1>t, <2>4, <2>5 DEF VideoTypes, DataTypes
    <2>s. /\ Epoch' = Epoch /\ (Loops' <=> Loops) /\ Sends(r)' = Sends(r) /\ Takes(r)' = Takes(r)
          /\ \A i : Before(i)' = Before(i)
      BY <2>4, SameRequest
    <2>8. sent'[r] = {x \in Sends(r) : x < e \/ x = e} BY <2>5, <2>6, <2>7
    <2>9. index[r] < requests[Epoch].segments BY <2>1, InSegment
    <2>10. Active(r)' BY <2>7 DEF Active
    <2>11. Progress(r)'
      BY <2>2, <2>4, <2>6, <2>7, <2>8, <2>9, <2>10, <2>e, <2>s DEF Progress
    <2>12. AtHand(r)' BY <1>t, <2>1, <2>4, <2>7, <2>s DEF AtHand, Before
    <2>13. m.request = Epoch /\ ~m.abort BY <2>m
    <2>14. m.edge \notin sent[r] /\ m.edge \in Sends(r) BY <2>5, <2>6
    <2> QED BY <2>1, <2>2, <2>4, <2>11, <2>12, <2>13, <2>14, SendData
  <1>2. CASE AbortOwed(r)
    <2>1. pc[r] = "unwind" /\ Owed(r) # {} BY <1>2 DEF AbortOwed
    <2>2. Active(r) /\ Loops BY <1>t, <2>1 DEF Active, Spot
    <2>c. CanUnwind(r) BY <2>1 DEF Owed
    <2>3. Owed(r) = Sends(r) \ sent[r] BY <2>2, <2>c, AtWork DEF Owed
    <2>4. Sends(r) \subseteq Nat BY HopsAre
    <2>e. PICK e \in Nat : e = Min(Owed(r)) /\ e \in Owed(r) /\ \A y \in Owed(r) : e <= y
      BY <2>1, <2>3, <2>4, MinIsFirst
    <2>5. turn[r] = Epoch /\ Epoch \in Nat BY <2>2, ActiveHere
    <2>m. PICK m \in Tails : m = [request |-> Epoch, edge |-> e, abort |-> TRUE]
      BY <2>5 DEF Tails
    <2>6. /\ SendTail(r, m) /\ sent' = [sent EXCEPT ![r] = @ \cup {m.edge}]
          /\ pc' = [pc EXCEPT ![r] = "unwind"]
          /\ UNCHANGED <<requests, turn, setup, index, received, tail, own, agreed, aborted, open>>
          /\ UNCHANGED <<outcome, meetingVars>>
      BY <1>2, <2>5, <2>e, <2>m DEF AbortOwed, Message, Goto, requestVars, exitVars
    <2>7. e \in Sends(r) /\ e \notin sent[r] /\ m.edge = e BY <2>3, <2>e, <2>m
    <2>8. ~(r \in open /\ r \in agreed)
      <3>1. sent[r] # Sends(r) BY <2>7
      <3> QED BY <1>t, <2>1, <3>1 DEF Progress, Full
    <2>9. pc'[r] = "unwind" /\ sent'[r] = sent[r] \cup {e}
      BY <1>t, <2>6, <2>7 DEF VideoTypes, DataTypes
    <2>s. /\ Epoch' = Epoch /\ (Loops' <=> Loops) /\ Sends(r)' = Sends(r) /\ Takes(r)' = Takes(r)
      BY <2>6, SameRequest
    <2>10. FirstOf(sent[r], Sends(r)) /\ FirstOf(received[r], Takes(r)) BY <1>t, <2>1 DEF Progress
    <2>11. FirstOf(sent[r] \cup {e}, Sends(r))
      <3> SUFFICES ASSUME NEW k \in sent[r] \cup {e}, NEW j \in Sends(r), j < k
                   PROVE  j \in sent[r] \cup {e}
        BY <2>7, <2>10 DEF FirstOf
      <3>1. CASE k \in sent[r] BY <2>10, <3>1 DEF FirstOf
      <3>2. CASE k = e BY <2>3, <2>4, <2>e, <3>2
      <3> QED BY <3>1, <3>2
    <2>h. connected' = connected
      <3>1. SendTail(r, m) => connected' = connected BY DEF SendTail
      <3> QED BY <2>6, <3>1
    <2>12. CanUnwind(r)' BY <2>6, <2>c, <2>h DEF CanUnwind
    <2>13. Active(r)' BY <2>9 DEF Active
    <2>14. Progress(r)'
      BY <2>2, <2>6, <2>8, <2>9, <2>10, <2>11, <2>12, <2>13, <2>s DEF Progress, FirstOf
    <2>15. AtHand(r)' BY <2>9 DEF AtHand
    <2>16. open # {} => Trouble(b)
      <3> SUFFICES ASSUME NEW x \in open PROVE Trouble(b) OBVIOUS
      <3>0. x \in Rank BY <1>t DEF VideoTypes
      <3>1. Everyone(b + 1) /\ ~Bad(b + 1) BY <3>0, OpenLoops
      <3>2. CASE r \in open
        <4>1. r \in open \ agreed BY <2>8, <3>2
        <4>2. CASE own[r] # "none" BY <4>1, <4>2 DEF Trouble
        <4>3. CASE own[r] = "none"
          <5>1. r \in aborted BY <1>t, <2>1, <4>3 DEF Spot
          <5> QED BY <5>1 DEF Data, Causes
        <4> QED BY <4>2, <4>3
      <3>3. CASE r \notin open
        <4>1. r \notin agreed BY <1>t, <2>1, <3>1, <3>3 DEF Spot
        <4>2. attended[r]["ctrl"] = b + 0 BY <2>2, <3>3, <4>1, ActiveHere DEF One
        <4>3. attended[r]["ctrl"] >= b + 1 BY <3>1 DEF Everyone
        <4> QED BY <4>2, <4>3
      <3> QED BY <3>2, <3>3
    <2>17. Gloo \/ (r \in open /\ r \notin agreed) BY <1>t, <2>8, <2>c DEF CanUnwind, Linked
    <2>18. m.request = Epoch /\ m.edge \in Sends(r) /\ m.edge \notin sent[r] BY <2>7, <2>m
    <2>19. pc[r] # "meet1" BY <2>1
    <2> QED BY <2>2, <2>6, <2>14, <2>15, <2>16, <2>17, <2>18, <2>19, SendData
  <1> QED BY <1>1, <1>2

\* The tails that are taken, which are the ones that are due.
LEMMA TakesData ==
    ASSUME NEW b \in Nat, VideoInv(b), VideoInv(b)', Data(b), NEW r \in Rank,
           RecvTail(r) \/ Discard(r)
    PROVE  /\ Data(b)'
           /\ tail'[r].request = turn[r]
           /\ tail'[r].edge + 1 \in received'[r] \ received[r]
           /\ \A x \in Rank \ {r} : received'[x] = received[x]
  <1>t. VideoTypes /\ DataTypes /\ Linked(b) /\ Progress(r) /\ AtHand(r) /\ Spot(r, b)
    BY DEF VideoInv, Control, Data
  <1>1. CASE RecvTail(r)
    <2>1. pc[r] = "recv" BY <1>1 DEF RecvTail
    <2>2. /\ Active(r) /\ Loops /\ r \in open /\ r \notin agreed /\ index[r] \in Nat /\ CanUnwind(r)
          /\ Owner(index[r]) = r /\ index[r] < requests[Epoch].segments /\ index[r] # 0
          /\ FirstOf(sent[r], Sends(r))
      BY <1>t, <2>1, InSegment DEF Progress
    <2>k. /\ requests[Epoch].segments \in Nat /\ Last(r) = requests[Epoch].segments - 1 /\ turn[r] = Epoch
      BY <2>2, AtWork
    <2>i. PICK i \in Nat : i = index[r] /\ i >= 1 BY <2>2
    <2>e. PICK e \in Nat : e = i - 1 /\ e + 1 = i BY <2>i
    <2>3. e \in Hops /\ i \in Takes(r) BY <2>2, <2>e, <2>i, <2>k DEF Hops, Takes
    <2>4. /\ sent[r] = {x \in Sends(r) : x < i} /\ received[r] = {x \in Takes(r) : x < i}
          /\ tail[r] = NoTail
      BY <1>t, <2>1, <2>i DEF Progress, AtHand
    <2>5. PICK place \in {"unwind", "send", "save"} :
            /\ place = CASE tail'[r].abort -> "unwind"
                         [] ~tail'[r].abort /\ i < Last(r) -> "send"
                         [] OTHER -> "save"
            /\ pc' = [pc EXCEPT ![r] = place]
      BY <1>1, <2>i DEF RecvTail, Goto
    <2>6. /\ TakeTail(r, e) /\ received' = [received EXCEPT ![r] = @ \cup {i}]
          /\ aborted' = IF tail'[r].abort THEN aborted \cup {r} ELSE aborted
          /\ UNCHANGED <<requests, turn, setup, index, sent, own, agreed, open>>
          /\ UNCHANGED <<outcome, meetingVars>>
      BY <1>1, <2>e, <2>i DEF RecvTail, Goto, requestVars
    <2>7. /\ pc'[r] = place /\ \A x \in Rank \ {r} : pc'[x] = pc[x]
          /\ received'[r] = received[r] \cup {i} /\ \A x \in Rank \ {r} : received'[x] = received[x]
      BY <1>t, <2>5, <2>6 DEF VideoTypes, DataTypes
    <2>8. Elsewhere(r)
      <3>1. \A x \in Rank \ {r} : x \in aborted' <=> x \in aborted BY <2>6
      <3> QED BY <2>6, <2>7, <3>1 DEF Elsewhere
    <2>9. Active(r)' BY <2>7 DEF Active
    <2>10. Prepped /\ Prepped' BY <2>1, <2>2, <2>6, <2>7, <2>8, <2>9, PreppedWhen, PreppedStays
    <2>11. e + 1 \notin received[r] /\ \A j \in Takes(r) : j < e + 1 => j \in received[r] BY <2>4, <2>e
    <2>12. Owner(e + 1) = r BY <2>2, <2>e, <2>i
    <2>13. /\ \E m \in Transit :
                /\ m \in Tails /\ m.edge = e /\ m.request = Epoch
                /\ tail' = [tail EXCEPT ![r] = m] /\ Transit' = Transit \ {m}
           /\ connected' = connected /\ scratch'.files = scratch.files
           /\ channel' \in [Rank -> Seq(Tails)]
           /\ \A x \in Rank : channel'[x] = <<>> \/ channel'[x] = channel[x]
           /\ scratch' \in [exists : BOOLEAN, tails : SUBSET Tails, files : SUBSET Files]
      BY <2>2, <2>3, <2>6, <2>10, <2>11, <2>12, TakesTail
    <2>14. PICK m \in Transit :
                /\ m \in Tails /\ m.edge = e /\ m.request = Epoch
                /\ tail' = [tail EXCEPT ![r] = m] /\ Transit' = Transit \ {m}
      BY <2>13
    <2>15. tail'[r] = m BY <1>t, <2>14 DEF DataTypes
    <2>s. /\ Epoch' = Epoch /\ (Loops' <=> Loops) /\ Sends(r)' = Sends(r) /\ Takes(r)' = Takes(r)
          /\ Hops' = Hops /\ requests' = requests /\ \A x : Before(x)' = Before(x)
      BY <2>6, SameRequest
    <2>16. received'[r] = {x \in Takes(r) : x < i \/ x = i} BY <2>3, <2>4, <2>7
    <2>17. CanUnwind(r)' BY <2>2, <2>6 DEF CanUnwind
    <2>18. Progress(r)'
      <3>1. Sends(r) \subseteq Nat /\ Takes(r) \subseteq Nat BY HopsAre
      <3>2. CASE m.abort
        <4>1. place = "unwind" BY <2>5, <2>15, <3>2
        <4>2. FirstOf(received'[r], Takes(r)) BY <2>16, <3>1 DEF FirstOf
        <4> QED BY <2>2, <2>6, <2>7, <2>9, <2>17, <2>s, <4>1, <4>2 DEF Progress, FirstOf
      <3>3. CASE ~m.abort /\ i < Last(r)
        <4>1. place = "send" BY <2>5, <2>15, <3>3
        <4>2. i \in Hops BY <2>2, <2>i, <2>k, <3>3 DEF Hops
        <4> QED BY <2>2, <2>4, <2>6, <2>7, <2>9, <2>16, <2>i, <2>s, <4>1, <4>2 DEF Progress
      <3>4. CASE ~m.abort /\ ~(i < Last(r))
        <4>1. place = "save" BY <2>5, <2>15, <3>4
        <4>2. i \notin Hops BY <2>i, <2>k, <3>4 DEF Hops
        <4>3. sent[r] = {x \in Sends(r) : x < i \/ x = i} BY <2>4, <4>2 DEF Sends
        <4> QED BY <2>2, <2>6, <2>7, <2>9, <2>16, <2>i, <2>s, <4>1, <4>3 DEF Progress
      <3> QED BY <3>2, <3>3, <3>4
    <2>19. AtHand(r)'
      <3>1. CASE place = "unwind" BY <2>7, <3>1 DEF AtHand
      <3>2. CASE place # "unwind"
        <4>1. ~m.abort BY <2>5, <2>15, <3>2
        <4>2. m = [request |-> Epoch, edge |-> i - 1, abort |-> FALSE] BY <2>14, <2>e, <4>1 DEF Tails
        <4>3. m = Before(index[r]) BY <2>2, <2>i, <4>2 DEF Before
        <4>4. index' = index BY <2>6
        <4>5. tail'[r] = Before(index[r])' BY <2>15, <2>s, <4>3, <4>4 DEF Before
        <4> QED BY <2>5, <2>7, <3>2, <4>5 DEF AtHand
      <3> QED BY <3>1, <3>2
    <2>20. place \in Places \ {"idle", "barrier", "meet1"} /\ pc[r] # "meet1"
      BY <2>1 DEF Places, Sending
    <2>21. aborted' = aborted \/ (aborted' = aborted \cup {r} /\ m.abort) BY <2>6, <2>15
    <2>22. i = m.edge + 1 /\ Owner(i) = r BY <2>2, <2>14, <2>e, <2>i
    <2>23. Data(b)'
      BY <2>2, <2>5, <2>6, <2>13, <2>14, <2>18, <2>19, <2>20, <2>21, <2>22, TakeData
    <2> QED BY <2>4, <2>7, <2>14, <2>15, <2>22, <2>23, <2>k
  <1>2. CASE Discard(r)
    <2>1. pc[r] = "unwind" /\ Inbound(r) # {} BY <1>2 DEF Discard
    <2>2. Active(r) /\ Loops BY <1>t, <2>1 DEF Active, Spot
    <2>c. CanUnwind(r) BY <2>1 DEF Inbound
    <2>3. Inbound(r) = Takes(r) \ received[r] BY <2>2, <2>c, AtWork DEF Inbound
    <2>4. Takes(r) \subseteq Nat BY HopsAre
    <2>i. PICK i \in Nat : i = Min(Inbound(r)) /\ i \in Inbound(r) /\ \A y \in Inbound(r) : i <= y
      BY <2>1, <2>3, <2>4, MinIsFirst
    <2>5. i \in Takes(r) /\ i \notin received[r] /\ i >= 1 /\ i - 1 \in Hops /\ Owner(i) = r
      BY <2>3, <2>i DEF Takes
    <2>e. PICK e \in Hops : e = i - 1 /\ e + 1 = i BY <2>5
    <2>k. turn[r] = Epoch BY <2>2, ActiveHere
    <2>6. /\ TakeTail(r, e) /\ received' = [received EXCEPT ![r] = @ \cup {i}]
          /\ pc' = [pc EXCEPT ![r] = "unwind"] /\ aborted' = aborted
          /\ UNCHANGED <<requests, turn, setup, index, sent, own, agreed, open>>
          /\ UNCHANGED <<outcome, meetingVars>>
      BY <1>2, <2>e, <2>i DEF Discard, Goto, requestVars, exitVars
    <2>7. /\ pc'[r] = "unwind" /\ \A x \in Rank \ {r} : pc'[x] = pc[x]
          /\ received'[r] = received[r] \cup {i} /\ \A x \in Rank \ {r} : received'[x] = received[x]
      BY <1>t, <2>6 DEF VideoTypes, DataTypes
    <2>8. Elsewhere(r) BY <2>6, <2>7 DEF Elsewhere
    <2>9. Active(r)' BY <2>7 DEF Active
    <2>r. ~(r \in open /\ r \in agreed)
      <3>1. received[r] # Takes(r) BY <2>5
      <3> QED BY <1>t, <2>1, <3>1 DEF Progress, Full
    <2>10. Gloo \/ (Prepped /\ Prepped')
      <3>1. Gloo \/ r \in open BY <1>t, <2>c DEF CanUnwind, Linked
      <3>2. r \in open => Prepped /\ Prepped'
        BY <2>1, <2>2, <2>6, <2>7, <2>8, <2>9, <2>r, PreppedWhen, PreppedStays
      <3> QED BY <3>1, <3>2
    <2>11. \A j \in Takes(r) : j < e + 1 => j \in received[r]
      <3>1. \A j \in Takes(r) : j < i => j \in received[r]
        <4> SUFFICES ASSUME NEW j \in Takes(r), j < i, j \notin received[r] PROVE FALSE OBVIOUS
        <4>1. j \in Inbound(r) /\ j \in Nat BY <2>3, <2>4
        <4> QED BY <2>i, <4>1
      <3> QED BY <2>e, <3>1
    <2>12. Owner(e + 1) = r /\ e + 1 \notin received[r] BY <2>5, <2>e
    <2>13. /\ \E m \in Transit :
                /\ m \in Tails /\ m.edge = e /\ m.request = Epoch
                /\ tail' = [tail EXCEPT ![r] = m] /\ Transit' = Transit \ {m}
           /\ connected' = connected /\ scratch'.files = scratch.files
           /\ channel' \in [Rank -> Seq(Tails)]
           /\ \A x \in Rank : channel'[x] = <<>> \/ channel'[x] = channel[x]
           /\ scratch' \in [exists : BOOLEAN, tails : SUBSET Tails, files : SUBSET Files]
      BY <2>2, <2>6, <2>10, <2>11, <2>12, TakesTail
    <2>14. PICK m \in Transit :
                /\ m \in Tails /\ m.edge = e /\ m.request = Epoch
                /\ tail' = [tail EXCEPT ![r] = m] /\ Transit' = Transit \ {m}
      BY <2>13
    <2>15. tail'[r] = m BY <1>t, <2>14 DEF DataTypes
    <2>s. /\ Epoch' = Epoch /\ (Loops' <=> Loops) /\ Sends(r)' = Sends(r) /\ Takes(r)' = Takes(r)
      BY <2>6, SameRequest
    <2>16. FirstOf(sent[r], Sends(r)) /\ FirstOf(received[r], Takes(r)) BY <1>t, <2>1 DEF Progress
    <2>17. FirstOf(received[r] \cup {i}, Takes(r))
      <3> SUFFICES ASSUME NEW k \in received[r] \cup {i}, NEW j \in Takes(r), j < k
                   PROVE  j \in received[r] \cup {i}
        BY <2>5, <2>16 DEF FirstOf
      <3>1. CASE k \in received[r] BY <2>16, <3>1 DEF FirstOf
      <3>2. CASE k = i BY <2>3, <2>4, <2>i, <3>2
      <3> QED BY <3>1, <3>2
    <2>18. CanUnwind(r)' BY <2>6, <2>c, <2>13 DEF CanUnwind
    <2>19. Progress(r)'
      BY <2>2, <2>6, <2>7, <2>9, <2>16, <2>17, <2>18, <2>r, <2>s DEF Progress, FirstOf
    <2>20. AtHand(r)' BY <2>7 DEF AtHand
    <2>21. "unwind" \in Places \ {"idle", "barrier", "meet1"} /\ pc[r] # "meet1"
      BY <2>1 DEF Places, Sending
    <2>22. i = m.edge + 1 /\ Owner(i) = r BY <2>5, <2>14, <2>e
    <2>23. Data(b)' BY <2>2, <2>6, <2>13, <2>14, <2>19, <2>20, <2>21, <2>22, TakeData
    <2> QED BY <2>5, <2>7, <2>14, <2>15, <2>22, <2>23, <2>k
  <1> QED BY <1>1, <1>2

(***************************************************************************)
(* The files and the directory.                                            *)
(***************************************************************************)

\* Past segment i, a rank has dealt with all its edges before the next one.
LEMMA NextSegment ==
    ASSUME NEW r \in Rank, NEW i \in Nat, Owner(i) = r, NEW T \in SUBSET Nat,
           \A x \in T : Owner(x) = r
    PROVE  {x \in T : x < i \/ x = i} = {x \in T : x < i + World}
  <1>0. World \in Nat /\ World >= 1 BY WorkerAssumption
  <1>1. ASSUME NEW x \in T, x < i + World PROVE x < i \/ x = i
    <2>1. x \in Nat /\ Owner(x) = r OBVIOUS
    <2>2. i < x => i + World <= x BY <2>1, OwnApart
    <2> QED BY <1>0, <1>1, <2>1, <2>2
  <1>2. \A x \in T : x < i \/ x = i => x < i + World BY <1>0
  <1> QED BY <1>1, <1>2

LEMMA SaveData ==
    ASSUME NEW b \in Nat, VideoInv(b), VideoInv(b)', Data(b), NEW r \in Rank, Save(r)
    PROVE  Data(b)'
  <1>t. VideoTypes /\ DataTypes /\ Progress(r) /\ AtHand(r) /\ pc[r] = "save"
    BY DEF VideoInv, Data, Save
  <1>0. World \in Nat /\ World >= 1 BY WorkerAssumption
  <1>1. /\ Active(r) /\ Loops /\ r \in open /\ r \notin agreed /\ index[r] \in Nat /\ CanUnwind(r)
        /\ Owner(index[r]) = r /\ index[r] < requests[Epoch].segments
    BY <1>t, InSegment
  <1>k. /\ requests[Epoch].segments \in Nat /\ Last(r) = requests[Epoch].segments - 1
        /\ turn[r] = Epoch /\ Epoch \in Nat
    BY <1>1, AtWork, ActiveHere
  <1>i. PICK i \in Nat : i = index[r] BY <1>1
  <1>n. PICK n \in Nat : n = i + World BY <1>0
  <1> DEFINE file == [segment |-> i, request |-> Epoch, blended |-> tail[r]]
  <1>2. /\ scratch' = [scratch EXCEPT !.files = {f \in @ : f.segment # i} \cup {file}]
        /\ tail' = [tail EXCEPT ![r] = NoTail]
        /\ UNCHANGED <<requests, turn, outcome, setup, sent, received, own, agreed, aborted, open>>
        /\ UNCHANGED <<channel, connected, meetingVars>>
    <2>1. file = [segment |-> index[r], request |-> turn[r], blended |-> tail[r]] BY <1>i, <1>k
    <2> HIDE DEF file
    <2>2. \A place : Goto(r, place) => UNCHANGED <<requests, turn, outcome>> BY DEF Goto, requestVars
    <2> QED BY <1>i, <2>1, <2>2 DEF Save, exitVars
  <1>3. IF n <= Last(r)
        THEN index' = [index EXCEPT ![r] = n] /\ pc' = [pc EXCEPT ![r] = "diffuse"]
        ELSE index' = index /\ pc' = [pc EXCEPT ![r] = "settle"]
    <2>1. IF index[r] + World <= Last(r)
          THEN index' = [index EXCEPT ![r] = @ + World] /\ Goto(r, "diffuse")
          ELSE UNCHANGED index /\ Goto(r, "settle")
      BY DEF Save
    <2>2. index[r] + World = n BY <1>i, <1>n
    <2>3. n <= Last(r) => index' = [index EXCEPT ![r] = n] /\ Goto(r, "diffuse") BY <2>1, <2>2
    <2>4. ~(n <= Last(r)) => index' = index /\ Goto(r, "settle") BY <2>1, <2>2
    <2> QED BY <2>3, <2>4 DEF Goto
  <1>f. file \in Files /\ file.segment = i /\ file.request = Epoch /\ file.blended = tail[r]
    BY <1>k, <1>t DEF Files, DataTypes
  <1> HIDE DEF file
  <1>4. /\ scratch'.files = {f \in scratch.files : f.segment # i} \cup {file}
        /\ scratch'.tails = scratch.tails
        /\ scratch' \in [exists : BOOLEAN, tails : SUBSET Tails, files : SUBSET Files]
    BY <1>t, <1>2, <1>f DEF DataTypes
  <1>5. /\ tail' \in [Rank -> Tails] /\ tail'[r] = NoTail /\ \A x \in Rank \ {r} : tail'[x] = tail[x]
    BY <1>t, <1>2 DEF DataTypes, NoTail, Tails
  <1>6. /\ index' \in [Rank -> Nat] /\ \A x \in Rank \ {r} : index'[x] = index[x]
        /\ pc'[r] = (IF n <= Last(r) THEN "diffuse" ELSE "settle")
        /\ n <= Last(r) => index'[r] = n
        /\ \A x \in Rank \ {r} : pc'[x] = pc[x]
    <2>t. index \in [Rank -> Nat] /\ pc \in [Rank -> Places] BY <1>t DEF DataTypes, VideoTypes
    <2>1. CASE n <= Last(r)
      <3>1. index' = [index EXCEPT ![r] = n] /\ pc' = [pc EXCEPT ![r] = "diffuse"] BY <1>3, <2>1
      <3> QED BY <2>t, <2>1, <3>1
    <2>2. CASE ~(n <= Last(r))
      <3>1. index' = index /\ pc' = [pc EXCEPT ![r] = "settle"] BY <1>3, <2>2
      <3> QED BY <2>t, <2>2, <3>1
    <2> QED BY <2>1, <2>2
  <1>m. Elsewhere(r) BY <1>2, <1>6 DEF Elsewhere
  <1>7. Active(r)' BY <1>6 DEF Active
  <1>8. Prepped' <=> Prepped BY <1>1, <1>2, <1>6, <1>7, <1>m, <1>t, PreppedStays
  <1>9. DataTypes' BY <1>t, <1>2, <1>4, <1>5, <1>6 DEF DataTypes
  <1>a. Alone(r) BY <1>2, <1>5, <1>6, <1>m DEF Alone
  <1>o. Onward BY <1>2, OnwardSame
  <1>s. /\ Epoch' = Epoch /\ (Loops' <=> Loops) /\ (Gloo' <=> Gloo) /\ requests' = requests
        /\ \A x \in Rank : Sends(x)' = Sends(x) /\ Takes(x)' = Takes(x)
        /\ \A x : Before(x)' = Before(x)
    BY <1>2, SameRequest
  <1>10. ~Done(r) /\ ~Done(r)' BY <1>1, <1>7 DEF Done
  <1>11. Wire(b)'
    <2>1. \A x \in Rank \ {r} : SentBy(x, b)' = SentBy(x, b) /\ TakenBy(x, b)' = TakenBy(x, b)
      BY <1>2, <1>a, <1>o, Ledgers
    <2>2. SentBy(r, b)' = SentBy(r, b) /\ TakenBy(r, b)' = TakenBy(r, b)
      BY <1>2, <1>10 DEF SentBy, TakenBy
    <2>3. Transit' = Transit
      <3>1. CASE Gloo BY <1>2, <1>s, <3>1 DEF Transit
      <3>2. CASE ~Gloo BY <1>4, <1>8, <1>s, <3>2 DEF Transit
      <3> QED BY <3>1, <3>2
    <2>4. Wire(b) BY DEF Data
    <2> QED BY <1>2, <2>1, <2>2, <2>3, <2>4, WireSame
  <1>12. Transit' = Transit
    <2>1. CASE Gloo BY <1>2, <1>s, <2>1 DEF Transit
    <2>2. CASE ~Gloo BY <1>4, <1>8, <1>s, <2>2 DEF Transit
    <2> QED BY <2>1, <2>2
  <1>13. SavedFiles'
    <2> SUFFICES ASSUME Prepped'
                 PROVE  /\ \A f \in scratch'.files :
                            /\ f.request = Epoch /\ f.segment < requests[Epoch].segments
                            /\ f.blended = Before(f.segment)
                        /\ \A f, h \in scratch'.files : f.segment = h.segment => f = h
      BY <1>s DEF SavedFiles
    <2>1. /\ \A f \in scratch.files :
              f.request = Epoch /\ f.segment < requests[Epoch].segments /\ f.blended = Before(f.segment)
          /\ \A f, h \in scratch.files : f.segment = h.segment => f = h
      BY <1>8 DEF Data, SavedFiles
    <2>2. tail[r] = Before(i) BY <1>i, <1>t DEF AtHand
    <2> QED BY <1>1, <1>4, <1>f, <1>i, <2>1, <2>2
  <1>14. Progress(r)'
    <2>1. /\ sent[r] = {e \in Sends(r) : e < i \/ e = i} /\ received[r] = {e \in Takes(r) : e < i \/ e = i}
      BY <1>i, <1>t DEF Progress
    <2>2. /\ Sends(r) \subseteq Nat /\ Takes(r) \subseteq Nat
          /\ \A x \in Sends(r) \cup Takes(r) : Owner(x) = r
      BY HopsAre DEF Sends, Takes
    <2>3. sent[r] = {e \in Sends(r) : e < n} /\ received[r] = {e \in Takes(r) : e < n}
      BY <1>1, <1>i, <1>n, <2>1, <2>2, NextSegment
    <2>4. CASE n <= Last(r)
      <3>1. Owner(n) = r BY <1>1, <1>i, <1>n, Owners
      <3>2. n < requests[Epoch].segments BY <1>k, <2>4
      <3>3. pc'[r] = "diffuse" /\ index'[r] = n BY <1>6, <2>4
      <3> QED BY <1>1, <1>2, <1>7, <1>s, <2>3, <3>1, <3>2, <3>3 DEF Progress
    <2>5. CASE ~(n <= Last(r))
      <3>1. \A x \in Sends(r) : x < n
        <4> TAKE x \in Sends(r)
        <4>1. x \in Nat /\ x + 1 < requests[Epoch].segments BY <2>2 DEF Sends, Hops
        <4> QED BY <1>k, <2>5, <4>1
      <3>2. \A x \in Takes(r) : x < n
        <4> TAKE x \in Takes(r)
        <4>1. x \in Nat /\ x < requests[Epoch].segments
          <5>1. x \in Nat /\ x >= 1 /\ x - 1 \in Hops BY DEF Takes
          <5>2. (x - 1) + 1 < requests[Epoch].segments BY <5>1 DEF Hops
          <5> QED BY <5>1, <5>2
        <4> QED BY <1>k, <2>5, <4>1
      <3>3. Full(r)
        <4>1. sent[r] = Sends(r) BY <2>3, <3>1
        <4>2. received[r] = Takes(r) BY <2>3, <3>2
        <4> QED BY <4>1, <4>2 DEF Full
      <3>4. Full(r)' BY <1>2, <1>s, <3>3 DEF Full
      <3>5. pc'[r] = "settle" BY <1>6, <2>5
      <3> QED BY <1>1, <1>7, <1>s, <3>4, <3>5 DEF Progress
    <2> QED BY <2>4, <2>5
  <1>15. AtHand(r)' BY <1>5, <1>6 DEF AtHand
  <1>16. Unsettled(r)' BY <1>1, <1>2, <1>7 DEF Data, Unsettled
  <1>17. open # {} /\ (aborted' # {} \/ \E q \in Transit' : q.abort) => Trouble(b)'
    <2>1. open # {} /\ Trouble(b) => Trouble(b)' BY <1>2, <1>m, <1>o, TroubleKept
    <2> QED BY <1>2, <1>12, <2>1 DEF Data, Causes
  <1> QED BY <1>2, <1>9, <1>10, <1>11, <1>13, <1>14, <1>15, <1>16, <1>17, <1>a, <1>o, StepData

\* Rank 0 makes the directory, or cannot.
LEMMA MakesData ==
    ASSUME NEW b \in Nat, VideoInv(b), VideoInv(b)', Data(b), Prepare(0) \/ FailPrepare
    PROVE  Data(b)'
  <1>0. 0 \in Rank BY WorkerAssumption DEF Rank
  <1>t. VideoTypes /\ DataTypes /\ Progress(0) /\ Spot(0, b) BY <1>0 DEF VideoInv, Control, Data
  <1>1. /\ pc[0] = "run" /\ pc' = [pc EXCEPT ![0] = "meet1"]
        /\ \E failed \in BOOLEAN : Rendezvous(0, failed)
        /\ UNCHANGED <<requests, turn, outcome, setup, index, sent, received, tail, aborted, open>>
        /\ UNCHANGED <<channel, connected>> /\ agreed' = agreed \cup {0}
        /\ scratch'.tails = {} /\ scratch'.files = {} /\ scratch'.exists \in BOOLEAN
        /\ scratch' \in [exists : BOOLEAN, tails : SUBSET Tails, files : SUBSET Files]
    <2>1. CASE Prepare(0)
      <3>1. scratch' = Cleared BY <2>1 DEF Prepare
      <3>2. /\ scratch'.tails = {} /\ scratch'.files = {} /\ scratch'.exists \in BOOLEAN
            /\ scratch' \in [exists : BOOLEAN, tails : SUBSET Tails, files : SUBSET Files]
        BY <3>1 DEF Cleared
      <3>3. Meet(0, FALSE, "meet1") /\ pc[0] = "run" BY <2>1 DEF Prepare, Starts
      <3>4. /\ UNCHANGED <<setup, index, sent, received, tail, aborted, open, channel, connected>>
            /\ agreed' = agreed \cup {0}
        BY <2>1 DEF Prepare, loopVars
      <3> QED BY <3>2, <3>3, <3>4 DEF Meet, Goto, requestVars
    <2>2. CASE FailPrepare
      <3>1. scratch' = [exists |-> FALSE, tails |-> {}, files |-> {}] BY <2>2 DEF FailPrepare
      <3>2. /\ scratch'.tails = {} /\ scratch'.files = {} /\ scratch'.exists \in BOOLEAN
            /\ scratch' \in [exists : BOOLEAN, tails : SUBSET Tails, files : SUBSET Files]
        BY <3>1
      <3>3. Meet(0, TRUE, "meet1") /\ pc[0] = "run" BY <2>2 DEF FailPrepare, Starts
      <3>4. /\ UNCHANGED <<setup, index, sent, received, tail, aborted, open, channel, connected>>
            /\ agreed' = agreed \cup {0}
        BY <2>2 DEF FailPrepare, loopVars
      <3> QED BY <3>2, <3>3, <3>4 DEF Meet, Goto, requestVars
    <2> QED BY <2>1, <2>2
  <1>2. own' = own \/ own' = [own EXCEPT ![0] = "failed"] BY DEF Prepare, FailPrepare
  <1>3. /\ pc'[0] = "meet1" /\ \A x \in Rank \ {0} : pc'[x] = pc[x] /\ own'[x] = own[x]
    BY <1>0, <1>1, <1>2, <1>t DEF VideoTypes
  <1>m. Elsewhere(0) BY <1>1, <1>3 DEF Elsewhere
  <1>a. Alone(0) BY <1>1, <1>m DEF Alone
  <1>o. Onward BY <1>0, <1>1, OnwardMeet
  <1>s. /\ Epoch' = Epoch /\ (Loops' <=> Loops) /\ (Gloo' <=> Gloo)
        /\ \A x \in Rank : Sends(x)' = Sends(x) /\ Takes(x)' = Takes(x)
    BY <1>1, SameRequest
  <1>4. Active(0) /\ Active(0)' /\ ~Done(0) /\ ~Done(0)' BY <1>1, <1>3 DEF Active, Done
  <1>5. 0 \notin open BY <1>1, <1>t DEF Spot
  <1>6. ~Prepped BY <1>1, <1>5 DEF Prepped
  <1>7. Transit' = Transit
    <2>1. CASE Gloo BY <1>1, <1>s, <2>1 DEF Transit
    <2>2. CASE ~Gloo BY <1>1, <1>6, <1>s, <2>2 DEF Transit
    <2> QED BY <2>1, <2>2
  <1>8. DataTypes' BY <1>1, <1>t DEF DataTypes
  <1>9. Wire(b)'
    <2>1. \A x \in Rank \ {0} : SentBy(x, b)' = SentBy(x, b) /\ TakenBy(x, b)' = TakenBy(x, b)
      BY <1>0, <1>1, <1>a, <1>o, Ledgers
    <2>2. SentBy(0, b)' = SentBy(0, b) /\ TakenBy(0, b)' = TakenBy(0, b)
      BY <1>1, <1>4 DEF SentBy, TakenBy
    <2>4. Wire(b) BY DEF Data
    <2> QED BY <1>1, <1>7, <2>1, <2>2, <2>4, WireSame
  <1>10. SavedFiles' BY <1>1 DEF SavedFiles
  <1>11. Nothing(0) /\ tail[0] = NoTail BY <1>1, <1>t DEF Progress
  <1>12. Nothing(0)' /\ tail'[0] = NoTail BY <1>1, <1>11 DEF Nothing
  <1>13. Progress(0)' /\ AtHand(0)' BY <1>3, <1>12 DEF Progress, AtHand
  <1>14. Unsettled(0)' BY <1>0, <1>1, <1>4 DEF Data, Unsettled
  <1>15. open # {} /\ (aborted' # {} \/ \E q \in Transit' : q.abort) => Trouble(b)'
    <2>1. own[0] = "none" BY <1>1, <1>t DEF Spot
    <2>2. open # {} /\ Trouble(b) => Trouble(b)' BY <1>0, <1>1, <1>m, <1>o, <2>1, TroubleKept
    <2> QED BY <1>1, <1>7, <2>2 DEF Data, Causes
  <1> QED BY <1>0, <1>1, <1>4, <1>8, <1>9, <1>10, <1>13, <1>14, <1>15, <1>a, <1>o, StepData

\* A rank gets to know the directory.
LEMMA OpensData ==
    ASSUME NEW b \in Nat, VideoInv(b), VideoInv(b)', Data(b), NEW r \in Rank,
           Prepared(r), open' # open
    PROVE  Data(b)'
  <1>b. b + 1 \in Nat \ {0} /\ b + 2 \in Nat \ {0} OBVIOUS
  <1>t. VideoTypes /\ DataTypes /\ Progress(r) /\ Spot(r, b) BY DEF VideoInv, Control, Data
  <1>1. /\ pc[r] = "meet1" /\ own[r] = "none"
        /\ agreed' = agreed \ {r} /\ open' = open \cup {r}
        /\ connected' = IF Gloo THEN connected \cup {r} ELSE connected
        /\ index' = [index EXCEPT ![r] = r]
        /\ Goto(r, IF MySegments(r) = {} THEN "settle" ELSE "diffuse")
        /\ UNCHANGED <<setup, sent, received, tail, own, aborted, channel, scratch, meetingVars>>
    <2>1. \A how : ~Rethrow(r, how) BY DEF Rethrow
    <2> QED BY <2>1 DEF Prepared
  <1> DEFINE place == IF MySegments(r) = {} THEN "settle" ELSE "diffuse"
  <1>2. pc' = [pc EXCEPT ![r] = place] /\ UNCHANGED <<requests, turn, outcome>>
    BY <1>1 DEF Goto, requestVars
  <1>p. place = (IF MySegments(r) = {} THEN "settle" ELSE "diffuse") /\ place \in {"settle", "diffuse"}
    OBVIOUS
  <1> HIDE DEF place
  <1>3. /\ pc'[r] = place /\ \A x \in Rank \ {r} : pc'[x] = pc[x]
        /\ r \in Nat /\ Owner(r) = r
        /\ index' \in [Rank -> Nat] /\ index'[r] = r /\ \A x \in Rank \ {r} : index'[x] = index[x]
    BY <1>1, <1>2, <1>t, OwnFirst DEF VideoTypes, DataTypes
  <1>m. Elsewhere(r) BY <1>1, <1>3 DEF Elsewhere
  <1>a. Alone(r) BY <1>1, <1>2, <1>3, <1>m DEF Alone
  <1>o. Onward BY <1>1, OnwardSame
  <1>s. /\ Epoch' = Epoch /\ (Loops' <=> Loops) /\ (Gloo' <=> Gloo) /\ requests' = requests
        /\ \A x \in Rank : Sends(x)' = Sends(x) /\ Takes(x)' = Takes(x)
    BY <1>1, <1>2, SameRequest
  <1>4. Active(r) /\ Active(r)' /\ ~Done(r) /\ ~Done(r)' BY <1>1, <1>3, <1>p DEF Active, Done
  <1>5. Loops /\ r \notin open /\ r \in agreed BY <1>1, <1>t DEF Spot
  <1>6. attended[r]["ctrl"] = b + 1 BY <1>4, <1>5, ActiveHere DEF One
  <1>7. Everyone(b + 1) /\ ~Bad(b + 1)
    <2>1. Everyone(b + 1)' /\ ~Bad(b + 1)' BY <1>1 DEF VideoInv, Control
    <2> QED BY <1>1, <2>1 DEF Everyone, Bad, Fails, Stops, meetingVars
  <1>8. DataTypes' BY <1>1, <1>2, <1>3, <1>t DEF DataTypes
  <1>9. \A x \in Rank \ {r} : Progress(x)' /\ AtHand(x)' /\ Unsettled(x)' BY <1>a, OthersKeep
  <1>10. Nothing(r) /\ tail[r] = NoTail BY <1>1, <1>t DEF Progress
  <1>11. Progress(r)'
    <2>1. /\ {i \in MySegments(r) : i < Last(r)} = Sends(r) /\ MySegments(r) \ {0} = Takes(r)
          /\ \A i \in MySegments(r) : i \in Nat /\ i < requests[Epoch].segments /\ Owner(i) = r
          /\ requests[Epoch].segments \in Nat
      BY <1>4, <1>5, AtWork
    <2>2. CASE MySegments(r) = {}
      <3>1. Sends(r) = {} /\ Takes(r) = {} BY <2>1, <2>2
      <3>2. Full(r)' BY <1>1, <1>10, <1>s, <3>1 DEF Full, Nothing
      <3>3. pc'[r] = "settle" BY <1>3, <1>p, <2>2
      <3> QED BY <1>4, <1>5, <1>s, <3>2, <3>3 DEF Progress
    <2>3. CASE MySegments(r) # {}
      <3>1. PICK i \in MySegments(r) : i \in Nat /\ i < requests[Epoch].segments /\ Owner(i) = r
        BY <2>1, <2>3
      <3>2. r < requests[Epoch].segments
        <4>1. r <= i BY <3>1, Owners
        <4> QED BY <1>3, <2>1, <3>1, <4>1
      <3>3. \A e \in Sends(r) \cup Takes(r) : ~(e < r)
        <4> TAKE e \in Sends(r) \cup Takes(r)
        <4>1. e \in Nat /\ Owner(e) = r BY HopsAre DEF Sends, Takes
        <4>2. r <= e BY <4>1, Owners
        <4> QED BY <1>3, <4>1, <4>2
      <3>4. sent'[r] = {} /\ received'[r] = {} BY <1>1, <1>10 DEF Nothing
      <3>5. sent'[r] = {e \in Sends(r) : e < r} /\ received'[r] = {e \in Takes(r) : e < r}
        BY <3>3, <3>4
      <3>6. pc'[r] = "diffuse" BY <1>3, <1>p, <2>3
      <3> QED BY <1>3, <1>4, <1>5, <1>s, <3>2, <3>5, <3>6 DEF Progress
    <2> QED BY <2>2, <2>3
  <1>12. AtHand(r)' BY <1>1, <1>3, <1>10, <1>p DEF AtHand
  <1>13. Unsettled(r)' BY <1>2, <1>4 DEF Data, Unsettled
  <1>14. Linked(b)'
    <2>1. ~Gloo => connected' = {} BY <1>1 DEF Data, Linked
    <2>2. ASSUME NEW x \in Rank, Gloo, x \in open' \/ (Done(x)' /\ Loops' /\ ~Bad(b + 1)')
          PROVE  x \in connected'
      <3>1. CASE x = r BY <1>1, <2>2, <3>1
      <3>2. CASE x # r
        <4>1. Done(x)' <=> Done(x) BY <1>1, <1>7, <1>a, <1>o, <3>2, Ledgers
        <4>2. x \in open' <=> x \in open BY <1>1, <3>2
        <4>3. x \in connected BY <1>5, <1>7, <2>2, <4>1, <4>2 DEF Data, Linked
        <4> QED BY <1>1, <4>3
      <3> QED BY <3>1, <3>2
    <2>3. Loops' /\ Everyone(b + 1)' /\ ~Bad(b + 1)' BY <1>5, <1>7, <1>b, <1>o, <1>s DEF Onward
    <2> QED BY <1>s, <2>1, <2>2, <2>3 DEF Linked
  <1>15. Prepped' <=> Prepped
    <2>1. CASE r = 0 BY <1>1, <1>4, <1>5, <1>s, <2>1 DEF Prepped
    <2>2. CASE r # 0
      <3>0. 0 \in Rank BY WorkerAssumption DEF Rank
      <3>1. pc'[0] = pc[0] /\ own'[0] = own[0] /\ (0 \in open' <=> 0 \in open)
        BY <1>1, <1>3, <2>2, <3>0
      <3> QED BY <1>s, <3>1 DEF Prepped, Active
    <2> QED BY <2>1, <2>2
  <1>16. Transit' = Transit
    <2>1. CASE Gloo BY <1>1, <1>s, <2>1 DEF Transit
    <2>2. CASE ~Gloo BY <1>1, <1>15, <1>s, <2>2 DEF Transit
    <2> QED BY <2>1, <2>2
  <1>17. Wire(b)'
    <2>1. \A x \in Rank \ {r} : SentBy(x, b)' = SentBy(x, b) /\ TakenBy(x, b)' = TakenBy(x, b)
      BY <1>7, <1>a, <1>o, Ledgers
    <2>2. SentBy(r, b)' = SentBy(r, b) /\ TakenBy(r, b)' = TakenBy(r, b)
      BY <1>1, <1>4 DEF SentBy, TakenBy
    <2>4. Wire(b) BY DEF Data
    <2> QED BY <1>1, <1>2, <1>16, <2>1, <2>2, <2>4, WireSame
  <1>18. SavedFiles'
    <2>1. \A x : Before(x)' = Before(x) BY <1>1, <1>2, SameRequest
    <2> QED BY <1>1, <1>15, <1>s, <2>1 DEF Data, SavedFiles
  <1>19. Causes(b)'
    <2>1. aborted' # {} \/ (\E q \in Transit' : q.abort) => Trouble(b)'
      <3>1. CASE open = {}
        <4>1. Transit = {} /\ aborted = {} BY <1>5, <1>6, <1>7, <3>1, NoneYet
        <4> QED BY <1>1, <1>16, <4>1
      <3>2. CASE open # {}
        <4>1. Trouble(b) => Trouble(b)' BY <1>1, <1>2, <1>m, <1>o, <3>2, TroubleKept
        <4> QED BY <1>1, <1>16, <3>2, <4>1 DEF Data, Causes
      <3> QED BY <3>1, <3>2
    <2>2. ASSUME NEW x \in Rank, Done(x)', Loops', outcome'[x][Epoch] # "ok"
          PROVE  Bad(b + 1)' \/ Bad(b + 2)' \/ x = 0
      <3>0. x # r BY <1>4, <2>2
      <3>1. Done(x)' <=> Done(x) BY <1>1, <1>7, <1>a, <1>o, <3>0, Ledgers
      <3>2. Bad(b + 1) \/ Bad(b + 2) \/ x = 0 BY <1>2, <1>5, <2>2, <3>1 DEF Data, Causes
      <3> QED BY <1>b, <1>o, <3>2 DEF Onward
    <2> QED BY <1>s, <2>1, <2>2 DEF Causes
  <1> QED BY <1>8, <1>9, <1>11, <1>12, <1>13, <1>14, <1>17, <1>18, <1>19 DEF Data

(***************************************************************************)
(* The end of a request.                                                   *)
(***************************************************************************)

\* When all ranks have come to the second rendezvous every tail was taken.
LEMMA AllHandedOver ==
    ASSUME NEW b \in Nat, VideoInv(b), Data(b), Loops, ~Bad(b + 1), Everyone(b + 2)
    PROVE  /\ Transit = {}
           /\ \A x \in Rank : Done(x) \/ (x \in open /\ x \in agreed /\ Full(x))
  <1>1. ASSUME NEW x \in Rank, ~Done(x)
        PROVE  x \in open /\ x \in agreed /\ Full(x)
    <2>1. attended[x]["ctrl"] = b + Rounds(x, b) /\ attended[x]["ctrl"] >= b + 2
      BY DEF VideoInv, Control, Everyone
    <2>2. Rounds(x, b) \in Nat BY DEF Rounds, One
    <2>3. Rounds(x, b) >= 2 BY <2>1, <2>2
    <2>4. Active(x) /\ x \in open /\ x \in agreed BY <1>1, <2>3 DEF Rounds, One, Done
    <2>5. Spot(x, b) /\ Progress(x) /\ pc[x] \in Places BY DEF VideoInv, VideoTypes, Control, Data
    <2>6. pc[x] \in {"meet2", "concat", "unwind", "meet3"}
      BY <2>4, <2>5 DEF Spot, Places, Sending, Active
    <2>7. Full(x) BY <2>4, <2>5, <2>6 DEF Progress, CanUnwind
    <2> QED BY <2>4, <2>7
  <1>2. \A x \in Rank : TakenBy(x, b) = Takes(x)
    <2>1. Ran(b) BY DEF Ran
    <2> QED BY <1>1, <2>1 DEF TakenBy, Full
  <1>3. Transit = {} BY <1>2, AllTaken DEF Data
  <1> QED BY <1>1, <1>3

LEMMA LeaveData ==
    ASSUME NEW b \in Nat, VideoInv(b), VideoInv(b)', Data(b), NEW r \in Rank, Active(r),
           NEW how \in {"ok", "stopped", "failed"}, Leave(r, how), pc[r] # "meet1",
           Loops => IF CanUnwind(r) THEN Full(r) ELSE Nothing(r),
           Loops /\ how # "ok" => Bad(b + 1) \/ Bad(b + 2) \/ r = 0
    PROVE  Data(b)'
  <1>b. b + 1 \in Nat \ {0} /\ b + 2 \in Nat \ {0} OBVIOUS
  <1>0. 0 \in Rank BY WorkerAssumption DEF Rank
  <1>t. VideoTypes /\ DataTypes /\ Progress(r) /\ Spot(r, b) /\ Linked(b)
    BY DEF VideoInv, Control, Data
  <1>h. /\ turn[r] = Epoch /\ Epoch \in 1..Len(requests) /\ Here(r) /\ Epoch \in 1..MaxRequests
        /\ Loops <=> Request(r).kind = "segments"
    <2>1. turn[r] = Epoch /\ Epoch \in 1..Len(requests) /\ Here(r) /\ (Loops <=> Request(r).kind = "segments")
      BY ActiveHere
    <2>2. Len(requests) \in Nat /\ Len(requests) <= MaxRequests /\ MaxRequests \in Nat
      BY <1>t, WorkerAssumption DEF VideoTypes
    <2> QED BY <2>1, <2>2
  <1>1. /\ Finish(r, how)
        /\ index' = [index EXCEPT ![r] = 0]
        /\ sent' = [sent EXCEPT ![r] = {}] /\ received' = [received EXCEPT ![r] = {}]
        /\ tail' = [tail EXCEPT ![r] = NoTail]
        /\ own' = [own EXCEPT ![r] = "none"]
        /\ agreed' = agreed \ {r} /\ aborted' = aborted \ {r} /\ open' = open \ {r}
        /\ setup' = setup /\ channel' = channel /\ connected' = connected
    BY DEF Leave
  <1>2. /\ outcome' = [outcome EXCEPT ![r][Epoch] = how] /\ pc' = [pc EXCEPT ![r] = "barrier"]
        /\ requests' = requests /\ turn' = turn
    BY <1>1, <1>h DEF Finish, requestVars
  <1>3. scratch' = IF r = 0 /\ Loops /\ ~(pc[r] = "meet3" /\ r \notin open)
                   THEN [exists |-> FALSE, tails |-> {}, files |-> {}] ELSE scratch
    BY <1>h DEF Leave
  <1>4. /\ pc'[r] = "barrier" /\ \A x \in Rank \ {r} : pc'[x] = pc[x] /\ own'[x] = own[x]
        /\ own'[r] = "none"
    BY <1>1, <1>2, <1>t DEF VideoTypes
  <1>5. /\ outcome' \in [Rank -> [1..MaxRequests -> Outcome]]
        /\ outcome'[r] = [outcome[r] EXCEPT ![Epoch] = how]
        /\ \A x \in Rank \ {r} : outcome'[x] = outcome[x]
    <2>1. how \in Outcome BY DEF Outcome
    <2> QED BY <1>2, <1>h, <1>t, <2>1 DEF DataTypes
  <1>6. /\ index' \in [Rank -> Nat] /\ \A x \in Rank \ {r} : index'[x] = index[x]
        /\ sent' \in [Rank -> SUBSET Nat] /\ sent'[r] = {} /\ \A x \in Rank \ {r} : sent'[x] = sent[x]
        /\ received' \in [Rank -> SUBSET Nat] /\ received'[r] = {}
        /\ \A x \in Rank \ {r} : received'[x] = received[x]
    BY <1>1, <1>t DEF DataTypes
  <1>7. tail' \in [Rank -> Tails] /\ tail'[r] = NoTail /\ \A x \in Rank \ {r} : tail'[x] = tail[x]
    BY <1>1, <1>t DEF DataTypes, NoTail, Tails
  <1>8. scratch' \in [exists : BOOLEAN, tails : SUBSET Tails, files : SUBSET Files]
    BY <1>3, <1>t DEF DataTypes
  <1>9. DataTypes' BY <1>1, <1>5, <1>6, <1>7, <1>8, <1>t DEF DataTypes
  <1>m. Elsewhere(r) BY <1>1, <1>4 DEF Elsewhere
  <1>a. Alone(r) BY <1>1, <1>2, <1>5, <1>6, <1>7, <1>m DEF Alone
  <1>o. Onward BY <1>1, OnwardLeave
  <1>c. (Bad(b + 1)' <=> Bad(b + 1)) /\ (Everyone(b + 1)' <=> Everyone(b + 1))
        /\ (Everyone(b + 2)' <=> Everyone(b + 2)) /\ (Bad(b + 2)' <=> Bad(b + 2))
        /\ attended'[r]["ctrl"] = attended[r]["ctrl"]
    <2>g. "ctrl" \in Group /\ "world" \in Group /\ "ctrl" # "world" BY DEF Group
    <2>c. Enter(r, "world", OpOf("world"), FALSE, FALSE) BY <1>1 DEF Finish, OpOf
    <2>r. Roll BY DEF VideoInv
    <2>1. LET n == attended[r]["world"] + 1
          IN  /\ \A x \in Rank : \A h \in Group : x # r \/ h # "world" => attended'[x][h] = attended[x][h]
              /\ \A h \in Group : h # "world" => meetings'[h] = meetings[h]
      BY <1>t, <2>c, <2>g, <2>r, Entering
    <2>2. /\ \A x \in Rank : attended'[x]["ctrl"] = attended[x]["ctrl"]
          /\ meetings'["ctrl"] = meetings["ctrl"]
      BY <2>1, <2>g
    <2> QED BY <2>2 DEF Everyone, Bad, Fails, Stops
  <1>s. /\ Epoch' = Epoch /\ (Loops' <=> Loops) /\ (Gloo' <=> Gloo)
        /\ \A x \in Rank : Sends(x)' = Sends(x) /\ Takes(x)' = Takes(x)
        /\ \A x : Before(x)' = Before(x)
    BY <1>1, <1>2, SameRequest
  <1>10. ~Active(r)' /\ ~Done(r) /\ Done(r)'
    BY <1>2, <1>4, <1>h, <1>s DEF Active, Done, Here
  <1>11. \A x \in Rank \ {r} : Progress(x)' /\ AtHand(x)' /\ Unsettled(x)' BY <1>a, OthersKeep
  <1>12. Progress(r)' /\ AtHand(r)' BY <1>4, <1>6, <1>7, <1>10 DEF Progress, AtHand, Nothing
  <1>13. Unsettled(r)'
    <2> SUFFICES ASSUME NEW n \in 1..MaxRequests, n > turn[r] PROVE outcome'[r][n] = "none"
      BY <1>2, <1>10 DEF Unsettled
    <2>1. outcome[r][n] = "none" BY DEF Data, Unsettled
    <2>2. n # Epoch BY <1>h
    <2> QED BY <1>5, <1>h, <1>t, <2>1, <2>2 DEF DataTypes
  \* The rendezvous of the request are over for r.
  <1>14. Loops => IF r \in open THEN r \in agreed /\ ~Bad(b + 1) /\ Everyone(b + 2) ELSE Bad(b + 1)
    <2> SUFFICES ASSUME Loops
                 PROVE  IF r \in open THEN r \in agreed /\ ~Bad(b + 1) /\ Everyone(b + 2) ELSE Bad(b + 1)
      OBVIOUS
    <2>1. attended[r]["ctrl"] = b + One(r \in open) + One(r \in agreed)
      <3>1. attended[r]["ctrl"] = b + Rounds(r, b) /\ Rounds(r, b) = One(r \in open) + One(r \in agreed)
        BY ActiveHere
      <3> QED BY <3>1 DEF One
    <2>2. /\ attended'[r]["ctrl"] = b + Rounds(r, b)' /\ Everyone(b + Rounds(r, b))'
      BY <1>10 DEF VideoInv, Control
    <2>3. Rounds(r, b)' = IF ~Bad(b + 1) THEN 2 ELSE 1
      BY <1>10, <1>c, <1>s DEF Rounds, Done
    <2>4. r \in open => ~Bad(b + 1) BY DEF VideoInv, Control
    <2>5. CASE r \in open
      <3>1. Rounds(r, b)' = 2 BY <2>3, <2>4, <2>5
      <3>2. Everyone(b + 2)' BY <2>2, <3>1 DEF Everyone
      <3>3. r \in agreed BY <1>c, <2>1, <2>2, <2>5, <3>1 DEF One
      <3> QED BY <1>c, <2>4, <2>5, <3>2, <3>3
    <2>6. CASE r \notin open
      <3>1. Rounds(r, b)' # 2 BY <1>c, <2>1, <2>2, <2>6 DEF One
      <3> QED BY <2>3, <2>6, <3>1
    <2> QED BY <2>5, <2>6
  <1>15. Ran(b)' <=> Ran(b) BY <1>1, <1>c DEF Ran
  <1>16. IF Ran(b) THEN Full(r) ELSE Nothing(r)
    <2>1. CASE ~Loops
      <3>1. Nothing(r) BY <1>t, <2>1 DEF Progress
      <3>2. Sends(r) = {} /\ Takes(r) = {} BY <2>1 DEF Sends, Takes, Hops
      <3> QED BY <3>1, <3>2 DEF Nothing, Full
    <2>2. CASE Loops
      <3>1. CanUnwind(r) => Ran(b)
        <4>1. r \in open => Ran(b) BY <1>14, <2>2 DEF Ran
        <4>2. r \in connected => Ran(b) BY <1>t DEF Linked, Ran
        <4> QED BY <4>1, <4>2 DEF CanUnwind
      <3>2. ~CanUnwind(r) => ~Ran(b) BY <1>14, <2>2 DEF CanUnwind, Ran
      <3> QED BY <2>2, <3>1, <3>2
    <2> QED BY <2>1, <2>2
  <1>17. \A x \in Rank : SentBy(x, b)' = SentBy(x, b) /\ TakenBy(x, b)' = TakenBy(x, b)
    <2>1. \A x \in Rank \ {r} : SentBy(x, b)' = SentBy(x, b) /\ TakenBy(x, b)' = TakenBy(x, b)
      BY <1>1, <1>a, <1>o, Ledgers
    <2>2. SentBy(r, b)' = SentBy(r, b)
      BY <1>6, <1>10, <1>15, <1>16, <1>s DEF SentBy, Full, Nothing
    <2>3. TakenBy(r, b)' = TakenBy(r, b)
      BY <1>6, <1>10, <1>15, <1>16, <1>s DEF TakenBy, Full, Nothing
    <2> QED BY <2>1, <2>2, <2>3
  <1>18. r = 0 => ~Prepped' BY <1>10 DEF Prepped
  <1>19. r # 0 => (Prepped' <=> Prepped) /\ scratch' = scratch
    <2> SUFFICES ASSUME r # 0 PROVE (Prepped' <=> Prepped) /\ scratch' = scratch OBVIOUS
    <2>1. pc'[0] = pc[0] /\ own'[0] = own[0] /\ (0 \in open' <=> 0 \in open) BY <1>0, <1>1, <1>4
    <2> QED BY <1>3, <1>s, <2>1 DEF Prepped, Active
  <1>20. Transit' = Transit
    <2>1. CASE Gloo BY <1>1, <1>s, <2>1 DEF Transit
    <2>2. CASE ~Gloo /\ r # 0 BY <1>19, <1>s, <2>2 DEF Transit
    <2>3. CASE ~Gloo /\ r = 0
      <3>1. Transit' = {} BY <1>18, <1>s, <2>3 DEF Transit
      <3>2. CASE ~Prepped BY <2>3, <3>1, <3>2 DEF Transit
      <3>3. CASE Prepped
        <4>1. Loops /\ 0 \in open BY <2>3, <3>3 DEF Prepped
        <4>2. Transit = {} BY <1>14, <2>3, <4>1, AllHandedOver
        <4> QED BY <3>1, <4>2
      <3> QED BY <3>2, <3>3
    <2> QED BY <2>1, <2>2, <2>3
  <1>21. Wire(b)'
    <2>1. Wire(b) BY DEF Data
    <2> QED BY <1>1, <1>2, <1>17, <1>20, <2>1, WireSame
  <1>22. SavedFiles'
    <2>1. CASE r = 0 BY <1>18, <2>1 DEF SavedFiles
    <2>2. CASE r # 0 BY <1>2, <1>19, <1>s, <2>2 DEF Data, SavedFiles
    <2> QED BY <2>1, <2>2
  <1>23. Linked(b)'
    <2>1. ~Gloo => connected' = {} BY <1>1, <1>t DEF Linked
    <2>2. ASSUME NEW x \in Rank, Gloo, x \in open' \/ (Done(x)' /\ Loops' /\ ~Bad(b + 1)')
          PROVE  x \in connected'
      <3>1. CASE x = r
        <4>1. Loops /\ ~Bad(b + 1) BY <1>1, <1>c, <1>s, <2>2, <3>1
        <4>2. r \in open BY <1>14, <4>1
        <4> QED BY <1>1, <1>t, <2>2, <3>1, <4>2 DEF Linked
      <3>2. CASE x # r
        <4>1. Done(x)' <=> Done(x) BY <1>1, <1>a, <1>o, <3>2, Ledgers
        <4> QED BY <1>1, <1>c, <1>s, <1>t, <2>2, <4>1 DEF Linked
      <3> QED BY <3>1, <3>2
    <2>3. connected' \in {{}, Rank} \/ (Loops' /\ Everyone(b + 1)' /\ ~Bad(b + 1)')
      BY <1>1, <1>c, <1>s, <1>t DEF Linked
    <2> QED BY <1>s, <2>1, <2>2, <2>3 DEF Linked
  <1>24. Causes(b)'
    <2>1. open' # {} /\ (aborted' # {} \/ \E q \in Transit' : q.abort) => Trouble(b)'
      <3> SUFFICES ASSUME open' # {}, aborted' # {} \/ \E q \in Transit' : q.abort PROVE Trouble(b)'
        OBVIOUS
      <3>1. open # {} /\ (aborted # {} \/ \E q \in Transit : q.abort) BY <1>1, <1>20
      <3>2. Trouble(b) BY <3>1 DEF Data, Causes
      <3>3. CASE Bad(b + 2) BY <1>c, <3>3 DEF Trouble
      <3>4. ASSUME NEW x \in open \ agreed, own[x] # "none" PROVE Trouble(b)'
        <4>0. x \in Rank BY <1>t DEF VideoTypes
        <4>1. Loops BY <4>0, OpenLoops
        <4>2. x # r BY <1>14, <4>1
        <4>3. x \in open' \ agreed' /\ own'[x] # "none" BY <1>1, <1>4, <3>4, <4>0, <4>2
        <4> QED BY <4>3 DEF Trouble
      <3> QED BY <3>2, <3>3, <3>4 DEF Trouble
    <2>2. ASSUME NEW x \in Rank, Done(x)', Loops', outcome'[x][Epoch] # "ok"
          PROVE  Bad(b + 1)' \/ Bad(b + 2)' \/ x = 0
      <3>1. CASE x = r
        <4>1. outcome'[r][Epoch] = how BY <1>5, <1>h, <1>t DEF DataTypes
        <4> QED BY <1>c, <1>s, <2>2, <3>1, <4>1
      <3>2. CASE x # r
        <4>1. Done(x)' <=> Done(x) BY <1>1, <1>a, <1>o, <3>2, Ledgers
        <4>2. outcome'[x] = outcome[x] BY <1>5, <3>2
        <4> QED BY <1>c, <1>s, <2>2, <4>1, <4>2 DEF Data, Causes
      <3> QED BY <3>1, <3>2
    <2> QED BY <1>s, <2>1, <2>2 DEF Causes
  <1> QED BY <1>9, <1>11, <1>12, <1>13, <1>21, <1>22, <1>23, <1>24 DEF Data

\* The steps that end a request.
LEMMA LeavesData ==
    ASSUME NEW b \in Nat, VideoInv(b), VideoInv(b)', Data(b), NEW r \in Rank,
           \/ Settled(r) /\ pc'[r] = "barrier"
           \/ Concat(r)
           \/ Unwound(r) /\ pc'[r] = "barrier"
           \/ Reported(r)
    PROVE  Data(b)'
  <1>b. b + 1 \in Nat \ {0} /\ b + 2 \in Nat \ {0} OBVIOUS
  <1>t. VideoTypes /\ Progress(r) /\ Spot(r, b) BY DEF VideoInv, Control, Data
  <1>p. pc \in [Rank -> Places] /\ own[r] \in {"none", "stopped", "failed"} BY <1>t DEF VideoTypes
  <1>g. \A place : Goto(r, place) => pc'[r] = place BY <1>p DEF Goto
  <1>1. CASE Settled(r) /\ pc'[r] = "barrier"
    <2>1. pc[r] = "meet2" /\ Leave(r, "ok")
      <3>1. \A how : ~Rethrow(r, how)
        <4> SUFFICES ASSUME NEW how, Rethrow(r, how) PROVE FALSE OBVIOUS
        <4>1. pc'[r] = "unwind" BY <1>g DEF Rethrow
        <4> QED BY <1>1, <4>1
      <3>2. ~Goto(r, "concat")
        <4> SUFFICES ASSUME Goto(r, "concat") PROVE FALSE OBVIOUS
        <4>1. pc'[r] = "concat" BY <1>g
        <4> QED BY <1>1, <4>1
      <3> QED BY <1>1, <3>1, <3>2 DEF Settled
    <2>2. Active(r) /\ r \in open /\ Full(r) BY <1>t, <2>1 DEF Active, Spot, Progress
    <2>3. CanUnwind(r) BY <2>2 DEF CanUnwind
    <2> QED BY <2>1, <2>2, <2>3, LeaveData
  <1>2. CASE Concat(r)
    <2>1. PICK how \in {"ok", "failed"} : Leave(r, how) BY <1>2 DEF Concat
    <2>2. pc[r] = "concat" BY <1>2 DEF Concat
    <2>3. Active(r) /\ r \in open /\ Full(r) /\ r = 0 BY <1>t, <2>2 DEF Active, Spot, Progress
    <2>4. CanUnwind(r) BY <2>3 DEF CanUnwind
    <2> QED BY <2>1, <2>2, <2>3, <2>4, LeaveData
  <1>3. CASE Unwound(r) /\ pc'[r] = "barrier"
    <2>1. pc[r] = "unwind" /\ Owed(r) = {} /\ Inbound(r) = {} /\ Continue(r) BY <1>3 DEF Unwound
    <2>2. own[r] # "none" /\ r \in agreed /\ Leave(r, own[r])
      <3>1. \A place : Goto(r, place) => place = "barrier" BY <1>3, <1>g
      <3>2. \A failed : ~Meet(r, failed, "meet3") BY <3>1 DEF Meet
      <3> QED BY <2>1, <3>1, <3>2 DEF Continue
    <2>3. PICK how \in {"stopped", "failed"} : how = own[r] BY <1>p, <2>2
    <2>4. Active(r) BY <2>1 DEF Active
    <2>5. IF CanUnwind(r) THEN Full(r) ELSE Nothing(r) BY <2>1, Unwinds
    <2>6. Bad(b + 1) \/ Bad(b + 2) \/ r = 0 BY <1>t, <2>1, <2>2 DEF Spot
    <2>7. Leave(r, how) BY <2>2, <2>3
    <2> QED BY <2>1, <2>4, <2>5, <2>6, <2>7, LeaveData
  <1>4. CASE Reported(r)
    <2>1. pc[r] = "meet3" BY <1>4 DEF Reported
    <2>2. Active(r) BY <2>1 DEF Active
    <2>3. \E how \in {"ok", "stopped", "failed"} : Leave(r, how)
      <3>1. PICK n \in Nat : n = attended[r]["ctrl"] BY <1>t DEF VideoTypes, Group
      <3>2. n >= 1
        <4>1. n = b + Rounds(r, b) BY <2>2, <3>1, ActiveHere
        <4>2. Rounds(r, b) >= 1
          <5>1. CASE Loops BY <1>t, <2>1, <2>2, <5>1, ActiveHere DEF Spot, One
          <5>2. CASE ~Loops BY <2>1, <2>2, <5>2, ActiveHere DEF One
          <5> QED BY <5>1, <5>2
        <4>3. Rounds(r, b) \in Nat BY DEF Rounds, One
        <4> QED BY <4>1, <4>2, <4>3
      <3>3. Raised(r, FALSE) \in {"none", "stopped", "failed"}
        <4>1. n \in Nat \ {0} /\ attended[r]["ctrl"] = n /\ FALSE \in BOOLEAN BY <3>1, <3>2
        <4> QED BY <4>1, RaisedTells
      <3> DEFINE raised == Raised(r, FALSE)
      <3>4. Leave(r, CASE own[r] = "failed" -> "failed"
                      [] own[r] # "failed" /\ raised # "none" -> raised
                      [] own[r] = "stopped" /\ raised = "none" -> "stopped"
                      [] OTHER -> "ok")
        BY <1>4 DEF Reported
      <3> HIDE DEF raised
      <3>5. raised \in {"none", "stopped", "failed"} BY <3>3 DEF raised
      <3>6. (CASE own[r] = "failed" -> "failed"
               [] own[r] # "failed" /\ raised # "none" -> raised
               [] own[r] = "stopped" /\ raised = "none" -> "stopped"
               [] OTHER -> "ok") \in {"ok", "stopped", "failed"}
        BY <1>p, <3>5
      <3> QED BY <3>4, <3>6
    <2>4. PICK how \in {"ok", "stopped", "failed"} : Leave(r, how) BY <2>3
    <2>5. Loops => IF CanUnwind(r) THEN Full(r) ELSE Nothing(r) BY <1>t, <2>1 DEF Progress
    <2>6. Loops => Bad(b + 1) \/ Bad(b + 2) BY <1>t, <2>1 DEF Spot, Bad
    <2> QED BY <2>1, <2>2, <2>4, <2>5, <2>6, LeaveData
  <1> QED BY <1>1, <1>2, <1>3, <1>4

\* The steps between the requests, and the cancellations.
LEMMA WorkerData ==
    ASSUME NEW b \in Nat, VideoInv(b), VideoInv(b)', Data(b), NEW r \in Rank, UNCHANGED segmentVars,
           Receive(r) \/ Answer(r) \/ Cancel \/ UNCHANGED workerVars
    PROVE  Data(b)'
  <1>t. VideoTypes /\ DataTypes /\ Progress(r) /\ AtHand(r) /\ Unsettled(r) /\ Stages
    BY DEF VideoInv, Data
  <1>u. /\ UNCHANGED <<setup, index, sent, received, tail, own, agreed, aborted, open>>
        /\ UNCHANGED <<channel, connected, scratch>>
    BY DEF segmentVars, loopVars, exitVars, wireVars
  <1>1. UNCHANGED <<requests, outcome, meetings, attended>>
    BY DEF Receive, Answer, Cancel, workerVars, requestVars, meetingVars
  <1>2. UNCHANGED dataVars /\ Onward
    <2>1. Onward BY <1>1, OnwardSame DEF meetingVars
    <2> QED BY <1>1, <1>u, <2>1 DEF dataVars
  <1>s. /\ Epoch' = Epoch /\ (Loops' <=> Loops) /\ (Gloo' <=> Gloo) /\ Hops' = Hops
        /\ \A x \in Rank : Sends(x)' = Sends(x) /\ Takes(x)' = Takes(x)
        /\ \A x : Before(x)' = Before(x)
    BY <1>1, <1>u, SameRequest
  <1>3. open # {} /\ Trouble(b) => Trouble(b)' BY <1>1, <1>u DEF Trouble, Bad, Fails, Stops
  <1>4. CASE Receive(r)
    <2>1. /\ r # 0 /\ pc[r] = "idle" /\ turn[r] < Len(requests)
          /\ turn' = [turn EXCEPT ![r] = turn[r] + 1] /\ pc' = [pc EXCEPT ![r] = "run"]
      BY <1>4 DEF Receive
    <2>2. /\ pc'[r] = "run" /\ turn'[r] = turn[r] + 1 /\ turn[r] \in Nat
          /\ \A x \in Rank \ {r} : pc'[x] = pc[x] /\ turn'[x] = turn[x]
      BY <1>t, <2>1 DEF VideoTypes
    <2>3. Elsewhere(r) BY <1>u, <2>2 DEF Elsewhere
    <2>4. ~Done(r) /\ ~Done(r)' BY <2>1, <2>2 DEF Done, Here, Epoch, Active
    <2>5. Prepped' <=> Prepped
      <3>0. 0 \in Rank BY WorkerAssumption DEF Rank
      <3>1. pc'[0] = pc[0] BY <2>1, <2>2, <3>0
      <3> QED BY <1>s, <1>u, <3>1 DEF Prepped, Active
    <2>6. ~Active(r) BY <2>1 DEF Active
    <2>7. Nothing(r)' /\ tail'[r] = NoTail BY <1>t, <1>u, <2>6 DEF Progress, Nothing
    <2>8. Progress(r)' /\ AtHand(r)' BY <2>2, <2>7 DEF Progress, AtHand
    <2>9. Unsettled(r)'
      <3> SUFFICES ASSUME NEW n \in 1..MaxRequests, n > turn'[r] \/ n = turn'[r]
                   PROVE  outcome'[r][n] = "none"
        BY DEF Unsettled
      <3>1. n > turn[r] BY <2>2
      <3> QED BY <1>1, <1>t, <3>1 DEF Unsettled
    <2> QED BY <1>1, <1>2, <1>3, <1>u, <2>2, <2>3, <2>4, <2>5, <2>8, <2>9, Quiet
  <1>5. CASE Answer(r)
    <2>1. pc[r] = "barrier" /\ pc' = [pc EXCEPT ![r] = "idle"] /\ turn' = turn
      BY <1>5 DEF Answer
    <2>2. pc'[r] = "idle" /\ \A x \in Rank \ {r} : pc'[x] = pc[x] BY <1>t, <2>1 DEF VideoTypes
    <2>3. Elsewhere(r) BY <1>u, <2>2 DEF Elsewhere
    <2>4. ~Active(r) /\ ~Active(r)' BY <2>1, <2>2 DEF Active
    <2>5. Done(r)' <=> Done(r) BY <1>s, <2>1, <2>4 DEF Done, Here
    <2>6. Prepped' <=> Prepped
      <3>0. 0 \in Rank BY WorkerAssumption DEF Rank
      <3>1. Active(0)' <=> Active(0) BY <2>2, <2>4, <3>0 DEF Active
      <3>2. pc'[0] = "meet1" <=> pc[0] = "meet1" BY <2>1, <2>2, <3>0
      <3> QED BY <1>s, <1>u, <3>1, <3>2 DEF Prepped
    <2>7. Nothing(r)' /\ tail'[r] = NoTail BY <1>t, <1>u, <2>4 DEF Progress, Nothing
    <2>8. Progress(r)' /\ AtHand(r)' BY <2>2, <2>4, <2>7 DEF Progress, AtHand
    <2>9. Unsettled(r)' BY <1>1, <1>t, <2>1, <2>4 DEF Unsettled
    <2> QED BY <1>1, <1>2, <1>3, <1>u, <2>1, <2>3, <2>5, <2>6, <2>8, <2>9, Quiet
  <1>6. CASE Cancel \/ UNCHANGED workerVars
    <2>1. pc' = pc /\ turn' = turn BY <1>6 DEF Cancel, workerVars
    <2>2. Elsewhere(r) BY <1>u, <2>1 DEF Elsewhere
    <2>3. \A x \in Rank : Active(x)' <=> Active(x) BY <2>1 DEF Active
    <2>4. Done(r)' <=> Done(r) BY <1>s, <2>1, <2>3 DEF Done, Here
    <2>5. Prepped' <=> Prepped
      <3>0. 0 \in Rank BY WorkerAssumption DEF Rank
      <3> QED BY <1>s, <1>u, <2>1, <2>3, <3>0 DEF Prepped
    <2>6. (Nothing(r)' <=> Nothing(r)) /\ (Full(r)' <=> Full(r)) /\ (CanUnwind(r)' <=> CanUnwind(r))
      BY <1>s, <1>u DEF Nothing, Full, CanUnwind
    <2>7. Progress(r)'
      BY <1>1, <1>s, <1>t, <1>u, <2>1, <2>3, <2>6 DEF Progress, FirstOf
    <2>8. AtHand(r)' BY <1>s, <1>t, <1>u, <2>1 DEF AtHand, Before
    <2>9. Unsettled(r)' BY <1>1, <1>t, <2>1, <2>3 DEF Unsettled
    <2> QED BY <1>1, <1>2, <1>3, <1>u, <2>1, <2>2, <2>4, <2>5, <2>7, <2>8, <2>9, Quiet
  <1> QED BY <1>4, <1>5, <1>6

\* A request is broadcast.
LEMMA SubmitData ==
    ASSUME NEW b \in Nat, VideoInv(b), Data(b),
           NEW request \in {VideoRequest(n) : n \in VideoLengths},
           Submit(request), UNCHANGED segmentVars, NEW c \in Nat
    PROVE  Data(c)'
  <1>0. 0 \in Rank BY WorkerAssumption DEF Rank
  <1>t. VideoTypes /\ DataTypes /\ Linked(b) /\ Wire(b) BY DEF VideoInv, Data
  <1>u. /\ UNCHANGED <<setup, index, sent, received, tail, own, agreed, aborted, open>>
        /\ UNCHANGED <<channel, connected, scratch>>
    BY DEF segmentVars, loopVars, exitVars, wireVars
  <1>c. /\ pc[0] = "idle" /\ requests' = Append(requests, request) /\ outcome' = outcome
        /\ turn' = [turn EXCEPT ![0] = turn[0] + 1] /\ pc' = [pc EXCEPT ![0] = "run"]
    BY DEF Submit
  <1>d. \A x \in Rank : /\ turn[x] = Epoch /\ ~Active(x)
                        /\ x \notin open \cup agreed \cup aborted /\ own[x] = "none"
    BY <1>c, AllDone
  <1>p. /\ pc'[0] = "run" /\ \A x \in Rank \ {0} : pc'[x] = pc[x]
        /\ turn'[0] = turn[0] + 1 /\ \A x \in Rank \ {0} : turn'[x] = turn[x]
    BY <1>c, <1>0, <1>t DEF VideoTypes
  <1>e. Epoch \in Nat /\ Epoch' = Epoch + 1 BY <1>c, <1>t DEF VideoTypes, Epoch
  <1>1. \A x \in Rank : Nothing(x) /\ tail[x] = NoTail BY <1>d DEF Data, Progress
  <1>2. Transit = {}
    <2>1. CASE ~Gloo
      <3>1. ~Prepped BY <1>0, <1>d DEF Prepped
      <3> QED BY <2>1, <3>1 DEF Transit
    <2>2. CASE ~Loops BY <1>t, <2>2 DEF Wire, Hops
    <2>3. CASE Loops
      <3>1. \A x \in Rank : Done(x) BY <1>d, <2>3 DEF Done, Here, Loops
      <3>2. CASE Ran(b)
        <4>1. \A x \in Rank : TakenBy(x, b) = Takes(x) BY <3>1, <3>2 DEF TakenBy
        <4> QED BY <1>t, <4>1, AllTaken
      <3>3. CASE ~Ran(b)
        <4>1. \A x \in Rank : SentBy(x, b) = {} BY <1>1, <3>3 DEF SentBy, Nothing
        <4> QED BY <1>t, <4>1, NoneSent
      <3> QED BY <3>2, <3>3
    <2> QED BY <2>1, <2>2, <2>3
  <1>3. Gloo => \A x \in Rank : channel[x] = <<>>
    <2> SUFFICES ASSUME Gloo, NEW x \in Rank, channel[x] # <<>> PROVE FALSE OBVIOUS
    <2>1. PICK m \in Tails : channel[x] = <<m>> BY <1>t DEF Wire
    <2>2. m \in Transit BY <2>1 DEF Transit
    <2> QED BY <1>2, <2>2
  <1>4. connected \in {{}, Rank}
    <2>1. CASE ~Gloo BY <1>t, <2>1 DEF Linked
    <2>2. CASE Gloo /\ Loops /\ ~Bad(b + 1)
      <3>1. \A x \in Rank : Done(x) BY <1>d, <2>2 DEF Done, Here, Loops
      <3>2. \A x \in Rank : x \in connected BY <1>t, <2>2, <3>1 DEF Linked
      <3> QED BY <1>t, <3>2 DEF DataTypes
    <2> QED BY <1>t, <2>1, <2>2 DEF Linked
  <1>5. \A x \in Rank : ~Done(x)'
    <2>1. Active(0)' BY <1>p DEF Active
    <2>2. \A x \in Rank \ {0} : turn'[x] # Epoch' BY <1>d, <1>e, <1>p
    <2> QED BY <2>1, <2>2 DEF Done, Here
  <1>6. \A x \in Rank : x \notin open' /\ x \notin agreed' /\ x \notin aborted' /\ Nothing(x)'
    BY <1>1, <1>d, <1>u DEF Nothing
  <1>7. ~Prepped' BY <1>0, <1>6, <1>p DEF Prepped
  <1>8. Gloo' <=> Gloo BY <1>u DEF Gloo
  <1>9. Transit' = {}
    <2>1. CASE Gloo
      <3>1. \A x \in Rank : channel'[x] = <<>> BY <1>3, <1>u, <2>1
      <3>2. \A m : <<m>> # <<>> OBVIOUS
      <3> QED BY <1>8, <2>1, <3>1, <3>2 DEF Transit
    <2>2. CASE ~Gloo BY <1>7, <1>8, <2>2 DEF Transit
    <2> QED BY <2>1, <2>2
  <1>10. DataTypes' BY <1>t, <1>u, <1>c DEF DataTypes
  <1>11. ASSUME NEW x \in Rank PROVE Progress(x)' /\ AtHand(x)' /\ Unsettled(x)'
    <2>1. pc'[x] \in {"idle", "barrier", "run"} BY <1>d, <1>p DEF Active
    <2>2. Nothing(x)' /\ tail'[x] = NoTail BY <1>1, <1>6, <1>u
    <2>3. Progress(x)' /\ AtHand(x)' BY <2>1, <2>2 DEF Progress, AtHand
    <2>4. Unsettled(x)'
      <3> SUFFICES ASSUME NEW n \in 1..MaxRequests, n > turn'[x] \/ (n = turn'[x] /\ Active(x)')
                   PROVE  outcome'[x][n] = "none"
        BY DEF Unsettled
      <3>1. n > turn[x]
        <4>1. CASE x = 0 BY <1>d, <1>e, <1>p, <4>1
        <4>2. CASE x # 0
          <5>1. ~Active(x)' BY <1>d, <1>p, <4>2 DEF Active
          <5> QED BY <1>p, <4>2, <5>1
        <4> QED BY <4>1, <4>2
      <3> QED BY <1>c, <3>1 DEF Data, Unsettled
    <2> QED BY <2>3, <2>4
  <1>12. Linked(c)' BY <1>4, <1>5, <1>6, <1>8, <1>t, <1>u DEF Linked
  <1>13. Wire(c)'
    <2>1. \A x \in Rank : SentBy(x, c)' = {} /\ TakenBy(x, c)' = {}
      BY <1>5, <1>6 DEF SentBy, TakenBy, Nothing
    <2>2. ASSUME NEW e \in Hops' PROVE SentBy(Owner(e), c)' = {} /\ TakenBy(Owner(e + 1), c)' = {}
      <3>1. e \in Nat /\ e + 1 \in Nat BY DEF Hops
      <3>2. PICK r \in Rank, s \in Rank : r = Owner(e) /\ s = Owner(e + 1) BY <3>1, Owners
      <3> QED BY <2>1, <3>2
    <2>3. Gloo' => \A x \in Rank : channel'[x] = <<>> BY <1>3, <1>8, <1>u
    <2> QED BY <1>9, <2>2, <2>3 DEF Wire
  <1>14. SavedFiles' BY <1>7 DEF SavedFiles
  <1>15. Causes(c)' 
    <2>1. open' = {} BY <1>6, <1>t, <1>u DEF VideoTypes
    <2> QED BY <1>5, <2>1 DEF Causes
  <1> QED BY <1>10, <1>11, <1>12, <1>13, <1>14, <1>15 DEF Data

LEMMA InitData == setup.runner # "default" /\ Init => Data(0)
  <1> SUFFICES ASSUME Init PROVE Data(0) OBVIOUS
  <1>0. NoTail \in Tails BY DEF NoTail, Tails
  <1>i. /\ requests = <<>> /\ pc = [r \in Rank |-> "idle"] /\ turn = [r \in Rank |-> 0]
        /\ outcome = [r \in Rank |-> [n \in 1..MaxRequests |-> "none"]]
        /\ index = [r \in Rank |-> 0]
        /\ sent = [r \in Rank |-> {}] /\ received = [r \in Rank |-> {}]
        /\ tail = [r \in Rank |-> NoTail]
        /\ agreed = {} /\ aborted = {} /\ open = {}
        /\ channel = [r \in Rank |-> <<>>] /\ connected = {}
    BY DEF Init, WorkerInit
  <1>s. scratch \in [exists : BOOLEAN, tails : SUBSET Tails, files : SUBSET Files]
    <2>1. \/ scratch = [exists |-> FALSE, tails |-> {}, files |-> {}]
          \/ scratch = [exists |-> TRUE, tails |-> {NoTail},
                        files |-> {[segment |-> 0, request |-> 0, blended |-> NoTail]}]
      BY DEF Init
    <2>2. [segment |-> 0, request |-> 0, blended |-> NoTail] \in Files BY <1>0 DEF Files
    <2>3. {NoTail} \subseteq Tails /\ {[segment |-> 0, request |-> 0, blended |-> NoTail]} \subseteq Files
      BY <1>0, <2>2
    <2> QED
      <3> HIDE DEF NoTail
      <3>1. CASE scratch = [exists |-> FALSE, tails |-> {}, files |-> {}] BY <3>1
      <3>2. CASE scratch = [exists |-> TRUE, tails |-> {NoTail},
                            files |-> {[segment |-> 0, request |-> 0, blended |-> NoTail]}]
        BY <2>3, <3>2
      <3> QED BY <2>1, <3>1, <3>2
  <1>1. Epoch = 0 /\ ~Loops /\ Hops = {} /\ ~Prepped BY <1>i DEF Epoch, Loops, Hops, Prepped
  <1>2. \A r \in Rank : ~Active(r) /\ ~Done(r) /\ Nothing(r)
    BY <1>1, <1>i DEF Active, Done, Here, Nothing
  <1>3. DataTypes BY <1>0, <1>i, <1>s DEF DataTypes, Outcome
  <1>4. \A r \in Rank : Progress(r) /\ AtHand(r) BY <1>2, <1>i DEF Progress, AtHand
  <1>5. \A r \in Rank : Unsettled(r) BY <1>i DEF Unsettled
  <1>6. Transit = {}
    <2>1. \A m : <<m>> # <<>> OBVIOUS
    <2> QED BY <1>1, <1>i, <2>1 DEF Transit
  <1>7. Linked(0) BY <1>2, <1>i DEF Linked
  <1>8. Wire(0) BY <1>1, <1>6, <1>i DEF Wire
  <1>9. SavedFiles BY <1>1 DEF SavedFiles
  <1>10. Causes(0) BY <1>2, <1>i DEF Causes
  <1> QED BY <1>3, <1>4, <1>5, <1>7, <1>8, <1>9, <1>10 DEF Data

(***************************************************************************)
(* The invariant of the hand-offs.                                         *)
(***************************************************************************)

LEMMA SegmentData ==
    ASSUME NEW b \in Nat, VideoInv(b), Data(b), NEW r \in Rank, VideoStepOf(r)
    PROVE  VideoInv(b)' /\ Data(b)'
  <1>1. VideoInv(b)' BY StepOfVideo
  <1>2. CASE FailOutput(r) \/ Diffuse(r) \/ StopSegment(r) \/ FailSegment(r)
    BY <1>1, <1>2, MovesData
  <1>3. CASE RunAlone(r) \/ Settle(r) \/ (r # 0 /\ Prepare(r)) \/ (r = 0 /\ FailAlone)
    BY <1>1, <1>3, ComesData
  <1>4. CASE r = 0 /\ (Prepare(r) \/ FailPrepare) BY <1>1, <1>4, MakesData
  <1>5. CASE Prepared(r)
    <2>1. CASE open' = open BY <1>1, <1>5, <2>1, OnData
    <2>2. CASE open' # open BY <1>1, <1>5, <2>2, OpensData
    <2> QED BY <2>1, <2>2
  <1>6. CASE HandOff(r) \/ AbortOwed(r) BY <1>1, <1>6, HandsData
  <1>7. CASE RecvTail(r) \/ Discard(r) BY <1>1, <1>7, TakesData
  <1>8. CASE Save(r) BY <1>1, <1>8, SaveData
  <1>9. CASE Settled(r) \/ Unwound(r)
    <2>1. CASE pc'[r] = "barrier" BY <1>1, <1>9, <2>1, LeavesData
    <2>2. CASE pc'[r] # "barrier" BY <1>1, <1>9, <2>2, OnData
    <2> QED BY <2>1, <2>2
  <1>10. CASE Concat(r) \/ Reported(r) BY <1>1, <1>10, LeavesData
  <1> QED BY <1>1, <1>2, <1>3, <1>4, <1>5, <1>6, <1>7, <1>8, <1>9, <1>10 DEF VideoStepOf, SegmentStep

\* A step keeps the invariant, with another count of rendezvous when it begins
\* a request.
LEMMA DataStep ==
    ASSUME NEW b \in Nat, VideoInv(b), Data(b), setup.runner # "default", [Next]_vars
    PROVE  \E c \in Nat : VideoInv(c)' /\ Data(c)'
  <1>1. ASSUME NEW request \in {VideoRequest(n) : n \in VideoLengths},
               Submit(request), UNCHANGED segmentVars
        PROVE  \E c \in Nat : VideoInv(c)' /\ Data(c)'
    <2>1. PICK c \in Nat : VideoInv(c)' BY <1>1, SubmitVideo
    <2>2. Data(c)' BY <1>1, SubmitData
    <2> QED BY <2>1, <2>2
  <1>2. ASSUME NEW r \in Rank, UNCHANGED segmentVars,
               Receive(r) \/ Answer(r) \/ Cancel \/ UNCHANGED workerVars
        PROVE  VideoInv(b)' /\ Data(b)'
    <2>1. VideoInv(b)' BY <1>2, RestOfVideo
    <2> QED BY <1>2, <2>1, WorkerData
  <1> QED BY <1>1, <1>2, SegmentData, VideoSteps

HandOffs ==
    IF setup.runner = "default" THEN Inv ELSE \E b \in Nat : VideoInv(b) /\ Data(b)

LEMMA HandOffsInit == Init => HandOffs
  <1>1. CASE setup.runner = "default" BY <1>1, InvInit DEF Init, HandOffs
  <1>2. CASE setup.runner # "default" BY <1>2, VideoStarts, InitData DEF HandOffs
  <1> QED BY <1>1, <1>2

LEMMA HandOffsStep == HandOffs /\ [Next]_vars => HandOffs'
  <1> SUFFICES ASSUME HandOffs, [Next]_vars PROVE HandOffs' OBVIOUS
  <1>0. setup' = setup BY SetupStays
  <1>1. CASE setup.runner = "default"
    <2>1. Inv BY <1>1 DEF HandOffs
    <2>2. Inv' BY <1>1, <2>1, PlainSteps, InvStep
    <2> QED BY <1>0, <1>1, <2>2 DEF HandOffs
  <1>2. CASE setup.runner # "default"
    <2>1. PICK b \in Nat : VideoInv(b) /\ Data(b) BY <1>2 DEF HandOffs
    <2>2. \E c \in Nat : VideoInv(c)' /\ Data(c)' BY <1>2, <2>1, DataStep
    <2> QED BY <1>0, <1>2, <2>2 DEF HandOffs
  <1> QED BY <1>1, <1>2

\* The invariant of the hand-offs, which the two theorems below follow from.
THEOREM HandOffsAlways == Spec => []HandOffs
  <1> QED BY HandOffsInit, HandOffsStep, PTL DEF Spec

\* A tail is taken by the rank it is for, in the request it belongs to, with
\* either transport: the ones taken by a rank that gives up too.
THEOREM TailsAlwaysBelong == Spec => TailsBelong
  <1> DEFINE Belong == \A r \in Rank : received'[r] # received[r] /\ received'[r] # {} =>
                            /\ tail'[r].request = turn[r]
                            /\ tail'[r].edge + 1 \in received'[r] \ received[r]
  <1>1. ASSUME NEW b \in Nat, VideoInv(b), Data(b), NEW r \in Rank, VideoStepOf(r) PROVE Belong
    <2>1. CASE RecvTail(r) \/ Discard(r)
      <3>1. VideoInv(b)' BY <1>1, SegmentData
      <3>2. /\ tail'[r].request = turn[r]
            /\ tail'[r].edge + 1 \in received'[r] \ received[r]
            /\ \A x \in Rank \ {r} : received'[x] = received[x]
        BY <1>1, <2>1, <3>1, TakesData
      <3> QED BY <3>2
    <2>2. CASE \E how : Leave(r, how)
      <3>1. received \in [Rank -> SUBSET Nat] BY <1>1 DEF Data, DataTypes
      <3>2. received' = [received EXCEPT ![r] = {}] BY <2>2 DEF Leave
      <3>3. \A x \in Rank : received'[x] = received[x] \/ received'[x] = {} BY <3>1, <3>2
      <3> QED BY <3>3
    <2>3. CASE received' = received BY <2>3
    <2>4. RecvTail(r) \/ Discard(r) \/ (\E how : Leave(r, how)) \/ received' = received
      BY <1>1 DEF VideoStepOf, SegmentStep, FailOutput, FailSegment, FailAlone, FailPrepare, RunAlone,
         Prepare, Prepared, Rethrow, Diffuse, StopSegment, HandOff, Save, Settle, Settled, Concat,
         AbortOwed, Unwound, Continue, Reported, segmentVars, loopVars
    <2> QED BY <2>1, <2>2, <2>3, <2>4
  <1>2. ASSUME HandOffs, [Next]_vars PROVE Belong
    <2>1. CASE UNCHANGED segmentVars BY <2>1 DEF segmentVars, loopVars
    <2>2. CASE setup.runner = "default" BY <1>2, <2>1, <2>2, PlainSteps DEF HandOffs
    <2>3. CASE setup.runner # "default"
      <3>1. PICK b \in Nat : VideoInv(b) /\ Data(b) BY <1>2, <2>3 DEF HandOffs
      <3> HIDE DEF Belong
      <3>2. UNCHANGED segmentVars \/ \E r \in Rank : VideoStepOf(r) BY <1>2, <2>3, <3>1, VideoSteps
      <3> QED BY <1>1, <2>1, <3>1, <3>2
    <2> QED BY <2>2, <2>3
  <1>3. HandOffs /\ [Next]_vars => [Belong]_vars BY <1>2
  <1> QED BY <1>3, HandOffsAlways, PTL DEF Spec, TailsBelong

(***************************************************************************)
(* What a video that is reported as done stands for.                       *)
(***************************************************************************)

\* When rank 0 is past the second rendezvous and it told of nothing, nobody
\* is in trouble.
LEMMA AllWell ==
    ASSUME NEW b \in Nat, VideoInv(b), Data(b), Loops, pc[0] \in {"meet2", "concat"},
           Everyone(b + 2), ~Bad(b + 2)
    PROVE  /\ Prepped /\ aborted = {} /\ turn[0] = Epoch /\ Epoch \in 1..MaxRequests
           /\ \A x \in Rank : own[x] = "none" /\ outcome[x][Epoch] \in {"none", "ok"}
  <1>0. 0 \in Rank BY WorkerAssumption DEF Rank
  <1>t. VideoTypes /\ DataTypes BY DEF VideoInv, Data
  <1>1. /\ Active(0) /\ turn[0] = Epoch /\ Epoch \in 1..Len(requests) /\ Spot(0, b)
        /\ 0 \in open => ~Bad(b + 1)
    BY <1>0, ActiveHere DEF Active
  <1>2. 0 \in open /\ ~Bad(b + 1) BY <1>1 DEF Spot
  <1>3. Epoch \in 1..MaxRequests
    <2>1. Len(requests) \in Nat /\ Len(requests) <= MaxRequests /\ MaxRequests \in Nat
      BY <1>t, WorkerAssumption DEF VideoTypes
    <2> QED BY <1>1, <2>1
  <1>4. \A x \in Rank : Done(x) \/ (x \in open /\ x \in agreed) BY <1>2, AllHandedOver
  <1>5. ASSUME NEW x \in Rank, Done(x)
        PROVE  x \notin open /\ own[x] = "none" /\ outcome[x][Epoch] = "ok"
    <2>1. Spot(x, b) BY DEF VideoInv, Control
    <2>2. x \notin open /\ own[x] = "none" BY <1>5, <2>1 DEF Spot, Done, Active
    <2>3. x # 0 BY <1>1, <1>5 DEF Done
    <2> QED BY <1>2, <1>5, <2>2, <2>3 DEF Data, Causes
  <1>6. ASSUME NEW x \in Rank, x \in open, x \in agreed
        PROVE  own[x] = "none" /\ outcome[x][Epoch] = "none"
    <2>1. Active(x) BY <1>6, OpenLoops
    <2>2. turn[x] = Epoch /\ Spot(x, b) /\ pc[x] \in Places
      BY <1>t, <2>1, ActiveHere DEF VideoTypes
    <2>3. pc[x] \in {"meet2", "concat"} BY <1>6, <2>1, <2>2 DEF Spot, Places, Sending, Active
    <2>4. own[x] = "none" BY <2>2, <2>3 DEF Spot
    <2>5. outcome[x][Epoch] = "none" BY <1>3, <2>1, <2>2 DEF Data, Unsettled
    <2> QED BY <2>4, <2>5
  <1>7. ~Trouble(b)
    <2>1. \A x \in open : x \in Rank BY <1>t DEF VideoTypes
    <2> QED BY <1>4, <1>5, <2>1 DEF Trouble
  <1>8. aborted = {} BY <1>2, <1>7 DEF Data, Causes
  <1> QED BY <1>1, <1>2, <1>3, <1>4, <1>5, <1>6, <1>8 DEF Prepped

\* As many files as segments, of different segments, are all of them.
LEMMA AllFiles ==
    ASSUME NEW k \in Nat, NEW S, Cardinality(S) = k, \A f \in S : f.segment \in 0..k - 1,
           \A f, h \in S : f.segment = h.segment => f = h
    PROVE  {f.segment : f \in S} = 0..k - 1
  <1> DEFINE T == 0..k - 1
             seg == [f \in S |-> f.segment]
  <1>1. IsFiniteSet(T) /\ Cardinality(T) = k
    <2>1. 0 \in Int /\ k - 1 \in Int OBVIOUS
    <2>2. IsFiniteSet(0..k - 1) /\ Cardinality(0..k - 1) = IF 0 > k - 1 THEN 0 ELSE k - 1 - 0 + 1
      BY <2>1, FS_Interval
    <2> QED BY <2>2
  <1>2. seg \in Injection(S, T) BY DEF Injection, IsInjective
  <1> HIDE DEF seg
  <1>3. seg \in Surjection(S, T) BY <1>1, <1>2, FS_Injection
  <1>4. \A t \in T : \E f \in S : seg[f] = t BY <1>3 DEF Surjection
  <1> QED BY <1>4 DEF seg

\* A video is reported as done only when rank 0 has joined it.
LEMMA DoneIsWhole ==
    ASSUME NEW b \in Nat, VideoInv(b), Data(b), NEW r \in Rank, VideoStepOf(r),
           NEW n \in 1..MaxRequests,
           outcome[0][n] = "none", outcome'[0][n] = "ok", requests[n].kind = "segments"
    PROVE  /\ n = Epoch /\ Loops /\ pc[0] = "concat" /\ Everyone(b + 2) /\ ~Bad(b + 2)
           /\ Complete(0) /\ outcome' = [outcome EXCEPT ![0][n] = "ok"]
  <1>0. 0 \in Rank BY WorkerAssumption DEF Rank
  <1>b. b + 2 \in Nat \ {0} /\ FALSE \in BOOLEAN OBVIOUS
  <1>t. VideoTypes /\ DataTypes BY DEF VideoInv, Data
  \* It is rank 0 that leaves the request.
  <1>1. \E how : Leave(r, how)
    <2>1. (\E how : Leave(r, how)) \/ outcome' = outcome
      BY DEF VideoStepOf, SegmentStep, FailOutput, FailSegment, FailAlone, FailPrepare, RunAlone, Meet,
         Prepare, Prepared, Rethrow, Diffuse, StopSegment, RecvTail, HandOff, Save, Settle, Settled,
         Concat, AbortOwed, Discard, Unwound, Continue, Reported, Goto
    <2> QED BY <2>1
  <1>2. ASSUME NEW how, Leave(r, how)
        PROVE  /\ r = 0 /\ how = "ok" /\ turn[0] = n
               /\ outcome' = [outcome EXCEPT ![0][n] = "ok"] /\ pc'[r] = "barrier"
    <2>1. /\ outcome' = [outcome EXCEPT ![r][turn[r]] = how] /\ pc' = [pc EXCEPT ![r] = "barrier"]
      BY <1>2 DEF Leave, Finish
    <2>2. r = 0
      <3> SUFFICES ASSUME r # 0 PROVE FALSE OBVIOUS
      <3>1. outcome'[0] = outcome[0] BY <1>0, <1>t, <2>1 DEF DataTypes
      <3> QED BY <3>1
    <2>3. turn[0] = n
      <3> SUFFICES ASSUME turn[0] # n PROVE FALSE OBVIOUS
      <3>1. outcome'[0][n] = outcome[0][n] BY <1>0, <1>t, <2>1, <2>2 DEF DataTypes
      <3> QED BY <3>1
    <2>4. outcome'[0][n] = how BY <1>0, <1>t, <2>1, <2>2, <2>3 DEF DataTypes
    <2>5. pc'[r] = "barrier" BY <1>t, <2>1 DEF VideoTypes
    <2> QED BY <2>1, <2>2, <2>3, <2>4, <2>5
  <1>3. r = 0 /\ turn[0] = n /\ outcome' = [outcome EXCEPT ![0][n] = "ok"] /\ pc'[0] = "barrier"
    BY <1>1, <1>2
  <1>4. Epoch = n /\ Spot(0, b) /\ own[0] \in {"none", "stopped", "failed"}
    BY <1>0, <1>3, <1>t DEF VideoInv, Stages, Control, VideoTypes
  <1>5. Loops BY <1>4 DEF Loops
  <1>6. \A place : Goto(0, place) => place = "barrier"
    BY <1>0, <1>3, <1>t DEF Goto, VideoTypes
  <1>7. CASE Concat(0)
    <2>1. pc[0] = "concat" BY <1>7 DEF Concat
    <2>2. Complete(0) BY <1>2, <1>3, <1>7 DEF Concat
    <2> QED BY <1>3, <1>4, <1>5, <2>1, <2>2 DEF Spot
  <1>8. CASE Settled(0)
    <2>1. pc[0] = "meet2" /\ Met(0, "ctrl") /\ Raised(0, FALSE) = "none" /\ 0 \in aborted
      BY <1>6, <1>8 DEF Settled, Rethrow
    <2>2. Active(0) BY <2>1 DEF Active
    <2>3. attended[0]["ctrl"] = b + 2 BY <1>0, <1>5, <2>1, <2>2, ActiveHere DEF Spot, One
    <2>4. ~Bad(b + 2) /\ Everyone(b + 2) BY <1>0, <1>b, <2>1, <2>3, RaisedTells
    <2>5. aborted = {} BY <1>5, <2>1, <2>4, AllWell
    <2> QED BY <2>1, <2>5
  <1>9. CASE Unwound(0)
    <2>1. own[0] # "none" /\ Leave(0, own[0]) BY <1>6, <1>9 DEF Unwound, Continue, Meet
    <2>2. own[0] = "ok" BY <1>2, <1>3, <2>1
    <2> QED BY <1>4, <2>2
  <1>10. CASE Reported(0)
    <2>1. pc[0] = "meet3" BY <1>10 DEF Reported
    <2>2. own[0] # "none" BY <1>4, <1>5, <2>1 DEF Spot
    <2> DEFINE raised == Raised(0, FALSE)
               how == CASE own[0] = "failed" -> "failed"
                        [] own[0] # "failed" /\ raised # "none" -> raised
                        [] own[0] = "stopped" /\ raised = "none" -> "stopped"
                        [] OTHER -> "ok"
    <2>3. Leave(0, how) BY <1>10 DEF Reported
    <2>4. how = "ok" BY <1>2, <1>3, <2>3
    <2>5. raised # "ok"
      BY DEF Raised
    <2> HIDE DEF raised
    <2>6. own[0] \in {"stopped", "failed"} BY <1>4, <2>2
    <2> QED BY <2>4, <2>5, <2>6
  <1>11. Concat(0) \/ Settled(0) \/ Unwound(0) \/ Reported(0)
    BY <1>3, <1>6 DEF VideoStepOf, SegmentStep, FailOutput, FailSegment, FailAlone, FailPrepare, RunAlone,
         Meet, Prepare, Prepared, Rethrow, Diffuse, StopSegment, RecvTail, HandOff, Save, Settle,
         AbortOwed, Discard
  <1> QED BY <1>7, <1>8, <1>9, <1>10, <1>11

\* A video is reported as done only when every segment is saved in this
\* request, blended with the tail of the one before, and no rank stopped,
\* failed or gave up in it: no file of an earlier video or of a crashed run is
\* joined into it.
THEOREM SuccessAlwaysWhole == Spec => SuccessIsWhole
  <1> DEFINE Whole == \A n \in 1..MaxRequests :
        outcome[0][n] = "none" /\ outcome'[0][n] = "ok" /\ requests[n].kind = "segments" =>
            /\ aborted = {}
            /\ \A r \in Rank : outcome'[r][n] \in {"none", "ok"} /\ own[r] = "none"
            /\ {f.segment : f \in scratch.files} = 0..requests[n].segments - 1
            /\ \A f \in scratch.files : f.request = n /\
                f.blended = IF f.segment = 0 THEN NoTail
                            ELSE [request |-> n, edge |-> f.segment - 1, abort |-> FALSE]
  <1>0. 0 \in Rank BY WorkerAssumption DEF Rank
  <1>1. ASSUME NEW b \in Nat, VideoInv(b), Data(b), NEW r \in Rank, VideoStepOf(r) PROVE Whole
    <2> SUFFICES ASSUME NEW n \in 1..MaxRequests,
                        outcome[0][n] = "none", outcome'[0][n] = "ok", requests[n].kind = "segments"
                 PROVE  /\ aborted = {}
                        /\ \A x \in Rank : outcome'[x][n] \in {"none", "ok"} /\ own[x] = "none"
                        /\ {f.segment : f \in scratch.files} = 0..requests[n].segments - 1
                        /\ \A f \in scratch.files : f.request = n /\
                            f.blended = IF f.segment = 0 THEN NoTail
                                        ELSE [request |-> n, edge |-> f.segment - 1, abort |-> FALSE]
      OBVIOUS
    <2>1. /\ n = Epoch /\ Loops /\ pc[0] = "concat" /\ Everyone(b + 2) /\ ~Bad(b + 2)
          /\ Complete(0) /\ outcome' = [outcome EXCEPT ![0][n] = "ok"]
      BY <1>1, DoneIsWhole
    <2>2. /\ Prepped /\ aborted = {} /\ turn[0] = Epoch
          /\ \A x \in Rank : own[x] = "none" /\ outcome[x][Epoch] \in {"none", "ok"}
      BY <1>1, <2>1, AllWell
    <2>3. \A x \in Rank : outcome'[x][n] \in {"none", "ok"}
      <3>1. outcome \in [Rank -> [1..MaxRequests -> Outcome]] BY <1>1 DEF Data, DataTypes
      <3> QED BY <2>1, <2>2, <3>1
    <2>4. Active(0) BY <2>1 DEF Active
    <2>5. requests[n].segments \in Nat /\ Request(0) = requests[n]
      BY <1>0, <1>1, <2>1, <2>4, AtWork
    <2>6. Cardinality(scratch.files) = requests[n].segments BY <2>1, <2>5 DEF Complete
    <2>7. \A f \in scratch.files : f.segment \in Nat
      BY <1>1 DEF Data, DataTypes, Files
    <2>8. /\ \A f \in scratch.files :
                f.request = n /\ f.segment < requests[n].segments /\ f.blended = Before(f.segment)
          /\ \A f, h \in scratch.files : f.segment = h.segment => f = h
      BY <1>1, <2>1, <2>2 DEF Data, SavedFiles
    <2>9. \A f \in scratch.files : f.segment \in 0..requests[n].segments - 1 BY <2>5, <2>7, <2>8
    <2>10. {f.segment : f \in scratch.files} = 0..requests[n].segments - 1
      <3>1. PICK k \in Nat : k = requests[n].segments BY <2>5
      <3>2. PICK S : S = scratch.files OBVIOUS
      <3>3. /\ Cardinality(S) = k /\ \A f \in S : f.segment \in 0..k - 1
            /\ \A f, h \in S : f.segment = h.segment => f = h
        BY <2>6, <2>8, <2>9, <3>1, <3>2
      <3>4. {f.segment : f \in S} = 0..k - 1 BY <3>3, AllFiles
      <3> QED BY <3>1, <3>2, <3>4
    <2> QED BY <2>1, <2>2, <2>3, <2>8, <2>10 DEF Before
  <1>2. ASSUME HandOffs, [Next]_vars PROVE Whole
    <2>1. ASSUME setup.runner = "default" PROVE Whole
      <3>1. [WorkerNext]_workerVars /\ Inv BY <1>2, <2>1, PlainSteps DEF HandOffs
      <3>2. outcome \in [Rank -> [1..MaxRequests -> Outcome]] /\ requests \in Seq(PlainRequest)
        BY <3>1 DEF Inv, Types
      <3>3. ASSUME NEW n \in 1..MaxRequests, outcome'[0][n] # outcome[0][n]
            PROVE  requests[n].kind # "segments"
        <4>1. (\E r \in Rank, how \in Outcome : Finish(r, how)) \/ outcome' = outcome
          BY <3>1 DEF WorkerNext, Submit, Cancel, WorkerStep, Receive, PlainStep, CheckStop,
             AgreeToStop, Raise, Infer, Answer, workerVars, Outcome
        <4>2. PICK r \in Rank, how \in Outcome : Finish(r, how) BY <3>3, <4>1
        <4>3. outcome' = [outcome EXCEPT ![r][turn[r]] = how] BY <4>2 DEF Finish
        <4>4. n = turn[r] BY <1>0, <3>2, <3>3, <4>3
        <4>5. turn[r] \in 0..Len(requests) BY <3>1 DEF Inv, Types
        <4>6. n \in 1..Len(requests) BY <4>4, <4>5
        <4>7. requests[n] \in PlainRequest BY <3>2, <4>6
        <4> QED BY <4>7 DEF PlainRequest
      <3> QED BY <3>3
    <2>2. ASSUME setup.runner # "default" PROVE Whole
      <3>1. PICK b \in Nat : VideoInv(b) /\ Data(b) BY <1>2, <2>2 DEF HandOffs
      <3> HIDE DEF Whole
      <3>2. CASE \E r \in Rank : VideoStepOf(r) BY <1>1, <3>1, <3>2
      <3>3. CASE outcome' = outcome BY <3>3 DEF Whole
      <3>4. outcome' = outcome \/ \E r \in Rank : VideoStepOf(r)
        <4>1. \A request : Submit(request) => outcome' = outcome BY DEF Submit
        <4>2. ASSUME NEW r \in Rank, Receive(r) \/ Answer(r) \/ Cancel \/ UNCHANGED workerVars
              PROVE  outcome' = outcome
          BY <4>2 DEF Receive, Answer, Cancel, workerVars
        <4> QED BY <1>2, <2>2, <3>1, <4>1, <4>2, VideoSteps
      <3> QED BY <3>2, <3>3, <3>4
    <2> QED BY <2>1, <2>2
  <1>3. HandOffs /\ [Next]_vars => [Whole]_vars BY <1>2
  <1> QED BY <1>3, HandOffsAlways, PTL DEF Spec, SuccessIsWhole

(***************************************************************************)
(* Types.                                                                  *)
(***************************************************************************)

\* What the invariants above leave open: the cancelled requests, and that a
\* send that was not received is in the list of its rank.
Kept ==
    /\ cancelled \subseteq 1..Len(requests)
    /\ held \subseteq Rank
    /\ \A r \in Rank : channel[r] # <<>> => Gloo /\ r \in held
    /\ setup.runner = "default" =>
        /\ agreed \cup aborted \cup open \cup connected = {}
        /\ \A r \in Rank : own[r] = "none" /\ channel[r] = <<>>

LEMMA KeptInit == Init => Kept
  BY DEF Init, WorkerInit, Kept

\* What a step of a rank does to its own sends and to those of another.
LEMMA KeptSends ==
    ASSUME NEW b \in Nat, VideoInv(b), Data(b), HeldInv, Kept, NEW r \in Rank, VideoStepOf(r)
    PROVE  /\ held' \subseteq Rank
           /\ \A x \in Rank : channel'[x] # <<>> => Gloo /\ x \in held'
  <1>t. channel \in [Rank -> Seq(Tails)] BY DEF Data, DataTypes
  <1>w. WorkerAssumption BY WorkerAssumption
  <1>1. CASE HandOff(r) \/ AbortOwed(r)
    <2>1. PICK m : SendTail(r, m) BY <1>1 DEF HandOff, AbortOwed
    <2> QED BY <1>t, <2>1 DEF Kept, SendTail
  <1>2. CASE RecvTail(r) \/ Discard(r)
    <2>1. PICK edge : TakeTail(r, edge) BY <1>2 DEF RecvTail, Discard
    <2>2. held' = held BY <2>1 DEF TakeTail
    <2>3. \A x \in Rank : channel'[x] # <<>> => channel[x] # <<>>
      <3>1. CASE Gloo
        <4>1. PICK from : channel[from] # <<>> /\ channel' = [channel EXCEPT ![from] = Tail(channel[from])]
          BY <2>1, <3>1 DEF TakeTail
        <4> QED BY <1>t, <4>1
      <3>2. CASE ~Gloo BY <2>1, <3>2 DEF TakeTail
      <3> QED BY <3>1, <3>2
    <2> QED BY <2>2, <2>3 DEF Kept
  <1>3. CASE channel' = channel /\ (held' = held \/ (held' = held \ {r} /\ (channel[r] = <<>> \/ r \notin held)))
    BY <1>3 DEF Kept
  <1>4. CASE FailOutput(r) \/ Prepare(r) \/ (r = 0 /\ FailPrepare)
    <2>1. channel' = channel /\ held' = held \ {r} /\ pc[r] = "run"
      BY <1>4 DEF FailOutput, Prepare, FailPrepare, Starts
    <2>2. r \notin held BY <2>1 DEF HeldInv, Sending
    <2> QED BY <1>3, <2>1, <2>2
  <1>5. CASE Settle(r) \/ Unwound(r)
    <2>1. channel' = channel /\ channel[r] = <<>> /\ held' = held \ {r}
      BY <1>5 DEF Settle, Unwound, Drain, Continue, Leave
    <2> QED BY <1>3, <2>1
  <1>6. CASE \/ RunAlone(r) \/ Prepared(r) \/ Diffuse(r) \/ StopSegment(r) \/ Save(r) \/ Settled(r)
             \/ Concat(r) \/ Reported(r) \/ FailSegment(r) \/ (r = 0 /\ FailAlone)
    <2>1. channel' = channel /\ held' = held
      BY <1>6 DEF RunAlone, Prepared, Rethrow, Diffuse, StopSegment, Save, Settled, Concat, Reported,
         FailSegment, FailAlone, Leave, segmentVars, wireVars
    <2> QED BY <1>3, <2>1
  <1> QED BY <1>1, <1>2, <1>4, <1>5, <1>6 DEF VideoStepOf, SegmentStep

LEMMA KeptStep == HandOffs /\ HeldInv /\ Kept /\ [Next]_vars => Kept'
  <1> SUFFICES ASSUME HandOffs, HeldInv, Kept, [Next]_vars PROVE Kept' OBVIOUS
  <1>0. 0 \in Rank BY WorkerAssumption DEF Rank
  <1>s. setup' = setup /\ (Gloo' <=> Gloo) BY SetupStays DEF Gloo
  <1>1. ASSUME UNCHANGED segmentVars, cancelled' \subseteq 1..Len(requests')
        PROVE  Kept'
    BY <1>1, <1>s DEF Kept, segmentVars, exitVars, wireVars
  <1>2. CASE setup.runner = "default"
    <2>1. Inv /\ [WorkerNext]_workerVars /\ UNCHANGED segmentVars BY <1>2, PlainSteps DEF HandOffs
    <2>2. Inv' BY <2>1, InvStep
    <2> QED BY <1>1, <2>1, <2>2 DEF Inv, Types
  <1>3. CASE setup.runner # "default"
    <2>1. PICK b \in Nat : VideoInv(b) /\ Data(b) BY <1>3 DEF HandOffs
    <2>2. ASSUME NEW request \in {VideoRequest(n) : n \in VideoLengths}, Submit(request)
          PROVE  cancelled' \subseteq 1..Len(requests')
      <3>1. requests' = Append(requests, request) /\ cancelled' = cancelled BY <2>2 DEF Submit
      <3>2. Len(requests') = Len(requests) + 1 /\ Len(requests) \in Nat
        BY <2>1, <3>1 DEF VideoInv, VideoTypes
      <3> QED BY <3>1, <3>2 DEF Kept
    <2>3. ASSUME NEW r \in Rank, Receive(r) \/ Answer(r) \/ Cancel \/ UNCHANGED workerVars
          PROVE  cancelled' \subseteq 1..Len(requests')
      <3>1. CASE Cancel
        <4>1. cancelled' = cancelled \cup {turn[0]} /\ requests' = requests /\ pc[0] # "idle"
          BY <3>1 DEF Cancel
        <4>2. turn[0] \in Nat /\ turn[0] >= 1 /\ turn[0] = Len(requests)
          BY <1>0, <2>1, <4>1 DEF VideoInv, VideoTypes, Stages, Epoch
        <4>3. turn[0] \in 1..Len(requests)
          <5>1. Len(requests) \in Nat BY <4>2
          <5> QED BY <4>2, <5>1
        <4>4. cancelled \subseteq 1..Len(requests) BY DEF Kept
        <4> QED BY <4>1, <4>3, <4>4
      <3>2. CASE Receive(r) \/ Answer(r) \/ UNCHANGED workerVars
        BY <3>2 DEF Kept, Receive, Answer, workerVars, requestVars
      <3> QED BY <2>3, <3>1, <3>2
    <2>4. ASSUME NEW r \in Rank, VideoStepOf(r) PROVE Kept'
      <3>1. requests' = requests /\ cancelled' = cancelled
        BY <2>4 DEF VideoStepOf, SegmentStep, FailOutput, FailSegment, FailAlone, FailPrepare, RunAlone,
           Meet, Prepare, Prepared, Rethrow, Diffuse, StopSegment, RecvTail, HandOff, Save, Settle,
           Settled, Concat, AbortOwed, Discard, Unwound, Continue, Reported, Goto, Leave, Finish,
           requestVars
      <3>2. /\ held' \subseteq Rank
            /\ \A x \in Rank : channel'[x] # <<>> => Gloo /\ x \in held'
        BY <2>1, <2>4, KeptSends
      <3> QED BY <1>3, <1>s, <3>1, <3>2 DEF Kept
    <2> QED BY <1>1, <1>3, <2>1, <2>2, <2>3, <2>4, VideoSteps
  <1> QED BY <1>2, <1>3

\* Type correctness: the variables keep their types, a rank has at most one
\* send that was not received, and it is in the list of the rank.
THEOREM SegmentTypeCorrect == Spec => []SegmentTypeOK
  <1>1. HandOffs /\ Kept => SegmentTypeOK
    <2> SUFFICES ASSUME HandOffs, Kept PROVE SegmentTypeOK OBVIOUS
    <2>1. CASE setup.runner = "default"
      <3>1. WorkerTypeOK BY <2>1, InvTyped DEF HandOffs
      <3>2. \A r \in Rank : own[r] = "none" /\ channel[r] = <<>> BY <2>1 DEF Kept
      <3> QED BY <2>1, <3>1, <3>2 DEF Kept, SegmentTypeOK, Outcome
    <2>2. CASE setup.runner # "default"
      <3>1. PICK b \in Nat : VideoInv(b) /\ Data(b) BY <2>2 DEF HandOffs
      <3>t. VideoTypes /\ DataTypes /\ Stages BY <3>1 DEF VideoInv, Data
      <3>2. WorkerTypeOK
        <4>1. turn \in [Rank -> 0..Len(requests)]
          <5>1. Len(requests) \in Nat /\ turn \in [Rank -> Nat] BY <3>t DEF VideoTypes
          <5>2. \A r \in Rank : turn[r] <= Len(requests) BY <3>t, <5>1 DEF Stages, Epoch
          <5> QED BY <5>1, <5>2
        <4>2. ASSUME NEW g \in Group, NEW n \in 1..Len(meetings[g])
              PROVE  meetings[g][n].ranks \subseteq Rank
          <5>1. meetings[g] \in Seq(VideoMeeting) BY <3>t DEF VideoTypes
          <5>2. meetings[g][n] \in VideoMeeting BY <5>1
          <5> QED BY <5>2 DEF VideoMeeting
        <4> QED BY <3>t, <4>1, <4>2 DEF WorkerTypeOK, Kept, VideoTypes, DataTypes
      <3>3. ASSUME NEW r \in Rank PROVE Len(channel[r]) <= 1
        <4>1. CASE channel[r] = <<>> BY <4>1
        <4>2. CASE channel[r] # <<>>
          <5>1. Gloo BY <4>2 DEF Kept
          <5>2. PICK m \in Tails : channel[r] = <<m>> BY <3>1, <4>2, <5>1 DEF Data, Wire
          <5> QED BY <5>2
        <4> QED BY <4>1, <4>2
      <3>4. \A r \in Rank : own[r] \in Outcome \ {"ok"} BY <3>t DEF VideoTypes, Outcome
      <3>5. agreed \cup aborted \cup open \cup held \cup connected \subseteq Rank
        BY <3>t DEF VideoTypes, DataTypes, Kept
      <3> QED BY <3>2, <3>3, <3>4, <3>5 DEF SegmentTypeOK, Kept
    <2> QED BY <2>1, <2>2
  <1>2. Init => HeldInv /\ Kept BY HeldInit, KeptInit
  <1> QED BY <1>1, <1>2, HandOffsAlways, HeldStep, KeptStep, PTL DEF Spec
=============================================================================
