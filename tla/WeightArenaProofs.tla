-------------------------- MODULE WeightArenaProofs --------------------------
(***************************************************************************)
(* Theorems about the failures and the segments of WeightArena, for every  *)
(* number of ranks, grouping of them and number of models, and whatever    *)
(* goes wrong.                                                             *)
(***************************************************************************)
EXTENDS WeightArena, WellFoundedInduction, TLAPS

(***************************************************************************)
(* The inductive invariant.                                                *)
(***************************************************************************)

\* The steps in which a rank has k stages behind it and is in no exchange.
After(k) ==
    CASE k = 0 -> {"start"}
      [] k = 1 -> {"discover"}
      [] k = 2 -> {"make", "map", "mark", "populate", "populated"}
      [] k = 3 -> {"attach", "shmat", "register"}
      [] k = 4 -> {"bind"}

InExchange == {"preflight", "discovery", "population", "registration", "initialization"}
Waiting == {"check", "look", "again", "returned"}

\* All ranks have reported success of stage s under number n.
Agreed(n, s) ==
    n \in Exchange /\ \A r \in Rank : posted[r][n].ok /\ posted[r][n].stage = s

\* And of the first k stages, under the numbers from n on.
AgreedFrom(n, k) == \A i \in 1..k : Agreed(n + i - 1, Stages[i])

\* A rank in exchange has called it for the stage its step is named for.
CallInv ==
    \A r \in Rank : at[r] # "out" =>
        /\ sequence[r] > 0
        /\ step[r] # "dead" => step[r] \in InExchange /\ status[r].stage = step[r]

\* Statuses are posted in order, and once.
PostedInv ==
    \A r \in Rank, n \in Exchange :
        n >= sequence[r] \/ (n = sequence[r] - 1 /\ at[r] = "post") => posted[r][n] = NoStatus

\* A rank that waits has succeeded itself, and so have those it no longer
\* waits for; a rank that looks has somebody to look for.
WaitInv ==
    \A r \in Rank :
        /\ at[r] = "look" => looking[r] # {}
        /\ at[r] \in {"check", "again"} => pending[r] # {}
        /\ at[r] = "post" => pending[r] = Rank
        /\ at[r] \in Waiting => status[r].ok
        /\ at[r] = "returned" => pending[r] = {}
        /\ at[r] \in Waiting => \A p \in Rank \ pending[r] :
            posted[p][sequence[r] - 1].ok /\ posted[p][sequence[r] - 1].stage = status[r].stage

\* A rank with k stages behind it is one that all ranks succeeded in k stages
\* with.  Nothing is said of the last stage when the rank itself reports a
\* failure in it: an error of any earlier stage is reported there.
StageInv ==
    \A r \in Rank, k \in 0..4 :
        /\ step[r] \in After(k) => AgreedFrom(sequence[r] - k, k)
        /\ step[r] = Stages[k + 1] /\ (k < 4 \/ status[r].ok) =>
            AgreedFrom(sequence[r] - 1 - k, k)

\* A rank that is about to abort has a message to leave; a message that was
\* raised is the one left first, unless the rank could not reach the Store.
CauseInv ==
    /\ \A r \in Rank : at[r] = "abort" => message[r].why # "none"
    /\ \A r \in Rank :
        cause[r].why \notin {"none", "lost"} => cause[r] = failure /\ failure # NoMessage

Inv == ArenaTypeOK /\ CallInv /\ PostedInv /\ WaitInv /\ StageInv /\ CauseInv

(***************************************************************************)
(* The kinds of steps, as far as the exchange is concerned.                *)
(***************************************************************************)

\* The call of exchange for the stage after k stages.
Begins(r) ==
    \E k \in 0..4, s \in Status :
        /\ step[r] \in After(k) /\ s.stage = Stages[k + 1]
        /\ step' = [step EXCEPT ![r] = Stages[k + 1]]
        /\ Enter(r, s)
        /\ loaded' = loaded

\* The call that reports the failure of what comes between two stages.
Reports(r) ==
    \E s \in Status :
        /\ step[r] \in {"start", "error"} /\ s.stage = "initialization" /\ ~s.ok
        /\ step' = [step EXCEPT ![r] = "initialization"]
        /\ Enter(r, s)
        /\ loaded' = loaded

\* The return of exchange, before the last stage and after it.
Advances(r) ==
    \E k \in 0..3, to \in Steps :
        /\ step[r] = Stages[k + 1] /\ to \in After(k + 1) \cup {"error"}
        /\ step' = [step EXCEPT ![r] = to]
        /\ Leave(r, "returned")
        /\ loaded' = loaded
Completes(r) ==
    /\ step[r] = "initialization"
    /\ step' = [step EXCEPT ![r] = "ready"]
    /\ Leave(r, "returned")
    /\ loaded' = [loaded EXCEPT ![r] = @ \cup {model[r]}]

\* The exception of exchange.
GivesUp(r) ==
    \E to \in {"error", "failed"} :
        /\ step' = [step EXCEPT ![r] = to]
        /\ Leave(r, "raised")
        /\ loaded' = loaded

\* Work between two stages.
Works(r) ==
    \E k \in 0..4, to \in Steps :
        /\ step[r] \in After(k) \/ (k = 0 /\ step[r] \in {"ready", "failed"})
        /\ to \in After(k) /\ step' = [step EXCEPT ![r] = to]
        /\ UNCHANGED <<storeVars, callVars, loaded>>

Ends(r) ==
    /\ step' = [step EXCEPT ![r] = "dead"]
    /\ UNCHANGED <<storeVars, callVars, loaded>>

\* An operation of exchange.
Operates(r) ==
    /\ step[r] # "dead"
    /\ ExchangeStep(r) \/ Disconnected(r)
    /\ UNCHANGED <<step, loaded>>

Kind(r) ==
    \/ Begins(r) \/ Reports(r) \/ Advances(r) \/ Completes(r) \/ GivesUp(r)
    \/ Works(r) \/ Ends(r) \/ Operates(r)

\* The k-th stage.
LEMMA StageNames ==
    /\ Stages[1] = "preflight" /\ Stages[2] = "discovery" /\ Stages[3] = "population"
    /\ Stages[4] = "registration" /\ Stages[5] = "initialization"
    /\ 0..4 = {0, 1, 2, 3, 4} /\ 0..3 = {0, 1, 2, 3}
    BY DEF Stages

\* The steps by the number of stages behind them.
LEMMA AfterSets ==
    /\ After(0) = {"start"} /\ After(1) = {"discover"}
    /\ After(2) = {"make", "map", "mark", "populate", "populated"}
    /\ After(3) = {"attach", "shmat", "register"} /\ After(4) = {"bind"}
    BY DEF After

\* The calls of exchange for the stages, after the steps that precede them.
LEMMA ExchangeBegins ==
    ASSUME NEW r \in Rank, NEW from, NEW to, NEW s \in Status,
           \/ from \in After(0) /\ to = "preflight"
           \/ from \in After(1) /\ to = "discovery"
           \/ from \in After(2) /\ to = "population"
           \/ from \in After(3) /\ to = "registration"
           \/ from \in After(4) /\ to = "initialization",
           s.stage = to, Goto(r, from, to), Enter(r, s)
    PROVE  Begins(r)
<1>1. \E k \in 0..4 : from \in After(k) /\ to = Stages[k + 1]
    BY StageNames
<1>2. QED
    BY <1>1 DEF Goto, Begins

\* The same for calls made with a report, with or without an error.
LEMMA ExchangesBegins ==
    ASSUME NEW r \in Rank, NEW from, NEW to,
           \/ from \in After(0) /\ to = "preflight"
           \/ from \in After(1) /\ to = "discovery"
           \/ from \in After(2) /\ to = "population"
           \/ from \in After(3) /\ to = "registration"
           \/ from \in After(4) /\ to = "initialization",
           \/ Exchanges(r, from, to, Report(to, TRUE))
           \/ Exchanges(r, from, to, Report(to, FALSE))
           \/ ExchangesError(r, from, to)
    PROVE  Kind(r)
<1>1. /\ Report(to, TRUE) \in Status /\ Report(to, TRUE).stage = to
      /\ Report(to, FALSE) \in Status /\ Report(to, FALSE).stage = to
    BY DEF Report, Status
<1>2. CASE Exchanges(r, from, to, Report(to, TRUE))
    BY <1>1, <1>2, ExchangeBegins DEF Exchanges, Kind
<1>3. CASE Exchanges(r, from, to, Report(to, FALSE))
    BY <1>1, <1>3, ExchangeBegins DEF Exchanges, Kind
<1>4. CASE ExchangesError(r, from, to)
    BY <1>1, <1>4, ExchangeBegins DEF ExchangesError, Kind
<1>5. QED
    BY <1>2, <1>3, <1>4

\* A report of what failed between two stages.
LEMMA ReportsFailure ==
    ASSUME NEW r \in Rank, NEW from \in {"start", "error"},
           \/ Exchanges(r, from, "initialization", Report("initialization", FALSE))
           \/ ExchangesError(r, from, "initialization")
    PROVE  Kind(r)
<1>1. /\ Report("initialization", FALSE) \in Status
      /\ Report("initialization", FALSE).stage = "initialization"
      /\ ~Report("initialization", FALSE).ok
    BY DEF Report, Status
<1>2. QED
    BY <1>1 DEF Exchanges, ExchangesError, Goto, Kind, Reports

\* Every step of a rank is of one of the kinds.
LEMMA StepKinds ==
    ASSUME NEW r \in Rank, RankStep(r) \/ NextModel(r) \/ RankFails(r)
    PROVE  Kind(r)
<1>1. CASE step[r] # "dead" /\ (ExchangeStep(r) \/ Disconnected(r)) /\ UNCHANGED localVars
    BY <1>1 DEF Kind, Operates, localVars
<1>2. CASE Preflight(r)
    BY <1>2, ExchangesBegins, AfterSets DEF Preflight
<1>3. CASE PreflightFails(r)
    BY <1>3, ExchangesBegins, ReportsFailure, AfterSets DEF PreflightFails
<1>4. CASE Preflighted(r)
    BY <1>4, StageNames, AfterSets DEF Preflighted, Goto, Kind, Advances, Steps
<1>5. CASE Discover(r)
    <2>1. CASE Exchanges(r, "discover", "discovery", Report("discovery", TRUE))
        BY <2>1, ExchangesBegins, AfterSets
    <2>2. CASE /\ Goto(r, "discover", "discovery")
               /\ Enter(r, [Report("discovery", TRUE) EXCEPT !.data = "other"])
        <3>1. /\ [Report("discovery", TRUE) EXCEPT !.data = "other"] \in Status
              /\ [Report("discovery", TRUE) EXCEPT !.data = "other"].stage = "discovery"
            BY DEF Report, Status
        <3>2. Begins(r)
            BY <2>2, <3>1, ExchangeBegins, AfterSets
        <3>3. QED
            BY <3>2 DEF Kind
    <2>3. QED
        BY <1>5, <2>1, <2>2 DEF Discover
<1>6. CASE DiscoverFails(r)
    BY <1>6, ExchangesBegins, AfterSets DEF DiscoverFails
<1>7. CASE Discovered(r)
    <2>1. Leave(r, "returned")
        BY <1>7 DEF Discovered
    <2>2. CASE Goto(r, "discovery", "make")
        BY <2>1, <2>2, StageNames, AfterSets DEF Goto, Kind, Advances, Steps
    <2>3. CASE Goto(r, "discovery", "error")
        BY <2>1, <2>3, StageNames, AfterSets DEF Goto, Kind, Advances, Steps
    <2>4. QED
        BY <1>7, <2>2, <2>3 DEF Discovered
<1>8. CASE Allocate(r) \/ Map(r) \/ Mark(r) \/ Populate(r) \/ Stat(r) \/ Shmat(r)
    BY <1>8, StageNames, AfterSets
    DEF Allocate, Map, Mark, Populate, Stat, Shmat, Goto, exchangeVars, Kind, Works, Steps
<1>9. CASE Publish(r) \/ Follow(r)
    BY <1>9, ExchangesBegins, AfterSets DEF Publish, Follow
<1>10. CASE CreateFails(r)
    BY <1>10, ExchangesBegins, AfterSets DEF CreateFails
<1>11. CASE Populated(r) \/ Attached(r)
    BY <1>11, StageNames, AfterSets DEF Populated, Attached, Goto, Kind, Advances, Steps
<1>12. CASE AttachOwn(r) \/ Register(r)
    BY <1>12, ExchangesBegins, AfterSets DEF AttachOwn, Register
<1>13. CASE SegmentIsGone(r) \/ AttachFails(r)
    BY <1>13, ExchangesBegins, AfterSets DEF SegmentIsGone, AttachFails
<1>14. CASE Bind(r)
    BY <1>14, ExchangesBegins, AfterSets DEF Bind
<1>15. CASE StageFailed(r) \/ Failed(r)
    BY <1>15 DEF StageFailed, Failed, Goto, Kind, GivesUp
<1>16. CASE ReportError(r)
    BY <1>16, ReportsFailure DEF ReportError
<1>17. CASE Ready(r)
    BY <1>17 DEF Ready, Kind, Completes
<1>18. CASE NextModel(r)
    BY <1>18, StageNames, AfterSets DEF NextModel, exchangeVars, Kind, Works, Steps
<1>19. CASE Dies(r)
    BY <1>19 DEF Dies, Kind, Ends
<1>20. QED
    BY <1>1, <1>2, <1>3, <1>4, <1>5, <1>6, <1>7, <1>8, <1>9, <1>10, <1>11, <1>12, <1>13,
       <1>14, <1>15, <1>16, <1>17, <1>18, <1>19
    DEF RankStep, RankFails

(***************************************************************************)
(* Type correctness.                                                       *)
(***************************************************************************)

\* The peer that is looked for next is one of those left to look for.
LEMMA NextPeerIsLeft ==
    ASSUME NEW r \in Rank, looking[r] \subseteq Rank, looking[r] # {}
    PROVE  NextPeer(r) \in looking[r]
<1>1. looking[r] \subseteq Nat
    BY ExchangeAssumption DEF Rank
<1>2. PICK p \in looking[r] : \A q \in looking[r] : ~(<<q, p>> \in OpToRel(<, Nat))
    BY <1>1, NatLessThanWellFounded, WFMin
<1>3. \A q \in looking[r] : ~(q < p)
    BY <1>1, <1>2, Zenon DEF OpToRel
<1>4. \A q \in looking[r] : p <= q
    BY <1>1, <1>3
<1>5. QED
    BY <1>4 DEF NextPeer

\* What a status that is found leads to.
LEMMA LookFoundLeads ==
    ASSUME NEW r \in Rank, LookFound(r)
    PROVE  \/ /\ posted[NextPeer(r)][sequence[r] - 1].ok
              /\ posted[NextPeer(r)][sequence[r] - 1].stage = status[r].stage
              /\ Looked(r, NextPeer(r), pending[r] \ {NextPeer(r)})
           \/ Aborts(r, "look", [rank |-> NextPeer(r), why |-> "failed"])
           \/ Aborts(r, "look", [rank |-> r, why |-> "mismatch"])
<1> DEFINE s == posted[NextPeer(r)][Number(r)]
<1>1. CASE s.stage = status[r].stage
    BY <1>1 DEF LookFound, Acceptable, Number
<1>2. CASE s.stage # status[r].stage
    BY <1>2 DEF LookFound, Acceptable, Number
<1>3. QED
    BY <1>1, <1>2

\* The exchange's variables keep their types.
LEMMA ExchangeTypeKept ==
    ASSUME ArenaTypeOK, WaitInv, NEW r \in Rank, Kind(r), faults' \in 0..MaxFaults
    PROVE  ExchangeTypeOK'
<1> USE ExchangeAssumption DEF ArenaTypeOK, ExchangeTypeOK
<1>1. ASSUME NEW s \in Status, Enter(r, s)
      PROVE  ExchangeTypeOK'
    BY <1>1 DEF Enter, storeVars
<1>2. ASSUME NEW how \in {"returned", "raised"}, Leave(r, how)
      PROVE  ExchangeTypeOK'
    BY <1>2 DEF Leave, storeVars, NoStatus, NoMessage, Status, Message
<1>3. CASE UNCHANGED <<storeVars, callVars>>
    BY <1>3 DEF storeVars, callVars
<1>4. ASSUME NEW m \in Message, NEW from, Aborts(r, from, m)
      PROVE  ExchangeTypeOK'
    BY <1>4 DEF Aborts, Moves, storeVars
<1>5. \A p \in 0..World, why \in {"failed", "mismatch", "timeout", "lost"} :
        [rank |-> p, why |-> why] \in Message
    BY DEF Message
<1>6. Rank \subseteq 0..World
    BY DEF Rank
<1>7. ASSUME NEW p, NEW left \in SUBSET Rank, Looked(r, p, left)
      PROVE  ExchangeTypeOK'
    BY <1>7 DEF Looked, Moves, storeVars
<1>8. CASE Operates(r)
    <2>1. CASE Post(r)
        BY <2>1, <1>5, <1>6 DEF Post, Moves
    <2>2. CASE Abort(r)
        BY <2>2 DEF Abort, Moves
    <2>3. CASE Check(r)
        BY <2>3 DEF Check, Moves, storeVars
    <2>4. CASE LookMissing(r)
        BY <2>4, <1>7 DEF LookMissing
    <2>5. CASE LookFound(r)
        <3>1. NextPeer(r) \in Rank
            BY <2>5, NextPeerIsLeft DEF WaitInv, LookFound
        <3>2. /\ [rank |-> NextPeer(r), why |-> "failed"] \in Message
              /\ [rank |-> r, why |-> "mismatch"] \in Message
            BY <3>1, <1>5, <1>6
        <3>3. pending[r] \ {NextPeer(r)} \in SUBSET Rank
            OBVIOUS
        <3>4. QED
            BY <2>5, <3>2, <3>3, <1>4, <1>7, LookFoundLeads
    <2>6. CASE Sleep(r)
        BY <2>6 DEF Sleep, Moves, storeVars
    <2>7. CASE TimedOut(r)
        <3>1. [rank |-> r, why |-> "timeout"] \in Message
            BY <1>5, <1>6
        <3>2. QED
            BY <2>7, <3>1, <1>4 DEF TimedOut
    <2>8. CASE Disconnected(r)
        <3>1. [rank |-> r, why |-> "lost"] \in Message
            BY <1>5, <1>6
        <3>2. /\ at' = [at EXCEPT ![r] = "abort"] \/ at' = [at EXCEPT ![r] = "raised"]
              /\ \/ message' = message
                 \/ message' = [message EXCEPT ![r] = [rank |-> r, why |-> "lost"]]
              /\ \/ cause' = cause
                 \/ cause' = [cause EXCEPT ![r] = [rank |-> r, why |-> "lost"]]
              /\ UNCHANGED <<storeVars, sequence, status, pending, looking>>
            BY <2>8 DEF Disconnected
        <3>3. /\ message' \in [Rank -> Message]
              /\ cause' \in [Rank -> Message]
            <4>1. ASSUME NEW m \in Message
                  PROVE  /\ [message EXCEPT ![r] = m] \in [Rank -> Message]
                         /\ [cause EXCEPT ![r] = m] \in [Rank -> Message]
                OBVIOUS
            <4>2. QED
                BY <3>1, <3>2, <4>1
        <3>4. at' \in [Rank -> {"out", "post", "check", "look", "again", "abort", "returned",
                                "raised"}]
            BY <3>2
        <3>5. QED
            BY <3>2, <3>3, <3>4 DEF storeVars
    <2>9. QED
        BY <1>8, <2>1, <2>2, <2>3, <2>4, <2>5, <2>6, <2>7, <2>8 DEF Operates, ExchangeStep
<1>9. CASE Begins(r) \/ Reports(r)
    BY <1>1, <1>9 DEF Begins, Reports
<1>10. CASE Advances(r) \/ Completes(r) \/ GivesUp(r)
    BY <1>2, <1>10 DEF Advances, Completes, GivesUp
<1>11. CASE Works(r) \/ Ends(r)
    BY <1>3, <1>11 DEF Works, Ends
<1>12. QED
    BY <1>8, <1>9, <1>10, <1>11 DEF Kind

\* What the kernel does to a segment keeps its type.
LEMMA SegmentOperations ==
    ASSUME NEW s \in Segment, NEW r \in Rank
    PROVE  Detached(s, r) \in Segment /\ Closed(s, r) \in Segment /\ NoSegment \in Segment
<1>1. ASSUME NEW t \in Segment
      PROVE  Settled(t) \in Segment
    BY DEF Settled, NoSegment, Segment
<1>2. /\ [s EXCEPT !.users = @ \ {r}] \in Segment
      /\ [s EXCEPT !.marked = TRUE, !.users = @ \ {r}] \in Segment
    BY DEF Segment
<1>3. Detached(s, r) \in Segment
    BY <1>1, <1>2 DEF Detached
<1>4. QED
    BY <1>1, <1>2, <1>3 DEF Closed, NoSegment, Segment

\* A segment that is set to a segment leaves the segments typed.
LEMMA SetMineType ==
    ASSUME ArenaTypeOK, NEW r \in Rank, NEW s \in Segment, SetMine(r, s)
    PROVE  segment' \in [Model -> [Rank -> Segment]]
    BY ArenaAssumption DEF ArenaTypeOK, SetMine

\* A rank's segment of the model it is at has the type of segments.
LEMMA MineType ==
    ASSUME ArenaTypeOK, NEW r \in Rank
    PROVE  Mine(r) \in Segment
    BY ArenaAssumption DEF ArenaTypeOK, Mine

\* The other variables keep theirs.
LEMMA SegmentTypeKept ==
    ASSUME ArenaTypeOK, NEW r \in Rank, RankStep(r) \/ NextModel(r) \/ RankFails(r)
    PROVE  segment' \in [Model -> [Rank -> Segment]]
<1>1. CASE UNCHANGED segment
    BY <1>1 DEF ArenaTypeOK
<1>2. CASE SetMine(r, Closed(Mine(r), r)) \/ SetMine(r, Detached(Mine(r), r))
    BY <1>2, MineType, SetMineType, SegmentOperations
<1>3. CASE SetMine(r, [NoSegment EXCEPT !.exists = TRUE])
    <2>1. [NoSegment EXCEPT !.exists = TRUE] \in Segment
        BY DEF NoSegment, Segment
    <2>2. QED
        BY <1>3, <2>1, SetMineType
<1>4. CASE Map(r) \/ Mark(r) \/ Populate(r) \/ Shmat(r)
    <2>1. /\ [Mine(r) EXCEPT !.users = {r}] \in Segment
          /\ [Mine(r) EXCEPT !.marked = TRUE] \in Segment
          /\ [Mine(r) EXCEPT !.full = TRUE] \in Segment
          /\ [Mine(r) EXCEPT !.users = @ \cup {r}] \in Segment
        BY MineType DEF Segment
    <2>2. QED
        BY <1>4, <2>1, SetMineType DEF Map, Mark, Populate, Shmat
<1>5. CASE segment' = [m \in Model |-> [l \in Rank |-> Detached(segment[m][l], r)]]
    <2>1. \A m \in Model, l \in Rank : Detached(segment[m][l], r) \in Segment
        BY SegmentOperations DEF ArenaTypeOK
    <2>2. QED
        BY <1>5, <2>1
<1>6. QED
    BY <1>1, <1>2, <1>3, <1>4, <1>5
    DEF RankStep, RankFails, NextModel, localVars, Preflight, Preflighted, PreflightFails,
        Discover, Discovered, DiscoverFails, Allocate, Publish, Follow, Populated, CreateFails,
        AttachOwn, Stat, SegmentIsGone, Register, Attached, AttachFails, Bind, StageFailed,
        ReportError, Ready, Failed, Dies

\* So do the ranks' steps, models and the count of faults.
LEMMA OthersTypeKept ==
    ASSUME ArenaTypeOK, NEW r \in Rank, RankStep(r) \/ NextModel(r) \/ RankFails(r)
    PROVE  /\ faults' \in 0..MaxFaults
           /\ model' \in [Rank -> Model]
           /\ step' \in [Rank -> Steps]
           /\ loaded' \in [Rank -> SUBSET Model]
<1>1. Kind(r)
    BY StepKinds
<1>2. /\ step' \in [Rank -> Steps]
      /\ loaded' \in [Rank -> SUBSET Model]
    <2>1. \A k \in 0..4 : Stages[k + 1] \in Steps
        BY StageNames DEF Steps
    <2>2. QED
        <3>1. ASSUME NEW to \in Steps, step' = [step EXCEPT ![r] = to]
              PROVE  step' \in [Rank -> Steps]
            BY <3>1 DEF ArenaTypeOK
        <3>2. step' \in [Rank -> Steps]
            <4>1. {"error", "failed", "dead", "ready", "initialization"} \subseteq Steps
                BY DEF Steps
            <4>2. CASE Begins(r)
                BY <2>1, <3>1, <4>2 DEF Begins
            <4>3. CASE Advances(r) \/ Works(r)
                BY <3>1, <4>3 DEF Advances, Works
            <4>4. CASE Reports(r) \/ Completes(r) \/ GivesUp(r) \/ Ends(r)
                BY <3>1, <4>1, <4>4 DEF Reports, Completes, GivesUp, Ends
            <4>5. QED
                BY <1>1, <4>2, <4>3, <4>4 DEF Kind, Operates, ArenaTypeOK
        <3>3. CASE Completes(r)
            BY <3>2, <3>3 DEF Completes, ArenaTypeOK
        <3>4. CASE UNCHANGED loaded
            BY <3>2, <3>4 DEF ArenaTypeOK
        <3>5. QED
            BY <1>1, <3>3, <3>4
            DEF Kind, Begins, Reports, Advances, GivesUp, Works, Ends, Operates
<1>3. model' \in [Rank -> Model]
    <2>1. CASE NextModel(r)
        BY <2>1, ArenaAssumption DEF NextModel, ArenaTypeOK, Model
    <2>2. CASE UNCHANGED model
        BY <2>2 DEF ArenaTypeOK
    <2>3. QED
        BY <2>1, <2>2
        DEF RankStep, RankFails, localVars, Preflight, Preflighted, PreflightFails, Discover,
            Discovered, DiscoverFails, Allocate, Map, Mark, Populate, Publish, Follow, Populated,
            CreateFails, AttachOwn, Stat, Shmat, SegmentIsGone, Register, Attached, AttachFails,
            Bind, StageFailed, ReportError, Ready, Failed, Dies, Exchanges, ExchangesError, Goto
<1>4. faults' \in 0..MaxFaults
    <2>1. CASE UNCHANGED faults
        BY <2>1 DEF ArenaTypeOK, ExchangeTypeOK
    <2>2. CASE faults < MaxFaults /\ faults' = faults + 1
        BY <2>2, ExchangeAssumption DEF ArenaTypeOK, ExchangeTypeOK
    <2>3. CASE ExchangeStep(r)
        BY <2>1, <2>3
        DEF ExchangeStep, Post, Abort, Check, LookMissing, LookFound, Looked, Sleep, TimedOut,
            Aborts, Moves
    <2>4. CASE Disconnected(r)
        BY <2>2, <2>4 DEF Disconnected
    <2>5. CASE CreateFails(r) \/ AttachFails(r) \/ PreflightFails(r) \/ DiscoverFails(r) \/ Dies(r)
        BY <2>2, <2>5
        DEF CreateFails, AttachFails, PreflightFails, DiscoverFails, Dies, ExchangesError, Fault
    <2>6. CASE Discover(r) \/ Bind(r)
        BY <2>1, <2>2, <2>6 DEF Discover, Bind, Exchanges, ExchangesError, Fault
    <2>7. QED
        BY <2>1, <2>3, <2>4, <2>5, <2>6
        DEF RankStep, RankFails, NextModel, exchangeVars, Preflight, Preflighted, Discovered,
            Allocate, Map, Mark, Populate, Publish, Follow, Populated, AttachOwn, Stat, Shmat,
            SegmentIsGone, Register, Attached, StageFailed, ReportError, Ready, Failed, Exchanges
<1>5. QED
    BY <1>2, <1>3, <1>4

\* All variables keep their types.
LEMMA TypeKept ==
    ASSUME ArenaTypeOK, WaitInv, NEW r \in Rank, RankStep(r) \/ NextModel(r) \/ RankFails(r)
    PROVE  ArenaTypeOK'
<1>1. ExchangeTypeOK'
    BY StepKinds, ExchangeTypeKept, OthersTypeKept
<1>2. QED
    BY <1>1, OthersTypeKept, SegmentTypeKept DEF ArenaTypeOK

(***************************************************************************)
(* The parts of the invariant.                                             *)
(***************************************************************************)

\* A step keeps CallInv: only a rank in exchange is waiting for one, and its step
\* names the stage.
LEMMA CallKept ==
    ASSUME Inv, NEW r \in Rank, Kind(r)
    PROVE  CallInv'
<1> USE ExchangeAssumption DEF Inv, ArenaTypeOK, ExchangeTypeOK, CallInv
<1> DEFINE Kept(q) == /\ sequence'[q] > 0
                      /\ step'[q] # "dead" => step'[q] \in InExchange /\ status'[q].stage = step'[q]
<1> SUFFICES ASSUME NEW q \in Rank, at'[q] # "out"
             PROVE  Kept(q)
    BY DEF CallInv
<1>1. ASSUME NEW s \in Status, NEW to \in InExchange, s.stage = to,
             step' = [step EXCEPT ![r] = to], Enter(r, s)
      PROVE  Kept(q)
    BY <1>1 DEF Enter
<1>2. CASE Begins(r)
    <2>1. \A k \in 0..4 : Stages[k + 1] \in InExchange
        BY StageNames DEF InExchange
    <2>2. QED
        BY <1>1, <1>2, <2>1 DEF Begins
<1>3. CASE Reports(r)
    BY <1>1, <1>3 DEF Reports, InExchange
<1>4. ASSUME NEW how, NEW to, step' = [step EXCEPT ![r] = to], Leave(r, how)
      PROVE  Kept(q)
    BY <1>4 DEF Leave
<1>5. CASE Advances(r) \/ Completes(r) \/ GivesUp(r)
    BY <1>4, <1>5 DEF Advances, Completes, GivesUp
<1>6. CASE Works(r)
    <2>1. step[r] \notin InExchange /\ step[r] # "dead"
        BY <1>6, StageNames, AfterSets DEF Works, InExchange
    <2>2. at[r] = "out"
        BY <2>1
    <2>3. QED
        BY <1>6, <2>2 DEF Works, callVars
<1>7. CASE Ends(r)
    BY <1>7 DEF Ends, callVars
<1>8. CASE Operates(r)
    <2>1. UNCHANGED <<step, status, sequence>> /\ \A p \in Rank : at'[p] # "out" => at[p] # "out"
        <3>1. ASSUME NEW from \in {"post", "check", "look", "again", "abort"}, NEW to, Moves(r, from, to)
              PROVE  UNCHANGED <<status, sequence>> /\ \A p \in Rank : at'[p] # "out" => at[p] # "out"
            BY <3>1 DEF Moves
        <3>2. CASE Disconnected(r)
            BY <1>8, <3>2 DEF Disconnected, Operates
        <3>3. CASE ExchangeStep(r)
            BY <1>8, <3>1, <3>3
            DEF ExchangeStep, Post, Abort, Check, LookMissing, LookFound, Looked, Sleep,
                TimedOut, Aborts, Operates
        <3>4. QED
            BY <1>8, <3>2, <3>3 DEF Operates
    <2>2. QED
        BY <2>1
<1>9. QED
    BY <1>2, <1>3, <1>5, <1>6, <1>7, <1>8 DEF Kind

\* What a step does to the Store: a status is posted under a number where there
\* was none, or none is.
LEMMA PostsOnce ==
    ASSUME Inv, NEW r \in Rank, Kind(r)
    PROVE  \/ UNCHANGED posted
           \/ /\ Operates(r) /\ Post(r)
              /\ sequence[r] - 1 \in Exchange
              /\ posted[r][sequence[r] - 1] = NoStatus
              /\ posted' = [posted EXCEPT ![r][sequence[r] - 1] = status[r]]
<1>1. CASE Begins(r) \/ Reports(r) \/ Advances(r) \/ Completes(r) \/ GivesUp(r) \/ Works(r) \/ Ends(r)
    BY <1>1 DEF Begins, Reports, Advances, Completes, GivesUp, Works, Ends, Enter, Leave, storeVars
<1>2. CASE Operates(r) /\ Post(r)
    <2>1. sequence[r] > 0 /\ sequence[r] \in 0..MaxExchanges
        BY <1>2 DEF Inv, CallInv, ArenaTypeOK, ExchangeTypeOK, Operates, Post, Moves
    <2>2. sequence[r] - 1 \in Exchange
        BY <2>1, ExchangeAssumption DEF Exchange
    <2>3. QED
        BY <1>2, <2>2 DEF Inv, PostedInv, Post, Moves, Number
<1>3. CASE Operates(r) /\ ~Post(r)
    BY <1>3
    DEF Operates, ExchangeStep, Abort, Check, LookMissing, LookFound, Looked, Sleep, TimedOut,
        Aborts, Disconnected, storeVars
<1>4. QED
    BY <1>1, <1>2, <1>3 DEF Kind

\* So what was reported stays.
LEMMA ReportedStays ==
    ASSUME Inv, NEW r \in Rank, Kind(r), NEW p \in Rank, NEW n \in Exchange, posted[p][n].ok
    PROVE  posted'[p][n] = posted[p][n]
<1>1. CASE UNCHANGED posted
    BY <1>1
<1>2. CASE /\ posted[r][sequence[r] - 1] = NoStatus
           /\ posted' = [posted EXCEPT ![r][sequence[r] - 1] = status[r]]
    <2>1. ~(p = r /\ n = sequence[r] - 1)
        BY <1>2 DEF NoStatus
    <2>2. QED
        BY <1>2, <2>1 DEF Inv, ArenaTypeOK, ExchangeTypeOK
<1>3. QED
    BY <1>1, <1>2, PostsOnce

\* And what all ranks have agreed on stays agreed.
LEMMA AgreementStays ==
    ASSUME Inv, NEW r \in Rank, Kind(r), NEW n, NEW k \in 0..5, AgreedFrom(n, k)
    PROVE  AgreedFrom(n, k)'
    BY ReportedStays DEF AgreedFrom, Agreed

\* A step keeps PostedInv: the number of a call is posted once, after it began.
LEMMA PostedKept ==
    ASSUME Inv, NEW r \in Rank, Kind(r)
    PROVE  PostedInv'
<1> USE ExchangeAssumption DEF Inv, ArenaTypeOK, ExchangeTypeOK, PostedInv
<1> SUFFICES ASSUME NEW q \in Rank, NEW n \in Exchange,
                    n >= sequence'[q] \/ (n = sequence'[q] - 1 /\ at'[q] = "post")
             PROVE  posted'[q][n] = NoStatus
    BY DEF PostedInv
<1> n \in Nat
    BY DEF Exchange
<1>1. CASE Begins(r) \/ Reports(r)
    <2>1. PICK s \in Status : Enter(r, s)
        BY <1>1 DEF Begins, Reports
    <2>2. /\ posted' = posted
          /\ sequence' = [sequence EXCEPT ![r] = @ + 1]
          /\ at' = [at EXCEPT ![r] = "post"]
        BY <2>1 DEF Enter, storeVars
    <2>3. QED
        BY <2>2
<1>2. CASE Advances(r) \/ Completes(r) \/ GivesUp(r)
    BY <1>2 DEF Advances, Completes, GivesUp, Leave, storeVars
<1>3. CASE Works(r) \/ Ends(r)
    BY <1>3 DEF Works, Ends, callVars, storeVars
<1>4. CASE Operates(r)
    <2>1. UNCHANGED sequence /\ at'[r] # "post" /\ \A p \in Rank \ {r} : at'[p] = at[p]
        <3>1. ASSUME NEW from, NEW to \in {"check", "abort", "raised", "look", "returned", "again"},
                     Moves(r, from, to)
              PROVE  UNCHANGED sequence /\ at'[r] # "post" /\ \A p \in Rank \ {r} : at'[p] = at[p]
            BY <3>1 DEF Moves
        <3>2. CASE Disconnected(r)
            BY <3>2 DEF Disconnected
        <3>3. CASE ExchangeStep(r)
            BY <3>1, <3>3
            DEF ExchangeStep, Post, Abort, Check, LookMissing, LookFound, Looked, Sleep,
                TimedOut, Aborts
        <3>4. QED
            BY <1>4, <3>2, <3>3 DEF Operates
    <2>2. CASE UNCHANGED posted
        BY <2>1, <2>2
    <2>3. CASE posted' = [posted EXCEPT ![r][sequence[r] - 1] = status[r]]
        BY <2>1, <2>3
    <2>4. QED
        BY <2>2, <2>3, PostsOnce
<1>5. QED
    BY <1>1, <1>2, <1>3, <1>4 DEF Kind

\* What an operation of rank r leaves alone.
LEMMA OperationLocal ==
    ASSUME Inv, NEW r \in Rank, Operates(r)
    PROVE  /\ UNCHANGED <<step, status, sequence, loaded>>
           /\ \A q \in Rank \ {r} :
                /\ at'[q] = at[q] /\ pending'[q] = pending[q] /\ looking'[q] = looking[q]
                /\ message'[q] = message[q] /\ cause'[q] = cause[q]
<1> USE DEF Inv, ArenaTypeOK, ExchangeTypeOK
<1>1. CASE Disconnected(r)
    BY <1>1 DEF Operates, Disconnected
<1>2. CASE ExchangeStep(r)
    BY <1>2
    DEF Operates, ExchangeStep, Post, Abort, Check, LookMissing, LookFound, Looked, Sleep,
        TimedOut, Aborts, Moves
<1>3. QED
    BY <1>1, <1>2 DEF Operates

\* A step keeps WaitInv: who is no longer waited for has succeeded.
LEMMA WaitKept ==
    ASSUME Inv, NEW r \in Rank, Kind(r)
    PROVE  WaitInv'
<1> USE DEF Inv, ArenaTypeOK, ExchangeTypeOK
<1> DEFINE Kept(q) ==
        /\ at[q] = "look" => looking[q] # {}
        /\ at[q] \in {"check", "again"} => pending[q] # {}
        /\ at[q] = "post" => pending[q] = Rank
        /\ at[q] \in Waiting => status[q].ok
        /\ at[q] = "returned" => pending[q] = {}
        /\ at[q] \in Waiting => \A p \in Rank \ pending[q] :
            posted[p][sequence[q] - 1].ok /\ posted[p][sequence[q] - 1].stage = status[q].stage
<1>1. \A q \in Rank : Kept(q)
    BY DEF WaitInv
<1>2. ASSUME NEW q \in Rank, at'[q] = at[q], pending'[q] = pending[q], looking'[q] = looking[q],
             status'[q] = status[q], sequence'[q] = sequence[q]
      PROVE  Kept(q)'
    <2>1. CASE at[q] \in Waiting
        <3>1. sequence[q] - 1 \in Exchange
            <4>1. sequence[q] > 0
                BY <2>1 DEF CallInv, Waiting
            <4>2. QED
                BY <4>1, ExchangeAssumption DEF Exchange
        <3>2. \A p \in Rank \ pending[q] : posted'[p][sequence[q] - 1] = posted[p][sequence[q] - 1]
            BY <1>1, <2>1, <3>1, ReportedStays
        <3>3. QED
            BY <1>1, <1>2, <3>2
    <2>2. CASE at[q] \notin Waiting
        BY <1>1, <1>2, <2>2
    <2>3. QED
        BY <2>1, <2>2
<1>3. CASE Begins(r) \/ Reports(r)
    <2>1. PICK s \in Status : Enter(r, s)
        BY <1>3 DEF Begins, Reports
    <2>2. \A q \in Rank \ {r} : Kept(q)'
        BY <1>2, <2>1 DEF Enter
    <2>3. at'[r] = "post" /\ pending'[r] = Rank
        BY <2>1 DEF Enter
    <2>4. Kept(r)'
        BY <2>3 DEF Waiting
    <2>5. QED
        BY <2>2, <2>4 DEF WaitInv
<1>4. CASE Advances(r) \/ Completes(r) \/ GivesUp(r)
    <2>1. PICK how \in {"returned", "raised"} : Leave(r, how)
        BY <1>4 DEF Advances, Completes, GivesUp
    <2>2. \A q \in Rank \ {r} : Kept(q)'
        BY <1>2, <2>1 DEF Leave
    <2>3. at'[r] = "out"
        BY <2>1 DEF Leave
    <2>4. Kept(r)'
        BY <2>3 DEF Waiting
    <2>5. QED
        BY <2>2, <2>4 DEF WaitInv
<1>5. CASE Works(r) \/ Ends(r)
    <2>1. UNCHANGED callVars
        BY <1>5 DEF Works, Ends
    <2>2. \A q \in Rank : Kept(q)'
        BY <1>2, <2>1 DEF callVars
    <2>3. QED
        BY <2>2 DEF WaitInv
<1>6. CASE Operates(r)
    <2> DEFINE n == sequence[r] - 1
    <2>1. \A q \in Rank \ {r} : Kept(q)'
        BY <1>2, <1>6, OperationLocal
    <2>2. /\ sequence'[r] = sequence[r] /\ status'[r] = status[r]
        BY <1>6, OperationLocal
    <2>3. at[r] # "out" => n \in Exchange
        BY ExchangeAssumption DEF CallInv, Exchange
    <2>4. ASSUME at[r] # "out", \A p \in Rank \ pending'[r] :
                    posted[p][n].ok /\ posted[p][n].stage = status[r].stage
          PROVE  \A p \in Rank \ pending'[r] :
                    posted'[p][n].ok /\ posted'[p][n].stage = status[r].stage
        BY <2>3, <2>4, ReportedStays
    <2>5. Kept(r)'
        <3>1. CASE Post(r)
            <4>1. /\ at'[r] = IF status[r].ok THEN "check" ELSE "abort"
                  /\ pending'[r] = Rank
                BY <1>1, <3>1 DEF Post, Moves
            <4>2. Rank # {}
                BY DEF Rank
            <4>3. QED
                BY <2>2, <4>1, <4>2 DEF Waiting
        <3>2. CASE Abort(r) \/ Disconnected(r)
            <4>1. at'[r] \in {"abort", "raised"}
                BY <3>2 DEF Abort, Moves, Disconnected
            <4>2. QED
                BY <4>1 DEF Waiting
        <3>3. CASE Check(r)
            <4>1. at[r] = "check" /\ at'[r] \in {"look", "raised"} /\ pending'[r] = pending[r]
                  /\ (at'[r] = "look" => looking'[r] = pending[r])
                BY <3>3 DEF Check, Moves
            <4>2. \A p \in Rank \ pending'[r] :
                    posted'[p][n].ok /\ posted'[p][n].stage = status[r].stage
                BY <1>1, <2>4, <4>1 DEF Waiting
            <4>3. QED
                BY <1>1, <2>2, <4>1, <4>2 DEF Waiting
        <3>4. ASSUME NEW p, NEW left \in SUBSET Rank, Looked(r, p, left),
                     \A o \in Rank \ left : posted[o][n].ok /\ posted[o][n].stage = status[r].stage
              PROVE  Kept(r)'
            <4>1. /\ at[r] = "look" /\ pending'[r] = left /\ looking'[r] = looking[r] \ {p}
                  /\ at'[r] = IF looking[r] # {p} THEN "look"
                              ELSE IF left = {} THEN "returned" ELSE "again"
                BY <3>4 DEF Looked, Moves
            <4>2. \A o \in Rank \ pending'[r] :
                    posted'[o][n].ok /\ posted'[o][n].stage = status[r].stage
                BY <2>4, <3>4, <4>1
            <4>3. at'[r] = "look" => looking'[r] # {}
                BY <1>1, <4>1
            <4>4. status[r].ok
                BY <1>1, <4>1 DEF Waiting
            <4>5. QED
                BY <2>2, <4>1, <4>2, <4>3, <4>4 DEF Waiting
        <3>5. CASE LookMissing(r)
            <4>1. Looked(r, NextPeer(r), pending[r]) /\ at[r] \in Waiting
                BY <3>5 DEF LookMissing, Waiting
            <4>2. QED
                BY <1>1, <3>4, <4>1
        <3>6. CASE LookFound(r)
            <4>1. at[r] \in Waiting
                BY <3>6 DEF LookFound, Waiting
            <4>2. ASSUME NEW m, Aborts(r, "look", m)
                  PROVE  Kept(r)'
                <5>1. at'[r] = "abort"
                    BY <4>2 DEF Aborts, Moves
                <5>2. QED
                    BY <5>1 DEF Waiting
            <4>3. CASE /\ posted[NextPeer(r)][n].ok
                       /\ posted[NextPeer(r)][n].stage = status[r].stage
                       /\ Looked(r, NextPeer(r), pending[r] \ {NextPeer(r)})
                <5>1. \A o \in Rank \ (pending[r] \ {NextPeer(r)}) :
                        posted[o][n].ok /\ posted[o][n].stage = status[r].stage
                    BY <1>1, <4>1, <4>3
                <5>2. pending[r] \ {NextPeer(r)} \in SUBSET Rank
                    OBVIOUS
                <5>3. QED
                    BY <3>4, <4>3, <5>1, <5>2
            <4>4. QED
                BY <3>6, <4>2, <4>3, LookFoundLeads
        <3>7. CASE Sleep(r)
            <4>1. at[r] = "again" /\ at'[r] = "check" /\ pending'[r] = pending[r]
                BY <3>7 DEF Sleep, Moves
            <4>2. \A p \in Rank \ pending'[r] :
                    posted'[p][n].ok /\ posted'[p][n].stage = status[r].stage
                BY <1>1, <2>4, <4>1 DEF Waiting
            <4>3. QED
                BY <1>1, <2>2, <4>1, <4>2 DEF Waiting
        <3>8. CASE TimedOut(r)
            <4>1. at'[r] = "abort"
                BY <3>8 DEF TimedOut, Aborts, Moves
            <4>2. QED
                BY <4>1 DEF Waiting
        <3>9. QED
            BY <1>6, <3>1, <3>2, <3>3, <3>5, <3>6, <3>7, <3>8 DEF Operates, ExchangeStep
    <2>6. QED
        BY <2>1, <2>5 DEF WaitInv
<1>7. QED
    BY <1>3, <1>4, <1>5, <1>6 DEF Kind

\* The stages are different from one another and from the steps between them,
\* of which each is at one place.
LEMMA StagesDiffer ==
    /\ \A k, l \in 0..4 : Stages[k + 1] = Stages[l + 1] => k = l
    /\ \A k, l \in 0..4 : Stages[k + 1] \notin After(l)
    /\ \A k, l \in 0..4 : \A s \in After(k) \cap After(l) : k = l
    /\ \A k \in 0..4 : "error" \notin After(k) /\ "failed" \notin After(k)
        /\ "ready" \notin After(k) /\ "dead" \notin After(k)
    /\ \A k \in 0..4 : Stages[k + 1] \in InExchange
<1>1. \A k \in 0..4 : k = 0 \/ k = 1 \/ k = 2 \/ k = 3 \/ k = 4
    OBVIOUS
<1>2. QED
    BY <1>1, StageNames, AfterSets DEF InExchange

\* Behind a rank that returns from an exchange is one more stage.
LEMMA ReturnAgrees ==
    ASSUME Inv, NEW r \in Rank, NEW k \in 0..4,
           at[r] = "returned", step[r] = Stages[k + 1]
    PROVE  AgreedFrom(sequence[r] - 1 - k, k + 1)
<1>1. AgreedFrom(sequence[r] - 1 - k, k)
    BY DEF Inv, StageInv, WaitInv, Waiting
<1>2. Agreed(sequence[r] - 1, Stages[k + 1])
    <2>1. step[r] # "dead"
        BY StagesDiffer DEF InExchange
    <2>2. sequence[r] > 0 /\ status[r].stage = Stages[k + 1]
        BY <2>1 DEF Inv, CallInv
    <2>3. sequence[r] - 1 \in Exchange
        BY <2>2, ExchangeAssumption DEF Inv, ArenaTypeOK, ExchangeTypeOK, Exchange
    <2>4. QED
        BY <2>2, <2>3 DEF Agreed, Inv, WaitInv, Waiting
<1>3. sequence[r] \in Int
    BY DEF Inv, ArenaTypeOK, ExchangeTypeOK
<1>4. SUFFICES ASSUME NEW i \in 1..k + 1
               PROVE  Agreed(sequence[r] - 1 - k + i - 1, Stages[i])
    BY DEF AgreedFrom
<1>5. CASE i \in 1..k
    BY <1>1, <1>5 DEF AgreedFrom
<1>6. CASE i = k + 1
    <2>1. sequence[r] - 1 - k + i - 1 = sequence[r] - 1
        BY <1>3, <1>6
    <2>2. QED
        BY <1>2, <1>6, <2>1
<1>7. QED
    BY <1>5, <1>6

\* A step keeps StageInv: no rank gets ahead of what all have agreed on.
LEMMA StageKept ==
    ASSUME Inv, NEW r \in Rank, Kind(r)
    PROVE  StageInv'
<1> USE DEF Inv, ArenaTypeOK, ExchangeTypeOK
<1> DEFINE Kept(q, k) ==
        /\ step[q] \in After(k) => AgreedFrom(sequence[q] - k, k)
        /\ step[q] = Stages[k + 1] /\ (k < 4 \/ status[q].ok) =>
            AgreedFrom(sequence[q] - 1 - k, k)
<1>1. \A q \in Rank, k \in 0..4 : Kept(q, k)
    BY DEF StageInv
<1>2. ASSUME NEW q \in Rank, step'[q] = step[q], status'[q] = status[q],
             sequence'[q] = sequence[q]
      PROVE  \A k \in 0..4 : Kept(q, k)'
    <2>1. \A n \in Int, l \in 0..4 : AgreedFrom(n, l) => AgreedFrom(n, l)'
        BY AgreementStays
    <2>2. QED
        BY <1>1, <1>2, <2>1
<1>3. CASE Begins(r)
    <2>1. PICK k \in 0..4, s \in Status :
            /\ step[r] \in After(k) /\ step' = [step EXCEPT ![r] = Stages[k + 1]]
            /\ Enter(r, s)
        BY <1>3 DEF Begins
    <2>2. \A q \in Rank \ {r} : \A l \in 0..4 : Kept(q, l)'
        BY <1>2, <2>1 DEF Enter
    <2>3. step'[r] = Stages[k + 1] /\ sequence'[r] = sequence[r] + 1
        BY <2>1 DEF Enter
    <2>4. PICK n \in Int : n = sequence[r] - k
        OBVIOUS
    <2>5. AgreedFrom(n, k)'
        BY <1>1, <2>1, <2>4, AgreementStays
    <2>6. sequence'[r] - 1 - k = n
        BY <2>3, <2>4
    <2>7. \A l \in 0..4 : Kept(r, l)'
        BY <2>3, <2>5, <2>6, StagesDiffer
    <2>8. QED
        BY <2>2, <2>7 DEF StageInv
<1>4. CASE Reports(r)
    <2>1. PICK s \in Status :
            /\ ~s.ok /\ step' = [step EXCEPT ![r] = "initialization"] /\ Enter(r, s)
        BY <1>4 DEF Reports
    <2>2. \A q \in Rank \ {r} : \A l \in 0..4 : Kept(q, l)'
        BY <1>2, <2>1 DEF Enter
    <2>3. step'[r] = Stages[4 + 1] /\ ~status'[r].ok
        BY <2>1, StageNames DEF Enter
    <2>4. \A l \in 0..4 : Kept(r, l)'
        BY <2>3, StagesDiffer
    <2>5. QED
        BY <2>2, <2>4 DEF StageInv
<1>5. CASE Advances(r)
    <2>1. PICK k \in 0..3, to \in Steps :
            /\ step[r] = Stages[k + 1] /\ to \in After(k + 1) \cup {"error"}
            /\ step' = [step EXCEPT ![r] = to]
            /\ Leave(r, "returned")
        BY <1>5 DEF Advances
    <2>2. \A q \in Rank \ {r} : \A l \in 0..4 : Kept(q, l)'
        BY <1>2, <2>1 DEF Leave
    <2>3. step'[r] = to /\ sequence'[r] = sequence[r] /\ at[r] = "returned"
        BY <2>1 DEF Leave
    <2>4. PICK n \in Int : n = sequence[r] - 1 - k
        OBVIOUS
    <2>5. AgreedFrom(n, k + 1)'
        <3>1. AgreedFrom(n, k + 1)
            BY <2>1, <2>3, <2>4, ReturnAgrees
        <3>2. QED
            BY <3>1, AgreementStays
    <2>6. sequence'[r] - (k + 1) = n
        BY <2>3, <2>4
    <2>7. \A l \in 0..4 : Kept(r, l)'
        <3>1. \A l \in 0..4 : step'[r] # Stages[l + 1]
            BY <2>1, <2>3, StagesDiffer DEF InExchange
        <3>2. \A l \in 0..4 : step'[r] \in After(l) => l = k + 1
            BY <2>1, <2>3, StagesDiffer
        <3>3. QED
            BY <2>5, <2>6, <3>1, <3>2
    <2>8. QED
        BY <2>2, <2>7 DEF StageInv
<1>6. ASSUME NEW to \in {"ready", "error", "failed", "dead"},
             step' = [step EXCEPT ![r] = to],
             \A q \in Rank \ {r} : status'[q] = status[q] /\ sequence'[q] = sequence[q]
      PROVE  StageInv'
    <2>1. \A q \in Rank \ {r} : \A l \in 0..4 : Kept(q, l)'
        BY <1>2, <1>6
    <2>2. \A l \in 0..4 : step'[r] # Stages[l + 1] /\ step'[r] \notin After(l)
        BY <1>6, StagesDiffer DEF InExchange
    <2>3. QED
        BY <2>1, <2>2 DEF StageInv
<1>7. CASE Completes(r) \/ GivesUp(r)
    BY <1>6, <1>7 DEF Completes, GivesUp, Leave
<1>8. CASE Ends(r)
    BY <1>6, <1>8 DEF Ends, callVars
<1>9. CASE Works(r)
    <2>1. PICK k \in 0..4, to \in Steps :
            /\ step[r] \in After(k) \/ (k = 0 /\ step[r] \in {"ready", "failed"})
            /\ to \in After(k) /\ step' = [step EXCEPT ![r] = to]
            /\ UNCHANGED callVars
        BY <1>9 DEF Works
    <2>2. \A q \in Rank \ {r} : \A l \in 0..4 : Kept(q, l)'
        BY <1>2, <2>1 DEF callVars
    <2>3. step'[r] = to /\ sequence'[r] = sequence[r]
        BY <2>1 DEF callVars
    <2>4. PICK n \in Int : n = sequence[r] - k
        OBVIOUS
    <2>5. AgreedFrom(n, k)'
        <3>1. CASE k = 0
            BY <3>1 DEF AgreedFrom
        <3>2. CASE k # 0
            BY <1>1, <2>1, <2>4, <3>2, AgreementStays
        <3>3. QED
            BY <3>1, <3>2
    <2>6. \A l \in 0..4 : Kept(r, l)'
        BY <2>1, <2>3, <2>4, <2>5, StagesDiffer
    <2>7. QED
        BY <2>2, <2>6 DEF StageInv
<1>10. CASE Operates(r)
    <2>1. \A q \in Rank, l \in 0..4 : Kept(q, l)'
        BY <1>2, <1>10, OperationLocal
    <2>2. QED
        BY <2>1 DEF StageInv
<1>11. QED
    BY <1>3, <1>4, <1>5, <1>7, <1>8, <1>9, <1>10 DEF Kind

\* A step keeps CauseInv, and the failure that is in the Store.
LEMMA CauseKept ==
    ASSUME Inv, NEW r \in Rank, Kind(r)
    PROVE  CauseInv' /\ (failure # NoMessage => failure' = failure)
<1> USE DEF Inv, ArenaTypeOK, ExchangeTypeOK, CauseInv
<1>1. CASE Begins(r) \/ Reports(r)
    <2>1. PICK s \in Status : Enter(r, s)
        BY <1>1 DEF Begins, Reports
    <2>2. /\ UNCHANGED <<failure, message, cause>>
          /\ \A q \in Rank : at'[q] = "abort" => at[q] = "abort"
        BY <2>1 DEF Enter, storeVars
    <2>3. QED
        BY <2>2
<1>2. CASE Advances(r) \/ Completes(r) \/ GivesUp(r)
    <2>1. PICK how : Leave(r, how)
        BY <1>2 DEF Advances, Completes, GivesUp
    <2>2. /\ UNCHANGED <<failure, cause>>
          /\ \A q \in Rank : at'[q] = "abort" => at[q] = "abort" /\ message'[q] = message[q]
        BY <2>1 DEF Leave, storeVars
    <2>3. QED
        BY <2>2
<1>3. CASE Works(r) \/ Ends(r)
    BY <1>3 DEF Works, Ends, callVars, storeVars
<1>4. CASE Operates(r)
    <2>1. \A q \in Rank \ {r} :
            at'[q] = at[q] /\ message'[q] = message[q] /\ cause'[q] = cause[q]
        BY <1>4, OperationLocal
    <2>2. CASE Abort(r)
        <3>1. /\ at'[r] = "raised"
              /\ failure' = IF failure = NoMessage THEN message[r] ELSE failure
              /\ cause'[r] = failure'
              /\ message[r].why # "none"
            BY <2>2 DEF Abort, Moves
        <3>2. failure' # NoMessage
            BY <3>1 DEF NoMessage
        <3>3. QED
            BY <2>1, <3>1, <3>2
    <2>3. ASSUME failure' = failure,
                 at'[r] = "abort" => message'[r].why # "none",
                 \/ cause'[r] = cause[r]
                 \/ cause'[r].why = "lost"
                 \/ cause'[r] = failure /\ failure # NoMessage
          PROVE  CauseInv' /\ (failure # NoMessage => failure' = failure)
        BY <2>1, <2>3
    <2>4. ASSUME NEW from, NEW m, Aborts(r, from, m), m.why # "none"
          PROVE  CauseInv' /\ (failure # NoMessage => failure' = failure)
        BY <2>3, <2>4 DEF Aborts, storeVars
    <2>5. CASE Post(r)
        BY <2>3, <2>5 DEF Post
    <2>6. CASE Check(r)
        BY <2>3, <2>6 DEF Check, Moves, storeVars
    <2>7. ASSUME NEW p, NEW left, Looked(r, p, left)
          PROVE  CauseInv' /\ (failure # NoMessage => failure' = failure)
        BY <2>3, <2>7 DEF Looked, Moves, storeVars
    <2>8. CASE LookMissing(r)
        BY <2>7, <2>8 DEF LookMissing
    <2>9. CASE LookFound(r)
        <3>1. ASSUME NEW q, NEW why \in {"failed", "mismatch"}
              PROVE  [rank |-> q, why |-> why].why # "none"
            OBVIOUS
        <3>2. QED
            BY <2>4, <2>7, <2>9, <3>1, LookFoundLeads
    <2>10. CASE Sleep(r)
        BY <2>3, <2>10 DEF Sleep, Moves, storeVars
    <2>11. CASE TimedOut(r)
        <3>1. [rank |-> r, why |-> "timeout"].why # "none"
            OBVIOUS
        <3>2. QED
            BY <2>4, <2>11, <3>1 DEF TimedOut
    <2>12. CASE Disconnected(r)
        <3>1. \/ /\ at' = [at EXCEPT ![r] = "abort"]
                 /\ message' = [message EXCEPT ![r] = [rank |-> r, why |-> "lost"]]
                 /\ UNCHANGED <<failure, cause>>
              \/ /\ at' = [at EXCEPT ![r] = "raised"]
                 /\ cause' = [cause EXCEPT ![r] = [rank |-> r, why |-> "lost"]]
                 /\ UNCHANGED <<failure, message>>
            BY <2>12 DEF Disconnected, storeVars
        <3>2. QED
            BY <2>3, <3>1
    <2>13. QED
        BY <1>4, <2>2, <2>5, <2>6, <2>8, <2>9, <2>10, <2>11, <2>12 DEF Operates, ExchangeStep
<1>5. QED
    BY <1>1, <1>2, <1>3, <1>4 DEF Kind

(***************************************************************************)
(* The theorems.                                                           *)
(***************************************************************************)

\* The invariant holds at the start.
LEMMA InitInv == Init => Inv
<1> SUFFICES ASSUME Init
             PROVE  Inv
    OBVIOUS
<1> USE ExchangeAssumption, ArenaAssumption DEF Init, ExchangeInit
<1>1. NoStatus \in Status /\ NoMessage \in Message /\ NoSegment \in Segment
    BY DEF NoStatus, Status, NoMessage, Message, NoSegment, Segment
<1>2. ArenaTypeOK
    <2>1. ExchangeTypeOK
        BY <1>1 DEF ExchangeTypeOK
    <2>2. 1 \in Model
        BY DEF Model
    <2>3. QED
        BY <1>1, <2>1, <2>2 DEF ArenaTypeOK, Steps
<1>3. CallInv /\ PostedInv /\ WaitInv /\ CauseInv
    BY DEF CallInv, PostedInv, WaitInv, CauseInv, Waiting, NoMessage
<1>4. StageInv
    <2>1. ASSUME NEW r \in Rank, NEW k \in 0..4
          PROVE  step[r] # Stages[k + 1] /\ (step[r] \in After(k) => k = 0)
        BY StagesDiffer, AfterSets
    <2>2. \A n : AgreedFrom(n, 0)
        BY DEF AgreedFrom
    <2>3. QED
        BY <2>1, <2>2 DEF StageInv
<1>5. QED
    BY <1>2, <1>3, <1>4 DEF Inv

\* And every step keeps it.
LEMMA StepInv ==
    ASSUME Inv, [Next]_vars
    PROVE  Inv'
<1>1. CASE Next
    <2>1. PICK r \in Rank : RankStep(r) \/ NextModel(r) \/ RankFails(r)
        BY <1>1 DEF Next
    <2>2. Kind(r)
        BY <2>1, StepKinds
    <2>3. ArenaTypeOK'
        BY <2>1, TypeKept DEF Inv
    <2>4. QED
        BY <2>2, <2>3, CallKept, PostedKept, WaitKept, StageKept, CauseKept DEF Inv
<1>2. CASE UNCHANGED vars
    BY <1>2
    DEF Inv, ArenaTypeOK, ExchangeTypeOK, CallInv, PostedInv, WaitInv, StageInv, CauseInv,
        AgreedFrom, Agreed, vars, exchangeVars, storeVars, callVars, localVars
<1>3. QED
    BY <1>1, <1>2

\* The invariant holds always.
THEOREM InvAlways == Safety => []Inv
<1>1. QED
    BY InitInv, StepInv, PTL DEF Safety

\* Every variable of the exchange and of the arena keeps its type.
THEOREM ArenaTypeCorrect == Safety => []ArenaTypeOK
<1>1. Inv => ArenaTypeOK
    BY DEF Inv
<1>2. QED
    BY <1>1, InvAlways, PTL

\* Whatever a rank raises is the failure that was left in the Store, unless it
\* lost its connection to the Store (SameCause; _abort and exchange).
THEOREM CausesAgree == Safety => []SameCause
<1>1. Inv => SameCause
    BY DEF Inv, CauseInv, SameCause
<1>2. QED
    BY <1>1, InvAlways, PTL

\* The first failure left in the Store stays there ("Keep a terminal failure").
THEOREM FirstFailureStays == Safety => [][failure # NoMessage => failure' = failure]_vars
<1>1. Inv /\ [Next]_vars => [failure # NoMessage => failure' = failure]_vars
    <2> SUFFICES ASSUME Inv, Next
                 PROVE  failure # NoMessage => failure' = failure
        OBVIOUS
    <2>1. PICK r \in Rank : Kind(r)
        BY StepKinds DEF Next
    <2>2. QED
        BY <2>1, CauseKept
<1>2. QED
    BY <1>1, InvAlways, PTL DEF Safety

\* A rank completes the initialization of a model only when all ranks have
\* reported success in all its stages (FailureReachesAll;
\* coordinate_rank_local_error and the stages of _init_weights).
THEOREM FailuresReachAll == Safety => FailureReachesAll
<1> DEFINE P == \A q \in Rank : loaded'[q] # loaded[q] =>
                    \A r \in Rank, i \in 1..5 :
                        LET s == posted[r][sequence[q] - 6 + i] IN s.ok /\ s.stage = Stages[i]
<1>1. Inv /\ [Next]_vars => [P]_vars
    <2> SUFFICES ASSUME Inv, Next, NEW q \in Rank, loaded'[q] # loaded[q],
                        NEW r \in Rank, NEW i \in 1..5
                 PROVE  LET s == posted[r][sequence[q] - 6 + i] IN s.ok /\ s.stage = Stages[i]
        OBVIOUS
    <2>1. PICK p \in Rank : Kind(p)
        BY StepKinds DEF Next
    <2>2. Completes(p) /\ p = q
        <3>1. Completes(p)
            BY <2>1
            DEF Kind, Begins, Reports, Advances, GivesUp, Works, Ends, Operates
        <3>2. QED
            BY <3>1 DEF Completes, Inv, ArenaTypeOK
    <2>3. at[q] = "returned" /\ step[q] = Stages[4 + 1]
        BY <2>2, StageNames DEF Completes, Leave
    <2>4. AgreedFrom(sequence[q] - 1 - 4, 4 + 1)
        BY <2>3, ReturnAgrees
    <2>5. sequence[q] - 1 - 4 + i - 1 = sequence[q] - 6 + i
        BY DEF Inv, ArenaTypeOK, ExchangeTypeOK
    <2>6. QED
        BY <2>4, <2>5 DEF AgreedFrom, Agreed
<1>2. QED
    BY <1>1, InvAlways, PTL DEF Safety, FailureReachesAll

-----------------------------------------------------------------------------
(***************************************************************************)
(* The segments: who holds what memory.                                    *)
(***************************************************************************)

(***************************************************************************)
(* The inductive invariant, beside that of WeightArenaProofs.              *)
(***************************************************************************)

\* The steps before a leader creates its segment.
Early == {"start", "preflight", "discover", "discovery", "make"}

\* Rank l is making its segment: all ranks have passed preflight and discovery
\* with it, and it has not reported success of the population.
Making(l) ==
    \E n \in Nat :
        /\ Agreed(n, "preflight") /\ Agreed(n + 1, "discovery")
        /\ \/ step[l] \in {"map", "mark", "populate", "dead"} /\ sequence[l] = n + 2
           \/ /\ step[l] = "population" /\ ~status[l].ok /\ sequence[l] = n + 3
              /\ ~posted[l][n + 2].ok

\* The life of the segment of leader l and model m.
SegmentInv(m, l) ==
    LET s == segment[m][l]
    IN  /\ ~s.exists => s = NoSegment
        /\ s.exists => IsLeader(l) /\ m <= model[l] /\ (m = model[l] => step[l] \notin Early)
        /\ s.exists /\ ~s.marked => m = model[l] /\ step[l] \in {"map", "mark", "dead"} /\ ~s.full
        /\ s.marked => s.users # {}
        /\ s.exists /\ ~s.full => s.users \subseteq {l} /\ m = model[l] /\ Making(l)

\* Where the leader is in create and populate.
MakeInv(r) ==
    /\ step[r] \in {"map", "mark", "populate", "populated"} => IsLeader(r) /\ Mine(r).exists
    /\ step[r] \in {"map", "mark"} => ~Mine(r).marked
    /\ step[r] \in {"mark", "populate"} => r \in Mine(r).users
    /\ step[r] = "populate" => Mine(r).marked

\* Rank r is attached to the filled segment of its group for model m.
Holds(r, m) == r \in segment[m][Leader[r]].users /\ segment[m][Leader[r]].full

\* It has got there with the model it is at.
Served(r) ==
    \/ step[r] \in {"populated", "register", "bind"}
    \/ IsLeader(r) /\ step[r] = "attach"
    \/ IsLeader(r) /\ step[r] = "population" /\ status[r].ok
    \/ step[r] \in {"registration", "initialization"} /\ status[r].ok

HoldInv(r) ==
    /\ Served(r) => Holds(r, model[r])
    /\ step[r] # "dead" => \A m \in loaded[r] : Holds(r, m)
    /\ \A m \in loaded[r] : m < model[r] \/ (m = model[r] /\ step[r] \in {"ready", "dead"})
    /\ step[r] = "ready" => model[r] \in loaded[r]
    /\ \A m \in Model : m < model[r] \/ (m = model[r] /\ step[r] = "failed") =>
        m \in loaded[r] \/ r \notin segment[m][Leader[r]].users

ArenaInv ==
    /\ \A m \in Model, l \in Rank : SegmentInv(m, l)
    /\ \A r \in Rank : MakeInv(r) /\ HoldInv(r)

(***************************************************************************)
(* What a step of one rank leaves alone.                                   *)
(***************************************************************************)

Step(r) == RankStep(r) \/ NextModel(r) \/ RankFails(r)

\* The values a rank's invariants are about.
LEMMA RankTypes ==
    ASSUME Inv, NEW r \in Rank
    PROVE  /\ model[r] \in Model /\ model[r] \in Nat /\ Model \subseteq Nat
           /\ Leader[r] \in Rank /\ Leader[Leader[r]] = Leader[r]
           /\ sequence[r] \in Nat
           /\ Mine(r) = segment[model[r]][Leader[r]]
           /\ \A m \in Model, l \in Rank : segment[m][l] \in Segment
    BY ArenaAssumption, ExchangeAssumption
    DEF Inv, ArenaTypeOK, ExchangeTypeOK, Model, Mine

\* Only successful reports are marked as such, and only under numbers in use.
LEMMA ReportedBefore ==
    ASSUME Inv, NEW p \in Rank, NEW n \in Exchange, posted[p][n].ok
    PROVE  n < sequence[p]
<1>1. ~NoStatus.ok
    BY DEF NoStatus
<1>2. ~(n >= sequence[p])
    BY <1>1 DEF Inv, PostedInv
<1>3. n \in Int /\ sequence[p] \in Int
    BY RankTypes, ExchangeAssumption DEF Exchange
<1>4. QED
    BY <1>2, <1>3

\* The model changes in one action only.
LEMMA ModelStays ==
    ASSUME NEW r \in Rank, Step(r), ~NextModel(r)
    PROVE  UNCHANGED model
    BY DEF Step, RankStep, RankFails, localVars, Preflight, Preflighted, PreflightFails, Discover,
        Discovered, DiscoverFails, Allocate, Map, Mark, Populate, Publish, Follow, Populated,
        CreateFails, AttachOwn, Stat, Shmat, SegmentIsGone, Register, Attached, AttachFails,
        Bind, StageFailed, ReportError, Ready, Failed, Dies, Exchanges, ExchangesError, Goto

\* Everything but the segments stays as it is for the other ranks.
LEMMA OthersStay ==
    ASSUME Inv, NEW r \in Rank, Step(r), NEW q \in Rank, q # r
    PROVE  /\ step'[q] = step[q] /\ model'[q] = model[q] /\ loaded'[q] = loaded[q]
           /\ status'[q] = status[q] /\ sequence'[q] = sequence[q] /\ posted'[q] = posted[q]
<1> USE DEF Inv, ArenaTypeOK, ExchangeTypeOK
<1>1. Kind(r)
    BY StepKinds DEF Step
<1>2. model'[q] = model[q]
    <2>1. CASE NextModel(r)
        BY <2>1 DEF NextModel
    <2>2. QED
        BY <2>1, ModelStays
<1>3. posted'[q] = posted[q]
    BY <1>1, PostsOnce
<1>4. ASSUME NEW s, NEW to, step' = [step EXCEPT ![r] = to], Enter(r, s)
      PROVE  step'[q] = step[q] /\ status'[q] = status[q] /\ sequence'[q] = sequence[q]
    BY <1>4 DEF Enter
<1>5. ASSUME NEW how, NEW to, step' = [step EXCEPT ![r] = to], Leave(r, how)
      PROVE  step'[q] = step[q] /\ status'[q] = status[q] /\ sequence'[q] = sequence[q]
    BY <1>5 DEF Leave
<1>6. step'[q] = step[q] /\ status'[q] = status[q] /\ sequence'[q] = sequence[q] /\ loaded'[q] = loaded[q]
    <2>1. CASE Begins(r)
        BY <1>4, <2>1 DEF Begins
    <2>2. CASE Reports(r)
        BY <1>4, <2>2 DEF Reports
    <2>3. CASE Advances(r)
        BY <1>5, <2>3 DEF Advances
    <2>4. CASE Completes(r)
        BY <1>5, <2>4 DEF Completes
    <2>5. CASE GivesUp(r)
        BY <1>5, <2>5 DEF GivesUp
    <2>6. CASE Works(r)
        BY <2>6 DEF Works, callVars
    <2>7. CASE Ends(r)
        BY <2>7 DEF Ends, callVars
    <2>8. CASE Operates(r)
        BY <2>8, OperationLocal
    <2>9. QED
        BY <1>1, <2>1, <2>2, <2>3, <2>4, <2>5, <2>6, <2>7, <2>8 DEF Kind
<1>7. QED
    BY <1>2, <1>3, <1>6

\* What was agreed stays agreed.
LEMMA AgreedStays ==
    ASSUME Inv, NEW r \in Rank, Step(r), NEW n, NEW s, Agreed(n, s)
    PROVE  Agreed(n, s)'
<1>1. Kind(r)
    BY StepKinds DEF Step
<1>2. QED
    BY <1>1, ReportedStays DEF Agreed

\* A rank goes on making its segment while others step.
LEMMA MakingStays ==
    ASSUME Inv, NEW r \in Rank, Step(r), NEW q \in Rank, q # r, Making(q)
    PROVE  Making(q)'
<1>1. /\ step'[q] = step[q] /\ status'[q] = status[q] /\ sequence'[q] = sequence[q]
      /\ posted'[q] = posted[q]
    BY OthersStay
<1>2. PICK n \in Nat :
        /\ Agreed(n, "preflight") /\ Agreed(n + 1, "discovery")
        /\ \/ step[q] \in {"map", "mark", "populate", "dead"} /\ sequence[q] = n + 2
           \/ /\ step[q] = "population" /\ ~status[q].ok /\ sequence[q] = n + 3
              /\ ~posted[q][n + 2].ok
    BY DEF Making
<1>3. Agreed(n, "preflight")' /\ Agreed(n + 1, "discovery")'
    BY <1>2, AgreedStays
<1>4. QED
    BY <1>1, <1>2, <1>3 DEF Making

\* A rank that all stages up to the population succeeded with finds no segment
\* that is not filled.
LEMMA AttachSeesWhole ==
    ASSUME Inv, ArenaInv, NEW r \in Rank, step[r] \in {"attach", "shmat"}, Mine(r).exists
    PROVE  Mine(r).full
<1> DEFINE l == Leader[r]
<1> DEFINE p == sequence[r]
<1> SUFFICES ASSUME ~Mine(r).full
             PROVE  FALSE
    OBVIOUS
<1>1. l \in Rank /\ model[r] \in Model /\ p \in Nat /\ Mine(r) = segment[model[r]][l]
      /\ sequence[l] \in Nat
    BY RankTypes
<1>2. Making(l)
    BY <1>1 DEF ArenaInv, SegmentInv
<1>3. PICK n \in Nat :
        /\ Agreed(n, "preflight") /\ Agreed(n + 1, "discovery")
        /\ \/ step[l] \in {"map", "mark", "populate", "dead"} /\ sequence[l] = n + 2
           \/ /\ step[l] = "population" /\ ~status[l].ok /\ sequence[l] = n + 3
              /\ ~posted[l][n + 2].ok
    BY <1>2 DEF Making
<1>4. Agreed(p - 1, "population")
    <2>1. AgreedFrom(p - 3, 3)
        BY AfterSets DEF Inv, StageInv
    <2>2. Agreed(p - 3 + 3 - 1, Stages[3])
        BY <2>1 DEF AgreedFrom
    <2>3. p - 3 + 3 - 1 = p - 1
        BY <1>1
    <2>4. QED
        BY <2>2, <2>3, StageNames
<1>5. n + 1 < p
    BY <1>3, ReportedBefore DEF Agreed
<1>6. p - 1 < sequence[l]
    BY <1>1, <1>4, ReportedBefore DEF Agreed
<1>7. p - 1 = n + 1 \/ (p - 1 = n + 2 /\ ~posted[l][n + 2].ok)
    BY <1>1, <1>3, <1>5, <1>6
<1>8. p - 1 # n + 1
    <2>1. "population" # "discovery"
        OBVIOUS
    <2>2. QED
        BY <1>1, <1>3, <1>4, <2>1 DEF Agreed
<1>9. QED
    BY <1>1, <1>4, <1>7, <1>8 DEF Agreed

(***************************************************************************)
(* What the steps do to the segments.                                      *)
(***************************************************************************)

\* Detaching removes the rank, and the segment when it was the last one.
LEMMA DetachedFrom ==
    ASSUME NEW s \in Segment, NEW r \in Rank, s.marked => s.users # {}
    PROVE  LET t == Detached(s, r)
           IN  \/ r \notin s.users /\ t = s
               \/ s.marked /\ s.users = {r} /\ t = NoSegment
               \/ /\ r \in s.users /\ (s.marked => s.users # {r})
                  /\ t.users = s.users \ {r}
                  /\ t.exists = s.exists /\ t.marked = s.marked /\ t.full = s.full
<1> DEFINE u == [s EXCEPT !.users = @ \ {r}]
<1>1. /\ u.users = s.users \ {r}
      /\ u.exists = s.exists /\ u.marked = s.marked /\ u.full = s.full
    BY DEF Segment
<1>2. CASE r \notin s.users
    BY <1>2 DEF Detached
<1>3. CASE r \in s.users /\ s.marked /\ s.users = {r}
    <2>1. Detached(s, r) = Settled(u) /\ u.marked /\ u.users = {}
        BY <1>1, <1>3 DEF Detached
    <2>2. QED
        BY <1>3, <2>1 DEF Settled
<1>4. CASE r \in s.users /\ (s.marked => s.users # {r})
    <2>1. Detached(s, r) = Settled(u) /\ ~(u.marked /\ u.users = {})
        BY <1>1, <1>4 DEF Detached
    <2> HIDE DEF u
    <2>2. Detached(s, r) = u
        BY <2>1 DEF Settled
    <2>3. QED
        BY <1>1, <1>4, <2>2
<1>5. QED
    BY <1>2, <1>3, <1>4

\* Closing removes the rank and marks the segment, if the rank is its creator.
LEMMA ClosedBy ==
    ASSUME NEW s \in Segment, NEW r \in Rank, s.exists, IsLeader(r)
    PROVE  LET t == Closed(s, r)
           IN  \/ s.users \subseteq {r} /\ t = NoSegment
               \/ /\ ~(s.users \subseteq {r})
                  /\ t.users = s.users \ {r} /\ t.users # {}
                  /\ t.exists = s.exists /\ t.marked /\ t.full = s.full
<1> DEFINE u == [s EXCEPT !.marked = TRUE, !.users = @ \ {r}]
<1>1. /\ u.users = s.users \ {r}
      /\ u.exists = s.exists /\ u.marked /\ u.full = s.full
    BY DEF Segment
<1>2. Closed(s, r) = Settled(u)
    BY DEF Closed
<1> HIDE DEF u
<1>3. QED
    BY <1>1, <1>2 DEF Settled

\* A rank changes the segment of its group for the model it is at.
LEMMA SetsMine ==
    ASSUME Inv, NEW r \in Rank, NEW s, SetMine(r, s)
    PROVE  /\ segment'[model[r]][Leader[r]] = s
           /\ \A m \in Model, l \in Rank : m # model[r] \/ l # Leader[r] =>
                segment'[m][l] = segment[m][l]
    BY RankTypes DEF Inv, ArenaTypeOK, SetMine

\* The changes there are.
LEMMA SegmentChanges ==
    ASSUME NEW r \in Rank, Step(r)
    PROVE  \/ UNCHANGED segment
           \/ Allocate(r) \/ Map(r) \/ Mark(r) \/ Populate(r) \/ Shmat(r) \/ Dies(r)
           \/ SetMine(r, Closed(Mine(r), r))
           \/ SetMine(r, Detached(Mine(r), r))
    BY DEF Step, RankStep, RankFails, NextModel, localVars, Preflight, Preflighted, PreflightFails,
        Discover, Discovered, DiscoverFails, Publish, Follow, Populated, CreateFails,
        AttachOwn, Stat, SegmentIsGone, Register, Attached, AttachFails, Bind, StageFailed,
        ReportError, Ready, Failed

\* To the segments of other leaders a rank can only attach, when they are filled,
\* and detach.
Foreign(s, t, r) ==
    \/ t = s
    \/ t = Detached(s, r)
    \/ s.exists /\ s.full /\ t = [s EXCEPT !.users = @ \cup {r}]

LEMMA ForeignSegments ==
    ASSUME Inv, ArenaInv, NEW r \in Rank, Step(r), NEW m \in Model, NEW l \in Rank, l # r
    PROVE  Foreign(segment[m][l], segment'[m][l], r)
<1>1. CASE UNCHANGED segment
    BY <1>1 DEF Foreign
<1>2. CASE IsLeader(r) /\ \E s : SetMine(r, s)
    BY <1>2, SetsMine DEF IsLeader, Foreign
<1>3. CASE Allocate(r) \/ Map(r) \/ Mark(r) \/ Populate(r)
    <2>1. IsLeader(r)
        BY <1>3 DEF Allocate, Map, Mark, Populate, Goto, ArenaInv, MakeInv
    <2>2. \E s : SetMine(r, s)
        BY <1>3 DEF Allocate, Map, Mark, Populate
    <2>3. QED
        BY <1>2, <2>1, <2>2
<1>4. CASE Shmat(r)
    <2>1. Mine(r).full /\ Mine(r).exists /\ SetMine(r, [Mine(r) EXCEPT !.users = @ \cup {r}])
        BY <1>4, AttachSeesWhole DEF Shmat, Goto
    <2>2. CASE m = model[r] /\ l = Leader[r]
        <3>1. segment[m][l] = Mine(r)
            BY <2>2, RankTypes
        <3>2. segment'[m][l] = [Mine(r) EXCEPT !.users = @ \cup {r}]
            BY <2>1, <2>2, SetsMine
        <3>3. QED
            BY <2>1, <3>1, <3>2 DEF Foreign
    <2>3. CASE ~(m = model[r] /\ l = Leader[r])
        BY <2>1, <2>3, SetsMine DEF Foreign
    <2>4. QED
        BY <2>2, <2>3
<1>5. CASE Dies(r)
    BY <1>5 DEF Dies, Foreign
<1>6. CASE ~IsLeader(r) /\ SetMine(r, Closed(Mine(r), r))
    BY <1>6, SetsMine, RankTypes DEF Closed, Foreign
<1>7. CASE SetMine(r, Detached(Mine(r), r))
    BY <1>7, SetsMine, RankTypes DEF Foreign
<1>8. QED
    BY <1>1, <1>2, <1>3, <1>4, <1>5, <1>6, <1>7, SegmentChanges

\* What this means for the segment and its leader.
LEMMA ForeignKept ==
    ASSUME Inv, ArenaInv, NEW r \in Rank, Step(r), NEW m \in Model, NEW l \in Rank, l # r
    PROVE  /\ SegmentInv(m, l)'
           /\ \A q \in Rank \ {r} :
                q \in segment[m][l].users =>
                    /\ q \in segment'[m][l].users
                    /\ segment'[m][l].exists = segment[m][l].exists
                    /\ segment'[m][l].marked = segment[m][l].marked
                    /\ segment'[m][l].full = segment[m][l].full
           /\ \A q \in Rank \ {r} :
                q \notin segment[m][l].users => q \notin segment'[m][l].users
           /\ ~segment[m][l].marked =>
                /\ segment'[m][l].exists = segment[m][l].exists
                /\ ~segment'[m][l].marked
<1> DEFINE s == segment[m][l]
<1> DEFINE t == segment'[m][l]
<1>1. s \in Segment /\ SegmentInv(m, l) /\ Foreign(s, t, r)
    BY RankTypes, ForeignSegments DEF ArenaInv
<1>2. step'[l] = step[l] /\ model'[l] = model[l]
    BY OthersStay
<1>3. Making(l) => Making(l)'
    BY MakingStays
<1>4. /\ ~s.exists => s = NoSegment
      /\ s.exists => IsLeader(l) /\ m <= model[l] /\ (m = model[l] => step[l] \notin Early)
      /\ s.exists /\ ~s.marked => m = model[l] /\ step[l] \in {"map", "mark", "dead"} /\ ~s.full
      /\ s.marked => s.users # {}
      /\ s.exists /\ ~s.full => s.users \subseteq {l} /\ m = model[l] /\ Making(l)
    BY <1>1 DEF SegmentInv
<1> HIDE DEF s, t
<1>5. \/ t = s
      \/ t = NoSegment /\ s.marked /\ s.users = {r}
      \/ /\ t.exists = s.exists /\ t.marked = s.marked /\ t.full = s.full
         /\ t.users = s.users \ {r} /\ (s.marked => t.users # {})
      \/ /\ s.exists /\ s.full /\ t.exists = s.exists /\ t.marked = s.marked /\ t.full = s.full
         /\ t.users = s.users \cup {r}
    <2>1. CASE t = s
        BY <2>1
    <2>2. CASE t = Detached(s, r)
        BY <1>1, <1>4, <2>2, DetachedFrom
    <2>3. CASE s.exists /\ s.full /\ t = [s EXCEPT !.users = @ \cup {r}]
        BY <1>1, <2>3 DEF Segment
    <2>4. QED
        BY <1>1, <2>1, <2>2, <2>3 DEF Foreign
<1>6. /\ NoSegment.users = {} /\ ~NoSegment.exists /\ ~NoSegment.marked /\ ~NoSegment.full
    BY DEF NoSegment
<1>7. /\ ~t.exists => t = NoSegment
      /\ t.exists => IsLeader(l) /\ m <= model[l] /\ (m = model[l] => step[l] \notin Early)
      /\ t.exists /\ ~t.marked => m = model[l] /\ step[l] \in {"map", "mark", "dead"} /\ ~t.full
      /\ t.marked => t.users # {}
      /\ t.exists /\ ~t.full => t.users \subseteq {l} /\ m = model[l] /\ Making(l)'
    <2>1. ~t.exists => t = NoSegment
        <3>1. CASE t = s \/ t = NoSegment
            BY <1>4, <3>1
        <3>2. CASE t.exists = s.exists /\ t.users = s.users \ {r} /\ t.marked = s.marked /\ t.full = s.full
            <4>1. ASSUME ~t.exists
                  PROVE  t = s
                <5>1. s = NoSegment /\ t.users = {}
                    BY <1>4, <1>6, <3>2, <4>1
                <5>2. t \in Segment
                    BY SegmentTypeKept DEF t, Step, Inv
                <5>3. t = [exists |-> t.exists, marked |-> t.marked, full |-> t.full,
                           users |-> t.users]
                    BY <5>2 DEF Segment
                <5>4. t = NoSegment
                    BY <1>6, <3>2, <5>1, <5>3 DEF NoSegment
                <5>5. QED
                    BY <5>1, <5>4
            <4>2. QED
                BY <1>4, <4>1
        <3>3. CASE s.exists /\ t.exists = s.exists
            BY <3>3
        <3>4. QED
            BY <1>5, <3>1, <3>2, <3>3
    <2>2. QED
        BY <1>3, <1>4, <1>5, <1>6, <2>1
<1>8. SegmentInv(m, l)'
    BY <1>2, <1>7 DEF SegmentInv, IsLeader, t
<1>9. QED
    BY <1>5, <1>6, <1>8 DEF s, t

(***************************************************************************)
(* The steps of a rank, by what they do to the segments.                   *)
(***************************************************************************)

\* Steps that leave the segments alone and bring no rank to hold one, or to
\* have to.
Quiet(r) ==
    /\ UNCHANGED <<model, loaded, segment>>
    /\ step[r] \notin {"map", "mark", "populate", "ready", "failed", "dead"}
    /\ step[r] = "population" => status[r].ok
    /\ step'[r] \in {"preflight", "discover", "discovery", "make", "population", "attach",
                     "shmat", "registration", "bind", "initialization", "error"}
    /\ step[r] \in Early \/ step'[r] \notin Early
    /\ Served(r)' => Served(r)

\* A failure in populate, the segment of which is closed later.
Unfilled(r) ==
    /\ UNCHANGED <<posted, model, loaded, segment>>
    /\ step[r] = "populate" /\ step'[r] = "population"
    /\ ~status'[r].ok
    /\ sequence'[r] = sequence[r] + 1 /\ sequence[r] \in Exchange

\* Failures that close the segment.
Closing(r) ==
    /\ UNCHANGED <<model, loaded>>
    /\ SetMine(r, Closed(Mine(r), r))
    /\ step[r] \notin {"ready", "failed", "dead"}
    /\ step'[r] \in {"population", "registration", "error"}
    /\ ~status'[r].ok

StepCase(r) ==
    \/ Operates(r) /\ UNCHANGED localVars
    \/ Quiet(r) \/ Unfilled(r) \/ Closing(r)
    \/ Allocate(r) \/ Map(r) \/ Mark(r) \/ Populate(r) \/ Shmat(r)
    \/ Ready(r) \/ Failed(r) \/ NextModel(r) \/ Dies(r)

\* The return of exchange means success.
LEMMA ReturnedOk ==
    ASSUME Inv, NEW r \in Rank, at[r] = "returned"
    PROVE  status[r].ok
    BY DEF Inv, WaitInv, Waiting

\* A quiet step that calls exchange.
LEMMA QuietCall ==
    ASSUME Inv, NEW r \in Rank, NEW f, NEW g, NEW s, Goto(r, f, g), Enter(r, s), UNCHANGED segment,
           \/ f = "start" /\ g = "preflight"
           \/ f = "discover" /\ g = "discovery"
           \/ f = "start" /\ g = "initialization" /\ ~s.ok
           \/ f = "populated" /\ g = "population"
           \/ f = "make" /\ g = "population" /\ (~IsLeader(r) \/ ~s.ok)
           \/ f = "attach" /\ g = "registration" /\ (IsLeader(r) \/ ~s.ok)
           \/ f = "shmat" /\ g = "registration" /\ ~s.ok
           \/ f = "register" /\ g = "registration"
           \/ f = "bind" /\ g = "initialization"
           \/ f = "error" /\ g = "initialization" /\ ~s.ok
    PROVE  Quiet(r)
<1>1. step[r] = f /\ step'[r] = g /\ status'[r] = s /\ UNCHANGED <<model, loaded>>
    BY DEF Goto, Enter, Inv, ArenaTypeOK, ExchangeTypeOK
<1>2. Served(r)' => Served(r)
    BY <1>1 DEF Served, IsLeader
<1>3. QED
    BY <1>1, <1>2 DEF Quiet, Early

\* And one that returns from it.
LEMMA QuietReturn ==
    ASSUME Inv, NEW r \in Rank, NEW f, NEW g, Goto(r, f, g), Leave(r, "returned"), UNCHANGED segment,
           \/ f = "preflight" /\ g = "discover"
           \/ f = "discovery" /\ g \in {"make", "error"}
           \/ f = "population" /\ g = "attach"
           \/ f = "registration" /\ g = "bind"
    PROVE  Quiet(r)
<1>1. step[r] = f /\ step'[r] = g /\ UNCHANGED <<model, loaded>> /\ status[r].ok
    BY ReturnedOk DEF Goto, Leave, Inv, ArenaTypeOK, ExchangeTypeOK
<1>2. Served(r)' => Served(r)
    BY <1>1 DEF Served, IsLeader
<1>3. QED
    BY <1>1, <1>2 DEF Quiet, Early

\* A failure that closes the segment is reported, or was raised.
LEMMA ClosingSteps ==
    ASSUME Inv, NEW r \in Rank, SetMine(r, Closed(Mine(r), r)),
           \/ \E f \in {"make", "map", "mark", "populate"} : ExchangesError(r, f, "population")
           \/ \E f \in {"attach", "shmat", "register"} : ExchangesError(r, f, "registration")
           \/ StageFailed(r)
    PROVE  Closing(r)
<1> USE DEF Inv, ArenaTypeOK, ExchangeTypeOK
<1>1. ASSUME NEW f \in {"make", "map", "mark", "populate", "attach", "shmat", "register"},
             NEW g \in {"population", "registration"}, ExchangesError(r, f, g)
      PROVE  Closing(r)
    BY <1>1 DEF ExchangesError, Goto, Enter, Report, Closing
<1>2. CASE StageFailed(r)
    BY <1>2 DEF StageFailed, Goto, Leave, NoStatus, Closing
<1>3. QED
    BY <1>1, <1>2

\* A failure in populate.
LEMMA UnfilledStep ==
    ASSUME Inv, NEW r \in Rank, ExchangesError(r, "populate", "population"), UNCHANGED segment
    PROVE  Unfilled(r)
<1>1. sequence[r] \in Exchange
    BY RankTypes, ExchangeAssumption DEF ExchangesError, Enter, Exchange
<1>2. QED
    BY <1>1
    DEF Inv, ArenaTypeOK, ExchangeTypeOK, ExchangesError, Goto, Enter, Report, Unfilled, storeVars

LEMMA StepCases ==
    ASSUME Inv, NEW r \in Rank, Step(r)
    PROVE  StepCase(r)
<1>1. CASE step[r] # "dead" /\ (ExchangeStep(r) \/ Disconnected(r)) /\ UNCHANGED localVars
    BY <1>1 DEF StepCase, Operates, localVars
<1>2. /\ ~Report("preflight", FALSE).ok /\ ~Report("initialization", FALSE).ok
      /\ ~Report("population", FALSE).ok /\ ~Report("registration", FALSE).ok
    BY DEF Report
<1>3. CASE Preflight(r) \/ PreflightFails(r)
    BY <1>2, <1>3, QuietCall DEF Preflight, PreflightFails, Exchanges, ExchangesError, StepCase
<1>4. CASE Discover(r) \/ DiscoverFails(r)
    BY <1>4, QuietCall DEF Discover, DiscoverFails, Exchanges, ExchangesError, StepCase
<1>5. CASE Publish(r) \/ Follow(r)
    BY <1>5, QuietCall DEF Publish, Follow, Exchanges, StepCase
<1>6. CASE AttachOwn(r) \/ Register(r)
    BY <1>6, QuietCall DEF AttachOwn, Register, Exchanges, StepCase
<1>7. CASE SegmentIsGone(r)
    BY <1>2, <1>7, QuietCall DEF SegmentIsGone, Exchanges, StepCase
<1>8. CASE Bind(r) \/ ReportError(r)
    BY <1>2, <1>8, QuietCall DEF Bind, ReportError, Exchanges, ExchangesError, StepCase
<1>9. CASE Preflighted(r) \/ Discovered(r) \/ Populated(r) \/ Attached(r)
    <2>1. ASSUME Discovered(r)
          PROVE  Goto(r, "discovery", "make") \/ Goto(r, "discovery", "error")
        BY <2>1 DEF Discovered
    <2>2. Quiet(r)
        BY <1>9, <2>1, QuietReturn DEF Preflighted, Discovered, Populated, Attached
    <2>3. QED
        BY <2>2 DEF StepCase
<1>10. CASE Stat(r)
    <2>1. /\ step[r] = "attach" /\ step'[r] = "shmat" /\ ~IsLeader(r)
          /\ UNCHANGED <<model, loaded, segment>>
        BY <1>10 DEF Stat, Goto, Inv, ArenaTypeOK
    <2>2. QED
        BY <2>1 DEF Served, Quiet, Early, StepCase
<1>11. CASE CreateFails(r)
    BY <1>11, ClosingSteps, UnfilledStep DEF CreateFails, ExchangesError, Goto, StepCase
<1>12. CASE AttachFails(r) \/ StageFailed(r)
    BY <1>12, ClosingSteps DEF AttachFails, StageFailed, StepCase
<1>13. QED
    BY <1>1, <1>3, <1>4, <1>5, <1>6, <1>7, <1>8, <1>9, <1>10, <1>11, <1>12
    DEF Step, RankStep, RankFails, StepCase

(***************************************************************************)
(* What a step does to the segments of its own rank.                       *)
(***************************************************************************)

\* The other ranks keep what they are attached to, and are attached to nothing
\* new.
KeepsOthers(s, t, r) ==
    \A q \in Rank \ {r} :
        /\ q \in s.users /\ s.full => q \in t.users /\ t.full
        /\ q \notin s.users => q \notin t.users

\* t may take the place of the segment that rank r, a leader, is at.
Sound(r, t) ==
    /\ KeepsOthers(Mine(r), t, r)
    /\ ~t.exists => t = NoSegment
    /\ t.exists => step'[r] \notin Early
    /\ t.exists /\ ~t.marked => step'[r] \in {"map", "mark", "dead"} /\ ~t.full
    /\ t.marked => t.users # {}
    /\ t.exists /\ ~t.full => t.users \subseteq {r} /\ Making(r)'

\* No rank but a leader has segments; those of earlier models are complete, and
\* so is that of a leader that is not making it.
LEMMA OwnSegments ==
    ASSUME Inv, ArenaInv, NEW r \in Rank, NEW m \in Model
    PROVE  LET s == segment[m][r]
           IN  /\ s \in Segment
               /\ ~s.exists => s = NoSegment
               /\ s.exists => Leader[r] = r /\ m <= model[r] /\ (m = model[r] => step[r] \notin Early)
               /\ s.marked => s.users # {}
               /\ s.exists /\ m # model[r] => s.marked /\ s.full
               /\ s.exists /\ ~s.marked => step[r] \in {"map", "mark", "dead"} /\ ~s.full
               /\ s.exists /\ ~s.full => s.users \subseteq {r} /\ Making(r)
    BY RankTypes DEF ArenaInv, SegmentInv, IsLeader

\* What only a leader that is making its segment can be at.
LEMMA NotMaking ==
    ASSUME NEW r \in Rank, step[r] \notin {"map", "mark", "populate", "dead"},
           step[r] = "population" => status[r].ok
    PROVE  ~Making(r)
    BY DEF Making

\* A segment that stays as it is.
LEMMA SameSegment ==
    ASSUME Inv, ArenaInv, NEW r \in Rank, NEW m \in Model,
           segment'[m][r] = segment[m][r], model'[r] = model[r],
           m = model[r] /\ segment[m][r].exists =>
                /\ step'[r] \notin Early
                /\ ~segment[m][r].marked => step'[r] \in {"map", "mark", "dead"}
                /\ ~segment[m][r].full => Making(r)'
    PROVE  SegmentInv(m, r)' /\ KeepsOthers(segment[m][r], segment'[m][r], r)
<1>1. SegmentInv(m, r)
    BY DEF ArenaInv
<1>2. SegmentInv(m, r)'
    BY <1>1, OwnSegments DEF SegmentInv, IsLeader
<1>3. QED
    BY <1>2 DEF KeepsOthers

\* And one that changes soundly.
LEMMA SoundSegment ==
    ASSUME Inv, ArenaInv, NEW r \in Rank, NEW t, SetMine(r, t), UNCHANGED model,
           IsLeader(r) => Sound(r, t)
    PROVE  \A m \in Model : SegmentInv(m, r)' /\ KeepsOthers(segment[m][r], segment'[m][r], r)
<1> SUFFICES ASSUME NEW m \in Model
             PROVE  SegmentInv(m, r)' /\ KeepsOthers(segment[m][r], segment'[m][r], r)
    OBVIOUS
<1>1. CASE m # model[r]
    BY <1>1, SetsMine, SameSegment
<1>2. CASE Leader[r] # r
    BY <1>2, SetsMine, SameSegment, OwnSegments
<1>3. CASE m = model[r] /\ Leader[r] = r
    <2>1. segment'[m][r] = t /\ segment[m][r] = Mine(r)
        BY <1>3, SetsMine, RankTypes
    <2>2. /\ KeepsOthers(Mine(r), t, r)
          /\ ~t.exists => t = NoSegment
          /\ t.exists => step'[r] \notin Early
          /\ t.exists /\ ~t.marked => step'[r] \in {"map", "mark", "dead"} /\ ~t.full
          /\ t.marked => t.users # {}
          /\ t.exists /\ ~t.full => t.users \subseteq {r} /\ Making(r)'
        BY <1>3 DEF Sound, IsLeader
    <2>3. SegmentInv(m, r)'
        BY <1>3, <2>1, <2>2, RankTypes DEF SegmentInv, IsLeader
    <2>4. QED
        BY <2>1, <2>2, <2>3
<1>4. QED
    BY <1>1, <1>2, <1>3

\* A leader starts making its segment when all ranks have passed preflight and
\* discovery.
LEMMA MakingStarts ==
    ASSUME Inv, NEW r \in Rank, Step(r), Allocate(r)
    PROVE  Making(r)'
<1>1. /\ step[r] = "make" /\ step'[r] = "map" /\ sequence'[r] = sequence[r]
      /\ sequence[r] \in Nat
    BY RankTypes DEF Allocate, Goto, exchangeVars, callVars, Inv, ArenaTypeOK
<1>2. AgreedFrom(sequence[r] - 2, 2)
    BY <1>1, AfterSets DEF Inv, StageInv
<1>3. PICK n : n = sequence[r] - 2
    OBVIOUS
<1>4. Agreed(n + 1 - 1, Stages[1]) /\ Agreed(n + 2 - 1, Stages[2])
    BY <1>2, <1>3 DEF AgreedFrom
<1>5. n + 1 - 1 = n /\ n + 2 - 1 = n + 1 /\ sequence[r] = n + 2
    BY <1>1, <1>3
<1>6. Agreed(n, "preflight") /\ Agreed(n + 1, "discovery")
    BY <1>4, <1>5, StageNames
<1>7. n \in Nat
    BY <1>6, ExchangeAssumption DEF Agreed, Exchange
<1>8. Agreed(n, "preflight")' /\ Agreed(n + 1, "discovery")'
    BY <1>6, AgreedStays
<1>9. QED
    BY <1>1, <1>5, <1>7, <1>8 DEF Making

\* It goes on with it from step to step, also when it failed and reports that.
LEMMA MakingGoesOn ==
    ASSUME Inv, NEW r \in Rank, Step(r), Making(r),
           \/ Operates(r)
           \/ Unfilled(r)
           \/ /\ step[r] \in {"map", "mark", "populate"}
              /\ step'[r] \in {"map", "mark", "populate", "dead"}
              /\ sequence'[r] = sequence[r]
    PROVE  Making(r)'
<1>1. PICK n \in Nat :
        /\ Agreed(n, "preflight") /\ Agreed(n + 1, "discovery")
        /\ \/ step[r] \in {"map", "mark", "populate", "dead"} /\ sequence[r] = n + 2
           \/ /\ step[r] = "population" /\ ~status[r].ok /\ sequence[r] = n + 3
              /\ ~posted[r][n + 2].ok
    BY DEF Making
<1>2. Agreed(n, "preflight")' /\ Agreed(n + 1, "discovery")'
    BY <1>1, AgreedStays
<1>3. CASE Operates(r)
    <2>1. UNCHANGED <<step, status, sequence>>
        BY <1>3, OperationLocal
    <2>2. CASE step[r] \in {"map", "mark", "populate", "dead"} /\ sequence[r] = n + 2
        BY <1>2, <2>1, <2>2 DEF Making
    <2>3. CASE /\ step[r] = "population" /\ ~status[r].ok /\ sequence[r] = n + 3
               /\ ~posted[r][n + 2].ok
        <3>1. sequence[r] - 1 = n + 2
            BY <2>3
        <3>2. ~posted'[r][n + 2].ok
            <4>1. CASE UNCHANGED posted
                BY <2>3, <4>1
            <4>2. CASE /\ sequence[r] - 1 \in Exchange
                       /\ posted' = [posted EXCEPT ![r][sequence[r] - 1] = status[r]]
                BY <2>3, <3>1, <4>2 DEF Inv, ArenaTypeOK, ExchangeTypeOK
            <4>3. QED
                BY <4>1, <4>2, StepKinds, PostsOnce DEF Step
        <3>3. QED
            BY <1>2, <2>1, <2>3, <3>2 DEF Making
    <2>4. QED
        BY <1>1, <2>2, <2>3
<1>4. CASE Unfilled(r)
    <2>1. sequence[r] = n + 2 /\ sequence'[r] = n + 3 /\ n + 2 \in Exchange
        BY <1>1, <1>4 DEF Unfilled
    <2>2. posted[r][n + 2] = NoStatus
        BY <2>1 DEF Inv, PostedInv
    <2>3. ~posted'[r][n + 2].ok
        BY <1>4, <2>2 DEF Unfilled, NoStatus
    <2>4. QED
        BY <1>2, <1>4, <2>1, <2>3 DEF Unfilled, Making
<1>5. CASE /\ step[r] \in {"map", "mark", "populate"}
           /\ step'[r] \in {"map", "mark", "populate", "dead"}
           /\ sequence'[r] = sequence[r]
    BY <1>1, <1>2, <1>5 DEF Making
<1>6. QED
    BY <1>3, <1>4, <1>5

\* There is nothing to close or to detach from in a segment that does not exist.
LEMMA NothingThere ==
    ASSUME NEW r
    PROVE  /\ Closed(NoSegment, r) = NoSegment /\ Detached(NoSegment, r) = NoSegment
           /\ ~NoSegment.exists /\ ~NoSegment.marked /\ NoSegment.users = {}
<1>1. ~NoSegment.exists /\ ~NoSegment.marked /\ NoSegment.users = {}
    BY DEF NoSegment
<1>2. QED
    BY <1>1 DEF Closed, Detached

\* The closed segment of a leader that is not at the end.
LEMMA ClosingSound ==
    ASSUME Inv, ArenaInv, NEW r \in Rank, Closing(r), IsLeader(r)
    PROVE  Sound(r, Closed(Mine(r), r))
<1>1. PICK s : s = Mine(r)
    OBVIOUS
<1>2. PICK t : t = Closed(s, r)
    OBVIOUS
<1>3. /\ s \in Segment /\ (~s.exists => s = NoSegment)
      /\ s.exists /\ ~s.full => s.users \subseteq {r}
    BY <1>1, RankTypes, OwnSegments DEF IsLeader
<1>4. step'[r] \notin Early
    BY DEF Closing, Early
<1>5. \/ t = s /\ s = NoSegment
      \/ s.exists /\ s.users \subseteq {r} /\ t = NoSegment
      \/ /\ s.exists /\ ~(s.users \subseteq {r})
         /\ t.users = s.users \ {r} /\ t.users # {}
         /\ t.exists = s.exists /\ t.marked /\ t.full = s.full
    <2>1. CASE s.exists
        BY <1>2, <1>3, <2>1, ClosedBy
    <2>2. CASE ~s.exists
        BY <1>2, <1>3, <2>2, NothingThere
    <2>3. QED
        BY <2>1, <2>2
<1>6. KeepsOthers(s, t, r)
    BY <1>5, NothingThere DEF KeepsOthers
<1>7. QED
    BY <1>1, <1>2, <1>3, <1>4, <1>5, <1>6, NothingThere DEF Sound

\* The segment of a leader that failed at the end.
LEMMA FailedSound ==
    ASSUME Inv, ArenaInv, NEW r \in Rank, Failed(r), IsLeader(r)
    PROVE  Sound(r, Detached(Mine(r), r))
<1>1. PICK s : s = Mine(r)
    OBVIOUS
<1>2. PICK t : t = Detached(s, r)
    OBVIOUS
<1>3. step[r] = "initialization" /\ step'[r] = "failed"
    BY DEF Failed, Goto, Inv, ArenaTypeOK
<1>4. ~Making(r)
    BY <1>3, NotMaking
<1>5. /\ s \in Segment /\ (~s.exists => s = NoSegment)
      /\ s.marked => s.users # {}
      /\ s.exists => s.marked /\ s.full
    BY <1>1, <1>3, <1>4, RankTypes, OwnSegments DEF IsLeader
<1>6. \/ t = s
      \/ s.users = {r} /\ t = NoSegment
      \/ /\ t.users = s.users \ {r} /\ (s.marked => t.users # {})
         /\ t.exists = s.exists /\ t.marked = s.marked /\ t.full = s.full
    BY <1>2, <1>5, DetachedFrom
<1>7. KeepsOthers(s, t, r)
    BY <1>6, NothingThere DEF KeepsOthers
<1>8. ~t.exists => t = NoSegment
    <2>1. CASE ~s.exists
        BY <1>2, <1>5, <2>1, NothingThere
    <2>2. CASE s.exists
        BY <1>6, <2>2
    <2>3. QED
        BY <2>1, <2>2
<1>9. QED
    BY <1>1, <1>2, <1>3, <1>5, <1>6, <1>7, <1>8, NothingThere DEF Sound, Early

\* The segment a leader creates, maps, marks and fills, one step after the other.
LEMMA MadeSound ==
    ASSUME Inv, ArenaInv, NEW r \in Rank, Step(r), NEW t, SetMine(r, t),
           \/ Allocate(r) /\ t = [NoSegment EXCEPT !.exists = TRUE]
           \/ Map(r) /\ t = [Mine(r) EXCEPT !.users = {r}]
           \/ Mark(r) /\ t = [Mine(r) EXCEPT !.marked = TRUE]
           \/ Populate(r) /\ t = [Mine(r) EXCEPT !.full = TRUE]
    PROVE  IsLeader(r) /\ Sound(r, t)
<1>1. IsLeader(r)
    BY DEF Allocate, Map, Mark, Populate, Goto, ArenaInv, MakeInv
<1>2. PICK s : s = Mine(r)
    OBVIOUS
<1>3. /\ s \in Segment /\ (~s.exists => s = NoSegment)
      /\ s.exists => step[r] \notin Early
      /\ s.marked => s.users # {}
      /\ s.exists /\ ~s.marked => ~s.full
      /\ s.exists /\ ~s.full => s.users \subseteq {r} /\ Making(r)
    BY <1>1, <1>2, RankTypes, OwnSegments DEF IsLeader
<1>4. MakeInv(r)
    BY DEF ArenaInv
<1>5. CASE Allocate(r) /\ t = [NoSegment EXCEPT !.exists = TRUE]
    <2>1. step[r] = "make" /\ step'[r] = "map"
        BY <1>5 DEF Allocate, Goto, Inv, ArenaTypeOK
    <2>2. s = NoSegment
        BY <1>3, <2>1 DEF Early
    <2>3. t.exists /\ ~t.marked /\ ~t.full /\ t.users = {}
        BY <1>5 DEF NoSegment
    <2>4. KeepsOthers(s, t, r)
        BY <2>2, <2>3, NothingThere DEF KeepsOthers
    <2>5. Making(r)'
        BY <1>5, MakingStarts
    <2>6. QED
        BY <1>1, <1>2, <2>1, <2>3, <2>4, <2>5 DEF Sound, Early
<1>6. CASE Map(r) /\ t = [Mine(r) EXCEPT !.users = {r}]
    <2>1. step[r] = "map" /\ step'[r] = "mark" /\ sequence' = sequence
        BY <1>6 DEF Map, Goto, exchangeVars, callVars, Inv, ArenaTypeOK
    <2>2. s.exists /\ ~s.marked /\ ~s.full
        BY <1>2, <1>3, <1>4, <2>1 DEF MakeInv
    <2>3. t.exists /\ ~t.marked /\ ~t.full /\ t.users = {r}
        BY <1>2, <1>3, <1>6, <2>2 DEF Segment
    <2>4. KeepsOthers(s, t, r)
        BY <2>2, <2>3 DEF KeepsOthers
    <2>5. Making(r)'
        BY <1>3, <2>1, <2>2, MakingGoesOn
    <2>6. QED
        BY <1>1, <1>2, <2>1, <2>3, <2>4, <2>5 DEF Sound, Early
<1>7. CASE Mark(r) /\ t = [Mine(r) EXCEPT !.marked = TRUE]
    <2>1. step[r] = "mark" /\ step'[r] = "populate" /\ sequence' = sequence
        BY <1>7 DEF Mark, Goto, exchangeVars, callVars, Inv, ArenaTypeOK
    <2>2. s.exists /\ ~s.marked /\ ~s.full /\ r \in s.users
        BY <1>2, <1>3, <1>4, <2>1 DEF MakeInv
    <2>3. t.exists /\ t.marked /\ ~t.full /\ t.users = s.users
        BY <1>2, <1>3, <1>7, <2>2 DEF Segment
    <2>4. KeepsOthers(s, t, r)
        BY <2>2, <2>3 DEF KeepsOthers
    <2>5. Making(r)'
        BY <1>3, <2>1, <2>2, MakingGoesOn
    <2>6. QED
        BY <1>1, <1>2, <1>3, <2>1, <2>2, <2>3, <2>4, <2>5 DEF Sound, Early
<1>8. CASE Populate(r) /\ t = [Mine(r) EXCEPT !.full = TRUE]
    <2>1. step[r] = "populate" /\ step'[r] = "populated"
        BY <1>8 DEF Populate, Goto, Inv, ArenaTypeOK
    <2>2. s.exists /\ s.marked /\ r \in s.users
        BY <1>2, <1>4, <2>1 DEF MakeInv
    <2>3. t.exists /\ t.marked /\ t.full /\ t.users = s.users
        BY <1>2, <1>3, <1>8, <2>2 DEF Segment
    <2>4. KeepsOthers(s, t, r)
        BY <2>3 DEF KeepsOthers
    <2>5. QED
        BY <1>1, <1>2, <2>1, <2>2, <2>3, <2>4 DEF Sound, Early
<1>9. QED
    BY <1>5, <1>6, <1>7, <1>8

\* A segment that its own leader attaches to.
LEMMA ShmatSound ==
    ASSUME Inv, ArenaInv, NEW r \in Rank, Shmat(r), IsLeader(r)
    PROVE  Sound(r, [Mine(r) EXCEPT !.users = @ \cup {r}])
<1>1. PICK s : s = Mine(r)
    OBVIOUS
<1>2. PICK t : t = [s EXCEPT !.users = @ \cup {r}]
    OBVIOUS
<1>3. step[r] = "shmat" /\ step'[r] = "register"
    BY DEF Shmat, Goto, Inv, ArenaTypeOK
<1>4. s \in Segment /\ s.exists /\ s.full
    BY <1>1, <1>3, RankTypes, AttachSeesWhole DEF Shmat
<1>5. s.marked
    BY <1>1, <1>3, <1>4, RankTypes, OwnSegments DEF IsLeader
<1>6. t.exists /\ t.marked /\ t.full /\ t.users = s.users \cup {r}
    BY <1>2, <1>4, <1>5 DEF Segment
<1>7. KeepsOthers(s, t, r)
    BY <1>4, <1>6 DEF KeepsOthers
<1>8. Sound(r, t)
    BY <1>1, <1>3, <1>6, <1>7 DEF Sound, Early
<1>9. QED
    BY <1>1, <1>2, <1>8

\* The segments of a leader that dies.
LEMMA DeadSegments ==
    ASSUME Inv, ArenaInv, NEW r \in Rank, Step(r), Dies(r), NEW m \in Model
    PROVE  SegmentInv(m, r)' /\ KeepsOthers(segment[m][r], segment'[m][r], r)
<1>1. PICK s : s = segment[m][r]
    OBVIOUS
<1>2. PICK t : t = Detached(s, r)
    OBVIOUS
<1>3. segment'[m][r] = t
    BY <1>1, <1>2 DEF Dies
<1>4. /\ step[r] # "dead" /\ step'[r] = "dead" /\ model' = model /\ sequence' = sequence
    BY DEF Dies, callVars, Inv, ArenaTypeOK
<1>5. /\ s \in Segment /\ (~s.exists => s = NoSegment)
      /\ s.exists => Leader[r] = r /\ m <= model[r]
      /\ s.marked => s.users # {}
      /\ s.exists /\ m # model[r] => s.marked /\ s.full
      /\ s.exists /\ ~s.marked => step[r] \in {"map", "mark"} /\ ~s.full
      /\ s.exists /\ ~s.full => s.users \subseteq {r} /\ Making(r)
    BY <1>1, <1>4, OwnSegments
<1>6. \/ t = NoSegment /\ s.users \subseteq {r}
      \/ /\ t.users \subseteq s.users /\ s.users \subseteq t.users \cup {r}
         /\ (s.marked => t.users # {})
         /\ t.exists = s.exists /\ t.marked = s.marked /\ t.full = s.full
    BY <1>2, <1>5, DetachedFrom
<1>7. ~t.exists => t = NoSegment
    <2>1. CASE ~s.exists
        BY <1>2, <1>5, <2>1, NothingThere
    <2>2. CASE s.exists
        BY <1>6, <2>2
    <2>3. QED
        BY <2>1, <2>2
<1>8. KeepsOthers(s, t, r)
    BY <1>6, NothingThere DEF KeepsOthers
<1>9. ASSUME t.exists, ~t.full
      PROVE  t.users \subseteq {r} /\ m = model[r] /\ Making(r)'
    <2>1. s.exists /\ ~s.full /\ t.users \subseteq s.users /\ (s.marked => t.users # {})
        BY <1>6, <1>9, NothingThere
    <2>2. m = model[r] /\ s.users \subseteq {r} /\ Making(r)
        BY <1>5, <2>1
    <2>3. ~s.marked
        <3>1. ASSUME s.marked
              PROVE  FALSE
            <4>1. s.users = {r}
                BY <1>5, <2>2, <3>1
            <4>2. t = NoSegment
                BY <1>2, <1>5, <3>1, <4>1, DetachedFrom
            <4>3. QED
                BY <1>9, <4>2, NothingThere
        <3>2. QED
            BY <3>1
    <2>4. Making(r)'
        BY <1>4, <1>5, <2>1, <2>2, <2>3, MakingGoesOn
    <2>5. QED
        BY <2>1, <2>2, <2>4
<1>10. t.exists /\ ~t.marked => m = model[r] /\ ~t.full
    BY <1>5, <1>6, NothingThere
<1>11. t.exists => Leader[r] = r /\ m <= model[r]
    BY <1>5, <1>6, NothingThere
<1>12. t.marked => t.users # {}
    BY <1>6, NothingThere
<1>13. SegmentInv(m, r)'
    BY <1>3, <1>4, <1>7, <1>9, <1>10, <1>11, <1>12 DEF SegmentInv, IsLeader, Early
<1>14. QED
    BY <1>1, <1>3, <1>8, <1>13

\* All steps keep the segments of their own rank in order.
LEMMA OwnKept ==
    ASSUME Inv, ArenaInv, NEW r \in Rank, Step(r), NEW m \in Model
    PROVE  SegmentInv(m, r)' /\ KeepsOthers(segment[m][r], segment'[m][r], r)
<1> DEFINE s == segment[m][r]
<1>1. /\ s.exists => Leader[r] = r /\ m <= model[r] /\ (m = model[r] => step[r] \notin Early)
      /\ s.exists /\ m # model[r] => s.marked /\ s.full
      /\ s.exists /\ ~s.marked => step[r] \in {"map", "mark", "dead"}
      /\ s.exists /\ ~s.full => Making(r)
    BY OwnSegments
<1>2. CASE Operates(r) /\ UNCHANGED localVars
    <2>1. UNCHANGED <<step, model, segment>> /\ (Making(r) => Making(r)')
        BY <1>2, MakingGoesOn DEF localVars
    <2>2. QED
        BY <1>1, <2>1, SameSegment
<1>3. CASE Quiet(r)
    <2>1. /\ UNCHANGED <<model, segment>> /\ ~Making(r)
          /\ step[r] \notin {"map", "mark", "dead"}
          /\ step[r] \in Early \/ step'[r] \notin Early
        BY <1>3, NotMaking DEF Quiet
    <2>2. QED
        BY <1>1, <2>1, SameSegment
<1>4. CASE Ready(r)
    <2>1. /\ UNCHANGED <<model, segment>>
          /\ step[r] = "initialization" /\ step'[r] = "ready"
        BY <1>4 DEF Ready, Inv, ArenaTypeOK
    <2>2. ~Making(r) /\ step'[r] \notin Early
        BY <2>1, NotMaking DEF Early
    <2>3. QED
        BY <1>1, <2>1, <2>2, SameSegment
<1>5. CASE Unfilled(r)
    <2>1. /\ UNCHANGED <<model, segment>> /\ (Making(r) => Making(r)')
          /\ step[r] = "populate" /\ step'[r] = "population"
        BY <1>5, MakingGoesOn DEF Unfilled
    <2>2. step'[r] \notin Early
        BY <2>1 DEF Early
    <2>3. QED
        BY <1>1, <2>1, <2>2, SameSegment
<1>6. CASE NextModel(r)
    <2>1. /\ UNCHANGED segment /\ model'[r] = model[r] + 1
          /\ step[r] \in {"ready", "failed"}
        BY <1>6 DEF NextModel, Inv, ArenaTypeOK
    <2>2. ~Making(r)
        BY <2>1, NotMaking
    <2>3. model[r] \in Nat /\ m \in Nat
        BY RankTypes
    <2>4. s.exists => s.marked /\ s.full /\ Leader[r] = r /\ m <= model'[r] /\ m # model'[r]
        BY <1>1, <2>1, <2>2, <2>3
    <2>5. ~s.exists => s = NoSegment
        BY OwnSegments
    <2>6. s.marked => s.users # {}
        BY OwnSegments
    <2>7. SegmentInv(m, r)'
        BY <2>1, <2>4, <2>5, <2>6 DEF SegmentInv, IsLeader
    <2>8. QED
        BY <2>1, <2>7 DEF KeepsOthers
<1>7. CASE Closing(r)
    BY <1>7, SoundSegment, ClosingSound DEF Closing
<1>8. CASE Failed(r)
    BY <1>8, SoundSegment, FailedSound DEF Failed, Goto
<1>9. CASE Allocate(r) \/ Map(r) \/ Mark(r) \/ Populate(r)
    <2>1. PICK t : /\ SetMine(r, t)
                   /\ \/ Allocate(r) /\ t = [NoSegment EXCEPT !.exists = TRUE]
                      \/ Map(r) /\ t = [Mine(r) EXCEPT !.users = {r}]
                      \/ Mark(r) /\ t = [Mine(r) EXCEPT !.marked = TRUE]
                      \/ Populate(r) /\ t = [Mine(r) EXCEPT !.full = TRUE]
        BY <1>9 DEF Allocate, Map, Mark, Populate
    <2>2. UNCHANGED model
        BY <1>9 DEF Allocate, Map, Mark, Populate, Goto
    <2>3. QED
        BY <2>1, <2>2, MadeSound, SoundSegment
<1>10. CASE Shmat(r)
    BY <1>10, ShmatSound, SoundSegment DEF Shmat, Goto
<1>11. CASE Dies(r)
    BY <1>11, DeadSegments
<1>12. QED
    BY <1>2, <1>3, <1>4, <1>5, <1>6, <1>7, <1>8, <1>9, <1>10, <1>11, StepCases DEF StepCase

(***************************************************************************)
(* What a step means for what the ranks hold.                              *)
(***************************************************************************)

\* A step of rank r takes from the others and gives them nothing.
LEMMA OthersHold ==
    ASSUME Inv, ArenaInv, NEW r \in Rank, Step(r), NEW q \in Rank, q # r
    PROVE  \A m \in Model :
            /\ Holds(q, m) => Holds(q, m)'
            /\ q \notin segment[m][Leader[q]].users => q \notin segment'[m][Leader[q]].users
<1> SUFFICES ASSUME NEW m \in Model
             PROVE  /\ Holds(q, m) => Holds(q, m)'
                    /\ q \notin segment[m][Leader[q]].users => q \notin segment'[m][Leader[q]].users
    OBVIOUS
<1>1. Leader[q] \in Rank
    BY RankTypes
<1>2. CASE Leader[q] = r
    BY <1>2, OwnKept DEF KeepsOthers, Holds
<1>3. CASE Leader[q] # r
    BY <1>1, <1>3, ForeignKept DEF Holds
<1>4. QED
    BY <1>2, <1>3

\* So the other ranks are where they were.
LEMMA OtherRanks ==
    ASSUME Inv, ArenaInv, NEW r \in Rank, Step(r), NEW q \in Rank, q # r
    PROVE  MakeInv(q)' /\ HoldInv(q)'
<1>1. /\ step'[q] = step[q] /\ model'[q] = model[q] /\ loaded'[q] = loaded[q]
      /\ status'[q] = status[q]
    BY OthersStay
<1>2. MakeInv(q) /\ HoldInv(q)
    BY DEF ArenaInv
<1>3. model[q] \in Model /\ Leader[q] \in Rank /\ loaded[q] \subseteq Model
    BY RankTypes DEF Inv, ArenaTypeOK
<1>4. MakeInv(q)'
    <2>1. CASE step[q] \notin {"map", "mark", "populate", "populated"}
        BY <1>1, <2>1 DEF MakeInv
    <2>2. CASE step[q] \in {"map", "mark", "populate", "populated"}
        <3>1. Leader[q] = q /\ Mine(q) = segment[model[q]][q] /\ Mine(q)' = segment'[model[q]][q]
            BY <1>1, <1>2, <2>2 DEF MakeInv, IsLeader, Mine
        <3>2. step[q] = "populated" => q \in Mine(q).users
            BY <1>2 DEF HoldInv, Served, Holds, Mine
        <3>3. /\ q \in Mine(q).users =>
                    /\ q \in Mine(q)'.users
                    /\ Mine(q)'.exists = Mine(q).exists
                    /\ Mine(q)'.marked = Mine(q).marked
              /\ ~Mine(q).marked =>
                    /\ Mine(q)'.exists = Mine(q).exists
                    /\ ~Mine(q)'.marked
            BY <1>3, <3>1, ForeignKept
        <3>4. QED
            BY <1>1, <1>2, <2>2, <3>2, <3>3 DEF MakeInv
    <2>3. QED
        BY <2>1, <2>2
<1>5. Served(q)' <=> Served(q)
    BY <1>1 DEF Served, IsLeader
<1>6. \A m \in Model :
        /\ Holds(q, m) => Holds(q, m)'
        /\ q \notin segment[m][Leader[q]].users => q \notin segment'[m][Leader[q]].users
    BY OthersHold
<1>7. Holds(q, model[q]) => Holds(q, model[q])'
    BY <1>1, <1>3, <1>6 DEF Holds
<1>8. HoldInv(q)'
    BY <1>1, <1>2, <1>3, <1>5, <1>6, <1>7 DEF HoldInv
<1>9. QED
    BY <1>4, <1>8

\* The models before the one a rank is at, and those before the next.
LEMMA ModelOrder ==
    ASSUME Inv, NEW r \in Rank, NEW m \in Model
    PROVE  /\ m < model[r] => m # model[r]
           /\ m < model[r] + 1 <=> m < model[r] \/ m = model[r]
<1>1. m \in Int /\ model[r] \in Int
    BY RankTypes
<1>2. QED
    BY <1>1

\* A rank on its way from one model to the next keeps what it holds of the models
\* before, when the only segment it touches is that of the model it is at, and is
\* in order when its new step is.
LEMMA OnItsWay ==
    ASSUME Inv, ArenaInv, NEW r \in Rank, UNCHANGED <<model, loaded>>,
           step[r] \notin {"ready", "dead"}, step'[r] \notin {"ready", "dead", "failed"},
           \A m \in Model : m # model[r] => segment'[m][Leader[r]] = segment[m][Leader[r]],
           Served(r)' => Holds(r, model[r])'
    PROVE  HoldInv(r)'
<1>1. HoldInv(r)
    BY DEF ArenaInv
<1>2. model[r] \in Nat /\ Model \subseteq Nat /\ loaded[r] \subseteq Model
    BY RankTypes DEF Inv, ArenaTypeOK
<1>3. \A m \in loaded[r] : m < model[r] /\ m # model[r] /\ m \in Model
    BY <1>1, <1>2, ModelOrder DEF HoldInv
<1>4. \A m \in loaded[r] : Holds(r, m)'
    BY <1>1, <1>3 DEF HoldInv, Holds
<1>5. \A m \in Model : m < model[r] => m \in loaded[r] \/ r \notin segment'[m][Leader[r]].users
    BY <1>1, ModelOrder DEF HoldInv
<1>6. QED
    BY <1>3, <1>4, <1>5 DEF HoldInv

\* A rank that dies is in order.
LEMMA DeadRank ==
    ASSUME Inv, ArenaInv, NEW r \in Rank, Dies(r)
    PROVE  MakeInv(r)' /\ HoldInv(r)'
<1>1. step[r] # "dead" /\ step'[r] = "dead" /\ UNCHANGED <<model, loaded>>
    BY DEF Dies, Inv, ArenaTypeOK
<1>2. ASSUME NEW m \in Model, r \notin segment[m][Leader[r]].users
      PROVE  r \notin segment'[m][Leader[r]].users
    <2>1. segment'[m][Leader[r]] = Detached(segment[m][Leader[r]], r)
        BY RankTypes DEF Dies
    <2>2. QED
        BY <1>2, <2>1 DEF Detached
<1>3. HoldInv(r)
    BY DEF ArenaInv
<1>4. ~Served(r)'
    BY <1>1 DEF Served
<1>5. \A m \in loaded[r] : m < model[r] \/ m = model[r]
    BY <1>3 DEF HoldInv
<1>6. \A m \in Model : m < model[r] => m \in loaded[r] \/ r \notin segment'[m][Leader[r]].users
    BY <1>2, <1>3 DEF HoldInv
<1>7. QED
    BY <1>1, <1>4, <1>5, <1>6 DEF HoldInv, MakeInv

\* So is one that has failed: it is detached.
LEMMA FailedRank ==
    ASSUME Inv, ArenaInv, NEW r \in Rank, Failed(r)
    PROVE  MakeInv(r)' /\ HoldInv(r)'
<1>1. /\ step[r] = "initialization" /\ step'[r] = "failed" /\ UNCHANGED <<model, loaded>>
      /\ SetMine(r, Detached(Mine(r), r))
    BY DEF Failed, Goto, Inv, ArenaTypeOK
<1>2. HoldInv(r)
    BY DEF ArenaInv
<1>3. model[r] \in Model /\ Model \subseteq Nat /\ loaded[r] \subseteq Model /\ Leader[r] \in Rank
    BY RankTypes DEF Inv, ArenaTypeOK
<1>4. PICK s : s = Mine(r)
    OBVIOUS
<1>5. /\ s \in Segment /\ (s.marked => s.users # {})
    <2>1. SegmentInv(model[r], Leader[r])
        BY <1>3 DEF ArenaInv
    <2>2. QED
        BY <1>4, <2>1, RankTypes DEF SegmentInv
<1>6. r \notin Detached(s, r).users
    BY <1>5, DetachedFrom, NothingThere
<1>7. r \notin segment'[model[r]][Leader[r]].users
    BY <1>1, <1>4, <1>6, SetsMine
<1>8. \A m \in Model : m # model[r] => segment'[m][Leader[r]] = segment[m][Leader[r]]
    BY <1>1, <1>3, SetsMine
<1>9. \A m \in loaded[r] : m < model[r] /\ m # model[r] /\ m \in Model
    BY <1>1, <1>2, <1>3, ModelOrder DEF HoldInv
<1>10. \A m \in loaded[r] : Holds(r, m)'
    BY <1>1, <1>2, <1>8, <1>9 DEF HoldInv, Holds
<1>11. \A m \in Model : m < model[r] => m \in loaded[r] \/ r \notin segment'[m][Leader[r]].users
    BY <1>2, <1>8, ModelOrder DEF HoldInv
<1>12. ~Served(r)'
    BY <1>1 DEF Served
<1>13. QED
    BY <1>1, <1>7, <1>9, <1>10, <1>11, <1>12 DEF HoldInv, MakeInv

\* One that goes on to the next model has finished with the one before.
LEMMA NextRank ==
    ASSUME Inv, ArenaInv, NEW r \in Rank, NextModel(r)
    PROVE  MakeInv(r)' /\ HoldInv(r)'
<1>1. /\ step[r] \in {"ready", "failed"} /\ step'[r] = "start"
      /\ model'[r] = model[r] + 1 /\ UNCHANGED <<loaded, segment>>
    BY DEF NextModel, Inv, ArenaTypeOK
<1>2. HoldInv(r)
    BY DEF ArenaInv
<1>3. model[r] \in Nat /\ Model \subseteq Nat /\ loaded[r] \subseteq Model
    BY RankTypes DEF Inv, ArenaTypeOK
<1>4. \A m \in loaded[r] : Holds(r, m)' /\ m < model'[r]
    <2>1. \A m \in loaded[r] : m \in Model /\ (m < model[r] \/ m = model[r]) /\ Holds(r, m)
        BY <1>1, <1>2, <1>3 DEF HoldInv
    <2>2. QED
        BY <1>1, <2>1, ModelOrder DEF Holds
<1>5. \A m \in Model : m < model'[r] => m \in loaded[r] \/ r \notin segment[m][Leader[r]].users
    <2>1. \A m \in Model : m < model'[r] => m < model[r] \/ m = model[r]
        BY <1>1, ModelOrder
    <2>2. QED
        BY <1>1, <1>2, <2>1 DEF HoldInv
<1>6. ~Served(r)'
    BY <1>1 DEF Served
<1>7. QED
    BY <1>1, <1>4, <1>5, <1>6 DEF HoldInv, MakeInv

\* One that completes a model holds it.
LEMMA ReadyRank ==
    ASSUME Inv, ArenaInv, NEW r \in Rank, Ready(r)
    PROVE  MakeInv(r)' /\ HoldInv(r)'
<1>1. /\ step[r] = "initialization" /\ step'[r] = "ready" /\ UNCHANGED <<model, segment>>
      /\ loaded'[r] = loaded[r] \cup {model[r]} /\ status[r].ok
    BY ReturnedOk DEF Ready, Leave, Inv, ArenaTypeOK
<1>2. HoldInv(r)
    BY DEF ArenaInv
<1>3. Holds(r, model[r])
    BY <1>1, <1>2 DEF HoldInv, Served
<1>4. \A m \in loaded'[r] : Holds(r, m)'
    BY <1>1, <1>2, <1>3 DEF HoldInv, Holds
<1>5. ~Served(r)'
    BY <1>1 DEF Served
<1>6. \A m \in loaded'[r] : m < model[r] \/ m = model[r]
    BY <1>1, <1>2 DEF HoldInv
<1>7. \A m \in Model : m < model[r] => m \in loaded'[r] \/ r \notin segment[m][Leader[r]].users
    BY <1>1, <1>2 DEF HoldInv
<1>8. QED
    BY <1>1, <1>4, <1>5, <1>6, <1>7 DEF HoldInv, MakeInv

\* One that makes its segment, or attaches to it, has what its step needs.
LEMMA MakingRank ==
    ASSUME Inv, ArenaInv, NEW r \in Rank, Step(r),
           Allocate(r) \/ Map(r) \/ Mark(r) \/ Populate(r) \/ Shmat(r)
    PROVE  MakeInv(r)' /\ HoldInv(r)'
<1>1. PICK s : s = Mine(r)
    OBVIOUS
<1>2. s \in Segment /\ MakeInv(r) /\ UNCHANGED <<model, loaded>>
    BY <1>1, RankTypes DEF ArenaInv, Allocate, Map, Mark, Populate, Shmat, Goto
<1>3. model[r] \in Model /\ Leader[r] \in Rank
    BY RankTypes
<1>4. ASSUME NEW t, SetMine(r, t)
      PROVE  /\ Mine(r)' = t
             /\ \A m \in Model : m # model[r] => segment'[m][Leader[r]] = segment[m][Leader[r]]
             /\ r \in t.users /\ t.full => Holds(r, model[r])'
    BY <1>2, <1>3, <1>4, SetsMine DEF Mine, Holds
<1>5. CASE Allocate(r)
    <2>1. PICK t : t = [NoSegment EXCEPT !.exists = TRUE]
        OBVIOUS
    <2>2. /\ step[r] = "make" /\ step'[r] = "map" /\ IsLeader(r) /\ SetMine(r, t)
        BY <1>5, <2>1 DEF Allocate, Goto, Inv, ArenaTypeOK
    <2>3. t.exists /\ ~t.marked
        BY <2>1 DEF NoSegment
    <2>4. ~Served(r)'
        BY <2>2 DEF Served
    <2>5. MakeInv(r)'
        BY <1>4, <2>2, <2>3 DEF MakeInv, IsLeader
    <2>6. QED
        BY <1>2, <1>4, <2>2, <2>4, <2>5, OnItsWay
<1>6. CASE Map(r)
    <2>1. PICK t : t = [s EXCEPT !.users = {r}]
        OBVIOUS
    <2>2. /\ step[r] = "map" /\ step'[r] = "mark" /\ SetMine(r, t)
        BY <1>1, <1>6, <2>1 DEF Map, Goto, Inv, ArenaTypeOK
    <2>3. IsLeader(r) /\ s.exists /\ ~s.marked
        BY <1>1, <1>2, <2>2 DEF MakeInv
    <2>4. t.exists /\ ~t.marked /\ t.users = {r}
        BY <1>2, <2>1, <2>3 DEF Segment
    <2>5. ~Served(r)'
        BY <2>2 DEF Served
    <2>6. MakeInv(r)'
        BY <1>4, <2>2, <2>3, <2>4 DEF MakeInv, IsLeader
    <2>7. QED
        BY <1>2, <1>4, <2>2, <2>5, <2>6, OnItsWay
<1>7. CASE Mark(r)
    <2>1. PICK t : t = [s EXCEPT !.marked = TRUE]
        OBVIOUS
    <2>2. /\ step[r] = "mark" /\ step'[r] = "populate" /\ SetMine(r, t)
        BY <1>1, <1>7, <2>1 DEF Mark, Goto, Inv, ArenaTypeOK
    <2>3. IsLeader(r) /\ s.exists /\ r \in s.users
        BY <1>1, <1>2, <2>2 DEF MakeInv
    <2>4. t.exists /\ t.marked /\ r \in t.users
        BY <1>2, <2>1, <2>3 DEF Segment
    <2>5. ~Served(r)'
        BY <2>2 DEF Served
    <2>6. MakeInv(r)'
        BY <1>4, <2>2, <2>3, <2>4 DEF MakeInv, IsLeader
    <2>7. QED
        BY <1>2, <1>4, <2>2, <2>5, <2>6, OnItsWay
<1>8. CASE Populate(r)
    <2>1. PICK t : t = [s EXCEPT !.full = TRUE]
        OBVIOUS
    <2>2. /\ step[r] = "populate" /\ step'[r] = "populated" /\ SetMine(r, t)
        BY <1>1, <1>8, <2>1 DEF Populate, Goto, Inv, ArenaTypeOK
    <2>3. IsLeader(r) /\ s.exists /\ r \in s.users
        BY <1>1, <1>2, <2>2 DEF MakeInv
    <2>4. t.exists /\ t.full /\ r \in t.users
        BY <1>2, <2>1, <2>3 DEF Segment
    <2>5. MakeInv(r)'
        BY <1>4, <2>2, <2>3, <2>4 DEF MakeInv, IsLeader
    <2>6. QED
        BY <1>2, <1>4, <2>2, <2>4, <2>5, OnItsWay
<1>9. CASE Shmat(r)
    <2>1. PICK t : t = [s EXCEPT !.users = @ \cup {r}]
        OBVIOUS
    <2>2. /\ step[r] = "shmat" /\ step'[r] = "register" /\ SetMine(r, t) /\ s.exists
        BY <1>1, <1>9, <2>1 DEF Shmat, Goto, Inv, ArenaTypeOK
    <2>3. s.full
        BY <1>1, <2>2, AttachSeesWhole
    <2>4. t.full /\ r \in t.users
        BY <1>2, <2>1, <2>3 DEF Segment
    <2>5. MakeInv(r)'
        BY <2>2 DEF MakeInv
    <2>6. QED
        BY <1>2, <1>4, <2>2, <2>4, <2>5, OnItsWay
<1>10. QED
    BY <1>5, <1>6, <1>7, <1>8, <1>9

\* All steps keep their own rank in order.
LEMMA OwnRank ==
    ASSUME Inv, ArenaInv, NEW r \in Rank, Step(r)
    PROVE  MakeInv(r)' /\ HoldInv(r)'
<1>1. MakeInv(r) /\ HoldInv(r)
    BY DEF ArenaInv
<1>2. CASE Operates(r) /\ UNCHANGED localVars
    <2>1. UNCHANGED <<step, status, model, loaded, segment>>
        BY <1>2, OperationLocal DEF localVars
    <2>2. QED
        BY <1>1, <2>1 DEF MakeInv, HoldInv, Served, Holds, Mine, IsLeader
<1>3. CASE Quiet(r)
    <2>1. /\ UNCHANGED <<model, loaded, segment>>
          /\ step[r] \notin {"ready", "dead"} /\ step'[r] \notin {"ready", "dead", "failed"}
          /\ step'[r] \notin {"map", "mark", "populate", "populated"}
          /\ Served(r)' => Served(r)
        BY <1>3 DEF Quiet
    <2>2. Served(r)' => Holds(r, model[r])'
        BY <1>1, <2>1 DEF HoldInv, Holds
    <2>3. QED
        BY <2>1, <2>2, OnItsWay DEF MakeInv
<1>4. CASE Unfilled(r)
    <2>1. /\ UNCHANGED <<model, loaded, segment>>
          /\ step[r] = "populate" /\ step'[r] = "population" /\ ~status'[r].ok
        BY <1>4 DEF Unfilled
    <2>2. ~Served(r)'
        BY <2>1 DEF Served
    <2>3. QED
        BY <2>1, <2>2, OnItsWay DEF MakeInv
<1>5. CASE Closing(r)
    <2>1. /\ UNCHANGED <<model, loaded>> /\ SetMine(r, Closed(Mine(r), r))
          /\ step[r] \notin {"ready", "dead"} /\ step'[r] \notin {"ready", "dead", "failed"}
          /\ step'[r] \in {"population", "registration", "error"} /\ ~status'[r].ok
        BY <1>5 DEF Closing
    <2>2. ~Served(r)'
        BY <2>1 DEF Served
    <2>3. \A m \in Model : m # model[r] => segment'[m][Leader[r]] = segment[m][Leader[r]]
        BY <2>1, SetsMine, RankTypes
    <2>4. QED
        BY <2>1, <2>2, <2>3, OnItsWay DEF MakeInv
<1>6. QED
    BY <1>2, <1>3, <1>4, <1>5, StepCases, MakingRank, ReadyRank, FailedRank, NextRank, DeadRank
    DEF StepCase

(***************************************************************************)
(* The theorems.                                                           *)
(***************************************************************************)

\* The invariant holds at the start.
LEMMA InitArenaInv == Init => ArenaInv
<1> SUFFICES ASSUME Init
             PROVE  ArenaInv
    OBVIOUS
<1>1. /\ \A r \in Rank : step[r] = "start" /\ model[r] = 1 /\ loaded[r] = {}
      /\ \A m \in Model, l \in Rank : segment[m][l] = NoSegment
    BY DEF Init
<1>2. \A m \in Model, l \in Rank : SegmentInv(m, l)
    BY <1>1, NothingThere DEF SegmentInv
<1>3. ASSUME NEW r \in Rank
      PROVE  MakeInv(r) /\ HoldInv(r)
    <2>1. ~Served(r)
        BY <1>1 DEF Served
    <2>2. \A m \in Model : ~(m < 1)
        BY DEF Model
    <2>3. QED
        BY <1>1, <2>1, <2>2 DEF MakeInv, HoldInv
<1>4. QED
    BY <1>2, <1>3 DEF ArenaInv

\* And every step keeps it.
LEMMA StepArenaInv ==
    ASSUME Inv, ArenaInv, [Next]_vars
    PROVE  ArenaInv'
<1>1. CASE Next
    <2>1. PICK r \in Rank : Step(r)
        BY <1>1 DEF Next, Step
    <2>2. \A m \in Model, l \in Rank : SegmentInv(m, l)'
        BY <2>1, OwnKept, ForeignKept
    <2>3. \A q \in Rank : MakeInv(q)' /\ HoldInv(q)'
        BY <2>1, OwnRank, OtherRanks
    <2>4. QED
        BY <2>2, <2>3 DEF ArenaInv
<1>2. CASE UNCHANGED vars
    BY <1>2
    DEF ArenaInv, SegmentInv, MakeInv, HoldInv, Making, Agreed, Served, Holds, Mine, IsLeader,
        vars, exchangeVars, storeVars, callVars, localVars
<1>3. QED
    BY <1>1, <1>2

\* The segments and what the ranks hold of them are in order at all times.
THEOREM ArenaInvAlways == Safety => []ArenaInv
<1>1. Inv /\ ArenaInv /\ [Next]_vars => ArenaInv'
    BY StepArenaInv
<1>2. QED
    BY <1>1, InitArenaInv, InvAlways, PTL DEF Safety

\* A rank that goes on with a model, or has completed it, is attached to the
\* segment of its group, and the segment is filled (WholeWeights;
\* materialize_shared_weight_arena).
THEOREM WeightsAreWhole == Safety => []WholeWeights
<1>1. ArenaInv => WholeWeights
    BY DEF ArenaInv, HoldInv, Served, Holds, WholeWeights, Mine
<1>2. QED
    BY <1>1, ArenaInvAlways, PTL

\* A segment that nobody is attached to is one whose creator is inside create, or
\* died in it before IPC_RMID (NoOrphan; SysVSegment.create).
THEOREM NothingOrphaned == Safety => []NoOrphan
<1>1. ArenaInv => NoOrphan
    BY DEF ArenaInv, SegmentInv, NoOrphan
<1>2. QED
    BY <1>1, ArenaInvAlways, PTL

\* A rank that failed to initialize a model is not attached to its segment
\* (FailedHoldsNothing; the exception handlers of _init_weights and of
\* materialize_shared_weight_arena).
THEOREM FailureReleases == Safety => []FailedHoldsNothing
<1>1. ArenaInv => FailedHoldsNothing
    BY DEF ArenaInv, HoldInv, FailedHoldsNothing
<1>2. QED
    BY <1>1, ArenaInvAlways, PTL
=============================================================================
