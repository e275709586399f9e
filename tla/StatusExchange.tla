--------------------------- MODULE StatusExchange ---------------------------
(***************************************************************************)
(* _CPUStatusExchange of common/offload/shared_weight_coordinator.py: the  *)
(* ranks of a job tell one another, stage after stage, whether they        *)
(* succeeded.  Each rank numbers its calls of exchange, posts a status     *)
(* under the number and waits for the statuses of the others; a failure is *)
(* kept for good, and ends every exchange.                                 *)
(*                                                                         *)
(* The Store is a server that executes one operation at a time, so every   *)
(* operation on it is a step.  Keys are never deleted, which makes a check *)
(* that finds a key and the get that follows one step.                     *)
(***************************************************************************)
EXTENDS Integers

CONSTANTS
    World,        \* world_size
    Outages,      \* whether processes die, connections break, waits time out
    MaxExchanges, \* bound on the calls of exchange on one rank
    MaxFaults     \* bound on what goes wrong, here and on the ranks

ASSUME ExchangeAssumption ==
    /\ World \in Nat \ {0} /\ MaxExchanges \in Nat \ {0} /\ MaxFaults \in Nat
    /\ Outages \in BOOLEAN

Rank == 0..World - 1
Exchange == 0..MaxExchanges - 1

NoStatus == [stage |-> "none", ok |-> FALSE, data |-> "none"]
NoMessage == [rank |-> World, why |-> "none"]

VARIABLES
    posted,    \* the Store: posted[r][n] is the status under "n/r"
    failure,   \* the Store: the message under "failure"
    sequence,  \* the number of each rank's next call
    at,        \* where each rank is in exchange, "out" outside
    status,    \* the status it was called with
    pending,   \* the ranks it waits for
    looking,   \* those of them it has yet to look for in this round
    message,   \* what it is going to abort with
    cause,     \* what exchange raised last
    faults

storeVars == <<posted, failure>>
callVars == <<sequence, at, status, pending, looking, message, cause>>
exchangeVars == <<storeVars, callVars, faults>>

\* The number of rank r's call.
Number(r) == sequence[r] - 1

\* The peer it looks for next: sets of small integers iterate in order.
NextPeer(r) == CHOOSE p \in looking[r] : \A q \in looking[r] : p <= q

\* Rank r, in exchange, goes on to another operation.
Moves(r, from, to) ==
    /\ at[r] = from
    /\ at' = [at EXCEPT ![r] = to]
    /\ UNCHANGED <<sequence, status, faults>>

\* The call of exchange.
Enter(r, s) ==
    /\ sequence[r] < MaxExchanges
    /\ sequence' = [sequence EXCEPT ![r] = @ + 1]
    /\ at' = [at EXCEPT ![r] = "post"]
    /\ status' = [status EXCEPT ![r] = s]
    /\ pending' = [pending EXCEPT ![r] = Rank]
    /\ UNCHANGED <<storeVars, looking, message, cause>>

\* exchange has ended; its locals are gone.
Leave(r, how) ==
    /\ at[r] = how
    /\ at' = [at EXCEPT ![r] = "out"]
    /\ status' = [status EXCEPT ![r] = NoStatus]
    /\ pending' = [pending EXCEPT ![r] = {}]
    /\ looking' = [looking EXCEPT ![r] = {}]
    /\ message' = [message EXCEPT ![r] = NoMessage]
    /\ UNCHANGED <<storeVars, sequence, cause>>

\* Goes on to _abort with message m.
Aborts(r, from, m) ==
    /\ Moves(r, from, "abort")
    /\ message' = [message EXCEPT ![r] = m]
    /\ UNCHANGED <<storeVars, pending, looking, cause>>

\* Faulty: a rank that failed raises at once.
PostSuccess(r) ==
    /\ Moves(r, "post", IF status[r].ok THEN "check" ELSE "raised")
    /\ posted' = IF status[r].ok THEN [posted EXCEPT ![r][Number(r)] = status[r]] ELSE posted
    /\ UNCHANGED <<failure, pending, looking, message, cause>>

Post(r) ==
    /\ Moves(r, "post", IF status[r].ok THEN "check" ELSE "abort")
    /\ posted' = [posted EXCEPT ![r][Number(r)] = status[r]]
    /\ message' = [message EXCEPT ![r] = [rank |-> r, why |-> "failed"]]
    /\ UNCHANGED <<failure, pending, looking, cause>>

\* Faulty: the last failure is kept.
AbortOverwrites(r) ==
    /\ Moves(r, "abort", "raised")
    /\ failure' = message[r]
    /\ cause' = [cause EXCEPT ![r] = failure']
    /\ UNCHANGED <<posted, pending, looking, message>>

\* _abort: the first failure is kept, and raised.
Abort(r) ==
    /\ Moves(r, "abort", "raised")
    /\ failure' = IF failure = NoMessage THEN message[r] ELSE failure
    /\ cause' = [cause EXCEPT ![r] = failure']
    /\ UNCHANGED <<posted, pending, looking, message>>

\* A round begins with the failure key.
Check(r) ==
    /\ IF failure = NoMessage
       THEN /\ Moves(r, "check", "look")
            /\ looking' = [looking EXCEPT ![r] = pending[r]]
            /\ UNCHANGED cause
       ELSE /\ Moves(r, "check", "raised")
            /\ cause' = [cause EXCEPT ![r] = failure]
            /\ UNCHANGED looking
    /\ UNCHANGED <<storeVars, pending, message>>

\* Faulty: whoever has posted something is there.
AcceptableIfPosted(r, s) == TRUE

Acceptable(r, s) == s.stage = status[r].stage /\ s.ok

\* What becomes of rank r when it has looked for peer p.
Looked(r, p, left) ==
    /\ pending' = [pending EXCEPT ![r] = left]
    /\ looking' = [looking EXCEPT ![r] = @ \ {p}]
    /\ Moves(r, "look", IF looking[r] # {p} THEN "look"
                        ELSE IF left = {} THEN "returned" ELSE "again")
    /\ UNCHANGED <<storeVars, message, cause>>

LookMissing(r) ==
    /\ at[r] = "look" /\ posted[NextPeer(r)][Number(r)] = NoStatus
    /\ Looked(r, NextPeer(r), pending[r])

LookFound(r) ==
    /\ at[r] = "look"
    /\ LET p == NextPeer(r)
           s == posted[p][Number(r)]
       IN  /\ s # NoStatus
           /\ \/ Acceptable(r, s) /\ Looked(r, p, pending[r] \ {p})
              \/ /\ ~Acceptable(r, s)
                 /\ Aborts(r, "look", IF s.stage = status[r].stage
                                      THEN [rank |-> p, why |-> "failed"]
                                      ELSE [rank |-> r, why |-> "mismatch"])

Sleep(r) ==
    /\ Moves(r, "again", "check")
    /\ UNCHANGED <<storeVars, pending, looking, message, cause>>

TimedOut(r) == Outages /\ Aborts(r, "again", [rank |-> r, why |-> "timeout"])

\* The exception handler: an operation on the Store fails.  So may the _abort
\* that is to tell the others.
Disconnected(r) ==
    /\ Outages /\ faults < MaxFaults /\ faults' = faults + 1
    /\ at[r] \in {"post", "check", "look", "abort"}
    /\ LET m == [rank |-> r, why |-> "lost"]
       IN  \/ /\ at' = [at EXCEPT ![r] = "abort"]
              /\ message' = [message EXCEPT ![r] = m]
              /\ UNCHANGED cause
           \/ /\ at' = [at EXCEPT ![r] = "raised"]
              /\ cause' = [cause EXCEPT ![r] = m]
              /\ UNCHANGED message
    /\ UNCHANGED <<storeVars, sequence, status, pending, looking>>

ExchangeInit ==
    /\ posted = [r \in Rank |-> [n \in Exchange |-> NoStatus]]
    /\ failure = NoMessage
    /\ sequence = [r \in Rank |-> 0]
    /\ at = [r \in Rank |-> "out"]
    /\ status = [r \in Rank |-> NoStatus]
    /\ pending = [r \in Rank |-> {}]
    /\ looking = [r \in Rank |-> {}]
    /\ message = [r \in Rank |-> NoMessage]
    /\ cause = [r \in Rank |-> NoMessage]
    /\ faults = 0

\* One operation of exchange on rank r.
ExchangeStep(r) ==
    Post(r) \/ Abort(r) \/ Check(r) \/ LookMissing(r) \/ LookFound(r) \/ Sleep(r) \/ TimedOut(r)

----------------------------------------------------------------------------

Status == [stage : {"none", "preflight", "discovery", "population", "registration",
                    "initialization"},
           ok : BOOLEAN, data : {"none", "same", "other"}]
Message == [rank : 0..World, why : {"none", "failed", "mismatch", "timeout", "lost"}]

\* The values the variables range over.
ExchangeTypeOK ==
    /\ posted \in [Rank -> [Exchange -> Status]]
    /\ failure \in Message
    /\ sequence \in [Rank -> 0..MaxExchanges]
    /\ at \in [Rank -> {"out", "post", "check", "look", "again", "abort", "returned", "raised"}]
    /\ status \in [Rank -> Status]
    /\ pending \in [Rank -> SUBSET Rank]
    /\ looking \in [Rank -> SUBSET Rank]
    /\ message \in [Rank -> Message]
    /\ cause \in [Rank -> Message]
    /\ faults \in 0..MaxFaults

\* All ranks see the same cause, the first one ("Keep a terminal failure so late
\* ranks and enclosing initialization error handlers observe the same cause"),
\* unless their own connection to the Store was lost.
SameCause ==
    \A r \in Rank : cause[r].why \notin {"none", "lost"} => cause[r] = failure

=============================================================================
