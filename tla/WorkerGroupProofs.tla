-------------------------- MODULE WorkerGroupProofs --------------------------
(***************************************************************************)
(* Theorems about WorkerGroup: for every number of ranks, of calls of      *)
(* check_stop in a request, and of requests.                               *)
(***************************************************************************)
EXTENDS WorkerGroup, TLAPS

(***************************************************************************)
(* The inductive invariant.                                                *)
(*                                                                         *)
(* What a rank does next follows from the last collective it entered and   *)
(* what that collective told it.  The invariant compares the ranks by      *)
(* their last collectives: those with as many collectives behind them have *)
(* the same last one, and a rank that is one ahead of another entered the  *)
(* one that follows the other's.                                           *)
(***************************************************************************)

\* The number of collectives rank r has entered, and of those anyone has.
At(r) == attended[r]["world"]
Count == Len(meetings["world"])

\* The last of them: its operation, the request, and the step if it is
\* check_stop's.
LastOp(r) == IF pc[r] = "agree" \/ (pc[r] = "run" /\ step[r] > 1) THEN "stop" ELSE "barrier"
LastTurn(r) == IF pc[r] = "run" /\ step[r] = 1 THEN turn[r] - 1 ELSE turn[r]
LastStep(r) == IF pc[r] = "run" THEN step[r] - 1 ELSE step[r]

\* What comes after the agreement of step k in request n: another step, or the
\* end.
Verdict(stopped, n, k) ==
    IF stopped THEN "stopped"
    ELSE IF k = requests[n].broken THEN "failed"
    ELSE IF k = Steps THEN "ok" ELSE "go"
NextOf(r) == Verdict(meetings["world"][At(r)].stopped, LastTurn(r), LastStep(r))

MeetingType ==
    [ops : SUBSET {"stop", "barrier"}, ranks : SUBSET Rank, stopped : BOOLEAN, failed : BOOLEAN]

Types ==
    /\ requests \in Seq(PlainRequest) /\ Len(requests) <= MaxRequests
    /\ cancelled \subseteq 1..Len(requests)
    /\ pc \in [Rank -> {"idle", "run", "agree", "barrier"}]
    /\ turn \in [Rank -> 0..Len(requests)]
    /\ step \in [Rank -> 1..Steps]
    /\ outcome \in [Rank -> [1..MaxRequests -> Outcome]]
    /\ meetings \in [Group -> Seq(MeetingType)]
    /\ attended \in [Rank -> [Group -> Nat]]

\* Rank 0 has begun all requests; a rank in a request has one.
Turns ==
    /\ turn[0] = Len(requests)
    /\ \A r \in Rank : pc[r] # "idle" => turn[r] >= 1

\* A collective is attended by the ranks that have come that far, at least
\* one of them, and by none for another operation.
Attendance ==
    /\ \A r \in Rank : attended[r]["ctrl"] = 0
    /\ \A r \in Rank : At(r) <= Count
    /\ \A n \in 1..Count :
        /\ meetings["world"][n].ranks = {r \in Rank : At(r) >= n}
        /\ meetings["world"][n].ranks # {}
        /\ \E op \in {"stop", "barrier"} : meetings["world"][n].ops = {op}
    /\ meetings["ctrl"] = <<>>
    /\ \A r \in Rank : At(r) >= 1 => meetings["world"][At(r)].ops = {LastOp(r)}

\* A rank leaves a collective when all have entered it.
NoneBehind == \A r, s \in Rank : pc[r] \in {"run", "idle"} => At(r) <= At(s)

SamePlace ==
    \A r, s \in Rank : At(r) = At(s) =>
        /\ LastOp(r) = LastOp(s) /\ LastTurn(r) = LastTurn(s)
        /\ LastOp(r) = "stop" => LastStep(r) = LastStep(s)

NextPlace ==
    \A r, s \in Rank : At(r) = At(s) + 1 =>
        /\ pc[r] \in {"agree", "barrier"}
        /\ LastOp(s) = "barrier" =>
            pc[r] = "agree" /\ turn[r] = LastTurn(s) + 1 /\ step[r] = 1
        /\ LastOp(s) = "stop" =>
            /\ turn[r] = LastTurn(s)
            /\ pc[r] = "agree" => step[r] = LastStep(s) + 1 /\ NextOf(s) = "go"
            /\ pc[r] = "barrier" =>
                /\ step[r] = LastStep(s)
                /\ outcome[r][turn[r]] = NextOf(s) /\ NextOf(s) # "go"

WentOn == \A r \in Rank : pc[r] = "run" /\ step[r] > 1 => At(r) >= 1 /\ NextOf(r) = "go"

\* A rank that waits has entered something.
Entered == \A r \in Rank : pc[r] \in {"agree", "barrier"} => At(r) >= 1

\* Which requests have ended on a rank, and that they ended alike.
Ended ==
    \A r \in Rank : \A n \in 1..MaxRequests :
        outcome[r][n] # "none" <=> n < turn[r] \/ (n = turn[r] /\ pc[r] \in {"barrier", "idle"})
EndedAlike ==
    /\ \A r, s \in Rank : \A n \in 1..MaxRequests :
        "none" \notin {outcome[r][n], outcome[s][n]} => outcome[r][n] = outcome[s][n]
    /\ \A r, s \in Rank :
        {pc[r], pc[s]} \subseteq {"barrier", "idle"} /\ turn[r] = turn[s] => step[r] = step[s]

Close == \A r, s \in Rank : At(r) <= At(s) + 1

Inv ==
    /\ Types /\ Turns /\ Attendance /\ NoneBehind /\ Close
    /\ SamePlace /\ NextPlace /\ WentOn /\ Entered /\ Ended /\ EndedAlike

(***************************************************************************)
(* Entering a collective.                                                  *)
(***************************************************************************)

\* What Enter does to the collectives: rank r is in its next one, the others
\* are as they were.
LEMMA EnterEffect ==
    ASSUME Types, Attendance, NEW r \in Rank, NEW op \in {"stop", "barrier"},
           NEW stopped \in BOOLEAN, Enter(r, "world", op, stopped, FALSE)
    PROVE  /\ meetings' \in [Group -> Seq(MeetingType)]
           /\ attended' \in [Rank -> [Group -> Nat]]
           /\ At(r)' = At(r) + 1
           /\ \A x \in Rank \ {r} : At(x)' = At(x)
           /\ \A x \in Rank : attended'[x]["ctrl"] = attended[x]["ctrl"]
           /\ meetings'["ctrl"] = meetings["ctrl"]
           /\ Count' = IF At(r) = Count THEN Count + 1 ELSE Count
           /\ \A n \in 1..Count : n # At(r) + 1 => meetings'["world"][n] = meetings["world"][n]
           /\ At(r) = Count =>
                /\ meetings'["world"][At(r) + 1].ops = {op}
                /\ meetings'["world"][At(r) + 1].ranks = {r}
           /\ At(r) # Count =>
                /\ meetings'["world"][At(r) + 1].ops = meetings["world"][At(r) + 1].ops \cup {op}
                /\ meetings'["world"][At(r) + 1].ranks = meetings["world"][At(r) + 1].ranks \cup {r}
<1> DEFINE n == At(r) + 1
           M == meetings["world"]
<1>1. M \in Seq(MeetingType) /\ At(r) \in Nat /\ At(r) <= Count /\ Count = Len(M) /\ Count \in Nat
    BY DEF Types, Attendance, At, Count, Group
<1>2. /\ attended' = [attended EXCEPT ![r]["world"] = n]
      /\ meetings' = IF n > Len(M)
                     THEN [meetings EXCEPT !["world"] =
                            Append(M, Joined(NewMeeting, r, op, stopped, FALSE))]
                     ELSE [meetings EXCEPT !["world"] =
                            [M EXCEPT ![n] = Joined(M[n], r, op, stopped, FALSE)]]
    BY DEF Enter, At, Types, Group
<1>3. /\ attended' \in [Rank -> [Group -> Nat]]
      /\ At(r)' = n
      /\ \A x \in Rank \ {r} : At(x)' = At(x)
      /\ \A x \in Rank : attended'[x]["ctrl"] = attended[x]["ctrl"]
    BY <1>1, <1>2 DEF Types, At, Group
<1>4. CASE At(r) = Count
    <2> DEFINE J == Joined(NewMeeting, r, op, stopped, FALSE)
    <2>1. J \in MeetingType /\ J.ops = {op} /\ J.ranks = {r}
        BY DEF Joined, NewMeeting, MeetingType
    <2>2. meetings' = [meetings EXCEPT !["world"] = Append(M, J)]
        BY <1>1, <1>2, <1>4
    <2> HIDE DEF J
    <2>3. Append(M, J) \in Seq(MeetingType) /\ Len(Append(M, J)) = Count + 1
          /\ Append(M, J)[Count + 1] = J
          /\ \A k \in 1..Count : Append(M, J)[k] = M[k]
        BY <1>1, <2>1
    <2>4. /\ meetings' \in [Group -> Seq(MeetingType)]
          /\ meetings'["world"] = Append(M, J) /\ meetings'["ctrl"] = meetings["ctrl"]
        BY <2>2, <2>3 DEF Types, Group
    <2>5. QED
        BY <1>1, <1>3, <1>4, <2>1, <2>3, <2>4 DEF Count
<1>5. CASE At(r) # Count
    <2> DEFINE J == Joined(M[n], r, op, stopped, FALSE)
    <2>0. n \in 1..Len(M) /\ M[n] \in MeetingType
        BY <1>1, <1>5
    <2>1. J \in MeetingType /\ J.ops = M[n].ops \cup {op} /\ J.ranks = M[n].ranks \cup {r}
        BY <2>0 DEF Joined, MeetingType
    <2>2. meetings' = [meetings EXCEPT !["world"] = [M EXCEPT ![n] = J]]
        BY <1>1, <1>2, <1>5
    <2> HIDE DEF J
    <2>3. /\ [M EXCEPT ![n] = J] \in Seq(MeetingType) /\ Len([M EXCEPT ![n] = J]) = Count
          /\ [M EXCEPT ![n] = J][n] = J
          /\ \A k \in 1..Count : k # n => [M EXCEPT ![n] = J][k] = M[k]
        BY <1>1, <2>0, <2>1
    <2>4. /\ meetings' \in [Group -> Seq(MeetingType)]
          /\ meetings'["world"] = [M EXCEPT ![n] = J] /\ meetings'["ctrl"] = meetings["ctrl"]
        BY <2>2, <2>3 DEF Types, Group
    <2>5. QED
        BY <1>1, <1>3, <1>5, <2>1, <2>3, <2>4 DEF Count
<1>6. QED
    BY <1>4, <1>5

\* Rank r enters a collective that all others have reached, and as others
\* have entered it already.
LEMMA EnterAttendance ==
    ASSUME Types, Attendance, NEW r \in Rank, NEW op \in {"stop", "barrier"},
           NEW stopped \in BOOLEAN, Enter(r, "world", op, stopped, FALSE),
           \A x \in Rank : At(x) = At(r) + 1 => LastOp(x) = op,
           Close, \A x \in Rank : At(r) <= At(x),
           LastOp(r)' = op, \A x \in Rank \ {r} : LastOp(x)' = LastOp(x)
    PROVE  Attendance' /\ Close'
<1> DEFINE n == At(r) + 1
<1>e. /\ meetings' \in [Group -> Seq(MeetingType)]
      /\ attended' \in [Rank -> [Group -> Nat]]
      /\ At(r)' = At(r) + 1
      /\ \A x \in Rank \ {r} : At(x)' = At(x)
      /\ \A x \in Rank : attended'[x]["ctrl"] = attended[x]["ctrl"]
      /\ meetings'["ctrl"] = meetings["ctrl"]
      /\ Count' = IF At(r) = Count THEN Count + 1 ELSE Count
      /\ \A k \in 1..Count : k # n => meetings'["world"][k] = meetings["world"][k]
      /\ At(r) = Count =>
           /\ meetings'["world"][n].ops = {op}
           /\ meetings'["world"][n].ranks = {r}
      /\ At(r) # Count =>
           /\ meetings'["world"][n].ops = meetings["world"][n].ops \cup {op}
           /\ meetings'["world"][n].ranks = meetings["world"][n].ranks \cup {r}
    BY EnterEffect
<1>0. /\ Count \in Nat /\ Count' \in Nat /\ \A x \in Rank : At(x) \in Nat /\ At(x)' \in Nat
      /\ \A x \in Rank : At(x) <= Count /\ At(x) <= n
    <2>1. Count \in Nat /\ \A x \in Rank : At(x) \in Nat
        BY DEF Types, At, Count, Group
    <2>2. \A x \in Rank : At(x)' \in Nat
        BY <1>e, <2>1
    <2>3. QED
        BY <1>e, <2>1, <2>2 DEF Attendance, Close
<1>1. \A x \in Rank : At(x)' <= Count'
    BY <1>e, <1>0
<1>2. n <= Count => meetings["world"][n].ops = {op}
    <2> SUFFICES ASSUME n <= Count
                 PROVE  meetings["world"][n].ops = {op}
        OBVIOUS
    <2>0. n \in 1..Count
        BY <1>0
    <2>1. PICK x \in Rank : At(x) >= n
        <3>1. /\ meetings["world"][n].ranks = {x \in Rank : At(x) >= n}
              /\ meetings["world"][n].ranks # {}
            BY <2>0 DEF Attendance
        <3>2. QED
            BY <3>1
    <2>2. At(x) = n /\ At(x) >= 1
        BY <1>e, <1>0, <2>1
    <2>3. QED
        BY <2>2 DEF Attendance
<1>3. /\ meetings'["world"][n].ops = {op}
      /\ meetings'["world"][n].ranks = {x \in Rank : At(x)' >= n}
    <2>1. CASE At(r) = Count
        <3>1. \A x \in Rank \ {r} : ~(At(x)' >= n)
            BY <1>e, <1>0, <2>1
        <3>2. QED
            BY <1>e, <1>0, <2>1, <3>1
    <2>2. CASE At(r) # Count
        <3>1. n \in 1..Count /\ meetings["world"][n].ranks = {x \in Rank : At(x) >= n}
            BY <1>e, <1>0, <2>2 DEF Attendance
        <3>2. {x \in Rank : At(x)' >= n} = {x \in Rank : At(x) >= n} \cup {r}
            BY <1>e, <1>0
        <3>3. meetings["world"][n].ops = {op}
            BY <1>0, <1>2, <3>1
        <3>4. meetings'["world"][n].ops = {op}
            BY <1>e, <2>2, <3>3
        <3>5. QED
            BY <1>e, <2>2, <3>1, <3>2, <3>4
    <2>3. QED
        BY <2>1, <2>2
<1>4. ASSUME NEW m \in 1..Count'
      PROVE  /\ meetings'["world"][m].ranks = {x \in Rank : At(x)' >= m}
             /\ meetings'["world"][m].ranks # {}
             /\ \E o \in {"stop", "barrier"} : meetings'["world"][m].ops = {o}
    <2>1. CASE m = n
        BY <1>e, <1>0, <1>3, <2>1
    <2>2. CASE m # n
        <3>1. m \in 1..Count /\ meetings'["world"][m] = meetings["world"][m]
            BY <1>e, <1>0, <2>2
        <3>2. \A x \in Rank : At(x)' >= m <=> At(x) >= m
            BY <1>e, <1>0, <2>2
        <3>3. QED
            BY <3>1, <3>2 DEF Attendance
    <2>3. QED
        BY <2>1, <2>2
<1>5. ASSUME NEW x \in Rank, At(x)' >= 1
      PROVE  meetings'["world"][At(x)'].ops = {LastOp(x)'}
    <2>1. CASE x = r
        BY <1>e, <1>3, <2>1
    <2>2. CASE x # r
        <3>1. At(x)' = At(x) /\ At(x) \in 1..Count /\ LastOp(x)' = LastOp(x)
            BY <1>e, <1>0, <1>5, <2>2
        <3>2. meetings["world"][At(x)].ops = {LastOp(x)}
            BY <1>e, <1>0, <3>1 DEF Attendance
        <3>3. CASE At(x) = n
            BY <1>e, <1>2, <1>3, <3>1, <3>2, <3>3
        <3>4. CASE At(x) # n
            BY <1>e, <3>1, <3>2, <3>4
        <3>5. QED
            BY <3>3, <3>4
    <2>3. QED
        BY <2>1, <2>2
<1>6. Close'
    BY <1>e, <1>0 DEF Close
<1>7. /\ \A x \in Rank : attended'[x]["ctrl"] = 0
      /\ meetings'["ctrl"] = <<>>
    BY <1>e DEF Attendance
<1>8. QED
    BY <1>1, <1>4, <1>5, <1>6, <1>7 DEF Attendance

(***************************************************************************)
(* The steps of a rank.                                                    *)
(***************************************************************************)

\* The types of what the invariant compares.
LEMMA PlaceTypes ==
    ASSUME Types, Turns, NEW r \in Rank
    PROVE  /\ At(r) \in Nat /\ Count \in Nat
           /\ turn[r] \in Nat /\ step[r] \in 1..Steps /\ Steps \in Nat
           /\ LastOp(r) \in {"stop", "barrier"} /\ LastTurn(r) \in 0..Len(requests)
           /\ LastStep(r) \in 0..Steps
           /\ LastOp(r) = "stop" => LastTurn(r) >= 1
           /\ turn[r] <= Len(requests) /\ Len(requests) \in Nat
<1>1. At(r) \in Nat /\ Count \in Nat
    BY DEF Types, At, Count, Group
<1>2. /\ turn[r] \in 0..Len(requests) /\ step[r] \in 1..Steps /\ Steps \in Nat
      /\ Len(requests) \in Nat /\ pc[r] \in {"idle", "run", "agree", "barrier"}
      /\ pc[r] # "idle" => turn[r] >= 1
    BY WorkerAssumption DEF Types, Turns
<1>3. QED
    BY <1>1, <1>2 DEF LastOp, LastTurn, LastStep

\* A rank past a collective has no rank behind it.
LEMMA MetByAll ==
    ASSUME Types, Attendance, Entered, NEW r \in Rank, Met(r, "world"),
           pc[r] \in {"agree", "barrier"}
    PROVE  \A x \in Rank : At(r) <= At(x)
<1>1. At(r) \in 1..Count
    <2>1. At(r) \in Nat /\ Count \in Nat
        BY DEF Types, At, Count, Group
    <2>2. QED
        BY <2>1 DEF Entered, Attendance
<1>2. meetings["world"][At(r)].ranks = {x \in Rank : At(x) >= At(r)}
    BY <1>1 DEF Attendance
<1>3. meetings["world"][At(r)].ranks = Rank
    BY DEF Met, Meeting, At
<1>4. QED
    BY <1>1, <1>2, <1>3

\* A rank enters check_stop's collective.
LEMMA CheckStopKeeps ==
    ASSUME Inv, NEW r \in Rank, CheckStop(r)
    PROVE  Inv'
<1> DEFINE n == At(r) + 1
<1> USE DEF Inv
<1>t. \A x \in Rank :
        /\ At(x) \in Nat /\ Count \in Nat
        /\ turn[x] \in Nat /\ step[x] \in 1..Steps /\ Steps \in Nat
        /\ LastOp(x) \in {"stop", "barrier"} /\ LastTurn(x) \in 0..Len(requests)
        /\ LastStep(x) \in 0..Steps
    BY PlaceTypes
<1>c. /\ pc[r] = "run"
      /\ pc' = [pc EXCEPT ![r] = "agree"]
      /\ Enter(r, "world", "stop", stop_signal(r), FALSE)
      /\ requests' = requests /\ cancelled' = cancelled
      /\ turn' = turn /\ step' = step /\ outcome' = outcome
    BY DEF CheckStop, requestVars
<1>s. stop_signal(r) \in BOOLEAN
    BY DEF stop_signal
<1>e. /\ meetings' \in [Group -> Seq(MeetingType)]
      /\ attended' \in [Rank -> [Group -> Nat]]
      /\ At(r)' = n
      /\ \A x \in Rank \ {r} : At(x)' = At(x)
      /\ \A k \in 1..Count : k # n => meetings'["world"][k] = meetings["world"][k]
    BY <1>c, <1>s, EnterEffect
<1>1. \A x \in Rank : At(r) <= At(x) /\ At(x) <= n
    BY <1>c, <1>t DEF NoneBehind, Close
<1>2. /\ \A x \in Rank \ {r} : pc'[x] = pc[x]
      /\ \A x \in Rank \ {r} :
            LastOp(x)' = LastOp(x) /\ LastTurn(x)' = LastTurn(x) /\ LastStep(x)' = LastStep(x)
      /\ pc'[r] = "agree" /\ LastOp(r)' = "stop" /\ LastTurn(r)' = turn[r]
      /\ LastStep(r)' = step[r]
    BY <1>c DEF Types, LastOp, LastTurn, LastStep
<1>3. \A x \in Rank : At(x) = n => pc[x] = "agree" /\ turn[x] = turn[r] /\ step[x] = step[r]
    <2> SUFFICES ASSUME NEW x \in Rank, At(x) = n
                 PROVE  pc[x] = "agree" /\ turn[x] = turn[r] /\ step[x] = step[r]
        OBVIOUS
    <2>1. CASE step[r] = 1
        <3>1. LastOp(r) = "barrier" /\ LastTurn(r) = turn[r] - 1
            BY <1>c, <2>1 DEF LastOp, LastTurn
        <3>2. QED
            BY <1>t, <2>1, <3>1 DEF NextPlace
    <2>2. CASE step[r] # 1
        <3>1. /\ step[r] > 1 /\ LastOp(r) = "stop" /\ LastTurn(r) = turn[r]
              /\ LastStep(r) = step[r] - 1
            BY <1>c, <1>t, <2>2 DEF LastOp, LastTurn, LastStep
        <3>2. NextOf(r) = "go"
            BY <1>c, <3>1 DEF WentOn
        <3>3. QED
            BY <1>t, <3>1, <3>2 DEF NextPlace
    <2>3. QED
        BY <2>1, <2>2
<1>4. \A x \in Rank : At(x) = n => LastOp(x) = "stop"
    BY <1>3 DEF LastOp
<1>5. Attendance' /\ Close'
    BY <1>1, <1>2, <1>4, <1>c, <1>s, EnterAttendance
<1>6. \A x \in Rank \ {r} : At(x) = At(r) /\ At(x) >= 1 => NextOf(x)' = NextOf(x)
    <2> SUFFICES ASSUME NEW x \in Rank \ {r}, At(x) = At(r), At(x) >= 1
                 PROVE  NextOf(x)' = NextOf(x)
        OBVIOUS
    <2>1. At(x) \in 1..Count /\ At(x) # n
        BY <1>t DEF Attendance
    <2>2. meetings'["world"][At(x)'] = meetings["world"][At(x)]
        BY <1>e, <2>1
    <2>3. QED
        BY <1>2, <1>c, <2>2 DEF NextOf, Verdict
<1>7. Types'
    <2>1. pc' \in [Rank -> {"idle", "run", "agree", "barrier"}]
        BY <1>c DEF Types
    <2>2. QED
        BY <1>c, <1>e, <2>1 DEF Types
<1>8. Turns'
    BY <1>2, <1>c DEF Turns
<1>9. NoneBehind'
    <2> SUFFICES ASSUME NEW x \in Rank, NEW y \in Rank, pc'[x] \in {"run", "idle"}
                 PROVE  At(x)' <= At(y)'
        BY DEF NoneBehind
    <2>1. x # r /\ At(x) <= At(y) /\ At(x) <= At(r)
        BY <1>2 DEF NoneBehind
    <2>2. At(y)' \in {At(y), At(y) + 1} /\ At(x)' = At(x)
        BY <1>e, <2>1
    <2>3. QED
        BY <1>t, <2>1, <2>2
<1>10. SamePlace'
    <2> SUFFICES ASSUME NEW x \in Rank, NEW y \in Rank, At(x)' = At(y)'
                 PROVE  /\ LastOp(x)' = LastOp(y)' /\ LastTurn(x)' = LastTurn(y)'
                        /\ LastOp(x)' = "stop" => LastStep(x)' = LastStep(y)'
        BY DEF SamePlace
    <2>1. \A z \in Rank \ {r} : At(z) = n =>
            /\ LastOp(z)' = "stop" /\ LastTurn(z)' = turn[r] /\ LastStep(z)' = step[r]
        BY <1>2, <1>3, <1>c DEF LastOp, LastTurn, LastStep
    <2>2. CASE x = r \/ y = r
        BY <1>2, <1>e, <2>1, <2>2
    <2>3. CASE x # r /\ y # r
        BY <1>2, <1>e, <2>3 DEF SamePlace
    <2>4. QED
        BY <2>2, <2>3
<1>11. NextPlace'
    <2> SUFFICES ASSUME NEW y \in Rank, NEW x \in Rank, At(y)' = At(x)' + 1
                 PROVE  /\ pc'[y] \in {"agree", "barrier"}
                        /\ LastOp(x)' = "barrier" =>
                             pc'[y] = "agree" /\ turn'[y] = LastTurn(x)' + 1 /\ step'[y] = 1
                        /\ LastOp(x)' = "stop" =>
                             /\ turn'[y] = LastTurn(x)'
                             /\ pc'[y] = "agree" => step'[y] = LastStep(x)' + 1 /\ NextOf(x)' = "go"
                             /\ pc'[y] = "barrier" =>
                                 /\ step'[y] = LastStep(x)'
                                 /\ outcome'[y][turn'[y]] = NextOf(x)' /\ NextOf(x)' # "go"
        BY DEF NextPlace
    <2>1. x # r /\ At(x) = At(r)
        <3>1. /\ y = r => At(y)' = n
              /\ y # r => At(y)' = At(y) /\ At(y) <= n
              /\ x = r => At(x)' = n
              /\ x # r => At(x)' = At(x)
            BY <1>1, <1>e
        <3>2. At(r) <= At(x) /\ At(r) \in Nat /\ At(x) \in Nat /\ At(y) \in Nat
            BY <1>1, <1>t
        <3>3. QED
            BY <3>1, <3>2
    <2>2. LastOp(x) = "stop" => At(x) >= 1
        BY <1>t, <2>1 DEF LastOp, WentOn, Entered
    <2>3. LastOp(x) = "stop" => NextOf(x)' = NextOf(x)
        BY <1>6, <2>1, <2>2
    <2>4. CASE y = r
        <3>1. /\ LastOp(x) = LastOp(r) /\ LastTurn(x) = LastTurn(r)
              /\ LastOp(r) = "stop" => LastStep(x) = LastStep(r)
            BY <2>1 DEF SamePlace
        <3>2. CASE step[r] = 1
            <4>1. LastOp(r) = "barrier" /\ LastTurn(r) = turn[r] - 1
                BY <1>c, <3>2 DEF LastOp, LastTurn
            <4>2. QED
                BY <1>2, <1>c, <1>t, <2>1, <2>4, <3>1, <3>2, <4>1
        <3>3. CASE step[r] # 1
            <4>1. /\ step[r] > 1 /\ LastOp(r) = "stop" /\ LastTurn(r) = turn[r]
                  /\ LastStep(r) = step[r] - 1
                BY <1>c, <1>t, <3>3 DEF LastOp, LastTurn, LastStep
            <4>2. NextOf(r) = "go"
                BY <1>c, <4>1 DEF WentOn
            <4>3. NextOf(x) = NextOf(r)
                BY <2>1, <3>1, <4>1 DEF NextOf
            <4>4. QED
                BY <1>2, <1>c, <1>t, <2>1, <2>3, <2>4, <3>1, <4>1, <4>2, <4>3
        <3>4. QED
            BY <3>2, <3>3
    <2>5. CASE y # r
        <3>1. At(y) = At(x) + 1 /\ pc'[y] = pc[y]
            BY <1>2, <1>e, <2>1, <2>5
        <3>2. QED
            BY <1>2, <1>c, <2>1, <2>3, <3>1 DEF NextPlace
    <2>6. QED
        BY <2>4, <2>5
<1>12. WentOn'
    <2> SUFFICES ASSUME NEW x \in Rank, pc'[x] = "run", step'[x] > 1
                 PROVE  At(x)' >= 1 /\ NextOf(x)' = "go"
        BY DEF WentOn
    <2>1. x # r /\ pc[x] = "run" /\ step[x] > 1
        BY <1>2, <1>c
    <2>2. At(x) = At(r) /\ At(x) >= 1 /\ NextOf(x) = "go"
        BY <1>1, <1>t, <2>1 DEF NoneBehind, WentOn
    <2>3. QED
        BY <1>6, <1>e, <2>1, <2>2
<1>13. Entered'
    <2> SUFFICES ASSUME NEW x \in Rank, pc'[x] \in {"agree", "barrier"}
                 PROVE  At(x)' >= 1
        BY DEF Entered
    <2>1. CASE x = r
        BY <1>e, <1>t, <2>1
    <2>2. CASE x # r
        BY <1>2, <1>e, <2>2 DEF Entered
    <2>3. QED
        BY <2>1, <2>2
<1>14. Ended'
    BY <1>2, <1>c DEF Ended
<1>15. EndedAlike'
    BY <1>2, <1>c DEF EndedAlike
<1>16. QED
    BY <1>5, <1>7, <1>8, <1>9, <1>10, <1>11, <1>12, <1>13, <1>14, <1>15

\* A request ends on a rank, as the agreement says.
LEMMA FinishKeeps ==
    ASSUME Inv, NEW r \in Rank, pc[r] = "agree", Met(r, "world"),
           NextOf(r) # "go", Finish(r, NextOf(r))
    PROVE  Inv'
<1> DEFINE n == At(r) + 1
           how == NextOf(r)
<1> USE DEF Inv
<1>t. \A x \in Rank :
        /\ At(x) \in Nat /\ Count \in Nat
        /\ turn[x] \in Nat /\ step[x] \in 1..Steps /\ Steps \in Nat
        /\ LastOp(x) \in {"stop", "barrier"} /\ LastTurn(x) \in 0..Len(requests)
        /\ LastStep(x) \in 0..Steps
    BY PlaceTypes
<1>h. how \in {"stopped", "failed", "ok"}
    BY DEF NextOf, Verdict
<1>c. /\ pc' = [pc EXCEPT ![r] = "barrier"]
      /\ Enter(r, "world", "barrier", FALSE, FALSE)
      /\ requests' = requests /\ cancelled' = cancelled
      /\ turn' = turn /\ step' = step
      /\ outcome' = [outcome EXCEPT ![r][turn[r]] = how]
    BY DEF Finish, requestVars
<1>n. turn[r] \in 1..MaxRequests
    <2>1. turn[r] >= 1 /\ turn[r] <= Len(requests) /\ Len(requests) <= MaxRequests
        BY PlaceTypes DEF Turns, Types
    <2>2. QED
        BY <1>t, <2>1, PlaceTypes, WorkerAssumption
<1>e. /\ meetings' \in [Group -> Seq(MeetingType)]
      /\ attended' \in [Rank -> [Group -> Nat]]
      /\ At(r)' = n
      /\ \A x \in Rank \ {r} : At(x)' = At(x)
      /\ \A k \in 1..Count : k # n => meetings'["world"][k] = meetings["world"][k]
    BY <1>c, EnterEffect
<1>1. \A x \in Rank : At(r) <= At(x) /\ At(x) <= n
    BY <1>t, MetByAll DEF Close
<1>2. /\ \A x \in Rank \ {r} : pc'[x] = pc[x] /\ outcome'[x] = outcome[x]
      /\ \A x \in Rank \ {r} :
            LastOp(x)' = LastOp(x) /\ LastTurn(x)' = LastTurn(x) /\ LastStep(x)' = LastStep(x)
      /\ pc'[r] = "barrier" /\ LastOp(r)' = "barrier" /\ LastTurn(r)' = turn[r]
      /\ LastOp(r) = "stop" /\ LastTurn(r) = turn[r] /\ LastStep(r) = step[r]
    BY <1>c DEF Types, LastOp, LastTurn, LastStep
<1>o. /\ outcome'[r][turn[r]] = how
      /\ \A k \in 1..MaxRequests : k # turn[r] => outcome'[r][k] = outcome[r][k]
      /\ outcome' \in [Rank -> [1..MaxRequests -> Outcome]]
    BY <1>c, <1>h, <1>n DEF Types, Outcome
<1>3. \A x \in Rank : At(x) = n =>
        /\ pc[x] = "barrier" /\ turn[x] = turn[r] /\ step[x] = step[r]
        /\ outcome[x][turn[r]] = how
    BY <1>2, <1>t DEF NextPlace
<1>4. \A x \in Rank : At(x) = n => LastOp(x) = "barrier"
    BY <1>3 DEF LastOp
<1>5. Attendance' /\ Close'
    BY <1>1, <1>2, <1>4, <1>c, EnterAttendance
<1>6. \A x \in Rank \ {r} : At(x) = At(r) => NextOf(x)' = NextOf(x)
    <2> SUFFICES ASSUME NEW x \in Rank \ {r}, At(x) = At(r)
                 PROVE  NextOf(x)' = NextOf(x)
        OBVIOUS
    <2>1. At(x) \in 1..Count /\ At(x) # n
        BY <1>t DEF Attendance, Entered
    <2>2. meetings'["world"][At(x)'] = meetings["world"][At(x)]
        BY <1>e, <2>1
    <2>3. QED
        BY <1>2, <1>c, <2>2 DEF NextOf, Verdict
\* A rank that has not entered the barrier is still in the request.
<1>b. \A x \in Rank : At(x) = At(r) => pc[x] \in {"agree", "run"} /\ turn[x] = turn[r]
    <2> SUFFICES ASSUME NEW x \in Rank, At(x) = At(r)
                 PROVE  pc[x] \in {"agree", "run"} /\ turn[x] = turn[r]
        OBVIOUS
    <2>1. LastOp(x) = "stop" /\ LastTurn(x) = turn[r]
        BY <1>2 DEF SamePlace
    <2>2. QED
        BY <1>t, <2>1 DEF LastOp, LastTurn
<1>d. \A x \in Rank \ {r} : outcome[x][turn[r]] # "none" => At(x) = n
    <2> SUFFICES ASSUME NEW x \in Rank \ {r}, outcome[x][turn[r]] # "none", At(x) # n
                 PROVE  FALSE
        OBVIOUS
    <2>1. At(x) = At(r)
        BY <1>1, <1>t
    <2>2. pc[x] \in {"agree", "run"} /\ turn[x] = turn[r]
        BY <1>b, <2>1
    <2>3. turn[r] < turn[x] \/ (turn[r] = turn[x] /\ pc[x] \in {"barrier", "idle"})
        BY <1>n DEF Ended
    <2>4. QED
        BY <1>t, <2>2, <2>3
<1>7. Types'
    <2>1. pc' \in [Rank -> {"idle", "run", "agree", "barrier"}]
        BY <1>c DEF Types
    <2>2. QED
        BY <1>c, <1>e, <1>o, <2>1 DEF Types
<1>8. Turns'
    BY <1>2, <1>c, <1>n DEF Turns
<1>9. NoneBehind'
    <2> SUFFICES ASSUME NEW x \in Rank, NEW y \in Rank, pc'[x] \in {"run", "idle"}
                 PROVE  At(x)' <= At(y)'
        BY DEF NoneBehind
    <2>1. x # r /\ At(x) <= At(y) /\ At(x) <= At(r)
        BY <1>2 DEF NoneBehind
    <2>2. At(y)' \in {At(y), At(y) + 1} /\ At(x)' = At(x)
        BY <1>e, <2>1
    <2>3. QED
        BY <1>t, <2>1, <2>2
<1>10. SamePlace'
    <2> SUFFICES ASSUME NEW x \in Rank, NEW y \in Rank, At(x)' = At(y)'
                 PROVE  /\ LastOp(x)' = LastOp(y)' /\ LastTurn(x)' = LastTurn(y)'
                        /\ LastOp(x)' = "stop" => LastStep(x)' = LastStep(y)'
        BY DEF SamePlace
    <2>1. \A z \in Rank \ {r} : At(z) = n =>
            LastOp(z)' = "barrier" /\ LastTurn(z)' = turn[r]
        BY <1>2, <1>3, <1>c DEF LastOp, LastTurn
    <2>2. CASE x = r \/ y = r
        BY <1>2, <1>e, <2>1, <2>2
    <2>3. CASE x # r /\ y # r
        BY <1>2, <1>e, <2>3 DEF SamePlace
    <2>4. QED
        BY <2>2, <2>3
<1>11. NextPlace'
    <2> SUFFICES ASSUME NEW y \in Rank, NEW x \in Rank, At(y)' = At(x)' + 1
                 PROVE  /\ pc'[y] \in {"agree", "barrier"}
                        /\ LastOp(x)' = "barrier" =>
                             pc'[y] = "agree" /\ turn'[y] = LastTurn(x)' + 1 /\ step'[y] = 1
                        /\ LastOp(x)' = "stop" =>
                             /\ turn'[y] = LastTurn(x)'
                             /\ pc'[y] = "agree" => step'[y] = LastStep(x)' + 1 /\ NextOf(x)' = "go"
                             /\ pc'[y] = "barrier" =>
                                 /\ step'[y] = LastStep(x)'
                                 /\ outcome'[y][turn'[y]] = NextOf(x)' /\ NextOf(x)' # "go"
        BY DEF NextPlace
    <2>1. x # r /\ At(x) = At(r)
        <3>1. /\ y = r => At(y)' = n
              /\ y # r => At(y)' = At(y) /\ At(y) <= n
              /\ x = r => At(x)' = n
              /\ x # r => At(x)' = At(x)
            BY <1>1, <1>e
        <3>2. At(r) <= At(x) /\ At(r) \in Nat /\ At(x) \in Nat /\ At(y) \in Nat
            BY <1>1, <1>t
        <3>3. QED
            BY <3>1, <3>2
    <2>2. NextOf(x)' = NextOf(x)
        BY <1>6, <2>1
    <2>3. CASE y = r
        <3>1. LastOp(x) = "stop" /\ LastTurn(x) = turn[r] /\ LastStep(x) = step[r]
            BY <1>2, <2>1 DEF SamePlace
        <3>2. NextOf(x) = how
            BY <1>2, <2>1, <3>1 DEF NextOf
        <3>3. QED
            BY <1>2, <1>c, <1>o, <2>1, <2>2, <2>3, <3>1, <3>2
    <2>4. CASE y # r
        <3>1. At(y) = At(x) + 1 /\ pc'[y] = pc[y] /\ outcome'[y] = outcome[y]
            BY <1>2, <1>e, <2>1, <2>4
        <3>2. QED
            BY <1>2, <1>c, <2>1, <2>2, <3>1 DEF NextPlace
    <2>5. QED
        BY <2>3, <2>4
<1>12. WentOn'
    <2> SUFFICES ASSUME NEW x \in Rank, pc'[x] = "run", step'[x] > 1
                 PROVE  At(x)' >= 1 /\ NextOf(x)' = "go"
        BY DEF WentOn
    <2>1. x # r /\ pc[x] = "run" /\ step[x] > 1
        BY <1>2, <1>c
    <2>2. At(x) = At(r) /\ At(x) >= 1 /\ NextOf(x) = "go"
        BY <1>1, <1>t, <2>1 DEF NoneBehind, WentOn
    <2>3. QED
        BY <1>6, <1>e, <2>1, <2>2
<1>13. Entered'
    <2> SUFFICES ASSUME NEW x \in Rank, pc'[x] \in {"agree", "barrier"}
                 PROVE  At(x)' >= 1
        BY DEF Entered
    <2>1. CASE x = r
        BY <1>e, <1>t, <2>1
    <2>2. CASE x # r
        BY <1>2, <1>e, <2>2 DEF Entered
    <2>3. QED
        BY <2>1, <2>2
<1>14. Ended'
    <2> SUFFICES ASSUME NEW x \in Rank, NEW k \in 1..MaxRequests
                 PROVE  outcome'[x][k] # "none" <=>
                            k < turn'[x] \/ (k = turn'[x] /\ pc'[x] \in {"barrier", "idle"})
        BY DEF Ended
    <2>1. outcome[x][k] # "none" <=> k < turn[x] \/ (k = turn[x] /\ pc[x] \in {"barrier", "idle"})
        BY DEF Ended
    <2>2. CASE x = r
        BY <1>2, <1>c, <1>h, <1>o, <2>1, <2>2
    <2>3. CASE x # r
        BY <1>2, <1>c, <2>1, <2>3
    <2>4. QED
        BY <2>2, <2>3
<1>15. EndedAlike'
    <2>1. ASSUME NEW x \in Rank, NEW y \in Rank, NEW k \in 1..MaxRequests,
                 outcome'[x][k] # "none", outcome'[y][k] # "none"
          PROVE  outcome'[x][k] = outcome'[y][k]
        <3>1. CASE k = turn[r]
            <4>1. ASSUME NEW z \in Rank, outcome'[z][k] # "none"
                  PROVE  outcome'[z][k] = how
                BY <1>2, <1>3, <1>d, <1>o, <3>1, <4>1
            <4>2. QED
                BY <2>1, <4>1
        <3>2. CASE k # turn[r]
            <4>1. outcome'[x][k] = outcome[x][k] /\ outcome'[y][k] = outcome[y][k]
                BY <1>2, <1>o, <3>2
            <4>2. QED
                BY <2>1, <4>1 DEF EndedAlike
        <3>3. QED
            BY <3>1, <3>2
    <2>2. ASSUME NEW x \in Rank, NEW y \in Rank,
                 pc'[x] \in {"barrier", "idle"}, pc'[y] \in {"barrier", "idle"}, turn[x] = turn[y]
          PROVE  step[x] = step[y]
        <3>1. ASSUME NEW z \in Rank \ {r}, pc'[z] \in {"barrier", "idle"}, turn[z] = turn[r]
              PROVE  step[z] = step[r]
            <4>1. At(z) = n
                BY <1>1, <1>2, <1>b, <1>t, <3>1
            <4>2. QED
                BY <1>3, <4>1
        <3>2. CASE x = r \/ y = r
            BY <2>2, <3>1, <3>2
        <3>3. CASE x # r /\ y # r
            BY <1>2, <2>2, <3>3 DEF EndedAlike
        <3>4. QED
            BY <3>2, <3>3
    <2>3. QED
        BY <1>c, <2>1, <2>2 DEF EndedAlike
<1>16. QED
    BY <1>5, <1>7, <1>8, <1>9, <1>10, <1>11, <1>12, <1>13, <1>14, <1>15

\* An agreement that tells the ranks to go on.
LEMMA GoOnKeeps ==
    ASSUME Inv, NEW r \in Rank, pc[r] = "agree", Met(r, "world"), NextOf(r) = "go",
           pc' = [pc EXCEPT ![r] = "run"], step' = [step EXCEPT ![r] = @ + 1],
           UNCHANGED <<requestVars, turn, outcome, meetingVars>>
    PROVE  Inv'
<1> USE DEF Inv
<1>t. \A x \in Rank :
        /\ At(x) \in Nat /\ turn[x] \in Nat /\ step[x] \in 1..Steps /\ Steps \in Nat
    BY PlaceTypes
<1>c. /\ requests' = requests /\ cancelled' = cancelled /\ turn' = turn
      /\ outcome' = outcome /\ meetings' = meetings /\ attended' = attended
    BY DEF requestVars, meetingVars
<1>s. step[r] < Steps
    <2>1. LastStep(r) = step[r]
        BY DEF LastStep
    <2>2. step[r] # Steps
        BY <2>1 DEF NextOf, Verdict
    <2>3. QED
        BY <1>t, <2>2
<1>1. \A x \in Rank : At(r) <= At(x)
    BY MetByAll
<1>2. /\ pc'[r] = "run" /\ step'[r] = step[r] + 1
      /\ \A x \in Rank \ {r} : pc'[x] = pc[x] /\ step'[x] = step[x]
      /\ pc' \in [Rank -> {"idle", "run", "agree", "barrier"}]
      /\ step' \in [Rank -> 1..Steps]
    BY <1>s, <1>t DEF Types
<1>3. \A x \in Rank :
        /\ LastOp(x)' = LastOp(x) /\ LastTurn(x)' = LastTurn(x)
        /\ LastStep(x)' = LastStep(x) /\ At(x)' = At(x)
    <2> SUFFICES ASSUME NEW x \in Rank
                 PROVE  /\ LastOp(x)' = LastOp(x) /\ LastTurn(x)' = LastTurn(x)
                        /\ LastStep(x)' = LastStep(x) /\ At(x)' = At(x)
        OBVIOUS
    <2>1. CASE x = r
        BY <1>2, <1>c, <1>t, <2>1 DEF LastOp, LastTurn, LastStep, At
    <2>2. CASE x # r
        BY <1>2, <1>c, <2>2 DEF LastOp, LastTurn, LastStep, At
    <2>3. QED
        BY <2>1, <2>2
<1>4. \A x \in Rank : NextOf(x)' = NextOf(x)
    BY <1>3, <1>c DEF NextOf, Verdict
<1>5. Types'
    BY <1>2, <1>c DEF Types
<1>6. Turns'
    BY <1>2, <1>c DEF Turns
<1>7. Attendance' /\ Close'
    BY <1>3, <1>c DEF Attendance, Close, Count
<1>8. NoneBehind'
    BY <1>1, <1>2, <1>3 DEF NoneBehind
<1>9. SamePlace'
    BY <1>3 DEF SamePlace
<1>10. NextPlace'
    <2> SUFFICES ASSUME NEW y \in Rank, NEW x \in Rank, At(y) = At(x) + 1
                 PROVE  /\ pc'[y] \in {"agree", "barrier"}
                        /\ LastOp(x)' = "barrier" =>
                             pc'[y] = "agree" /\ turn'[y] = LastTurn(x)' + 1 /\ step'[y] = 1
                        /\ LastOp(x)' = "stop" =>
                             /\ turn'[y] = LastTurn(x)'
                             /\ pc'[y] = "agree" => step'[y] = LastStep(x)' + 1 /\ NextOf(x)' = "go"
                             /\ pc'[y] = "barrier" =>
                                 /\ step'[y] = LastStep(x)'
                                 /\ outcome'[y][turn'[y]] = NextOf(x)' /\ NextOf(x)' # "go"
        BY <1>3 DEF NextPlace
    <2>1. y # r
        BY <1>1, <1>t
    <2>2. QED
        BY <1>2, <1>3, <1>4, <1>c, <2>1 DEF NextPlace
<1>11. WentOn'
    <2>1. \A x \in Rank \ {r} : pc'[x] = "run" /\ step'[x] > 1 => At(x)' >= 1 /\ NextOf(x)' = "go"
        BY <1>2, <1>3, <1>4 DEF WentOn
    <2>2. At(r)' >= 1 /\ NextOf(r)' = "go"
        BY <1>3, <1>4 DEF Entered
    <2>3. QED
        BY <2>1, <2>2 DEF WentOn
<1>12. Entered'
    BY <1>2, <1>3 DEF Entered
<1>13. Ended' /\ EndedAlike'
    BY <1>2, <1>c DEF Ended, EndedAlike
<1>14. QED
    BY <1>5, <1>6, <1>7, <1>8, <1>9, <1>10, <1>11, <1>12, <1>13

\* A rank takes up its next request.
LEMMA BeginKeeps ==
    ASSUME Inv, NEW r \in Rank, pc[r] = "idle", requests' \in Seq(PlainRequest),
           Len(requests') <= MaxRequests, turn[r] + 1 <= Len(requests'),
           r = 0 => Len(requests') = Len(requests) + 1,
           r # 0 => requests' = requests,
           \A n \in 1..Len(requests) : requests'[n] = requests[n],
           turn' = [turn EXCEPT ![r] = @ + 1], pc' = [pc EXCEPT ![r] = "run"],
           step' = [step EXCEPT ![r] = 1],
           cancelled' = cancelled, UNCHANGED <<outcome, meetingVars>>
    PROVE  Inv'
<1> USE DEF Inv
<1>t. \A x \in Rank :
        /\ At(x) \in Nat /\ turn[x] \in Nat /\ step[x] \in 1..Steps /\ Steps \in Nat
        /\ LastTurn(x) \in 0..Len(requests) /\ Len(requests) \in Nat
        /\ LastOp(x) = "stop" => LastTurn(x) >= 1
        /\ turn[x] <= Len(requests)
    BY PlaceTypes
<1>l. Len(requests') \in Nat /\ Len(requests) <= Len(requests')
    BY <1>t
<1>c. outcome' = outcome /\ meetings' = meetings /\ attended' = attended
    BY DEF meetingVars
<1>2. /\ pc'[r] = "run" /\ step'[r] = 1 /\ turn'[r] = turn[r] + 1
      /\ \A x \in Rank \ {r} : pc'[x] = pc[x] /\ step'[x] = step[x] /\ turn'[x] = turn[x]
      /\ pc' \in [Rank -> {"idle", "run", "agree", "barrier"}]
    BY DEF Types
<1>3. \A x \in Rank :
        /\ LastOp(x)' = LastOp(x) /\ LastTurn(x)' = LastTurn(x) /\ At(x)' = At(x)
        /\ LastOp(x) = "stop" => LastStep(x)' = LastStep(x) /\ x # r
    <2> SUFFICES ASSUME NEW x \in Rank
                 PROVE  /\ LastOp(x)' = LastOp(x) /\ LastTurn(x)' = LastTurn(x) /\ At(x)' = At(x)
                        /\ LastOp(x) = "stop" => LastStep(x)' = LastStep(x) /\ x # r
        OBVIOUS
    <2>1. CASE x = r
        BY <1>2, <1>c, <1>t, <2>1 DEF LastOp, LastTurn, At
    <2>2. CASE x # r
        BY <1>2, <1>c, <2>2 DEF LastOp, LastTurn, LastStep, At
    <2>3. QED
        BY <2>1, <2>2
<1>4. \A x \in Rank : LastOp(x) = "stop" => NextOf(x)' = NextOf(x)
    <2> SUFFICES ASSUME NEW x \in Rank, LastOp(x) = "stop"
                 PROVE  NextOf(x)' = NextOf(x)
        OBVIOUS
    <2>1. requests'[LastTurn(x)] = requests[LastTurn(x)]
        BY <1>t
    <2>2. QED
        BY <1>3, <1>c, <2>1 DEF NextOf, Verdict
<1>5. Types'
    <2>1. step' \in [Rank -> 1..Steps]
        BY WorkerAssumption DEF Types
    <2>2. turn' \in [Rank -> 0..Len(requests')]
        BY <1>l, <1>t DEF Types
    <2>3. cancelled' \subseteq 1..Len(requests')
        BY <1>l, <1>t DEF Types
    <2>4. QED
        BY <1>2, <1>c, <2>1, <2>2, <2>3 DEF Types
<1>6. Turns'
    <2>1. turn'[0] = Len(requests')
        <3>1. 0 \in Rank
            BY WorkerAssumption DEF Rank
        <3>2. QED
            BY <1>2, <3>1 DEF Turns
    <2>2. QED
        BY <1>2, <1>t, <2>1 DEF Turns
<1>7. Attendance' /\ Close'
    BY <1>3, <1>c DEF Attendance, Close, Count
<1>8. NoneBehind'
    BY <1>2, <1>3 DEF NoneBehind
<1>9. SamePlace'
    BY <1>3 DEF SamePlace
<1>10. NextPlace'
    <2> SUFFICES ASSUME NEW y \in Rank, NEW x \in Rank, At(y) = At(x) + 1
                 PROVE  /\ pc'[y] \in {"agree", "barrier"}
                        /\ LastOp(x)' = "barrier" =>
                             pc'[y] = "agree" /\ turn'[y] = LastTurn(x)' + 1 /\ step'[y] = 1
                        /\ LastOp(x)' = "stop" =>
                             /\ turn'[y] = LastTurn(x)'
                             /\ pc'[y] = "agree" => step'[y] = LastStep(x)' + 1 /\ NextOf(x)' = "go"
                             /\ pc'[y] = "barrier" =>
                                 /\ step'[y] = LastStep(x)'
                                 /\ outcome'[y][turn'[y]] = NextOf(x)' /\ NextOf(x)' # "go"
        BY <1>3 DEF NextPlace
    <2>1. y # r
        BY <1>2 DEF NextPlace
    <2>2. QED
        BY <1>2, <1>3, <1>4, <1>c, <2>1 DEF NextPlace
<1>11. WentOn'
    <2> SUFFICES ASSUME NEW x \in Rank, pc'[x] = "run", step'[x] > 1
                 PROVE  At(x)' >= 1 /\ NextOf(x)' = "go"
        BY DEF WentOn
    <2>1. x # r /\ pc[x] = "run" /\ step[x] > 1
        BY <1>2
    <2>2. LastOp(x) = "stop"
        BY <2>1 DEF LastOp
    <2>3. QED
        BY <1>3, <1>4, <2>1, <2>2 DEF WentOn
<1>12. Entered'
    BY <1>2, <1>3 DEF Entered
<1>13. Ended'
    <2> SUFFICES ASSUME NEW x \in Rank, NEW k \in 1..MaxRequests
                 PROVE  outcome'[x][k] # "none" <=>
                            k < turn'[x] \/ (k = turn'[x] /\ pc'[x] \in {"barrier", "idle"})
        BY DEF Ended
    <2>1. outcome[x][k] # "none" <=> k < turn[x] \/ (k = turn[x] /\ pc[x] \in {"barrier", "idle"})
        BY DEF Ended
    <2>2. CASE x = r
        BY <1>2, <1>c, <1>t, <2>1, <2>2
    <2>3. CASE x # r
        BY <1>2, <1>c, <2>1, <2>3
    <2>4. QED
        BY <2>2, <2>3
<1>14. EndedAlike'
    BY <1>2, <1>c DEF EndedAlike
<1>15. QED
    BY <1>5, <1>6, <1>7, <1>8, <1>9, <1>10, <1>11, <1>12, <1>13, <1>14

\* A rank gets past the barrier.
LEMMA AnswerKeeps ==
    ASSUME Inv, NEW r \in Rank, Answer(r)
    PROVE  Inv'
<1> USE DEF Inv
<1>t. \A x \in Rank : At(x) \in Nat
    BY PlaceTypes
<1>c. /\ pc[r] = "barrier" /\ Met(r, "world") /\ pc' = [pc EXCEPT ![r] = "idle"]
      /\ requests' = requests /\ cancelled' = cancelled /\ turn' = turn /\ step' = step
      /\ outcome' = outcome /\ meetings' = meetings /\ attended' = attended
    BY DEF Answer, requestVars, meetingVars
<1>1. \A x \in Rank : At(r) <= At(x)
    BY <1>c, MetByAll
<1>2. /\ pc'[r] = "idle"
      /\ \A x \in Rank \ {r} : pc'[x] = pc[x]
      /\ pc' \in [Rank -> {"idle", "run", "agree", "barrier"}]
    BY <1>c DEF Types
<1>3. \A x \in Rank :
        /\ LastOp(x)' = LastOp(x) /\ LastTurn(x)' = LastTurn(x)
        /\ LastStep(x)' = LastStep(x) /\ At(x)' = At(x)
    BY <1>2, <1>c DEF LastOp, LastTurn, LastStep, At
<1>4. \A x \in Rank : NextOf(x)' = NextOf(x)
    BY <1>3, <1>c DEF NextOf, Verdict
<1>5. Types' /\ Turns'
    BY <1>2, <1>c DEF Types, Turns
<1>6. Attendance' /\ Close'
    BY <1>3, <1>c DEF Attendance, Close, Count
<1>7. NoneBehind'
    BY <1>1, <1>2, <1>3 DEF NoneBehind
<1>8. SamePlace'
    BY <1>3 DEF SamePlace
<1>9. NextPlace'
    <2>1. \A y, x \in Rank : At(y) = At(x) + 1 => y # r
        BY <1>1, <1>t
    <2>2. QED
        BY <1>2, <1>3, <1>4, <1>c, <2>1 DEF NextPlace
<1>10. WentOn' /\ Entered'
    BY <1>2, <1>3, <1>4, <1>c DEF WentOn, Entered
<1>11. Ended' /\ EndedAlike'
    BY <1>2, <1>c DEF Ended, EndedAlike
<1>12. QED
    BY <1>5, <1>6, <1>7, <1>8, <1>9, <1>10, <1>11

(***************************************************************************)
(* The theorems.                                                           *)
(***************************************************************************)

\* The invariant holds before the first request.
LEMMA InvInit == WorkerInit => Inv
<1> SUFFICES ASSUME WorkerInit
             PROVE  Inv
    OBVIOUS
<1>1. 0 \in Rank /\ World \in Nat /\ Steps \in Nat /\ Steps >= 1 /\ MaxRequests \in Nat
    BY WorkerAssumption DEF Rank
<1>2. /\ \A g \in Group : meetings[g] = <<>>
      /\ \A r \in Rank : pc[r] = "idle" /\ turn[r] = 0 /\ step[r] = 1 /\ At(r) = 0
      /\ \A r \in Rank : attended[r]["ctrl"] = 0
      /\ \A r \in Rank : \A n \in 1..MaxRequests : outcome[r][n] = "none"
      /\ Count = 0 /\ requests = <<>> /\ cancelled = {} /\ Len(requests) = 0
    BY DEF WorkerInit, At, Count, Group
<1>3. Types
    BY <1>1, <1>2 DEF WorkerInit, Types, Outcome
<1>4. Turns /\ Attendance /\ NoneBehind /\ Close
    BY <1>1, <1>2 DEF Turns, Attendance, NoneBehind, Close, Group
<1>5. SamePlace /\ NextPlace /\ WentOn /\ Entered
    BY <1>2 DEF SamePlace, NextPlace, WentOn, Entered, LastOp, LastTurn, LastStep
<1>6. Ended /\ EndedAlike
    BY <1>2 DEF Ended, EndedAlike
<1>7. QED
    BY <1>3, <1>4, <1>5, <1>6 DEF Inv

\* What Verdict says of a rank at an agreement.
LEMMA AtAgreement ==
    ASSUME NEW r \in Rank, pc[r] = "agree"
    PROVE  NextOf(r) = IF Meeting(r, "world").stopped THEN "stopped"
                       ELSE IF step[r] = Request(r).broken THEN "failed"
                       ELSE IF step[r] = Steps THEN "ok" ELSE "go"
    BY DEF NextOf, Verdict, LastTurn, LastStep, Meeting, Request, At

\* Every step keeps the invariant.
LEMMA InvStep == Inv /\ [WorkerNext]_workerVars => Inv'
<1> SUFFICES ASSUME Inv, [WorkerNext]_workerVars
             PROVE  Inv'
    OBVIOUS
<1>1. ASSUME NEW request \in PlainRequest, Submit(request)
      PROVE  Inv'
    <2>1. 0 \in Rank /\ requests \in Seq(PlainRequest) /\ turn[0] = Len(requests)
          /\ Len(requests) \in Nat /\ MaxRequests \in Nat
        BY WorkerAssumption DEF Rank, Inv, Types, Turns
    <2>2. /\ requests' = Append(requests, request) /\ Len(requests) < MaxRequests
          /\ pc[0] = "idle"
          /\ turn' = [turn EXCEPT ![0] = @ + 1] /\ pc' = [pc EXCEPT ![0] = "run"]
          /\ step' = [step EXCEPT ![0] = 1] /\ cancelled' = cancelled
          /\ UNCHANGED <<outcome, meetingVars>>
        BY <1>1 DEF Submit
    <2>3. /\ requests' \in Seq(PlainRequest) /\ Len(requests') = Len(requests) + 1
          /\ \A n \in 1..Len(requests) : requests'[n] = requests[n]
        BY <2>1, <2>2
    <2>4. /\ Len(requests') <= MaxRequests /\ turn[0] + 1 <= Len(requests')
          /\ 0 = 0 => Len(requests') = Len(requests) + 1
          /\ 0 # 0 => requests' = requests
        BY <2>1, <2>2, <2>3
    <2>5. QED
        BY <2>1, <2>2, <2>3, <2>4, BeginKeeps, Zenon
<1>2. CASE Cancel
    <2>1. /\ pc[0] # "idle" /\ cancelled' = cancelled \cup {turn[0]}
          /\ requests' = requests /\ pc' = pc /\ turn' = turn /\ step' = step
          /\ outcome' = outcome /\ meetings' = meetings /\ attended' = attended
        BY <1>2 DEF Cancel, meetingVars
    <2>2. turn[0] \in 1..Len(requests)
        <3>1. 0 \in Rank
            BY WorkerAssumption DEF Rank
        <3>2. turn[0] >= 1 /\ turn[0] = Len(requests) /\ Len(requests) \in Nat
            BY <2>1, <3>1 DEF Inv, Types, Turns
        <3>3. QED
            BY <3>2
    <2>3. Types'
        BY <2>1, <2>2 DEF Inv, Types
    <2>4. QED
        BY <2>1, <2>3 DEF Inv, Turns, Attendance, NoneBehind, Close, SamePlace, NextPlace, WentOn,
           Entered, Ended, EndedAlike, LastOp, LastTurn, LastStep, At, Count, NextOf, Verdict
<1>3. ASSUME NEW r \in Rank, Receive(r)
      PROVE  Inv'
    <2>1. /\ r # 0 /\ pc[r] = "idle" /\ turn[r] < Len(requests) /\ requests' = requests
          /\ turn' = [turn EXCEPT ![r] = @ + 1] /\ pc' = [pc EXCEPT ![r] = "run"]
          /\ step' = [step EXCEPT ![r] = 1] /\ cancelled' = cancelled
          /\ UNCHANGED <<outcome, meetingVars>>
        BY <1>3 DEF Receive, requestVars
    <2>2. /\ requests \in Seq(PlainRequest) /\ Len(requests) <= MaxRequests
          /\ turn[r] \in Nat /\ Len(requests) \in Nat
        BY DEF Inv, Types
    <2>3. /\ requests' \in Seq(PlainRequest) /\ Len(requests') <= MaxRequests
          /\ turn[r] + 1 <= Len(requests')
          /\ r = 0 => Len(requests') = Len(requests) + 1
          /\ \A n \in 1..Len(requests) : requests'[n] = requests[n]
        BY <2>1, <2>2
    <2>4. QED
        BY <2>1, <2>3, BeginKeeps, Zenon
<1>4. ASSUME NEW r \in Rank, CheckStop(r)
      PROVE  Inv'
    BY <1>4, CheckStopKeeps
<1>5. ASSUME NEW r \in Rank, AgreeToStop(r)
      PROVE  Inv'
    <2>1. pc[r] = "agree" /\ Met(r, "world") /\ NextOf(r) = "stopped" /\ Finish(r, "stopped")
        BY <1>5, AtAgreement DEF AgreeToStop
    <2>2. QED
        BY <2>1, FinishKeeps
<1>6. ASSUME NEW r \in Rank, Raise(r)
      PROVE  Inv'
    <2>1. pc[r] = "agree" /\ Met(r, "world") /\ NextOf(r) = "failed" /\ Finish(r, "failed")
        BY <1>6, AtAgreement DEF Raise
    <2>2. QED
        BY <2>1, FinishKeeps
<1>7. ASSUME NEW r \in Rank, Infer(r)
      PROVE  Inv'
    <2>1. CASE step[r] = Steps
        <3>1. pc[r] = "agree" /\ Met(r, "world") /\ NextOf(r) = "ok" /\ Finish(r, "ok")
            BY <1>7, <2>1, AtAgreement DEF Infer
        <3>2. QED
            BY <3>1, FinishKeeps
    <2>2. CASE step[r] # Steps
        <3>1. /\ pc[r] = "agree" /\ Met(r, "world") /\ NextOf(r) = "go"
              /\ step' = [step EXCEPT ![r] = @ + 1] /\ pc' = [pc EXCEPT ![r] = "run"]
              /\ UNCHANGED <<requestVars, turn, outcome, meetingVars>>
            BY <1>7, <2>2, AtAgreement DEF Infer
        <3>2. QED
            BY <3>1, GoOnKeeps
    <2>3. QED
        BY <2>1, <2>2
<1>8. ASSUME NEW r \in Rank, Answer(r)
      PROVE  Inv'
    BY <1>8, AnswerKeeps
<1>9. CASE UNCHANGED workerVars
    <2>1. /\ requests' = requests /\ cancelled' = cancelled /\ pc' = pc /\ turn' = turn
          /\ step' = step /\ outcome' = outcome /\ meetings' = meetings /\ attended' = attended
        BY <1>9 DEF workerVars, requestVars, meetingVars
    <2>2. \A r \in Rank :
            /\ LastOp(r)' = LastOp(r) /\ LastTurn(r)' = LastTurn(r) /\ LastStep(r)' = LastStep(r)
            /\ At(r)' = At(r) /\ NextOf(r)' = NextOf(r)
        BY <2>1 DEF LastOp, LastTurn, LastStep, At, NextOf, Verdict
    <2>3. Types' /\ Turns'
        BY <2>1 DEF Inv, Types, Turns
    <2>4. Attendance' /\ NoneBehind' /\ Close'
        BY <2>1, <2>2 DEF Inv, Attendance, NoneBehind, Close, Count
    <2>5. SamePlace' /\ NextPlace' /\ WentOn' /\ Entered' /\ Ended' /\ EndedAlike'
        BY <2>1, <2>2 DEF Inv, SamePlace, NextPlace, WentOn, Entered, Ended, EndedAlike
    <2>6. QED
        BY <2>3, <2>4, <2>5 DEF Inv
<1>10. QED
    BY <1>1, <1>2, <1>3, <1>4, <1>5, <1>6, <1>7, <1>8, <1>9
       DEF WorkerNext, WorkerStep, PlainStep

\* The invariant, which the theorems below follow from.
THEOREM InvAlways == WorkerSpec => []Inv
<1>1. QED
    BY InvInit, InvStep, PTL DEF WorkerSpec

\* The types, by the invariant.
LEMMA InvTyped == Inv => WorkerTypeOK
<1> SUFFICES ASSUME Inv
             PROVE  WorkerTypeOK
    OBVIOUS
<1>1. \A g \in Group : \A n \in 1..Len(meetings[g]) : meetings[g][n].ranks \subseteq Rank
    <2> SUFFICES ASSUME NEW g \in Group, NEW n \in 1..Len(meetings[g])
                 PROVE  meetings[g][n].ranks \subseteq Rank
        OBVIOUS
    <2>1. meetings[g] \in Seq(MeetingType)
        BY DEF Inv, Types
    <2>2. meetings[g][n] \in MeetingType
        BY <2>1
    <2>3. QED
        BY <2>2 DEF MeetingType
<1>2. QED
    BY <1>1 DEF Inv, Types, WorkerTypeOK

\* Type correctness of the workers.
THEOREM WorkersTypeCorrect == WorkerSpec => []WorkerTypeOK
<1>1. QED
    BY InvTyped, InvAlways, PTL

\* The collectives, by the invariant.
LEMMA InvAligned == Inv => MeetingsAligned
<1> SUFFICES ASSUME Inv
             PROVE  MeetingsAligned
    OBVIOUS
<1> USE DEF Inv
<1>t. \A x \in Rank : At(x) \in Nat /\ turn[x] \in Nat
    BY PlaceTypes
<1>1. ASSUME NEW g \in Group, NEW n \in 1..Len(meetings[g]),
             NEW op \in meetings[g][n].ops, NEW other \in meetings[g][n].ops
      PROVE  op = other
    BY DEF Group, Attendance, Count
<1>2. \A r, s \in Rank : \A g \in Group : attended[r][g] <= attended[s][g] + 1
    BY DEF Attendance, Close, At, Group
<1>3. ASSUME NEW r \in Rank, NEW s \in Rank,
             pc[r] = "barrier", pc[s] = "barrier", turn[r] = turn[s]
      PROVE  attended[r] = attended[s]
    <2>1. At(r) <= At(s) + 1 /\ At(s) <= At(r) + 1
        BY DEF Close
    <2>2. \A x, y \in {r, s} : At(x) # At(y) + 1
        BY <1>3 DEF NextPlace, LastOp
    <2>3. At(r) = At(s)
        BY <1>t, <2>1, <2>2
    <2>4. \A g \in Group : attended[r][g] = attended[s][g]
        BY <2>3 DEF At, Attendance, Group
    <2>5. QED
        BY <2>4 DEF Types
<1>4. QED
    BY <1>1, <1>2, <1>3 DEF MeetingsAligned

\* With requests that all ranks work on in lockstep, the collectives of
\* check_stop and of the barrier stay aligned, however the ranks are scheduled
\* and whenever a request is cancelled: no rank leaves a request while its
\* peers wait for it in a collective.
THEOREM CollectivesAligned == WorkerSpec => []MeetingsAligned
<1>1. QED
    BY InvAligned, InvAlways, PTL


\* The ends of a request, by the invariant.
LEMMA InvTogether == Inv => StopsTogether
<1> SUFFICES ASSUME Inv, NEW r \in Rank, NEW s \in Rank, NEW n \in 1..Len(requests),
                    "none" \notin {outcome[r][n], outcome[s][n]}
             PROVE  /\ outcome[r][n] = outcome[s][n]
                    /\ turn[r] = n /\ turn[s] = n => step[r] = step[s]
    BY DEF StopsTogether
<1> USE DEF Inv
<1>1. n \in 1..MaxRequests
    BY WorkerAssumption DEF Types
<1>2. outcome[r][n] = outcome[s][n]
    BY <1>1 DEF EndedAlike
<1>3. ASSUME NEW x \in Rank, outcome[x][n] # "none", turn[x] = n
      PROVE  pc[x] \in {"barrier", "idle"}
    BY <1>1, <1>3 DEF Ended
<1>4. QED
    BY <1>2, <1>3 DEF EndedAlike

\* A request ends alike on all ranks, stopped, failed or done, and in the same
\* step, although only rank 0 sees the cancellation and it may come between
\* any two steps of any two ranks.
THEOREM StoppedTogether == WorkerSpec => []StopsTogether
<1>1. QED
    BY InvTogether, InvAlways, PTL


=============================================================================
