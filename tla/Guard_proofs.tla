---------------------------- MODULE Guard_proofs ----------------------------
(***************************************************************************)
(* The guard's budget and settling time, for any budget, window, number of *)
(* polls and horizon.                                                      *)
(*                                                                         *)
(* The budget is kept by the file, not by the restarts themselves.  What   *)
(* ties the two is OnFile: a restart is on file for as long as it counts.  *)
(* Then the restarts of a window that reaches the present are lines of the *)
(* file, whose number the step before a restart has bounded (Budgeted),    *)
(* and the restarts of older windows do not change any more.               *)
(***************************************************************************)
EXTENDS Guard, FiniteSetTheorems, TLAPS

\* A restart leaves the file only when it is too old to count.
OnFile == \A r \in restarts : r \in attempts \/ r.at + Window <= now

\* What a run has established by the time it records and by the time it acts.
Budgeted ==
    /\ step = "record" => Cardinality(attempts) < MaxRepairs
    /\ step = "restart" => /\ Cardinality(attempts) <= MaxRepairs
                           /\ [id |-> attempt, at |-> now] \in attempts

WithinBudget == \A t \in Nat : Cardinality(RestartsBefore(t)) <= MaxRepairs

\* How long the present WirePlumber has run, by where the script is.
Settling ==
    /\ born <= clock
    /\ step = "check" => polls = 0
    /\ step = "poll" => polls < Settle /\ clock >= born + polls
    /\ step = "sleep" => polls > 0 /\ polled <= clock /\ polled >= born + polls - 1
    /\ step \in {"decide", "prune", "record", "restart"} => clock >= born + Settle

IInv ==
    /\ TypeOK
    /\ IsFiniteSet(attempts)
    /\ now <= clock
    /\ OnFile
    /\ Budgeted
    /\ WithinBudget
    /\ Settling

----------------------------------------------------------------------------

\* A session begins with an empty file and no restart.
LEMMA InitIInv == Init => IInv
<1> SUFFICES ASSUME Init PROVE IInv
  OBVIOUS
<1>1. \A t \in Nat : RestartsBefore(t) = {}
  BY DEF Init, RestartsBefore
<1>2. WithinBudget
  BY <1>1, FS_EmptySet, ConstantsAssumption DEF WithinBudget
<1>3. TypeOK
  <2>1. wireplumber \in BOOLEAN /\ hardware \in BOOLEAN /\ graph \in Graphs
    BY DEF Init
  <2> QED
    BY <2>1, ConstantsAssumption DEF Init, TypeOK, Steps
<1>4. IsFiniteSet(attempts) /\ now <= clock
  BY FS_EmptySet DEF Init
<1>5. OnFile /\ Budgeted /\ Settling
  BY DEF Init, OnFile, Budgeted, Settling
<1> QED
  BY <1>2, <1>3, <1>4, <1>5 DEF IInv

\* The steps of the script and of the session that touch neither the file nor
\* the restarts, and do not enter the steps that rely on the budget.
Plain ==
    \/ NothingToGuard \/ SomethingToGuard
    \/ PollUnreachable \/ PollFilled \/ PollEmpty \/ TimedOut
    \/ Wake \/ ReadClock
    \/ StartWireplumber \/ TimerFires \/ StopWireplumber \/ StopGuard
    \/ Change \/ Tick

\* Such a step leaves the restarts as they are, and the file and the clock's
\* last reading good enough for them.
LEMMA PlainIInv ==
    ASSUME IInv, Plain \/ UNCHANGED vars
    PROVE  IInv'
<1> USE DEF IInv, Plain, vars, script, books, session, Goto, ExitWith,
            NothingToGuard, SomethingToGuard, PollUnreachable, PollFilled, PollEmpty,
            TimedOut, Wake, ReadClock, StartWireplumber, TimerFires, StopWireplumber,
            StopGuard, Change, Tick
<1>1. UNCHANGED books
  OBVIOUS
<1>2. TypeOK'
  <2>1. clock' \in Nat /\ born' \in Nat /\ polled' \in Nat /\ now' \in Nat
    BY DEF TypeOK
  <2>2. polls' \in 0..Settle
    BY ConstantsAssumption DEF TypeOK, Settling
  <2>3. step' \in Steps
    BY DEF TypeOK, Steps
  <2>4. result' \in {"success", "failed"}
    BY DEF TypeOK
  <2>5. graph' \in Graphs
    BY DEF TypeOK
  <2>6. hardware' \in BOOLEAN /\ wireplumber' \in BOOLEAN
    BY DEF TypeOK
  <2> QED
    BY <1>1, <2>1, <2>2, <2>3, <2>4, <2>5, <2>6 DEF TypeOK
<1>3. now' <= clock' /\ now' >= now
  BY DEF TypeOK
<1>4. OnFile'
  <2>1. \A r \in restarts : r.at + Window \in Int
    BY ConstantsAssumption DEF TypeOK, Attempt
  <2> QED
    BY <1>1, <1>2, <1>3, <2>1 DEF OnFile, TypeOK
<1>5. Budgeted'
  BY <1>1 DEF Budgeted
<1>6. WithinBudget'
  BY <1>1 DEF WithinBudget, RestartsBefore
<1>7. Settling'
  BY ConstantsAssumption DEF Settling, TypeOK
<1> QED
  BY <1>1, <1>2, <1>3, <1>4, <1>5, <1>6, <1>7

\* Pruning drops only what is too old to count, and goes on to record only
\* below the budget.
LEMMA PruneIInv ==
    ASSUME IInv, Prune
    PROVE  IInv'
<1> USE DEF IInv, Prune, Goto, ExitWith, session
<1>1. Recent \subseteq attempts /\ IsFiniteSet(Recent) /\ Cardinality(Recent) \in Nat
  BY FS_Subset, FS_CardinalityType DEF Recent
<1>2. TypeOK'
  BY <1>1 DEF TypeOK, Steps
<1>3. OnFile'
  BY ConstantsAssumption DEF OnFile, Recent, TypeOK, Attempt
<1>4. Budgeted'
  BY <1>1, ConstantsAssumption DEF Budgeted
<1>5. WithinBudget'
  BY DEF WithinBudget, RestartsBefore
<1>6. Settling'
  BY DEF Settling
<1> QED
  BY <1>1, <1>2, <1>3, <1>4, <1>5, <1>6

\* Recording takes the attempt's place in the budget before it is made.
LEMMA RecordIInv ==
    ASSUME IInv, Record
    PROVE  IInv'
<1> USE DEF IInv, Record, Goto, session
<1> DEFINE line == [id |-> attempt + 1, at |-> now]
<1>1. line \in Attempt
  BY DEF TypeOK, Attempt
<1>2. IsFiniteSet(attempts') /\ Cardinality(attempts') <= Cardinality(attempts) + 1
  <2>1. attempts' = attempts \cup {line} /\ IsFiniteSet(attempts)
    OBVIOUS
  <2> HIDE DEF line
  <2>2. Cardinality(attempts) \in Nat
    BY <2>1, FS_CardinalityType
  <2>3. /\ IsFiniteSet(attempts \cup {line})
        /\ Cardinality(attempts \cup {line})
              = IF line \in attempts THEN Cardinality(attempts) ELSE Cardinality(attempts) + 1
    BY <2>1, FS_AddElement, Zenon
  <2>4. IsFiniteSet(attempts')
    BY <2>1, <2>3, Zenon
  <2>5. Cardinality(attempts')
           = IF line \in attempts THEN Cardinality(attempts) ELSE Cardinality(attempts) + 1
    BY <2>1, <2>3, Zenon
  <2> QED
    BY <2>2, <2>4, <2>5
<1>3. TypeOK'
  BY <1>1 DEF TypeOK, Steps
<1>4. OnFile'
  BY DEF OnFile
<1>5. Budgeted'
  <2>1. Cardinality(attempts) \in Nat /\ Cardinality(attempts') \in Nat
    BY <1>2, FS_CardinalityType
  <2> QED
    BY <1>2, <2>1, ConstantsAssumption DEF Budgeted
<1>6. WithinBudget'
  BY DEF WithinBudget, RestartsBefore
<1>7. Settling'
  BY DEF Settling
<1> QED
  BY <1>2, <1>3, <1>4, <1>5, <1>6, <1>7

\* A restart's windows reach the present: every restart in them is on file.
LEMMA RestartIInv ==
    ASSUME IInv, Restart
    PROVE  IInv'
<1> USE DEF IInv, Restart, ExitWith, session
<1> DEFINE r == [id |-> attempt, at |-> now]
<1>1. r \in attempts /\ Cardinality(attempts) <= MaxRepairs
  BY DEF Budgeted
<1>2. restarts' \subseteq restarts \cup {r}
  OBVIOUS
<1>3. TypeOK'
  BY <1>1 DEF TypeOK, Steps
<1>4. OnFile'
  BY <1>1, <1>2 DEF OnFile
<1>5. Budgeted'
  BY DEF Budgeted
<1>6. WithinBudget'
  <2> SUFFICES ASSUME NEW t \in Nat
               PROVE  Cardinality(RestartsBefore(t)') <= MaxRepairs
    BY DEF WithinBudget
  <2>1. CASE t < now
    <3>1. RestartsBefore(t)' \subseteq RestartsBefore(t)
      BY <1>2, <2>1 DEF RestartsBefore, TypeOK
    <3>2. RestartsBefore(t) \subseteq RestartsBefore(t)'
      BY DEF RestartsBefore
    <3>3. RestartsBefore(t)' = RestartsBefore(t)
      BY <3>1, <3>2
    <3> QED
      BY <3>3 DEF WithinBudget
  <2>2. CASE now <= t
    <3>1. \A x \in restarts : t < x.at + Window => x \in attempts
      BY <2>2, ConstantsAssumption DEF OnFile, TypeOK, Attempt
    <3>2. RestartsBefore(t)' \subseteq attempts
      BY <1>1, <1>2, <3>1 DEF RestartsBefore
    <3>3. Cardinality(RestartsBefore(t)') <= Cardinality(attempts)
      BY <3>2, FS_Subset
    <3>4. Cardinality(attempts) \in Nat /\ Cardinality(RestartsBefore(t)') \in Nat
      BY <3>2, FS_Subset, FS_CardinalityType
    <3> QED
      BY <1>1, <3>3, <3>4, ConstantsAssumption
  <2> QED
    BY <2>1, <2>2 DEF TypeOK
<1>7. Settling'
  BY DEF Settling
<1> QED
  BY <1>3, <1>4, <1>5, <1>6, <1>7

\* A new session owes nothing to the last one.
LEMMA LogoutIInv ==
    ASSUME IInv, Logout
    PROVE  IInv'
<1> USE DEF IInv, Logout, ExitWith
<1>1. \A t \in Nat : RestartsBefore(t)' = {}
  BY DEF RestartsBefore
<1>2. WithinBudget'
  BY <1>1, FS_EmptySet, ConstantsAssumption DEF WithinBudget
<1> QED
  BY <1>2, FS_EmptySet DEF TypeOK, Graphs, Steps, OnFile, Budgeted, Settling

\* What the theorems rest on.
THEOREM IInvInductive == Spec => []IInv
<1>1. IInv /\ [Next]_vars => IInv'
  BY PlainIInv, PruneIInv, RecordIInv, RestartIInv, LogoutIInv DEF Next, Script, Plain
<1> QED
  BY InitIInv, <1>1, PTL DEF Spec

----------------------------------------------------------------------------
(* The theorems. *)

\* Type correctness.
THEOREM TypeCorrect == Spec => []TypeOK
BY IInvInductive, PTL DEF IInv

\* However often WirePlumber comes up empty, and wherever the runs of the guard
\* are cut short, it is not restarted more often than the budget allows.
THEOREM BudgetIsKept == Spec => []RepairBudget
<1>1. IInv => RepairBudget
  BY ConstantsAssumption DEF IInv, WithinBudget, RepairBudget
<1> QED
  BY <1>1, IInvInductive, PTL

\* No WirePlumber is restarted by the guard before it has had its settling time.
THEOREM SettlingTimeIsGranted == Spec => SettledBeforeRepair
<1>1. ASSUME IInv, [Next]_vars, NEW r \in restarts', r \notin restarts
      PROVE  clock - born >= Settle
  <2>1. Restart
    <3>1. restarts' = restarts \/ restarts' = {} \/ Restart
      BY <1>1 DEF Next, vars, Script, NothingToGuard, SomethingToGuard,
                  PollUnreachable, PollFilled, PollEmpty, TimedOut, Wake, ReadClock,
                  Prune, Record, StartWireplumber, TimerFires, StopWireplumber,
                  StopGuard, Change, Tick, Logout, books
    <3> QED
      BY <1>1, <3>1
  <2> QED
    BY <1>1, <2>1, ConstantsAssumption DEF IInv, Settling, TypeOK, Restart
<1>2. IInv /\ [Next]_vars =>
          [(\E r \in restarts' : r \notin restarts) => clock - born >= Settle]_vars
  BY <1>1
<1> QED
  BY <1>2, IInvInductive, PTL DEF Spec, SettledBeforeRepair
=============================================================================
