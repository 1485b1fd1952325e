------------------- MODULE PeerSupervisionHistory_proofs -------------------
(***************************************************************************)
(* What PeerSupervisionHistory compares, for any set of peers, plans and   *)
(* transports, any thresholds and any bound on the history: the records    *)
(* say what the peers answered, and every start is throttled by the        *)
(* failures that went before it.                                           *)
(*                                                                         *)
(* Neither comparison is inductive as it stands.  A record must agree with *)
(* the silence in its count of misses, below the threshold, before its     *)
(* verdict can; and what throttles a start is three facts about a backoff  *)
(* of which no start shows more than one: it is as long as the failures    *)
(* call for, and what has been served of it was served one visit at a time *)
(* since the last of them.                                                 *)
(***************************************************************************)
EXTENDS PeerSupervisionHistory, PeerSupervision_proofs,
        Integers, FiniteSets, FiniteSetTheorems, FunctionTheorems

\* The history is what its variables declare.
HistoryTypeOK ==
    /\ answered \in [Peers -> Plans \cup {Absent}]
    /\ silence \in [Peers -> 0..MaxCount]
    /\ failures \in [Peers -> 0..MaxCount]
    /\ idle \in [Peers -> 0..MaxCount]

\* A record r agrees with a last answer a and a silence of n probes: the count of
\* misses is the silence, until both are past the threshold.
RecordOK(r, a, n) ==
    /\ r = Absent <=> a = Absent
    /\ r # Absent =>
          /\ r.plan = a
          /\ r.available <=> r.misses < MISSES_BEFORE_UNREACHABLE
          /\ \/ r.misses = n
             \/ r.misses >= MISSES_BEFORE_UNREACHABLE /\ n >= MISSES_BEFORE_UNREACHABLE

\* A backoff b agrees with f failures in a row and i visits since the last one.
PauseOK(b, f, i) ==
    /\ PauseAfter(f) <= b.length
    /\ b.length <= i + b.remaining

HIInv ==
    /\ HistoryTypeOK
    /\ \A p \in Peers : RecordOK(peers[p], answered[p], silence[p])
    /\ \A p \in Peers : PauseOK(spawnBackoff[p], failures[p], idle[p])

----------------------------------------------------------------------------
(* Powers of two: the solvers know `^' by name only, so that 2^k is what   *)
(* the number of subsets of 1..k makes it.                                 *)

\* A set of k elements has 2^k subsets.
LEMMA SubsetsOfInterval ==
    ASSUME NEW k \in Nat
    PROVE  IsFiniteSet(SUBSET (1..k)) /\ Cardinality(SUBSET (1..k)) = 2^k
<1>1. IsFiniteSet(1..k) /\ Cardinality(1..k) = k
  BY FS_Interval
<1> QED  BY <1>1, FS_SUBSET

\* A power of two is a natural number.
LEMMA PowerType ==
    ASSUME NEW k \in Nat
    PROVE  2^k \in Nat
BY SubsetsOfInterval, FS_CardinalityType

\* A new element doubles the subsets: each comes without it and with it.
LEMMA PowerDoubles ==
    ASSUME NEW k \in Nat
    PROVE  2^(k + 1) = 2 * 2^k
<1> DEFINE without == SUBSET (1..k)
           with == {X \in SUBSET (1..(k+1)) : k + 1 \in X}
           f == [X \in without |-> X \cup {k + 1}]
<1>1. f \in Bijection(without, with)
  <2>1. f \in [without -> with]
    OBVIOUS
  <2>2. \A X, Y \in without : f[X] = f[Y] => X = Y
    <3>1. \A X \in without : X = f[X] \ {k + 1}
      OBVIOUS
    <3> QED  BY <3>1
  <2>3. \A Z \in with : \E X \in without : f[X] = Z
    <3> SUFFICES ASSUME NEW Z \in with PROVE \E X \in without : f[X] = Z
      OBVIOUS
    <3>1. Z \ {k + 1} \in without
      OBVIOUS
    <3>2. f[Z \ {k + 1}] = Z
      BY <3>1
    <3> QED  BY <3>1, <3>2
  <2> HIDE DEF without, with, f
  <2> QED  BY <2>1, <2>2, <2>3 DEF Bijection, Injection, Surjection, IsInjective
<1>2. SUBSET (1..(k+1)) = without \cup with /\ without \cap with = {}
  OBVIOUS
<1>3. /\ IsFiniteSet(without) /\ Cardinality(without) = 2^k
      /\ Cardinality(SUBSET (1..(k+1))) = 2^(k + 1)
  BY SubsetsOfInterval
<1>4. IsFiniteSet(with) /\ Cardinality(with) = 2^k
  BY <1>1, <1>3, FS_Bijection DEF ExistsBijection
<1>5. Cardinality(without \cup with) = 2^k + 2^k - 0
  <2> HIDE DEF without, with
  <2> QED  BY <1>2, <1>3, <1>4, FS_Union, FS_EmptySet
<1>6. 2^(k + 1) = 2^k + 2^k - 0
  <2> HIDE DEF without, with
  <2> QED  BY <1>2, <1>3, <1>5, Zenon
<1> DEFINE x == 2^k
<1>7. x \in Nat
  BY PowerType
<1>8. 2^(k + 1) = x + x - 0
  BY <1>6
<1> HIDE DEF x
<1>9. 2^(k + 1) = 2 * x
  BY <1>7, <1>8
<1> QED  BY <1>9 DEF x

----------------------------------------------------------------------------
(* What the steps do to one record and to one backoff. *)

\* Counting saturates inside its range and never counts down.
LEMMA CountedType ==
    ASSUME NEW n \in 0..MaxCount
    PROVE  /\ Counted(n) \in 0..MaxCount
           /\ Counted(n) = n + 1 \/ (Counted(n) = n /\ n = MaxCount)
BY HistoryAssumption DEF Counted, Least

\* The pause starts at nothing, at most doubles and one with each failure, and
\* stays under its ceiling.
LEMMA PauseGrows ==
    ASSUME NEW k \in Nat
    PROVE  /\ PauseAfter(k) \in 0..MAX_SPAWN_BACKOFF
           /\ PauseAfter(0) = 0
           /\ PauseAfter(k + 1) = Least(2 * PauseAfter(k) + 1, MAX_SPAWN_BACKOFF)
<1> DEFINE x == 2^k
           y == 2^(k + 1)
<1>1. x \in Nat /\ y \in Nat /\ y = 2 * x
  BY PowerType, PowerDoubles
<1>2. x >= 1
  <2>1. {} \in SUBSET (1..k)
    OBVIOUS
  <2>2. IsFiniteSet(SUBSET (1..k)) /\ Cardinality(SUBSET (1..k)) = x
    BY SubsetsOfInterval
  <2>3. x # 0
    BY <2>1, <2>2, FS_EmptySet
  <2> QED
    BY <1>1, <2>3
<1>3. 2^0 = 1
  <2>1. Cardinality(SUBSET (1..0)) = 2^0
    BY SubsetsOfInterval
  <2>2. SUBSET (1..0) = {{}}
    OBVIOUS
  <2>3. Cardinality({{}}) = 1
    BY FS_Singleton
  <2> QED
    BY <2>1, <2>2, <2>3
<1>4. PauseAfter(0) = 0
  BY <1>3, ConstantsAssumption DEF PauseAfter, Least
<1>5. PauseAfter(k) = Least(x - 1, MAX_SPAWN_BACKOFF)
  BY DEF PauseAfter
<1>6. PauseAfter(k + 1) = Least(y - 1, MAX_SPAWN_BACKOFF)
  BY DEF PauseAfter
<1> HIDE DEF x, y
<1> QED
  BY <1>1, <1>2, <1>4, <1>5, <1>6, ConstantsAssumption DEF Least

\* Forgetting failures asks for no longer a pause, and a visit more, with nothing
\* served, breaks nothing.
LEMMA PauseKept ==
    ASSUME NEW b \in Backoff, NEW f \in 0..MaxCount, NEW i \in 0..MaxCount,
           PauseOK(b, f, i),
           NEW f2 \in {0, f}, NEW i2 \in {i, Counted(i)}
    PROVE  PauseOK(b, f2, i2)
<1>1. PauseAfter(0) = 0 /\ b.length \in Nat /\ b.remaining \in Nat
  BY PauseGrows, ConstantsAssumption DEF Backoff
<1>2. i2 >= i
  BY CountedType
<1> QED
  BY <1>1, <1>2, HistoryAssumption DEF PauseOK

\* A penalty is what one more failure calls for, and nothing of it is served.
LEMMA PauseLengthened ==
    ASSUME NEW b \in Backoff, NEW f \in 0..MaxCount, NEW i \in 0..MaxCount,
           PauseOK(b, f, i),
           NEW f2 \in {0, Counted(f)}, NEW i2 \in Nat
    PROVE  PauseOK(Penalised(b), f2, i2)
<1>1. /\ PauseAfter(0) = 0
      /\ PauseAfter(f) \in 0..MAX_SPAWN_BACKOFF
      /\ PauseAfter(f + 1) = Least(2 * PauseAfter(f) + 1, MAX_SPAWN_BACKOFF)
      /\ f \in Nat
  BY PauseGrows, HistoryAssumption
<1>2. Counted(f) = f + 1 \/ Counted(f) = f
  BY CountedType
<1>3. /\ Penalised(b).length = Least(2 * b.length + 1, MAX_SPAWN_BACKOFF)
      /\ Penalised(b).remaining = Penalised(b).length
  BY DEF Penalised
<1>4. b.length \in 0..MAX_SPAWN_BACKOFF /\ PauseAfter(f) <= b.length
  BY DEF Backoff, PauseOK
<1>5. PauseAfter(f2) <= Penalised(b).length
  BY <1>1, <1>2, <1>3, <1>4, ConstantsAssumption DEF Least
<1> QED
  BY <1>3, <1>4, <1>5, ConstantsAssumption DEF PauseOK, Least

\* What a visit serves of a pause, that visit accounts for.
LEMMA PauseServedOnce ==
    ASSUME NEW b \in Backoff, NEW f \in 0..MaxCount, NEW i \in 0..MaxCount,
           PauseOK(b, f, i), b.remaining > 0,
           NEW f2 \in {0, f}
    PROVE  PauseOK(Served(b), f2, Counted(i))
<1>1. PauseAfter(0) = 0
  BY PauseGrows
<1>2. Counted(i) = i + 1 \/ (Counted(i) = i /\ i = MaxCount)
  BY CountedType
<1>3. /\ b.length \in 0..MAX_SPAWN_BACKOFF /\ b.remaining \in 0..MAX_SPAWN_BACKOFF
      /\ Served(b).length = b.length /\ Served(b).remaining = b.remaining - 1
  BY DEF Backoff, Served
<1> QED
  BY <1>1, <1>2, <1>3, HistoryAssumption, ConstantsAssumption DEF PauseOK

----------------------------------------------------------------------------
(* What a step is to one peer. *)

\* A step that leaves a peer's record, backoff and process be.
Passed(p) ==
    /\ ~Dropped(p) /\ ~Probed(p) /\ ~Visited(p)
    /\ peers'[p] = peers[p]
    /\ spawnBackoff'[p] = spawnBackoff[p]
    /\ workers'[p] = Absent => workers[p] = Absent

\* The end of a pass, for a peer that has left the configuration.
Removed(p) ==
    /\ Dropped(p) /\ ~Probed(p) /\ ~Visited(p)
    /\ peers'[p] = Absent
    /\ spawnBackoff'[p] = NoBackoff

\* A probe of a peer, which touches its record only.
ProbedAlone(p) ==
    /\ ~Dropped(p) /\ Probed(p) /\ ~Visited(p)
    /\ peers'[p] = IF world[p] # Absent THEN Answered(world[p])
                   ELSE IF peers[p] = Absent THEN Absent ELSE Missed(peers[p])
    /\ spawnBackoff'[p] = spawnBackoff[p]
    /\ workers'[p] = workers[p]

\* A visit, which touches all but its record.
VisitedAlone(p) ==
    /\ ~Dropped(p) /\ ~Probed(p) /\ Visited(p)
    /\ Supervise(p)
    /\ peers'[p] = peers[p]

\* A process stays one through whatever the world does to it.
LEMMA WorldKeepsWorkers ==
    ASSUME IInv, World, NEW p \in Peers, workers[p] # Absent
    PROVE  workers'[p] # Absent
<1>1. workers \in [Peers -> Worker \cup {Absent}] /\ workers[p] \in Worker
  BY DEF IInv, TypeOK
<1>2. CASE \/ Edit \/ Reload
           \/ \E q \in Peers : Turn(q)
  BY <1>2 DEF Edit, Reload, Turn, tables
<1>3. ASSUME NEW q \in Peers, Exit(q)
      PROVE  workers'[p] # Absent
  <2>1. CASE q = p
    <3>1. [workers[p] EXCEPT !.exited = TRUE] \in Worker
      BY <1>1 DEF Worker
    <3>2. workers'[p] = [workers[p] EXCEPT !.exited = TRUE]
      BY <1>1, <1>3, <2>1 DEF Exit
    <3> QED
      BY <3>1, <3>2, ConstantsAssumption
  <2>2. CASE q # p
    BY <1>1, <1>3, <2>2 DEF Exit
  <2> QED
    BY <2>1, <2>2
<1>4. CASE Tick
  <2> DEFINE older == [workers[p] EXCEPT !.age = Least(@ + 1, HEALTHY_RUN)]
  <2>1. Least(workers[p].age + 1, HEALTHY_RUN) \in 0..HEALTHY_RUN
    BY <1>1, ConstantsAssumption DEF Worker, Least
  <2>2. older \in Worker
    BY <1>1, <2>1 DEF Worker
  <2>3. workers'[p] = older
    BY <1>4 DEF Tick
  <2> HIDE DEF older
  <2> QED
    BY <2>2, <2>3, ConstantsAssumption
<1> QED
  BY <1>2, <1>3, <1>4 DEF World

\* Every step is one of four things to a peer.
LEMMA StepOfPeer ==
    ASSUME IInv, Next, NEW p \in Peers
    PROVE  Passed(p) \/ Removed(p) \/ ProbedAlone(p) \/ VisitedAlone(p)
<1>1. /\ p # Absent
      /\ phase = "sleep" => current = Absent
      /\ current # Absent => phase = "pass"
      /\ todo # {} => phase = "pass"
      /\ peers \in [Peers -> PeerSnapshot \cup {Absent}]
      /\ workers \in [Peers -> Worker \cup {Absent}]
      /\ spawnBackoff \in [Peers -> Backoff]
  BY ConstantsAssumption DEF IInv, TypeOK, PassOK
<1>2. CASE StartPass
  BY <1>1, <1>2 DEF StartPass, Passed, Dropped, Probed, Visited, tables
<1>3. ASSUME NEW q \in Peers, ProbeAnswered(q) \/ ProbeMissed(q)
      PROVE  Passed(p) \/ ProbedAlone(p)
  <2>1. /\ current = Absent /\ current' = q /\ phase' = phase
        /\ UNCHANGED <<workers, spawnBackoff>>
        /\ q # Absent
    BY <1>3, ConstantsAssumption DEF ProbeAnswered, ProbeMissed
  <2>2. peers'[q] = IF world[q] # Absent THEN Answered(world[q])
                    ELSE IF peers[q] = Absent THEN Absent ELSE Missed(peers[q])
    BY <1>1, <1>3 DEF ProbeAnswered, ProbeMissed
  <2>3. p # q => peers'[p] = peers[p]
    BY <1>1, <1>3 DEF ProbeAnswered, ProbeMissed
  <2>4. CASE p = q
    BY <2>1, <2>2, <2>4 DEF ProbedAlone, Dropped, Probed, Visited
  <2>5. CASE p # q
    BY <2>1, <2>3, <2>5 DEF Passed, Dropped, Probed, Visited
  <2> QED
    BY <2>4, <2>5
<1>4. ASSUME NEW q \in Peers, Supervise(q)
      PROVE  Passed(p) \/ VisitedAlone(p)
  <2>1. /\ current = q /\ current' = Absent /\ phase' = phase /\ peers' = peers
        /\ q # Absent
    BY <1>4, ConstantsAssumption
    DEF Supervise, Supervised, SuperviseAway, SuperviseKeep, SuperviseWait,
        SuperviseSpawn, SuperviseFail
  <2>2. CASE p = q
    BY <1>4, <2>1, <2>2 DEF VisitedAlone, Dropped, Probed, Visited
  <2>3. CASE p # q
    <3>1. workers'[p] = workers[p] /\ spawnBackoff'[p] = spawnBackoff[p]
      BY <1>1, <1>4, <2>3
      DEF Supervise, SuperviseAway, SuperviseKeep, SuperviseWait, SuperviseSpawn,
          SuperviseFail
    <3> QED
      BY <2>1, <2>3, <3>1 DEF Passed, Dropped, Probed, Visited
  <2> QED
    BY <2>2, <2>3
<1>5. CASE Retire
  <2>1. /\ current = Absent /\ current' = Absent /\ phase = "pass" /\ phase' = "sleep"
        /\ passConfig[p] = Absent =>
              peers'[p] = Absent /\ spawnBackoff'[p] = NoBackoff
        /\ passConfig[p] # Absent =>
              /\ peers'[p] = peers[p] /\ spawnBackoff'[p] = spawnBackoff[p]
              /\ workers'[p] = workers[p]
    BY <1>5 DEF Retire, Configured
  <2> QED
    BY <1>1, <2>1 DEF Passed, Removed, Dropped, Probed, Visited
<1>6. CASE World
  <2>1. UNCHANGED <<phase, current, peers, spawnBackoff>>
    BY <1>6 DEF World, Edit, Reload, Turn, Exit, Tick, tables
  <2>2. workers'[p] = Absent => workers[p] = Absent
    BY <1>6, WorldKeepsWorkers
  <2> QED
    BY <1>1, <2>1, <2>2 DEF Passed, Dropped, Probed, Visited
<1> QED
  BY <1>2, <1>3, <1>4, <1>5, <1>6 DEF Next, Pass

----------------------------------------------------------------------------
(* Preservation. *)

\* The history starts empty, beside empty tables.
LEMMA InitHIInv == HInit => HIInv
<1> SUFFICES ASSUME HInit PROVE HIInv
  OBVIOUS
<1> USE HistoryAssumption, ConstantsAssumption DEF HInit, Init
<1>1. HistoryTypeOK
  BY DEF HistoryTypeOK
<1>2. ASSUME NEW p \in Peers PROVE RecordOK(peers[p], answered[p], silence[p])
  BY DEF RecordOK
<1>3. ASSUME NEW p \in Peers PROVE PauseOK(spawnBackoff[p], failures[p], idle[p])
  BY PauseGrows DEF PauseOK, NoBackoff
<1> QED
  BY <1>1, <1>2, <1>3 DEF HIInv

\* What is remembered of a peer.
LEMMA Remembered ==
    ASSUME HistoryTypeOK, Remember, NEW p \in Peers
    PROVE  /\ answered'[p] = AnsweredAfter(p)
           /\ silence'[p] = SilenceAfter(p)
           /\ failures'[p] = FailuresAfter(p)
           /\ idle'[p] = IdleAfter(p)
BY DEF Remember

\* The history stays within its types.
LEMMA HistoryTypes ==
    ASSUME TypeOK, HistoryTypeOK, Remember
    PROVE  HistoryTypeOK'
<1>1. ASSUME NEW p \in Peers
      PROVE  /\ AnsweredAfter(p) \in Plans \cup {Absent}
             /\ SilenceAfter(p) \in 0..MaxCount
             /\ FailuresAfter(p) \in 0..MaxCount
             /\ IdleAfter(p) \in 0..MaxCount
  <2>1. /\ answered[p] \in Plans \cup {Absent} /\ world[p] \in Plans \cup {Absent}
        /\ silence[p] \in 0..MaxCount /\ failures[p] \in 0..MaxCount
        /\ idle[p] \in 0..MaxCount
    BY DEF TypeOK, HistoryTypeOK
  <2>2. 0 \in 0..MaxCount /\ 1 \in 0..MaxCount
    BY HistoryAssumption, ConstantsAssumption
  <2>3. /\ Counted(silence[p]) \in 0..MaxCount
        /\ Counted(failures[p]) \in 0..MaxCount
        /\ Counted(idle[p]) \in 0..MaxCount
    BY <2>1, CountedType
  <2> QED
    BY <2>1, <2>2, <2>3 DEF AnsweredAfter, SilenceAfter, FailuresAfter, IdleAfter
<1> QED
  BY <1>1 DEF Remember, HistoryTypeOK

\* A record goes on agreeing with the evidence.
LEMMA RecordKept ==
    ASSUME IInv, HistoryTypeOK, Next, Remember, NEW p \in Peers,
           RecordOK(peers[p], answered[p], silence[p])
    PROVE  RecordOK(peers[p], answered[p], silence[p])'
<1>1. answered'[p] = AnsweredAfter(p) /\ silence'[p] = SilenceAfter(p)
  BY Remembered
<1>2. Passed(p) \/ Removed(p) \/ ProbedAlone(p) \/ VisitedAlone(p)
  BY StepOfPeer
<1>3. /\ peers[p] \in PeerSnapshot \cup {Absent}
      /\ world[p] \in Plans \cup {Absent} /\ Absent \notin Plans
      /\ Absent \notin PeerSnapshot
      /\ silence[p] \in 0..MaxCount
  BY ConstantsAssumption DEF IInv, TypeOK, HistoryTypeOK
<1>4. CASE Removed(p)
  BY <1>1, <1>4 DEF Removed, AnsweredAfter, RecordOK
<1>5. CASE Passed(p) \/ VisitedAlone(p)
  <2>1. peers'[p] = peers[p] /\ ~Dropped(p) /\ ~Probed(p)
    BY <1>5 DEF Passed, VisitedAlone
  <2>2. answered'[p] = answered[p] /\ silence'[p] = silence[p]
    BY <1>1, <2>1 DEF AnsweredAfter, SilenceAfter, Heard
  <2> QED
    BY <2>1, <2>2 DEF RecordOK
<1>6. CASE ProbedAlone(p) /\ world[p] # Absent
  <2>1. peers'[p] = Answered(world[p]) /\ Heard(p) /\ ~Dropped(p)
    BY <1>6 DEF ProbedAlone, Heard
  <2>2. answered'[p] = world[p] /\ silence'[p] = 0
    BY <1>1, <2>1 DEF AnsweredAfter, SilenceAfter
  <2>3. Answered(world[p]) \in PeerSnapshot
    BY <1>3, <1>6, ConstantsAssumption DEF Answered, PeerSnapshot
  <2>4. Answered(world[p]) # Absent
    BY <1>3, <2>3
  <2> QED
    BY <1>6, <2>1, <2>2, <2>4, ConstantsAssumption DEF RecordOK, Answered
<1>7. CASE ProbedAlone(p) /\ world[p] = Absent
  <2>1. /\ peers'[p] = IF peers[p] = Absent THEN Absent ELSE Missed(peers[p])
        /\ Probed(p) /\ ~Heard(p) /\ ~Dropped(p)
    BY <1>7 DEF ProbedAlone, Heard
  <2>2. answered'[p] = answered[p]
    BY <1>1, <2>1 DEF AnsweredAfter
  <2>3. CASE peers[p] = Absent
    BY <2>1, <2>2, <2>3 DEF RecordOK
  <2>4. CASE peers[p] # Absent
    <3> DEFINE r == peers[p]
               n == silence[p]
               m == Least(r.misses + 1, MaxMisses)
    <3>1. r \in PeerSnapshot /\ Missed(r) \in PeerSnapshot /\ Missed(r) # Absent
      BY <1>3, <2>4, MissedType
    <3>2. silence'[p] = Counted(n)
      BY <1>1, <2>1, <2>4 DEF SilenceAfter, RecordOK
    <3>3. /\ Missed(r).plan = r.plan /\ Missed(r).misses = m
          /\ Missed(r).available <=> (r.available /\ m < MISSES_BEFORE_UNREACHABLE)
      BY DEF Missed
    <3>4. /\ r.plan = answered[p]
          /\ r.available <=> r.misses < MISSES_BEFORE_UNREACHABLE
          /\ \/ r.misses = n
             \/ r.misses >= MISSES_BEFORE_UNREACHABLE /\ n >= MISSES_BEFORE_UNREACHABLE
      BY <2>4 DEF RecordOK
    <3>5. Counted(n) = n + 1 \/ (Counted(n) = n /\ n = MaxCount)
      BY <1>3, CountedType
    <3>6. r.misses \in 0..MaxMisses
      BY <3>1 DEF PeerSnapshot
    <3> DEFINE k == Counted(n)
    <3>7. /\ m < MISSES_BEFORE_UNREACHABLE => r.misses < MISSES_BEFORE_UNREACHABLE
          /\ \/ m = k
             \/ m >= MISSES_BEFORE_UNREACHABLE /\ k >= MISSES_BEFORE_UNREACHABLE
      <4> HIDE DEF k
      <4> QED
        BY <1>3, <3>4, <3>5, <3>6, ConstantsAssumption, HistoryAssumption DEF Least, k
    <3>8. peers'[p] = Missed(r) /\ answered[p] # Absent
      BY <2>1, <2>4 DEF RecordOK
    <3> HIDE DEF m, k, r
    <3> QED
      BY <2>2, <3>1, <3>2, <3>3, <3>4, <3>7, <3>8 DEF RecordOK, k, n
  <2> QED
    BY <2>3, <2>4
<1> QED
  BY <1>2, <1>4, <1>5, <1>6, <1>7

\* A backoff that Penalised has written has something to serve, so that the visit
\* that finds a process dead starts no other.
LEMMA FoundDeadWaits ==
    ASSUME TypeOK, NEW p \in Peers, Supervise(p)
    PROVE  /\ FoundDead(p) =>
                 /\ BackoffAfterReap(p) = Penalised(spawnBackoff[p])
                 /\ BackoffAfterReap(p).remaining > 0
                 /\ SuperviseAway(p) \/ SuperviseWait(p)
           /\ ~FoundDead(p) => BackoffAfterReap(p) = spawnBackoff[p]
<1>1. Visited(p)
  BY DEF Supervise, Supervised, SuperviseAway, SuperviseKeep, SuperviseWait,
         SuperviseSpawn, SuperviseFail, Visited
<1>2. spawnBackoff[p] \in Backoff
  BY DEF TypeOK
<1>3. CASE FoundDead(p)
  <2>1. BackoffAfterReap(p) = Penalised(spawnBackoff[p])
    BY <1>3 DEF FoundDead, BackoffAfterReap
  <2>2. BackoffAfterReap(p).remaining > 0
    BY <1>2, <2>1, PenalisedType
  <2>3. Reaped(p) /\ BackoffAfterReap(p).remaining # 0
    BY <1>2, <1>3, <2>1, PenalisedType, ConstantsAssumption DEF FoundDead, Backoff
  <2>4. ~SuperviseKeep(p) /\ ~SuperviseSpawn(p) /\ ~SuperviseFail(p)
    BY <2>3
    DEF SuperviseKeep, SuperviseSpawn, SuperviseFail, Correct, Running, Reaped
  <2> QED
    BY <1>3, <2>1, <2>2, <2>4 DEF Supervise
<1>4. CASE ~FoundDead(p)
  BY <1>1, <1>4 DEF FoundDead, BackoffAfterReap
<1> QED
  BY <1>3, <1>4

\* A visit that does not fail to start leaves the failures to what it finds.
LEMMA VisitCounts ==
    ASSUME IInv, HistoryTypeOK, Remember, NEW p \in Peers, VisitedAlone(p),
           ~SuperviseFail(p)
    PROVE  /\ FoundDead(p) => failures'[p] \in {0, Counted(failures[p])} /\ idle'[p] = 1
           /\ ~FoundDead(p) =>
                 /\ failures'[p] \in {0, failures[p]}
                 /\ idle'[p] = Counted(idle[p])
           /\ Proven(p) => failures'[p] = 0
<1>1. failures'[p] = FailuresAfter(p) /\ idle'[p] = IdleAfter(p)
  BY Remembered
<1> QED
  BY <1>1 DEF VisitedAlone, FailuresAfter, IdleAfter

\* A backoff goes on agreeing with the failures and the visits.
LEMMA BackoffKept ==
    ASSUME IInv, HistoryTypeOK, Next, Remember, NEW p \in Peers,
           PauseOK(spawnBackoff[p], failures[p], idle[p])
    PROVE  PauseOK(spawnBackoff[p], failures[p], idle[p])'
<1> DEFINE b == spawnBackoff[p]
           f == failures[p]
           i == idle[p]
<1>1. failures'[p] = FailuresAfter(p) /\ idle'[p] = IdleAfter(p)
  BY Remembered
<1>2. Passed(p) \/ Removed(p) \/ ProbedAlone(p) \/ VisitedAlone(p)
  BY StepOfPeer
<1>3. /\ b \in Backoff /\ spawnBackoff \in [Peers -> Backoff]
      /\ f \in 0..MaxCount /\ i \in 0..MaxCount
      /\ 0 \in 0..MaxCount
  BY HistoryAssumption DEF IInv, TypeOK, HistoryTypeOK
<1>4. SuperviseFail(p) => Visited(p)
  BY DEF SuperviseFail, Supervised, Visited
<1>5. ASSUME NEW j \in Nat, idle'[p] = j, failures'[p] = 0, spawnBackoff'[p] = NoBackoff
      PROVE  PauseOK(spawnBackoff[p], failures[p], idle[p])'
  BY <1>5, PauseGrows DEF PauseOK, NoBackoff
<1>6. CASE Removed(p)
  <2>1. failures'[p] = 0 /\ idle'[p] = 0
    BY <1>1, <1>6 DEF Removed, FailuresAfter, IdleAfter
  <2> QED
    BY <1>5, <1>6, <2>1 DEF Removed
<1>7. CASE Passed(p) \/ ProbedAlone(p)
  <2>1. ~Dropped(p) /\ ~Visited(p) /\ spawnBackoff'[p] = b
    BY <1>7 DEF Passed, ProbedAlone
  <2>2. failures'[p] \in {0, f} /\ idle'[p] = i
    BY <1>1, <1>4, <2>1 DEF FailuresAfter, IdleAfter, FoundDead
  <2> QED
    BY <1>3, <2>1, <2>2, PauseKept
<1>8. CASE VisitedAlone(p)
  <2>1. Supervise(p) /\ ~Dropped(p)
    BY <1>8 DEF VisitedAlone
  <2>2. CASE SuperviseFail(p)
    <3>1. ~FoundDead(p)
      BY <2>2, FoundDeadWaits, <2>1
      DEF SuperviseFail, IInv
    <3>2. spawnBackoff'[p] = Penalised(b)
      BY <1>3, <2>1, <2>2, <3>1, FoundDeadWaits DEF SuperviseFail, IInv
    <3>3. failures'[p] \in {0, Counted(f)} /\ idle'[p] = 0
      BY <1>1, <2>1, <2>2 DEF FailuresAfter, IdleAfter
    <3> QED
      BY <1>3, <3>2, <3>3, PauseLengthened
  <2>3. CASE ~SuperviseFail(p) /\ FoundDead(p)
    <3>1. failures'[p] \in {0, Counted(f)} /\ idle'[p] = 1
      BY <1>8, <2>3, VisitCounts
    <3>2. Penalised(b) \in Backoff /\ Penalised(b).remaining > 0
      BY <1>3, PenalisedType
    <3>3. PauseOK(Penalised(b), failures'[p], 0) /\ PauseOK(Penalised(b), failures'[p], 1)
      BY <1>3, <3>1, PauseLengthened
    <3>4. spawnBackoff'[p] = Penalised(b) \/ spawnBackoff'[p] = Served(Penalised(b))
      BY <1>3, <2>1, <2>3, FoundDeadWaits DEF SuperviseAway, SuperviseWait, IInv
    <3>5. failures'[p] \in 0..MaxCount
      BY <1>3, <3>1, CountedType
    <3>6. Counted(0) = 1
      BY HistoryAssumption, ConstantsAssumption DEF Counted, Least
    <3>7. PauseOK(Served(Penalised(b)), failures'[p], 1)
      BY <1>3, <3>2, <3>3, <3>5, <3>6, PauseServedOnce
    <3> QED
      BY <3>1, <3>3, <3>4, <3>7
  <2>4. CASE ~SuperviseFail(p) /\ ~FoundDead(p)
    <3>1. failures'[p] \in {0, f} /\ idle'[p] = Counted(i)
      BY <1>8, <2>4, VisitCounts
    <3>2. BackoffAfterReap(p) = b
      BY <2>1, <2>4, FoundDeadWaits DEF IInv
    <3>3. PauseOK(b, failures'[p], idle'[p])
      BY <1>3, <3>1, PauseKept
    <3>4. CASE SuperviseAway(p) \/ SuperviseSpawn(p)
      <4>1. spawnBackoff'[p] = b
        BY <1>3, <3>2, <3>4 DEF SuperviseAway, SuperviseSpawn
      <4> QED
        BY <3>3, <4>1
    <3>5. CASE SuperviseKeep(p)
      <4>1. CASE Proven(p)
        <5>1. failures'[p] = 0 /\ spawnBackoff'[p] = NoBackoff
          BY <1>3, <1>8, <2>4, <3>5, <4>1, VisitCounts DEF SuperviseKeep, Proven
        <5>2. idle'[p] \in Nat
          BY <1>3, <3>1, CountedType, HistoryAssumption
        <5> QED
          BY <1>5, <5>1, <5>2
      <4>2. CASE ~Proven(p)
        <5>1. spawnBackoff'[p] = b
          BY <1>3, <3>5, <4>2 DEF SuperviseKeep, Correct, Proven
        <5> QED
          BY <3>3, <5>1
      <4> QED
        BY <4>1, <4>2
    <3>6. CASE SuperviseWait(p)
      <4>1. spawnBackoff'[p] = Served(b) /\ b.remaining > 0
        BY <1>3, <3>2, <3>6 DEF SuperviseWait
      <4> QED
        BY <1>3, <3>1, <4>1, PauseServedOnce
    <3> QED
      BY <2>1, <2>4, <3>4, <3>5, <3>6 DEF Supervise
  <2> QED
    BY <2>2, <2>3, <2>4
<1> QED
  BY <1>2, <1>6, <1>7, <1>8

\* A peer whose process was started has served the pause its failures called for.
LEMMA StartThrottled ==
    ASSUME IInv, HIInv, Next, Remember, NEW p \in Peers, Started(p)
    PROVE  idle'[p] > PauseAfter(failures'[p])
<1> DEFINE b == spawnBackoff[p]
           f == failures[p]
           i == idle[p]
<1>1. /\ b \in Backoff /\ f \in 0..MaxCount /\ i \in 0..MaxCount
      /\ workers \in [Peers -> Worker \cup {Absent}]
      /\ PauseOK(b, f, i) /\ HistoryTypeOK /\ TypeOK
  BY DEF IInv, TypeOK, HIInv, HistoryTypeOK
<1>2. VisitedAlone(p)
  BY StepOfPeer DEF Started, Passed, Removed, ProbedAlone, HIInv
<1>3. SuperviseSpawn(p)
  BY <1>1, <1>2
  DEF VisitedAlone, Supervise, Started, SuperviseAway, SuperviseKeep, SuperviseWait,
      SuperviseFail
<1>4. BackoffAfterReap(p).remaining = 0 /\ workers'[p] # Absent
  BY <1>3 DEF SuperviseSpawn, Started
<1>5. ~SuperviseFail(p)
  BY <1>1, <1>4 DEF SuperviseFail
<1>6. ~FoundDead(p) /\ b.remaining = 0
  <2>1. ~FoundDead(p)
    BY <1>1, <1>2, <1>4, FoundDeadWaits DEF VisitedAlone
  <2> QED
    BY <1>1, <1>2, <1>4, <2>1, FoundDeadWaits DEF VisitedAlone
<1>7. failures'[p] \in {0, f} /\ idle'[p] = Counted(i)
  BY <1>1, <1>2, <1>5, <1>6, VisitCounts
<1>8. PauseAfter(0) = 0 /\ PauseAfter(f) \in 0..MAX_SPAWN_BACKOFF
  BY <1>1, PauseGrows, HistoryAssumption
<1>9. Counted(i) = i + 1 \/ (Counted(i) = i /\ i = MaxCount)
  BY <1>1, CountedType
<1>10. PauseAfter(f) <= i
  BY <1>1, <1>6, <1>8 DEF PauseOK, Backoff
<1> QED
  BY <1>1, <1>7, <1>8, <1>9, <1>10, HistoryAssumption, ConstantsAssumption

\* A process that runs is stopped by a visit or by the end of a pass, and by a visit
\* only if the last answer or the configuration wants another.
LEMMA StoppedForCause ==
    ASSUME IInv, HIInv, Next, NEW p \in Peers,
           Running(p), workers'[p] = Absent \/ Started(p)
    PROVE  \/ passConfig[p] = Absent
           \/ workers[p].spec # [plan |-> answered[p], transport |-> passConfig[p]]
<1>1. workers[p] # Absent /\ ~Reaped(p) /\ workers \in [Peers -> Worker \cup {Absent}]
  BY DEF Running, Reaped, IInv, TypeOK
<1>2. CASE Removed(p)
  BY <1>2 DEF Removed, Dropped
<1>3. CASE Passed(p) \/ ProbedAlone(p)
  BY <1>1, <1>3 DEF Passed, ProbedAlone, Started
<1>4. CASE VisitedAlone(p)
  <2>1. ~SuperviseAway(p) /\ ~SuperviseKeep(p)
    BY <1>1 DEF SuperviseAway, SuperviseKeep, Started
  <2>2. Believed(p) /\ ~Correct(p)
    BY <1>4, <2>1
    DEF VisitedAlone, Supervise, SuperviseWait, SuperviseSpawn, SuperviseFail
  <2>3. peers[p].plan = answered[p]
    BY <2>2 DEF Believed, HIInv, RecordOK
  <2> QED
    BY <2>2, <2>3 DEF Correct, Wanted
<1> QED
  BY <1>2, <1>3, <1>4, StepOfPeer

----------------------------------------------------------------------------
(* The theorems. *)

\* The history only watches: what runs with it is the fabric task as it is.
THEOREM HistoryOnlyWatches == HSpec => Spec
<1>1. HInit => Init
  BY DEF HInit
<1>2. [HNext]_hvars => [Next]_vars
  BY DEF HNext, hvars
<1> QED
  BY <1>1, <1>2, PTL DEF HSpec, Spec

\* The tables and the history agree at every moment.
THEOREM HIInvInductive == HSpec => []HIInv
<1>1. IInv /\ HIInv /\ [HNext]_hvars => HIInv'
  <2> SUFFICES ASSUME IInv, HIInv, [HNext]_hvars PROVE HIInv'
    OBVIOUS
  <2>1. CASE HNext
    <3>1. HistoryTypeOK'
      BY <2>1, HistoryTypes DEF HNext, HIInv, IInv
    <3>2. ASSUME NEW p \in Peers
          PROVE  RecordOK(peers[p], answered[p], silence[p])'
      BY <2>1, RecordKept DEF HNext, HIInv
    <3>3. ASSUME NEW p \in Peers
          PROVE  PauseOK(spawnBackoff[p], failures[p], idle[p])'
      BY <2>1, BackoffKept DEF HNext, HIInv
    <3> QED
      BY <3>1, <3>2, <3>3 DEF HIInv
  <2>2. CASE UNCHANGED hvars
    BY <2>2 DEF hvars, vars, tables, history, HIInv, HistoryTypeOK
  <2> QED
    BY <2>1, <2>2
<1>2. HSpec => []IInv
  BY HistoryOnlyWatches, IInvInductive, PTL
<1> QED
  BY InitHIInv, <1>1, <1>2, PTL DEF HSpec

\* Type correctness, of the tables and of the history beside them.
THEOREM HistoryTypeCorrect == HSpec => []HTypeOK
<1>1. IInv /\ HIInv => HTypeOK
  BY DEF IInv, HIInv, HistoryTypeOK, HTypeOK
<1> QED
  BY <1>1, HistoryOnlyWatches, IInvInductive, HIInvInductive, PTL

\* A record is kept from the first answer to the removal, holds the last manifest
\* given, and is unreachable after MISSES_BEFORE_UNREACHABLE silent probes, no sooner
\* and no later.
THEOREM RecordsMatchEvidence == HSpec => []RecordMatchesEvidence
<1>1. IInv /\ HIInv => RecordMatchesEvidence
  <2> SUFFICES ASSUME IInv, HIInv, NEW p \in Peers, RecordOK(peers[p], answered[p], silence[p])
               PROVE  /\ peers[p] = Absent <=> answered[p] = Absent
                      /\ peers[p] # Absent =>
                            /\ peers[p].plan = answered[p]
                            /\ peers[p].available <=> silence[p] < MISSES_BEFORE_UNREACHABLE
    BY DEF RecordMatchesEvidence, HIInv
  <2>1. peers[p] # Absent => peers[p].misses \in Nat
    BY ConstantsAssumption DEF IInv, TypeOK, PeerSnapshot
  <2>2. silence[p] \in Nat
    BY HistoryAssumption DEF HIInv, HistoryTypeOK
  <2> QED
    BY <2>1, <2>2, ConstantsAssumption DEF RecordOK
<1> QED
  BY <1>1, HistoryOnlyWatches, IInvInductive, HIInvInductive, PTL

\* However long a peer is silent, the session it has is not stopped for it.
THEOREM SilenceStopsNoSession == HSpec => SessionOutlivesSilence
<1> DEFINE A == \A p \in Peers :
          Running(p) /\ (workers'[p] = Absent \/ Started(p))
              => \/ passConfig[p] = Absent
                 \/ workers[p].spec # [plan |-> answered[p], transport |-> passConfig[p]]
<1>1. IInv /\ HIInv /\ [HNext]_hvars => [A]_hvars
  <2> SUFFICES ASSUME IInv, HIInv, HNext PROVE A
    OBVIOUS
  <2> QED
    BY StoppedForCause DEF HNext
<1>2. HSpec => [][A]_hvars
  BY <1>1, HistoryOnlyWatches, IInvInductive, HIInvInductive, PTL DEF HSpec
<1> QED
  BY <1>2 DEF SessionOutlivesSilence

\* However a command fails, its starts are as far apart as its failures call for.
THEOREM FailuresThrottleStarts == HSpec => StartsAreThrottled
<1> DEFINE A == \A p \in Peers : Started(p) => idle'[p] > PauseAfter(failures'[p])
<1>1. IInv /\ HIInv /\ [HNext]_hvars => [A]_hvars
  <2> SUFFICES ASSUME IInv, HIInv, HNext PROVE A
    OBVIOUS
  <2> QED
    BY StartThrottled DEF HNext
<1>2. HSpec => [][A]_hvars
  BY <1>1, HistoryOnlyWatches, IInvInductive, HIInvInductive, PTL DEF HSpec
<1> QED
  BY <1>2 DEF StartsAreThrottled
=============================================================================
