---------------------- MODULE PeerSupervision_proofs ----------------------
(***************************************************************************)
(* The safety invariants of PeerSupervision, for any set of peers, plans   *)
(* and transports and any thresholds.                                      *)
(*                                                                         *)
(* None of them is inductive alone.  That no process is leaked needs the   *)
(* types, the types need to know that a peer being supervised is one the   *)
(* pass was configured with, and that nothing is kept for a removed peer   *)
(* needs both.  IInv is their conjunction.                                 *)
(***************************************************************************)
EXTENDS PeerSupervision, TLAPS

\* Where a pass stands: it visits configured peers only, and none while it sleeps.
PassOK ==
    /\ phase = "sleep" => todo = {} /\ current = Absent
    /\ todo \subseteq Configured(passConfig)
    /\ current # Absent => current \in Configured(passConfig)

IInv == TypeOK /\ PassOK /\ OneSessionPerPeer /\ PauseServed /\ NothingKeptForRemovedPeers

----------------------------------------------------------------------------
(* What the operators on table entries return. *)

\* A penalty lengthens the pause within its ceiling and starts to serve it.
LEMMA PenalisedType ==
    ASSUME NEW b \in Backoff
    PROVE  /\ Penalised(b) \in Backoff
           /\ Penalised(b).remaining = Penalised(b).length
           /\ Penalised(b).remaining > 0
BY ConstantsAssumption DEF Backoff, Penalised, Least

\* A missed probe leaves a record a record.
LEMMA MissedType ==
    ASSUME NEW r \in PeerSnapshot
    PROVE  Missed(r) \in PeerSnapshot
<1> DEFINE m == Least(r.misses + 1, MaxMisses)
           up == r.available /\ m < MISSES_BEFORE_UNREACHABLE
<1>1. m \in 0..MaxMisses
  BY ConstantsAssumption DEF PeerSnapshot, Least
<1>2. up \in BOOLEAN
  OBVIOUS
<1>3. Missed(r) = [plan |-> r.plan, available |-> up, misses |-> m]
  BY DEF Missed
<1> HIDE DEF m, up
<1> QED
  BY <1>1, <1>2, <1>3 DEF PeerSnapshot

\* After the reap the backoff is a backoff, no longer than its own length, and
\* it can only hold a pause to serve if there is no process any more.
LEMMA AfterReap ==
    ASSUME TypeOK, PauseServed, NEW p \in Peers
    PROVE  /\ BackoffAfterReap(p) \in Backoff
           /\ BackoffAfterReap(p).remaining <= BackoffAfterReap(p).length
           /\ workers[p] # Absent /\ ~Reaped(p) => BackoffAfterReap(p).remaining = 0
<1>1. spawnBackoff[p] \in Backoff
  BY DEF TypeOK
<1>2. CASE Reaped(p) /\ workers[p].age < HEALTHY_RUN
  BY <1>1, <1>2, PenalisedType DEF BackoffAfterReap, Backoff
<1>3. CASE ~(Reaped(p) /\ workers[p].age < HEALTHY_RUN)
  BY <1>1, <1>3 DEF BackoffAfterReap, PauseServed
<1> QED
  BY <1>2, <1>3

\* Killing what runs for a peer leaves no process of that peer.
LEMMA AfterKill ==
    ASSUME OneSessionPerPeer, NEW p \in Peers
    PROVE  ChildrenAfterKill(p) = 0
BY DEF OneSessionPerPeer, ChildrenAfterKill

----------------------------------------------------------------------------
(* Preservation. *)

\* The daemon starts with empty tables.
LEMMA InitIInv == Init => IInv
<1> SUFFICES ASSUME Init PROVE IInv
  OBVIOUS
<1> USE ConstantsAssumption DEF Init
<1>1. TypeOK
  BY DEF TypeOK, Config, Backoff, NoBackoff
<1>2. PassOK
  BY DEF PassOK
<1>3. OneSessionPerPeer /\ PauseServed
  BY DEF OneSessionPerPeer, PauseServed, Running, NoBackoff
<1>4. NothingKeptForRemovedPeers
  BY DEF NothingKeptForRemovedPeers
<1> QED
  BY <1>1, <1>2, <1>3, <1>4 DEF IInv

\* Whatever supervise decides, it leaves one peer with a worker (or none), the
\* processes that worker stands for, and a backoff served if there is one.
LEMMA SuperviseStep ==
    ASSUME IInv, NEW p \in Peers, Supervised(p),
           NEW w \in Worker \cup {Absent}, NEW b \in Backoff,
           workers' = [workers EXCEPT ![p] = w],
           spawnBackoff' = [spawnBackoff EXCEPT ![p] = b],
           children' = [children EXCEPT
                            ![p] = IF w # Absent /\ ~w.exited THEN 1 ELSE 0],
           b.remaining <= b.length,
           w # Absent => b.remaining = 0
    PROVE  IInv'
<1> USE DEF IInv, Supervised, configs
<1>1. TypeOK'
  BY DEF TypeOK
<1>2. PassOK'
  BY DEF PassOK, Configured
<1>3. OneSessionPerPeer'
  BY DEF OneSessionPerPeer, TypeOK, Running
<1>4. PauseServed'
  BY DEF PauseServed, TypeOK
<1>5. NothingKeptForRemovedPeers'
  BY ConstantsAssumption DEF NothingKeptForRemovedPeers, PassOK
<1> QED
  BY <1>1, <1>2, <1>3, <1>4, <1>5

\* A peer being supervised is one the pass was configured with.
LEMMA SupervisedIsConfigured ==
    ASSUME IInv, NEW p \in Peers, Supervised(p)
    PROVE  passConfig[p] \in Transports
BY ConstantsAssumption DEF IInv, Supervised, PassOK, TypeOK, Config, Configured

\* Whatever supervise does with one peer.
LEMMA SuperviseIInv ==
    ASSUME IInv, NEW p \in Peers, Supervise(p)
    PROVE  IInv'
<1> DEFINE b == BackoffAfterReap(p)
<1>0. Supervised(p)
  BY DEF Supervise, SuperviseAway, SuperviseKeep, SuperviseWait, SuperviseSpawn,
         SuperviseFail
<1>1. /\ b \in Backoff
      /\ b.remaining <= b.length
      /\ workers[p] # Absent /\ ~Reaped(p) => b.remaining = 0
  BY AfterReap DEF IInv
<1>2. ChildrenAfterKill(p) = 0
  BY AfterKill DEF IInv
<1>3. /\ workers[p] \in Worker \cup {Absent}
      /\ workers \in [Peers -> Worker \cup {Absent}]
      /\ spawnBackoff[p] \in Backoff
      /\ children \in [Peers -> Nat]
      /\ children[p] = IF Running(p) THEN 1 ELSE 0
      /\ NoBackoff \in Backoff
  BY ConstantsAssumption
  DEF IInv, TypeOK, OneSessionPerPeer, Backoff, NoBackoff
<1> HIDE DEF b
<1>4. CASE SuperviseAway(p)
  <2> DEFINE w == IF Reaped(p) THEN Absent ELSE workers[p]
  <2>1. w \in Worker \cup {Absent}
    BY <1>3
  <2>2. workers' = [workers EXCEPT ![p] = w]
    BY <1>3, <1>4 DEF SuperviseAway
  <2>3. children' = [children EXCEPT ![p] = IF w # Absent /\ ~w.exited THEN 1 ELSE 0]
    BY <1>3, <1>4 DEF SuperviseAway, Reaped, Running
  <2>4. spawnBackoff' = [spawnBackoff EXCEPT ![p] = b]
    BY <1>4 DEF SuperviseAway, b
  <2>5. w # Absent => b.remaining = 0
    BY <1>1
  <2> HIDE DEF w
  <2> QED
    BY <1>0, <1>1, <2>1, <2>2, <2>3, <2>4, <2>5, SuperviseStep
<1>5. CASE SuperviseKeep(p)
  <2> DEFINE c == IF workers[p].age >= HEALTHY_RUN THEN NoBackoff ELSE spawnBackoff[p]
  <2>1. c \in Backoff /\ c.remaining <= c.length /\ c.remaining = 0
    BY <1>3, <1>5 DEF SuperviseKeep, Correct, Running, IInv, PauseServed, NoBackoff
  <2>2. workers' = [workers EXCEPT ![p] = workers[p]]
    BY <1>3, <1>5 DEF SuperviseKeep
  <2>3. children' = [children EXCEPT
            ![p] = IF workers[p] # Absent /\ ~workers[p].exited THEN 1 ELSE 0]
    BY <1>3, <1>5 DEF SuperviseKeep, Running
  <2>4. spawnBackoff' = [spawnBackoff EXCEPT ![p] = c]
    BY <1>5 DEF SuperviseKeep, IInv, TypeOK
  <2> HIDE DEF c
  <2> QED
    BY <1>0, <1>3, <2>1, <2>2, <2>3, <2>4, SuperviseStep
<1>6. CASE SuperviseWait(p)
  <2> DEFINE c == Served(b)
  <2>1. c \in Backoff /\ c.remaining <= c.length
    BY <1>1, <1>6, ConstantsAssumption DEF SuperviseWait, Backoff, Served, b
  <2>2. workers' = [workers EXCEPT ![p] = Absent]
    BY <1>6 DEF SuperviseWait
  <2>3. children' = [children EXCEPT ![p] = 0]
    BY <1>2, <1>6 DEF SuperviseWait
  <2>4. spawnBackoff' = [spawnBackoff EXCEPT ![p] = c]
    BY <1>6 DEF SuperviseWait, b
  <2> HIDE DEF c
  <2> QED
    BY <1>0, <2>1, <2>2, <2>3, <2>4, SuperviseStep
<1>7. CASE SuperviseSpawn(p)
  <2> DEFINE w == [spec |-> Wanted(p), age |-> 0, exited |-> FALSE]
  <2>1. Wanted(p) \in WorkerSpec
    BY <1>0, <1>7, SupervisedIsConfigured
    DEF SuperviseSpawn, Believed, Wanted, WorkerSpec, IInv, TypeOK, PeerSnapshot
  <2>2. w \in Worker
    BY <2>1, ConstantsAssumption DEF Worker
  <2>3. workers' = [workers EXCEPT ![p] = w]
    BY <1>7 DEF SuperviseSpawn
  <2>4. w # Absent /\ ~w.exited
    BY <2>2, ConstantsAssumption
  <2>5. spawnBackoff' = [spawnBackoff EXCEPT ![p] = b] /\ b.remaining = 0
    BY <1>7 DEF SuperviseSpawn, b
  <2>6. children' = [children EXCEPT ![p] = IF w # Absent /\ ~w.exited THEN 1 ELSE 0]
    BY <1>2, <1>7, <2>4 DEF SuperviseSpawn
  <2> HIDE DEF w
  <2> QED
    BY <1>0, <1>1, <2>2, <2>3, <2>5, <2>6, SuperviseStep
<1>8. CASE SuperviseFail(p)
  <2> DEFINE c == Penalised(b)
  <2>1. c \in Backoff /\ c.remaining <= c.length
    BY <1>1, PenalisedType DEF Backoff
  <2>2. workers' = [workers EXCEPT ![p] = Absent]
    BY <1>8 DEF SuperviseFail
  <2>3. children' = [children EXCEPT ![p] = 0]
    BY <1>2, <1>8 DEF SuperviseFail
  <2>4. spawnBackoff' = [spawnBackoff EXCEPT ![p] = c]
    BY <1>8 DEF SuperviseFail, b
  <2> HIDE DEF c
  <2> QED
    BY <1>0, <2>1, <2>2, <2>3, <2>4, SuperviseStep
<1> QED
  BY <1>4, <1>5, <1>6, <1>7, <1>8 DEF Supervise

\* A pass starts on a configuration, with every peer still to visit.
LEMMA StartPassIInv ==
    ASSUME IInv, StartPass
    PROVE  IInv'
<1> USE DEF IInv, StartPass, tables
<1>1. TypeOK'
  BY DEF TypeOK, Configured
<1>2. PassOK'
  BY DEF PassOK
<1>3. (OneSessionPerPeer /\ PauseServed)'
  BY DEF OneSessionPerPeer, PauseServed, Running
<1>4. NothingKeptForRemovedPeers'
  BY DEF NothingKeptForRemovedPeers
<1> QED
  BY <1>1, <1>2, <1>3, <1>4

\* A probe writes the record of its peer and nothing else.
LEMMA ProbeIInv ==
    ASSUME IInv, NEW p \in Peers, ProbeAnswered(p) \/ ProbeMissed(p)
    PROVE  IInv'
<1> USE DEF IInv, configs
<1>1. /\ phase = "pass"
      /\ phase' = phase
      /\ p \in Configured(passConfig)
      /\ current' = p /\ todo' = todo \ {p}
      /\ UNCHANGED <<configs, world, workers, spawnBackoff, children, fabric>>
  BY DEF ProbeAnswered, ProbeMissed, PassOK, TypeOK
<1>2. peers' \in [Peers -> PeerSnapshot \cup {Absent}] /\ unseen' \subseteq Peers
  <2>1. CASE ProbeAnswered(p)
    <3>1. Answered(world[p]) \in PeerSnapshot
      BY <2>1, ConstantsAssumption
      DEF ProbeAnswered, Answered, PeerSnapshot, TypeOK
    <3> QED
      BY <2>1, <3>1 DEF ProbeAnswered, TypeOK
  <2>2. CASE ProbeMissed(p)
    <3>1. peers[p] # Absent => Missed(peers[p]) \in PeerSnapshot
      BY MissedType DEF TypeOK
    <3> QED
      BY <2>2, <3>1 DEF ProbeMissed, TypeOK
  <2> QED
    BY <2>1, <2>2
<1>3. TypeOK'
  BY <1>1, <1>2 DEF TypeOK
<1>4. PassOK'
  BY <1>1 DEF PassOK, Configured
<1>5. (OneSessionPerPeer /\ PauseServed)'
  BY <1>1 DEF OneSessionPerPeer, PauseServed, Running
<1>6. NothingKeptForRemovedPeers'
  BY <1>1 DEF NothingKeptForRemovedPeers
<1> QED
  BY <1>3, <1>4, <1>5, <1>6

\* The end of a pass clears what belongs to peers that left.
LEMMA RetireIInv ==
    ASSUME IInv, Retire
    PROVE  IInv'
<1> USE DEF IInv, Retire, configs
<1>1. \A p \in Peers : ChildrenAfterKill(p) = 0
  BY AfterKill
<1>2. TypeOK'
  BY <1>1, ConstantsAssumption DEF TypeOK, Backoff, NoBackoff
<1>3. PassOK'
  BY DEF PassOK
<1>4. OneSessionPerPeer'
  BY <1>1 DEF OneSessionPerPeer, Running
<1>5. PauseServed'
  BY DEF PauseServed, NoBackoff
<1>6. NothingKeptForRemovedPeers'
  BY <1>1 DEF NothingKeptForRemovedPeers, Configured
<1> QED
  BY <1>2, <1>3, <1>4, <1>5, <1>6

\* The world disturbs no invariant: it cannot take a process from the table, only
\* end it, and it cannot reach the pass's own copy of the configuration.
LEMMA WorldIInv ==
    ASSUME IInv, World
    PROVE  IInv'
<1> USE DEF IInv, tables
<1>1. CASE Edit \/ Reload
  <2>1. TypeOK'
    BY <1>1 DEF Edit, Reload, TypeOK
  <2>2. (PassOK /\ OneSessionPerPeer /\ PauseServed)'
    BY <1>1 DEF Edit, Reload, PassOK, OneSessionPerPeer, PauseServed, Running
  <2>3. NothingKeptForRemovedPeers'
    BY <1>1 DEF Edit, Reload, NothingKeptForRemovedPeers
  <2> QED
    BY <2>1, <2>2, <2>3
<1>2. ASSUME NEW p \in Peers, Turn(p) PROVE IInv'
  <2>1. TypeOK'
    BY <1>2 DEF Turn, TypeOK, configs
  <2>2. (PassOK /\ OneSessionPerPeer /\ PauseServed)'
    BY <1>2 DEF Turn, PassOK, OneSessionPerPeer, PauseServed, Running, configs
  <2>3. NothingKeptForRemovedPeers'
    BY <1>2 DEF Turn, NothingKeptForRemovedPeers, configs
  <2> QED
    BY <2>1, <2>2, <2>3
<1>3. ASSUME NEW p \in Peers, Exit(p) PROVE IInv'
  <2> DEFINE w == [workers[p] EXCEPT !.exited = TRUE]
  <2>0. /\ workers[p] \in Worker
        /\ workers \in [Peers -> Worker \cup {Absent}]
        /\ workers[p] # Absent
        /\ children \in [Peers -> Nat] /\ children[p] = 1
    BY <1>3 DEF Exit, Running, TypeOK, OneSessionPerPeer
  <2>a. w \in Worker /\ w.exited
    BY <2>0 DEF Worker
  <2>b. workers' = [workers EXCEPT ![p] = w]
    BY <1>3, <2>0 DEF Exit
  <2>c. children' = [children EXCEPT ![p] = 0]
    BY <1>3, <2>0 DEF Exit
  <2> HIDE DEF w
  <2>1. /\ w \in Worker /\ w # Absent /\ w.exited
        /\ workers[p] # Absent
        /\ workers' = [workers EXCEPT ![p] = w]
        /\ children' = [children EXCEPT ![p] = 0]
    BY <2>0, <2>a, <2>b, <2>c, ConstantsAssumption
  <2>2. UNCHANGED <<configs, world, phase, todo, current, peers, unseen,
                    spawnBackoff, fabric>>
    BY <1>3 DEF Exit
  <2>3. TypeOK'
    BY <2>1, <2>2 DEF TypeOK, configs
  <2>4. PassOK'
    BY <2>2 DEF PassOK, configs
  <2>5. OneSessionPerPeer'
    BY <2>1 DEF OneSessionPerPeer, Running, TypeOK
  <2>6. PauseServed'
    BY <2>1, <2>2 DEF PauseServed, TypeOK
  <2>7. NothingKeptForRemovedPeers'
    BY <2>1, <2>2 DEF NothingKeptForRemovedPeers, TypeOK, configs
  <2> QED
    BY <2>3, <2>4, <2>5, <2>6, <2>7
<1>4. CASE Tick
  <2> DEFINE older(p) == [workers[p] EXCEPT !.age = Least(@ + 1, HEALTHY_RUN)]
  <2>1. ASSUME NEW p \in Peers, workers[p] # Absent
        PROVE  older(p) \in Worker /\ older(p).exited = workers[p].exited
    <3>1. workers[p] \in Worker
      BY <2>1 DEF TypeOK
    <3>2. Least(workers[p].age + 1, HEALTHY_RUN) \in 0..HEALTHY_RUN
      BY <3>1, ConstantsAssumption DEF Worker, Least
    <3> QED
      BY <3>1, <3>2 DEF Worker
  <2>2. workers' = [p \in Peers |-> IF workers[p] = Absent THEN Absent ELSE older(p)]
    BY <1>4 DEF Tick
  <2> HIDE DEF older
  <2>3. UNCHANGED <<configs, world, phase, todo, current, peers, unseen,
                    spawnBackoff, children, fabric>>
    BY <1>4 DEF Tick
  <2>4. \A p \in Peers : /\ workers'[p] = Absent <=> workers[p] = Absent
                         /\ workers[p] # Absent => workers'[p].exited = workers[p].exited
    BY <2>1, <2>2, ConstantsAssumption
  <2>5. TypeOK'
    BY <2>1, <2>2, <2>3 DEF TypeOK, configs
  <2>6. PassOK'
    BY <2>3 DEF PassOK, configs
  <2>7. OneSessionPerPeer'
    BY <2>3, <2>4 DEF OneSessionPerPeer, Running
  <2>8. PauseServed'
    BY <2>3, <2>4 DEF PauseServed
  <2>9. NothingKeptForRemovedPeers'
    BY <2>3, <2>4 DEF NothingKeptForRemovedPeers, configs, Configured
  <2> QED
    BY <2>5, <2>6, <2>7, <2>8, <2>9
<1> QED
  BY <1>1, <1>2, <1>3, <1>4 DEF World

----------------------------------------------------------------------------
(* The theorems. *)

\* What the theorems rest on.
THEOREM IInvInductive == Spec => []IInv
<1>1. IInv /\ [Next]_vars => IInv'
  <2> SUFFICES ASSUME IInv, [Next]_vars PROVE IInv'
    OBVIOUS
  <2>1. CASE StartPass
    BY <2>1, StartPassIInv
  <2>2. ASSUME NEW p \in Peers, ProbeAnswered(p) \/ ProbeMissed(p) PROVE IInv'
    BY <2>2, ProbeIInv
  <2>3. ASSUME NEW p \in Peers, Supervise(p) PROVE IInv'
    BY <2>3, SuperviseIInv
  <2>4. CASE Retire
    BY <2>4, RetireIInv
  <2>5. CASE World
    BY <2>5, WorldIInv
  <2>6. CASE UNCHANGED vars
    BY <2>6 DEF vars, configs, tables, IInv, TypeOK, PassOK, OneSessionPerPeer, Running,
                PauseServed, NothingKeptForRemovedPeers
  <2> QED
    BY <2>1, <2>2, <2>3, <2>4, <2>5, <2>6 DEF Next, Pass
<1> QED
  BY InitIInv, <1>1, PTL DEF Spec

\* Type correctness.
THEOREM TypeCorrect == Spec => []TypeOK
BY IInvInductive, PTL DEF IInv

\* The daemon never has two JackTrip processes for one peer, and never one it
\* does not know of: exactly the live table entries.
THEOREM NoSessionIsLeaked == Spec => []OneSessionPerPeer
BY IInvInductive, PTL DEF IInv

\* No process exists while a pause is still to be served.
THEOREM EveryPauseIsServed == Spec => []PauseServed
BY IInvInductive, PTL DEF IInv

\* Between passes nothing is held for a peer that left the configuration.
THEOREM RemovedPeersAreForgotten == Spec => []NothingKeptForRemovedPeers
BY IInvInductive, PTL DEF IInv
=============================================================================
