-------------------------- MODULE PeerSupervision --------------------------
(***************************************************************************)
(* The fabric task of nixaudiod: one pass every two seconds over the       *)
(* configured peers, run by fabric::Runtime::reconcile.  For each peer the *)
(* pass probes the peer's control endpoint, folds the outcome into the     *)
(* peer's record (observe) and brings the peer's one JackTrip process into *)
(* line with what is known (supervise).  It then drops everything held for *)
(* peers that have left the configuration and hands the records to the     *)
(* graph.                                                                  *)
(*                                                                         *)
(* Only the fabric task touches the tables, so a pass is a sequence of     *)
(* steps on them; what interleaves with it is the world: the configuration *)
(* file is edited or unreadable, peers fall silent, return or announce     *)
(* other devices, JackTrip processes exit, and time goes by.               *)
(*                                                                         *)
(* The component persists nothing: a restart of the daemon is Init, under  *)
(* whatever configuration and peers it then finds.                         *)
(***************************************************************************)
EXTENDS Naturals

CONSTANTS
    Peers,       \* names a configuration may give to peers
    Plans,       \* session plans a peer's manifest, with ours, can lead to
    Transports,  \* resolved transports (command, queue, period) a peer can be given
    Flaky,       \* the transports whose command can fail to be executed
    Absent,      \* no entry in a table, no answer to a probe, no peer in hand
    MISSES_BEFORE_UNREACHABLE,
    MAX_SPAWN_BACKOFF,
    HEALTHY_RUN, \* in ticks of Tick
    MaxMisses    \* where the count of misses saturates: u32::MAX in the code

WorkerSpec == [plan : Plans, transport : Transports]
PeerSnapshot == [plan : Plans, available : BOOLEAN, misses : 0..MaxMisses]
Worker == [spec : WorkerSpec, age : 0..HEALTHY_RUN, exited : BOOLEAN]
Backoff == [remaining : 0..MAX_SPAWN_BACKOFF, length : 0..MAX_SPAWN_BACKOFF]

\* The thresholds are positive, the saturating counter can reach the threshold
\* it is compared with, and Absent is nothing a table can hold.
ASSUME ConstantsAssumption ==
    /\ Flaky \subseteq Transports
    /\ Absent \notin Peers \cup Plans \cup Transports
    /\ Absent \notin PeerSnapshot /\ Absent \notin Worker
    /\ MISSES_BEFORE_UNREACHABLE \in Nat \ {0}
    /\ MAX_SPAWN_BACKOFF \in Nat \ {0}
    /\ HEALTHY_RUN \in Nat \ {0}
    /\ MaxMisses \in Nat
    /\ MISSES_BEFORE_UNREACHABLE <= MaxMisses

VARIABLES
    config,       \* the configuration file: the transport of each peer, or Absent
    known,        \* the configuration the controller last loaded
    passConfig,   \* the copy the current or last pass works from
    world,        \* what each peer would answer now: a plan, or Absent
    phase,        \* is the task sleeping or in a pass
    todo,         \* peers this pass has still to visit
    current,      \* the peer probed and not yet supervised, or Absent
    peers,        \* fabric::Runtime::peers
    unseen,       \* the keys of fabric::Runtime::unseen
    workers,      \* fabric::Runtime::workers
    spawnBackoff, \* fabric::Runtime::spawn_backoff
    children,     \* live JackTrip processes the daemon has started, by peer
    fabric        \* the records last handed to the graph

tables == <<peers, unseen, workers, spawnBackoff>>
configs == <<config, known, passConfig>>
vars == <<configs, world, phase, todo, current, tables, children, fabric>>

Config == [Peers -> Transports \cup {Absent}]
Configured(c) == {p \in Peers : c[p] # Absent}

\* A missing entry of spawn_backoff reads as Backoff::default() everywhere.
NoBackoff == [remaining |-> 0, length |-> 0]

Least(a, b) == IF a <= b THEN a ELSE b

----------------------------------------------------------------------------
(* What the code computes from a table entry. *)

\* The record of a peer whose probe answered, whatever it was before.
Answered(plan) == [plan |-> plan, available |-> TRUE, misses |-> 0]

\* Faulty: the count of misses is not saturated.
MissedOverflowing(record) ==
    [plan |-> record.plan,
     available |-> record.available /\ record.misses + 1 < MISSES_BEFORE_UNREACHABLE,
     misses |-> record.misses + 1]

\* Faulty: a peer is given one more miss than it should be.
MissedOnceMore(record) ==
    LET misses == Least(record.misses + 1, MaxMisses)
    IN  [plan |-> record.plan,
         available |-> record.available /\ misses <= MISSES_BEFORE_UNREACHABLE,
         misses |-> misses]

\* Faulty: a silent peer stays available.
MissedForgiven(record) ==
    [record EXCEPT !.misses = Least(@ + 1, MaxMisses)]

\* The record of a peer whose probe failed once more.
Missed(record) ==
    LET misses == Least(record.misses + 1, MaxMisses)
    IN  [plan |-> record.plan,
         available |-> record.available /\ misses < MISSES_BEFORE_UNREACHABLE,
         misses |-> misses]

\* penalise: the pause doubles, and starts to be served.
Penalised(backoff) ==
    LET length == Least(2 * backoff.length + 1, MAX_SPAWN_BACKOFF)
    IN  [remaining |-> length, length |-> length]

\* Faulty: the pause is never counted down.
ServedForEver(backoff) == backoff

\* One pass of a pause goes by.
Served(backoff) ==
    [remaining |-> backoff.remaining - 1, length |-> backoff.length]

Running(p) == workers[p] # Absent /\ ~workers[p].exited
Reaped(p) == workers[p] # Absent /\ workers[p].exited

\* The backoff once an exited worker has been reaped: a run that is short by
\* the time it is reaped counts as a failed start.
BackoffAfterReap(p) ==
    IF Reaped(p) /\ workers[p].age < HEALTHY_RUN
    THEN Penalised(spawnBackoff[p])
    ELSE spawnBackoff[p]

Believed(p) == peers[p] # Absent /\ peers[p].available

\* worker_spec: the process this peer should have, by its record and the
\* configuration of the pass.
Wanted(p) == [plan |-> peers[p].plan, transport |-> passConfig[p]]

Correct(p) == Running(p) /\ workers[p].spec = Wanted(p)

----------------------------------------------------------------------------
(* The pass. *)

Init ==
    /\ config \in Config
    /\ known = config
    /\ passConfig = config
    /\ world \in [Peers -> Plans \cup {Absent}]
    /\ phase = "sleep"
    /\ todo = {}
    /\ current = Absent
    /\ peers = [p \in Peers |-> Absent]
    /\ unseen = {}
    /\ workers = [p \in Peers |-> Absent]
    /\ spawnBackoff = [p \in Peers |-> NoBackoff]
    /\ children = [p \in Peers |-> 0]
    /\ fabric = [p \in Peers |-> Absent]

\* A pass begins by loading the configuration; a file that does not load
\* leaves the controller's last one in force.
StartPass ==
    /\ phase = "sleep"
    /\ \/ known' = config
       \/ known' = known
    /\ passConfig' = known'
    /\ phase' = "pass"
    /\ todo' = Configured(passConfig')
    /\ UNCHANGED <<config, world, current, tables, children, fabric>>

\* observe after a probe that answered with a usable manifest.
ProbeAnswered(p) ==
    /\ current = Absent
    /\ p \in todo
    /\ world[p] # Absent
    /\ peers' = [peers EXCEPT ![p] = Answered(world[p])]
    /\ unseen' = unseen \ {p}
    /\ current' = p
    /\ todo' = todo \ {p}
    /\ UNCHANGED <<configs, world, phase, workers, spawnBackoff, children, fabric>>

\* observe after a probe that failed: no connection, a timeout, or a manifest
\* that does not decode, validate or name the peer.
ProbeMissed(p) ==
    /\ current = Absent
    /\ p \in todo
    /\ world[p] = Absent
    /\ \/ /\ peers[p] # Absent
          /\ peers' = [peers EXCEPT ![p] = Missed(@)]
          /\ UNCHANGED unseen
       \/ /\ peers[p] = Absent
          /\ unseen' = unseen \cup {p}
          /\ UNCHANGED peers
    /\ current' = p
    /\ todo' = todo \ {p}
    /\ UNCHANGED <<configs, world, phase, workers, spawnBackoff, children, fabric>>

Supervised(p) ==
    /\ current = p
    /\ current' = Absent
    /\ UNCHANGED <<configs, world, phase, todo, peers, unseen, fabric>>

\* Faulty: a peer that falls silent has its session stopped.
SuperviseAwayKilling(p) ==
    /\ Supervised(p)
    /\ ~Believed(p)
    /\ workers' = [workers EXCEPT ![p] = Absent]
    /\ children' = [children EXCEPT ![p] = @ - (IF Running(p) THEN 1 ELSE 0)]
    /\ UNCHANGED spawnBackoff

\* Faulty: returns before it has reaped.
SuperviseAwayAtOnce(p) ==
    /\ Supervised(p)
    /\ ~Believed(p)
    /\ UNCHANGED <<workers, spawnBackoff, children>>

\* supervise, when the peer is not believed to be there: reap, start nothing.
SuperviseAway(p) ==
    /\ Supervised(p)
    /\ ~Believed(p)
    /\ workers' = IF Reaped(p) THEN [workers EXCEPT ![p] = Absent] ELSE workers
    /\ spawnBackoff' = [spawnBackoff EXCEPT ![p] = BackoffAfterReap(p)]
    /\ UNCHANGED children

\* supervise, when exactly the wanted process runs: leave it alone, and
\* forgive its past once it has run for long enough.
SuperviseKeep(p) ==
    /\ Supervised(p)
    /\ Believed(p)
    /\ Correct(p)
    /\ spawnBackoff' = IF workers[p].age >= HEALTHY_RUN
                       THEN [spawnBackoff EXCEPT ![p] = NoBackoff]
                       ELSE spawnBackoff
    /\ UNCHANGED <<workers, children>>

\* Faulty: the process is forgotten without being killed.
ChildrenNotKilled(p) == children[p]

\* A process that should not run any more is killed and waited for.
ChildrenAfterKill(p) == children[p] - (IF Running(p) THEN 1 ELSE 0)

\* supervise, when a process is wanted but a pause is being served.
SuperviseWait(p) ==
    /\ Supervised(p)
    /\ Believed(p)
    /\ ~Correct(p)
    /\ BackoffAfterReap(p).remaining > 0
    /\ spawnBackoff' = [spawnBackoff EXCEPT
            ![p] = Served(BackoffAfterReap(p))]
    /\ workers' = [workers EXCEPT ![p] = Absent]
    /\ children' = [children EXCEPT ![p] = ChildrenAfterKill(p)]

\* Faulty: a start is taken for success, and its past forgotten.
SuperviseSpawnForgiving(p) ==
    /\ Supervised(p)
    /\ Believed(p)
    /\ ~Correct(p)
    /\ BackoffAfterReap(p).remaining = 0
    /\ spawnBackoff' = [spawnBackoff EXCEPT ![p] = NoBackoff]
    /\ workers' = [workers EXCEPT
            ![p] = [spec |-> Wanted(p), age |-> 0, exited |-> FALSE]]
    /\ children' = [children EXCEPT ![p] = ChildrenAfterKill(p) + 1]

\* Faulty: starts whatever pause is being served.
SuperviseSpawnAtOnce(p) ==
    /\ Supervised(p)
    /\ Believed(p)
    /\ ~Correct(p)
    /\ spawnBackoff' = [spawnBackoff EXCEPT ![p] = BackoffAfterReap(p)]
    /\ workers' = [workers EXCEPT
            ![p] = [spec |-> Wanted(p), age |-> 0, exited |-> FALSE]]
    /\ children' = [children EXCEPT ![p] = ChildrenAfterKill(p) + 1]

\* supervise, when the wanted process is started.  Starting is not staying
\* up: the backoff is kept.
SuperviseSpawn(p) ==
    /\ Supervised(p)
    /\ Believed(p)
    /\ ~Correct(p)
    /\ BackoffAfterReap(p).remaining = 0
    /\ spawnBackoff' = [spawnBackoff EXCEPT ![p] = BackoffAfterReap(p)]
    /\ workers' = [workers EXCEPT
            ![p] = [spec |-> Wanted(p), age |-> 0, exited |-> FALSE]]
    /\ children' = [children EXCEPT ![p] = ChildrenAfterKill(p) + 1]

\* supervise, when the command cannot be executed.
SuperviseFail(p) ==
    /\ Supervised(p)
    /\ Believed(p)
    /\ ~Correct(p)
    /\ BackoffAfterReap(p).remaining = 0
    /\ passConfig[p] \in Flaky
    /\ spawnBackoff' = [spawnBackoff EXCEPT ![p] = Penalised(BackoffAfterReap(p))]
    /\ workers' = [workers EXCEPT ![p] = Absent]
    /\ children' = [children EXCEPT ![p] = ChildrenAfterKill(p)]

Supervise(p) ==
    \/ SuperviseAway(p)
    \/ SuperviseKeep(p)
    \/ SuperviseWait(p)
    \/ SuperviseSpawn(p)
    \/ SuperviseFail(p)

\* Faulty: the backoff of a peer that left the configuration is kept.
RetireKeepingBackoff ==
    /\ phase = "pass"
    /\ todo = {}
    /\ current = Absent
    /\ LET kept == Configured(passConfig) IN
       /\ workers' = [p \in Peers |-> IF p \in kept THEN workers[p] ELSE Absent]
       /\ children' = [p \in Peers |->
                          IF p \in kept THEN children[p] ELSE ChildrenAfterKill(p)]
       /\ peers' = [p \in Peers |-> IF p \in kept THEN peers[p] ELSE Absent]
       /\ unseen' = unseen \cap kept
    /\ fabric' = peers'
    /\ phase' = "sleep"
    /\ UNCHANGED <<configs, world, todo, current, spawnBackoff>>

\* Faulty: the process of a peer that left the configuration is kept.
RetireKeepingWorkers ==
    /\ phase = "pass"
    /\ todo = {}
    /\ current = Absent
    /\ peers' = [p \in Peers |-> IF passConfig[p] # Absent THEN peers[p] ELSE Absent]
    /\ fabric' = peers'
    /\ phase' = "sleep"
    /\ UNCHANGED <<configs, world, todo, current, unseen, workers, spawnBackoff, children>>

\* The end of a pass: what belongs to peers that left the configuration goes,
\* their processes are killed, and the records are handed to the graph.
Retire ==
    /\ phase = "pass"
    /\ todo = {}
    /\ current = Absent
    /\ LET kept == Configured(passConfig) IN
       /\ workers' = [p \in Peers |-> IF p \in kept THEN workers[p] ELSE Absent]
       /\ children' = [p \in Peers |->
                          IF p \in kept THEN children[p] ELSE ChildrenAfterKill(p)]
       /\ peers' = [p \in Peers |-> IF p \in kept THEN peers[p] ELSE Absent]
       /\ unseen' = unseen \cap kept
       /\ spawnBackoff' = [p \in Peers |->
                              IF p \in kept THEN spawnBackoff[p] ELSE NoBackoff]
    /\ fabric' = peers'
    /\ phase' = "sleep"
    /\ UNCHANGED <<configs, world, todo, current>>

Pass ==
    \/ StartPass
    \/ \E p \in Peers : ProbeAnswered(p) \/ ProbeMissed(p) \/ Supervise(p)
    \/ Retire

----------------------------------------------------------------------------
(* The world. *)

\* Somebody edits the configuration.
Edit ==
    /\ config' \in Config
    /\ UNCHANGED <<known, passConfig, world, phase, todo, current, tables,
                   children, fabric>>

\* A refresh of the graph loads the configuration for the controller.
Reload ==
    /\ known' = config
    /\ UNCHANGED <<config, passConfig, world, phase, todo, current, tables,
                   children, fabric>>

\* A peer falls silent, returns, or comes to announce something else.
Turn(p) ==
    /\ \E answer \in Plans \cup {Absent} : world' = [world EXCEPT ![p] = answer]
    /\ UNCHANGED <<configs, phase, todo, current, tables, children, fabric>>

\* A JackTrip process exits by itself.
Exit(p) ==
    /\ Running(p)
    /\ workers' = [workers EXCEPT ![p].exited = TRUE]
    /\ children' = [children EXCEPT ![p] = @ - 1]
    /\ UNCHANGED <<configs, world, phase, todo, current, peers, unseen,
                   spawnBackoff, fabric>>

\* Time goes by; an age is only ever compared with HEALTHY_RUN.
Tick ==
    /\ workers' = [p \in Peers |->
            IF workers[p] = Absent THEN Absent
            ELSE [workers[p] EXCEPT !.age = Least(@ + 1, HEALTHY_RUN)]]
    /\ UNCHANGED <<configs, world, phase, todo, current, peers, unseen,
                   spawnBackoff, children, fabric>>

World ==
    \/ Edit
    \/ Reload
    \/ \E p \in Peers : Turn(p) \/ Exit(p)
    \/ Tick

Next == Pass \/ World

Spec == Init /\ [][Next]_vars

\* The task never stops between two steps of its loop: every wait in a pass is
\* bounded by a timeout.  A file that stays readable is loaded.
LoadsConfig == StartPass /\ known' = config
FairSpec == Spec /\ WF_vars(Pass) /\ SF_vars(LoadsConfig)

----------------------------------------------------------------------------
(* Properties. *)

\* Every table holds what its type in the code says.
TypeOK ==
    /\ config \in Config /\ known \in Config /\ passConfig \in Config
    /\ world \in [Peers -> Plans \cup {Absent}]
    /\ phase \in {"sleep", "pass"}
    /\ todo \subseteq Peers
    /\ current \in Peers \cup {Absent}
    /\ peers \in [Peers -> PeerSnapshot \cup {Absent}]
    /\ unseen \subseteq Peers
    /\ workers \in [Peers -> Worker \cup {Absent}]
    /\ spawnBackoff \in [Peers -> Backoff]
    /\ children \in [Peers -> Nat]
    /\ fabric \in [Peers -> PeerSnapshot \cup {Absent}]

\* One session per peer pair: the live JackTrip processes of a peer are exactly
\* the one its table entry stands for.  None is leaked when a session is
\* replaced, when a peer leaves the configuration or when a pause is served,
\* and an entry whose process has exited stands for none.
OneSessionPerPeer ==
    \A p \in Peers : children[p] = IF Running(p) THEN 1 ELSE 0

\* A process exists only where every pause has been served in full, and no pause
\* outlasts the length it started with.
PauseServed ==
    \A p \in Peers : /\ spawnBackoff[p].remaining <= spawnBackoff[p].length
                     /\ workers[p] # Absent => spawnBackoff[p].remaining = 0

\* Between two passes nothing is held for a peer the last pass's configuration
\* does not have, and the graph has been given the records as they are.
NothingKeptForRemovedPeers ==
    phase = "sleep" =>
        /\ fabric = peers
        /\ unseen \subseteq Configured(passConfig)
        /\ \A p \in Peers \ Configured(passConfig) :
              /\ peers[p] = Absent
              /\ workers[p] = Absent
              /\ children[p] = 0
              /\ spawnBackoff[p] = NoBackoff

\* A peer that keeps answering, under a configuration that keeps its transport
\* and a command that can be executed, has its wanted session again and again,
\* however often the process exits: no backoff lasts for ever, and no other
\* peer's trouble keeps the pass from reaching it.
SessionRestored ==
    \A p \in Peers, plan \in Plans, t \in Transports \ Flaky :
        <>[](world[p] = plan /\ config[p] = t)
            => []<>(Running(p) /\ workers[p].spec = [plan |-> plan, transport |-> t])

\* A process that has exited leaves the table, even while its peer is away.
ExitedIsReaped ==
    \A p \in Peers : Reaped(p) ~> ~Reaped(p)

\* A peer that leaves the configuration for good ends without a process.
RemovedIsStopped ==
    \A p \in Peers : <>[](config[p] = Absent) => <>[](children[p] = 0)

\* A peer that stays silent comes to be called unreachable, and one that stays
\* there comes to be called available, in what the graph is given.
PresenceConverges ==
    \A p \in Peers :
        /\ <>[](world[p] = Absent) => <>[](fabric[p] = Absent \/ ~fabric[p].available)
        /\ <>[](config[p] # Absent /\ world[p] # Absent)
              => <>[](fabric[p] # Absent /\ fabric[p].available)
=============================================================================
