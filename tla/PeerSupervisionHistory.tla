----------------------- MODULE PeerSupervisionHistory -----------------------
(***************************************************************************)
(* PeerSupervision with a record of what really happened beside it: what   *)
(* each peer last answered, for how many probes it has been silent, how    *)
(* many of its starts in a row failed and how many passes went by since.   *)
(* The history is written from what the world does and from which step is  *)
(* taken, never from the counters of the code, so that a property can      *)
(* compare the two.                                                        *)
(***************************************************************************)
EXTENDS PeerSupervision

CONSTANT
    MaxCount      \* where silence, failures and idle saturate

\* The history counts past every threshold it is compared with.
ASSUME HistoryAssumption ==
    /\ MaxCount \in Nat
    /\ MISSES_BEFORE_UNREACHABLE <= MaxCount
    /\ MAX_SPAWN_BACKOFF < MaxCount

VARIABLES
    answered,  \* the last plan the peer gave while configured, or Absent
    silence,   \* probes since that answer
    failures,  \* failed starts since a run of HEALTHY_RUN was last seen
    idle       \* visits to the peer since the last failed start

history == <<answered, silence, failures, idle>>
hvars == <<vars, history>>

Counted(n) == Least(n + 1, MaxCount)

\* What a step is to one peer.
Probed(p) == current = Absent /\ current' = p
Heard(p) == Probed(p) /\ world[p] # Absent
Visited(p) == current = p /\ current' = Absent
Dropped(p) == phase = "pass" /\ phase' = "sleep" /\ passConfig[p] = Absent
Proven(p) == Running(p) /\ workers[p].age >= HEALTHY_RUN
FoundDead(p) == Visited(p) /\ Reaped(p) /\ workers[p].age < HEALTHY_RUN
Started(p) == Visited(p) /\ workers'[p] # Absent /\ workers'[p] # workers[p]

HInit ==
    /\ Init
    /\ answered = [p \in Peers |-> Absent]
    /\ silence = [p \in Peers |-> 0]
    /\ failures = [p \in Peers |-> 0]
    /\ idle = [p \in Peers |-> 0]

AnsweredAfter(p) ==
    IF Dropped(p) THEN Absent ELSE IF Heard(p) THEN world[p] ELSE answered[p]

SilenceAfter(p) ==
    IF Dropped(p) \/ Heard(p) THEN 0
    ELSE IF Probed(p) /\ answered[p] # Absent THEN Counted(silence[p])
    ELSE silence[p]

FailuresAfter(p) ==
    IF Dropped(p) \/ Proven(p) THEN 0
    ELSE IF FoundDead(p) \/ SuperviseFail(p) THEN Counted(failures[p])
    ELSE failures[p]

\* A visit that finds a process dead is the first since.
IdleAfter(p) ==
    IF Dropped(p) \/ SuperviseFail(p) THEN 0
    ELSE IF FoundDead(p) THEN 1
    ELSE IF Visited(p) THEN Counted(idle[p])
    ELSE idle[p]

Remember ==
    /\ answered' = [p \in Peers |-> AnsweredAfter(p)]
    /\ silence' = [p \in Peers |-> SilenceAfter(p)]
    /\ failures' = [p \in Peers |-> FailuresAfter(p)]
    /\ idle' = [p \in Peers |-> IdleAfter(p)]

HNext == Next /\ Remember

\* Fairness is PeerSupervision's.
HSpec == HInit /\ [][HNext]_hvars /\ WF_vars(Pass) /\ SF_vars(LoadsConfig)

----------------------------------------------------------------------------
(* Properties. *)

\* The tables and the history hold what they stand for.
HTypeOK ==
    /\ TypeOK
    /\ answered \in [Peers -> Plans \cup {Absent}]
    /\ silence \in [Peers -> 0..MaxCount]
    /\ failures \in [Peers -> 0..MaxCount]
    /\ idle \in [Peers -> 0..MaxCount]

\* A peer has a record from its first answer until it leaves the configuration,
\* whatever else fails in between; the record holds the last manifest it gave;
\* and it is called unreachable exactly when MISSES_BEFORE_UNREACHABLE probes in
\* a row have failed since, so that one answer brings it back.
RecordMatchesEvidence ==
    \A p \in Peers :
        /\ peers[p] = Absent <=> answered[p] = Absent
        /\ peers[p] # Absent =>
              /\ peers[p].plan = answered[p]
              /\ peers[p].available <=> silence[p] < MISSES_BEFORE_UNREACHABLE

\* A control-plane blip is never an audible dropout: the fabric task stops a
\* running session only when the peer has left the configuration or when the
\* last answer and the configuration ask for another session.
SessionOutlivesSilence ==
    [][\A p \in Peers :
          Running(p) /\ (workers'[p] = Absent \/ Started(p))
              => \/ passConfig[p] = Absent
                 \/ workers[p].spec # [plan |-> answered[p], transport |-> passConfig[p]]
      ]_hvars

\* The pause after k failed starts in a row.
PauseAfter(k) == Least(2^k - 1, MAX_SPAWN_BACKOFF)

\* Every start is throttled by its history: after k failed starts with no healthy
\* run between them, at least 2^k - 1 visits (at most MAX_SPAWN_BACKOFF) pass
\* before the next, whether the command could not be executed or exited at once.
StartsAreThrottled ==
    [][\A p \in Peers : Started(p) => idle'[p] > PauseAfter(failures'[p])]_hvars
=============================================================================
