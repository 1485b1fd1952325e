-------------------------------- MODULE News --------------------------------
(***************************************************************************)
(* What a client shows: nixaudiod's snapshot and its revision, the Changed *)
(* signal, and the tray, which asks for the snapshot, subscribes, asks     *)
(* again after each signal, and edits a stream's targets by reading them   *)
(* and writing them back.                                                  *)
(*                                                                         *)
(* A snapshot is made of the configuration, what the user asked for and    *)
(* what PipeWire holds.  The three are read by a refresh, which holds the  *)
(* controller's write lock from its first line to its last and is one step *)
(* here; how refreshes are called for is Monitor's subject.  Where links   *)
(* go is Routing's: a request is taken to succeed or to fail at one of the *)
(* places Routing has.                                                     *)
(***************************************************************************)
EXTENDS Transport

CONSTANTS
    Clients,    \* trays
    Worlds,     \* what pw-dump can report
    Files,      \* configurations the file can hold
    Targets,    \* outputs a stream can be pinned to; there is one stream
    OthersAsk,  \* target sets that other clients ask for
    Revisions,  \* the revision is counted modulo this
    MaxSignals, \* where signals a client has not handled yet saturate
    None

ASSUME NewsAssumption ==
    /\ Files \subseteq Config
    /\ None \notin Files /\ None \notin Worlds
    /\ OthersAsk \subseteq SUBSET Targets
    /\ Revisions \in Nat /\ 1 < Revisions
    /\ MaxSignals \in Nat \ {0}

VARIABLES
    world,      \* PipeWire, as pw-dump would report it
    file,       \* the configuration file, None when it cannot be read or parsed
    memory,     \* Runtime::state, the stream's targets
    saved,      \* state.json
    config,     \* Runtime::config
    passConfig, \* the configuration of the fabric task's pass
    serving,    \* whether the daemon runs
    held,       \* Runtime::graph, a picture and the revision baked into it
    stale,      \* Runtime::stale
    revision,   \* Runtime::revision
    loop,       \* main: waiting for an event, or announcing a revision
    phase,      \* each client: away, shown (not subscribed yet) or listening
    view,       \* what each client shows
    signals,    \* signals each client has not handled yet
    edit,       \* a tick each client has read for and not written yet
    missed,     \* history: since the client asked, a reply other than the one it shows
                \* was announced, or came with a restart, and it did not hear
    quiet       \* nobody asks for anything and nothing fails or changes any more

daemon == <<serving, config, passConfig, held, stale, revision, loop>>
clients == <<phase, view, signals, edit, missed>>
vars == <<world, file, memory, saved, daemon, clients, quiet>>

Picture == [world : Worlds \cup {None}, targets : SUBSET Targets, config : Files]
Held == [revision : 0..(Revisions - 1), picture : Picture]
Answer == [picture : Picture, stale : BOOLEAN]
Edit == [target : Targets, on : BOOLEAN, targets : SUBSET Targets]

Least(a, b) == IF a < b THEN a ELSE b
After(n) == (n + 1) % Revisions

\* Config::load, for the ones that keep what they have when it fails.
Loads == file # None /\ Accepts(file)

\* Faulty: a file that cannot be read empties the configuration.
LoadedUnread == IF file = None \/ Loads THEN file ELSE config

Loaded == IF Loads THEN file ELSE config

\* Graph::inspect, but for the revision.
Pictured(c) == [world |-> world, targets |-> memory, config |-> c]

\* Controller::inspect.
Reply == [picture |-> held.picture, stale |-> stale]

----------------------------------------------------------------------------
(* refresh, and the announcement that follows it. *)

\* Faulty: inspects at the revision it would publish.
InspectedAhead == [revision |-> After(revision), picture |-> Pictured(Loaded)]

\* The graph a refresh reads, at the revision there is: what it is compared with
\* must differ from it in nothing but what it shows.
Inspected == [revision |-> revision, picture |-> Pictured(Loaded)]

\* Faulty: a recovery that finds the old graph again is no change.
MovedInPicture == Inspected # held

Moved == stale \/ Inspected # held

\* A refresh whose pw-dump succeeds.
Refresh ==
    /\ serving /\ loop = "waiting"
    /\ config' = Loaded
    /\ revision' = IF Moved THEN After(revision) ELSE revision
    /\ held' = [Inspected EXCEPT !.revision = revision']
    /\ stale' = FALSE
    /\ loop' = IF Moved THEN "announcing" ELSE "waiting"
    /\ UNCHANGED <<world, file, memory, saved, passConfig, serving, clients, quiet>>

\* A refresh whose pw-dump fails or is killed after six seconds: the last graph is
\* kept and called stale, and nobody is told.
RefreshFails ==
    /\ ~quiet
    /\ serving /\ loop = "waiting"
    /\ config' = Loaded
    /\ stale' = TRUE
    /\ UNCHANGED <<world, file, memory, saved, passConfig, serving, held, revision, loop,
                   clients, quiet>>

\* Changed(revision), which the bus hands to those who have subscribed.
Announce ==
    /\ serving /\ loop = "announcing"
    /\ loop' = "waiting"
    /\ signals' = [c \in Clients |->
            IF phase[c] = "listening" THEN Least(signals[c] + 1, MaxSignals) ELSE signals[c]]
    /\ missed' = [c \in Clients |-> missed[c] \/ (phase[c] = "shown" /\ view[c] # Reply)]
    /\ UNCHANGED <<world, file, memory, saved, serving, config, passConfig, held, stale,
                   revision, phase, view, edit, quiet>>

\* The fabric task begins a pass: it loads the file, or keeps the controller's.
StartPass ==
    /\ serving
    /\ config' = Loaded
    /\ passConfig' = config'
    /\ UNCHANGED <<world, file, memory, saved, serving, held, stale, revision, loop,
                   clients, quiet>>

----------------------------------------------------------------------------
(* The daemon ends, and is started again. *)

DaemonEnds ==
    /\ ~quiet
    /\ serving
    /\ serving' = FALSE
    /\ loop' = "waiting"
    /\ UNCHANGED <<world, file, memory, saved, config, passConfig, held, stale, revision,
                   clients, quiet>>

\* main: a file that does not load ends it at once.  The graph is read, or is empty
\* and stale when it cannot be; nothing is announced.
DaemonStarts ==
    /\ ~serving /\ Loads
    /\ serving' = TRUE
    /\ memory' = saved
    /\ config' = file
    /\ passConfig' = file
    /\ revision' = 1
    /\ \E reads \in {TRUE, quiet} :
          /\ held' = [revision |-> 1,
                      picture |-> IF reads THEN [Pictured(file) EXCEPT !.targets = saved]
                                  ELSE [world |-> None, targets |-> {}, config |-> file]]
          /\ stale' = ~reads
    /\ missed' = [c \in Clients |-> missed[c] \/ view[c] \notin {None, Reply'}]
    /\ UNCHANGED <<world, file, saved, loop, phase, view, signals, edit, quiet>>

----------------------------------------------------------------------------
(* Requests.  Route writes memory, then the file, then links; ClearRoute     *)
(* writes the file last.  What is refused can have reached memory, or both.  *)

Ask(targets, accepted) ==
    /\ serving
    /\ \/ /\ memory' = targets
          /\ saved' \in IF accepted THEN {targets} ELSE {saved, targets}
       \/ /\ ~accepted
          /\ UNCHANGED <<memory, saved>>

\* Any other client of the bus: nixaudioctl, a script.
OtherAsks ==
    /\ ~quiet
    /\ \E targets \in OthersAsk, accepted \in BOOLEAN : Ask(targets, accepted)
    /\ UNCHANGED <<world, file, daemon, clients, quiet>>

----------------------------------------------------------------------------
(* run_backend, the tray's loop. *)

Around == UNCHANGED <<world, file, daemon, quiet>>

Shows(c, reply) ==
    /\ view' = [view EXCEPT ![c] = reply]
    /\ missed' = [missed EXCEPT ![c] = FALSE]

\* No answer: the tray shows nothing and starts over, or ends and is started again.
GivesUp(c) ==
    /\ phase' = [phase EXCEPT ![c] = "away"]
    /\ signals' = [signals EXCEPT ![c] = 0]
    /\ Shows(c, None)

\* Connect, check the API version and ask for the snapshot.
Connect(c) ==
    /\ phase[c] = "away"
    /\ serving
    /\ phase' = [phase EXCEPT ![c] = "shown"]
    /\ Shows(c, Reply)
    /\ UNCHANGED <<memory, saved, signals, edit>>
    /\ Around

\* Only then is Changed subscribed to.
Subscribe(c) ==
    /\ phase[c] = "shown"
    /\ phase' = [phase EXCEPT ![c] = "listening"]
    /\ UNCHANGED <<memory, saved, view, signals, edit, missed>>
    /\ Around

\* Faulty: takes the signal for the news itself.
HandleChangeUnasked(c) ==
    /\ phase[c] = "listening" /\ edit[c] = None
    /\ signals[c] > 0
    /\ signals' = [signals EXCEPT ![c] = @ - 1]
    /\ UNCHANGED <<memory, saved, phase, view, edit, missed>>
    /\ Around

\* A signal: ask again.
HandleChange(c) ==
    /\ phase[c] = "listening" /\ edit[c] = None
    /\ signals[c] > 0
    /\ \/ /\ serving
          /\ signals' = [signals EXCEPT ![c] = @ - 1]
          /\ Shows(c, Reply)
          /\ UNCHANGED phase
       \/ ~serving /\ GivesUp(c)
    /\ UNCHANGED <<memory, saved, edit>>
    /\ Around

\* Action::Route: the user has ticked an output that the menu shows without a tick,
\* or the other way round.  The targets are asked for again, and are those of the
\* daemon's last snapshot.
ReadForTick(c, target) ==
    /\ ~quiet
    /\ phase[c] = "listening" /\ edit[c] = None
    /\ \/ /\ serving
          /\ edit' = [edit EXCEPT ![c] =
                [target |-> target, on |-> target \notin view[c].picture.targets,
                 targets |-> held.picture.targets]]
          /\ UNCHANGED <<phase, view, signals, missed>>
       \/ ~serving /\ GivesUp(c) /\ UNCHANGED edit
    /\ UNCHANGED <<memory, saved>>
    /\ Around

Amended(targets, e) == IF e.on THEN targets \cup {e.target} ELSE targets \ {e.target}

\* ... amended, and written back whole; an empty set clears the route.
WriteTick(c, accepted) ==
    /\ phase[c] = "listening" /\ edit[c] # None
    /\ quiet => accepted
    /\ edit' = [edit EXCEPT ![c] = None]
    /\ \/ Ask(Amended(edit[c].targets, edit[c]), accepted)
       \/ ~serving /\ ~accepted /\ UNCHANGED <<memory, saved>>
    /\ UNCHANGED <<phase, view, signals, missed>>
    /\ Around

----------------------------------------------------------------------------
(* What happens around them. *)

WorldChanges ==
    /\ ~quiet
    /\ world' \in Worlds
    /\ UNCHANGED <<file, memory, saved, daemon, clients, quiet>>

FileChanges ==
    /\ ~quiet
    /\ file' \in Files \cup {None}
    /\ UNCHANGED <<world, memory, saved, daemon, clients, quiet>>

Calm ==
    /\ ~quiet
    /\ serving
    /\ quiet' = TRUE
    /\ UNCHANGED <<world, file, memory, saved, daemon, clients>>

Init ==
    /\ world \in Worlds
    /\ file \in Files /\ Accepts(file)
    /\ memory = {} /\ saved = {}
    /\ config = file /\ passConfig = file
    /\ serving = TRUE
    /\ held = [revision |-> 1, picture |-> Pictured(file)]
    /\ stale = FALSE
    /\ revision = 1
    /\ loop = "waiting"
    /\ phase = [c \in Clients |-> "away"]
    /\ view = [c \in Clients |-> None]
    /\ signals = [c \in Clients |-> 0]
    /\ edit = [c \in Clients |-> None]
    /\ missed = [c \in Clients |-> FALSE]
    /\ quiet = FALSE

Writes(c) == \E accepted \in BOOLEAN : WriteTick(c, accepted)

Tray(c) ==
    \/ Connect(c) \/ Subscribe(c) \/ HandleChange(c) \/ Writes(c)
    \/ \E target \in Targets : ReadForTick(c, target)

Next ==
    \/ Refresh \/ RefreshFails \/ Announce \/ StartPass
    \/ DaemonEnds \/ DaemonStarts \/ OtherAsks
    \/ \E c \in Clients : Tray(c)
    \/ WorldChanges \/ FileChanges \/ Calm

Spec == Init /\ [][Next]_vars

\* The fabric task's event every two seconds brings a refresh, main announces what
\* it returns, and a client's loop takes its steps.
FairSpec ==
    /\ Spec
    /\ WF_vars(Refresh) /\ WF_vars(Announce)
    /\ \A c \in Clients :
          /\ WF_vars(Connect(c)) /\ WF_vars(Subscribe(c))
          /\ WF_vars(HandleChange(c)) /\ WF_vars(Writes(c))

----------------------------------------------------------------------------
(* Properties. *)

\* Every variable holds what its type in the code can hold.
TypeOK ==
    /\ world \in Worlds
    /\ file \in Files \cup {None}
    /\ memory \in SUBSET Targets /\ saved \in SUBSET Targets
    /\ config \in Files /\ passConfig \in Files
    /\ serving \in BOOLEAN /\ stale \in BOOLEAN
    /\ held \in Held
    /\ revision \in 0..(Revisions - 1)
    /\ loop \in {"waiting", "announcing"}
    /\ phase \in [Clients -> {"away", "shown", "listening"}]
    /\ view \in [Clients -> {None} \cup Answer]
    /\ signals \in [Clients -> 0..MaxSignals]
    /\ edit \in [Clients -> {None} \cup Edit]
    /\ missed \in [Clients -> BOOLEAN]
    /\ quiet \in BOOLEAN

\* Every configuration in force is one that passed validation, so that each of its
\* links can absorb a late packet and has its port to itself, whatever the file has
\* become and whoever read it last.  The links whose period wraps are left out: the
\* code accepts those it should not.
LinksAreSound ==
    \A c \in {config, passConfig} :
        /\ PortsApart(c)
        /\ \A p \in c.named :
              LET r == TransportFor(c, p) IN r.rate > 0 /\ (Fits(r) => Absorbs(r))

\* Changed is news: the revision moves only when a client that asks gets another
\* answer than before.
NewsIsNews ==
    [][serving /\ serving' /\ revision' # revision => Reply' # Reply]_vars

\* Whoever was subscribed when the daemon's answer changed, and has handled its
\* signals, shows what the daemon holds, and shows a warning no longer than it holds.
HeardIsCurrent ==
    \A c \in Clients :
        serving /\ loop = "waiting" /\ view[c] # None /\ ~missed[c] /\ signals[c] = 0
            => /\ view[c].picture = held.picture
               /\ view[c].stale => stale

\* Once nothing changes any more, every client comes to show PipeWire, the intent
\* and the configuration as they are, and stays with that, unless it was not there
\* to be told.
NewsArrives ==
    <>[]quiet =>
        <>[](\A c \in Clients :
                /\ view[c] # None
                /\ missed[c] \/ view[c] = [picture |-> Pictured(Loaded), stale |-> FALSE])

\* The tray's promise: a tick amends the intent.  When nobody else asks for anything,
\* a tick that is accepted adds its output to what the stream is pinned to, or takes
\* it away, and leaves the others.
TicksAddUp ==
    [][\A c \in Clients :
          edit[c] # None /\ edit'[c] = None /\ memory' # memory
              => memory' = Amended(memory, edit[c])]_vars
=============================================================================
