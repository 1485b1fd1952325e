------------------------------ MODULE Monitor ------------------------------
(***************************************************************************)
(* How nixaudiod follows PipeWire: watch_pipewire, which reads the batches *)
(* of `pw-dump --monitor` and wakes the main loop for those that touch the *)
(* graph; the channel of wake-ups, which drops what it has no room for;    *)
(* and the main loop, which waits, lets events settle, drains the channel  *)
(* and refreshes.                                                          *)
(*                                                                         *)
(* A refresh runs pw-dump, whose own connection is an object of the server *)
(* and is reported by the monitor like any other: the daemon hears itself. *)
(* What a snapshot shows and what wakes the loop are not the same: the     *)
(* names of the default devices come from PipeWire's metadata, which is    *)
(* not among RELEVANT_TYPES.                                               *)
(*                                                                         *)
(* External and modelled by what the code relies on: the server (objects   *)
(* with ids it hands out again, no object while it is down) and pw-dump (a *)
(* full dump first, then a batch per change; a removal has no type).  What *)
(* a refresh does to PipeWire is Routing's and Session's; a batch that is  *)
(* no JSON array and one about a Device, which is relevant and shown by no *)
(* snapshot, wake the loop, and are wake-ups like a Request here.          *)
(***************************************************************************)
EXTENDS Naturals, Sequences, FiniteSets

CONSTANTS
    Ids,        \* ids of the server's objects
    Metadata,   \* those of the metadata that names the default devices
    Looks,      \* what a snapshot shows of a node, a port or a link
    Settings,   \* what it shows of the metadata
    Client,     \* any object of a type that is neither shown nor relevant
    Capacity,   \* room in the channel (32)
    MaxBatches, \* batches pw-dump has written and the daemon has not read
    None

ASSUME MonitorAssumption ==
    /\ Metadata \subseteq Ids
    /\ Looks \cap Settings = {} /\ Client \notin Looks \cup Settings
    /\ None \notin Looks \cup Settings \cup {Client} /\ None \notin Ids
    /\ Capacity \in Nat \ {0}
    /\ MaxBatches \in Nat \ {0}

Visible == Looks \cup Settings
Kinds == Visible \cup {Client}
Pictures == [Ids -> Visible \cup {None}]

VARIABLES
    objects,  \* the server's objects by id, None when the id is free
    up,       \* whether the server runs
    monitor,  \* pw-dump --monitor: pausing, running, or ended with lines left
    pipe,     \* the batches it has written and nobody has read
    relevant, \* ids last announced as one of RELEVANT_TYPES
    wakeups,  \* events in the channel
    loop,     \* main: waiting, settling, reading (pw-dump runs), deciding
    dumper,   \* the id of that pw-dump's connection, or None
    reading,  \* what the last pw-dump that succeeded has shown
    failed,   \* whether the pw-dump of this refresh failed
    graph,    \* Runtime::graph, as far as it comes from PipeWire
    stale,    \* Runtime::stale
    ticking,  \* whether the fabric task runs (NIXAUDIO_DISABLE_NETWORK is not set)
    quiet     \* PipeWire does not change any more and no command fails

server == <<objects, up>>
watch == <<monitor, pipe, relevant>>
refreshing == <<loop, dumper, reading, failed, graph, stale>>
vars == <<server, watch, wakeups, refreshing, ticking, quiet>>

Least(a, b) == IF a < b THEN a ELSE b

\* Faulty: a channel without a bound.
WokenAlways == wakeups + 1

\* try_send: a full channel drops the event.
Woken == Least(wakeups + 1, Capacity)

\* What a snapshot is made of.
Shown == [i \in Ids |-> IF objects[i] \in Visible THEN objects[i] ELSE None]

----------------------------------------------------------------------------
(* The server and pw-dump --monitor.  A batch gives some ids a type, or None *)
(* for a removal.                                                            *)

Batch == UNION {[ids -> Kinds \cup {None}] : ids \in SUBSET Ids}
Present == {i \in Ids : objects[i] # None}

\* The metadata is made with the session and keeps its ids as long as that lasts.
Free == Ids \ (Present \cup Metadata)
Begun(new) == \A i \in Ids : new[i] \in IF i \in Metadata THEN Settings ELSE {None}

FullDump == [i \in Present |-> objects[i]]

Reports(batch) ==
    /\ monitor = "running" => Len(pipe) < MaxBatches
    /\ pipe' = IF monitor = "running" THEN Append(pipe, batch) ELSE pipe
    /\ UNCHANGED <<monitor, relevant>>

\* An object comes, shows itself differently, or goes.
Becomes(i, kind) ==
    /\ objects' = [objects EXCEPT ![i] = kind]
    /\ Reports([x \in {i} |-> kind])

\* An id is left free for pw-dump.
Appear(i, kind) ==
    /\ ~quiet
    /\ up /\ i \in Free
    /\ dumper = None => Cardinality(Free) > 1
    /\ Becomes(i, kind)
    /\ UNCHANGED <<up, wakeups, refreshing, ticking, quiet>>

\* What it is announced for need not be something a snapshot shows.
Change(i, kind) ==
    /\ ~quiet
    /\ \E type \in {Looks, Settings} : {objects[i], kind} \subseteq type
    /\ Becomes(i, kind)
    /\ UNCHANGED <<up, wakeups, refreshing, ticking, quiet>>

Vanish(i) ==
    /\ ~quiet
    /\ i \in Present \ Metadata /\ i # dumper
    /\ Becomes(i, None)
    /\ UNCHANGED <<up, wakeups, refreshing, ticking, quiet>>

\* Every connection ends with the server, the monitor's too.
ServerStops ==
    /\ ~quiet
    /\ up
    /\ up' = FALSE
    /\ objects' = [i \in Ids |-> None]
    /\ monitor' = IF monitor = "running" THEN "ended" ELSE monitor
    /\ dumper' = None
    /\ UNCHANGED <<pipe, relevant, wakeups, loop, reading, failed, graph, stale, ticking, quiet>>

ServerStarts ==
    /\ ~quiet
    /\ ~up
    /\ up' = TRUE
    /\ objects' \in [Ids -> Settings \cup {None}] /\ Begun(objects')
    /\ UNCHANGED <<watch, wakeups, refreshing, ticking, quiet>>

\* pw-dump --monitor ends by itself.
MonitorDies ==
    /\ ~quiet
    /\ monitor = "running"
    /\ monitor' = "ended"
    /\ UNCHANGED <<server, pipe, relevant, wakeups, refreshing, ticking, quiet>>

----------------------------------------------------------------------------
(* watch_pipewire. *)

\* Faulty: clients are relevant.
TouchesEvery(batch) == DOMAIN batch # {}

\* touches_the_graph: a relevant type, or the removal of an id that had one.
Touches(batch) ==
    \E i \in DOMAIN batch : batch[i] \in Looks \/ (batch[i] = None /\ i \in relevant)

\* Faulty: a removal is judged by the set and leaves it as it is.
RelevantGrowing(batch) == relevant \cup {i \in DOMAIN batch : batch[i] \in Looks}

\* Every announcement and every removal rewrites the entry of its id.
RelevantAfter(batch) ==
    (relevant \ DOMAIN batch) \cup {i \in DOMAIN batch : batch[i] \in Looks}

\* A new pw-dump, two seconds after the last, with a set of ids that is empty.
MonitorStarts ==
    /\ monitor = "pausing" /\ up
    /\ monitor' = "running"
    /\ relevant' = {}
    /\ pipe' = <<FullDump>>
    /\ UNCHANGED <<server, wakeups, refreshing, ticking, quiet>>

MonitorReads ==
    /\ pipe # <<>>
    /\ pipe' = Tail(pipe)
    /\ relevant' = RelevantAfter(Head(pipe))
    /\ wakeups' = IF Touches(Head(pipe)) THEN Woken ELSE wakeups
    /\ UNCHANGED <<server, monitor, refreshing, ticking, quiet>>

\* The end of its output: kill, wait, and go round.  Nobody is told.
MonitorEnds ==
    /\ monitor = "ended" /\ pipe = <<>>
    /\ monitor' = "pausing"
    /\ UNCHANGED <<server, pipe, relevant, wakeups, refreshing, ticking, quiet>>

----------------------------------------------------------------------------
(* Others who wake the main loop. *)

\* The fabric task, after each of its passes.
Tick ==
    /\ ticking
    /\ wakeups' = Woken
    /\ UNCHANGED <<server, watch, refreshing, ticking, quiet>>

\* Controller, after each request it accepts.
Request ==
    /\ ~quiet
    /\ wakeups' = Woken
    /\ UNCHANGED <<server, watch, refreshing, ticking, quiet>>

----------------------------------------------------------------------------
(* main. *)

\* An event is received, and followed by 120 ms of sleep.
Wake ==
    /\ loop = "waiting" /\ wakeups > 0
    /\ wakeups' = wakeups - 1
    /\ loop' = "settling"
    /\ UNCHANGED <<server, watch, dumper, reading, failed, graph, stale, ticking, quiet>>

\* The channel is drained and refresh begins: pw-dump connects, if it can.
Drain ==
    /\ loop = "settling"
    /\ wakeups' = 0
    /\ loop' = "reading"
    /\ \/ /\ up
          /\ \E i \in Free : dumper' = i /\ Becomes(i, Client)
       \/ /\ ~up
          /\ UNCHANGED <<dumper, objects, watch>>
    /\ UNCHANGED <<up, reading, failed, graph, stale, ticking, quiet>>

\* pw-dump has its picture and disconnects; or it fails, as it does when the server
\* stops and when it takes more than six seconds.
PwDump ==
    /\ loop = "reading"
    /\ loop' = "deciding"
    /\ IF dumper = None THEN UNCHANGED <<objects, watch>> ELSE Becomes(dumper, None)
    /\ dumper' = None
    /\ \/ dumper # None /\ reading' = Shown /\ failed' = FALSE
       \/ (dumper = None \/ ~quiet) /\ failed' = TRUE /\ UNCHANGED reading
    /\ UNCHANGED <<up, wakeups, graph, stale, ticking, quiet>>

\* Faulty: a picture that could not be taken is an empty one.
DecideCleared ==
    /\ loop = "deciding"
    /\ loop' = "waiting"
    /\ stale' = failed
    /\ graph' = IF failed THEN [i \in Ids |-> None] ELSE reading
    /\ UNCHANGED <<server, watch, wakeups, dumper, reading, failed, ticking, quiet>>

\* Faulty: a refresh that fails leaves no trace.
DecideSilently ==
    /\ loop = "deciding"
    /\ loop' = "waiting"
    /\ stale' = FALSE
    /\ graph' = IF failed THEN graph ELSE reading
    /\ UNCHANGED <<server, watch, wakeups, dumper, reading, failed, ticking, quiet>>

\* Faulty: the channel is drained after the graph was read.
DecideDraining ==
    /\ loop = "deciding"
    /\ loop' = "waiting"
    /\ wakeups' = 0
    /\ stale' = failed
    /\ graph' = IF failed THEN graph ELSE reading
    /\ UNCHANGED <<server, watch, dumper, reading, failed, ticking, quiet>>

\* refresh keeps what was read, or main marks what there is as stale.
Decide ==
    /\ loop = "deciding"
    /\ loop' = "waiting"
    /\ stale' = failed
    /\ graph' = IF failed THEN graph ELSE reading
    /\ UNCHANGED <<server, watch, wakeups, dumper, reading, failed, ticking, quiet>>

Calm ==
    /\ ~quiet
    /\ quiet' = TRUE
    /\ UNCHANGED <<server, watch, wakeups, refreshing, ticking>>

\* main reads the graph once before it starts anything; without a server it begins
\* with an empty graph that is stale.
Init ==
    /\ up \in BOOLEAN
    /\ objects \in [Ids -> Kinds \cup {None}]
    /\ \A i \in Ids : objects[i] \in IF ~up THEN {None}
                                     ELSE IF i \in Metadata THEN Settings
                                     ELSE Looks \cup {Client, None}
    /\ Free # {}
    /\ monitor = "pausing" /\ pipe = <<>> /\ relevant = {}
    /\ wakeups = 0
    /\ loop = "waiting" /\ dumper = None /\ failed = FALSE
    /\ reading = Shown /\ graph = Shown
    /\ stale = ~up
    /\ ticking \in BOOLEAN
    /\ quiet = FALSE

World ==
    \/ \E i \in Ids, kind \in Looks \cup {Client} : Appear(i, kind)
    \/ \E i \in Ids, kind \in Visible : Change(i, kind)
    \/ \E i \in Ids : Vanish(i)
    \/ ServerStops \/ ServerStarts \/ MonitorDies \/ Calm

Watching == MonitorStarts \/ MonitorReads \/ MonitorEnds
Following == Wake \/ Drain \/ PwDump \/ Decide

Next == World \/ Watching \/ Tick \/ Request \/ Following

Spec == Init /\ [][Next]_vars

\* The monitor's task and the main loop are always run; every command they wait for
\* has a timeout.  The fabric task posts an event every two seconds while it runs.
FairSpec == Spec /\ WF_vars(Watching) /\ WF_vars(Following) /\ WF_vars(Tick)

----------------------------------------------------------------------------
(* Properties. *)

\* Every variable holds what its type in the code, or the server, can hold.
TypeOK ==
    /\ objects \in [Ids -> Kinds \cup {None}]
    /\ up \in BOOLEAN /\ failed \in BOOLEAN /\ stale \in BOOLEAN
    /\ ticking \in BOOLEAN /\ quiet \in BOOLEAN
    /\ monitor \in {"pausing", "running", "ended"}
    /\ Len(pipe) <= MaxBatches
    /\ \A n \in 1..Len(pipe) : pipe[n] \in Batch
    /\ relevant \subseteq Ids
    /\ wakeups \in 0..Capacity
    /\ loop \in {"waiting", "settling", "reading", "deciding"}
    /\ dumper \in Ids \cup {None}
    /\ reading \in Pictures /\ graph \in Pictures

Relevant == {i \in Ids : objects[i] \in Looks}

\* Ids are handed out again, and removals are judged by id alone: once the monitor
\* has read everything, the ids it calls relevant are those that hold an object of a
\* relevant type now.
RelevantIsExact ==
    monitor = "running" /\ pipe = <<>>
        => relevant = Relevant

Announced(i) == \E n \in 1..Len(pipe) : i \in DOMAIN pipe[n]

Latest == IF loop = "deciding" THEN reading ELSE graph

\* No change of an object the monitor has announced is lost between the server and a
\* refresh, whatever is coalesced or dropped: where the graph, or the picture about to
\* become the graph, differs from the server, the difference is still in the pipe, an
\* event is in the channel, or a refresh is under way that has yet to look.  Only a
\* refresh that fails leaves it behind.
ChangesAreUnderWay ==
    monitor = "running" /\ wakeups = 0 /\ loop \notin {"settling", "reading"} /\ ~failed /\ ~stale
        => \A i \in relevant \cup Relevant : Shown[i] # Latest[i] => Announced(i)

\* The daemon's graph is a reading of the server, and only a reading replaces it.
Abstract == INSTANCE Mirror WITH source <- Shown, copy <- graph
ServesReadings == Abstract!Spec

\* Once the server runs and nothing changes, the graph comes to be what the server
\* has, and not to be called stale.  Without the fabric task's events there are three
\* exceptions: a refresh that failed is not tried again; it takes an object that a new
\* monitor can announce; and what the metadata says is only as new as the last change
\* of something else, because RELEVANT_TYPES lacks a type that a snapshot is made of.
GraphIsFollowed ==
    <>[](quiet /\ up /\ (ticking \/ Relevant # {})) =>
        <>[](IF ticking THEN graph = Shown /\ ~stale
             ELSE stale \/ \A i \in Ids \ Metadata : graph[i] = Shown[i])

\* The daemon does not feed its own loop: without the fabric task's events, it comes
\* to rest once nothing changes, although each refresh is itself a client.
ComesToRest ==
    (~ticking /\ <>[]quiet) => <>[](loop = "waiting" /\ wakeups = 0)

\* Whether id i will be called relevant when the monitor comes to batch n of the pipe,
\* and the batches that will wake the main loop.
RelevantAt(n, i) ==
    \/ i \in relevant /\ \A k \in 1..n - 1 : i \notin DOMAIN pipe[k]
    \/ \E k \in 1..n - 1 :
          /\ i \in DOMAIN pipe[k] /\ pipe[k][i] \in Looks
          /\ \A m \in k + 1..n - 1 : i \notin DOMAIN pipe[m]

WillWake(n) ==
    \E i \in DOMAIN pipe[n] : pipe[n][i] \in Looks \/ (pipe[n][i] = None /\ RelevantAt(n, i))

Waking == {n \in 1..Len(pipe) : WillWake(n)}

\* A refresh causes no other: neither the connection of its pw-dump nor the end of that
\* connection is a batch that will wake the loop, whatever its id was before, and
\* whatever the monitor has still to read.
OwnConnectionWakesNobody ==
    [][loop' # loop /\ loop \in {"settling", "reading"} => Waking' = Waking]_vars

\* A server that is gone is noticed, even though nothing announces it.
OutageIsNoticed ==
    (ticking /\ <>[](quiet /\ ~up)) => <>[]stale
=============================================================================
