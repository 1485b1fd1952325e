------------------------------ MODULE Routing ------------------------------
(***************************************************************************)
(* Where streams play, and who decides it: nixaudiod's Controller (route,  *)
(* clear_route, set_default), its refresh loop, the operations of Graph    *)
(* they use, and the persisted State.                                      *)
(*                                                                         *)
(* A request and a refresh each hold the controller's write lock, so they  *)
(* exclude one another; each works from a picture of PipeWire taken some   *)
(* time ago, runs pw-link and wpctl against PipeWire as it is now, and any *)
(* of those commands can fail half way.  A request works from the picture  *)
(* of the last refresh, which was taken before that refresh moved links.   *)
(*                                                                         *)
(* External and modelled by what the code relies on: PipeWire (ports come  *)
(* and go, links die with their ports, pw-link refuses to remove a link    *)
(* that is not there and to make one that is), its session manager and the *)
(* user's mixer (they place streams as they like), and the fabric task     *)
(* (PeerSupervision): peers answer, fall silent, and have JackTrip ports.  *)
(***************************************************************************)
EXTENDS FiniteSets

CONSTANTS
    Streams,   \* streams that may be playing
    IntentOf,  \* the intent key of each stream (application and role)
    Local,     \* outputs of this host
    Remote,    \* outputs of configured peers, each its own peer
    Channels,  \* channels of a stream, one link each to a target
    None

Endpoints == Local \cup Remote
Link == Endpoints \X Channels
Intents == {IntentOf[s] : s \in Streams}
LinksTo(targets) == targets \X Channels
TargetsOf(ls) == {l[1] : l \in ls}

ASSUME RoutingAssumption ==
    /\ Local \cap Remote = {}
    /\ None \notin Endpoints
    /\ Channels # {}
    /\ IntentOf \in [Streams -> Intents]

VARIABLES
    playing,  \* PipeWire: the streams there are
    links,    \* PipeWire: the links of each stream
    ports,    \* PipeWire: the endpoints that have ports now
    sink,     \* PipeWire: the default sink, or None
    fabric,   \* what the fabric task last said of each remote endpoint's peer
    memory,   \* Runtime::state
    disk,     \* state.json
    graph,    \* Runtime::graph, the snapshot the last refresh took
    asked,    \* history: the last request accepted for each intent
    doubtful, \* history: intents with a refused request since then
    quiet     \* nobody asks for anything and nothing fails or changes any more

pipewire == <<playing, links, ports, sink>>
history == <<asked, doubtful>>
vars == <<pipewire, fabric, memory, disk, graph, history, quiet>>

\* routes: the pinned targets of an intent, {} when there is no entry.
State == [routes : [Intents -> SUBSET Endpoints], default : Endpoints \cup {None}]
Graph == [streams : SUBSET Streams, links : [Streams -> SUBSET Link],
          ports : SUBSET Endpoints, usable : SUBSET Endpoints,
          default : Endpoints \cup {None}]

----------------------------------------------------------------------------
(* Graph::inspect. *)

\* Endpoints with an entry in endpoint_ports: local nodes, and the slices of
\* peers the fabric has a record of.
Seen == ports \cap (Local \cup {r \in Remote : fabric[r] # "unknown"})

\* Endpoint::available and is_usable: a remote endpoint needs its ports and a
\* peer that answers.
Answering == {r \in Remote : fabric[r] = "answering"}
Usable == Seen \cap (Local \cup Answering)

\* default_output: the remembered one while it is available, else PipeWire's,
\* else any local one.
DefaultOutput ==
    CASE memory.default \in Usable -> memory.default
      [] memory.default \notin Usable /\ sink \in Seen -> sink
      [] memory.default \notin Usable /\ sink \notin Seen /\ Local \cap Seen # {}
            -> CHOOSE e \in Local \cap Seen : TRUE
      [] OTHER -> None

Inspected ==
    [streams |-> playing,
     links |-> [s \in Streams |-> {l \in links[s] : l[1] \in Seen}],
     ports |-> Seen,
     usable |-> Usable,
     default |-> DefaultOutput]

EmptyGraph ==
    [streams |-> {}, links |-> [s \in Streams |-> {}], ports |-> {},
     usable |-> {}, default |-> None]

----------------------------------------------------------------------------
(* Graph's decisions and commands, on a snapshot g. *)

AsSet(e) == {e} \ {None}

\* Faulty: a target carries sound for as long as it has ports.
ResolveByPorts(g, wanted) ==
    IF wanted \cap g.ports # {} THEN wanted \cap g.ports ELSE AsSet(g.default)

\* resolve: the wanted targets that can carry sound, or the default output.
Resolve(g, wanted) ==
    IF wanted \cap g.usable # {} THEN wanted \cap g.usable ELSE AsSet(g.default)

IsAddressable(g, e) == e \in g.ports \/ e \in Remote

\* Faulty: the new links are made beside the old ones.
AppliedBeside(g, s, targets) ==
    {[ok |-> TRUE, links |-> links[s] \cup (LinksTo(targets) \cap LinksTo(ports))]}

\* What apply_route can leave behind: it first removes every link the snapshot
\* shows from the stream to an endpoint, then makes one link per channel and
\* target, and stops at the first command that fails.
Applied(g, s, targets) ==
    LET known == g.links[s]
        rest == links[s] \ known
        wanted == LinksTo(targets)
        removable == known \subseteq links[s]
        linkable == wanted \cap (LinksTo(ports) \ rest)
    IN  {[ok |-> TRUE, links |-> rest \cup wanted] :
             x \in IF removable /\ linkable = wanted THEN {1} ELSE {}}
        \cup
        {[ok |-> FALSE, links |-> links[s] \ gone] :
             gone \in IF removable /\ quiet THEN {}
                      ELSE SUBSET (known \cap links[s]) \ {known}}
        \cup
        {[ok |-> FALSE, links |-> rest \cup made] :
             made \in IF ~removable \/ (linkable = wanted /\ quiet) THEN {}
                      ELSE SUBSET linkable \ {wanted}}

\* State::save writes everything or, when it fails, nothing.
Saved(ok, state) == IF ok THEN state ELSE disk

----------------------------------------------------------------------------
(* Requests on the session bus. *)

Answer(intent, ok, targets) ==
    /\ asked' = IF ok THEN [asked EXCEPT ![intent] = targets] ELSE asked
    /\ doubtful' = IF ok THEN doubtful \ {intent} ELSE doubtful \cup {intent}

\* Faulty: remembers where the stream goes now instead of what was asked for.
RouteRememberingFallback(s, targets) ==
    /\ ~quiet
    /\ s \in graph.streams
    /\ targets # {}
    /\ \A e \in targets : IsAddressable(graph, e)
    /\ memory' = [memory EXCEPT !.routes[IntentOf[s]] = Resolve(graph, targets)]
    /\ \E out \in Applied(graph, s, Resolve(graph, targets)) :
          /\ disk' = memory'
          /\ links' = [links EXCEPT ![s] = out.links]
          /\ Answer(IntentOf[s], out.ok, targets)
    /\ UNCHANGED <<playing, ports, sink, fabric, graph, quiet>>

\* Controller::route: remember, save, then try to deliver.
Route(s, targets) ==
    /\ ~quiet
    /\ s \in graph.streams
    /\ targets # {}
    /\ \A e \in targets : IsAddressable(graph, e)
    /\ memory' = [memory EXCEPT !.routes[IntentOf[s]] = targets]
    /\ \/ \E out \in Applied(graph, s, Resolve(graph, targets)) :
             /\ disk' = memory'
             /\ links' = [links EXCEPT ![s] = out.links]
             /\ Answer(IntentOf[s], out.ok, targets)
       \/ /\ UNCHANGED <<disk, links>>
          /\ Answer(IntentOf[s], FALSE, targets)
    /\ UNCHANGED <<playing, ports, sink, fabric, graph, quiet>>

\* Controller::clear_route: forget, try to deliver, and save only after that.
ClearRoute(s) ==
    /\ ~quiet
    /\ s \in graph.streams
    /\ memory' = [memory EXCEPT !.routes[IntentOf[s]] = {}]
    /\ \/ /\ graph.default # None
          /\ \E out \in Applied(graph, s, {graph.default}), saved \in BOOLEAN :
                /\ links' = [links EXCEPT ![s] = out.links]
                /\ disk' = Saved(out.ok /\ saved, memory')
                /\ Answer(IntentOf[s], out.ok /\ saved, {})
       \/ /\ graph.default = None
          /\ UNCHANGED <<links, disk>>
          /\ Answer(IntentOf[s], FALSE, {})
    /\ UNCHANGED <<playing, ports, sink, fabric, graph, quiet>>

\* Faulty: a remote output is handed to wpctl as well.
SetDefaultAnywhere(e) ==
    /\ ~quiet
    /\ e \in graph.usable
    /\ sink' = e
    /\ memory' = [memory EXCEPT !.default = e]
    /\ \E saved \in BOOLEAN : disk' = Saved(saved, memory')
    /\ UNCHANGED <<playing, links, ports, fabric, graph, history, quiet>>

\* Controller::set_default for an output: wpctl for a local one, nothing to run
\* for a remote one; a failure before the assignment changes nothing.
SetDefault(e) ==
    /\ ~quiet
    /\ e \in graph.usable
    /\ e \in Local => e \in ports
    /\ sink' = IF e \in Local THEN e ELSE sink
    /\ memory' = [memory EXCEPT !.default = e]
    /\ \E saved \in BOOLEAN : disk' = Saved(saved, memory')
    /\ UNCHANGED <<playing, links, ports, fabric, graph, history, quiet>>

----------------------------------------------------------------------------
(* refresh. *)

\* Faulty: an unpinned stream is moved to whatever the default is.
PlacementOfEveryStream(g, s) ==
    LET pinned == memory.routes[IntentOf[s]]
    IN  IF pinned # {} THEN Resolve(g, pinned) ELSE AsSet(g.default)

\* Where refresh wants a stream, {} when the stream is not its to place: pinned
\* targets, or a remote default, which no session manager can reach.
Placement(g, s) ==
    LET pinned == memory.routes[IntentOf[s]]
    IN  IF pinned # {} THEN Resolve(g, pinned)
        ELSE IF g.default \in Remote THEN Resolve(g, {g.default})
        ELSE {}

\* The links refresh can leave a stream with: it moves the stream only when it
\* has a place for it and the stream is not there.
Reconciled(g, s) ==
    LET effective == Placement(g, s) IN
    IF s \notin g.streams \/ effective = {} \/ effective = TargetsOf(g.links[s])
    THEN {links[s]}
    ELSE {out.links : out \in Applied(g, s, effective)}

\* One refresh whose pw-dump succeeds.  What it keeps is the snapshot it began
\* with, not what it made of the links.
Refresh ==
    /\ graph' = Inspected
    /\ \/ /\ memory.default \in Local \cap graph'.ports
          /\ sink' = memory.default
       \/ /\ memory.default \notin Local \cap graph'.ports \/ ~quiet
          /\ UNCHANGED sink
    /\ links' \in [Streams -> SUBSET Link]
    /\ \A s \in Streams : links'[s] \in Reconciled(graph', s)
    /\ UNCHANGED <<playing, ports, fabric, memory, disk, history, quiet>>

----------------------------------------------------------------------------
(* The daemon ends and is started again: its JackTrip processes end with it, *)
(* what it knew of peers is lost, and state.json is read back.               *)

WithoutPorts(gone) ==
    /\ ports' = ports \ gone
    /\ links' = [s \in Streams |-> {l \in links[s] : l[1] \notin gone}]

Restart ==
    /\ ~quiet
    /\ WithoutPorts(Remote)
    /\ fabric' = [r \in Remote |-> "unknown"]
    /\ memory' = disk
    /\ UNCHANGED <<playing, sink, disk, history, quiet>>
    /\ graph' \in {Inspected', EmptyGraph}

----------------------------------------------------------------------------
(* What happens around the daemon. *)

Around == UNCHANGED <<memory, disk, graph, history, quiet>>

\* The fabric task hands over a new word on a peer.
PeerTurns(r) ==
    /\ ~quiet
    /\ \/ fabric[r] # "answering" /\ fabric' = [fabric EXCEPT ![r] = "answering"]
       \/ fabric[r] = "answering" /\ fabric' = [fabric EXCEPT ![r] = "away"]
    /\ UNCHANGED pipewire
    /\ Around

\* A local device is plugged in, or the JackTrip process of a peer that answers
\* registers its ports.
PortsAppear(e) ==
    /\ ~quiet
    /\ e \notin ports
    /\ e \in Local \cup Answering
    /\ ports' = ports \cup {e}
    /\ UNCHANGED <<playing, links, sink, fabric>>
    /\ Around

\* A device is unplugged or a JackTrip process ends: its links go with it, and
\* PipeWire may elect another default sink.
PortsVanish(e) ==
    /\ ~quiet
    /\ e \in ports
    /\ WithoutPorts({e})
    /\ \/ sink # e /\ UNCHANGED sink
       \/ sink = e /\ sink' \in {None} \cup (Local \cap ports')
    /\ UNCHANGED <<playing, fabric>>
    /\ Around

\* PipeWire's session manager or the user's mixer elects a default sink.
SinkElected ==
    /\ ~quiet
    /\ sink' \in Local \cap ports
    /\ UNCHANGED <<playing, links, ports, fabric>>
    /\ Around

\* They place a stream on a local output, or take it off every one.
Moved(s) ==
    /\ ~quiet
    /\ s \in playing
    /\ \E targets \in {{}} \cup {{e} : e \in Local \cap ports} :
          links' = [links EXCEPT ![s] = LinksTo(targets)]
    /\ UNCHANGED <<playing, ports, sink, fabric>>
    /\ Around

\* A program starts or stops playing.
StreamStarts(s) ==
    /\ ~quiet
    /\ s \notin playing
    /\ playing' = playing \cup {s}
    /\ links' = [links EXCEPT ![s] = LinksTo(AsSet(sink))]
    /\ UNCHANGED <<ports, sink, fabric>>
    /\ Around

StreamEnds(s) ==
    /\ ~quiet
    /\ s \in playing
    /\ playing' = playing \ {s}
    /\ links' = [links EXCEPT ![s] = {}]
    /\ UNCHANGED <<ports, sink, fabric>>
    /\ Around

Calm ==
    /\ ~quiet
    /\ quiet' = TRUE
    /\ UNCHANGED <<pipewire, fabric, memory, disk, graph, history>>

Init ==
    /\ playing \in SUBSET Streams
    /\ ports \in SUBSET Local
    /\ sink \in {None} \cup ports
    /\ links = [s \in Streams |-> {}]
    /\ fabric = [r \in Remote |-> "unknown"]
    /\ disk = [routes |-> [i \in Intents |-> {}], default |-> None]
    /\ memory = disk
    /\ graph \in {Inspected, EmptyGraph}
    /\ asked = [i \in Intents |-> {}]
    /\ doubtful = {}
    /\ quiet = FALSE

Requests ==
    \/ \E s \in Streams : ClearRoute(s) \/ \E targets \in SUBSET Endpoints : Route(s, targets)
    \/ \E e \in Endpoints : SetDefault(e)

Surroundings ==
    \/ \E r \in Remote : PeerTurns(r)
    \/ \E e \in Endpoints : PortsAppear(e) \/ PortsVanish(e)
    \/ \E s \in Streams : Moved(s) \/ StreamStarts(s) \/ StreamEnds(s)
    \/ SinkElected
    \/ Calm

Next == Requests \/ Refresh \/ Restart \/ Surroundings

Spec == Init /\ [][Next]_vars

\* The fabric task posts an event every two seconds, so refreshes never end.
FairSpec == Spec /\ WF_vars(Refresh)

----------------------------------------------------------------------------
(* Properties. *)

\* Every variable holds what its type in the code, or PipeWire, can hold.
TypeOK ==
    /\ playing \subseteq Streams
    /\ links \in [Streams -> SUBSET Link]
    /\ ports \subseteq Endpoints
    /\ sink \in Local \cup {None}
    /\ fabric \in [Remote -> {"unknown", "answering", "away"}]
    /\ memory \in State
    /\ disk \in State
    /\ graph \in Graph
    /\ asked \in [Intents -> SUBSET Endpoints]
    /\ doubtful \subseteq Intents
    /\ quiet \in BOOLEAN

\* Intent is durable: whatever was accepted last for an intent is what a restart
\* would read back, unless a later request for it was refused; no fallback,
\* reclaim, restart or request for another intent rewrites it.
AcceptedIntentIsDurable ==
    \A i \in Intents \ doubtful : disk.routes[i] = asked[i] /\ memory.routes[i] = asked[i]

Pinned(s) == memory.routes[IntentOf[s]]

\* PipeWire owns the streams nobody asked nixaudio about: unless a remote default
\* has to be carried, no refresh ever moves one, so that a stream moved by hand
\* stays where it was put.
UnpinnedLeftAlone ==
    [][\A s \in Streams :
          quiet /\ Pinned(s) = {} /\ DefaultOutput \notin Remote
              => links'[s] = links[s]]_vars

\* Where sound should be: on the pinned targets that can carry it, else on the
\* default output, and nowhere else.  A target counts from its first channel on, for
\* the code as for this.
AtItsPlace(s) ==
    LET reachable == Pinned(s) \cap Usable IN
    TargetsOf(links[s]) = IF reachable # {} THEN reachable ELSE AsSet(DefaultOutput)

\* The streams nixaudio has a place for now.
HasPlace(s) ==
    \/ Pinned(s) \cap Usable # {}
    \/ Pinned(s) # {} /\ DefaultOutput # None
    \/ DefaultOutput \in Remote

\* One refresh is enough: once the world keeps still, it puts every stream it has a
\* place for exactly there, whatever links it finds, and the next ones leave it
\* there.  A stream it moves is linked by every channel, and by nothing else; one that
\* is in place by some of them only, after a pw-link that failed, stays so.  A refresh
\* that moved a stream that is in place would interrupt it every two seconds; one that
\* only approached its place might never reach it.
OneRefreshSettles ==
    [][quiet => \A s \in playing :
          HasPlace(s) =>
              /\ AtItsPlace(s)'
              /\ links'[s] = IF AtItsPlace(s) THEN links[s]
                             ELSE LinksTo(TargetsOf(links'[s]))]_vars

\* Fallback and reclaim: once the world keeps still, every pinned stream comes to
\* play on exactly those of its targets that can be reached, or on the default
\* output when none can, a remote default carries every stream nobody pinned, and
\* all stay there.
StreamsSettle ==
    <>[]quiet => <>[](\A s \in playing : HasPlace(s) => AtItsPlace(s))

\* README: a remembered default output follows the same rule as a route.  While
\* its peer is away, no unpinned stream is left playing on it alone when there is
\* something audible here.
DefaultFallsBack ==
    <>[]quiet =>
        <>[](\A s \in playing :
                Pinned(s) = {} /\ memory.default \in Remote \ Usable /\ DefaultOutput # None
                    => TargetsOf(links[s]) # {memory.default})
=============================================================================
