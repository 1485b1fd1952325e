------------------------------ MODULE Devices ------------------------------
(***************************************************************************)
(* The devices of one host: what nixaudio calls them and which of them are *)
(* the defaults.  The names come from Graph::from_values; requests for a   *)
(* default, the part of refresh that enforces the remembered ones and the  *)
(* state they are remembered in work by those names, while the commands    *)
(* they run work by PipeWire's ids.                                        *)
(*                                                                         *)
(* A request and a refresh each hold the controller's write lock; PipeWire *)
(* does not, and changes between the picture of it and a command.          *)
(*                                                                         *)
(* External: PipeWire gives a node a serial of its own and an id that may  *)
(* have been another's; wpctl set-default makes the node with an id the    *)
(* default of that node's class; WirePlumber sees to it that there is a    *)
(* default where there is a node.                                          *)
(***************************************************************************)
EXTENDS Naturals

CONSTANTS
    Sinks, Sources, \* node.name of the nodes there can be
    Stem,           \* device and profile of each node
    NodeIds,        \* PipeWire's ids
    MaxSerial,      \* bound: the nodes that ever appear
    None

Nodes == Sinks \cup Sources
Stems == {Stem[n] : n \in Nodes}
Kinds == {"output", "input"}
NodesOf(k) == IF k = "output" THEN Sinks ELSE Sources

VARIABLES
    node,    \* PipeWire: the nodes there are
    serials, \* PipeWire: the serials given out
    actual,  \* PipeWire: the default sink and source
    graph,   \* Runtime::graph, the nodes it was made of
    reading, \* the graph of a refresh and the defaults it was read with
    stage,   \* where a refresh is: at the default output, at the input, or none is
    memory,  \* Runtime::state
    disk,    \* state.json
    picked,  \* history: the node the last request accepted for a default was for
    quiet    \* nobody asks for anything and nothing fails or changes any more

pipewire == <<node, serials, actual>>
runtime == <<graph, reading, stage, memory, disk>>
vars == <<pipewire, runtime, picked, quiet>>

Node == [id : NodeIds, serial : 1..MaxSerial]
Graph == [Nodes -> Node \cup {None}]
Defaults == [Kinds -> Nodes \cup {None}]
EmptyGraph == [n \in Nodes |-> None]
NoReading == [graph |-> EmptyGraph, actual |-> [k \in Kinds |-> None]]

\* An endpoint's id: the stem alone (serial 0), or the stem and the node's serial.
Name == [stem : Stems, serial : 0..MaxSerial]
State == [Kinds -> Name \cup {None}]

ASSUME DevicesAssumption ==
    /\ Sinks \cap Sources = {}
    /\ MaxSerial \in Nat
    /\ None \notin Nodes /\ None \notin Name
    /\ None \notin Node /\ None \notin [device : Nodes, node : Node]

----------------------------------------------------------------------------
(* Graph::from_values, on the nodes g. *)

In(g) == {n \in Nodes : g[n] # None}
Twins(g, n) == {m \in In(g) \ {n} : Stem[m] = Stem[n]}

\* Faulty: ids are taken for the order of creation.
NameById(g, n) ==
    [stem |-> Stem[n],
     serial |-> IF \E m \in Twins(g, n) : g[m].id < g[n].id THEN g[n].serial ELSE 0]

\* The oldest node of a stem has the plain name.
NameOf(g, n) ==
    [stem |-> Stem[n],
     serial |-> IF \E m \in Twins(g, n) : g[m].serial < g[n].serial THEN g[n].serial ELSE 0]

\* endpoint_nodes, which does not tell an output from an input.
Named(g, name) == {n \in In(g) : NameOf(g, n) = name}

\* default_output and default_input: the remembered one if it is there, else
\* PipeWire's, which has one whenever there is a node.
Default(g, k) ==
    LET remembered == Named(g, memory[k]) \cap NodesOf(k)
    IN  IF remembered = {} THEN actual[k] ELSE CHOOSE n \in remembered : TRUE

----------------------------------------------------------------------------
(* wpctl set-default id, and requests. *)

WithId(id) == {n \in In(node) : node[n].id = id}

Selected(n) == actual' = [k \in Kinds |-> IF n \in NodesOf(k) THEN n ELSE actual[k]]

\* Faulty: what is named need not be of the kind that is asked for.
SetDefaultOfAnyKind(k, n) ==
    /\ ~quiet /\ stage = "none"
    /\ n \in In(graph)
    /\ \E found \in WithId(graph[n].id) : Selected(found)
    /\ memory' = [memory EXCEPT ![k] = NameOf(graph, n)]
    /\ disk' = memory'
    /\ picked' = [picked EXCEPT ![k] = [device |-> n, node |-> graph[n]]]
    /\ UNCHANGED <<node, serials, graph, reading, stage, quiet>>

\* Controller::set_default, for a node the snapshot shows.  What is remembered is
\* its name, once wpctl has found a node with the id it had; when that cannot be
\* saved the request is refused, but memory has it.
SetDefault(k, n) ==
    /\ ~quiet /\ stage = "none"
    /\ n \in NodesOf(k) \cap In(graph)
    /\ \E found \in WithId(graph[n].id) : Selected(found)
    /\ memory' = [memory EXCEPT ![k] = NameOf(graph, n)]
    /\ \E saved \in BOOLEAN :
          /\ disk' = IF saved THEN memory' ELSE disk
          /\ picked' = [picked EXCEPT ![k] =
                IF saved THEN [device |-> n, node |-> graph[n]] ELSE None]
    /\ UNCHANGED <<node, serials, graph, reading, stage, quiet>>

----------------------------------------------------------------------------
(* refresh. *)

Read ==
    /\ stage = "none"
    /\ reading' = [graph |-> node, actual |-> actual]
    /\ stage' = "output"
    /\ UNCHANGED <<pipewire, graph, memory, disk, picked, quiet>>

Keep == graph' = reading.graph /\ reading' = NoReading /\ stage' = "none"

After(k) == IF k = "output" THEN stage' = "input" /\ UNCHANGED <<graph, reading>> ELSE Keep

\* Faulty: a default is enforced only where there is none.
ReconcileNone(k) ==
    /\ stage = k
    /\ LET wanted == IF reading.actual[k] = None THEN Named(reading.graph, memory[k]) ELSE {} IN
       \/ wanted = {} /\ After(k) /\ UNCHANGED actual
       \/ \E n \in wanted : \E found \in WithId(reading.graph[n].id) : Selected(found) /\ After(k)
    /\ UNCHANGED <<node, serials, memory, disk, picked, quiet>>

\* reconcile_defaults: a remembered default that is in the picture and is not in
\* force there is selected, by the id it has there.  A command that fails ends it,
\* and the input's turn is lost with the output's.
Reconcile(k) ==
    /\ stage = k
    /\ LET wanted == Named(reading.graph, memory[k]) \ {reading.actual[k]}
           found == UNION {WithId(reading.graph[n].id) : n \in wanted} IN
       \/ wanted = {} /\ After(k) /\ UNCHANGED actual
       \/ \E n \in found : Selected(n) /\ After(k)
       \/ wanted # {} /\ (quiet => found = {}) /\ Keep /\ UNCHANGED actual
    /\ UNCHANGED <<node, serials, memory, disk, picked, quiet>>

Refresh == Read \/ \E k \in Kinds : Reconcile(k)

\* The daemon ends and is started again.
Restart ==
    /\ ~quiet
    /\ memory' = disk
    /\ graph' \in {node, EmptyGraph}
    /\ reading' = NoReading /\ stage' = "none"
    /\ UNCHANGED <<pipewire, disk, picked, quiet>>

----------------------------------------------------------------------------
(* PipeWire and WirePlumber. *)

Around == UNCHANGED <<runtime, picked, quiet>>

\* A device's node appears, and may be elected.
Plugged(n) ==
    /\ ~quiet /\ serials < MaxSerial
    /\ n \notin In(node)
    /\ \E id \in NodeIds :
          /\ WithId(id) = {}
          /\ node' = [node EXCEPT ![n] = [id |-> id, serial |-> serials + 1]]
    /\ serials' = serials + 1
    /\ \/ Selected(n)
       \/ (\A k \in Kinds : n \in NodesOf(k) => actual[k] # None) /\ UNCHANGED actual
    /\ Around

\* It goes, and another is elected.
Unplugged(n) ==
    /\ ~quiet
    /\ n \in In(node)
    /\ node' = [node EXCEPT ![n] = None]
    /\ actual' \in Defaults
    /\ \A k \in Kinds :
          IF actual[k] # n THEN actual'[k] = actual[k]
          ELSE LET rest == In(node') \cap NodesOf(k)
               IN  actual'[k] \in IF rest = {} THEN {None} ELSE rest
    /\ UNCHANGED serials
    /\ Around

\* WirePlumber or the desktop's mixer selects another default.
Elected(n) ==
    /\ ~quiet
    /\ n \in In(node)
    /\ Selected(n)
    /\ UNCHANGED <<node, serials>>
    /\ Around

Calm ==
    /\ ~quiet
    /\ quiet' = TRUE
    /\ UNCHANGED <<pipewire, runtime, picked>>

Init ==
    /\ node = [n \in Nodes |-> None]
    /\ serials = 0
    /\ actual = [k \in Kinds |-> None]
    /\ graph = EmptyGraph /\ reading = NoReading
    /\ stage = "none"
    /\ memory = [k \in Kinds |-> None] /\ disk = memory
    /\ picked = [k \in Kinds |-> None]
    /\ quiet = FALSE

Next ==
    \/ \E k \in Kinds, n \in Nodes : SetDefault(k, n)
    \/ Refresh
    \/ Restart
    \/ \E n \in Nodes : Plugged(n) \/ Unplugged(n) \/ Elected(n)
    \/ Calm

Spec == Init /\ [][Next]_vars

\* The fabric task posts an event every two seconds, and every command of a refresh
\* is killed after six.
FairSpec == Spec /\ WF_vars(Refresh)

----------------------------------------------------------------------------
(* Properties. *)

\* Every variable holds what its type in the code, or PipeWire, can hold, and a
\* default that was accepted is one of its kind.
TypeOK ==
    /\ node \in Graph
    /\ serials \in 0..MaxSerial
    /\ actual \in Defaults
    /\ graph \in Graph /\ reading \in [graph : Graph, actual : Defaults]
    /\ stage \in Kinds \cup {"none"}
    /\ memory \in State /\ disk \in State
    /\ picked \in [Kinds -> [device : Nodes, node : Node] \cup {None}]
    /\ \A k \in Kinds : picked[k] # None => picked[k].device \in NodesOf(k)
    /\ quiet \in BOOLEAN

\* The older device keeps the plain name, every time: a default that was chosen by
\* its plain name means the device it was chosen for, for as long as that device is
\* not unplugged, whatever twins of it come and go.
PlainChoiceIsUnderstood ==
    \A k \in Kinds :
        picked[k] # None /\ memory[k].serial = 0 /\ node[picked[k].device] = picked[k].node
            => NameOf(node, picked[k].device) = memory[k]

\* Once nothing changes, the default the snapshot shows is the one PipeWire uses, and
\* a remembered default that is there is both: whatever ids the requests and the
\* refreshes in between have gone by, and whichever of their commands have failed.
DefaultsAreInForce ==
    <>[]quiet => <>[](graph = node /\ \A k \in Kinds : actual[k] = Default(node, k))

\* README: SetDefaultInput remembers the local default microphone.  A microphone that
\* was chosen is the default input when it is there.
MicrophoneIsRemembered ==
    <>[]quiet =>
        <>[](picked["input"] # None /\ picked["input"].device \in In(node)
                => actual["input"] = picked["input"].device)
=============================================================================
