--------------------------- MODULE Routing_proofs ---------------------------
(***************************************************************************)
(* Routing, for any streams, outputs and channels: types, the durability   *)
(* of accepted intent, what refresh leaves alone, and that one refresh is  *)
(* enough to put the rest in place.                                        *)
(*                                                                         *)
(* Durability needs its own types only: it is inductive once the routes    *)
(* are known to be a function, since whatever breaks memory and disk apart *)
(* also refuses the request.  That one refresh is enough needs InPipeWire: *)
(* a link outside the snapshot would outlive the removal of the others.    *)
(***************************************************************************)
EXTENDS Routing, TLAPS

IInv == TypeOK /\ AcceptedIntentIsDurable

----------------------------------------------------------------------------
(* What Graph's operators return. *)

\* What is seen, and the default of the graph, are endpoints.
LEMMA DefaultType ==
    ASSUME TypeOK
    PROVE  Seen \subseteq Endpoints /\ Usable \subseteq Endpoints
           /\ DefaultOutput \in Endpoints \cup {None}
<1>1. Seen \subseteq Endpoints /\ Usable \subseteq Seen
  BY DEF TypeOK, Seen, Usable
<1>2. Local \cap Seen # {} => (CHOOSE e \in Local \cap Seen : TRUE) \in Endpoints
  BY DEF Endpoints
<1>3. memory.default \in Endpoints \cup {None} /\ sink \in Endpoints \cup {None}
  BY DEF TypeOK, State, Endpoints
<1> QED
  BY <1>1, <1>2, <1>3 DEF DefaultOutput

\* A snapshot is a graph.
LEMMA InspectedType ==
    ASSUME TypeOK
    PROVE  Inspected \in Graph /\ EmptyGraph \in Graph
<1>1. [s \in Streams |-> {l \in links[s] : l[1] \in Seen}] \in [Streams -> SUBSET Link]
  BY DEF TypeOK
<1>2. playing \in SUBSET Streams
  BY DEF TypeOK
<1> QED
  BY <1>1, <1>2, DefaultType DEF Inspected, EmptyGraph, Graph

\* A stream is wanted on endpoints only.
LEMMA ResolveType ==
    ASSUME NEW g \in Graph, NEW wanted \in SUBSET Endpoints
    PROVE  Resolve(g, wanted) \in SUBSET Endpoints
BY DEF Resolve, AsSet, Graph

\* apply_route leaves links to endpoints, whatever fails.
LEMMA AppliedType ==
    ASSUME TypeOK, NEW g \in Graph, NEW s \in Streams,
           NEW targets \in SUBSET Endpoints, NEW out \in Applied(g, s, targets)
    PROVE  out.links \in SUBSET Link /\ out.ok \in BOOLEAN
<1> DEFINE known == g.links[s]
           rest == links[s] \ known
           wanted == LinksTo(targets)
           linkable == wanted \cap (LinksTo(ports) \ rest)
<1>1. links[s] \subseteq Link /\ wanted \subseteq Link
  BY DEF TypeOK, LinksTo, Link
<1>2. \/ out = [ok |-> TRUE, links |-> rest \cup wanted]
      \/ \E gone \in SUBSET known : out = [ok |-> FALSE, links |-> links[s] \ gone]
      \/ \E made \in SUBSET linkable : out = [ok |-> FALSE, links |-> rest \cup made]
  BY DEF Applied
<1>3. linkable \subseteq Link /\ rest \subseteq Link
  BY <1>1
<1> HIDE DEF known, rest, wanted, linkable
<1>4. CASE out = [ok |-> TRUE, links |-> rest \cup wanted]
  <2>1. out.ok = TRUE /\ out.links = rest \cup wanted
    BY <1>4
  <2> QED
    BY <1>1, <1>3, <2>1, Zenon
<1>5. ASSUME NEW gone \in SUBSET known, out = [ok |-> FALSE, links |-> links[s] \ gone]
      PROVE  out.links \in SUBSET Link /\ out.ok \in BOOLEAN
  <2>1. out.ok = FALSE /\ out.links = links[s] \ gone
    BY <1>5
  <2> QED
    BY <1>1, <2>1, Zenon
<1>6. ASSUME NEW made \in SUBSET linkable, out = [ok |-> FALSE, links |-> rest \cup made]
      PROVE  out.links \in SUBSET Link /\ out.ok \in BOOLEAN
  <2>1. out.ok = FALSE /\ out.links = rest \cup made
    BY <1>6
  <2> QED
    BY <1>3, <2>1, Zenon
<1> QED
  BY <1>2, <1>4, <1>5, <1>6

\* The links a refresh can leave a stream with are links.
LEMMA ReconciledType ==
    ASSUME TypeOK, NEW g \in Graph, NEW s \in Streams, NEW ls \in Reconciled(g, s)
    PROVE  ls \in SUBSET Link
<1>1. IntentOf[s] \in Intents
  BY DEF Intents
<1>2. memory.routes[IntentOf[s]] \in SUBSET Endpoints
  BY <1>1 DEF TypeOK, State
<1>3. Placement(g, s) \in SUBSET Endpoints
  <2>1. g.default \in Remote => {g.default} \in SUBSET Endpoints
    BY DEF Endpoints
  <2> QED
    BY <1>2, <2>1, ResolveType DEF Placement
<1>4. CASE ls = links[s]
  BY <1>4 DEF TypeOK
<1>5. CASE \E out \in Applied(g, s, Placement(g, s)) : ls = out.links
  BY <1>3, <1>5, AppliedType
<1> QED
  BY <1>4, <1>5 DEF Reconciled

----------------------------------------------------------------------------
(* The steps. *)

\* Nothing is asked, seen or linked at first.
LEMMA InitIInv == Init => IInv
<1> SUFFICES ASSUME Init PROVE IInv
  OBVIOUS
<1>1. disk \in State /\ memory = disk
  BY DEF Init, State
<1>2. /\ playing \subseteq Streams /\ links \in [Streams -> SUBSET Link]
      /\ ports \subseteq Endpoints /\ sink \in Local \cup {None}
      /\ fabric \in [Remote -> {"unknown", "answering", "away"}]
      /\ asked \in [Intents -> SUBSET Endpoints]
      /\ doubtful \subseteq Intents /\ quiet \in BOOLEAN
  BY DEF Init, Endpoints
<1>3. graph \in Graph
  <2>1. Seen \subseteq Endpoints /\ Usable \subseteq Seen
    BY <1>2 DEF Seen, Usable
  <2>2. DefaultOutput \in Endpoints \cup {None}
    <3>1. Local \cap Seen # {} => (CHOOSE e \in Local \cap Seen : TRUE) \in Endpoints
      BY DEF Endpoints
    <3> QED
      BY <1>1, <1>2, <2>1, <3>1 DEF DefaultOutput, State, Endpoints
  <2>3. [s \in Streams |-> {l \in links[s] : l[1] \in Seen}] \in [Streams -> SUBSET Link]
    BY <1>2
  <2>4. Inspected \in Graph /\ EmptyGraph \in Graph
    BY <1>2, <2>1, <2>2, <2>3 DEF Inspected, EmptyGraph, Graph
  <2> QED
    BY <2>4 DEF Init
<1>4. AcceptedIntentIsDurable
  BY DEF Init, AcceptedIntentIsDurable
<1> QED
  BY <1>1, <1>2, <1>3, <1>4 DEF IInv, TypeOK

\* A route is remembered and saved before it is delivered.
LEMMA RouteIInv ==
    ASSUME IInv, NEW s \in Streams, NEW targets \in SUBSET Endpoints, Route(s, targets)
    PROVE  IInv'
<1>1. IntentOf[s] \in Intents
  BY DEF Intents
<1>2. /\ memory' \in State
      /\ memory'.routes = [memory.routes EXCEPT ![IntentOf[s]] = targets]
  BY <1>1 DEF Route, IInv, TypeOK, State
<1>3. Resolve(graph, targets) \in SUBSET Endpoints
  BY ResolveType DEF IInv, TypeOK
<1>4. PICK ok \in BOOLEAN, ls \in SUBSET Link :
         /\ Answer(IntentOf[s], ok, targets)
         /\ ok => disk' = memory'
         /\ disk' \in {disk, memory'}
         /\ links' = [links EXCEPT ![s] = ls]
  <2>1. CASE UNCHANGED <<disk, links>> /\ Answer(IntentOf[s], FALSE, targets)
    <3>1. links[s] \in SUBSET Link /\ links' = [links EXCEPT ![s] = links[s]]
      BY <2>1 DEF IInv, TypeOK
    <3> QED
      BY <2>1, <3>1
  <2>2. ASSUME NEW out \in Applied(graph, s, Resolve(graph, targets)),
               disk' = memory', links' = [links EXCEPT ![s] = out.links],
               Answer(IntentOf[s], out.ok, targets)
        PROVE  \E ok \in BOOLEAN, ls \in SUBSET Link :
                  /\ Answer(IntentOf[s], ok, targets)
                  /\ ok => disk' = memory'
                  /\ disk' \in {disk, memory'}
                  /\ links' = [links EXCEPT ![s] = ls]
    <3>1. out.links \in SUBSET Link /\ out.ok \in BOOLEAN
      BY <1>3, AppliedType DEF IInv, TypeOK
    <3> QED
      BY <2>2, <3>1
  <2> QED
    BY <2>1, <2>2 DEF Route
<1>5. links' \in [Streams -> SUBSET Link]
  BY <1>4 DEF IInv, TypeOK
<1>6. asked' \in [Intents -> SUBSET Endpoints] /\ doubtful' \subseteq Intents
  BY <1>1, <1>4 DEF Answer, IInv, TypeOK
<1>7. TypeOK'
  BY <1>2, <1>4, <1>5, <1>6 DEF Route, IInv, TypeOK
<1>8. AcceptedIntentIsDurable'
  <2> SUFFICES ASSUME NEW i \in Intents, i \notin doubtful'
               PROVE  disk'.routes[i] = asked'[i] /\ memory'.routes[i] = asked'[i]
    BY DEF AcceptedIntentIsDurable
  <2>1. CASE i = IntentOf[s]
    BY <1>1, <1>2, <1>4, <2>1 DEF Answer, IInv, TypeOK, State
  <2>2. CASE i # IntentOf[s]
    <3>1. i \notin doubtful /\ asked'[i] = asked[i]
      BY <1>1, <1>4, <2>2 DEF Answer, IInv, TypeOK
    <3>2. memory'.routes[i] = memory.routes[i]
      BY <1>2, <2>2 DEF IInv, TypeOK, State
    <3> QED
      BY <1>4, <3>1, <3>2 DEF IInv, AcceptedIntentIsDurable
  <2> QED
    BY <2>1, <2>2
<1> QED
  BY <1>7, <1>8 DEF IInv

\* A route is cleared for good only when it could be delivered and saved.
LEMMA ClearRouteIInv ==
    ASSUME IInv, NEW s \in Streams, ClearRoute(s)
    PROVE  IInv'
<1>1. IntentOf[s] \in Intents
  BY DEF Intents
<1>2. /\ memory' \in State
      /\ memory'.routes = [memory.routes EXCEPT ![IntentOf[s]] = {}]
  BY <1>1 DEF ClearRoute, IInv, TypeOK, State
<1>3. graph.default # None => {graph.default} \in SUBSET Endpoints
  BY DEF IInv, TypeOK, Graph
<1>4. PICK ok \in BOOLEAN, ls \in SUBSET Link :
         /\ Answer(IntentOf[s], ok, {})
         /\ ok => disk' = memory'
         /\ disk' \in {disk, memory'}
         /\ links' = [links EXCEPT ![s] = ls]
  <2>1. CASE UNCHANGED <<links, disk>> /\ Answer(IntentOf[s], FALSE, {})
    <3>1. links[s] \in SUBSET Link /\ links' = [links EXCEPT ![s] = links[s]]
      BY <2>1 DEF IInv, TypeOK
    <3> QED
      BY <2>1, <3>1
  <2>2. ASSUME graph.default # None,
               NEW out \in Applied(graph, s, {graph.default}), NEW saved \in BOOLEAN,
               links' = [links EXCEPT ![s] = out.links],
               disk' = Saved(out.ok /\ saved, memory'),
               Answer(IntentOf[s], out.ok /\ saved, {})
        PROVE  \E ok \in BOOLEAN, ls \in SUBSET Link :
                  /\ Answer(IntentOf[s], ok, {})
                  /\ ok => disk' = memory'
                  /\ disk' \in {disk, memory'}
                  /\ links' = [links EXCEPT ![s] = ls]
    <3>1. out.links \in SUBSET Link /\ (out.ok /\ saved) \in BOOLEAN
      BY <1>3, <2>2, AppliedType DEF IInv, TypeOK
    <3> QED
      BY <2>2, <3>1 DEF Saved
  <2> QED
    BY <2>1, <2>2 DEF ClearRoute
<1>5. links' \in [Streams -> SUBSET Link]
  BY <1>4 DEF IInv, TypeOK
<1>6. asked' \in [Intents -> SUBSET Endpoints] /\ doubtful' \subseteq Intents
  BY <1>1, <1>4 DEF Answer, IInv, TypeOK
<1>7. TypeOK'
  BY <1>2, <1>4, <1>5, <1>6 DEF ClearRoute, IInv, TypeOK
<1>8. AcceptedIntentIsDurable'
  <2> SUFFICES ASSUME NEW i \in Intents, i \notin doubtful'
               PROVE  disk'.routes[i] = asked'[i] /\ memory'.routes[i] = asked'[i]
    BY DEF AcceptedIntentIsDurable
  <2>1. CASE i = IntentOf[s]
    BY <1>1, <1>2, <1>4, <2>1 DEF Answer, IInv, TypeOK, State
  <2>2. CASE i # IntentOf[s]
    <3>1. i \notin doubtful /\ asked'[i] = asked[i]
      BY <1>1, <1>4, <2>2 DEF Answer, IInv, TypeOK
    <3>2. memory'.routes[i] = memory.routes[i]
      BY <1>2, <2>2 DEF IInv, TypeOK, State
    <3> QED
      BY <1>4, <3>1, <3>2 DEF IInv, AcceptedIntentIsDurable
  <2> QED
    BY <2>1, <2>2
<1> QED
  BY <1>7, <1>8 DEF IInv

\* A default is remembered beside the routes, which keep.
LEMMA SetDefaultIInv ==
    ASSUME IInv, NEW e \in Endpoints, SetDefault(e)
    PROVE  IInv'
<1>1. memory' \in State /\ memory'.routes = memory.routes
  BY DEF SetDefault, IInv, TypeOK, State
<1>2. disk' \in {disk, memory'}
  BY DEF SetDefault, Saved
<1>3. TypeOK'
  BY <1>1, <1>2 DEF SetDefault, IInv, TypeOK, history
<1>4. AcceptedIntentIsDurable'
  BY <1>1, <1>2 DEF SetDefault, IInv, AcceptedIntentIsDurable, history
<1> QED
  BY <1>3, <1>4 DEF IInv

\* A refresh takes a snapshot and moves links; it rewrites no intent.
LEMMA RefreshIInv ==
    ASSUME IInv, Refresh
    PROVE  IInv'
<1>1. graph' \in Graph
  BY InspectedType DEF Refresh, IInv
<1>2. links' \in [Streams -> SUBSET Link]
  BY DEF Refresh
<1>3. sink' \in Local \cup {None}
  BY DEF Refresh, IInv, TypeOK
<1>4. TypeOK'
  BY <1>1, <1>2, <1>3 DEF Refresh, IInv, TypeOK, history
<1>5. AcceptedIntentIsDurable'
  BY DEF Refresh, IInv, AcceptedIntentIsDurable, history
<1> QED
  BY <1>4, <1>5 DEF IInv

\* A restart reads back what was saved.
LEMMA RestartIInv ==
    ASSUME IInv, Restart
    PROVE  IInv'
<1>1. /\ ports' \subseteq Endpoints
      /\ links' \in [Streams -> SUBSET Link]
      /\ fabric' \in [Remote -> {"unknown", "answering", "away"}]
      /\ memory' \in State
  BY DEF Restart, WithoutPorts, IInv, TypeOK
<1>2. graph' \in Graph
  <2>1. /\ playing' \subseteq Streams /\ sink' \in Local \cup {None}
    BY DEF Restart, IInv, TypeOK
  <2>2. Seen' \subseteq Endpoints /\ Usable' \subseteq Seen'
    BY <1>1 DEF Seen, Usable
  <2>3. DefaultOutput' \in Endpoints \cup {None}
    <3>1. Local \cap Seen' # {} => (CHOOSE e \in Local \cap Seen' : TRUE) \in Endpoints
      BY DEF Endpoints
    <3> QED
      BY <1>1, <2>1, <2>2, <3>1 DEF DefaultOutput, State, Endpoints
  <2>4. [s \in Streams |-> {l \in links'[s] : l[1] \in Seen'}] \in [Streams -> SUBSET Link]
    BY <1>1
  <2>5. Inspected' \in Graph /\ EmptyGraph \in Graph
    BY <2>1, <2>2, <2>3, <2>4 DEF Inspected, EmptyGraph, Graph
  <2> QED
    BY <2>5 DEF Restart
<1>3. TypeOK'
  BY <1>1, <1>2 DEF Restart, IInv, TypeOK, history
<1>4. AcceptedIntentIsDurable'
  BY DEF Restart, IInv, AcceptedIntentIsDurable, history
<1> QED
  BY <1>3, <1>4 DEF IInv

\* What happens around the daemon touches no intent.
LEMMA SurroundingsIInv ==
    ASSUME IInv, Surroundings
    PROVE  IInv'
<1> USE DEF Surroundings, PeerTurns, PortsAppear, PortsVanish, Moved, StreamStarts,
            StreamEnds, SinkElected, Calm, Around, WithoutPorts
<1>1. memory' = memory /\ disk' = disk /\ graph' = graph /\ UNCHANGED history
  OBVIOUS
<1>2. playing' \subseteq Streams /\ quiet' \in BOOLEAN
  BY DEF pipewire, IInv, TypeOK
<1>3. ports' \subseteq Endpoints /\ sink' \in Local \cup {None}
  BY DEF pipewire, IInv, TypeOK, Endpoints
<1>4. fabric' \in [Remote -> {"unknown", "answering", "away"}]
  BY DEF IInv, TypeOK
<1>5. links' \in [Streams -> SUBSET Link]
  BY DEF pipewire, IInv, TypeOK, LinksTo, Link, AsSet, Endpoints
<1>6. TypeOK'
  BY <1>1, <1>2, <1>3, <1>4, <1>5 DEF IInv, TypeOK, history
<1>7. AcceptedIntentIsDurable'
  BY <1>1 DEF IInv, AcceptedIntentIsDurable, history
<1> QED
  BY <1>6, <1>7 DEF IInv

----------------------------------------------------------------------------
(* The theorems. *)

\* What the theorems rest on.
THEOREM IInvInductive == Spec => []IInv
<1>1. IInv /\ UNCHANGED vars => IInv'
  BY DEF IInv, TypeOK, AcceptedIntentIsDurable, vars, pipewire, history
<1>2. IInv /\ [Next]_vars => IInv'
  BY <1>1, RouteIInv, ClearRouteIInv, SetDefaultIInv, RefreshIInv, RestartIInv,
     SurroundingsIInv DEF Next, Requests
<1> QED
  BY InitIInv, <1>2, PTL DEF Spec

\* Type correctness.
THEOREM TypeCorrect == Spec => []TypeOK
BY IInvInductive, PTL DEF IInv

\* Whatever was accepted last for an intent is what a restart reads back, with any
\* number of intents and streams, through every fallback, failure and restart.
THEOREM AcceptedIntentSurvives == Spec => []AcceptedIntentIsDurable
BY IInvInductive, PTL DEF IInv

\* A refresh moves no stream that nobody pinned, unless the default is remote.
THEOREM UnpinnedStreamsStay == Spec => UnpinnedLeftAlone
<1>1. ASSUME TypeOK, [Next]_vars, NEW s \in Streams,
             quiet, Pinned(s) = {}, DefaultOutput \notin Remote
      PROVE  links'[s] = links[s]
  <2>1. CASE Refresh
    <3>1. graph'.default = DefaultOutput
      BY <2>1 DEF Refresh, Inspected
    <3>2. Placement(graph', s) = {}
      BY <1>1, <3>1 DEF Placement, Pinned
    <3>3. Reconciled(graph', s) = {links[s]}
      BY <3>2 DEF Reconciled
    <3> QED
      BY <2>1, <3>3 DEF Refresh
  <2>2. CASE UNCHANGED vars
    BY <2>2 DEF vars, pipewire
  <2>3. Refresh \/ UNCHANGED vars
    BY <1>1 DEF Next, Requests, Route, ClearRoute, SetDefault, Restart, Surroundings,
                PeerTurns, PortsAppear, PortsVanish, Moved, StreamStarts, StreamEnds,
                SinkElected, Calm
  <2> QED
    BY <2>1, <2>2, <2>3
<1>2. TypeOK /\ [Next]_vars =>
          [\A s \in Streams :
              quiet /\ Pinned(s) = {} /\ DefaultOutput \notin Remote
                  => links'[s] = links[s]]_vars
  BY <1>1
<1> QED
  BY <1>2, TypeCorrect, PTL DEF Spec, UnpinnedLeftAlone

----------------------------------------------------------------------------
(* What PipeWire holds is what a snapshot shows. *)

\* Links lead to ports there are, the default sink is one of them, and JackTrip has
\* ports only for peers the fabric has a record of.
InPipeWire ==
    /\ \A r \in Remote \cap ports : fabric[r] # "unknown"
    /\ \A s \in Streams : links[s] \subseteq LinksTo(ports)
    /\ sink \in ports \cup {None}

\* All ports are seen.
LEMMA AllSeen ==
    ASSUME TypeOK, InPipeWire
    PROVE  Seen = ports
BY DEF TypeOK, InPipeWire, Seen, Endpoints

\* pw-link joins ports there are.
LEMMA AppliedInPipeWire ==
    ASSUME NEW g, NEW s \in Streams, NEW targets,
           links[s] \subseteq LinksTo(ports), NEW out \in Applied(g, s, targets)
    PROVE  out.links \subseteq LinksTo(ports)
<1> DEFINE known == g.links[s]
           rest == links[s] \ known
           wanted == LinksTo(targets)
           all == LinksTo(ports)
           linkable == wanted \cap (all \ rest)
<1>1. \/ out = [ok |-> TRUE, links |-> rest \cup wanted] /\ linkable = wanted
      \/ \E gone \in SUBSET known : out = [ok |-> FALSE, links |-> links[s] \ gone]
      \/ \E made \in SUBSET linkable : out = [ok |-> FALSE, links |-> rest \cup made]
  BY DEF Applied
<1>2. rest \subseteq all /\ linkable \subseteq all /\ links[s] \subseteq all
  OBVIOUS
<1> HIDE DEF known, rest, wanted, all, linkable
<1>3. CASE out = [ok |-> TRUE, links |-> rest \cup wanted] /\ linkable = wanted
  <2>1. out.links = rest \cup linkable
    BY <1>3
  <2> QED
    BY <1>2, <2>1, Zenon DEF all
<1>4. ASSUME NEW gone \in SUBSET known, out = [ok |-> FALSE, links |-> links[s] \ gone]
      PROVE  out.links \subseteq all
  <2>1. out.links = links[s] \ gone
    BY <1>4
  <2> QED
    BY <1>2, <2>1, Zenon
<1>5. ASSUME NEW made \in SUBSET linkable, out = [ok |-> FALSE, links |-> rest \cup made]
      PROVE  out.links \subseteq all
  <2>1. out.links = rest \cup made
    BY <1>5
  <2> QED
    BY <1>2, <2>1, Zenon
<1> QED
  BY <1>1, <1>3, <1>4, <1>5 DEF all

\* Requests and refreshes join ports there are.
LEMMA CommandsInPipeWire ==
    ASSUME TypeOK, InPipeWire, Requests \/ Refresh
    PROVE  InPipeWire'
<1>1. ports' = ports /\ fabric' = fabric
  BY DEF Requests, Route, ClearRoute, SetDefault, Refresh
<1>2. sink' \in ports \cup {None}
  <2>1. CASE Requests
    BY <2>1 DEF Requests, Route, ClearRoute, SetDefault, InPipeWire
  <2>2. CASE Refresh
    <3>1. graph'.ports \subseteq ports
      BY <2>2 DEF Refresh, Inspected, Seen
    <3> QED
      BY <2>2, <3>1 DEF Refresh, InPipeWire
  <2> QED
    BY <2>1, <2>2
<1>3. ASSUME NEW s \in Streams
      PROVE  links'[s] \subseteq LinksTo(ports)
  <2>1. links[s] \subseteq LinksTo(ports) /\ links \in [Streams -> SUBSET Link]
    BY DEF InPipeWire, TypeOK
  <2>2. ASSUME NEW q \in Streams, NEW targets, NEW out \in Applied(graph, q, targets),
               links' = [links EXCEPT ![q] = out.links]
        PROVE  links'[s] \subseteq LinksTo(ports)
    <3>1. CASE q = s
      <4>1. out.links \subseteq LinksTo(ports)
        BY <2>1, <3>1, AppliedInPipeWire
      <4> QED
        BY <2>1, <2>2, <3>1, <4>1
    <3>2. CASE q # s
      BY <2>1, <2>2, <3>2
    <3> QED
      BY <3>1, <3>2
  <2>3. ASSUME NEW q \in Streams, NEW targets \in SUBSET Endpoints, Route(q, targets)
        PROVE  links'[s] \subseteq LinksTo(ports)
    <3>1. CASE links' = links
      BY <2>1, <3>1
    <3>2. ASSUME NEW out \in Applied(graph, q, Resolve(graph, targets)),
                 links' = [links EXCEPT ![q] = out.links]
          PROVE  links'[s] \subseteq LinksTo(ports)
      BY <2>2, <3>2
    <3> QED
      BY <2>3, <3>1, <3>2 DEF Route
  <2>4. ASSUME NEW q \in Streams, ClearRoute(q)
        PROVE  links'[s] \subseteq LinksTo(ports)
    <3>1. CASE links' = links
      BY <2>1, <3>1
    <3>2. ASSUME NEW out \in Applied(graph, q, {graph.default}),
                 links' = [links EXCEPT ![q] = out.links]
          PROVE  links'[s] \subseteq LinksTo(ports)
      BY <2>2, <3>2
    <3> QED
      BY <2>4, <3>1, <3>2 DEF ClearRoute
  <2>5. ASSUME NEW e \in Endpoints, SetDefault(e)
        PROVE  links'[s] \subseteq LinksTo(ports)
    BY <2>1, <2>5 DEF SetDefault
  <2>6. CASE Refresh
    <3>1. links'[s] \in Reconciled(graph', s)
      BY <2>6 DEF Refresh
    <3>2. CASE links'[s] = links[s]
      BY <2>1, <3>2
    <3>3. CASE \E out \in Applied(graph', s, Placement(graph', s)) : links'[s] = out.links
      BY <2>1, <3>3, AppliedInPipeWire
    <3> QED
      BY <3>1, <3>2, <3>3 DEF Reconciled
  <2> QED
    BY <2>3, <2>4, <2>5, <2>6 DEF Requests
<1> QED
  BY <1>1, <1>2, <1>3 DEF InPipeWire

\* Ports take their links with them, and come only for peers that answer.
LEMMA SurroundingsInPipeWire ==
    ASSUME TypeOK, InPipeWire, Restart \/ Surroundings
    PROVE  InPipeWire'
<1> USE DEF InPipeWire
<1>1. CASE Restart
  <2>1. sink' \in ports' \cup {None}
    BY <1>1, RoutingAssumption DEF Restart, WithoutPorts, TypeOK
  <2>2. \A s \in Streams : links'[s] \subseteq LinksTo(ports')
    BY <1>1 DEF Restart, WithoutPorts, LinksTo
  <2>3. Remote \cap ports' = {}
    BY <1>1 DEF Restart, WithoutPorts
  <2> QED
    BY <2>1, <2>2, <2>3
<1>2. ASSUME NEW r \in Remote, PeerTurns(r) PROVE InPipeWire'
  BY <1>2 DEF PeerTurns, pipewire, TypeOK
<1>3. ASSUME NEW e \in Endpoints, PortsAppear(e) PROVE InPipeWire'
  BY <1>3, RoutingAssumption DEF PortsAppear, Answering, LinksTo
<1>4. ASSUME NEW e \in Endpoints, PortsVanish(e) PROVE InPipeWire'
  BY <1>4 DEF PortsVanish, WithoutPorts, LinksTo
<1>5. ASSUME NEW s \in Streams, Moved(s) PROVE InPipeWire'
  <2>1. PICK targets \in SUBSET (Local \cap ports) :
           links' = [links EXCEPT ![s] = LinksTo(targets)]
    BY <1>5 DEF Moved
  <2>2. LinksTo(targets) \subseteq LinksTo(ports)
    BY <2>1 DEF LinksTo
  <2> QED
    BY <1>5, <2>1, <2>2 DEF Moved, TypeOK
<1>6. ASSUME NEW s \in Streams, StreamStarts(s) PROVE InPipeWire'
  <2>1. LinksTo(AsSet(sink)) \subseteq LinksTo(ports)
    BY DEF LinksTo, AsSet
  <2> QED
    BY <1>6, <2>1 DEF StreamStarts, TypeOK
<1>7. ASSUME NEW s \in Streams, StreamEnds(s) PROVE InPipeWire'
  BY <1>7 DEF StreamEnds, TypeOK
<1>8. CASE SinkElected \/ Calm
  BY <1>8 DEF SinkElected, Calm, pipewire
<1> QED
  BY <1>1, <1>2, <1>3, <1>4, <1>5, <1>6, <1>7, <1>8 DEF Surroundings

\* Everything that is linked, and the default sink, is there.
THEOREM LinksLeadToPorts == Spec => []InPipeWire
<1>1. Init => InPipeWire
  BY RoutingAssumption DEF Init, InPipeWire
<1>2. TypeOK /\ InPipeWire /\ [Next]_vars => InPipeWire'
  <2>1. InPipeWire /\ UNCHANGED vars => InPipeWire'
    BY DEF InPipeWire, vars, pipewire
  <2> QED
    BY <2>1, CommandsInPipeWire, SurroundingsInPipeWire DEF Next
<1> QED
  BY <1>1, <1>2, TypeCorrect, PTL DEF Spec

----------------------------------------------------------------------------
(* One refresh is enough. *)

\* The place of a stream, as the property has it.
Place(s) ==
    LET reachable == Pinned(s) \cap Usable IN
    IF reachable # {} THEN reachable ELSE AsSet(DefaultOutput)

\* The default output is one that is seen.
LEMMA DefaultIsSeen ==
    ASSUME TypeOK
    PROVE  DefaultOutput \in Seen \cup {None}
<1>1. Local \cap Seen # {} => (CHOOSE e \in Local \cap Seen : TRUE) \in Seen
  OBVIOUS
<1>2. Usable \subseteq Seen
  BY DEF Usable
<1> QED
  BY <1>1, <1>2 DEF DefaultOutput

\* What refresh wants for a stream that has a place is that place.
LEMMA PlacementIsPlace ==
    ASSUME TypeOK, NEW s \in Streams
    PROVE  /\ HasPlace(s) => Placement(Inspected, s) = Place(s) /\ Place(s) # {}
           /\ ~HasPlace(s) => Placement(Inspected, s) = {}
           /\ Place(s) \subseteq Seen
<1>1. Inspected.usable = Usable /\ Inspected.default = DefaultOutput
  BY DEF Inspected
<1>2. None \notin Endpoints /\ Remote \subseteq Endpoints
  BY RoutingAssumption DEF Endpoints
<1>3. /\ DefaultOutput \in Remote => AsSet(DefaultOutput) = {DefaultOutput}
      /\ DefaultOutput # None => AsSet(DefaultOutput) = {DefaultOutput}
      /\ DefaultOutput = None => AsSet(DefaultOutput) = {}
  BY <1>2 DEF AsSet
<1>4. Usable \subseteq Seen
  BY DEF Usable
<1>5. Place(s) \subseteq Seen
  BY <1>3, <1>4, DefaultIsSeen DEF Place, AsSet
<1>6. CASE Pinned(s) # {}
  BY <1>1, <1>2, <1>3, <1>5, <1>6 DEF Placement, Resolve, Place, HasPlace, Pinned
<1>7. CASE Pinned(s) = {}
  <2>1. Place(s) = AsSet(DefaultOutput)
    BY <1>7 DEF Place
  <2>2. CASE DefaultOutput \in Remote
    <3>1. Placement(Inspected, s) = Resolve(Inspected, {DefaultOutput})
      BY <1>1, <1>7, <2>2 DEF Placement, Pinned
    <3>2. Resolve(Inspected, {DefaultOutput}) = {DefaultOutput}
      BY <1>1, <1>3, <2>2 DEF Resolve
    <3> QED
      BY <1>3, <1>5, <2>1, <2>2, <3>1, <3>2 DEF HasPlace
  <2>3. CASE DefaultOutput \notin Remote
    BY <1>1, <1>5, <1>7, <2>3 DEF Placement, HasPlace, Pinned
  <2> QED
    BY <2>2, <2>3
<1> QED
  BY <1>6, <1>7

\* The targets of a stream's links to some endpoints are these endpoints.
LEMMA TargetsOfLinks ==
    ASSUME NEW targets
    PROVE  TargetsOf(LinksTo(targets)) = targets
<1>1. PICK c : c \in Channels
  BY RoutingAssumption
<1>2. \A e \in targets : <<e, c>> \in LinksTo(targets) /\ <<e, c>>[1] = e
  BY <1>1 DEF LinksTo
<1>3. \A l \in LinksTo(targets) : l[1] \in targets
  BY DEF LinksTo
<1> QED
  BY <1>2, <1>3 DEF TargetsOf

\* When nothing fails, apply_route leaves the links it was asked for and no other.
LEMMA QuietApplied ==
    ASSUME TypeOK, InPipeWire, quiet, NEW s \in Streams,
           NEW targets \in SUBSET ports, NEW out \in Applied(Inspected, s, targets)
    PROVE  out.links = LinksTo(targets)
<1> DEFINE known == Inspected.links[s]
           rest == links[s] \ known
           wanted == LinksTo(targets)
           linkable == wanted \cap (LinksTo(ports) \ rest)
<1>1. known = links[s]
  <2>1. links[s] \subseteq LinksTo(ports)
    BY DEF InPipeWire
  <2>2. \A l \in links[s] : l[1] \in Seen
    BY <2>1, AllSeen DEF LinksTo
  <2> QED
    BY <2>2 DEF Inspected
<1>2. rest = {} /\ wanted \subseteq LinksTo(ports)
  BY <1>1 DEF LinksTo
<1>3. linkable = wanted
  BY <1>2
<1>4. out = [ok |-> TRUE, links |-> rest \cup wanted]
  <2>1. known \subseteq links[s]
    BY <1>1
  <2> HIDE DEF known, rest, wanted, linkable
  <2> QED
    BY <1>3, <2>1 DEF Applied, known, rest, wanted, linkable
<1>5. out.links = rest \cup wanted
  BY <1>4
<1> QED
  BY <1>2, <1>5

\* A refresh that a remembered default has run wpctl for still has that default.
LEMMA RefreshKeepsDefault ==
    ASSUME TypeOK, quiet, Refresh
    PROVE  /\ DefaultOutput' = DefaultOutput
           /\ Usable' = Usable
           /\ \A s \in Streams : Pinned(s)' = Pinned(s)
<1>1. Seen' = Seen /\ Usable' = Usable /\ memory' = memory
  BY DEF Refresh, Seen, Usable, Answering
<1>2. DefaultOutput' = DefaultOutput
  <2>1. CASE memory.default \in Usable
    <3>1. DefaultOutput = memory.default
      BY <2>1 DEF DefaultOutput
    <3>2. DefaultOutput' = memory'.default
      BY <1>1, <2>1 DEF DefaultOutput
    <3> QED
      BY <1>1, <3>1, <3>2
  <2>2. CASE memory.default \notin Usable
    <3>1. graph'.ports = Seen
      BY DEF Refresh, Inspected
    <3>2. memory.default \notin Local \cap Seen
      BY <2>2 DEF Usable
    <3>3. sink' = sink
      BY <3>1, <3>2 DEF Refresh
    <3> QED
      BY <1>1, <3>3 DEF DefaultOutput
  <2> QED
    BY <2>1, <2>2
<1> QED
  BY <1>1, <1>2 DEF Pinned

\* A refresh of a world that keeps still.
LEMMA RefreshPlaces ==
    ASSUME TypeOK, InPipeWire, quiet, Refresh, NEW s \in playing, HasPlace(s)
    PROVE  /\ AtItsPlace(s)'
           /\ links'[s] = IF AtItsPlace(s) THEN links[s] ELSE LinksTo(TargetsOf(links'[s]))
<1>1. s \in Streams /\ graph' = Inspected /\ links'[s] \in Reconciled(graph', s)
  BY DEF TypeOK, Refresh
<1>2. /\ Placement(Inspected, s) = Place(s) /\ Place(s) # {}
      /\ Place(s) \in SUBSET ports
  BY <1>1, PlacementIsPlace, AllSeen
<1>3. Inspected.links[s] = links[s] /\ Inspected.streams = playing
  <2>1. \A l \in links[s] : l[1] \in Seen
    BY <1>1, AllSeen DEF InPipeWire, LinksTo
  <2> QED
    BY <1>1, <2>1 DEF Inspected
<1>4. AtItsPlace(s) <=> TargetsOf(links[s]) = Place(s)
  BY DEF AtItsPlace, Place
<1>5. AtItsPlace(s)' <=> TargetsOf(links'[s]) = Place(s)
  BY <1>1, RefreshKeepsDefault DEF AtItsPlace, Place
<1>6. CASE Place(s) = TargetsOf(links[s])
  <2>1. links'[s] = links[s]
    BY <1>1, <1>2, <1>3, <1>6 DEF Reconciled
  <2> QED
    BY <1>4, <1>5, <1>6, <2>1
<1>7. CASE Place(s) # TargetsOf(links[s])
  <2>1. PICK out \in Applied(Inspected, s, Place(s)) : links'[s] = out.links
    BY <1>1, <1>2, <1>3, <1>7 DEF Reconciled
  <2>2. links'[s] = LinksTo(Place(s))
    BY <1>1, <1>2, <2>1, QuietApplied
  <2> QED
    BY <1>4, <1>5, <1>7, <2>2, TargetsOfLinks
<1> QED
  BY <1>6, <1>7

\* From any links, one refresh puts every stream that is nixaudio's to place on
\* exactly the outputs it should be on, by every channel when it has to be moved, and
\* no later one touches it there.
THEOREM OneRefreshIsEnough == Spec => OneRefreshSettles
<1> DEFINE A == quiet => \A s \in playing :
                    HasPlace(s) =>
                        /\ AtItsPlace(s)'
                        /\ links'[s] = IF AtItsPlace(s) THEN links[s]
                                       ELSE LinksTo(TargetsOf(links'[s]))
<1>1. TypeOK /\ InPipeWire /\ [Next]_vars => [A]_vars
  <2> SUFFICES ASSUME TypeOK, InPipeWire, Next, quiet PROVE A
    OBVIOUS
  <2>1. Refresh
    BY DEF Next, Requests, Route, ClearRoute, SetDefault, Restart, Surroundings,
           PeerTurns, PortsAppear, PortsVanish, Moved, StreamStarts, StreamEnds,
           SinkElected, Calm
  <2> QED
    BY <2>1, RefreshPlaces
<1>2. Spec => [][A]_vars
  BY <1>1, TypeCorrect, LinksLeadToPorts, PTL DEF Spec
<1> QED
  BY <1>2 DEF OneRefreshSettles
=============================================================================
