--------------------------- MODULE Devices_proofs ---------------------------
(***************************************************************************)
(* Proofs about Devices, for any nodes, any naming and any number of       *)
(* appearances: types, and that a default chosen by its plain name means   *)
(* the device it was chosen for.                                           *)
(*                                                                         *)
(* A request names a node by a picture that may be old.  What carries the  *)
(* proof is Elder: a node that is older than one a picture shows was there *)
(* when the picture was taken, so a picture never misses the twin that has *)
(* the plain name by right.                                                *)
(***************************************************************************)
EXTENDS Devices, TLAPS

\* No serial of the future has been given out, and a picture shows every node that
\* is older than one it shows.
Dated(g) == \A n \in Nodes : g[n] # None => g[n].serial <= serials
Elder(g) ==
    \A m, n \in Nodes :
        node[m] # None /\ g[n] # None /\ node[m].serial <= g[n].serial => g[m] = node[m]

Pictures == Dated(node) /\ Dated(graph) /\ Elder(graph) /\ Dated(reading.graph) /\ Elder(reading.graph)

\* A request that was accepted is on disk, and the node it was for had appeared.
PickedIsSaved ==
    \A k \in Kinds :
        picked[k] # None => disk[k] = memory[k] /\ picked[k].node.serial <= serials

IInv == TypeOK /\ Pictures /\ PickedIsSaved /\ PlainChoiceIsUnderstood

----------------------------------------------------------------------------
(* Types. *)

\* What a picture calls a node is a name.
LEMMA Names ==
    ASSUME NEW g \in Graph, NEW n \in Nodes, g[n] # None
    PROVE  NameOf(g, n) \in Name
<1>1. g[n] \in Node
  BY DEF Graph
<1>2. g[n].serial \in 0..MaxSerial
  BY <1>1, DevicesAssumption DEF Node
<1>3. Stem[n] \in Stems
  BY DEF Stems
<1> QED
  BY <1>2, <1>3, DevicesAssumption DEF NameOf, Name

\* Selecting a node leaves defaults behind.
LEMMA SelectedTypes ==
    ASSUME actual \in Defaults, NEW n \in Nodes, Selected(n)
    PROVE  actual' \in Defaults
BY DEF Selected, Defaults

LEMMA EmptyTypes == EmptyGraph \in Graph /\ NoReading \in [graph : Graph, actual : Defaults]
BY DEF EmptyGraph, NoReading, Graph, Defaults

LEMMA KindsOf == \A k \in Kinds : NodesOf(k) \subseteq Nodes
BY DEF NodesOf, Nodes

LEMMA InitTypes == Init => TypeOK
<1> SUFFICES ASSUME Init PROVE TypeOK
  OBVIOUS
<1>1. node \in Graph /\ graph \in Graph /\ reading \in [graph : Graph, actual : Defaults]
  BY EmptyTypes DEF Init, EmptyGraph
<1>2. serials \in 0..MaxSerial
  BY DevicesAssumption DEF Init
<1>3. actual \in Defaults /\ memory \in State /\ disk \in State
  BY DEF Init, Defaults, State
<1>4. /\ picked \in [Kinds -> [device : Nodes, node : Node] \cup {None}]
      /\ \A k \in Kinds : picked[k] # None => picked[k].device \in NodesOf(k)
  BY DEF Init
<1>5. stage \in Kinds \cup {"none"} /\ quiet \in BOOLEAN
  BY DEF Init
<1> QED
  BY <1>1, <1>2, <1>3, <1>4, <1>5 DEF TypeOK

LEMMA SetDefaultTypes ==
    ASSUME TypeOK, NEW k \in Kinds, NEW n \in Nodes, SetDefault(k, n)
    PROVE  TypeOK'
<1>1. n \in NodesOf(k) /\ graph[n] # None /\ graph \in Graph
  BY DEF SetDefault, In, TypeOK
<1>2. actual' \in Defaults
  <2>1. PICK found \in WithId(graph[n].id) : Selected(found)
    BY DEF SetDefault
  <2>2. found \in Nodes
    BY <2>1 DEF WithId, In
  <2> QED
    BY <2>1, <2>2, SelectedTypes DEF TypeOK
<1>3. memory' \in State
  BY <1>1, Names DEF SetDefault, State, TypeOK
<1>4. disk' \in State
  BY <1>3 DEF SetDefault, TypeOK
<1>5. PICK saved \in BOOLEAN :
        picked' = [picked EXCEPT ![k] = IF saved THEN [device |-> n, node |-> graph[n]] ELSE None]
  BY DEF SetDefault
<1>6. /\ picked' \in [Kinds -> [device : Nodes, node : Node] \cup {None}]
      /\ \A c \in Kinds : picked'[c] # None => picked'[c].device \in NodesOf(c)
  <2>1. [device |-> n, node |-> graph[n]] \in [device : Nodes, node : Node]
    BY <1>1 DEF Graph
  <2> QED
    BY <1>1, <1>5, <2>1 DEF TypeOK
<1> QED
  BY <1>2, <1>3, <1>4, <1>6 DEF SetDefault, TypeOK

LEMMA RefreshTypes == ASSUME TypeOK, Refresh PROVE TypeOK'
<1>1. CASE Read
  BY <1>1 DEF Read, TypeOK, pipewire, Kinds
<1>2. ASSUME NEW k \in Kinds, Reconcile(k) PROVE TypeOK'
  <2> DEFINE wanted == Named(reading.graph, memory[k]) \ {reading.actual[k]}
  <2> DEFINE found == UNION {WithId(reading.graph[n].id) : n \in wanted}
  <2>1. /\ \/ After(k) /\ UNCHANGED actual
           \/ \E n \in found : Selected(n) /\ After(k)
           \/ Keep /\ UNCHANGED actual
        /\ UNCHANGED <<node, serials, memory, disk, picked, quiet>>
    BY <1>2 DEF Reconcile
  <2> HIDE DEF wanted
  <2>2. \A n \in found : n \in Nodes
    BY DEF WithId, In
  <2> HIDE DEF found
  <2>3. actual' \in Defaults
    BY <2>1, <2>2, SelectedTypes DEF TypeOK
  <2>4. After(k) \/ Keep
    BY <2>1
  <2>5. /\ graph' \in Graph /\ reading' \in [graph : Graph, actual : Defaults]
        /\ stage' \in Kinds \cup {"none"}
    BY <2>4, EmptyTypes DEF After, Keep, TypeOK, Kinds
  <2> QED
    BY <2>1, <2>3, <2>5 DEF TypeOK
<1> QED
  BY <1>1, <1>2 DEF Refresh

LEMMA PluggedTypes == ASSUME TypeOK, NEW n \in Nodes, Plugged(n) PROVE TypeOK'
<1>1. serials' \in 0..MaxSerial /\ serials + 1 \in 1..MaxSerial
  BY DevicesAssumption DEF Plugged, TypeOK
<1>2. PICK id \in NodeIds : node' = [node EXCEPT ![n] = [id |-> id, serial |-> serials + 1]]
  BY DEF Plugged
<1>3. node' \in Graph
  <2>1. [id |-> id, serial |-> serials + 1] \in Node
    BY <1>1 DEF Node
  <2> QED
    BY <2>1, <1>2 DEF Graph, TypeOK
<1>4. actual' \in Defaults
  BY SelectedTypes DEF Plugged, TypeOK
<1> QED
  BY <1>1, <1>3, <1>4 DEF Plugged, Around, runtime, TypeOK

LEMMA UnpluggedTypes == ASSUME TypeOK, NEW n \in Nodes, Unplugged(n) PROVE TypeOK'
<1>1. node' \in Graph
  BY DEF Unplugged, Graph, TypeOK
<1> QED
  BY <1>1 DEF Unplugged, Around, runtime, TypeOK

LEMMA RestTypes ==
    ASSUME TypeOK, Restart \/ (\E n \in Nodes : Elected(n)) \/ Calm \/ UNCHANGED vars
    PROVE  TypeOK'
<1>1. CASE Restart
  BY <1>1, EmptyTypes DEF Restart, TypeOK, pipewire
<1>2. CASE \E n \in Nodes : Elected(n)
  <2>1. actual' \in Defaults
    BY <1>2, SelectedTypes DEF Elected, TypeOK
  <2> QED
    BY <1>2, <2>1 DEF Elected, Around, runtime, TypeOK
<1>3. CASE Calm
  BY <1>3 DEF Calm, TypeOK, pipewire, runtime
<1>4. CASE UNCHANGED vars
  BY <1>4 DEF vars, TypeOK, pipewire, runtime
<1> QED
  BY <1>1, <1>2, <1>3, <1>4

LEMMA NextTypes == ASSUME TypeOK, [Next]_vars PROVE TypeOK'
BY SetDefaultTypes, RefreshTypes, PluggedTypes, UnpluggedTypes, RestTypes DEF Next


----------------------------------------------------------------------------
(* Pictures. *)

LEMMA InitPictures == Init => Pictures
BY DEF Init, Pictures, Dated, Elder, EmptyGraph, NoReading

\* A picture of now is dated, and misses nothing.
LEMMA PictureOfNow ==
    ASSUME Dated(node), NEW g, g = node \/ g = EmptyGraph
    PROVE  Dated(g) /\ Elder(g)
<1>1. CASE g = node
  BY <1>1 DEF Dated, Elder
<1>2. CASE g = EmptyGraph
  BY <1>2 DEF Dated, Elder, EmptyGraph
<1> QED
  BY <1>1, <1>2

\* A node that appears is younger than all a picture shows.
LEMMA PicturesAge ==
    ASSUME TypeOK, NEW n \in Nodes, Plugged(n), NEW g \in Graph, Dated(g)
    PROVE  Dated(g)' /\ (Elder(g) => Elder(g)')
<1>1. /\ serials \in Nat /\ serials' = serials + 1
      /\ \A m \in Nodes : g[m] # None => g[m].serial \in Nat
  <2>1. serials \in Nat /\ serials' = serials + 1
    BY DevicesAssumption DEF TypeOK, Plugged
  <2>2. \A m \in Nodes : g[m] # None => g[m] \in Node
    BY DEF Graph
  <2> QED
    BY <2>1, <2>2, DevicesAssumption DEF Node
<1>2. node'[n].serial = serials + 1 /\ \A m \in Nodes \ {n} : node'[m] = node[m]
  BY DEF Plugged, TypeOK, Graph
<1>3. Dated(g)'
  BY <1>1 DEF Dated
<1>4. ASSUME Elder(g), NEW l \in Nodes, NEW m \in Nodes,
             node'[l] # None, g[m] # None, node'[l].serial <= g[m].serial
      PROVE  g[l] = node'[l]
  <2>1. l # n
    BY <1>1, <1>2, <1>4 DEF Dated
  <2> QED
    BY <2>1, <1>2, <1>4 DEF Elder
<1> QED
  BY <1>3, <1>4 DEF Elder

LEMMA PluggedPictures ==
    ASSUME TypeOK, Pictures, NEW n \in Nodes, Plugged(n)
    PROVE  Pictures'
<1>1. UNCHANGED <<graph, reading>>
  BY DEF Plugged, Around, runtime
<1>2. Dated(graph)' /\ Elder(graph)' /\ Dated(reading.graph)' /\ Elder(reading.graph)'
  <2>1. graph \in Graph /\ reading.graph \in Graph
    BY DEF TypeOK
  <2>2. Dated(graph) /\ Elder(graph) /\ Dated(reading.graph) /\ Elder(reading.graph)
    BY DEF Pictures
  <2> DEFINE g == graph  r == reading.graph
  <2>3. (Dated(g)' /\ Elder(g)') /\ (Dated(r)' /\ Elder(r)')
    BY <2>1, <2>2, <1>1, PicturesAge DEF Dated, Elder
  <2> QED
    BY <2>3
<1>3. Dated(node)'
  <2>1. serials \in Nat /\ serials' = serials + 1
    BY DevicesAssumption DEF TypeOK, Plugged
  <2>2. node'[n].serial = serials + 1 /\ \A m \in Nodes \ {n} : node'[m] = node[m]
    BY DEF Plugged, TypeOK, Graph
  <2>3. \A m \in Nodes : node[m] # None => node[m].serial \in Nat /\ node[m].serial <= serials
    BY DEF TypeOK, Graph, Node, Pictures, Dated
  <2> QED
    BY <2>1, <2>2, <2>3 DEF Dated
<1> QED
  BY <1>2, <1>3 DEF Pictures

\* A node that goes is missed by no picture.
LEMMA UnpluggedPictures ==
    ASSUME TypeOK, Pictures, NEW n \in Nodes, Unplugged(n)
    PROVE  Pictures'
<1>1. UNCHANGED <<graph, reading, serials>>
  BY DEF Unplugged, Around, runtime
<1>2. \A m \in Nodes : node'[m] # None => node'[m] = node[m]
  BY DEF Unplugged, TypeOK, Graph
<1> QED
  BY <1>1, <1>2 DEF Pictures, Dated, Elder

LEMMA RefreshPictures == ASSUME Pictures, Refresh PROVE Pictures'
<1>1. CASE Read
  BY <1>1, PictureOfNow DEF Read, Pictures, pipewire, Dated, Elder
<1>2. ASSUME NEW k \in Kinds, Reconcile(k) PROVE Pictures'
  <2>1. UNCHANGED <<node, serials>> /\ (After(k) \/ Keep)
    BY <1>2 DEF Reconcile
  <2>2. CASE UNCHANGED <<graph, reading>>
    BY <2>1, <2>2 DEF Pictures, Dated, Elder
  <2>3. CASE Keep
    BY <2>1, <2>3, PictureOfNow DEF Keep, Pictures, Dated, Elder, NoReading, EmptyGraph
  <2> QED
    BY <2>1, <2>2, <2>3 DEF After
<1> QED
  BY <1>1, <1>2 DEF Refresh

LEMMA RestPictures ==
    ASSUME Pictures,
           \/ \E k \in Kinds, n \in Nodes : SetDefault(k, n)
           \/ Restart
           \/ \E n \in Nodes : Elected(n)
           \/ Calm
           \/ UNCHANGED vars
    PROVE  Pictures'
<1>1. CASE Restart
  BY <1>1, PictureOfNow DEF Restart, Pictures, pipewire, NoReading, EmptyGraph, Dated, Elder
<1>2. CASE ~Restart
  <2>1. UNCHANGED <<node, serials, graph, reading>>
    BY <1>2 DEF SetDefault, Elected, Calm, Around, runtime, vars, pipewire
  <2> QED
    BY <2>1 DEF Pictures, Dated, Elder
<1> QED
  BY <1>1, <1>2

LEMMA NextPictures == ASSUME TypeOK, Pictures, [Next]_vars PROVE Pictures'
BY PluggedPictures, UnpluggedPictures, RefreshPictures, RestPictures DEF Next

----------------------------------------------------------------------------
(* What was chosen, and what it means. *)

\* In a picture that shows a node as it is, its plain name is right.
LEMMA PlainInPicture ==
    ASSUME NEW g \in Graph, node \in Graph, Elder(g), NEW n \in Nodes,
           g[n] # None, node[n] = g[n], NameOf(g, n).serial = 0
    PROVE  NameOf(node, n) = NameOf(g, n)
<1>1. \A m \in Nodes : /\ g[m] # None => g[m].serial \in Nat \ {0}
                       /\ node[m] # None => node[m].serial \in Nat \ {0}
  BY DevicesAssumption DEF Graph, Node
<1>2. ~\E m \in Twins(g, n) : g[m].serial < g[n].serial
  BY <1>1 DEF NameOf
<1>3. ~\E m \in Twins(node, n) : node[m].serial < node[n].serial
  <2> SUFFICES ASSUME NEW m \in Twins(node, n), node[m].serial < node[n].serial PROVE FALSE
    OBVIOUS
  <2>1. m \in Nodes /\ node[m] # None /\ m # n /\ Stem[m] = Stem[n]
    BY DEF Twins, In
  <2>2. g[m] = node[m]
    BY <2>1, <1>1 DEF Elder
  <2> QED
    BY <2>1, <2>2, <1>2 DEF Twins, In
<1> QED
  BY <1>2, <1>3 DEF NameOf

LEMMA SetDefaultChoice ==
    ASSUME IInv, NEW k \in Kinds, NEW n \in Nodes, SetDefault(k, n)
    PROVE  PickedIsSaved' /\ PlainChoiceIsUnderstood'
<1> USE DEF IInv
<1>1. /\ graph[n] # None /\ UNCHANGED node
      /\ memory' = [memory EXCEPT ![k] = NameOf(graph, n)]
  BY DEF SetDefault, In
<1>2. PICK saved \in BOOLEAN :
          /\ disk' = IF saved THEN memory' ELSE disk
          /\ picked' = [picked EXCEPT ![k] =
                IF saved THEN [device |-> n, node |-> graph[n]] ELSE None]
  BY DEF SetDefault
<1>3. \A c \in Kinds : memory'[c] = IF c = k THEN NameOf(graph, n) ELSE memory[c]
  BY <1>1 DEF TypeOK, State
<1>4. \A c \in Kinds \ {k} : picked'[c] = picked[c]
  BY <1>2 DEF TypeOK
<1>5. picked'[k] \in {[device |-> n, node |-> graph[n]], None}
  BY <1>2 DEF TypeOK
<1>6. PickedIsSaved'
  <2>1. graph[n].serial <= serials
    BY <1>1 DEF Pictures, Dated
  <2>2. UNCHANGED serials
    BY DEF SetDefault
  <2> QED
    BY <1>2, <1>3, <1>4, <2>1, <2>2 DEF PickedIsSaved, TypeOK
<1>7. PlainChoiceIsUnderstood'
  BY <1>1, <1>3, <1>4, <1>5, PlainInPicture DEF PlainChoiceIsUnderstood, Pictures, TypeOK
<1> QED
  BY <1>6, <1>7

LEMMA PluggedChoice ==
    ASSUME IInv, NEW n \in Nodes, Plugged(n)
    PROVE  PickedIsSaved' /\ PlainChoiceIsUnderstood'
<1> USE DEF IInv
<1>1. UNCHANGED <<memory, disk, picked>>
  BY DEF Plugged, Around, runtime
<1>2. /\ serials \in Nat
      /\ node'[n] # None /\ node'[n].serial = serials + 1
      /\ \A m \in Nodes \ {n} : node'[m] = node[m]
      /\ \A m \in Nodes : node[m] # None => node[m].serial \in Nat /\ node[m].serial <= serials
  <2>1. PICK id \in NodeIds : node' = [node EXCEPT ![n] = [id |-> id, serial |-> serials + 1]]
    BY DEF Plugged
  <2>2. serials \in Nat /\ serials + 1 \in 1..MaxSerial
    BY DevicesAssumption DEF TypeOK, Plugged
  <2>3. [id |-> id, serial |-> serials + 1] # None
    BY <2>2, DevicesAssumption DEF Node
  <2>4. \A m \in Nodes : node[m] # None => node[m].serial \in Nat /\ node[m].serial <= serials
    BY DevicesAssumption DEF TypeOK, Graph, Node, Pictures, Dated
  <2> QED
    BY <2>1, <2>2, <2>3, <2>4 DEF TypeOK, Graph
<1>3. ASSUME NEW k \in Kinds, picked[k] # None, memory[k].serial = 0,
             node'[picked[k].device] = picked[k].node
      PROVE  NameOf(node', picked[k].device) = memory[k]
  <2> DEFINE d == picked[k].device
  <2>1. d \in Nodes /\ picked[k].node \in Node /\ picked[k].node # None
    BY <1>3, DevicesAssumption DEF TypeOK
  <2>2. d # n
    BY <1>2, <1>3, <2>1 DEF PickedIsSaved, Node
  <2>3. node[d] = picked[k].node /\ NameOf(node, d) = memory[k]
    BY <1>2, <1>3, <2>1, <2>2 DEF PlainChoiceIsUnderstood
  <2>4. node[d] # None /\ node[d].serial \in Nat \ {0}
    BY <2>1, <2>3, DevicesAssumption DEF Node
  <2>5. ~\E m \in Twins(node, d) : node[m].serial < node[d].serial
    BY <1>3, <2>3, <2>4 DEF NameOf
  <2>6. ~\E m \in Twins(node', d) : node'[m].serial < node'[d].serial
    BY <1>2, <2>1, <2>2, <2>4, <2>5 DEF Twins, In
  <2> QED
    BY <2>3, <2>5, <2>6 DEF NameOf
<1>4. serials' = serials + 1
  BY DEF Plugged
<1>5. \A k \in Kinds : picked[k] # None => picked[k].node.serial \in Nat
  BY DevicesAssumption DEF TypeOK, Node
<1>6. PickedIsSaved'
  BY <1>1, <1>2, <1>4, <1>5 DEF PickedIsSaved
<1> QED
  BY <1>1, <1>3, <1>6 DEF PlainChoiceIsUnderstood

\* The twins that are left are no older than before.
LEMMA UnpluggedChoice ==
    ASSUME IInv, NEW n \in Nodes, Unplugged(n)
    PROVE  PickedIsSaved' /\ PlainChoiceIsUnderstood'
<1> USE DEF IInv
<1>1. UNCHANGED <<memory, disk, picked, serials>>
  BY DEF Unplugged, Around, runtime
<1>2. node' = [node EXCEPT ![n] = None] /\ node \in Graph
  BY DEF Unplugged, TypeOK
<1>3. ASSUME NEW k \in Kinds, picked[k] # None, memory[k].serial = 0,
             node'[picked[k].device] = picked[k].node
      PROVE  NameOf(node', picked[k].device) = memory[k]
  <2> DEFINE d == picked[k].device
  <2>1. d \in Nodes /\ picked[k].node \in Node /\ picked[k].node # None
    BY <1>3, DevicesAssumption DEF TypeOK
  <2>2. d # n
    BY <1>2, <1>3, <2>1 DEF Graph
  <2>3. node[d] = picked[k].node /\ NameOf(node, d) = memory[k]
    BY <1>2, <1>3, <2>1, <2>2 DEF PlainChoiceIsUnderstood, Graph
  <2>4. node[d].serial \in Nat \ {0}
    BY <2>1, <2>3, DevicesAssumption DEF Node
  <2>5. ~\E m \in Twins(node, d) : node[m].serial < node[d].serial
    BY <1>3, <2>3, <2>4 DEF NameOf
  <2>6. \A m \in Nodes : node'[m] # None => node'[m] = node[m]
    BY <1>2 DEF Graph
  <2>7. node'[d] = node[d]
    BY <1>3, <2>3
  <2>8. ~\E m \in Twins(node', d) : node'[m].serial < node'[d].serial
    BY <2>5, <2>6, <2>7 DEF Twins, In
  <2> QED
    BY <2>3, <2>5, <2>8 DEF NameOf
<1> QED
  BY <1>1, <1>3 DEF PickedIsSaved, PlainChoiceIsUnderstood

LEMMA RestChoice ==
    ASSUME IInv,
           \/ Refresh \/ Restart \/ Calm
           \/ \E n \in Nodes : Elected(n)
           \/ UNCHANGED vars
    PROVE  PickedIsSaved' /\ PlainChoiceIsUnderstood'
<1> USE DEF IInv
<1>1. UNCHANGED <<node, serials, disk, picked>>
  BY DEF Refresh, Read, Reconcile, Restart, Calm, Elected, Around, runtime, vars, pipewire
<1>2. memory' \in {memory, disk}
  BY DEF Refresh, Read, Reconcile, Restart, Calm, Elected, Around, runtime, vars, pipewire
<1>3. \A k \in Kinds : picked[k] # None => memory'[k] = memory[k]
  BY <1>2 DEF PickedIsSaved
<1> QED
  BY <1>1, <1>3 DEF PickedIsSaved, PlainChoiceIsUnderstood

----------------------------------------------------------------------------

LEMMA Inductive ==
    /\ Init => IInv
    /\ IInv /\ [Next]_vars => IInv'
<1>1. Init => PickedIsSaved /\ PlainChoiceIsUnderstood
  BY DEF Init, PickedIsSaved, PlainChoiceIsUnderstood
<1>2. ASSUME IInv, [Next]_vars PROVE PickedIsSaved' /\ PlainChoiceIsUnderstood'
  BY <1>2, SetDefaultChoice, PluggedChoice, UnpluggedChoice, RestChoice DEF Next
<1> QED
  BY <1>1, <1>2, InitTypes, InitPictures, NextTypes, NextPictures DEF IInv

\* Every variable holds what its type says, whatever devices come and go.
THEOREM TypeCorrect == Spec => []TypeOK
BY InitTypes, NextTypes, PTL DEF Spec

\* A default that was chosen by its plain name means the device it was chosen for as
\* long as that device stays, whatever twins of it come and go.
THEOREM PlainNamesKeepTheirMeaning == Spec => []PlainChoiceIsUnderstood
<1>1. IInv => PlainChoiceIsUnderstood
  BY DEF IInv
<1> QED
  BY Inductive, <1>1, PTL DEF Spec
=============================================================================
