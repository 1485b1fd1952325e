--------------------------- MODULE Session_proofs ---------------------------
(***************************************************************************)
(* Proofs about Session: types, that a port stands for one output in every *)
(* plan links are made from, and that two ends which agree stay agreed and *)
(* carry a stream to the output it is pinned to, for any outputs with any  *)
(* channels.                                                               *)
(***************************************************************************)
EXTENDS Session, FiniteSetTheorems, TLAPS

----------------------------------------------------------------------------
(* Slices. *)

Before(m, e) == {c \in m : c[1] < e}
FirstOnes(e, j) == {<<e, i>> : i \in 1..j}

\* A manifest is finite, and so are the channels before an output.
LEMMA ManifestFinite ==
    ASSUME NEW m \in Manifest, NEW e
    PROVE  /\ IsFiniteSet(m) /\ Cardinality(m) \in Nat
           /\ IsFiniteSet(Before(m, e)) /\ Cardinality(Before(m, e)) \in Nat
<1>1. IsFiniteSet(Ids \X (1..MaxChannels))
  BY SessionAssumption, FS_Interval, FS_Product, 1 \in Int, MaxChannels \in Int
<1>2. IsFiniteSet(m)
  BY <1>1, FS_Subset DEF Manifest
<1>3. IsFiniteSet(Before(m, e))
  BY <1>2, FS_Subset DEF Before
<1> QED  BY <1>2, <1>3, FS_CardinalityType

\* The first j channels of an output are j.
LEMMA FirstOnesCount ==
    ASSUME NEW e, NEW j \in Nat
    PROVE  IsFiniteSet(FirstOnes(e, j)) /\ Cardinality(FirstOnes(e, j)) = j
<1> DEFINE f == [i \in 1..j |-> <<e, i>>]
<1>1. f \in Bijection(1..j, FirstOnes(e, j))
  BY DEF Bijection, Injection, Surjection, IsInjective, FirstOnes
<1>2. ExistsBijection(1..j, FirstOnes(e, j))
  BY <1>1 DEF ExistsBijection
<1>3. IsFiniteSet(1..j) /\ Cardinality(1..j) = j
  BY FS_Interval
<1> QED  BY <1>2, <1>3, FS_Bijection

\* The place of channel j of output d is the number of channels up to it, so it is
\* within any set that holds them.
LEMMA PlaceBound ==
    ASSUME NEW m \in Manifest, NEW d \in Ids, NEW j \in 1..MaxChannels, <<d, j>> \in m,
           NEW S, IsFiniteSet(S), Before(m, d) \cup FirstOnes(d, j) \subseteq S
    PROVE  First(m, d) + j - 1 \in 1..Cardinality(S)
<1> j \in Nat /\ j >= 1
  BY SessionAssumption
<1>1. Before(m, d) \cap FirstOnes(d, j) = {}
  BY SessionAssumption DEF Before, FirstOnes
<1>2. Cardinality(Before(m, d) \cup FirstOnes(d, j)) = Cardinality(Before(m, d)) + j
  <2>1. IsFiniteSet(Before(m, d)) /\ Cardinality(Before(m, d)) \in Nat
    BY ManifestFinite
  <2>2. IsFiniteSet(FirstOnes(d, j)) /\ Cardinality(FirstOnes(d, j)) = j
    BY FirstOnesCount
  <2>3. Cardinality(Before(m, d) \cup FirstOnes(d, j))
            = Cardinality(Before(m, d)) + Cardinality(FirstOnes(d, j)) - Cardinality({})
    BY <1>1, <2>1, <2>2, FS_Union
  <2>4. Cardinality({}) = 0
    BY FS_EmptySet
  <2> QED  BY <2>1, <2>2, <2>3, <2>4
<1>3. /\ Cardinality(Before(m, d) \cup FirstOnes(d, j)) <= Cardinality(S)
      /\ Cardinality(S) \in Nat
  BY FS_Subset, FS_CardinalityType
<1>4. First(m, d) = Cardinality(Before(m, d)) + 1 /\ Cardinality(Before(m, d)) \in Nat
  BY ManifestFinite DEF First, Before
<1> QED  BY <1>2, <1>3, <1>4

\* What a slice holds.
LEMMA SliceMember ==
    ASSUME NEW m \in Manifest, NEW e, NEW x \in Slice(m, e)
    PROVE  \E k \in 1..MaxChannels :
              e \in Ids /\ <<e, k>> \in m /\ x = First(m, e) + k - 1
BY DEF Slice, Manifest

\* The channels up to channel j of output d are in the manifest, and before any
\* later output.
LEMMA UpTo ==
    ASSUME NEW m \in Manifest, NEW d \in Ids, NEW j \in 1..MaxChannels, <<d, j>> \in m
    PROVE  /\ Before(m, d) \cup FirstOnes(d, j) \subseteq m
           /\ \A e \in Ids : d < e => Before(m, d) \cup FirstOnes(d, j) \subseteq Before(m, e)
<1>1. FirstOnes(d, j) \subseteq m
  BY DEF FirstOnes, Manifest
<1>2. \A c \in m : c[1] \in Int
  BY SessionAssumption DEF Manifest
<1> QED  BY <1>1, <1>2, SessionAssumption DEF Before, FirstOnes

\* The slices of a manifest are apart and within its width.
THEOREM SlicesOfManifest ==
    ASSUME NEW m \in Manifest, NEW d \in EndpointsOf(m), NEW e \in EndpointsOf(m)
    PROVE  /\ d # e => Slice(m, d) \cap Slice(m, e) = {}
           /\ Slice(m, d) \subseteq 1..Width(m)
<1> d \in Ids /\ e \in Ids /\ d \in Int /\ e \in Int
  BY SessionAssumption DEF EndpointsOf, Manifest
<1>1. ASSUME NEW a \in Ids, NEW b \in Ids, a < b, NEW x \in Slice(m, a), NEW y \in Slice(m, b)
      PROVE  x < y
  <2>1. PICK j \in 1..MaxChannels : <<a, j>> \in m /\ x = First(m, a) + j - 1
    BY SliceMember
  <2>2. PICK k \in 1..MaxChannels : <<b, k>> \in m /\ y = First(m, b) + k - 1
    BY SliceMember
  <2>3. IsFiniteSet(Before(m, b)) /\ Cardinality(Before(m, b)) \in Nat
    BY ManifestFinite
  <2>4. x \in 1..Cardinality(Before(m, b))
    BY <1>1, <2>1, <2>3, PlaceBound, UpTo
  <2>5. First(m, b) = Cardinality(Before(m, b)) + 1
    BY DEF First, Before
  <2> QED  BY <2>2, <2>3, <2>4, <2>5, SessionAssumption
<1>2. d # e => Slice(m, d) \cap Slice(m, e) = {}
  <2> SUFFICES ASSUME d # e, NEW x \in Slice(m, d), x \in Slice(m, e)  PROVE FALSE
    OBVIOUS
  <2>1. x \in Int
    <3>1. PICK k \in 1..MaxChannels : x = First(m, d) + k - 1
      BY SliceMember
    <3>2. First(m, d) \in Int
      <4>1. First(m, d) = Cardinality(Before(m, d)) + 1
        BY DEF First, Before
      <4> QED  BY <4>1, ManifestFinite
    <3>3. k \in Int
      BY SessionAssumption
    <3> QED  BY <3>1, <3>2, <3>3
  <2>2. d < e \/ e < d
    OBVIOUS
  <2> QED  BY <1>1, <2>1, <2>2
<1>3. Slice(m, d) \subseteq 1..Width(m)
  <2> SUFFICES ASSUME NEW x \in Slice(m, d)  PROVE x \in 1..Width(m)
    OBVIOUS
  <2>1. PICK j \in 1..MaxChannels : <<d, j>> \in m /\ x = First(m, d) + j - 1
    BY SliceMember
  <2>2. x \in 1..Cardinality(m)
    BY <2>1, ManifestFinite, PlaceBound, UpTo
  <2>3. m # {}
    BY <2>1
  <2> QED  BY <2>2, <2>3 DEF Width
<1> QED  BY <1>2, <1>3

----------------------------------------------------------------------------
(* Types. *)

\* What a width is.
LEMMA WidthType ==
    ASSUME NEW m \in Manifest
    PROVE  Width(m) \in Nat \ {0}
<1>1. IsFiniteSet(m) /\ Cardinality(m) \in Nat
  BY ManifestFinite
<1>2. m # {} => Cardinality(m) # 0
  BY <1>1, FS_EmptySet
<1> QED  BY <1>1, <1>2 DEF Width

LEMMA ArgumentsType ==
    ASSUME NEW r \in Record
    PROVE  Arguments(r) \in Process
BY WidthType DEF Arguments, Record, Process

\* A change of process leaves no link or every link.
LEMMA WithProcessType ==
    ASSUME TypeOK, NEW h \in Hosts, NEW p \in {None} \cup Process, WithProcess(h, p)
    PROVE  /\ process' \in [Hosts -> {None} \cup Process]
           /\ incoming' \in [Hosts -> SUBSET (Nat \X (Ids \X (1..MaxChannels)))]
           /\ outgoing' \in [Hosts -> SUBSET ((1..Voices) \X Nat)]
BY DEF TypeOK, WithProcess

LEMMA SupervisedType ==
    ASSUME TypeOK, NEW h \in Hosts, NEW r \in Record, Supervised(h, r)
    PROVE  /\ process' \in [Hosts -> {None} \cup Process]
           /\ incoming' \in [Hosts -> SUBSET (Nat \X (Ids \X (1..MaxChannels)))]
           /\ outgoing' \in [Hosts -> SUBSET ((1..Voices) \X Nat)]
<1>1. PICK p \in {None, Arguments(r)} : WithProcess(h, p)
  BY DEF Supervised
<1>2. p \in {None} \cup Process
  BY ArgumentsType
<1> QED  BY <1>1, <1>2, WithProcessType

\* Refreshing makes links between a port and a channel that exist.
LEMMA IncomingType ==
    ASSUME TypeOK, NEW h \in Hosts, NEW links \in IncomingAfter(h)
    PROVE  links \subseteq Nat \X (Ids \X (1..MaxChannels))
<1>1. outputs[h] \subseteq Ids \X (1..MaxChannels)
  BY DEF TypeOK, Manifest
<1>2. ReceiveLinks(h) \subseteq Nat \X (Ids \X (1..MaxChannels))
  BY <1>1 DEF ReceiveLinks, Linkable, TypeOK, Process
<1>3. incoming[h] \subseteq Nat \X (Ids \X (1..MaxChannels))
  BY DEF TypeOK
<1> QED  BY <1>2, <1>3 DEF IncomingAfter

LEMMA OutgoingType ==
    ASSUME TypeOK, NEW h \in Hosts, NEW links \in OutgoingAfter(h)
    PROVE  links \subseteq (1..Voices) \X Nat
<1>1. outgoing[h] \subseteq (1..Voices) \X Nat
  BY DEF TypeOK
<1> DEFINE wanted == UNION {LinksTo(h, e) : e \in Effective(h)}
           seen == {l \in outgoing[h] : EndpointAt(h, l[2]) # {}}
<1>2. CASE ~Linkable(h) \/ Wanted[h] = None \/ Targets(h) = Effective(h)
  BY <1>1, <1>2 DEF OutgoingAfter
<1>3. CASE ~(~Linkable(h) \/ Wanted[h] = None \/ Targets(h) = Effective(h))
  <2>1. process[h] \in Process
    BY <1>3 DEF Linkable, TypeOK
  <2>2. \A e : SendPorts(h, e) \subseteq Nat
    BY <2>1 DEF SendPorts, Process
  <2>3. \A e : LinksTo(h, e) \subseteq (1..Voices) \X Nat
    BY <2>2 DEF LinksTo
  <2>4. wanted \subseteq (1..Voices) \X Nat
    BY <2>3
  <2> HIDE DEF wanted
  <2>5. OutgoingAfter(h) = {(outgoing[h] \ seen) \cup wanted}
             \cup IF quiet THEN {}
                  ELSE {outgoing[h] \ gone : gone \in SUBSET seen}
                       \cup {(outgoing[h] \ seen) \cup made : made \in SUBSET wanted}
    BY <1>3 DEF OutgoingAfter, wanted
  <2> QED  BY <1>1, <2>4, <2>5
<1> QED  BY <1>2, <1>3

LEMMA InitTypes == Init => TypeOK
<1> SUFFICES ASSUME Init  PROVE TypeOK
  OBVIOUS
<1>1. {} \in Manifest
  BY DEF Manifest
<1>2. outputs \in [Hosts -> Manifest]
  BY DEF Init
<1>3. published \in [Hosts -> Manifest]
  <2>1. \A h \in Hosts : published[h] \in Manifest
    <3> TAKE h \in Hosts
    <3>1. outputs[h] \in Manifest
      BY <1>2
    <3>2. published[h] \in {outputs[h], {}}
      BY DEF Init
    <3> QED  BY <1>1, <3>1, <3>2
  <2>2. published = [h \in Hosts |-> published[h]]
    BY DEF Init
  <2> QED  BY <2>1, <2>2
<1>4. /\ pass \in [Hosts -> {"between", "probing", "done"}]
      /\ copy \in [Hosts -> Manifest]
      /\ incoming \in [Hosts -> SUBSET (Nat \X (Ids \X (1..MaxChannels)))]
      /\ outgoing \in [Hosts -> SUBSET ((1..Voices) \X Nat)]
      /\ quiet \in BOOLEAN
  BY <1>1 DEF Init
<1>5. /\ known \in [Hosts -> {None} \cup Record]
      /\ fabric \in [Hosts -> {None} \cup Record]
      /\ process \in [Hosts -> {None} \cup Process]
  BY DEF Init
<1> QED  BY <1>2, <1>3, <1>4, <1>5 DEF TypeOK

\* Layouts are manifests, and every plan is made of published ones.
LEMMA StepTypes == TypeOK /\ [Next]_vars => TypeOK'
<1> SUFFICES ASSUME TypeOK, [Next]_vars  PROVE TypeOK'
  OBVIOUS
<1> \A h \in Hosts : Other(h) \in Hosts
  BY DEF Other, Hosts
<1>1. ASSUME NEW h \in Hosts, StartPass(h)  PROVE TypeOK'
  BY <1>1 DEF StartPass, TypeOK
<1>2. ASSUME NEW h \in Hosts, PeerAnswers(h)  PROVE TypeOK'
  <2> DEFINE record == Planned(copy[h], Served(h))
  <2>1. record \in Record
    BY DEF Record, Planned, Served, TypeOK
  <2>4. /\ process' \in [Hosts -> {None} \cup Process]
        /\ incoming' \in [Hosts -> SUBSET (Nat \X (Ids \X (1..MaxChannels)))]
        /\ outgoing' \in [Hosts -> SUBSET ((1..Voices) \X Nat)]
    BY <1>2, <2>1, SupervisedType DEF PeerAnswers
  <2>5. known' = [known EXCEPT ![h] = record]
    BY <1>2 DEF PeerAnswers
  <2>6. {} \in Manifest
    BY DEF Manifest
  <2> HIDE DEF record
  <2> QED  BY <1>2, <2>1, <2>4, <2>5, <2>6 DEF PeerAnswers, Probed, TypeOK
<1>3. ASSUME NEW h \in Hosts, PeerMisses(h)  PROVE TypeOK'
  <2>1. {} \in Manifest
    BY DEF Manifest
  <2>2. known' \in [Hosts -> {None} \cup Record]
    <3>1. CASE UNCHANGED known
      BY <3>1 DEF TypeOK
    <3>2. CASE known[h] # None /\ known' = [known EXCEPT ![h].available = FALSE]
      <4>1. known[h] \in Record
        BY <3>2 DEF TypeOK
      <4> DEFINE doubted == [known[h] EXCEPT !["available"] = FALSE]
      <4>2. doubted \in Record
        BY <4>1 DEF Record
      <4>3. known' = [known EXCEPT ![h] = doubted]
        BY <3>2 DEF TypeOK
      <4> HIDE DEF doubted
      <4> QED  BY <4>2, <4>3 DEF TypeOK
    <3> QED  BY <1>3, <3>1, <3>2 DEF PeerMisses
  <2>3. /\ process' \in [Hosts -> {None} \cup Process]
        /\ incoming' \in [Hosts -> SUBSET (Nat \X (Ids \X (1..MaxChannels)))]
        /\ outgoing' \in [Hosts -> SUBSET ((1..Voices) \X Nat)]
    <3>1. CASE UNCHANGED <<process, incoming, outgoing>>
      BY <3>1 DEF TypeOK
    <3>2. CASE known[h] # None /\ Supervised(h, known[h])
      <4>1. known[h] \in Record
        BY <3>2 DEF TypeOK
      <4> QED  BY <3>2, <4>1, SupervisedType
    <3> QED  BY <1>3, <3>1, <3>2 DEF PeerMisses
  <2> QED  BY <1>3, <2>1, <2>2, <2>3 DEF PeerMisses, Probed, TypeOK
<1>4. ASSUME NEW h \in Hosts, HandOver(h)  PROVE TypeOK'
  BY <1>4 DEF HandOver, TypeOK
<1>5. ASSUME NEW h \in Hosts, Refresh(h)  PROVE TypeOK'
  <2>1. PICK i \in IncomingAfter(h) : incoming' = [incoming EXCEPT ![h] = i]
    BY <1>5 DEF Refresh
  <2>2. PICK o \in OutgoingAfter(h) : outgoing' = [outgoing EXCEPT ![h] = o]
    BY <1>5 DEF Refresh
  <2>3. i \subseteq Nat \X (Ids \X (1..MaxChannels)) /\ o \subseteq (1..Voices) \X Nat
    BY IncomingType, OutgoingType
  <2> QED  BY <1>5, <2>1, <2>2, <2>3 DEF Refresh, TypeOK
<1>6. ASSUME NEW h \in Hosts, Restart(h)  PROVE TypeOK'
  <2>1. {} \in Manifest
    BY DEF Manifest
  <2>2. /\ process' \in [Hosts -> {None} \cup Process]
        /\ incoming' \in [Hosts -> SUBSET (Nat \X (Ids \X (1..MaxChannels)))]
        /\ outgoing' \in [Hosts -> SUBSET ((1..Voices) \X Nat)]
    BY <1>6, WithProcessType DEF Restart
  <2>3. known' \in [Hosts -> {None} \cup Record] /\ fabric' \in [Hosts -> {None} \cup Record]
    BY <1>6 DEF Restart, TypeOK
  <2>4. published' \in [Hosts -> Manifest]
    <3>1. PICK m \in {outputs[h], {}} : published' = [published EXCEPT ![h] = m]
      BY <1>6 DEF Restart
    <3>2. m \in Manifest
      BY <2>1 DEF TypeOK
    <3> QED  BY <3>1, <3>2 DEF TypeOK
  <2>5. pass' \in [Hosts -> {"between", "probing", "done"}] /\ copy' \in [Hosts -> Manifest]
    BY <1>6, <2>1 DEF Restart, TypeOK
  <2>6. outputs' \in [Hosts -> Manifest] /\ quiet' \in BOOLEAN
    BY <1>6 DEF Restart, TypeOK
  <2> QED  BY <2>2, <2>3, <2>4, <2>5, <2>6 DEF TypeOK
<1>7. ASSUME NEW h \in Hosts, Change(h)  PROVE TypeOK'
  <2>1. PICK m \in Layouts[h] :
          /\ outputs' = [outputs EXCEPT ![h] = m]
          /\ incoming' = [incoming EXCEPT ![h] =
                {l \in @ : ChannelsOf(m, l[2][1]) = ChannelsOf(outputs[h], l[2][1])}]
    BY <1>7 DEF Change
  <2>2. m \in Manifest
    BY SessionAssumption
  <2> QED  BY <1>7, <2>1, <2>2 DEF Change, TypeOK
<1>8. ASSUME NEW h \in Hosts, Exit(h)  PROVE TypeOK'
  <2>1. /\ process' \in [Hosts -> {None} \cup Process]
        /\ incoming' \in [Hosts -> SUBSET (Nat \X (Ids \X (1..MaxChannels)))]
        /\ outgoing' \in [Hosts -> SUBSET ((1..Voices) \X Nat)]
    BY <1>8, WithProcessType DEF Exit
  <2> QED  BY <1>8, <2>1 DEF Exit, TypeOK
<1>9. CASE Calm
  BY <1>9 DEF Calm, TypeOK
<1>10. CASE UNCHANGED vars
  BY <1>10 DEF vars, TypeOK
<1>11. CASE \E h \in Hosts : Pass(h) \/ Refresh(h) \/ Restart(h) \/ Change(h) \/ Exit(h)
  <2>1. PICK h \in Hosts : Pass(h) \/ Refresh(h) \/ Restart(h) \/ Change(h) \/ Exit(h)
    BY <1>11
  <2>2. CASE Pass(h)
    BY <2>2, <1>1, <1>2, <1>3, <1>4 DEF Pass
  <2> QED  BY <2>1, <2>2, <1>5, <1>6, <1>7, <1>8
<1> QED  BY <1>9, <1>10, <1>11 DEF Next

\* Every variable keeps its type, for any outputs and any pins.
THEOREM TypeCorrect == Spec => []TypeOK
BY InitTypes, StepTypes, PTL DEF Spec

\* In every plan links are made from, a port stands for one output and is a port
\* JackTrip was asked for.
THEOREM PortsAreUnambiguous == Spec => []SlicesAreApart
<1>1. TypeOK => SlicesAreApart
  <2> SUFFICES ASSUME TypeOK, NEW h \in Hosts, fabric[h] # None,
                      NEW m \in {fabric[h].send, fabric[h].receive},
                      NEW d \in EndpointsOf(m), NEW e \in EndpointsOf(m)
               PROVE  /\ d # e => Slice(m, d) \cap Slice(m, e) = {}
                      /\ Slice(m, d) \subseteq 1..Width(m)
    BY DEF SlicesAreApart
  <2>1. fabric[h] \in Record
    BY DEF TypeOK
  <2>2. m \in Manifest
    BY <2>1 DEF Record
  <2> QED  BY <2>2, SlicesOfManifest
<1> QED  BY <1>1, TypeCorrect, PTL
----------------------------------------------------------------------------
(* Two ends that agree. *)

LEMMA OtherHost == \A h \in Hosts : Other(h) \in Hosts /\ Other(Other(h)) = h
BY SessionAssumption DEF Other, Hosts

\* What agreement says of the plan and the process of a host.
LEMMA AgreedPlan ==
    ASSUME TypeOK, InAgreement, NEW h \in Hosts
    PROVE  /\ Linkable(h)
           /\ fabric[h].send = outputs[Other(h)] /\ outputs[Other(h)] \in Manifest
           /\ fabric[h].receive = outputs[h] /\ outputs[h] \in Manifest
           /\ fabric[h].available = TRUE
           /\ process[h].send = Width(outputs[Other(h)])
           /\ process[h].receive = Width(outputs[h])
<1>1. outputs[h] \in Manifest /\ outputs[Other(h)] \in Manifest
  BY OtherHost DEF TypeOK
<1>2. fabric[h] = Planned(outputs[h], outputs[Other(h)]) /\ process[h] = Arguments(fabric[h])
  BY DEF InAgreement
<1>3. fabric[h] \in Record
  BY <1>1, <1>2 DEF Planned, Record
<1>4. process[h] \in Process
  BY <1>2, <1>3, ArgumentsType
<1>5. Linkable(h)
  BY <1>3, <1>4, NoneAssumption DEF Linkable
<1> QED  BY <1>1, <1>2, <1>5 DEF Planned, Arguments

\* All of the slice of an output can be sent to, and it begins with a port.
LEMMA AgreedPorts ==
    ASSUME TypeOK, InAgreement, NEW h \in Hosts, NEW e \in EndpointsOf(outputs[Other(h)])
    PROVE  /\ SendPorts(h, e) = Slice(outputs[Other(h)], e)
           /\ First(outputs[Other(h)], e) \in SendPorts(h, e)
           /\ First(outputs[Other(h)], e) \in Int
<1> DEFINE m == outputs[Other(h)]
<1>1. fabric[h].send = m /\ m \in Manifest /\ process[h].send = Width(m)
  BY AgreedPlan
<1> HIDE DEF m
<1>2. SendPorts(h, e) = Slice(m, e)
  BY <1>1, SlicesOfManifest DEF SendPorts, m
<1>3. First(m, e) \in Int
  <2>1. First(m, e) = Cardinality(Before(m, e)) + 1
    BY DEF First, Before
  <2> QED  BY <1>1, <2>1, ManifestFinite
<1>4. <<e, 1>> \in m
  <2>1. PICK c \in m : c[1] = e
    BY DEF EndpointsOf, m
  <2>2. c[2] \in 1..MaxChannels /\ \A k \in 1..c[2] : <<c[1], k>> \in m
    BY <1>1, <2>1 DEF Manifest
  <2>3. MaxChannels \in Nat
    BY SessionAssumption
  <2>4. 1 \in 1..c[2]
    BY <2>2, <2>3
  <2> QED  BY <2>1, <2>2, <2>4
<1>5. First(m, e) \in Slice(m, e)
  <2>1. <<e, 1>> \in {c \in m : c[1] = e} /\ First(m, e) + <<e, 1>>[2] - 1 = First(m, e)
    BY <1>3, <1>4
  <2> QED  BY <2>1 DEF Slice
<1> QED  BY <1>2, <1>3, <1>5 DEF m

\* What refresh has in mind for a pinned stream, once the two ends agree.
LEMMA AgreedEffect ==
    ASSUME TypeOK, InAgreement, NEW h \in Hosts
    PROVE  Effective(h) = {Wanted[h]} \cap EndpointsOf(outputs[Other(h)])
<1> DEFINE m == outputs[Other(h)]
           W == Wanted[h]
<1>1. Linkable(h) /\ fabric[h].available = TRUE /\ fabric[h].send = m /\ m \in Manifest
  BY AgreedPlan
<1>2. CASE W \in EndpointsOf(m)
  BY <1>1, <1>2, AgreedPorts DEF Effective
<1>3. CASE W \notin EndpointsOf(m)
  <2>1. Slice(m, W) = {}
    BY <1>3 DEF Slice, EndpointsOf
  <2>2. SendPorts(h, W) = {}
    BY <1>1, <2>1 DEF SendPorts
  <2> QED  BY <1>3, <2>2 DEF Effective
<1> QED  BY <1>2, <1>3

\* The other end has a link for each port of a slice, to the output of the slice.
LEMMA AgreedReceivers ==
    ASSUME TypeOK, InAgreement, NEW h \in Hosts
    PROVE  /\ \A e \in EndpointsOf(outputs[h]) : \A p \in Slice(outputs[h], e) :
                 \E l \in ReceiveLinks(h) : l[1] = p /\ l[2][1] = e
           /\ \A l \in ReceiveLinks(h) :
                 /\ l[2][1] \in EndpointsOf(outputs[h])
                 /\ l[1] \in Slice(outputs[h], l[2][1])
<1> DEFINE m == outputs[h]
<1>1. Linkable(h) /\ fabric[h].receive = m /\ m \in Manifest /\ process[h].receive = Width(m)
  BY AgreedPlan
<1>2. ReceiveLinks(h) =
        {l \in (1..Width(m)) \X m :
            l[2][1] \in EndpointsOf(m) /\ l[1] = First(m, l[2][1]) + l[2][2] - 1}
  BY <1>1 DEF ReceiveLinks
<1> HIDE DEF m
<1>3. ASSUME NEW e \in EndpointsOf(m), NEW p \in Slice(m, e)
      PROVE  \E l \in ReceiveLinks(h) : l[1] = p /\ l[2][1] = e
  <2>1. PICK k \in 1..MaxChannels : <<e, k>> \in m /\ p = First(m, e) + k - 1
    BY <1>1, SliceMember
  <2>2. p \in 1..Width(m)
    BY <1>1, SlicesOfManifest
  <2>3. <<p, <<e, k>>>> \in ReceiveLinks(h)
    BY <1>2, <2>1, <2>2
  <2> QED  BY <2>3
<1>4. ASSUME NEW l \in ReceiveLinks(h)
      PROVE  l[2][1] \in EndpointsOf(m) /\ l[1] \in Slice(m, l[2][1])
  <2>1. /\ l[2] \in {c \in m : c[1] = l[2][1]}
        /\ l[1] = First(m, l[2][1]) + l[2][2] - 1 /\ l[2][1] \in EndpointsOf(m)
    BY <1>2
  <2> QED  BY <2>1 DEF Slice
<1> QED  BY <1>3, <1>4 DEF m

\* The numbers mean the same at both ends.
LEMMA AgreedCarries == TypeOK => AgreedSoundIsHeard
<1> SUFFICES ASSUME TypeOK, InAgreement, NEW h \in Hosts,
                    Wanted[h] \in EndpointsOf(outputs[Other(h)]),
                    StreamInPlace(h), OutputsLinked(Other(h))
             PROVE  /\ Wanted[h] \in HeardBy(h)
                    /\ Carried(h, ReceiveLinks(Other(h))) = {Wanted[h]}
  BY DEF AgreedSoundIsHeard
<1> DEFINE o == Other(h)
           m == outputs[o]
           W == Wanted[h]
<1>1. fabric[h].send = m /\ m \in Manifest
  BY AgreedPlan
<1>2. Targets(h) = {W}
  <2>1. EndpointsOf(m) \subseteq Ids
    BY <1>1 DEF EndpointsOf, Manifest
  <2>2. W # None
    BY <2>1, SessionAssumption
  <2> QED  BY <2>2, AgreedEffect DEF StreamInPlace
<1>3. \A e \in EndpointsOf(m) : SendPorts(h, e) = Slice(m, e)
  BY AgreedPorts
<1>4. /\ \A e \in EndpointsOf(m) : \A p \in Slice(m, e) :
            \E l \in ReceiveLinks(o) : l[1] = p /\ l[2][1] = e
      /\ \A l \in ReceiveLinks(o) : l[2][1] \in EndpointsOf(m) /\ l[1] \in Slice(m, l[2][1])
  BY AgreedReceivers, OtherHost
<1> HIDE DEF o, m, W
<1>5. \A l \in outgoing[h], e \in EndpointsOf(m) : l[2] \in Slice(m, e) => e = W
  BY <1>1, <1>2, <1>3 DEF Targets, EndpointAt
<1>6. Carried(h, ReceiveLinks(o)) \subseteq {W}
  BY <1>4, <1>5 DEF Carried
<1>7. \E l \in ReceiveLinks(o) : l[2][1] = W /\ \E k \in outgoing[h] : k[2] = l[1]
  <2>1. PICK k \in outgoing[h] : W \in EndpointAt(h, k[2])
    BY <1>2 DEF Targets
  <2>2. W \in EndpointsOf(m) /\ k[2] \in Slice(m, W)
    BY <1>1, <1>3, <2>1 DEF EndpointAt
  <2>3. PICK l \in ReceiveLinks(o) : l[1] = k[2] /\ l[2][1] = W
    BY <1>4, <2>2
  <2> QED  BY <2>3
<1>8. W \in Carried(h, ReceiveLinks(o))
  BY <1>7 DEF Carried
<1>9. W \in HeardBy(h)
  <2>1. ReceiveLinks(o) \subseteq incoming[o]
    BY DEF OutputsLinked, o
  <2> QED  BY <1>7, <2>1 DEF HeardBy, Carried, o
<1> QED  BY <1>6, <1>8, <1>9 DEF o, W

\* In any behaviour, two ends that agree and have linked their sides by their own
\* plans carry a stream to the output it is pinned to and to no other.
THEOREM AgreedSoundArrives == Spec => []AgreedSoundIsHeard
BY TypeCorrect, AgreedCarries, PTL

----------------------------------------------------------------------------
(* Agreement lasts. *)

\* In agreement a pass plans what it planned before, and only a refresh touches
\* links.
LEMMA AgreedStep ==
    ASSUME TypeOK, InAgreement, [Next]_vars
    PROVE  /\ InAgreement'
           /\ UNCHANGED <<outputs, fabric, process, quiet>>
           /\ UNCHANGED <<incoming, outgoing>> \/ \E h \in Hosts : Refresh(h)
<1> DEFINE Goal == /\ InAgreement'
                   /\ UNCHANGED <<outputs, fabric, process, quiet>>
                   /\ UNCHANGED <<incoming, outgoing>> \/ \E h \in Hosts : Refresh(h)
<1>1. ASSUME NEW h \in Hosts, StartPass(h)  PROVE Goal
  <2>1. /\ UNCHANGED <<outputs, published, known, fabric, process, incoming, outgoing, quiet>>
        /\ copy' = [copy EXCEPT ![h] = published[h]] /\ pass' = [pass EXCEPT ![h] = "probing"]
    BY <1>1 DEF StartPass
  <2>2. \A g \in Hosts : pass'[g] = "probing" => copy'[g] = outputs[g]
    BY <2>1 DEF InAgreement, TypeOK
  <2> QED  BY <2>1, <2>2 DEF InAgreement
<1>2. ASSUME NEW h \in Hosts, PeerAnswers(h)  PROVE Goal
  <2> DEFINE record == Planned(copy[h], Served(h))
  <2>1. pass[h] = "probing"
    BY <1>2 DEF PeerAnswers, Probed
  <2>2. record = known[h]
    BY <2>1, OtherHost DEF InAgreement, Served
  <2>3. process[h] = Arguments(record) /\ quiet
    BY <2>2 DEF InAgreement
  <2>4. WithProcess(h, process[h])
    BY <1>2, <2>3 DEF PeerAnswers, Supervised
  <2>5. UNCHANGED <<process, incoming, outgoing>>
    BY <2>4 DEF WithProcess, TypeOK
  <2>6. UNCHANGED known
    BY <1>2, <2>2 DEF PeerAnswers, TypeOK
  <2>7. \A g \in Hosts : pass'[g] = "probing" => pass[g] = "probing" /\ copy'[g] = copy[g]
    BY <1>2 DEF PeerAnswers, Probed, TypeOK
  <2>8. UNCHANGED <<outputs, published, fabric, quiet>>
    BY <1>2 DEF PeerAnswers
  <2> HIDE DEF record
  <2> QED  BY <2>5, <2>6, <2>7, <2>8 DEF InAgreement
<1>3. ASSUME NEW h \in Hosts, HandOver(h)  PROVE Goal
  <2>1. /\ UNCHANGED <<outputs, published, copy, known, process, incoming, outgoing, quiet>>
        /\ fabric' = [fabric EXCEPT ![h] = known[h]]
        /\ pass' = [pass EXCEPT ![h] = "between"]
    BY <1>3 DEF HandOver
  <2>2. UNCHANGED fabric
    BY <2>1 DEF InAgreement, TypeOK
  <2>3. \A g \in Hosts : pass'[g] = "probing" => pass[g] = "probing"
    BY <2>1 DEF TypeOK
  <2> QED  BY <2>1, <2>2, <2>3 DEF InAgreement
<1>4. ASSUME NEW h \in Hosts, Refresh(h)  PROVE Goal
  <2>1. /\ UNCHANGED <<outputs, pass, copy, known, fabric, process, quiet>>
        /\ published' = [published EXCEPT ![h] = outputs[h]]
    BY <1>4 DEF Refresh
  <2>2. UNCHANGED published
    BY <2>1 DEF InAgreement, TypeOK
  <2> QED  BY <1>4, <2>1, <2>2 DEF InAgreement
<1>5. ASSUME NEW h \in Hosts,
             PeerMisses(h) \/ Restart(h) \/ Change(h) \/ Exit(h) \/ Calm
      PROVE  FALSE
  BY <1>5 DEF InAgreement, PeerMisses, Restart, Change, Exit, Calm
<1>6. CASE UNCHANGED vars
  BY <1>6 DEF vars, InAgreement
<1>7. CASE Next
  <2>1. Here \in Hosts
    BY DEF Hosts
  <2> QED  BY <1>1, <1>2, <1>3, <1>4, <1>5, <1>7, <2>1 DEF Next, Pass
<1> QED  BY <1>6, <1>7

\* A refresh of an end that agrees makes every receive link and takes none.
LEMMA RefreshLinksOutputs ==
    ASSUME TypeOK, InAgreement, NEW h \in Hosts, Refresh(h)
    PROVE  \A g \in Hosts : /\ incoming[g] \subseteq incoming'[g]
                            /\ g = h => ReceiveLinks(g) \subseteq incoming'[g]
<1>1. PICK i \in IncomingAfter(h) : incoming' = [incoming EXCEPT ![h] = i]
  BY DEF Refresh
<1>2. i = incoming[h] \cup ReceiveLinks(h)
  BY DEF IncomingAfter, InAgreement
<1> QED  BY <1>1, <1>2 DEF TypeOK

\* The links made for an output of the other host, of which there is one at least.
LEMMA AgreedLinks ==
    ASSUME TypeOK, InAgreement, NEW h \in Hosts, NEW e \in EndpointsOf(outputs[Other(h)])
    PROVE  /\ \E l \in LinksTo(h, e) : TRUE
           /\ \A l \in LinksTo(h, e) : EndpointAt(h, l[2]) = {e}
<1> DEFINE m == outputs[Other(h)]
           ports == SendPorts(h, e)
<1>1. fabric[h].send = m /\ m \in Manifest /\ process[h].send = Width(m)
  BY AgreedPlan
<1>2. /\ \A d \in EndpointsOf(m) : SendPorts(h, d) = Slice(m, d)
      /\ First(m, e) \in ports /\ First(m, e) \in Int
  BY AgreedPorts
<1>3. \A l \in LinksTo(h, e) : EndpointAt(h, l[2]) = {e}
  <2>1. \A l \in LinksTo(h, e) : l[2] \in SendPorts(h, e)
    BY DEF LinksTo
  <2>2. \A d \in EndpointsOf(m) : d # e => Slice(m, d) \cap Slice(m, e) = {}
    BY <1>1, SlicesOfManifest
  <2> QED  BY <1>1, <1>2, <2>1, <2>2 DEF EndpointAt
<1>4. <<1, First(m, e)>> \in LinksTo(h, e)
  <2> DEFINE width == Cardinality(ports)
  <2>1. ports \subseteq 1..process[h].send
    BY DEF SendPorts
  <2>2. process[h].send \in Nat
    BY <1>1, WidthType
  <2>3. IsFiniteSet(ports)
    BY <2>1, <2>2, FS_Interval, FS_Subset, 1 \in Int, process[h].send \in Int
  <2>4. width \in Nat /\ width # 0
    BY <1>2, <2>3, FS_CardinalityType, FS_EmptySet
  <2> HIDE DEF width
  <2>5. (IF 1 < width THEN 1 ELSE width) = 1
    BY <2>4
  <2>6. First(m, e) = First(fabric[h].send, e) + (IF 1 < width THEN 1 ELSE width) - 1
    BY <1>1, <1>2, <2>5
  <2>7. <<1, First(m, e)>> \in (1..Voices) \X SendPorts(h, e)
    BY <1>2, SessionAssumption
  <2> QED  BY <2>6, <2>7 DEF LinksTo, width
<1> QED  BY <1>3, <1>4

\* A refresh of an end that agrees has the stream play where it is pinned to, if
\* that output is there, and on no other output of the plan.
LEMMA RefreshMovesStream ==
    ASSUME TypeOK, InAgreement, NEW h \in Hosts, Refresh(h), Wanted[h] # None
    PROVE  UNION {EndpointAt(h, l[2]) : l \in outgoing'[h]} = Effective(h)
<1> DEFINE seen == {l \in outgoing[h] : EndpointAt(h, l[2]) # {}}
           wanted == UNION {LinksTo(h, e) : e \in Effective(h)}
<1>1. PICK links \in OutgoingAfter(h) : outgoing' = [outgoing EXCEPT ![h] = links]
  BY DEF Refresh
<1>2. outgoing'[h] = links
  BY <1>1 DEF TypeOK
<1>3. CASE Targets(h) = Effective(h)
  <2>1. links = outgoing[h]
    BY <1>3 DEF OutgoingAfter
  <2> QED  BY <1>2, <1>3, <2>1 DEF Targets
<1>4. CASE Targets(h) # Effective(h)
  <2>1. links = (outgoing[h] \ seen) \cup wanted
    BY <1>4, AgreedPlan DEF OutgoingAfter, InAgreement
  <2>2. \A l \in outgoing[h] \ seen : EndpointAt(h, l[2]) = {}
    OBVIOUS
  <2>3. \A e \in Effective(h) : e \in EndpointsOf(outputs[Other(h)])
    BY AgreedEffect
  <2>4. \A e \in Effective(h) : /\ \E l \in LinksTo(h, e) : TRUE
                                /\ \A l \in LinksTo(h, e) : EndpointAt(h, l[2]) = {e}
    BY <2>3, AgreedLinks
  <2>5. UNION {EndpointAt(h, l[2]) : l \in wanted} = Effective(h)
    <3>1. ASSUME NEW e \in Effective(h)
          PROVE  e \in UNION {EndpointAt(h, l[2]) : l \in wanted}
      <4>1. PICK l \in LinksTo(h, e) : EndpointAt(h, l[2]) = {e}
        BY <2>4
      <4>2. l \in wanted
        BY <4>1
      <4> QED  BY <4>1, <4>2
    <3>2. \A l \in wanted : EndpointAt(h, l[2]) \subseteq Effective(h)
      BY <2>4
    <3> QED  BY <3>1, <3>2
  <2> HIDE DEF seen, wanted
  <2> QED  BY <1>2, <2>1, <2>2, <2>5
<1> QED  BY <1>3, <1>4

\* No link is moved twice, and none is taken back, while the two ends agree.
THEOREM AgreementIsKept == Spec => AgreementLasts
<1> DEFINE Step == InAgreement =>
                /\ InAgreement'
                /\ \A h \in Hosts :
                      /\ StreamInPlace(h) \/ Refresh(h) => StreamInPlace(h)'
                      /\ OutputsLinked(h) \/ Refresh(h) => OutputsLinked(h)'
<1>1. TypeOK /\ [Next]_vars => Step
  <2> SUFFICES ASSUME TypeOK, [Next]_vars, InAgreement  PROVE Step
    OBVIOUS
  <2>1. /\ InAgreement'
        /\ UNCHANGED <<outputs, fabric, process, quiet>>
        /\ UNCHANGED <<incoming, outgoing>> \/ \E h \in Hosts : Refresh(h)
    BY AgreedStep
  <2>2. ASSUME NEW h \in Hosts, StreamInPlace(h) \/ Refresh(h)  PROVE StreamInPlace(h)'
    <3>1. \A e : SendPorts(h, e)' = SendPorts(h, e)
      BY <2>1 DEF SendPorts
    <3>2. \A p : EndpointAt(h, p)' = EndpointAt(h, p)
      BY <2>1, <3>1 DEF EndpointAt
    <3>3. Effective(h)' = Effective(h)
      BY <2>1, <3>1 DEF Effective, Linkable
    <3>4. CASE Wanted[h] = None
      BY <3>4 DEF StreamInPlace
    <3>5. CASE Wanted[h] # None /\ Refresh(h)
      BY <3>2, <3>3, <3>5, RefreshMovesStream DEF StreamInPlace, Targets
    <3>6. CASE Wanted[h] # None /\ ~Refresh(h)
      <4>1. outgoing'[h] = outgoing[h]
        BY <2>1, <3>6 DEF Refresh, TypeOK
      <4> QED  BY <2>2, <3>2, <3>3, <3>6, <4>1 DEF StreamInPlace, Targets
    <3> QED  BY <3>4, <3>5, <3>6
  <2>3. ASSUME NEW h \in Hosts, OutputsLinked(h) \/ Refresh(h)  PROVE OutputsLinked(h)'
    <3>1. ReceiveLinks(h)' = ReceiveLinks(h)
      BY <2>1 DEF ReceiveLinks, Linkable
    <3>2. incoming[h] \subseteq incoming'[h]
      BY <2>1, RefreshLinksOutputs
    <3>3. Refresh(h) => ReceiveLinks(h) \subseteq incoming'[h]
      BY RefreshLinksOutputs
    <3> QED  BY <2>3, <3>1, <3>2, <3>3 DEF OutputsLinked
  <2> QED  BY <2>1, <2>2, <2>3
<1>2. TypeOK /\ [Next]_vars => [Step]_vars
  BY <1>1
<1> QED  BY <1>2, TypeCorrect, PTL DEF Spec, AgreementLasts
=============================================================================
