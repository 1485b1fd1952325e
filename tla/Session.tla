------------------------------ MODULE Session ------------------------------
(***************************************************************************)
(* One JackTrip session as its two ends see it.  Each host lists its own   *)
(* outputs in a manifest, cuts the channels of the session into slices     *)
(* from the two manifests it holds, and links its side: streams to the     *)
(* send ports of a slice, the receive ports of a slice to an output.       *)
(* Nothing but the manifests says which channel means which output, and    *)
(* each end works from manifests, plans and links of another moment.       *)
(*                                                                         *)
(* A manifest is the set of its channels <<output, number>>: outputs in    *)
(* the order of their ids, the channels of one in the order of their names *)
(* (label, revision and inputs take no part in planning).  When a session  *)
(* is believed in and when a process may be started is PeerSupervision's;  *)
(* here a probe is answered or not and a start succeeds or not.            *)
(*                                                                         *)
(* External: PipeWire (links die with a port of theirs) and JackTrip (what *)
(* enters a send port leaves the receive port of the same number).         *)
(***************************************************************************)
EXTENDS Integers, FiniteSets

CONSTANTS
    Here, There,   \* the two hosts
    Ids,           \* ids of outputs, as their places in the order of ids
    MaxChannels,   \* most channels of an output
    Layouts,       \* for each host, the sets of outputs it may have
    Wanted,        \* for each host, the other's output its stream is pinned to, or None
    Voices,        \* channels of that stream
    None

Hosts == {Here, There}
Other(h) == IF h = Here THEN There ELSE Here

\* The channels of an output are numbered from one.
Manifest == {m \in SUBSET (Ids \X (1..MaxChannels)) :
                \A c \in m : \A k \in 1..c[2] : <<c[1], k>> \in m}

ASSUME SessionAssumption ==
    /\ Here # There
    /\ Ids \subseteq Int /\ IsFiniteSet(Ids)
    /\ MaxChannels \in Nat \ {0}
    /\ Voices \in Nat \ {0}
    /\ None \notin Ids
    /\ Wanted \in [Hosts -> Ids \cup {None}]
    /\ \A h \in Hosts : Layouts[h] # {} /\ Layouts[h] \subseteq Manifest

VARIABLES
    outputs,    \* PipeWire: the channels of each host's own outputs
    published,  \* the manifest each control endpoint serves
    pass,       \* the fabric task: "between" passes, "probing" the other host, or "done"
    copy,       \* while it probes, the manifest of its own host it plans with
    known,      \* fabric::Runtime: the record of the other host, or None
    fabric,     \* the controller's copy of it, which links are made from
    process,    \* the JackTrip process: its two widths, or None
    incoming,   \* PipeWire: links <<receive port, channel of an output>>
    outgoing,   \* PipeWire: links <<channel of the stream, send port>>
    quiet       \* nothing fails or changes any more

vars == <<outputs, published, pass, copy, known, fabric, process, incoming, outgoing, quiet>>

----------------------------------------------------------------------------
(* slices and plan. *)

EndpointsOf(m) == {c[1] : c \in m}

\* Faulty: an output takes one channel less than it has.
FirstShort(m, e) == Cardinality({c \in m : c[1] < e /\ c[2] > 1}) + 1

\* ChannelSlice::first: one past the channels of the outputs before it.
First(m, e) == Cardinality({c \in m : c[1] < e}) + 1

Slice(m, e) == {First(m, e) + c[2] - 1 : c \in {c \in m : c[1] = e}}

\* Faulty: a host without outputs asks JackTrip for no channels.
WidthOfNone(m) == Cardinality(m)

Width(m) == IF m = {} THEN 1 ELSE Cardinality(m)

\* A record: the plan, as the manifests it was made from.
Record == [send : Manifest, receive : Manifest, available : BOOLEAN]
Process == [send : Nat \ {0}, receive : Nat \ {0}]

ASSUME NoneAssumption == None \notin Record /\ None \notin Process

\* plan: the peer's outputs are sent to, one's own are received for.  Manifests
\* pass validate_manifest: each output is listed once, with a channel at least.
Planned(local, remote) == [send |-> remote, receive |-> local, available |-> TRUE]

\* The channel counts among the arguments of JackTrip.
Arguments(r) == [send |-> Width(r.send), receive |-> Width(r.receive)]

----------------------------------------------------------------------------
(* The fabric task of host h.  The manifest is copied before the peer is    *)
(* probed, and the controller sees the result when the pass has ended.      *)

StartPass(h) ==
    /\ pass[h] = "between"
    /\ pass' = [pass EXCEPT ![h] = "probing"]
    /\ copy' = [copy EXCEPT ![h] = published[h]]
    /\ UNCHANGED <<outputs, published, known, fabric, process, incoming, outgoing, quiet>>

\* serve_connection, on the other host.
Served(h) == published[Other(h)]

Probed(h) ==
    /\ pass[h] = "probing"
    /\ pass' = [pass EXCEPT ![h] = "done"]
    /\ copy' = [copy EXCEPT ![h] = {}]

\* Faulty: supervise starts a session again that has the arguments it wants.
WithProcessAnew(h, p) ==
    /\ process' = [process EXCEPT ![h] = p]
    /\ incoming' = [incoming EXCEPT ![h] = {}]
    /\ outgoing' = [outgoing EXCEPT ![h] = {}]

\* kill, or an exit: the ports go, and their links with them.
WithProcess(h, p) ==
    /\ process' = [process EXCEPT ![h] = p]
    /\ IF p = process[h]
       THEN UNCHANGED <<incoming, outgoing>>
       ELSE /\ incoming' = [incoming EXCEPT ![h] = {}]
            /\ outgoing' = [outgoing EXCEPT ![h] = {}]

\* Faulty: a session that runs is left alone whatever its arguments.
PeerAnswersKeeping(h) ==
    LET record == Planned(copy[h], Served(h)) IN
    /\ Probed(h)
    /\ known' = [known EXCEPT ![h] = record]
    /\ WithProcess(h, IF process[h] = None THEN Arguments(record) ELSE process[h])
    /\ UNCHANGED <<outputs, published, fabric, quiet>>

\* supervise, with a record that is available: it keeps a process that has these
\* arguments and replaces any other, or waits or fails with none in its place (when
\* all is quiet, the pauses have been served).
Supervised(h, record) ==
    \/ WithProcess(h, Arguments(record))
    \/ ~quiet /\ process[h] # Arguments(record) /\ WithProcess(h, None)

\* probe and plan succeed, and supervise goes by the new plan.
PeerAnswers(h) ==
    LET record == Planned(copy[h], Served(h)) IN
    /\ Probed(h)
    /\ known' = [known EXCEPT ![h] = record]
    /\ Supervised(h, record)
    /\ UNCHANGED <<outputs, published, fabric, quiet>>

\* The probe fails: the record stays, and supervise goes by it until some misses have
\* made it unavailable.
PeerMisses(h) ==
    /\ ~quiet
    /\ Probed(h)
    /\ \/ /\ known[h] # None /\ known[h].available
          /\ Supervised(h, known[h])
          /\ UNCHANGED known
       \/ /\ known' = IF known[h] = None THEN known
                      ELSE [known EXCEPT ![h].available = FALSE]
          /\ UNCHANGED <<process, incoming, outgoing>>
    /\ UNCHANGED <<outputs, published, fabric, quiet>>

HandOver(h) ==
    /\ pass[h] = "done"
    /\ fabric' = [fabric EXCEPT ![h] = known[h]]
    /\ pass' = [pass EXCEPT ![h] = "between"]
    /\ UNCHANGED <<outputs, published, copy, known, process, incoming, outgoing, quiet>>

----------------------------------------------------------------------------
(* refresh on host h: Graph::inspect, the receive side, the stream, and the  *)
(* manifest, all from one picture of PipeWire.                               *)

Linkable(h) == fabric[h] # None /\ process[h] # None

\* Faulty: receive ports are taken from the start, whatever the slice.
ReceiveLinksFromFirst(h) ==
    IF ~Linkable(h) THEN {}
    ELSE {l \in (1..process[h].receive) \X outputs[h] :
             /\ l[2][1] \in EndpointsOf(fabric[h].receive)
             /\ l[1] = l[2][2]}

\* reconcile_transport: every channel an output has now, counted from the first
\* of its slice, if the process has such a receive port.
ReceiveLinks(h) ==
    IF ~Linkable(h) THEN {}
    ELSE {l \in (1..process[h].receive) \X outputs[h] :
             /\ l[2][1] \in EndpointsOf(fabric[h].receive)
             /\ l[1] = First(fabric[h].receive, l[2][1]) + l[2][2] - 1}

\* It makes what is missing, removes nothing, and ends at the first failure.
IncomingAfter(h) ==
    {incoming[h] \cup ReceiveLinks(h)}
        \cup IF quiet THEN {} ELSE {incoming[h] \cup made : made \in SUBSET ReceiveLinks(h)}

\* endpoint_ports of a remote output: all of its slice, or nothing.
SendPorts(h, e) ==
    LET slice == Slice(fabric[h].send, e) IN
    IF slice \subseteq 1..process[h].send THEN slice ELSE {}

EndpointAt(h, port) == {e \in EndpointsOf(fabric[h].send) : port \in SendPorts(h, e)}

\* The remote outputs the stream seems to play on.
Targets(h) == UNION {EndpointAt(h, l[2]) : l \in outgoing[h]}

\* resolve: the pinned output while it can carry sound, else one of this host.
Effective(h) ==
    {e \in {Wanted[h]} : Linkable(h) /\ fabric[h].available /\ SendPorts(h, e) # {}}

LinksTo(h, e) ==
    {l \in (1..Voices) \X SendPorts(h, e) :
        LET width == Cardinality(SendPorts(h, e)) IN
        l[2] = First(fabric[h].send, e) + (IF l[1] < width THEN l[1] ELSE width) - 1}

\* The stream is moved when it seems to play elsewhere: the links to known ports
\* go one by one, the new ones come one by one, and a failure ends it.
OutgoingAfter(h) ==
    LET seen == {l \in outgoing[h] : EndpointAt(h, l[2]) # {}}
        wanted == UNION {LinksTo(h, e) : e \in Effective(h)}
    IN  IF ~Linkable(h) \/ Wanted[h] = None \/ Targets(h) = Effective(h)
        THEN {outgoing[h]}
        ELSE {(outgoing[h] \ seen) \cup wanted}
             \cup IF quiet THEN {}
                  ELSE {outgoing[h] \ gone : gone \in SUBSET seen}
                       \cup {(outgoing[h] \ seen) \cup made : made \in SUBSET wanted}

Refresh(h) ==
    /\ \E links \in IncomingAfter(h) : incoming' = [incoming EXCEPT ![h] = links]
    /\ \E links \in OutgoingAfter(h) : outgoing' = [outgoing EXCEPT ![h] = links]
    /\ published' = [published EXCEPT ![h] = outputs[h]]
    /\ UNCHANGED <<outputs, pass, copy, known, fabric, process, quiet>>

----------------------------------------------------------------------------
(* The daemon of h starts again, without its processes, its records and, if  *)
(* the first graph cannot be read, its outputs.                              *)

Restart(h) ==
    /\ ~quiet
    /\ WithProcess(h, None)
    /\ known' = [known EXCEPT ![h] = None]
    /\ fabric' = [fabric EXCEPT ![h] = None]
    /\ pass' = [pass EXCEPT ![h] = "between"]
    /\ copy' = [copy EXCEPT ![h] = {}]
    /\ \E m \in {outputs[h], {}} : published' = [published EXCEPT ![h] = m]
    /\ UNCHANGED <<outputs, quiet>>

----------------------------------------------------------------------------
(* Around the daemons. *)

ChannelsOf(m, e) == {c \in m : c[1] = e}

\* Outputs are plugged in or out, or change their channels; one that changes is
\* a new node with new ports.
Change(h) ==
    /\ ~quiet
    /\ \E m \in Layouts[h] \ {outputs[h]} :
          /\ outputs' = [outputs EXCEPT ![h] = m]
          /\ incoming' = [incoming EXCEPT ![h] =
                {l \in @ : ChannelsOf(m, l[2][1]) = ChannelsOf(outputs[h], l[2][1])}]
    /\ UNCHANGED <<published, pass, copy, known, fabric, process, outgoing, quiet>>

Exit(h) ==
    /\ ~quiet
    /\ process[h] # None
    /\ WithProcess(h, None)
    /\ UNCHANGED <<outputs, published, pass, copy, known, fabric, quiet>>

Calm ==
    /\ ~quiet
    /\ quiet' = TRUE
    /\ UNCHANGED <<outputs, published, pass, copy, known, fabric, process, incoming, outgoing>>

----------------------------------------------------------------------------

Init ==
    /\ outputs \in [Hosts -> Manifest] /\ \A h \in Hosts : outputs[h] \in Layouts[h]
    /\ published \in [Hosts -> Manifest]
    /\ \A h \in Hosts : published[h] \in {outputs[h], {}}
    /\ pass = [h \in Hosts |-> "between"]
    /\ copy = [h \in Hosts |-> {}]
    /\ known = [h \in Hosts |-> None]
    /\ fabric = [h \in Hosts |-> None]
    /\ process = [h \in Hosts |-> None]
    /\ incoming = [h \in Hosts |-> {}]
    /\ outgoing = [h \in Hosts |-> {}]
    /\ quiet = FALSE

Pass(h) == StartPass(h) \/ PeerAnswers(h) \/ PeerMisses(h) \/ HandOver(h)

Next ==
    \/ \E h \in Hosts : Pass(h) \/ Refresh(h) \/ Restart(h) \/ Change(h) \/ Exit(h)
    \/ Calm

Spec == Init /\ [][Next]_vars

\* The fabric task is a loop whose waits all time out, and posts an event after
\* every pass.
FairSpec == Spec /\ \A h \in Hosts : WF_vars(Pass(h)) /\ WF_vars(Refresh(h))

----------------------------------------------------------------------------
(* Properties. *)

\* Every variable holds what its type in the code, or PipeWire, can hold.
TypeOK ==
    /\ outputs \in [Hosts -> Manifest]
    /\ published \in [Hosts -> Manifest]
    /\ pass \in [Hosts -> {"between", "probing", "done"}]
    /\ copy \in [Hosts -> Manifest]
    /\ known \in [Hosts -> {None} \cup Record]
    /\ fabric \in [Hosts -> {None} \cup Record]
    /\ process \in [Hosts -> {None} \cup Process]
    /\ incoming \in [Hosts -> SUBSET (Nat \X (Ids \X (1..MaxChannels)))]
    /\ outgoing \in [Hosts -> SUBSET ((1..Voices) \X Nat)]
    /\ quiet \in BOOLEAN

\* A port stands for one output: in whatever plan links are made from, the slices
\* of different outputs are apart, and all are within the width JackTrip is asked
\* for.  target_by_port keeps one output per port and would hide the others.
SlicesAreApart ==
    \A h \in Hosts : fabric[h] # None =>
        \A m \in {fabric[h].send, fabric[h].receive} : \A d, e \in EndpointsOf(m) :
            /\ d # e => Slice(m, d) \cap Slice(m, e) = {}
            /\ Slice(m, d) \subseteq 1..Width(m)

\* The outputs of the other host that the stream of h reaches through its links.
Carried(h, links) ==
    LET sent == {l[2] : l \in outgoing[h]} IN
    {l[2][1] : l \in {l \in links : l[1] \in sent}}

\* The outputs of the other host that the stream of h comes out of.
HeardBy(h) == Carried(h, incoming[Other(h)])

\* Both ends plan from the outputs as they are, and run what they planned.
InAgreement ==
    /\ quiet
    /\ \A h \in Hosts :
          /\ published[h] = outputs[h]
          /\ pass[h] = "probing" => copy[h] = outputs[h]
          /\ known[h] = Planned(outputs[h], outputs[Other(h)])
          /\ fabric[h] = known[h]
          /\ process[h] = Arguments(known[h])

\* A refresh of h has moved the stream, and one has linked the outputs of h.
StreamInPlace(h) == Wanted[h] = None \/ Targets(h) = Effective(h)
OutputsLinked(h) == ReceiveLinks(h) \subseteq incoming[h]

\* The numbers mean the same at both ends: once they agree, and each has linked
\* its side by its own plan, the links of that plan carry a stream to the output
\* it is pinned to and to no other.
AgreedSoundIsHeard ==
    InAgreement => \A h \in Hosts :
        /\ Wanted[h] \in EndpointsOf(outputs[Other(h)])
        /\ StreamInPlace(h)
        /\ OutputsLinked(Other(h))
        => /\ Wanted[h] \in HeardBy(h)
           /\ Carried(h, ReceiveLinks(Other(h))) = {Wanted[h]}

\* Agreement is not lost by probing, planning and linking over and over: no
\* session is restarted, no link that is in place is taken, and one refresh of
\* each end puts its side in place.
AgreementLasts ==
    [][InAgreement =>
        /\ InAgreement'
        /\ \A h \in Hosts :
              /\ StreamInPlace(h) \/ Refresh(h) => StreamInPlace(h)'
              /\ OutputsLinked(h) \/ Refresh(h) => OutputsLinked(h)']_vars

\* Both ends derive complementary channel counts and the same slices, from
\* manifests neither can be sure the other holds: once the world keeps still, they
\* come to agree.  What a stream is pinned to across hosts is then where it is
\* heard: if the output is there, the stream comes out of it for ever.
PinnedSoundArrives ==
    <>[]quiet =>
        <>[](/\ InAgreement
             /\ \A h \in Hosts :
                   Wanted[h] \in EndpointsOf(outputs[Other(h)]) => Wanted[h] \in HeardBy(h))

\* README: the outputs of a peer occupy slices of the session.  Once the world
\* keeps still, a stream comes out of no output but the one it is pinned to.
NoOtherOutputHears ==
    <>[]quiet => <>[](\A h \in Hosts : HeardBy(h) \subseteq {Wanted[h]})
=============================================================================
