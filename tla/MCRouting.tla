----------------------------- MODULE MCRouting -----------------------------
(* Instances of Routing for TLC. *)
EXTENDS Routing, TLC

CONSTANTS s1, k1

\* One stream, with an intent key of its own.
OneStream == s1 :> k1

\* A daemon and a PipeWire at any moment, from which nothing is asked and nothing
\* changes any more: links lead to ports there are, the default sink is one of
\* them, JackTrip has ports only for a peer that has answered once.
AnyMoment ==
    /\ ports \in SUBSET Endpoints
    /\ fabric \in [Remote -> {"unknown", "answering", "away"}]
    /\ \A r \in Remote \cap ports : fabric[r] # "unknown"
    /\ sink \in {None} \cup (Local \cap ports)
    /\ playing \in SUBSET Streams
    /\ links \in [Streams -> SUBSET LinksTo(ports)]
    /\ \A s \in Streams \ playing : links[s] = {}
    /\ memory \in State
    /\ disk = memory
    /\ graph = EmptyGraph
    /\ asked = memory.routes
    /\ doubtful = {}
    /\ quiet = TRUE

FromAnyMoment == AnyMoment /\ [][Next]_vars /\ WF_vars(Refresh)
=============================================================================
