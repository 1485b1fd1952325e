----------------------------- MODULE MCDevices -----------------------------
(* Instances of Devices for TLC. *)
EXTENDS Devices, TLC

CONSTANTS left, right, mic, desk

\* Two headsets of one model, whose microphones are named apart from everything else.
TwoHeadsets == left :> "hyperx" @@ right :> "hyperx" @@ mic :> "mic" @@ desk :> "desk"

\* A headset that plays and records under one profile name, and another microphone.
Headset == left :> "hyperx" @@ mic :> "hyperx" @@ desk :> "desk"
=============================================================================
