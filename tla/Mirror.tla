------------------------------- MODULE Mirror -------------------------------
(***************************************************************************)
(* What nixaudiod promises of its snapshot of PipeWire: it is a reading of *)
(* the whole graph as it was at one moment, readings are taken over in the *)
(* order in which they were made, and nothing but a reading replaces one.  *)
(***************************************************************************)
CONSTANT
    Pictures \* what a reading can show

VARIABLES
    source,  \* what there is to read
    reading, \* the reading in hand
    copy     \* the last reading taken over

vars == <<source, reading, copy>>

Init ==
    /\ source \in Pictures
    /\ reading \in Pictures /\ copy \in Pictures

Change ==
    /\ source' \in Pictures
    /\ UNCHANGED <<reading, copy>>

\* One look at the source.  The source may change as it is looked at, but the
\* reading is of one moment.
Read ==
    /\ reading' = source
    /\ source' \in Pictures
    /\ UNCHANGED copy

TakeOver ==
    /\ copy' = reading
    /\ UNCHANGED <<source, reading>>

Next == Change \/ Read \/ TakeOver

Spec == Init /\ [][Next]_vars
=============================================================================
