------------------------------- MODULE MCNews -------------------------------
(* Instances of News for TLC. *)
EXTENDS News

CONSTANTS beta, gamma

Auto == [kind |-> "auto", ms |-> 0]
Fixed(ms) == [kind |-> "fixed", ms |-> ms]
Host == [rate |-> 48000, period |-> 128, bits |-> 16, queue |-> Auto, redundancy |-> 1]
Over(period, queue) ==
    [period |-> period, bits |-> Unset, queue |-> queue, redundancy |-> Unset]

\* Two peers.  The second has a period whose product wraps in a word of 2^19, and
\* a queue too short for it.
WithQueue(queue) ==
    [host |-> Host, named |-> Peers, formed |-> TRUE,
     port |-> [p \in Peers |-> IF p = beta THEN 46001 ELSE 46002],
     over |-> [p \in Peers |-> IF p = beta THEN Over(Unset, queue) ELSE Over(263, Fixed(1))]]

\* Two periods of the first peer are 5.3 ms: six milliseconds cover them, five do not.
SixAndFive == {WithQueue(Fixed(6)), WithQueue(Fixed(5))}
=============================================================================
