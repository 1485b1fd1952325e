----------------------------- MODULE Transport -----------------------------
(***************************************************************************)
(* The transport of a JackTrip link as config.rs has it: host defaults,    *)
(* overrides per peer, and the validation a configuration has to pass      *)
(* before anything runs by it.                                             *)
(*                                                                         *)
(* Arithmetic is the code's: u32, which wraps in the release build that is *)
(* shipped (a debug build panics instead).                                 *)
(***************************************************************************)
EXTENDS Integers

CONSTANTS
    Peers,   \* names a configuration may have an entry for
    WORD,    \* 2^32, the number of values of a u32
    Unset    \* an override that is absent

ASSUME TransportAssumption == WORD \in Nat /\ 2000 < WORD /\ Unset \notin Int

Word == 0..(WORD - 1)
Port == 0..65535

\* Queue: auto, auto<ms> (adaptive, seeded with so many milliseconds) or a fixed
\* number of milliseconds.
Queue == [kind : {"auto", "headroom", "fixed"}, ms : Word]

\* ResolvedTransport: what one JackTrip process is launched with.
Link == [rate : Word, period : Word, bits : 0..255, queue : Queue, redundancy : 0..255]

\* PeerTransport: the overrides of one peer.  The sample rate has none.
Override == [period : Word \cup {Unset}, bits : (0..255) \cup {Unset},
             queue : Queue \cup {Unset}, redundancy : (0..255) \cup {Unset}]

\* Config: the host's defaults, the peers it has an entry for with their audio
\* ports and overrides, and whether all that is not about transport is well-formed
\* (names, addresses, command, ports other than 0).
Config == [host : Link, named : SUBSET Peers, port : [Peers -> Port],
           over : [Peers -> Override], formed : BOOLEAN]

Else(value, default) == IF value = Unset THEN default ELSE value

\* Config::transport_for: an override that is absent means the host's default, and
\* a peer without an entry gets the defaults.
TransportFor(c, p) ==
    IF p \notin c.named THEN c.host
    ELSE [rate |-> c.host.rate,
          period |-> Else(c.over[p].period, c.host.period),
          bits |-> Else(c.over[p].bits, c.host.bits),
          queue |-> Else(c.over[p].queue, c.host.queue),
          redundancy |-> Else(c.over[p].redundancy, c.host.redundancy)]

DivCeil(n, d) == n \div d + (IF n % d > 0 THEN 1 ELSE 0)

\* ResolvedTransport::minimum_fixed_ms: two periods in milliseconds, rounded up.
MinimumFixedMs(r) ==
    LET ms == DivCeil((2000 * r.period) % WORD, r.rate) IN IF ms < 1 THEN 1 ELSE ms

\* validate_transport.
LinkAccepted(r) ==
    /\ r.bits \in {8, 16, 24, 32}
    /\ r.period > 0
    /\ r.redundancy > 0
    /\ r.queue.kind = "fixed" => r.queue.ms > 0 /\ r.queue.ms >= MinimumFixedMs(r)
    /\ r.queue.kind = "headroom" => r.queue.ms <= 500

\* Faulty: every link is judged by the host's defaults.
AcceptsByHost(c) ==
    /\ c.formed
    /\ c.host.rate > 0
    /\ LinkAccepted(c.host)
    /\ \A p \in c.named, q \in c.named : p # q => c.port[p] # c.port[q]

\* Config::validate.
Accepts(c) ==
    /\ c.formed
    /\ c.host.rate > 0
    /\ LinkAccepted(c.host)
    /\ \A p \in c.named :
          /\ LinkAccepted(TransportFor(c, p))
          /\ \A q \in c.named \ {p} : c.port[p] # c.port[q]

----------------------------------------------------------------------------
(* What the limits are for. *)

\* The product in minimum_fixed_ms does not wrap.
Fits(r) == 2000 * r.period < WORD

\* A link can absorb one late packet: its queue adapts, or is as long as the two
\* periods of 2 * period / rate seconds.
Absorbs(r) == r.queue.kind = "fixed" => r.queue.ms * r.rate >= 2000 * r.period

\* No two links share a UDP port.
PortsApart(c) == \A p, q \in c.named : p # q => c.port[p] # c.port[q]
=============================================================================
