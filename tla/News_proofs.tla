---------------------------- MODULE News_proofs ----------------------------
(***************************************************************************)
(* Proofs about News, for any clients, any states of PipeWire, any files   *)
(* and any targets: types, that only validated configurations are in force *)
(* and what follows for their links, that the revision moves for news      *)
(* only, and that whoever could hear of the news shows it.  What the       *)
(* validation of Transport guarantees comes first.                         *)
(***************************************************************************)
EXTENDS News, TLAPS

----------------------------------------------------------------------------
(* What config.rs's validation guarantees of every link, for any rates,    *)
(* periods, queues and overrides a u32 holds.                              *)

\* A quotient rounded up is enough.
LEMMA DivCeilCovers ==
    ASSUME NEW n \in Nat, NEW d \in Nat \ {0}
    PROVE  DivCeil(n, d) \in Nat /\ DivCeil(n, d) * d >= n
<1> DEFINE q == n \div d
           r == n % d
<1>1. q \in Nat /\ r \in 0..d - 1 /\ n = d * q + r
  OBVIOUS
<1> HIDE DEF q, r
<1>2. CASE r > 0
  <2>1. DivCeil(n, d) = q + 1
    BY <1>1, <1>2 DEF DivCeil, q, r
  <2>2. (q + 1) * d = d * q + d
    BY <1>1
  <2> QED  BY <1>1, <2>1, <2>2
<1>3. CASE r = 0
  <2>1. DivCeil(n, d) = q
    BY <1>1, <1>3 DEF DivCeil, q, r
  <2>2. q * d = d * q
    BY <1>1
  <2> QED  BY <1>1, <1>3, <2>1, <2>2
<1> QED  BY <1>1, <1>2, <1>3

\* A longer queue covers what a shorter one covers.
LEMMA LongerCovers ==
    ASSUME NEW a \in Nat, NEW b \in Nat, NEW d \in Nat, a >= b
    PROVE  a * d >= b * d
<1>1. PICK k \in Nat : a = b + k
  BY a - b \in Nat, a = b + (a - b)
<1>2. a * d = b * d + k * d /\ k * d >= 0 /\ k * d \in Nat /\ b * d \in Nat
  BY <1>1
<1> QED  BY <1>2

\* The links a configuration can have.
LEMMA LinkOf ==
    ASSUME NEW c \in Config, NEW p \in Peers
    PROVE  TransportFor(c, p) \in Link /\ TransportFor(c, p).rate = c.host.rate
<1>1. c.host \in Link /\ c.over[p] \in Override
  BY DEF Config
<1>2. /\ Else(c.over[p].period, c.host.period) \in Word
      /\ Else(c.over[p].bits, c.host.bits) \in 0..255
      /\ Else(c.over[p].queue, c.host.queue) \in Queue
      /\ Else(c.over[p].redundancy, c.host.redundancy) \in 0..255
  BY <1>1 DEF Override, Link, Else
<1>3. CASE p \in c.named
  BY <1>1, <1>2, <1>3 DEF TransportFor, Link
<1>4. CASE p \notin c.named
  BY <1>1, <1>4 DEF TransportFor
<1> QED  BY <1>3, <1>4

\* The minimum of a period whose product does not wrap covers two periods.
LEMMA MinimumCovers ==
    ASSUME NEW r \in Link, r.rate > 0, Fits(r)
    PROVE  /\ MinimumFixedMs(r) \in Nat
           /\ MinimumFixedMs(r) * r.rate >= 2000 * r.period
<1>1. r.rate \in Nat \ {0} /\ r.period \in Nat /\ 2000 * r.period \in Nat
  BY TransportAssumption DEF Link, Word
<1>2. (2000 * r.period) % WORD = 2000 * r.period
  BY <1>1, TransportAssumption DEF Fits
<1> DEFINE ms == DivCeil(2000 * r.period, r.rate)
<1>3. ms \in Nat /\ ms * r.rate >= 2000 * r.period
  BY <1>1, DivCeilCovers
<1>4. MinimumFixedMs(r) = IF ms < 1 THEN 1 ELSE ms
  BY <1>2 DEF MinimumFixedMs
<1> HIDE DEF ms
<1>5. CASE ms < 1
  BY <1>1, <1>3, <1>4, <1>5
<1>6. CASE ~(ms < 1)
  BY <1>3, <1>4, <1>6
<1> QED  BY <1>5, <1>6

\* A configuration that passes validation launches only links that can absorb one late
\* packet, at any rate and period whose product a word holds, and gives no two of them
\* the same port.
THEOREM AcceptedLinksAbsorb ==
    ASSUME NEW c \in Config, Accepts(c)
    PROVE  /\ PortsApart(c)
           /\ \A p \in c.named :
                 LET r == TransportFor(c, p) IN r.rate > 0 /\ (Fits(r) => Absorbs(r))
<1>1. PortsApart(c)
  BY DEF Accepts, PortsApart
<1>2. ASSUME NEW p \in c.named, NEW r, r = TransportFor(c, p)
      PROVE  r.rate > 0 /\ (Fits(r) => Absorbs(r))
  <2>1. r \in Link /\ r.rate > 0 /\ LinkAccepted(r)
    <3>1. p \in Peers
      BY DEF Config
    <3>2. r \in Link /\ r.rate = c.host.rate
      BY <1>2, <3>1, LinkOf
    <3>3. c.host.rate > 0 /\ LinkAccepted(r)
      BY <1>2 DEF Accepts
    <3> QED  BY <3>2, <3>3
  <2>2. ASSUME Fits(r), r.queue.kind = "fixed"
        PROVE  r.queue.ms * r.rate >= 2000 * r.period
    <3>1. /\ MinimumFixedMs(r) \in Nat /\ r.queue.ms >= MinimumFixedMs(r)
          /\ MinimumFixedMs(r) * r.rate >= 2000 * r.period
      BY <2>1, <2>2, MinimumCovers DEF LinkAccepted
    <3>2. r.queue.ms \in Nat /\ r.rate \in Nat /\ r.period \in Nat
      BY <2>1, TransportAssumption DEF Link, Queue, Word
    <3>3. r.queue.ms * r.rate >= MinimumFixedMs(r) * r.rate
      BY <3>1, <3>2, LongerCovers
    <3> HIDE DEF MinimumFixedMs
    <3> QED  BY <3>1, <3>2, <3>3
  <2> QED  BY <2>1, <2>2 DEF Absorbs
<1> QED  BY <1>1, <1>2

----------------------------------------------------------------------------
(* The daemon and its clients. *)

\* A reply in which the revision is the daemon's own: what a refresh finds differs from
\* what is held in the picture, or not at all.
RevisionIsHeld == held.revision = revision

\* Both configurations in force have passed validation.
Validated == Accepts(config) /\ Accepts(passConfig)

\* A tray that is away shows nothing, so that it needs no telling.
AwayShowsNothing == \A c \in Clients : phase[c] = "away" => view[c] = None

IInv == TypeOK /\ RevisionIsHeld /\ Validated

----------------------------------------------------------------------------
(* Types. *)

\* What a refresh finds is a picture at a revision there is.
LEMMA FoundTypes ==
    ASSUME TypeOK
    PROVE  /\ Loaded \in Files
           /\ Inspected \in Held
           /\ After(revision) \in 0..(Revisions - 1)
<1>1. Loaded \in Files
  BY DEF TypeOK, Loaded, Loads
<1>2. After(revision) \in 0..(Revisions - 1)
  BY NewsAssumption DEF TypeOK, After
<1> QED  BY <1>1, <1>2 DEF TypeOK, Inspected, Pictured, Picture, Held

LEMMA InitTypes == Init => TypeOK
<1> SUFFICES ASSUME Init PROVE TypeOK
  OBVIOUS
<1>1. 1 \in 0..(Revisions - 1) /\ 0 \in 0..MaxSignals
  BY NewsAssumption
<1>2. held \in Held
  BY <1>1 DEF Init, Held, Picture, Pictured
<1>3. quiet \in BOOLEAN /\ serving \in BOOLEAN /\ stale \in BOOLEAN
  BY DEF Init
<1> QED  BY <1>1, <1>2, <1>3 DEF Init, TypeOK

\* A request leaves target sets in memory and on disk.
LEMMA AskTypes ==
    ASSUME TypeOK, NEW targets \in SUBSET Targets, NEW accepted \in BOOLEAN,
           Ask(targets, accepted)
    PROVE  memory' \in SUBSET Targets /\ saved' \in SUBSET Targets
BY DEF TypeOK, Ask

\* The daemon's steps keep the types.
LEMMA DaemonTypes ==
    ASSUME TypeOK, Refresh \/ RefreshFails \/ Announce \/ StartPass \/ DaemonEnds \/ DaemonStarts
    PROVE  TypeOK'
<1>1. CASE Refresh
  <2>1. revision' \in 0..(Revisions - 1) /\ Inspected \in Held /\ Loaded \in Files
    BY <1>1, FoundTypes DEF Refresh, TypeOK
  <2>2. held' \in Held
    BY <1>1, <2>1 DEF Refresh, Held
  <2> QED  BY <1>1, <2>1, <2>2 DEF Refresh, TypeOK, clients
<1>2. CASE RefreshFails
  BY <1>2, FoundTypes DEF RefreshFails, TypeOK, clients
<1>3. CASE Announce
  <2>1. \A n \in 0..MaxSignals : Least(n + 1, MaxSignals) \in 0..MaxSignals
    BY NewsAssumption DEF Least
  <2>2. signals' \in [Clients -> 0..MaxSignals] /\ missed' \in [Clients -> BOOLEAN]
    BY <1>3, <2>1 DEF Announce, TypeOK
  <2> QED  BY <1>3, <2>2 DEF Announce, TypeOK
<1>4. CASE StartPass
  BY <1>4, FoundTypes DEF StartPass, TypeOK, clients
<1>5. CASE DaemonEnds
  BY <1>5 DEF DaemonEnds, TypeOK, clients
<1>6. CASE DaemonStarts
  <2>1. file \in Files
    BY <1>6 DEF DaemonStarts, Loads, TypeOK
  <2>2. 1 \in 0..(Revisions - 1)
    BY NewsAssumption
  <2>3. held' \in Held /\ stale' \in BOOLEAN
    BY <1>6, <2>1, <2>2 DEF DaemonStarts, Held, Picture, Pictured, TypeOK
  <2>4. missed' \in [Clients -> BOOLEAN]
    BY <1>6 DEF DaemonStarts, TypeOK
  <2> QED  BY <1>6, <2>1, <2>2, <2>3, <2>4 DEF DaemonStarts, TypeOK
<1> QED  BY <1>1, <1>2, <1>3, <1>4, <1>5, <1>6

\* So do the trays'.
LEMMA TrayTypes ==
    ASSUME TypeOK, NEW c \in Clients, Tray(c)
    PROVE  TypeOK'
<1>1. Reply \in Answer
  BY DEF TypeOK, Reply, Answer, Held
<1>2. CASE Connect(c)
  BY <1>1, <1>2 DEF Connect, Shows, Around, daemon, TypeOK
<1>3. CASE Subscribe(c)
  BY <1>3 DEF Subscribe, Around, daemon, TypeOK
<1>4. GivesUp(c) => /\ phase' \in [Clients -> {"away", "shown", "listening"}]
                    /\ signals' \in [Clients -> 0..MaxSignals]
                    /\ view' \in [Clients -> {None} \cup Answer]
                    /\ missed' \in [Clients -> BOOLEAN]
  BY NewsAssumption DEF GivesUp, Shows, TypeOK
<1>5. CASE HandleChange(c)
  <2>1. signals[c] - 1 \in 0..MaxSignals
    BY <1>5, NewsAssumption DEF HandleChange, TypeOK
  <2>2. CASE GivesUp(c)
    BY <1>4, <1>5, <2>2 DEF HandleChange, Around, daemon, TypeOK
  <2>3. CASE Shows(c, Reply) /\ UNCHANGED phase /\ signals' = [signals EXCEPT ![c] = @ - 1]
    BY <1>1, <1>5, <2>1, <2>3 DEF HandleChange, Shows, Around, daemon, TypeOK
  <2> QED  BY <1>5, <2>2, <2>3 DEF HandleChange
<1>6. ASSUME NEW target \in Targets, ReadForTick(c, target)
      PROVE  TypeOK'
  <2>1. CASE serving
    <3> DEFINE on == target \notin view[c].picture.targets
    <3>1. on \in BOOLEAN
      OBVIOUS
    <3>2. edit' = [edit EXCEPT ![c] =
                     [target |-> target, on |-> on, targets |-> held.picture.targets]]
      BY <1>6, <2>1 DEF ReadForTick
    <3> HIDE DEF on
    <3>3. edit' \in [Clients -> {None} \cup Edit]
      BY <3>1, <3>2 DEF TypeOK, Edit, Held, Picture
    <3> QED  BY <1>6, <2>1, <3>3 DEF ReadForTick, Around, daemon, TypeOK
  <2>2. CASE ~serving
    BY <1>4, <1>6, <2>2 DEF ReadForTick, Around, daemon, TypeOK
  <2> QED  BY <2>1, <2>2
<1>7. ASSUME NEW accepted \in BOOLEAN, WriteTick(c, accepted)
      PROVE  TypeOK'
  <2>1. Amended(edit[c].targets, edit[c]) \in SUBSET Targets
    BY <1>7 DEF WriteTick, TypeOK, Amended, Edit
  <2>2. memory' \in SUBSET Targets /\ saved' \in SUBSET Targets
    BY <1>7, <2>1, AskTypes DEF WriteTick, TypeOK
  <2> QED  BY <1>7, <2>2 DEF WriteTick, Around, daemon, TypeOK
<1> QED  BY <1>2, <1>3, <1>5, <1>6, <1>7 DEF Tray, Writes

\* Every step keeps the types.
LEMMA NextTypes == TypeOK /\ [Next]_vars => TypeOK'
<1> SUFFICES ASSUME TypeOK, [Next]_vars PROVE TypeOK'
  OBVIOUS
<1>1. CASE OtherAsks
  <2>1. memory' \in SUBSET Targets /\ saved' \in SUBSET Targets
    BY <1>1, AskTypes, NewsAssumption DEF OtherAsks
  <2> QED  BY <1>1, <2>1 DEF OtherAsks, TypeOK, daemon, clients
<1>2. CASE WorldChanges
  BY <1>2 DEF WorldChanges, TypeOK, daemon, clients
<1>3. CASE FileChanges
  BY <1>3 DEF FileChanges, TypeOK, daemon, clients
<1>4. CASE Calm
  BY <1>4 DEF Calm, TypeOK, daemon, clients
<1>5. CASE UNCHANGED vars
  BY <1>5 DEF vars, TypeOK, daemon, clients
<1> QED  BY <1>1, <1>2, <1>3, <1>4, <1>5, DaemonTypes, TrayTypes DEF Next

\* Whoever asks, edits, restarts or breaks the file, every variable keeps its type; the
\* configurations in force are files the daemon has read.
THEOREM TypeCorrect == Spec => []TypeOK
BY InitTypes, NextTypes, PTL DEF Spec

----------------------------------------------------------------------------
(* The daemon: the revision it holds, and the configurations in force. *)

LEMMA InitIInv == Init => IInv
BY InitTypes DEF Init, IInv, RevisionIsHeld, Validated

\* A file is taken over only when it is accepted, and a snapshot only together with the
\* revision there is.
LEMMA DaemonIInv ==
    ASSUME IInv, Refresh \/ RefreshFails \/ Announce \/ StartPass \/ DaemonEnds \/ DaemonStarts
    PROVE  RevisionIsHeld' /\ Validated'
<1> USE DEF IInv
<1>1. Accepts(Loaded)
  BY DEF Validated, Loaded, Loads
<1>2. CASE Refresh
  <2>1. held'.revision = revision'
    BY <1>2, FoundTypes DEF Refresh, Held
  <2>2. config' = Loaded /\ passConfig' = passConfig
    BY <1>2 DEF Refresh
  <2> QED  BY <1>1, <2>1, <2>2 DEF RevisionIsHeld, Validated
<1>3. CASE RefreshFails
  BY <1>1, <1>3 DEF RefreshFails, RevisionIsHeld, Validated
<1>4. CASE Announce
  BY <1>4 DEF Announce, RevisionIsHeld, Validated
<1>5. CASE StartPass
  BY <1>1, <1>5 DEF StartPass, RevisionIsHeld, Validated
<1>6. CASE DaemonEnds
  BY <1>6 DEF DaemonEnds, RevisionIsHeld, Validated
<1>7. CASE DaemonStarts
  <2>1. held'.revision = 1 /\ revision' = 1
    BY <1>7 DEF DaemonStarts
  <2>2. Accepts(config') /\ Accepts(passConfig')
    BY <1>7 DEF DaemonStarts, Loads
  <2> QED  BY <2>1, <2>2 DEF RevisionIsHeld, Validated
<1> QED  BY <1>2, <1>3, <1>4, <1>5, <1>6, <1>7

\* Nobody else touches what the daemon holds.
LEMMA OthersLeaveDaemon ==
    ASSUME OtherAsks \/ (\E c \in Clients : Tray(c)) \/ WorldChanges \/ FileChanges \/ Calm
    PROVE  UNCHANGED daemon
<1>1. ASSUME NEW c \in Clients, Tray(c)
      PROVE  UNCHANGED daemon
  BY <1>1 DEF Tray, Writes, Connect, Subscribe, HandleChange, ReadForTick, WriteTick, Around
<1> QED  BY <1>1 DEF OtherAsks, WorldChanges, FileChanges, Calm

LEMMA NextIInv == IInv /\ [Next]_vars => IInv'
<1> SUFFICES ASSUME IInv, [Next]_vars PROVE IInv'
  OBVIOUS
<1>1. TypeOK'
  BY NextTypes DEF IInv
<1>2. CASE UNCHANGED daemon
  BY <1>1, <1>2 DEF IInv, RevisionIsHeld, Validated, daemon
<1>3. CASE Refresh \/ RefreshFails \/ Announce \/ StartPass \/ DaemonEnds \/ DaemonStarts
  BY <1>1, <1>3, DaemonIInv DEF IInv
<1>4. CASE UNCHANGED vars
  BY <1>2, <1>4 DEF vars
<1> QED  BY <1>2, <1>3, <1>4, OthersLeaveDaemon DEF Next

\* Whatever the file becomes and whoever reads it, the links in force have their ports
\* to themselves and can absorb a late packet.
THEOREM LinksInForceAreSound == Spec => []LinksAreSound
<1>1. IInv => LinksAreSound
  <2> SUFFICES ASSUME IInv, NEW c \in {config, passConfig}
               PROVE  /\ PortsApart(c)
                      /\ \A p \in c.named :
                            LET r == TransportFor(c, p)
                            IN  r.rate > 0 /\ (Fits(r) => Absorbs(r))
    BY DEF LinksAreSound
  <2>1. c \in Config /\ Accepts(c)
    BY NewsAssumption DEF IInv, TypeOK, Validated
  <2> QED  BY <2>1, AcceptedLinksAbsorb
<1> QED  BY <1>1, InitIInv, NextIInv, PTL DEF Spec

----------------------------------------------------------------------------
(* News. *)

\* While the daemon runs, only a refresh moves the revision, and only for another reply.
LEMMA NewsStep ==
    ASSUME IInv, [Next]_vars, serving, serving', revision' # revision
    PROVE  Reply' # Reply
<1>1. Refresh
  BY OthersLeaveDaemon
     DEF Next, vars, daemon, RefreshFails, Announce, StartPass, DaemonEnds, DaemonStarts
<1>2. Moved /\ ~stale'
  BY <1>1 DEF Refresh
<1>3. CASE stale
  BY <1>2, <1>3 DEF Reply
<1>4. CASE ~stale
  <2>1. Inspected # held
    BY <1>2, <1>4 DEF Moved
  <2>2. Inspected \in Held /\ held \in Held /\ Inspected.revision = held.revision
    BY FoundTypes DEF IInv, TypeOK, RevisionIsHeld, Inspected
  <2>3. Inspected.picture # held.picture
    BY <2>1, <2>2 DEF Held
  <2>4. held'.picture = Inspected.picture
    BY <1>1, <2>2 DEF Refresh, Held
  <2> QED  BY <2>3, <2>4 DEF Reply
<1> QED  BY <1>3, <1>4

\* Changed is never sent for a reply that is the same as before.
THEOREM ChangedIsNews == Spec => NewsIsNews
<1>1. IInv /\ [Next]_vars => [serving /\ serving' /\ revision' # revision
                                => Reply' # Reply]_vars
  BY NewsStep
<1> QED  BY <1>1, InitIInv, NextIInv, PTL DEF Spec, NewsIsNews

----------------------------------------------------------------------------
(* Who has heard shows what there is. *)

Heard == HeardIsCurrent /\ AwayShowsNothing

LEMMA DaemonHeard ==
    ASSUME IInv, Heard,
           Refresh \/ RefreshFails \/ Announce \/ StartPass \/ DaemonEnds \/ DaemonStarts
    PROVE  Heard'
<1> USE DEF IInv, Heard
<1>1. CASE Refresh
  <2>1. CASE Moved
    BY <1>1, <2>1 DEF Refresh, HeardIsCurrent, AwayShowsNothing, clients
  <2>2. CASE ~Moved
    <3>1. ~stale /\ held' = held
      BY <1>1, <2>2, FoundTypes DEF Refresh, Moved, Inspected, TypeOK
    <3> QED  BY <1>1, <2>2, <3>1 DEF Refresh, HeardIsCurrent, AwayShowsNothing, clients
  <2> QED  BY <2>1, <2>2
<1>2. CASE RefreshFails
  BY <1>2 DEF RefreshFails, HeardIsCurrent, AwayShowsNothing, clients
<1>3. CASE Announce
  <2>1. AwayShowsNothing'
    BY <1>3 DEF Announce, AwayShowsNothing
  <2>2. ASSUME NEW c \in Clients, view[c] # None
        PROVE  missed'[c] \/ signals'[c] # 0 \/ view[c] = Reply
    <3>1. phase[c] = "shown" \/ phase[c] = "listening"
      BY <2>2 DEF AwayShowsNothing, TypeOK
    <3>2. signals[c] \in 0..MaxSignals /\ Least(signals[c] + 1, MaxSignals) # 0
      BY NewsAssumption DEF TypeOK, Least
    <3> QED  BY <1>3, <3>1, <3>2 DEF Announce
  <2> QED  BY <1>3, <2>1, <2>2 DEF Announce, HeardIsCurrent, Reply
<1>4. CASE StartPass
  BY <1>4 DEF StartPass, HeardIsCurrent, AwayShowsNothing, clients
<1>5. CASE DaemonEnds
  BY <1>5 DEF DaemonEnds, HeardIsCurrent, AwayShowsNothing, clients
<1>6. CASE DaemonStarts
  <2>1. AwayShowsNothing'
    BY <1>6 DEF DaemonStarts, AwayShowsNothing
  <2>2. \A c \in Clients : missed'[c] \/ view'[c] = None \/ view'[c] = Reply'
    BY <1>6 DEF DaemonStarts
  <2> QED  BY <2>1, <2>2 DEF HeardIsCurrent, Reply
<1> QED  BY <1>1, <1>2, <1>3, <1>4, <1>5, <1>6

\* A tray that asks shows the reply, and one that gets none shows nothing.
LEMMA TrayHeard ==
    ASSUME IInv, Heard, NEW c \in Clients, Tray(c)
    PROVE  Heard'
<1> USE DEF IInv, Heard
<1>1. UNCHANGED <<serving, loop, held, stale>>
  BY OthersLeaveDaemon DEF daemon
<1>2. ASSUME Shows(c, Reply), phase'[c] # "away",
             \A d \in Clients \ {c} : phase'[d] = phase[d] /\ signals'[d] = signals[d]
      PROVE  Heard'
  BY <1>1, <1>2 DEF Shows, Reply, HeardIsCurrent, AwayShowsNothing, TypeOK
<1>3. ASSUME GivesUp(c)
      PROVE  Heard'
  BY <1>1, <1>3 DEF GivesUp, Shows, HeardIsCurrent, AwayShowsNothing, TypeOK
<1>4. CASE Connect(c)
  BY <1>2, <1>4 DEF Connect, TypeOK
<1>5. CASE Subscribe(c)
  BY <1>1, <1>5 DEF Subscribe, HeardIsCurrent, AwayShowsNothing, TypeOK
<1>6. CASE HandleChange(c)
  BY <1>2, <1>3, <1>6 DEF HandleChange, TypeOK
<1>7. ASSUME NEW target \in Targets, ReadForTick(c, target)
      PROVE  Heard'
  <2>1. CASE serving
    BY <1>1, <1>7, <2>1 DEF ReadForTick, HeardIsCurrent, AwayShowsNothing
  <2>2. CASE ~serving
    BY <1>3, <1>7, <2>2 DEF ReadForTick
  <2> QED  BY <2>1, <2>2
<1>8. ASSUME NEW accepted \in BOOLEAN, WriteTick(c, accepted)
      PROVE  Heard'
  BY <1>1, <1>8 DEF WriteTick, HeardIsCurrent, AwayShowsNothing
<1> QED  BY <1>4, <1>5, <1>6, <1>7, <1>8 DEF Tray, Writes

\* Any number of trays: each that was listening when the daemon's reply changed, and has
\* handled its signals, shows the snapshot the daemon holds.
THEOREM HeardShowsCurrent == Spec => []HeardIsCurrent
<1>1. Init => Heard
  BY DEF Init, Heard, HeardIsCurrent, AwayShowsNothing
<1>2. IInv /\ Heard /\ [Next]_vars => Heard'
  <2> SUFFICES ASSUME IInv, Heard, [Next]_vars PROVE Heard'
    OBVIOUS
  <2>1. CASE UNCHANGED <<daemon, clients>>
    BY <2>1 DEF daemon, clients, Heard, HeardIsCurrent, AwayShowsNothing
  <2>2. CASE OtherAsks \/ WorldChanges \/ FileChanges \/ Calm \/ UNCHANGED vars
    BY <2>1, <2>2 DEF OtherAsks, WorldChanges, FileChanges, Calm, vars
  <2> QED  BY <2>2, DaemonHeard, TrayHeard DEF Next
<1>3. Heard => HeardIsCurrent
  BY DEF Heard
<1> QED  BY <1>1, <1>2, <1>3, InitIInv, NextIInv, PTL DEF Spec
=============================================================================
