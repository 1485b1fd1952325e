# nixaudio in TLA+

nixaudio routes the audio of a handful of computers: a daemon on each host (`nixaudiod`) supervises
one JackTrip process per peer, decides where streams play, and remembers what the user asked for.
This directory models that program, checks the models with TLC and proves what matters most with
TLAPS. Paths below are relative to the repository.

## The system

| Part | State | Operations | Talks to |
|---|---|---|---|
| Fabric task, `src/fabric.rs` (`Runtime`) and the loop in `main` | records of peers, misses of peers never seen, JackTrip workers, spawn backoffs | a pass every two seconds: load the configuration, probe, observe and supervise each peer, retire removed ones | peers' control endpoints (TCP), JackTrip (child processes), the controller (hands it its records, reads its configuration) |
| Controller and refresh, `src/bin/nixaudiod.rs` | configuration, persisted state, last fabric records, last graph, revision, stale flag, under one lock | `Route`, `ClearRoute`, `SetDefault*`, volume and mute over D-Bus; `refresh` after every event | PipeWire (`pw-dump`, `pw-link`, `wpctl`), `state.json` |
| Graph, `src/graph.rs` | a snapshot of PipeWire, never updated | build a snapshot and name its nodes; decide (`resolve`); act (`apply_route`, `reconcile_*`) | PipeWire |
| Session planning, `src/fabric.rs` (`plan`, `slices`) | none | the channel slices and arguments of a session from two manifests | the peer's planning, which has to agree |
| Control endpoint, `src/fabric.rs` (`serve`) | none | one greeting, one manifest | peers' probes |
| PipeWire monitor, `watch_pipewire` | ids last announced as relevant | wake the refresh loop | `pw-dump --monitor` |
| Configuration, `src/config.rs` | none | defaults, overrides per peer, validation | the file the Nix modules write |
| Persisted state, `src/state.rs` | `state.json` | load, save | disk |
| Tray and command line client, `src/bin` | the tray's last snapshot | D-Bus calls; the tray edits target sets | the daemon |
| ALSA guard, `modules/guard.nix`, `modules/nixos.nix` | a file of attempts | a oneshot script launched by WirePlumber's start and a timer | WirePlumber, PipeWire, systemd |
| Other Nix modules, `modules/`, `home/`, `system-manager/` | none | generate configuration and units | |

What is hard in it: probes that fail for many reasons and must not be believed too soon; processes
that exit while nobody looks; a configuration that changes during a pass; requests that work from a
picture of PipeWire that is already old, with commands that fail half way; a state file written at
another moment than memory; a guard that restarts the unit that launches it.

What makes each part correct:

* fabric task: one live process per peer, never a leaked one; presence that follows the evidence; a
  session that outlives silence; starts throttled by their failures and yet never given up;
* controller: accepted intent survives fallbacks, failures and restarts; fallback and reclaim
  converge; streams nobody asked about are left alone;
* device names: a remembered name means the device it was chosen for, and remembered defaults come to
  be in force;
* session planning: both ends mean the same endpoint by a channel once both hold current manifests;
* monitor and clients: no change is lost, nothing is announced that did not happen;
* configuration: what is accepted stays within the limits promised, at any width of integer;
* guard: a budget of restarts, and a settling time, whatever is interrupted.

## Modules

| Module | Models |
|---|---|
| `PeerSupervision` | the fabric task |
| `PeerSupervisionHistory` | the same, with a record of what really happened beside it |
| `PeerSupervision_proofs` | theorems about `PeerSupervision` |
| `PeerSupervisionHistory_proofs` | theorems that relate the tables to the history |
| `Routing` | controller requests, refresh, graph decisions, `state.json` |
| `Routing_proofs` | theorems about `Routing` |
| `Devices` | names of local devices, both defaults, how they are enforced and remembered |
| `Devices_proofs` | theorems about `Devices` |
| `Session` | the two ends of a JackTrip session: manifests, slices, widths and links |
| `Session_proofs` | theorems about `Session` |
| `Monitor` | `watch_pipewire`, the channel of wake-ups, the main loop and its `pw-dump` |
| `Mirror` | what the snapshot promises: the abstract specification `Monitor` implements |
| `Monitor_proofs` | theorems about `Monitor`, the refinement among them |
| `Transport` | defaults, overrides per peer and validation, with machine integers |
| `News` | revision, `Changed`, the tray, and the configuration that is loaded again (uses `Transport`) |
| `News_proofs` | theorems about `News`, and what the validation of `Transport` guarantees |
| `Guard` | the ALSA guard's script, unit and timer |
| `Guard_proofs` | theorems about `Guard` |
| `MCRouting`, `MCDevices`, `MCSession`, `MCNews` | instances for TLC |

How they divide the daemon: `PeerSupervision` has the passes of the fabric task, `Session` what two of
them and the controllers' links make together, `Routing` and `Devices` what a refresh and a request do
to PipeWire, `Monitor` when a refresh happens and what it has seen, and `News` what becomes of it for
those who ask.

### PeerSupervision

A pass is a sequence of steps on the tables, because JackTrip exits, peers turn and the file is
edited between them. `StartPass` loads the configuration (or keeps the controller's when the file
does not load); `ProbeAnswered` and `ProbeMissed` are `observe`; `SuperviseAway`, `Keep`, `Wait`,
`Spawn` and `Fail` are the ways through `supervise`, each with the reaping that precedes it; `Retire`
is the end of `reconcile`. `peers`, `unseen`, `workers` and `spawnBackoff` are the fields of
`fabric::Runtime`; a missing entry is `Absent`, and a missing backoff is the default one, which the
code cannot tell from it. `children` counts processes and is what the tables are checked against.

A probe's outcome is a *plan* (what the manifest and ours lead to) or nothing. A transport is the
resolved command, queue and period of a peer. The visiting order of a pass is arbitrary although the
code's is alphabetical: properties that hold for every order hold for that one. A worker's age stops
at `HEALTHY_RUN`, with which alone it is compared, and misses at `MaxMisses`, where the code's
counter saturates (the code's bound is `u32::MAX`; the theorems hold for any). The count inside `unseen`
decides only what is logged and is left out. `kill` and `wait` are taken to succeed, as the code takes
them to.

`PeerSupervisionHistory` adds what each peer last answered, its silence since, its failed starts in a
row and the visits since the last. They are written from the world and from which step is taken, not
from the counters of the code, so that an error in those counters shows. Its specification also states
the fairness, so that one run checks everything said of the fabric task.

### Routing

Requests and refreshes hold the controller's write lock, so each is one step; between them anything
may change. `graph` is the snapshot of the last refresh, `links`, `ports`, `sink` and `playing` are
PipeWire now. `Applied` is `apply_route`: the links of the snapshot are removed one by one, then one
link per channel and target is made, and the first command that fails ends it; its result is every set
of links that can be left behind. A refresh acts on the snapshot it takes and keeps that snapshot, so
the next request works from links that are already gone. `Route` saves before it delivers,
`ClearRoute` after; `Saved` is whole or nothing (write and rename). `Restart` ends the JackTrip
processes (`kill_on_drop`) and reads the file back.

`quiet` marks the point from which nothing is asked, fails or changes any more; the convergence
properties speak of behaviours that reach it. `asked` and `doubtful` remember the last accepted
request for each intent and whether one was refused since.

Left out: the default input and ids of devices (`Devices`), the transport's receive links (`Session`),
the revision (`News`), volume and mute (no state).

### Devices

PipeWire knows a node by an id, which it hands out again, and by a serial, which it does not; nixaudio
knows it by a stem (device and profile) and gives all but the oldest of one stem its serial as a
suffix (`NameOf`). `graph` is the picture the controller holds, `reading` the one of a refresh under
way. A request (`SetDefault`) looks the name up in `graph`, runs `wpctl set-default` with the id found
there, which by now may be another node's or nobody's, and remembers the name; a refresh is three
steps (`Read`, then `Reconcile` for the output and for the input), since PipeWire may change between
the dump and each command, and a command that fails takes the rest of the refresh with it. Requests
meet no refresh half way: both hold the write lock. `endpoint_nodes` does not look at the class of a
node, and neither does `Named`.

`picked` remembers which node the last accepted request was for. Left out: volume and mute, which pass
a level on by the same stale ids and keep nothing; remote outputs as defaults (`Routing`); a PipeWire
that restarts and counts serials from the start.

### Monitor

`pw-dump --monitor` is a full dump and then one batch per change, in a pipe the daemon reads when it
gets to it. `relevant` is the code's set of ids, by which a removal, which has no type, is judged.
`wakeups` is the bounded channel; the main loop waits, settles, drains the channel, runs its own
`pw-dump` (`Drain` connects it, `PwDump` is its answer or failure) and decides. That `pw-dump` is a
client of the server it reads, and the monitor reports it: `dumper` is the id it occupies, so that ids
of clients and of nodes follow each other in every order. A server that stops ends every connection.
`ticking` is whether the fabric task runs; without it (`NIXAUDIO_DISABLE_NETWORK`) nothing but
PipeWire and requests wakes the loop.

What a snapshot shows (`Visible`) is not what wakes the loop (`Looks`, the types of `RELEVANT_TYPES`
that a snapshot shows): `from_values` also reads the names of the default devices from PipeWire's
metadata (`src/graph.rs:377`), whose type `RELEVANT_TYPES` does not list. `Metadata` are the ids of that
metadata and `Settings` what a snapshot shows of it; `Shown` has both kinds. Metadata is there as long
as the server runs: when the session manager starts again and makes it anew, nodes and links come and
go with it and wake the loop anyway. A `Device` is the opposite, relevant and shown by no snapshot: its
batches are wake-ups nothing depends on, as `Request` is. So the comment at `src/bin/nixaudiod.rs:199`,
"The PipeWire object types the snapshot is actually built from", is right about neither.

`Mirror` is what others may rely on: a copy that is a reading of the source at one moment, replaced by
later readings and by nothing else. `Abstract == INSTANCE Mirror WITH source <- Shown, copy <- graph`
is the refinement: the source is what a snapshot would show of the server, the copy the controller's
graph; the pipe, the channel and the loop are hidden.

### Transport and News

`Transport` is `transport_for` and `validate` of `src/config.rs`. Products wrap at `WORD`, which is
2^32 in the code and a constant here: `Fits` says of a link that its product does not wrap.

`News` composes it with the controller and its clients. `Inspected` is what a refresh builds, baked at
the revision there is and compared with the graph held; `Moved` decides whether there is a new
revision. `Refresh`, `RefreshFails` and `StartPass` each load the file again and keep what they have
when it does not load or validate; `DaemonStarts` ends instead. `Announce` is a step after `Refresh`:
the lock is released and a request or an inspection may come between. A tray (`Connect`, `Subscribe`,
`HandleChange`, `ReadForTick`, `WriteTick`) asks before it subscribes, as the code does, and amends a
stream's targets in two calls. `missed` is history: a reply other than the one this tray shows was
announced before it had subscribed, or came with a daemon that started again. What a request does to links is `Routing`'s; here it is accepted or refused, at each of
the points where the code can fail.

### Session

Two hosts, each with outputs (`outputs`), a manifest it serves (`published`), a fabric task (`pass`,
`copy`, `known`), the controller's copy of its record (`fabric`), a JackTrip process with two widths,
and links on both sides of it. A manifest is the set of its channels; `First` is the running sum of
`slices`, counted. A pass copies the host's own manifest, asks the other host for its own, replaces
the process when its arguments change, and hands its record over at its end; a refresh links by the
record it was handed last, to the ports it sees. A probe that fails leaves the record, and as long as
that is believed `supervise` starts or replaces a process by it all the same (`Supervised`). So the two hosts' passes and refreshes, and a pass
and a refresh of one host, meet in every order. What `PeerSupervision` and `Routing` settle is taken
from there in short: a probe is answered or not, a start succeeds or not, and one stream of each host
is pinned to an output of the other (or none is) with a local output to fall back on.

Left out: that JackTrip registers its ports one by one (a refresh in between sees a process that is
not there yet), and the channel names by which `apply_route` pairs ports (JackTrip's have none, so
that it pairs by number).

### Guard

One action per step of the script, so that a run can be stopped between any two; `StartWireplumber`
stops a running guard and launches another (`partOf`, `wantedBy`), `StopGuard` follows a WirePlumber
that stops (`bindsTo`), `TimerFires` launches an idle unit. A timer that fires while WirePlumber is
stopped starts both, since to be bound to a unit is to require it: that is `StartWireplumber`, and
differs from the comment at `modules/nixos.nix:72`, which says the guard never starts WirePlumber.
`attempts` is the file: a set of stamped lines, pruned by `awk` and a rename.
`now` keeps the last run's stamp. `restarts` is history. Logging out empties all three.

Assumed: the tools are on the script's PATH (without `awk` the file is emptied, the case the mutant
`RecentWithoutAwk` shows), and `date +%s` does not go backwards.

## Runs

| Run | Instance | Shows |
|---|---|---|
| `supervision` | 1 peer, 2 plans, 2 transports (one of a command that may fail), 2 misses, backoff to 3, healthy after 1 tick, fair | records match the evidence, pauses are served, sessions outlive silence, starts are throttled; sessions are restored, exited processes reaped, removed peers stopped, presence converges |
| `routing_intent` | 1 stream, 1 local and 1 remote output, 1 channel | types; accepted intent is what memory and disk say |
| `routing_settles` | 1 stream, 1 local and 2 remote outputs, 2 channels, any start, fair refresh | one refresh puts every stream that has a place there, with a link for each channel, and leaves one that is there already; so streams settle where they are pinned, on the default, or on a remote default; other streams are left alone |
| `routing_default_away` | 1 stream, 1 local and 1 remote output | violated: see findings |
| `devices` | 2 headsets of one model, 1 microphone, 3 ids, 3 appearances, fair refresh | a device chosen by its plain name keeps it; remembered defaults come to be in force |
| `devices_microphone` | a headset with one name for both directions, another microphone | violated: see findings |
| `session_settles` | 2 hosts, 2 outputs on one, of which one has one channel or two, fair | slices are apart; both ends come to agree, in plans and widths; agreement lasts and carries sound to the right output; a pinned stream is heard where it is pinned |
| `session_foreign` | 2 hosts, an output that is plugged in and out | violated: see findings |
| `monitor` | 3 ids, of which one is the metadata, room for 1 wake-up, 1 unread batch, fair | no announced change is lost, the graph is a reading and follows the server (without the fabric task but for the metadata), the daemon's own `pw-dump` wakes nobody and the daemon comes to rest, an outage is noticed |
| `news` | 1 tray, 2 states of PipeWire, 2 files of which one validates, 2 peers, revision modulo 2, fair | `Changed` is news; who was told shows what the daemon holds; the news arrives; no link in force is unsound |
| `news_ticks` | 1 tray, 2 outputs, no other client | violated: see findings |
| `guard_budget` | 2 repairs in 5 s, 2 polls, 9 s | the budget and the settling time hold |

Why the bounds are enough. The tables of the fabric task are per peer and only `StartPass`, `Retire`
and `Edit` touch several: one peer shows what can happen to a peer, and that peers do not interfere is
the theorems' (`NoSessionIsLeaked`, `RemovedPeersAreForgotten`, for any set of peers). Two misses, a
backoff of 0, 1, 3 and its ceiling of 3 reach every branch of `observe` and `penalise` (the code's 64
only lengthens the doubling). One stream is enough for links, which are per stream; several intents are
the theorem's. Two remote outputs give every combination of pinned, reachable and default that
`resolve` distinguishes. In `Devices` two nodes share a stem and three ids serve three nodes, so that
an id is handed out again to a node of either class; three appearances let a twin come, its elder go,
and it come back. In `Session` one host sends and the other's layout changes: what a host receives
depends on nothing but its own outputs and the widths, so the other direction repeats it. An output
that gains a channel moves the one after it, changes the width, and is for a while larger than its
slice; more outputs and channels are the theorem's. In `Monitor` one id is the
metadata and the other two are the daemon's `pw-dump` and one object, and they change places. A channel
of one is empty or full, so that every event meets room or is dropped; what is between, and an
announcement and a removal of one id that wait together in the pipe, are the theorems', which hold for
any capacity and any number of batches (larger bounds give millions of states). Revisions modulo two still differ
from the one before, which is all that is compared (the code's counter is 64 bits wide); signals
saturate at two, and a tray with two left must handle one more than a tray with one. `WORD` is 2^19 so
that a period both fits the configuration and makes the product wrap. Nine seconds and a window of five
let a budget of two be spent, expire and be spent again.

`monitor` runs without a deadlock check: without the fabric task, a daemon whose PipeWire is calm
rests, which is what `ComesToRest` says.

Convergence is checked from *any* links, intent and reachability (`AnyMoment`) with nothing changing
afterwards. That covers the states a behaviour can be in when it becomes quiet, and more.

## Fairness

* `WF(Pass)`: the fabric task is a loop whose every wait has a timeout (900 ms to connect, 900 ms to
  read, 2 s between passes). `SF(LoadsConfig)`: a file that loads is loaded; without it the
  controller's copy could be taken for ever.
* `WF(Pass(h))` and `WF(Refresh(h))` for each host of `Session`, for the same reasons.
* `WF(Refresh)`: the fabric task posts an event every two seconds even when PipeWire is silent, and
  `refresh` runs after each.
* `WF(Refresh)` in `Devices`: the same, a step at a time, since each command is killed after six
  seconds.
* `WF(Watching)`, `WF(Following)` in `Monitor`: the monitor's task and the main loop are always
  polled, and every command has a timeout. `WF(Tick)`: the fabric task, while it runs, posts an event
  after each pass. Properties that need it say `ticking`.
* `WF(Refresh)`, `WF(Announce)` and the tray's own steps in `News`: the same loop, and a client that is
  scheduled. Nothing obliges a user to tick anything.
* Convergence in `Devices`, `Monitor` and `News` speaks of behaviours that become calm (`quiet`): from
  some point on nothing is asked, nothing fails and the world stays.
* Nothing is assumed of peers, processes, users or PipeWire. The guard's properties need no fairness.

## Findings

* `NoOtherOutputHears`: links from receive ports are never taken back, and can be made by the plan of
  the process before (`src/graph.rs:813` against `README.md:42`).
* `DefaultFallsBack`: unpinned streams stay linked to a remote default whose peer is away
  (`src/bin/nixaudiod.rs:359` against `README.md:59`).
* `TicksAddUp`: a second tick on a stream's menu, made before the daemon has refreshed, is amended to
  the targets from before the first, and loses it (`src/bin/nixaudio-tray.rs:484` against the comment
  at `:479`).
* `MicrophoneIsRemembered`: a headset that plays and records under one profile name shares one name
  between both nodes, so what its microphone is remembered by depends on which node is older
  (`src/graph.rs:415` against `README.md:82`).

Seen while modelling and not made a run:

* a `ClearRoute` before the next refresh works from the links of before `Route`, and leaves the ones
  `Route` just made (`src/graph.rs:896` against `README.md:80`);
* a link that fails for one channel is not made again while the other channel's is there: refresh asks
  where a stream plays, and one link is enough for that (`src/bin/nixaudiod.rs:371`,
  `src/graph.rs:933`). `OneRefreshSettles` and `StreamsSettle` count such a stream as placed, as the
  code does (`AtItsPlace`); of a stream that a refresh places they ask for every channel's link;
* a PipeWire that does not answer fails the guard's unit (`modules/guard.nix:162` against `:88`);
* the tray asks for the snapshot before it subscribes (`src/bin/nixaudio-tray.rs:467`), so that a
  change between the two is not seen until the next one; and a daemon that starts again announces
  nothing, so that a tray keeps what it had. `HeardIsCurrent` and `NewsArrives` except exactly the tray
  this befalls (`missed`), until it asks again;
* a refresh that fails marks the snapshot stale and announces nothing (`src/bin/nixaudiod.rs:510`): a
  client is told of the recovery and not of the outage. `HeardIsCurrent` asks only that a warning is not
  shown longer than it is true;
* a default that `wpctl` or a mixer changes is a change of PipeWire's metadata and of nothing else, and
  `RELEVANT_TYPES` does not list that type (`src/bin/nixaudiod.rs:211`, against the comment at `:199`).
  While the fabric task runs, its events hide this; without it the snapshot keeps naming the old default
  until something else wakes the loop. `GraphIsFollowed` excepts the metadata in this case: TLC finds it
  violated without the exception;
* without the fabric task, also, a refresh that failed is tried again only when something else happens,
  and a monitor that starts over finds nothing to announce when no relevant object is there: the other
  two exceptions of `GraphIsFollowed`;
* the period times 2000 wraps for periods above 2147483, and a queue that is too short is accepted
  (`src/config.rs:222`); `LinksAreSound` excepts these links (`Fits`);
* `validate` refuses headroom above 500 ms and says it is past a cap of 250, which is also what the Nix
  module allows (`src/config.rs:377`, `modules/fabric.nix:273`);
* `endpoint_nodes` matches nodes of both classes: a remembered output name that a source bears too is
  selected for the other class, at every refresh;
* a younger twin, remembered with its suffix, loses that name when its elder leaves, and the
  remembered default then names nothing; `PlainChoiceIsUnderstood` speaks of plain names;
* volume, mute and defaults go by the ids of the last snapshot (`src/graph.rs:987`): an id handed out
  again in between is another device's;
* a worker that has run for long keeps its failure history when it ends while its peer is away, since
  `supervise` returns before it would forgive it (`src/fabric.rs:482`; the comment at `:99` does not
  say when forgiveness is given).

## Proofs

For every value of the constants, from the named assumptions only (`ConstantsAssumption`,
`HistoryAssumption`, `RoutingAssumption`, `DevicesAssumption`, `SessionAssumption`, `NoneAssumption`,
`MonitorAssumption`, `TransportAssumption`, `NewsAssumption`):

* `PeerSupervision_proofs`: `TypeCorrect`, `NoSessionIsLeaked`, `EveryPauseIsServed`,
  `RemovedPeersAreForgotten`. The inductive invariant adds `PassOK`, where a pass stands: without it a
  peer that is not configured could be supervised, and its transport would be no transport. The lemma
  `SuperviseStep` says what every way through `supervise` has in common, so that each conjunct is
  proved once for all five.
* `PeerSupervisionHistory_proofs`: `HistoryOnlyWatches`, `HistoryTypeCorrect`, `RecordsMatchEvidence`,
  `SilenceStopsNoSession`, `FailuresThrottleStarts`. The first brings over what is proved of
  `PeerSupervision`. The invariant `HIInv` says per peer that the record's plan and misses are those of
  the history (`RecordOK`) and that the pause is at least what the failures have earned, less the visits
  since (`PauseOK`). A visit does one of a few things to a peer and none to the others (`StepOfPeer`),
  so that each conjunct is followed for one peer through one step. The code doubles a pause and adds
  one, `PauseAfter` is a power of two: as induction is out of reach here, 2^k is taken as the number of
  subsets of 1..k (`PowerDoubles`), which one more element doubles.
* `Routing_proofs`: `TypeCorrect`, `AcceptedIntentSurvives`, `UnpinnedStreamsStay`, `LinksLeadToPorts`,
  `OneRefreshIsEnough`. Durability is inductive with the types: every step that takes memory and disk
  apart refuses its request. That one refresh settles a stream needs `InPipeWire`: links lead to ports
  that exist, so a refresh sees, and can remove, all of them. (The run checks the same from any links
  that are so; the theorem is about those a behaviour can leave.) It is the safety half of
  `StreamsSettle`: what fairness adds is that there is a refresh.
* `Session_proofs`: `TypeCorrect`, `PortsAreUnambiguous`, `AgreedSoundArrives`, `AgreementIsKept`. The
  first carries that whatever is held of a peer is a manifest; the second adds `SlicesOfManifest`: the
  place of a channel is the number of channels up to it, these all come before any later output, and so
  places differ and none exceeds the width. The other two are the safety half of `PinnedSoundArrives`:
  when both ends plan from the outputs as they are, each port of a slice leads to the output of that
  slice (`AgreedReceivers`), a refresh moves the stream to such ports (`RefreshMovesStream`), and no
  pass disturbs either (`AgreedStep`). That they come to agree is left to TLC. `AgreedSoundArrives`
  speaks of the links of the plan; older ones may be there as well (see findings).
* `Devices_proofs`: `TypeCorrect`, `PlainNamesKeepTheirMeaning`. A request names a node by a picture
  that may be old. `Dated` says that no picture shows a serial that has not been given out, and `Elder`
  that a picture shows every node that is there and is older than one it shows: so a picture of any
  age never misses the twin that has the plain name by right. `PickedIsSaved` ties the history to the
  disk, for restarts.
* `Monitor_proofs`: `TypeCorrect`, `GraphIsAReading` (the refinement), `RelevantIdsAreExact`,
  `AnnouncedChangesArrive`, `RefreshWakesNobody`. `Told` says what the unread batches, applied in order
  to the set of ids, come to: the ids that are relevant now. `Outage` says that no connection outlives
  the server. `DumperIsClient` keeps the daemon's own connection apart from
  the objects it looks at, and `UnderWay` is the conclusion of `AnnouncedChangesArrive` carried through
  the steps of a refresh. `RefreshWakesNobody` speaks of `Waking`, the unread batches that will wake the
  loop; that this is what it says, the lemma `WakingComesTrue` proves of the monitor's step. It is the
  safety half of `ComesToRest`: no refresh adds to what causes refreshes.
* `News_proofs`: `AcceptedLinksAbsorb`, about `Transport` alone, for every configuration whose products
  fit a word; `TypeCorrect`, `LinksInForceAreSound`, `ChangedIsNews`, `HeardShowsCurrent`. The
  graph held bears the current revision (`RevisionIsHeld`), without which the comparison in `Moved`
  would see a change that is none; configurations in force are validated (`Validated`), which with
  `AcceptedLinksAbsorb` makes them sound; a tray that is away shows nothing (`AwayShowsNothing`).
* `Guard_proofs`: `TypeCorrect`, `BudgetIsKept`, `SettlingTimeIsGranted`. The budget is inductive only
  with `OnFile` (a restart is on file for as long as it counts), which carries the count of the file
  over to the restarts.

Every invariant and every action property that a passing run checks is stated by a theorem. Only
model-checked: everything under fairness (the prover has no liveness reasoning here), though the safety
half of some of it is proved as said above, and what happens to a link whose product wraps.

## Plan

1. `PeerSupervision`, `Routing`, `Guard`, `Session` with their proofs: done.
2. `Monitor` with its abstract specification, `Transport`, `News`, `Devices` with their proofs: done.
3. The properties of `PeerSupervisionHistory`, one refresh that settles (`Routing`), a refresh that
   wakes nobody (`Monitor`) and two ends that agree (`Session`), with their proofs: done.
4. Abstract specifications worth stating next: a peer's presence, implemented by `PeerSupervision`; a
   route intent, implemented by `Routing`; a channel that carries an output's sound to that output,
   which `Session` implements from a point on that the code does not enforce (see findings).
5. Left to prove: the steps that keep remembered defaults in force. They need that no remembered name
   is borne by nodes of both classes, which the code does not ensure (see findings), so that the theorem
   has to say it of the names there are.

## Not modelled

* The reading of single properties out of `pw-dump`'s JSON, labels, health notes and volumes: data
  without behaviour over time, which no property here tells apart.
* How a queue is spelled, and the form of names and addresses: `formed` stands for their validation.
* The greeting and the size limit of the control endpoint: a probe that fails on them is a probe that
  fails.
* Menus, icons and wording of the tray; its other menu entries are single requests. The command line
  client is one D-Bus call per command.
* The Nix modules that generate files and units, and the health check that reads the daemon's health.
