------------------------------- MODULE Guard -------------------------------
(***************************************************************************)
(* The ALSA guard (modules/guard.nix, installed by modules/nixos.nix): a   *)
(* oneshot user unit that runs when WirePlumber starts and when its timer  *)
(* fires, polls the PipeWire graph, and restarts a WirePlumber that stays  *)
(* without devices although the kernel has cards.  The restart launches    *)
(* the guard again, so a budget kept in a file of the session's tmpfs is   *)
(* what keeps it from restarting for ever.                                 *)
(*                                                                         *)
(* The script is a sequence of steps, and may be stopped between any two   *)
(* of them: the unit is bound to and part of wireplumber.service.  The     *)
(* rest of the session (WirePlumber, PipeWire, the kernel's cards, time)   *)
(* changes under it.  Time is what `date +%s` returns, taken not to go     *)
(* backwards, and Horizon is where the model stops it.  Every tool the     *)
(* script names is on its PATH.                                            *)
(***************************************************************************)
EXTENDS Integers, FiniteSets

CONSTANTS
    MaxRepairs,  \* nixaudio.guard.maxRepairs
    Window,      \* nixaudio.guard.repairWindow, in seconds
    Settle,      \* nixaudio.guard.settleSeconds: polls, and seconds between them
    Horizon

ASSUME ConstantsAssumption ==
    /\ MaxRepairs \in Nat
    /\ Window \in Nat
    /\ Settle \in Nat \ {0}
    /\ Horizon \in Nat

VARIABLES
    clock,       \* seconds
    hardware,    \* has the kernel a card with a PCM device this session can see
    graph,       \* what pw-dump would make of PipeWire now
    wireplumber, \* is wireplumber.service running
    born,        \* when it was last started
    step,        \* the script's next step, or "off" while the unit is inactive
    polls,       \* polls this run has made
    polled,      \* when it made the last one
    now,         \* the script's $now, of this run or the last one that set it
    attempt,     \* how many attempts this session has recorded
    attempts,    \* the lines of guard.attempts
    restarts,    \* the restarts requested this session, by attempt
    result       \* how the last run ended

script == <<step, polls, polled, now, result>>
books == <<attempt, attempts, restarts>>
session == <<clock, hardware, graph, wireplumber, born>>
vars == <<script, books, session>>

Graphs == {"down", "hung", "empty", "filled"}
Steps == {"off", "check", "poll", "sleep", "decide", "prune", "record", "restart"}

\* A line holds only its stamp: id tells apart those of one second.
Attempt == [id : Nat, at : Nat]

Init ==
    /\ clock = 0
    /\ hardware \in BOOLEAN
    /\ graph \in Graphs \ {"filled"}
    /\ wireplumber = FALSE
    /\ born = 0
    /\ step = "off"
    /\ polls = 0
    /\ polled = 0
    /\ now = 0
    /\ attempt = 0
    /\ attempts = {}
    /\ restarts = {}
    /\ result = "success"

----------------------------------------------------------------------------
(* The script. *)

Goto(next) == step' = next /\ UNCHANGED result
ExitWith(outcome) == step' = "off" /\ result' = outcome

\* No sound hardware visible, or no card with a PCM device.
NothingToGuard ==
    /\ step = "check"
    /\ ~hardware
    /\ ExitWith("success")
    /\ UNCHANGED <<polls, polled, now, books, session>>

SomethingToGuard ==
    /\ step = "check"
    /\ hardware
    /\ Goto("poll")
    /\ UNCHANGED <<polls, polled, now, books, session>>

\* pw-dump cannot reach PipeWire.  Under errexit and pipefail the failing
\* command substitution ends the script with its status, before the test for
\* an empty answer is reached.
PollUnreachable ==
    /\ step = "poll"
    /\ graph = "down"
    /\ ExitWith("failed")
    /\ UNCHANGED <<polls, polled, now, books, session>>

PollFilled ==
    /\ step = "poll"
    /\ graph = "filled"
    /\ ExitWith("success")
    /\ UNCHANGED <<polls, polled, now, books, session>>

PollEmpty ==
    /\ step = "poll"
    /\ graph = "empty"
    /\ Goto("sleep")
    /\ polls' = polls + 1
    /\ polled' = clock
    /\ UNCHANGED <<now, books, session>>

\* pw-dump never returns: systemd ends the run at TimeoutStartSec.
TimedOut ==
    /\ step = "poll"
    /\ graph = "hung"
    /\ ExitWith("failed")
    /\ UNCHANGED <<polls, polled, now, books, session>>

\* Faulty: one poll too many.
WakeOnceMore ==
    /\ step = "sleep"
    /\ clock > polled
    /\ IF polls <= Settle THEN Goto("poll") ELSE Goto("decide")
    /\ UNCHANGED <<polls, polled, now, books, session>>

\* `sleep 1`, after the last poll as after the others.
Wake ==
    /\ step = "sleep"
    /\ clock > polled
    /\ IF polls < Settle THEN Goto("poll") ELSE Goto("decide")
    /\ UNCHANGED <<polls, polled, now, books, session>>

ReadClock ==
    /\ step = "decide"
    /\ now' = clock
    /\ Goto("prune")
    /\ UNCHANGED <<polls, polled, books, session>>

\* Faulty: awk is not on the PATH, and what replaces the file is empty.
RecentWithoutAwk == {}

\* The lines awk keeps.
Recent == {line \in attempts : line.at > now - Window}

\* The file is replaced by its recent lines in one rename; then the budget is
\* looked at.
Prune ==
    /\ step = "prune"
    /\ attempts' = Recent
    /\ IF Cardinality(Recent) >= MaxRepairs
       THEN ExitWith("failed")
       ELSE Goto("record")
    /\ UNCHANGED <<polls, polled, now, attempt, restarts, session>>

Record ==
    /\ step = "record"
    /\ attempt' = attempt + 1
    /\ attempts' = attempts \cup {[id |-> attempt + 1, at |-> now]}
    /\ Goto("restart")
    /\ UNCHANGED <<polls, polled, now, restarts, session>>

\* try-restart --no-block: enqueues the restart of a WirePlumber that runs, and
\* returns.  StartWireplumber is the job being done, then or later.
Restart ==
    /\ step = "restart"
    /\ restarts' = IF wireplumber
                   THEN restarts \cup {[id |-> attempt, at |-> now]}
                   ELSE restarts
    /\ ExitWith("success")
    /\ UNCHANGED <<polls, polled, now, attempt, attempts, session>>

Script ==
    \/ NothingToGuard \/ SomethingToGuard
    \/ PollUnreachable \/ PollFilled \/ PollEmpty \/ TimedOut
    \/ Wake \/ ReadClock \/ Prune \/ Record \/ Restart

----------------------------------------------------------------------------
(* The unit and the session around it. *)

\* Faulty: the unit is not part of wireplumber.service, and goes on running.
StartWireplumberAlone ==
    /\ wireplumber' = TRUE
    /\ born' = clock
    /\ graph' \in Graphs \ {"filled"}
    /\ step' = IF step = "off" THEN "check" ELSE step
    /\ polls' = IF step = "off" THEN 0 ELSE polls
    /\ UNCHANGED <<clock, hardware, polled, now, result, books>>

\* wireplumber.service is started or restarted: at login, by a user, by systemd
\* after a crash, by the guard.  A guard still running is stopped first and a
\* new one launched; the new WirePlumber has no device yet.
StartWireplumber ==
    /\ wireplumber' = TRUE
    /\ born' = clock
    /\ graph' \in Graphs \ {"filled"}
    /\ Goto("check")
    /\ polls' = 0
    /\ UNCHANGED <<clock, hardware, polled, now, books>>

\* The timer starts an inactive unit.  To be bound to wireplumber.service is to
\* require it, so one that is stopped is started with it (StartWireplumber).
TimerFires ==
    /\ step = "off"
    /\ wireplumber
    /\ Goto("check")
    /\ polls' = 0
    /\ UNCHANGED <<polled, now, books, session>>

\* WirePlumber is stopped or crashes; its devices go with it.
StopWireplumber ==
    /\ wireplumber
    /\ wireplumber' = FALSE
    /\ graph' \in Graphs \ {"filled"}
    /\ UNCHANGED <<clock, hardware, born, script, books>>

\* The unit bound to it is stopped as well, if not always before its next step.
\* SIGTERM counts as success.
StopGuard ==
    /\ step # "off"
    /\ ~wireplumber
    /\ ExitWith("success")
    /\ UNCHANGED <<polls, polled, now, books, session>>

\* Devices come and go, PipeWire stops answering or answers again, and the
\* kernel gains or loses its cards.
Change ==
    /\ hardware' \in BOOLEAN
    /\ graph' \in IF wireplumber THEN Graphs ELSE Graphs \ {"filled"}
    /\ UNCHANGED <<clock, wireplumber, born, script, books>>

Tick ==
    /\ clock < Horizon
    /\ clock' = clock + 1
    /\ UNCHANGED <<hardware, graph, wireplumber, born, script, books>>

\* The session ends, its tmpfs with it.
Logout ==
    /\ wireplumber' = FALSE
    /\ graph' = "down"
    /\ ExitWith("success")
    /\ attempt' = 0
    /\ attempts' = {}
    /\ restarts' = {}
    /\ UNCHANGED <<clock, hardware, born, polls, polled, now>>

Next ==
    \/ Script
    \/ StartWireplumber \/ TimerFires
    \/ StopWireplumber \/ StopGuard
    \/ Change \/ Tick \/ Logout

Spec == Init /\ [][Next]_vars

----------------------------------------------------------------------------
(* Properties. *)

\* Every variable holds what it stands for.
TypeOK ==
    /\ clock \in Nat /\ born \in Nat /\ polled \in Nat /\ now \in Nat
    /\ hardware \in BOOLEAN /\ wireplumber \in BOOLEAN
    /\ graph \in Graphs
    /\ step \in Steps
    /\ polls \in 0..Settle
    /\ attempt \in Nat
    /\ attempts \subseteq Attempt
    /\ restarts \subseteq Attempt
    /\ result \in {"success", "failed"}

\* The restarts of the window that ends at second t, by their recorded stamps.
RestartsBefore(t) == {r \in restarts : r.at <= t /\ t < r.at + Window}

\* However the runs of the guard are triggered, stopped and restarted, no window
\* of a session holds more restarts than the budget allows.
RepairBudget == \A t \in 0..Horizon : Cardinality(RestartsBefore(t)) <= MaxRepairs

\* A WirePlumber is given its settling time: the guard requests the restart of
\* no WirePlumber that was started less than Settle seconds ago, not even in a
\* run that began before that start.
SettledBeforeRepair ==
    [][(\E r \in restarts' : r \notin restarts) => clock - born >= Settle]_vars
=============================================================================
