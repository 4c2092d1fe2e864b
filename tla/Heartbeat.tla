------------------------------ MODULE Heartbeat ------------------------------
(***************************************************************************)
(* The timers by which AsyncClient (src/awp/aio.py) and the world notice each *)
(* other's silence: _beat, which polls whether a ping is due, _watch, which   *)
(* polls whether the world is gone, _report, and the world's watchdog, which  *)
(* enters the safe state.  Both sides measure the same two intervals with     *)
(* timers of their own, with messages under way and a loop that may be late.  *)
(*                                                                         *)
(* Time is in units of 25 ms.  A session is open throughout, on one control   *)
(* connection; the world is external.                                       *)
(***************************************************************************)
EXTENDS Integers, Sequences

CONSTANTS
  Never,
  Intervals,    \* heartbeat_interval_ms, at least 100 ms by its schema
  Watchdogs,    \* watchdog_ms of the world's safety policy, or Never if it has none
  ReportIntervals,  \* report_interval_s, or Never
  Lag,          \* bound: how late the event loop runs a timer
  Delay,        \* bound: how long a message is under way
  Period        \* bound: how long a policy that acts takes from one ping to the next

ASSUME HeartbeatAssumption ==
  /\ Intervals \subseteq Nat \ 0..3 /\ Watchdogs \subseteq {Never} \union (Nat \ {0})
  /\ ReportIntervals \subseteq {Never} \union (Nat \ {0})
  /\ {Lag, Delay, Period} \subseteq Nat /\ Never \notin Nat

VARIABLES
  heartbeat,  \* AsyncClient's heartbeat: the timer pings, not only the policy
  reports,    \* its report_interval_s
  lockstep, interval, watchdog,  \* of the session
  beat_slept, watch_slept, report_slept,  \* since each task went to sleep
  last,       \* since _beat's last ping
  rx,         \* since _last_rx
  connected,
  from_agent, from_world,  \* ages of the messages under way; <<age, whether it asks for a pong>>
  alive,      \* the world answers
  quiet,      \* the world: since the last control message of the agent
  tripped,    \* the world is in the safe state
  idle        \* since the policy's last ping, if it runs its own heartbeat

session == <<heartbeat, reports, lockstep, interval, watchdog>>
timers  == <<beat_slept, watch_slept, report_slept, last, rx>>
net     == <<from_agent, from_world>>
hbvars  == <<session, timers, connected, net, alive, quiet, tripped, idle>>

BeatPoll  == 2
WatchPoll == 4
Longest   == 3 * interval + WatchPoll + Lag

\* The watchdog of the session; a lockstep session has none.
Watchdog == IF lockstep THEN Never ELSE watchdog

-----------------------------------------------------------------------------
(* The client's tasks                                                      *)

\* Mutant: the timer knows of the heartbeat interval only.
IntervalOnly == 2 * interval

\* Twice heartbeat_s: the interval, or half the watchdog's period.
TwiceHeartbeat ==
  IF Watchdog # Never /\ Watchdog < 2 * interval THEN Watchdog ELSE 2 * interval

\* Mutant: the timer pings even for a policy that has its own heartbeat.
DueAlways == 2 * last >= TwiceHeartbeat

Due == (heartbeat \/ lockstep) /\ 2 * last >= TwiceHeartbeat

Send(ack) == from_agent' = Append(from_agent, <<0, ack>>)

\* _beat wakes up every 50 ms to see whether its interval is over.
Beat ==
  /\ connected /\ beat_slept >= BeatPoll
  /\ beat_slept' = 0
  /\ IF Due THEN Send(TRUE) /\ last' = 0 ELSE UNCHANGED <<from_agent, last>>
  /\ UNCHANGED <<session, watch_slept, report_slept, rx, connected, from_world, alive, quiet, tripped, idle>>

\* Mutant: one interval without a message is a loss.
OneInterval == rx > interval

Lost == rx > 3 * interval

\* _watch wakes up every 100 ms to see whether the world was silent for three intervals.
Watch ==
  /\ connected /\ watch_slept >= WatchPoll
  /\ watch_slept' = 0
  /\ connected' = ~Lost
  /\ UNCHANGED <<session, beat_slept, report_slept, last, rx, net, alive, quiet, tripped, idle>>

\* _report, in streaming only.
Report ==
  /\ connected /\ reports # Never /\ report_slept >= reports
  /\ report_slept' = 0
  /\ IF lockstep THEN UNCHANGED from_agent ELSE Send(FALSE)
  /\ UNCHANGED <<session, beat_slept, watch_slept, last, rx, connected, from_world, alive, quiet, tripped, idle>>

\* The policy pings from its decision loop.
PolicyPing ==
  /\ connected /\ ~heartbeat /\ idle \in 1..Period
  /\ idle' = 0
  /\ Send(TRUE)
  /\ UNCHANGED <<session, timers, connected, from_world, alive, quiet, tripped>>

\* The reader takes a message of the world.
Read ==
  /\ connected /\ from_world # <<>>
  /\ from_world' = Tail(from_world) /\ rx' = 0
  /\ UNCHANGED <<session, beat_slept, watch_slept, report_slept, last, connected, from_agent, alive, quiet, tripped, idle>>

-----------------------------------------------------------------------------
(* The world, and time                                                     *)

\* A control message of the agent holds off the watchdog; a ping is answered.
Take ==
  /\ from_agent # <<>>
  /\ from_agent' = Tail(from_agent) /\ quiet' = 0
  /\ from_world' = IF alive /\ Head(from_agent)[2] THEN Append(from_world, 0) ELSE from_world
  /\ UNCHANGED <<session, timers, connected, alive, tripped, idle>>

Tripping == ~tripped /\ Watchdog # Never /\ quiet > Watchdog

Trip ==
  /\ Tripping
  /\ tripped' = TRUE
  /\ UNCHANGED <<session, timers, connected, net, alive, quiet, idle>>

Die == alive /\ alive' = FALSE /\ UNCHANGED <<session, timers, connected, net, quiet, tripped, idle>>

\* The policy has stalled, by now for longer than any watchdog that is not held off waits.
Stalled == (IF Watchdog = Never THEN Period ELSE Period + 2 * Watchdog) + 2 * Delay + 3

Upto(n, limit) == IF n < limit THEN n + 1 ELSE n

\* Time goes on when nothing is overdue; what no one measures any more stops counting.
Elapse ==
  /\ connected
  /\ beat_slept < BeatPoll + Lag /\ watch_slept < WatchPoll + Lag
  /\ reports # Never => report_slept < reports + Lag
  /\ \A i \in DOMAIN from_agent : from_agent[i][1] < Delay
  /\ \A i \in DOMAIN from_world : from_world[i] < Delay
  /\ ~Tripping
  /\ beat_slept' = beat_slept + 1 /\ watch_slept' = watch_slept + 1
  /\ report_slept' = IF reports = Never THEN 0 ELSE report_slept + 1
  /\ last' = Upto(last, 2 * interval) /\ rx' = Upto(rx, Longest + 1)
  /\ quiet' = Upto(quiet, IF Watchdog = Never THEN 0 ELSE Watchdog + 1)
  /\ idle' = IF heartbeat THEN 0 ELSE Upto(idle, Stalled)
  /\ from_agent' = [i \in DOMAIN from_agent |-> <<from_agent[i][1] + 1, from_agent[i][2]>>]
  /\ from_world' = [i \in DOMAIN from_world |-> from_world[i] + 1]
  /\ UNCHANGED <<session, connected, alive, tripped>>

\* A session has just opened. Its reports do not depend on who runs the heartbeat.
HBInit ==
  /\ heartbeat \in BOOLEAN /\ reports \in ReportIntervals
  /\ lockstep \in BOOLEAN /\ interval \in Intervals /\ watchdog \in Watchdogs
  /\ beat_slept \in 0..BeatPoll /\ watch_slept \in 0..WatchPoll /\ report_slept = 0
  /\ last = 0 /\ rx = 0 /\ connected = TRUE
  /\ from_agent = <<>> /\ from_world = <<>>
  /\ alive = TRUE /\ quiet = 0 /\ tripped = FALSE /\ idle = 0

HBNext ==
  \/ Beat \/ Watch \/ Report \/ PolicyPing \/ Read
  \/ Take \/ Trip \/ Die \/ Elapse

HBSpec == HBInit /\ [][HBNext]_hbvars

-----------------------------------------------------------------------------
(* Properties                                                              *)

\* Types; the timer pings regularly, in lockstep whatever the application chose.
HBTypeOK ==
  /\ interval \in Intervals /\ watchdog \in Watchdogs
  /\ {lockstep, connected, alive, tripped} \subseteq BOOLEAN
  /\ beat_slept \in 0..BeatPoll + Lag /\ watch_slept \in 0..WatchPoll + Lag
  /\ {rx, quiet, idle, report_slept} \subseteq Nat
  /\ last >= 0 /\ (heartbeat \/ lockstep => 2 * last <= TwiceHeartbeat + 2 * (BeatPoll + Lag))

\* A world that answers is not taken for lost, whatever the phases of the timers, as long as
\* they ping.
AliveIsNotLost == alive /\ (heartbeat \/ lockstep) => connected

\* "Three heartbeat intervals without any message from the world is loss": a silent world is
\* noticed within those and one poll.
SilenceNoticed == connected => rx <= Longest

\* While the timer or the policy pings, the world does not enter the safe state.
WatchdogHeldOff == tripped => idle > Period \/ ~connected

\* How long a watchdog that nothing holds off may take to trip after the policy's last ping.
Patience == Watchdog + Delay + 1

\* "So that a stalled policy also stops the heartbeat that holds off the world's watchdog":
\* a policy that runs its own heartbeat and stalls is stopped by the world. That holds if no
\* report is sent: the timers of the client send nothing in its place. It also holds, one
\* report later, if the reports are further apart than the watchdog is patient; if they are
\* not, as by default they may not be, it may stall for ever.
StalledPolicyTrips ==
  Watchdog # Never /\ ~tripped =>
    /\ reports = Never => idle <= Patience
    /\ reports # Never /\ reports > Patience => idle <= 2 * Patience

\* The types, with loss as the client sees it: it is noticed, and nothing else is taken for it.
HBInv == HBTypeOK /\ AliveIsNotLost /\ SilenceNoticed
=============================================================================
