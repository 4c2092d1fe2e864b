# awp-python in TLA+

A verification development of [awp-python](../src/README.md), the agent SDK of the Agent World
Protocol: TLA+ modules of its parts, TLC configurations that check them on small instances, and
theorems that TLAPS proves for all of them. Paths below are relative to `src/`.

## The system

`ClientConnection` (`src/awp/client.py`) is the agent's side of the protocol without any I/O: it queues
messages, takes the messages and frames that arrive, and returns events. `AsyncClient`
(`src/awp/aio.py`) drives it with asyncio tasks that share it: the reader of the control connection, the
heartbeat, report and watchdog timers, a task per stream connection, and the application's coroutines.
The world at the other end is not in the repository; `tests/world.py` scripts one.

| Part | State | Operations | Interacts with |
|---|---|---|---|
| status sequencing, `client.py:794-815` | `last_status_seq`, `_seen_above`, `_replay_to` | `_sequence`, `_finish_replay`, resumption, acknowledgement, `_end_session` | every status handler; the world discards what it acknowledges |
| sessions and actions, `client.py:325-836` | `session_state`, `ready`, `actions`, `_pending` | `open_session`, `resume`, `close`, `submit`, `resubmit`, `cancel`, `pull_status`, `ping`, `abandon`, `connection_lost`; a handler per result, error and notification | the world over a connection that is lost; the sequencing; the lifecycle |
| lifecycle, `lifecycle.py`, `_spec/lifecycle.json` | none | `permitted` | `_apply_status` |
| clock, `clock.py` | the last eight samples | `sample`, `add`, `best`, the mappings | `ping` and its pong; submissions, commands and reports |
| channels, `client.py:838-886`, `525-560` | `_channel_names`, `_channel_stats` | `_frame` from either connection, `_set_channels`, `report`, `delivery` | grants in results; resumption; the end of a session |
| transport driver, `aio.py` | `_ws`, `_closed`, tasks, `_waiters`, the send lock | `connect`, `reconnect`, `_drop`, `flush`, `_read`, `_beat`, `_watch`, `_report`, `call`, `wait_for` | all of `ClientConnection`, from several tasks |
| stream connections, `aio.py:161-203` | `_stream_ws`, `_streamed` | `_stream`, `command` | channels; `abandon` |
| lockstep, `client.py:310-316`, `440-451`, `738-750` | `tick`, `_per_tick` | `advance`, `holds_tick`, `reset`, `restore` | frames, which may follow the result |
| codec and messages, `frames.py`, `jsonrpc.py` | none | `encode`, `decode`, `from_inline`, `to_inline` | a malformed or out-of-range input ends a stream or a session |
| demo agent, `demo.py` | one action at a time | `recover`, `move`, `run` | `reconnect`, `open_session` |

What is hard here: the world's statuses reach the agent three ways (notification, result, replay) and
in any mixture across reconnections; what the agent acknowledges the world throws away; two connections
are ordered each by itself and not with the other; a request may be retried while its first copy is
under way; and the asyncio tasks interleave at every `await`. PROJECT.json lists the hazards line by
line.

What makes each part correct:

- **sequencing**: each status takes effect once; nothing unprocessed is acknowledged; a replay ends
  exactly when it is complete.
- **sessions and actions**: a record is the newest status processed of its action; when all is quiet
  agent and world agree; the world never discards what the agent lacks; a world that keeps the rules is
  not accused; a session that is not over can be acknowledged, resumed and closed.
- **clock**: the offset in use is wrong by at most its reported round trip, its age and the rounding.
- **channels**: frames and losses are counted once; the newest frame is never hidden by the rule that
  drops overtaken ones; a right world is not accused.
- **transport**: messages leave in the order they were queued; a request is answered on its own
  connection or its caller hears of the loss; no caller is stuck in sending, and one without a timeout
  waits for an answer that the world owes it.
- **recovery**: a program that reconnects knows what became of its action, never has two under way and
  is never left waiting; `reconnect` returns with the replay over.
- **streams**: one stream connection for a session, which comes back; setpoints go where the session is.
- **clock samples**: the estimator holds samples of its own session's clock only, and has one before
  the session is used.
- **timers**: a world that answers is never given up, one that does not is; the watchdog is held off by
  an agent that lives, and trips once the policy that runs its own heartbeat stalls.
- **lockstep**: `advance` goes on with a frame of its own tick on every channel, and the client is at the
  world's tick.
- **codec, messages, errors**: everything that is well-formed and nothing else is accepted; encoding and
  decoding return what was put in; no message forgets a caller, and none stops the reader but a manifest
  that the client cannot use.

## Modules

| Module | Models | Needs |
|---|---|---|
| `Lifecycle` | the transition table and `permitted` | |
| `StatusSequence` | the sequencing under an arbitrary environment | |
| `Delivery` | the abstract promise of a session: issued, delivered, discarded | |
| `Session` | client, control connection, world | `Lifecycle`; instances of `StatusSequence` and `Delivery` |
| `SessionProofs` | what holds of it whatever goes wrong, and where only connections fail | `Session`, TLAPS |
| `Clock` | the estimator, with delays and drift | |
| `Channels` | frames over two connections | |
| `ChannelsProofs` | its theorems | `Channels`, TLAPS |
| `Transport` | the output queue, the send lock, the tasks and the loss of a connection | |
| `TransportProofs` | its theorems | `Transport`, TLAPS |
| `Recovery` | the demo agent over `reconnect`, `wait_for` and `wait_terminal` | |
| `Streams` | the `_stream` tasks and `command` | |
| `StreamsProofs` | its theorems | `Streams`, TLAPS |
| `ClockSession` | which pings become samples of which clock | `Clock` |
| `ClockProofs` | the theorems of `Clock`, that `ClockSession` implements it, and what follows | `ClockSession`, TLAPS |
| `Heartbeat` | the timers of both ends | |
| `LossProofs` | the theorems of `Heartbeat` and of `Recovery` | `Heartbeat`, `Recovery`, TLAPS |
| `Lockstep` | `advance`, resets, frames of a tick | |
| `LockstepProofs` | its theorems | `Lockstep`, TLAPS |
| `FrameCodec` | the binary and the inline form of a frame | |
| `Messages` | decode, the handlers' decisions, errors | `FrameCodec` |
| `Inbound` | the reader and a `_stream` task, for all that a world can send | `Messages`, `FrameCodec` |
| `ArrivalProofs` | the theorems of `StatusSequence` and of `Inbound` | `StatusSequence`, `Inbound`, TLAPS |

`StatusSequence` is a component twice over. `Session` builds its handlers from the actions of the
instance `Status` (`Status!Process`, `Status!Acknowledge`, ...), and `Session` implements `Status!Spec`
(checked by the run `session`, proved in `SessionProofs`), so the theorems about `StatusSequence` hold of
the session as well.
`Delivery` is the abstract specification above both: `Session!DeliverySpec` maps it to the session that
the agent and the world hold together. The other modules take one question of the connection each and
leave to the others what they settle: `Session` has a connection without tasks, `Transport` tasks
without a session, `Recovery` both, for a program with one request outstanding; `Channels` has the frames
of a stream and `Streams` the tasks that carry it; `Clock` has what the estimator makes of samples and
`ClockSession`, which extends it and is shown to implement it, which samples it gets; `Inbound` puts the
bytes of `FrameCodec` beside the messages of `Messages`, since an integer out of range in either ends both;
its specification is `ConnectionsSpec`.

The invariant called `Inv` (`SessionInv` in `ClockSession`) is the module's type invariant together with
the safety invariants named in its definition; the others are properties of their own.

### StatusSequence

The variables are the client's fields of the same name, and two histories: the numbers whose effects
took place, and the highest number acknowledged. `Process` is `_sequence` returning True with the
`_finish_replay` that always follows it, `Redeliver` is it returning False. (A result for a redelivered
status skips `_finish_replay`; that is a stutter here, and `Redeliver` changes nothing more, because a
replay under way is always short of its end: `ReplayAhead` in the proof.) `NoReplay` is the None of
`replay_to`. The absorbing loop of
`client.py:807-809` is the choice of the one `n` at which it stops. Nothing is assumed of the order of
statuses.

### Session

*Client.* A request is an action that appends to `to_world`; `_pending` is not a variable, because a
request is pending exactly while it, or its response, is in one of the queues (`Unanswered`). Each
`Receive...` is one handler of `client.py` with everything it calls. `FirstFrame` is the one effect a
frame has on the session. Validation failures and undecodable messages are `DropMessage`.

*Application.* It opens sessions, resumes on new connections as `reconnect` does, submits each action
once and resubmits, cancels and pulls at will, and closes. Heartbeats may fall anywhere.

*Connection.* `to_world` and `to_agent` are FIFO; losing the connection empties both. `Disconnect` has
both ends see the loss at once. Nothing is lost by that: an end that learns of it later only handles
more of what had arrived, which is a behaviour with the loss later for that direction and earlier
deliveries of the same messages, and the world's and the client's steps after the other's loss touch no
common state. The `initialize` exchange is folded into `Connect`.

*World (external).* It handles requests in order, numbers a session's statuses from 1, moves actions by
the lifecycle, answers a retry with the newest status, keeps what is not acknowledged, and replays it.
This is what `tests/world.py` does and what the client relies on; the world may refuse, end a session,
suspend it and admit a second time in another session.

*Faults.* `garbled` (a dropped message), `abandon` (an out-of-range integer on the control connection),
`stream_abandon` (one found by a stream task, which leaves the reader running while it awaits) and
`reopen` (a session opened over one that could be resumed) are switched on by the configurations.

### Clock

`Exchange` draws the delays of both ways, the world's answering time and a drift of at most one per
exchange. `SamplesWithin` bounds each sample by its round trip and its age; `BestWithin` bounds the
offset the client maps times through. The bound is half the round trip rounded *up*: `//` rounds the
offset down, so `error_bound_ns`, which halves rounding down, may be one nanosecond short when the round
trip is odd.

### Channels

The control connection carries results and inline frames, the stream connection carries frames; each is
FIFO and nothing orders one with the other. A request is merged with the world's answer to it, since
sending one changes nothing here. `got` is the history of frames handed to the application, from which
`Missing` computes, without the client's counters, the frames lost between others. Faults: `race`
(subscriptions change while the stream carries frames; without it, the application changes nothing before
what it asked for is answered and its stream attached) and `overlap` (a session is opened while the
stream of the last one still holds frames).

### Transport

A step is what a task does between two awaits that can suspend it: `flush` takes the lock, drains `_out`
into `batch`, and sends one message at a time, waiting when the connection is full (`Capacity`). `lockq`
is the queue of asyncio's lock, so a task that was handed the lock runs before others. `Lose` is
`ConnectionClosed` seen by the reader, `_drop` cancels the tasks of a connection at their await. The
session is open throughout, so `_watch` may close the connection at any time the world is silent. Faults:
`offline` (calls while down), `hasty` (a reconnection while another task holds or awaits the lock) and
`cancel` (a caller cancelled while it sends).

### Recovery

The demo is a program counter `pc` with one label per await, and the state of the client that its steps
read. A step of the reader is one message, so any number are processed between the event that resolves
a future and the coroutine that awaits it, which is where `wait_terminal` reads `actions` again. `future`
is what the program awaits and `live` the waiter that `reconnect` adds beside it. `FaultAt` names the
labels at which the connection may be lost, the rest of the model is the same in every run. Faults:
`expire` (the world forgets a session without a connection), `slow` (the first frame comes late), `range`
(an integer out of range) and `persistent` (an application that retries a failed recovery, which the
demo does not).

### Streams

Each task is at one await of `_stream`: connecting, reading, asleep after a loss, or over; `stream_ws`
and `streamed` are the fields they share, and `carried` the history of the control connection. Sessions
open, close and resume at the steps in which their results take effect. Fault: `overlap` (a session is
opened on the control connection of the one before).

### ClockSession

The clock of session *k* is 10*k* ahead of the agent's and drifts by one for each exchange with it; a
tick or an unbound connection's clock is `Elsewhere`. The requests of a connection are answered in order,
by the session bound to it when they are handled, and a pong that was marked is an `Exchange` of `Clock`
exactly if it was stamped on the session's own clock. `ClockSpec` says that each step is one of `Clock`
or changes no sample, so the bounds proved of `Clock` hold of the client. `stage` is how far `open_session` or
`reconnect` has come. Fault: `hasty` (the timer's interval ends before the resumption is answered).

### Heartbeat

Time passes in units of 25 ms, in which `_beat` polls every 2 and `_watch` every 4; `Lag` is how late the
loop may run a timer and `Delay` how long a message may take. A counter of each timer and of each silence
is a variable, saturated where nothing tells values apart (`Longest`, `Stalled`). Whether the timer
pings, and how often reports are sent, is chosen at the start, in any combination, as `AsyncClient` takes
them. The policy's pings are `PolicyPing`, at most `Period` apart as long as it acts, and `idle` is the time
since. What the client sends by itself is a ping of `_beat`, if the timer pings, and a report. The world sends
pongs and nothing else, which is the least that keeps it from being lost.

`StalledPolicyTrips` says what becomes of a policy that stalls, and under which of the configurations what the
documentation promises is true: without reports the watchdog trips, in the time it takes, and with reports that
are further apart than the watchdog is patient it may take one more report. With reports that are not, and two
seconds is the default, the policy may stall for ever (divergence 15).

### Lockstep

An epoch, which the client does not know, separates the ticks before a reset from those after it, so
`AdvanceComplete` can tell a frame of this tick from one of the same number before. A request waits in
the world as long as it likes, which is a tick at a barrier. `onStream` is chosen at the start: frames
are inline, before the result, or on a stream connection, in any order with it. The coroutine of `advance`
goes on in steps of its own, `Check` after the result and `Return` after the frames: what it awaits is
resolved in a step of a reader (`Answered`, `Dispatch`), and any number of messages may be read, or the
connection be lost, before it runs. `returned` is what is held when it does, so that `AdvanceComplete`
speaks of what the application finds, not of what resolved the waiter. Fault: `overlap` (a reset
while an advance is under way); `overlapped` remembers that it happened. Lockstep sessions stamp pongs on
the tick, never on a clock, so they hold no sample, and `command` and windows of validity raise there; that
is `ClockSession`'s subject.

### FrameCodec

`decode` is a loop over the bytes of a frame, one extension a step. A byte is 0 to 3, registered values
have one byte instead of eight, and `MaxSafe` (1) stands for 2^53 - 1, so every boundary, sign included,
is met within six bytes. `AcceptsFrames` compares the end of `decode` with `WellFormed`, `InRange` and
`Values`, which say what a frame is without a loop: a set of places where extensions start. A frame that
is both malformed and out of range may be refused for either, as the source makes no promise.
`MaxBytes`, `MaxPayload` and `MaxSent` bound the frames that a run enumerates; the proofs have no bound.

### Messages

One message is one step through `decode` and its handler. A message is the record of what they look at:
whether it parses, its method, id, params, result and error, an inline frame, and whether an integer in it
is out of range (`wide`). That a schema decides about a result or params is all there is of validation.
A schema admits any version in a manifest, so a result may also be `"unsupported"`, which is valid:
`_result_initialize` raises for it, and `_on_response` for a manifest that is not valid, after the request has
left `_pending` (`Unusable`). `"initialize"` stands for `world.manifest` too, which has the same handler.
`EventOf` is the event the caller gets, valid or not. `Unchecked` are messages that `decode` lets pass and
`receive` cannot take; two of them are legal JSON-RPC.

### Inbound

The steps of `Messages` and of `FrameCodec` beside each other, over one session: bytes arrive on the
stream connection only while there is one, a malformed frame closes it, and a value out of range abandons
the session and then closes the control connection, which goes on reading in between. What it reads may
make a session live again; what that leads to is `Session`'s subject (divergence 2).

## Runs

| Run | Bounds | Shows |
|---|---|---|
| `status_sequence` | 5 statuses | all orders, repetitions, losses and replays of five: two separate gaps and one absorbed run fit |
| `session` | 1 action, 4 statuses and those that loss and closing add, 2 requests, 2 sessions, 1 loss; `abandon` | the safety of `Session`, and that it implements `StatusSequence` |
| `session_live` | 2 statuses, 1 request, 2 sessions, 2 losses; `garbled`, `abandon`, `stream_abandon`; fairness | that it implements `Delivery` although messages vanish singly; every status is processed in the end |
| `session_gap` | 4 statuses, 1 request, 1 session, 2 losses; `garbled` | a violation: an action leaves a terminal state (divergence 1) |
| `clock_session` | 2 sessions of either mode, 4 pings, 2 losses, delays 0 and 4, a window of 2 | samples of the session's own clock, one before use, and the bound of their error |
| `channels` | 1 channel, seq to 4, 2 sessions, 1 change of subscription, 1 loss | counting, no frame hidden, no accusation |
| `transport` | 2 callers, 3 requests, 1 ping of the world under way, 2 connections, room for 1 message; `offline`, `cancel`; fairness | order, no accusation, no forgotten request or caller; no caller stuck in sending, and a call ends unless the world owes it the answer |
| `recovery` | 2 targets and the two last moves, 2 losses at any await but `connecting`, 3 sessions; all faults; fairness | the demo gets over losses while it waits, outcomes are true, no two moves at once, `reconnect` is complete, sessions end on both sides, the demo ends |
| `streams` | 3 tasks, 2 sessions, 3 breaks; `overlap`; fairness | one stream per session; setpoints reach it; a stream comes back |
| `heartbeat` | intervals of 100 and 200 ms, no watchdog or 225 ms, reports every 300 ms or never, 25 ms of lag and of delay | neither side gives up the other falsely, nor too late; a stalled policy trips the watchdog unless reports come more often |
| `lockstep` | 2 channels, 3 ticks, 1 advance of others, 1 reset, 2 losses; `overlap`; fairness | `advance` goes on with all frames of its tick, is refused for a cause only, and the agent gets on |
| `inbound` | 2 requests, every shape of message; all frames of six bytes of extensions and payload | the codec accepts what is a frame; both round trips; no caller forgotten, and what the reader fails for |

A fault that a property does not survive is not switched off for the others: the property excludes the
behaviours in which it happened, by a history variable (`happened` in `Transport` and `Recovery`,
`overlapped` in `Streams` and `Lockstep`, `dropped` in `Session`), and the rest is checked with it. In
`Session`, `Channels` and `ClockSession` the configuration says which faults there are. (`transport` goes without `hasty`,
which doubles the states; its safety is proved with it.)

*Why the bounds are enough.* A false accusation or a stale record needs one action with a status before,
one during and one after a request's flight, so four statuses (`ready`, an admission, executing, a
terminal state), and a first and a retried request. An acknowledgement can be stale across at most two
sessions, and a loss can cut at most one replay, whose second attempt needs the second loss given to
`session_live`. Actions share nothing but the sequence, so one is enough where records are concerned, and
gaps between statuses of different actions are those of `StatusSequence`, which is proved for any number.
A frame that overtakes needs one frame on each connection, and a gap and a resync before and after: four
seqs. Channels do not interact. A window of two is enough to drop a sample, and the bound for any window
is proved.

In `Transport` a message overtakes another, or is lost with a task, when one task sends, one waits for
the lock and one queues behind both: two callers and the heartbeat; requests outlive a connection when
there is a second. Only the pings of the world under way at once are bounded, so a world may go on talking
for ever without an answer, and `CallsEnd` is not true for want of messages. `Recovery` needs a loss at an await and one in the recovery from it. A `_stream` task
meets the session before or after it, and a third task is that of a resumption. A tick comes again after
one reset, and a stale frame needs one tick before and one after. In `Heartbeat` the phases of all timers
are enumerated, and 100 ms is the shortest interval the schema allows, where the polls weigh most. Reports are
one unit further apart than a stalled policy may stay unnoticed, the least for which `StalledPolicyTrips` says
anything. A state
of `Messages` is the pair of requests and one message, so two requests are all that one message can
confuse; every frame is the first of a session, since `decode` keeps nothing between frames, and three
typical ones come at any time.

*Deadlock.* `StatusSequence` is checked for it. The others turn the check off: an agent may
stop after closing its session, and the bounds stop both ends. That nothing waits on a lock or a future
for ever but for an answer is checked as liveness instead (`CallsEnd`, `DemoEnds`, `Progress`).

*Fairness.* Every liveness property assumes weak fairness of the steps the event loop is bound to take
once they are possible, and of the world's answers; never of what an application or a fault may choose.

- `Session`: the reader takes what has arrived, the world answers, a connection that is closing ends, and
  an application that lost its connection connects and resumes, as `reconnect` and the demo do. Not fair:
  requests, heartbeats, progress, losses. `CaughtUp` is conditional on the session lasting and on no
  message having been dropped on its connection.
- `Transport`: a task that holds the lock sends when there is room, or fails; one that was handed the lock
  runs; the reader reads, and ends when the connection does; a coroutine whose future is done returns; the
  watchdog fires if the world stays silent. The world is under no fairness: it may never read or answer.
  `CallsEnd` holds because `_watch` is fair: a caller that sends waits for a lock or for room, and if that
  lasts the reader is waiting too, so the world is no longer heard. A call that was sent may last for ever: a world that
  answers heartbeats and never the call keeps its connection, and `call` without a timeout waits on.
  `Excused` names who: a caller whose request the world has, or has to read, or had taken from the queue by
  a caller that was cancelled.
- `Recovery`: the program, the reader and the world's handlers run, and the world ends the moves it
  executes (the cancelled one need not end by itself).
- `Streams`: each `_stream` task goes on after its sleep, notices its lost connection, finishes its
  abandonment, and its handshake is answered one way or the other. Refusals are bounded by `MaxBreaks`.
- `Lockstep`: both readers, the coroutine, its timeout, the world's handlers, a reconnection and an agent
  that advances again.

*Mutants.* Each property of a passing run has a mutant in PROJECT.json: a definition of the model with a
plausible slip in it, under which the run fails.

## Proofs

`ArrivalProofs`, in its first part, for every `MaxSeq` and from `MaxSeqAssumption` and `NoReplayAssumption`
alone. The invariants are not inductive by themselves: `AckPoint` says nothing of the numbers beyond the gap. The
strengthening is `ProcessedSplit`, that what was processed is `1..last_status_seq` and `seen_above`, and
that `seen_above` leaves the number after the ack point out; with `AckBehind` (nothing beyond the ack
point was ever acknowledged) and `ReplayAhead` (a replay under way ends beyond the ack point). The lemma
`SequenceSplits` carries `_sequence`, `FinishReplayAhead` carries `_finish_replay`, and the six
properties of the module follow: type correctness, `AckPoint`, `ExactlyOnce`, `AckedIsProcessed`,
`ReplayIsMissingSome` and the action property `ReplayEndsComplete`.

Its second part, on `Inbound`, is for any number of requests and for frames of any length, sent with a
payload of any length, from the assumptions of `FrameCodec` and `Messages`: the bounds are numbers, and `None` is
no integer, no error and nothing that an error carries. The scale of bytes and of 2^53 - 1, and the
shapes of messages, are those of the run.

- The loop of `decode` against what a frame is (`AcceptsFrames`). `WellFormed` asks for a set of places
  where extensions start, so refusing needs that there is no such set, and accepting that there is one.
  The invariant has the places `V` passed so far: each extension ends where the next one starts (`Chain`),
  *every* set of places that fills the part agrees with `V` up to the offset and has the offset in it
  (`Unique`), and the locals are what `V` has (`Taken`). So where the loop refuses, each frame that these
  bytes could be would have to go on with the extension that it refuses (`FrameHasNext`); at the end `V` is
  the one set there is (`WholeChain`).
- The round trip (`RoundTrip`). `Layout` says what `encode` writes at which place; `Trip`, that the loop on
  these bytes is at the end of one of the three parts, with the extensions before it. It then takes the next
  one (`TripExtension`), and in the end has the frame (`TripFinish`). A frame that is sent has one extension
  of a vendor at most, so the fold that concatenates them is evaluated without an induction (`FlattenOne`).
- The control connection. An error survives `to_dict` and `from_dict` although `data` is left out
  where all it would carry are the defaults (`ErrorSurvives`), so what a caller gets is what the world
  made; with the shapes of messages (`Shapes`) and that a request which waits has no event yet (`Unheard`),
  `NoCallerForgotten` and the types are inductive together (`ControlInv`). A reader that failed reads no more,
  so the manifest that it failed for is the last message, and its request the one without an event.

`ClockProofs`, in its first part, for every window, set of delays and set of offsets, from `ClockAssumption`. `SampleError`
is the arithmetic of one exchange, `DriftByOne` of the time between two; the invariant is the type with
`SamplesWithin`, which is inductive because a sample's age is its distance from the end of the window.
`BestWithin` and `BestIsLeast` then need that `best` exists, which is the well-foundedness of the
naturals (`LeastNatural`).

Its second part, on `ClockSession`, assumes `Patient == "hasty" \notin Faults`: the interval of the timer is longer than
a resumption takes (14 below is what happens otherwise). The invariant follows a ping through its connection: a ping
is marked only in a streaming session and on the connection of that session (`Marking`), and a pong to a marked
one carries the clock of the session the client will have when it reads it (`Stamped`), because the world
binds a session to a connection once, with the request answered before (`Asking`), and tells its end once
(`Using`). Then each pong is an `Exchange` of `Clock` or changes no sample (`ClientIsClock`), the
bound of the first part holds of the client (`SessionBestWithin`), and a streaming session in use has a sample
(`SessionInvCorrect`).

`SessionProofs`, in its first part, for every number of sessions, statuses, requests and losses and *every kind of
fault*.
The type of a sequence of messages is a condition on each of its members, because requests, results and
statuses are records of many shapes. What needs an argument is that a session has no more than `MaxSeq`
statuses, which is what makes the numbers of `Session` those of an instance of `StatusSequence`: losing
and resuming a connection, and ending a session, add statuses of their own. `Credit` counts what those
events may still add: a loss entitles the world to a "suspended", a resumption to an "active", and no
session is suspended twice. With the types, each step is one of `StatusSequence` or leaves its variables alone
(`SequenceCorrect`); so `ExactlyOnce`, `AckedIsProcessed` and the rest hold of the client even over a
connection that drops messages.

Its second part needs a premise, `Orderly == Faults \subseteq {"abandon"}`: connections fail, and
a session may be abandoned over an out-of-range integer, but no message vanishes from a connection that lives, and no session
is opened over one that could be resumed. This is the configuration of the run `session`; each of the
faults it excludes has its counterexample below (1 to 3). The invariant has three layers.

- `Phases`: where the session is. A request for one is the last thing asked for; its result finds a client
  without one; a resumption is for the client's session, from its ack point and with nothing of the session
  in flight, and is answered once; the end of a session is the last the world says of it and comes before
  the answer to `session.close`.
- `Chain`: from the world's log to the ack point. `seen_above` is empty; what is in flight is what was
  recorded; each status in flight is at most one beyond the ack point or behind the one before it
  (`Chained`); while the world holds the session, all that the client lacks is in flight (`Complete`), and
  the answer to a pull says nothing that is not said before it (`Pulled`).
- `Knows`: what the client makes of it. The state of the session and the record of each action are what
  the log says at the ack point, a retry or a pull is for an action the world has, and the log keeps to
  the lifecycle.

None of the four properties of the run is inductive, and none of the layers is without the two others: that no
world is accused (`client.py:832`) needs the newest record, the record needs the statuses in order, and
the order needs that a replay starts at the ack point of the session it is for. `NextPhases`, `NextChain` and
`NextKnows` take one action each at a time. The invariant was checked by TLC before, on two instances of
two and three million states. The theorems are `InvCorrect` (nothing discarded that was not processed, a
grant for a session that is not over), `NoFalseAccusationCorrect`, `RecordIsNewestCorrect`,
`CaughtUpAgreesCorrect`, and `DeliverySpecCorrect`, that each step is one of `Delivery` or a stutter. What
implements `Delivery` loses nothing (`PromiseKept`), so whatever the agent lacks of a session the world still
has (`NothingLostCorrect`). The run `session_live` checks `DeliverySpec` with dropped
messages too, where it is not proved. `TerminalIsFinalOrderly` is the property that `session_gap` violates:
with the same code, it holds where no message is dropped.

`StreamsProofs`, without premises: the tasks are started in order, so that the next is `Cardinality + 1`
(`NextStarted`); as long as no session was opened over another, `OneTask` says that a connection has one
task at most, none before its session is attached, and that it is the current session's; `Noted`, that a
connection that carried a setpoint is remembered as a stream.

`LossProofs`, in its first part, on `Heartbeat`, finds how much slack the code has. The intervals, lag and delays of the run are one
instance: the theorems hold under inequalities that say what polling, a late event loop (`Lag`) and the
network (`Delay`) may take together, where `Late` is `BeatPoll + Lag`.

- `Prompt`: `Late + 2 * Delay <= 2 * n` for each interval `n`. Then a world that answers is never given up
  (`HeartbeatInvCorrect`): since the last ping either the world was heard, or that ping or its pong is under
  way and the world was heard since the ping before (`Heard`). `Heartbeat.cfg` has 5 <= 8 and 5 <= 16.
- `Timely`: `2 * (Late + Delay) <= w` and `Period + Delay <= w` for each watchdog period `w`. Then an agent
  that lives holds the watchdog off (`WatchdogHeldOffCorrect`). `Heartbeat.cfg` has 8 <= 9 and 4 <= 9.

`SilenceNoticedCorrect` and `StalledPolicyTripsCorrect` need neither: the poll after three
silent intervals notices, whatever the delays. A policy that pings no more for the watchdog's period,
a message's delay and one unit (`Patience`) has tripped it, whoever else is configured how, as long as no report
is sent (`PolicyAlone`). If reports are further apart than `Patience`, there is one at most in any such
time (`Sparse`, `OneReport`), and it tripped within two.

Its second part, on `Recovery`, is for any number of targets, sessions, pings and losses, with losses at any of
the labels and *every fault*, without a premise: what a fault excuses is part of each property (`happened`,
`losses`). The invariant, `Sound`, says for each await what must be true of the client, the wire and the world
together. Its thirteen parts fall in four groups.

- One request at a time: what is asked is what the program awaits, at the label where it awaits it, and
  is answered once (`Asked`, `OneAnswer`); a session is on the connection while the program uses it
  (`Attached`, `Held`). So a message of the world is read at a label that knows it.
- Outcomes: `Moved` says which move goes on and that no later one was submitted, so there is one at a time. An end
  is told once: by the log (`LogTrue`), on the wire (`StatusTrue`) and in the record (`RecordTrue`), which is never
  overwritten because what the client has not processed says the same. That is what `wait_terminal` needs, which
  reads the record again after any number of messages; so an outcome is true (`Outcomes`), or the move ended with
  its session. `Unlost` is the rest: without a loss a connection ends because the agent gave up the
  session, and tells the world.
- Crashes (`Uneventful`): as long as connections were lost only in `wait_terminal`, nothing that the program reads
  is missing. A frame is there or comes before the pong that `open_session` waits for (`FrameDue`), and the
  record of the move survives until `reconnect` is refused.
- Replays (`Replaying`): the agent has processed all that the session said of itself, but for one live state while
  it resumes (`KeptReplaying`), and what the session says after a resumption lies beyond the replay (`KeptWire`).
  So the state that the waiter of `reconnect` sees is not a replayed one, and ends the replay. A
  resumption that is cut short leaves two, which is why `ReconnectComplete` has its condition.

The reader, the program and the world are proved in two stages: a lemma for each action says what it does to the
parts that matter (`MoveDoes`, `HandleResumeDoes`, ...), and each part of `Sound` is preserved by these effects
rather than by the actions. The invariant was checked by TLC first.

`LockstepProofs`, for any number of channels, ticks, resets, losses and advances of other sessions, without a
premise: what excuses a refusal is part of the properties (`others`, `overlapped`). Three arguments meet.

- The tick: the last answer under way tells the world's tick, and if there is none the client is at it
  (`LastTells`), because requests of one connection are answered in order and a resumption is the first
  message of the next (`Resuming`). One tick is asked for at a time (`OneAdvance`), and while no reset is
  under way with it nothing moves the world before it is handled (`Apart`, `AskedInTime`); so
  `RefusedForCause`.
- The frames: those of a channel on each of the two connections are in order and beyond the last one taken
  from it (`Ordered`), and the newest frame of each channel is held or under way and of the world's tick
  (`Newest`), overtaken or not: a frame is given up only for a newer one (`FrameTaken`).
- The wait: it is for the world's tick (`Waits`). With nothing under way every channel would show that tick, so
  a timeout contradicts `Newest` (`AdvanceNotStuck`).
- The return: `AdvanceComplete` is about the state in which the coroutine runs, so the frames that resolved it have to
  outlast what is read meanwhile. A second invariant, `JInv`, says that they do: what is under way on each
  connection, and what is held, only goes on, in epoch and then in tick (`Onward`); while an advance is resolved or its result has
  come, no frame under way is of an epoch beyond its own (`InEpoch`), for a reset meanwhile is the fault `overlap`; and every
  channel shows the tick of a resolved advance, or a later one if another session went on
  (`Resolved`). Inline, a result comes behind the frames of its epoch, so all that is held is of that epoch by then
  (`Covered`); on a stream connection that is true of the first epoch alone, which is the condition of the
  property.

The world may publish the channels in any order: `EachChannelOnce` is all that is used of `SetToSeq`.

`ChannelsProofs`, for any number of channels, frames, sessions, changes and losses, under the premise
`Settled == Faults = {}` of the run `channels`; each of the two faults it excludes has its counterexample below
(4 and 5). The three properties need one invariant, whose parts fall in four groups.

- What is under way: sessions come in order and a resumption comes first (`Numbered`, `Resuming`,
  `Unknowing`), and the last opening and the last grant under way are what the world holds (`View`). Where
  the stream connection has frames, nothing that changes the channels is under way beside them (`Streamed`),
  so a frame finds its channel granted on either connection (`GrantedBefore`).
- Order: the frames of a channel on each connection increase and are beyond the last one taken, if it was
  taken from that connection (`Ordered`). Nothing is asked of two connections: a frame that does not increase came over
  the other one than the last, which is what `_frame` calls overtaken.
- Loss: no frame in flight is beyond what the world sent (`Below`), and the newest of each channel is taken, under
  way, or went down with a connection (`Newest`). An overtaken frame that is the newest sent would be one the
  channel is already at.
- Books: `Booked` relates the counters of a channel to the set of frames taken. `MissingGrows` and
  `HoleSize` say what a frame adds to the numbers missing: those between the last one and it, which are
  `GapBefore` many, unless it resynchronises the channel or is the first since a resumption.

That no world is accused, and `Accounting`, rest on the order; the order of a frame just sent rests on `Below`. The
invariant was checked by TLC first, on instances of seven million and of two hundred thousand states.

`TransportProofs`, for any callers, any capacity, any number of requests, pings and connections and with
*every fault*: what a fault excuses is part of each property (`happened`). The invariant follows every message
from the queue to the event of its response.

- `Locking`: a task is within `flush` exactly if it holds the lock or waits for it, once; what is drained is the holder's.
  With `Connection`, which says what is left on a connection that is gone, this carries the cancellations of
  `_drop` and of the application, wherever the task was.
- `Ordered`: requests are numbered in the order of what the world took, the wire, what is drained and the queue.
  A message moves from the head of one to the end of the next, and never back, so `SentInOrder` follows for all tasks
  that ever flush (`InOrder`).
- `AnsweredOnce` and `Expected`: a request has one response at most, and all that moves is pending, unless the
  connection was closed under it and not dropped yet: so no response is to an unknown request. Only `hasty`, a
  replaced connection with messages still held, breaks it.
- `Answerable` is the converse: what is pending moves. `Awaited` follows a call one step further, to the event
  with which the reader waits for the lock after it has removed the request from `_pending`; without it
  `CallerNotForgotten` would fail in between.

The invariant was checked by TLC first, on the instance of the run. `Removed` says what `RemoveFirst` leaves of a
queue in which a task waits once.

Every invariant that a run checks is proved, under the premises named above. Only model-checked:
the liveness properties, with ENABLED, are out of the proof system's reach:
`CaughtUp`, `CallsEnd`, `DemoEnds`, `Progress` and the like are TLC's, and so is `DeliverySpec` over a
connection that drops messages.

## Divergences found

Behaviours of the code that a comment or document of the repository rules out. The first is a run of its
own, with the lines quoted in PROJECT.json. The others are excluded by the condition or the constant named
with each: without the condition, or with the constant, TLC shows the behaviour as a counterexample of the
property.

1. `session_gap`: a status missing beyond a gap, replayed later, is applied over newer ones of its
   action (`client.py:832`). A completed action executes again and stays so.
2. `SessionHasGrant` with the fault `stream_abandon`: while the stream task ends the session and awaits,
   the reader goes on and makes the session active again without a grant (`aio.py:193`;
   `client.py:293-294`: "End the session on this side after a protocol error, never to resume it"). The loss
   of the connection then takes it for a session to resume (`client.py:246-247`).
3. `DiscardedIsProcessed` with `reopen`: a heartbeat between `session.open` and its result acknowledges
   the old session's statuses to the new one (`client.py:518`; `CHANGELOG.md:29`).
4. `NewestDelivered` with `overlap` in `Channels`: a late frame of the old session hides the new session's
   frames (`client.py:862`; `CHANGELOG.md:27-29`).
5. `Channels!NoFalseAccusation` with `race`: a frame that overtakes the result of a subscription has the
   world accused (`client.py:859`; `client.py:108`: "The world broke the specification").
6. `Transport!NoFalseAccusation` but for `hasty`: a request that waits for the lock is sent on the next
   connection (`aio.py:155`).
7. `PendingCanBeAnswered` but for `offline`: a request made after the loss stays in `_pending` for ever;
   after an `advance`, every later one raises (`aio.py:206`; `client.py:243`).
8. `CallerNotForgotten` but for `cancel`: a cancelled sender takes the messages of others with it
   (`aio.py:146`; `aio.py:142`: "Send everything the connection has queued, in order").
9. `NeverCrashes` but for losses where the demo waits for a move: a connection lost elsewhere, a first
   frame later than the pings of `open_session`, or a value out of range read right after the terminal
   status end the demo with an exception (`demo.py:82`, `94`, `aio.py:382`; `demo.py:4`: "It rides out a
   lost connection").
10. `EndedTogether` but for `untold`: a predicate that raises on the event of an abandoned session keeps
    `session.close` from being sent (`aio.py:245`, `241`).
11. `ReconnectComplete` but for losses during a resumption: `reconnect` returns in the middle of a replay
    that holds the live state of the resumption before (`aio.py:113`, `114`).
12. `OneStreamPerSession`, `CommandReachesSession` and `CommandUsesStream` but for `overlapped`: the task
    of a closed session connects again for the next one, keeps its connection for setpoints of the next
    one, or hides the next one's (`aio.py:176`, `402`, `202`; `CHANGELOG.md:29`).
13. `command` on a stream just lost raises `ConnectionClosed`, not the `ConnectionError` of its
    documentation (`aio.py:407`, `400`): `Command` takes any exception for one.
14. `ClockSpec` with `hasty`: a heartbeat before the resumption is answered becomes a sample of no
    session's clock (`client.py:520`, `521`).
15. `StalledPolicyTrips` with `idle <= Patience` whatever `reports`: reports, which are on by default, hold off
    the watchdog of a policy that runs its own heartbeat and has stalled (`aio.py:296`, `58`; `aio.py:44-46`:
    "so that a stalled policy also stops the heartbeat that holds off the world's watchdog"), for ever if they
    come more often than the watchdog is patient.
16. Polling every 50 ms makes pings rarer than "at least twice per watchdog period" (`client.py:260`,
    `aio.py:269`); `WatchdogHeldOff` holds all the same.
17. `AdvanceNotStuck` but for `others`: a frame of another session's later tick keeps `advance` from
    returning (`client.py:314`; `aio.py:388-390`).
18. `AdvanceComplete` on a stream connection but for the first epoch: after a reset, frames of the same tick
    before it satisfy `advance` (`client.py:746`).
19. `AdvanceComplete` with `f.tick = returned.tick` whatever `others`: between the event that resolves the waiter
    (`aio.py:259-263`) and the return of the coroutine (`aio.py:393-396`), frames of another session's next tick
    replace those that `advance` waited for (`aio.py:388-389`: "a frame of its tick on every subscribed per-tick
    channel are held").
20. `NoCallerForgotten` but for `Unchecked`: `decode`, which raises "for anything a receiver must reject"
    (`jsonrpc.py:51`), lets a response without an id and an error without a code pass, and the reader fails. It
    fails as well for two messages that JSON-RPC permits: an error whose data have a member `code` or
    `message`, which `from_dict` passes on as an argument of its own (`errors.py:108`), and a ping with a list
    of params (`client.py:582`).

## Not modelled

Text: JSON itself, what makes an instance valid for a schema, `lint`, error wording, logging, the
statistics nothing else reads (jitter, staleness, receipts, decision latency). Vendor reasons of the
lifecycle, always permitted; what a client does that was told not to validate. A reader that fails, which closes
the connection, is the end of `Inbound`: the modules with sessions take it for a loss. Requests that change nothing but the world: task, transfer, approvals,
snapshots. The timeouts of `call`, `wait_for` and `wait_terminal`: a coroutine that gives up leaves its
waiter, which is removed, and nothing else. The lockstep mode of the demo. TLS, authentication and the
handshake of WebSockets. The synchronisation script and the conformance reports.

## Plan

In this order, so that what carries actions and statuses came first:

1. *Done*: `StatusSequence`, `Session` over it, `Delivery` above it, `Clock`, `Channels`; `Transport`,
   `Recovery`, `Streams`, `ClockSession`, `Heartbeat`, `Lockstep`, `FrameCodec`, `Messages`, `Inbound`.
2. *Done*: the proofs of `StatusSequence`, `Delivery`, `Clock`, `ClockSession`, `Session` with both its
   refinements, `Streams`, `Heartbeat`, `Lockstep`, `Channels`, `Transport`, `Inbound` and
   `Recovery`.
3. Extensions: the timeouts of waits in `Recovery` and `Transport`, and the demo in lockstep.
