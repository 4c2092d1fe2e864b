------------------------------ MODULE Lockstep ------------------------------
(***************************************************************************)
(* A lockstep session: AsyncClient.advance (src/awp/aio.py) and the tick and  *)
(* the per-tick channels of ClientConnection (src/awp/client.py), with a      *)
(* world that other sessions may advance, that may be reset or restored, and  *)
(* a connection that may be lost and the session resumed.                    *)
(*                                                                         *)
(* A reset or a restoration starts an epoch: a tick may come again in it, and *)
(* a frame of it is another one.  The client does not know of epochs.  A      *)
(* request waits as long as the world likes, a tick at a barrier included.    *)
(* Frames are inline, before the result, or on a stream connection.          *)
(***************************************************************************)
EXTENDS Integers, Sequences, SequencesExt

CONSTANTS
  None,
  Channels,     \* the subscribed per-tick channels
  Faults,       \* {"overlap"}: the application resets while it advances
  MaxTick,      \* bound: ticks of an epoch
  MaxOthers,    \* bound: advances of other sessions ("any_session")
  MaxResets,    \* bound: resets and restorations
  MaxLosses     \* bound: connections lost

ASSUME LockstepAssumption ==
  /\ {MaxTick, MaxOthers, MaxResets, MaxLosses} \subseteq Nat
  /\ Faults \subseteq {"overlap"} /\ None \notin Nat /\ IsFiniteSet(Channels)

VARIABLES
  tick,         \* tick
  held,         \* per channel, the tick of its last frame, with its epoch (history)
  call,         \* the coroutine of advance
  returned,     \* history: what the last advance returned with
  up, live,     \* the control connection is up; the session is resumed on it
  requests, control, stream,  \* messages under way
  wtick, epoch, seq, \* the world; the seq of its last frames
  onStream,     \* whether its frames come on a stream connection
  mismatched,   \* history: the world refused an advance
  overlapped,   \* history: an advance and a reset were under way at once
  others, losses

client == <<tick, held, call, returned>>
link   == <<up, live, requests, control, stream>>
world  == <<wtick, epoch, seq, onStream, mismatched, overlapped>>
vars   == <<client, link, world, others, losses>>

Ticks == 0..MaxTick

\* advance is "calling", its result has come ("answered"), it is "waiting" for frames, they
\* have come ("resolved"), or it is not under way. It goes on some time after what it awaits
\* has come: the reader may read more by then.
Idle == [at |-> "idle", tick |-> None, epoch |-> None]

-----------------------------------------------------------------------------
(* The client                                                              *)

\* Mutant: the frame of one channel will do.
HoldsSome(h, t)  == \E c \in Channels : h[c].tick = t

\* holds_tick: the last frame of every per-tick channel is of that tick.
HoldsTick(h, t) == \A c \in Channels : h[c].tick = t

\* A reset or a restoration is asked for, or its result is under way.
Resetting == \E m \in requests \union Range(control) : m.method = "world.reset"

\* Both at once are asked for, by two coroutines.
Overlap(both) ==
  /\ both => "overlap" \in Faults
  /\ overlapped' = (overlapped \/ both)

\* ClientConnection.advance: from the tick the agent holds, one request at a time.
Advance ==
  /\ up /\ live /\ call = Idle /\ tick < MaxTick
  /\ \A r \in requests : r.method # "world.tick"
  /\ Overlap(Resetting)
  /\ requests' = requests \union {[method |-> "world.tick", tick |-> tick]}
  /\ call' = [Idle EXCEPT !.at = "calling"]
  /\ UNCHANGED <<tick, held, returned, up, live, control, stream, wtick, epoch, seq, onStream, mismatched, others, losses>>

\* world.reset or world.restore, by another coroutine if an advance is under way.
Reset ==
  /\ up /\ live /\ epoch < MaxResets
  /\ ~Resetting
  /\ Overlap(call # Idle)
  /\ \E t \in Ticks \ {MaxTick} : requests' = requests \union {[method |-> "world.reset", tick |-> t]}
  /\ UNCHANGED <<client, up, live, control, stream, wtick, epoch, seq, onStream, mismatched, others, losses>>

\* What advance does once it is resumed: return, with what is held, or wait.
Complete(a) == returned' = [tick |-> a.tick, epoch |-> a.epoch, held |-> held] /\ call' = Idle

Check ==
  /\ call.at = "answered"
  /\ IF HoldsTick(held, call.tick) THEN Complete(call)
     ELSE UNCHANGED returned /\ call' = IF up THEN [call EXCEPT !.at = "waiting"] ELSE Idle
  /\ UNCHANGED <<tick, held, link, world, others, losses>>

\* Mutant: a frame that was overtaken is taken.
NoneOvertaken(f) == FALSE

\* A frame that another, on the connection the channel moved to, overtook.
Overtaken(f) == f.seq <= held[f.channel].seq /\ f.binding # held[f.channel].binding

\* _dispatch: the waiter looks at what is held, and the coroutine may go on from then.
Dispatch ==
  call' = IF call.at = "waiting" /\ HoldsTick(held', call.tick)
            THEN [call EXCEPT !.at = "resolved"] ELSE call

Frame(f) ==
  /\ held' = IF Overtaken(f) THEN held ELSE [held EXCEPT ![f.channel] = f]
  /\ Dispatch
  /\ UNCHANGED returned

\* advance returns, with what is held by then.
Return ==
  /\ call.at = "resolved"
  /\ Complete(call)
  /\ UNCHANGED <<tick, held, link, world, others, losses>>

Answered(m) ==
  /\ tick' = m.tick
  /\ call' = [at |-> "answered", tick |-> m.tick, epoch |-> m.epoch]

\* Mutant: the tick of a refusal is not taken.
MismatchTick(m) == tick

\* TICK_MISMATCH carries the world's tick; advance raises.
RefusedTick(m) == m.tick

\* Mutant: the client goes on from the tick it had.
TickKept(m) == tick

\* session.resume, world.reset and world.restore: the tick, if the result has one.
ResultTick(m) == m.tick

ReadControl ==
  /\ up /\ control # <<>>
  /\ control' = Tail(control)
  /\ LET m == Head(control)
     IN  \/ m.method = "obs.frame" /\ Frame(m) /\ UNCHANGED <<tick, live>>
         \/ m.method = "world.tick" /\ Answered(m) /\ UNCHANGED <<held, returned, live>>
         \/ /\ m.method = "error"
            /\ tick' = RefusedTick(m) /\ call' = Idle /\ UNCHANGED <<held, returned, live>>
         \/ /\ m.method = "world.reset"
            /\ tick' = ResultTick(m) /\ UNCHANGED <<held, call, returned, live>>
         \/ /\ m.method = "session.resume"
            /\ tick' = ResultTick(m) /\ live' = TRUE
            /\ held' = [c \in Channels |-> [held[c] EXCEPT !.seq = 0]]
            /\ UNCHANGED <<call, returned>>
  /\ UNCHANGED <<up, requests, stream, world, others, losses>>

ReadStream ==
  /\ stream # <<>>
  /\ stream' = Tail(stream)
  /\ Frame(Head(stream))
  /\ UNCHANGED <<tick, up, live, requests, control, world, others, losses>>

\* connection_lost: no request is left.
Asked == {}

\* The waiter fails with the connection; what had come already is kept.
Lose ==
  /\ up /\ losses < MaxLosses /\ losses' = losses + 1
  /\ up' = FALSE /\ live' = FALSE
  /\ requests' = Asked /\ control' = <<>> /\ stream' = <<>>
  /\ call' = IF call.at \in {"answered", "resolved"} THEN call ELSE Idle
  /\ UNCHANGED <<tick, held, returned, world, others>>

\* The timeout, long enough for what is under way.
TimeOut ==
  /\ call.at = "waiting" /\ control = <<>> /\ stream = <<>>
  /\ call' = Idle /\ returned' = [tick |-> None, epoch |-> None, held |-> held]
  /\ UNCHANGED <<tick, held, link, world, others, losses>>

-----------------------------------------------------------------------------
(* The world                                                               *)

FrameOf(c, binding, t, e) ==
  [method |-> "obs.frame", channel |-> c, binding |-> binding, seq |-> seq', tick |-> t, epoch |-> e]

Frames(binding, t, e) ==
  LET order == SetToSeq(Channels) IN [i \in DOMAIN order |-> FrameOf(order[i], binding, t, e)]

Message(method, t, e) == [method |-> method, tick |-> t, epoch |-> e]

\* The frames of a new tick, and the answer to who asked for it, if it is this session.
Publish(answer, t, e) ==
  /\ seq' = seq + 1
  /\ IF onStream /\ live THEN stream' = stream \o Frames("ws", t, e) /\ control' = control \o answer
     ELSE control' = control \o Frames("inline", t, e) \o answer /\ UNCHANGED stream

HandleTick ==
  /\ up
  /\ \E r \in requests :
       /\ r.method = "world.tick"
       /\ requests' = requests \ {r}
       /\ IF r.tick = wtick
            THEN /\ wtick' = wtick + 1 /\ UNCHANGED mismatched
                 /\ Publish(<<Message("world.tick", wtick', epoch)>>, wtick', epoch)
            ELSE /\ control' = Append(control, Message("error", wtick, epoch))
                 /\ mismatched' = TRUE /\ UNCHANGED <<wtick, seq, stream>>
  /\ UNCHANGED <<client, up, live, epoch, onStream, overlapped, others, losses>>

HandleReset ==
  /\ up
  /\ \E r \in requests :
       /\ r.method = "world.reset"
       /\ requests' = requests \ {r}
       /\ wtick' = r.tick /\ epoch' = epoch + 1
       /\ Publish(<<Message("world.reset", r.tick, epoch')>>, r.tick, epoch')
  /\ UNCHANGED <<client, up, live, onStream, mismatched, overlapped, others, losses>>

\* Another session, of those that may, advances the world.
Other ==
  /\ others < MaxOthers /\ others' = others + 1
  /\ wtick < MaxTick /\ wtick' = wtick + 1
  /\ IF up THEN Publish(<<>>, wtick', epoch) ELSE UNCHANGED <<seq, control, stream>>
  /\ UNCHANGED <<client, up, live, requests, epoch, onStream, mismatched, overlapped, losses>>

\* reconnect; "every per-tick channel restarts with a resync keyframe at the current tick".
Reconnect ==
  /\ ~up /\ call = Idle
  /\ up' = TRUE /\ seq' = seq + 1
  /\ control' = <<Message("session.resume", wtick, epoch)>> \o Frames("inline", wtick, epoch)
  /\ UNCHANGED <<client, live, requests, stream, wtick, epoch, onStream, mismatched, overlapped, others, losses>>

-----------------------------------------------------------------------------
Init ==
  /\ tick = 0 /\ seq = 1
  /\ held = [c \in Channels |-> [method |-> "obs.frame", channel |-> c, binding |-> "inline",
                                 seq |-> 1, tick |-> 0, epoch |-> 0]]
  /\ call = Idle /\ returned = [tick |-> 0, epoch |-> 0, held |-> held]
  /\ up = TRUE /\ live = TRUE /\ requests = {} /\ control = <<>> /\ stream = <<>>
  /\ wtick = 0 /\ epoch = 0 /\ onStream \in BOOLEAN
  /\ mismatched = FALSE /\ overlapped = FALSE
  /\ others = 0 /\ losses = 0

Next ==
  \/ Advance \/ Reset \/ Check \/ Return \/ ReadControl \/ ReadStream \/ Lose \/ TimeOut
  \/ HandleTick \/ HandleReset \/ Other \/ Reconnect

Spec == Init /\ [][Next]_vars

\* The readers and the coroutine run, the world answers, the agent goes on.
FairSpec ==
  /\ Spec
  /\ WF_vars(Check) /\ WF_vars(Return) /\ WF_vars(ReadControl) /\ WF_vars(ReadStream) /\ WF_vars(TimeOut)
  /\ WF_vars(HandleTick) /\ WF_vars(HandleReset) /\ WF_vars(Reconnect) /\ WF_vars(Advance)

-----------------------------------------------------------------------------
(* Properties                                                              *)

\* Types; the world is asked for one tick at a time, by the coroutine that waits for it.
TypeOK ==
  /\ tick \in Ticks /\ wtick \in Ticks /\ {up, live, mismatched, overlapped} \subseteq BOOLEAN
  /\ call.at \in {"idle", "calling", "answered", "waiting", "resolved"}
  /\ \A r \in requests : r.tick \in Ticks /\ (r.method = "world.tick" => call.at = "calling")
  /\ live => up

\* "Returns once the result and a frame of its tick on every subscribed per-tick channel are
\* held": what is held once advance goes on shows that tick, or a later one if another session
\* went on meanwhile, never an earlier one or one from before a reset. On a stream connection
\* that holds up to the first reset, for frames from before it may come behind its result.
AdvanceComplete ==
  ~overlapped /\ returned.tick # None /\ (onStream => returned.epoch = 0) =>
    \A c \in Channels :
      LET f == returned.held[c]
      IN  /\ f.epoch = returned.epoch
          /\ IF others = 0 THEN f.tick = returned.tick ELSE f.tick >= returned.tick

\* An advance whose frames all come does not time out for them.
AdvanceNotStuck == others = 0 /\ ~overlapped => returned.tick # None

\* The agent knows the tick it is at: the world refuses an advance only if another session
\* or a reset meanwhile moved it, whatever results were lost with their connection.
RefusedForCause == mismatched => others > 0 \/ overlapped

\* With nothing under way the client is at the world's tick, in whatever order a tick held at
\* a barrier, a reset and a resumption are answered.
TickAgrees == live /\ requests = {} /\ control = <<>> /\ others = 0 => tick = wtick

\* The agent gets through the episode: refused, disconnected or not, its advances succeed.
Progress == <>(tick = MaxTick)

\* The types, with the tick that both sides count: they agree when nothing is under way, and
\* a refusal has a cause.
Inv == TypeOK /\ RefusedForCause /\ TickAgrees
=============================================================================
