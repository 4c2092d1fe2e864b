---------------------------- MODULE ClockSession ----------------------------
(***************************************************************************)
(* The estimator of Clock in its ClientConnection (src/awp/client.py): pings   *)
(* of the heartbeat timer and of open_session and reconnect (src/awp/aio.py), *)
(* in flight while sessions open, close, are lost and resume, and which of    *)
(* them are samples of the session's clock.                                *)
(*                                                                         *)
(* The world handles the requests of a connection in order.  It stamps a pong *)
(* on the clock of the session bound to the connection, on the tick of a      *)
(* lockstep one, or on none, and each of these is another clock.              *)
(***************************************************************************)
EXTENDS Clock

CONSTANTS
  None,
  Elsewhere,    \* the offset of a clock that is not a session's
  Faults,       \* {"hasty"}: the timer's interval may end before the resumption is answered
  MaxSessions,  \* bound: sessions opened
  MaxPings,     \* bound: pings sent
  MaxLosses     \* bound: connections lost

ASSUME ClockSessionAssumption ==
  /\ Faults \subseteq {"hasty"} /\ {MaxSessions, MaxPings, MaxLosses} \subseteq Nat
  /\ None \notin Nat /\ Elsewhere \in Int

VARIABLES
  ready,        \* the session the client holds, suspended or not
  lockstep,     \* whether it is a lockstep session
  clock_pings,  \* _clock_pings
  stage,        \* the application on this connection: "new", "asked" (session.open or
                \* session.resume sent), "opened", "sampling", "using" or "closing"
  awaited,      \* the ping it waits for while it is "sampling"
  up, requests, answers,        \* the control connection
  held, ticking, bound,         \* the world's session, its mode, and whether it is of this connection
  sessions, pings, losses       \* what the bounds count

client == <<ready, lockstep, samples, offset, clock_pings>>
app    == <<stage, awaited>>
link   == <<up, requests, answers>>
world  == <<held, ticking, bound>>
session_vars == <<client, app, link, world, sessions, pings, losses>>

-----------------------------------------------------------------------------
(* The client's requests                                                   *)

Request(method, id, mode) ==
  requests' = Append(requests, [method |-> method, id |-> id, lockstep |-> mode])

\* Only streaming pongs are to be samples.
Marked == ready # None /\ ~lockstep

Ping ==
  /\ up /\ pings < MaxPings /\ pings' = pings + 1
  /\ Request("ping", pings', None)
  /\ clock_pings' = IF Marked THEN clock_pings \union {pings'} ELSE clock_pings
  /\ UNCHANGED <<ready, lockstep, samples, offset, up, answers, world, sessions, losses>>

\* _beat, once its interval is over.
Beat ==
  /\ ready # None /\ (stage \in {"new", "asked"} => "hasty" \in Faults)
  /\ Ping /\ UNCHANGED app

\* The application's own before it has a session; open_session and reconnect wait for
\* theirs, of which one stands for the four of open_session.
AppPing ==
  /\ Ping
  /\ \/ stage = "new" /\ ready = None /\ UNCHANGED app
     \/ stage = "opened" /\ stage' = "sampling" /\ awaited' = pings'

Ask(from, method, mode, to) ==
  /\ up /\ stage \in from /\ stage' = to
  /\ Request(method, 0, mode)
  /\ UNCHANGED <<client, awaited, up, answers, world, pings, losses>>

OpenSession ==
  /\ ready = None /\ sessions < MaxSessions /\ sessions' = sessions + 1
  /\ \E mode \in BOOLEAN : Ask({"new", "using"}, "session.open", mode, "asked")

Resume == ready # None /\ Ask({"new"}, "session.resume", None, "asked") /\ UNCHANGED sessions

Close == ready # None /\ Ask({"using"}, "session.close", None, "closing") /\ UNCHANGED sessions

-----------------------------------------------------------------------------
(* The client's answers                                                    *)

\* The clock of a session, as far ahead of the agent's as of any other session's.
OffsetOf(session) == 10 * session

\* The pong of a ping that was marked, on the session's clock or on another.
Counted(clock) == IF clock = ready THEN Exchange ELSE Measure(Elsewhere) /\ UNCHANGED offset

Ignored == UNCHANGED <<samples, offset>>

Pong(a) ==
  /\ IF a.id \in clock_pings THEN Counted(a.clock) ELSE Ignored
  /\ stage' = IF stage = "sampling" /\ a.id = awaited THEN "using" ELSE stage
  /\ UNCHANGED <<ready, lockstep>>

\* Mutant: the estimator of the last session stays.
OpenedKept(a) ==
  /\ ready' = a.clock /\ lockstep' = a.lockstep /\ stage' = "opened"
  /\ UNCHANGED samples /\ offset' = OffsetOf(ready')

\* A new session, with a new estimator.
Opened(a) ==
  /\ ready' = a.clock /\ lockstep' = a.lockstep /\ stage' = "opened"
  /\ NewSession /\ offset' = OffsetOf(ready')

\* Mutant: the resumed session's samples are dropped, as those of a new one, and not renewed.
ResumedAtOnce(a) == samples' = <<>> /\ stage' = "using" /\ UNCHANGED <<ready, lockstep, offset>>

Resumed(a) == stage' = "opened" /\ UNCHANGED <<ready, lockstep, samples, offset>>

\* The close's answer, AWP_SESSION_UNKNOWN, or session.state "closed", which no caller awaits.
Over(a) ==
  /\ ready' = None
  /\ stage' = IF a.method = "session.state" THEN stage ELSE "new"
  /\ UNCHANGED <<lockstep, samples, offset>>

Receive ==
  /\ up /\ answers # <<>>
  /\ answers' = Tail(answers)
  /\ LET a == Head(answers)
     IN  /\ clock_pings' = clock_pings \ {a.id}
         /\ \/ a.method = "ping" /\ Pong(a)
            \/ a.method = "session.open" /\ Opened(a)
            \/ a.method = "session.resume" /\ a.clock # None /\ Resumed(a)
            \/ a.method \in {"session.close", "session.state", "session.resume"} /\ a.clock = None /\ Over(a)
  /\ UNCHANGED <<awaited, up, requests, world, sessions, pings, losses>>

Unmarked == {}

\* connection_lost, and connect: nothing of the old connection is answered on the new one.
Reconnect ==
  /\ losses < MaxLosses /\ losses' = losses + 1
  /\ requests' = <<>> /\ answers' = <<>> /\ up' = TRUE
  /\ clock_pings' = Unmarked /\ stage' = "new" /\ bound' = FALSE
  /\ UNCHANGED <<ready, lockstep, samples, offset, awaited, held, ticking, sessions, pings>>

-----------------------------------------------------------------------------
(* The world                                                               *)

Tick == 0

Stamp == IF ~bound THEN None ELSE IF ticking THEN Tick ELSE held

Answer(r, clock) ==
  answers' = Append(answers, [method |-> r.method, id |-> r.id, lockstep |-> r.lockstep, clock |-> clock])

Handle ==
  /\ up /\ requests # <<>>
  /\ requests' = Tail(requests)
  /\ LET r == Head(requests)
     IN  \/ /\ r.method = "ping"
            /\ Answer(r, Stamp) /\ UNCHANGED world
         \/ /\ r.method = "session.open"
            /\ held' = sessions /\ ticking' = r.lockstep /\ bound' = TRUE
            /\ Answer(r, held')
         \/ /\ r.method = "session.resume"
            /\ bound' = (held # None) /\ UNCHANGED <<held, ticking>>
            /\ Answer(r, held)
         \/ /\ r.method = "session.close"
            /\ held' = None /\ bound' = FALSE /\ UNCHANGED ticking
            /\ Answer(r, None)
  /\ UNCHANGED <<client, app, up, sessions, pings, losses>>

\* The world closes its session, or forgets one that is suspended.
Forget ==
  /\ held # None /\ held' = None /\ bound' = FALSE
  /\ IF bound THEN answers' = Append(answers, [method |-> "session.state", id |-> 0, lockstep |-> None, clock |-> None])
     ELSE UNCHANGED answers
  /\ UNCHANGED <<client, app, up, requests, ticking, sessions, pings, losses>>

-----------------------------------------------------------------------------
SessionInit ==
  /\ Init
  /\ ready = None /\ lockstep = FALSE /\ clock_pings = {}
  /\ stage = "new" /\ awaited = 0
  /\ up = TRUE /\ requests = <<>> /\ answers = <<>>
  /\ held = None /\ ticking = FALSE /\ bound = FALSE
  /\ sessions = 0 /\ pings = 0 /\ losses = 0

SessionNext ==
  \/ Beat \/ AppPing \/ OpenSession \/ Resume \/ Close \/ Receive \/ Reconnect
  \/ Handle \/ Forget

SessionSpec == SessionInit /\ [][SessionNext]_session_vars

-----------------------------------------------------------------------------
(* Properties                                                              *)

\* Types; a ping is marked once, before its answer, and forgotten with its connection.
SessionTypeOK ==
  /\ TypeOK
  /\ ready \in {None} \union 1..MaxSessions /\ lockstep \in BOOLEAN
  /\ stage \in {"new", "asked", "opened", "sampling", "using", "closing"} /\ awaited \in 0..MaxPings
  /\ held \in {None} \union 1..MaxSessions /\ {ticking, bound, up} \subseteq BOOLEAN
  /\ \A id \in clock_pings :
       \/ \E i \in DOMAIN requests : requests[i].id = id
       \/ \E i \in DOMAIN answers : answers[i].id = id

\* The client is a Clock, whose theorems hold of it then: each sample is an exchange with the
\* session's clock ("Only streaming pongs are stamped on a clock the offset can track"), and no
\* sample outlives its session.
ClockSpec == Spec

\* Once open_session or reconnect has returned, a streaming session can map its times.
SampledWhenUsed == stage = "using" /\ ready # None /\ ~lockstep => samples # <<>>

\* The types, with what a session in use needs: a sample to map its times with.
SessionInv == SessionTypeOK /\ SampledWhenUsed
=============================================================================
