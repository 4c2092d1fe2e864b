------------------------------- MODULE Streams -------------------------------
(***************************************************************************)
(* The stream connections of AsyncClient (src/awp/aio.py), task by task, and  *)
(* the setpoints sent on them: each session that opens or resumes starts a    *)
(* _stream task, which connects, loses its connection and connects again, and *)
(* all of them share _stream_ws and _streamed.                               *)
(*                                                                         *)
(* A task's connection is known by the task.  Opening, closing and resuming a *)
(* session are the steps in which their results take effect; Channels has     *)
(* the frames that the connections bring.                                   *)
(***************************************************************************)
EXTENDS Integers, FiniteSets

CONSTANTS
  None,
  Faults,        \* {"overlap"}: a session is opened on the connection of the one before
  MaxTasks,      \* bound: _stream tasks started
  MaxSessions,   \* bound: sessions opened
  MaxBreaks      \* bound: connections lost or refused

ASSUME StreamsAssumption ==
  /\ Faults \subseteq {"overlap"} /\ {MaxTasks, MaxSessions, MaxBreaks} \subseteq Nat
  /\ None \notin Nat

VARIABLES
  token,        \* session_token: the session, or None
  phase,        \* "closed", "opened" (pings under way) or "attached"
  control,      \* the control connection is up; _closed is its negation
  stream_ws,    \* _stream_ws: the task whose connection it is, or None
  streamed,     \* _streamed
  at,           \* where each task is
  session,      \* the session of its token
  carried,      \* history: a connection carried this session since _attach_streams
  command,      \* history: what became of the last setpoint
  fresh,        \* history: this control connection had no session yet
  overlapped,   \* history: a session was opened on one that had
  sessions, breaks  \* what the bounds count

shared == <<stream_ws, streamed>>
app    == <<token, phase, control>>
opens  == <<fresh, overlapped>>
counts == <<sessions, breaks>>
vars   == <<app, shared, at, session, carried, command, opens, counts>>

Tasks   == 1..MaxTasks
Started == {i \in Tasks : at[i] # "unborn"}
Running == {i \in Tasks : at[i] \notin {"unborn", "over"}}

-----------------------------------------------------------------------------
(* A _stream task                                                          *)

Continue == control /\ token # None

\* Mutant: one attempt, and no more.
LoopOnce(i) ==
  /\ at[i] = "top"
  /\ IF Continue /\ session[i] = None
       THEN at' = [at EXCEPT ![i] = "connecting"] /\ session' = [session EXCEPT ![i] = token]
       ELSE at' = [at EXCEPT ![i] = "over"] /\ UNCHANGED session
  /\ UNCHANGED <<app, shared, carried, command, opens, counts>>

\* The head of the loop: the token is read anew for every connection.
Loop(i) ==
  /\ at[i] = "top"
  /\ IF Continue
       THEN at' = [at EXCEPT ![i] = "connecting"] /\ session' = [session EXCEPT ![i] = token]
       ELSE at' = [at EXCEPT ![i] = "over"] /\ UNCHANGED session
  /\ UNCHANGED <<app, shared, carried, command, opens, counts>>

\* Mutant: nothing remembers that a stream connection took over.
EstablishUnnoted(i) ==
  /\ at[i] = "connecting" /\ session[i] = token
  /\ at' = [at EXCEPT ![i] = "connected"]
  /\ stream_ws' = i /\ UNCHANGED streamed
  /\ carried' = TRUE
  /\ UNCHANGED <<app, session, command, opens, counts>>

\* The world accepts the token of the session it holds.
Establish(i) ==
  /\ at[i] = "connecting" /\ session[i] = token
  /\ at' = [at EXCEPT ![i] = "connected"]
  /\ stream_ws' = i /\ streamed' = TRUE
  /\ carried' = TRUE
  /\ UNCHANGED <<app, session, command, opens, counts>>

\* The finally of the loop, and the sleep.
Finally(i, next) == at' = [at EXCEPT ![i] = next] /\ stream_ws' = None

\* The handshake fails: the session is gone, or the world refuses it for now.
Refused(i) ==
  /\ at[i] = "connecting"
  /\ IF session[i] = token THEN breaks < MaxBreaks /\ breaks' = breaks + 1 ELSE UNCHANGED breaks
  /\ Finally(i, "top")
  /\ UNCHANGED <<app, streamed, session, carried, command, opens, sessions>>

\* The connection is lost, or closed by the world with its session, or by the task because
\* a frame was malformed; the task has yet to notice, or to await the close.
Break(i) ==
  /\ at[i] = "connected"
  /\ IF session[i] = token THEN breaks < MaxBreaks /\ breaks' = breaks + 1 ELSE UNCHANGED breaks
  /\ at' = [at EXCEPT ![i] = "broken"]
  /\ UNCHANGED <<app, shared, session, carried, command, opens, sessions>>

Broken(i) ==
  /\ at[i] = "broken"
  /\ Finally(i, "top")
  /\ UNCHANGED <<app, streamed, session, carried, command, opens, counts>>

\* A frame with an integer out of range: the session is abandoned, and the control
\* connection closed before the task returns.
Abandon(i) ==
  /\ at[i] = "connected" /\ control
  /\ at' = [at EXCEPT ![i] = "abandoning"]
  /\ token' = None /\ phase' = "closed"
  /\ UNCHANGED <<control, shared, session, carried, command, opens, counts>>

FinishAbandon(i) ==
  /\ at[i] = "abandoning"
  /\ control' = FALSE
  /\ Finally(i, "over")
  /\ UNCHANGED <<token, phase, streamed, session, carried, command, opens, counts>>

-----------------------------------------------------------------------------
(* The application                                                         *)

\* session.open's result, after a close or at the start.
Open ==
  /\ control /\ token = None /\ sessions < MaxSessions
  /\ fresh \/ "overlap" \in Faults
  /\ \A i \in Tasks : at[i] # "abandoning"
  /\ sessions' = sessions + 1
  /\ token' = sessions + 1 /\ phase' = "opened"
  /\ fresh' = FALSE /\ overlapped' = (overlapped \/ ~fresh)
  /\ UNCHANGED <<control, shared, at, session, carried, command, breaks>>

\* _attach_streams: channels are inline until the new stream is there.
Mark == FALSE

\* The pings of open_session or reconnect are answered; the world offers an endpoint or not.
Attach ==
  /\ phase = "opened" /\ control
  /\ phase' = "attached" /\ streamed' = Mark /\ carried' = FALSE
  /\ \/ UNCHANGED at
     \/ Started # Tasks /\ at' = [at EXCEPT ![Cardinality(Started) + 1] = "top"]
  /\ UNCHANGED <<token, control, stream_ws, session, command, opens, counts>>

\* session.close's result, or the world's session.state "closed".
Close ==
  /\ token # None /\ control
  /\ token' = None /\ phase' = "closed"
  /\ UNCHANGED <<control, shared, at, session, carried, command, opens, counts>>

LoseControl ==
  /\ control /\ breaks < MaxBreaks /\ breaks' = breaks + 1
  /\ control' = FALSE
  /\ UNCHANGED <<token, phase, shared, at, session, carried, command, opens, sessions>>

\* Mutant: the stream task is not among those that are cancelled.
Uncancelled == UNCHANGED <<at, stream_ws>>

\* _drop cancels every task and awaits its finally.
Cancelled ==
  /\ at' = [i \in Tasks |-> IF i \in Running THEN "over" ELSE at[i]]
  /\ stream_ws' = None

\* reconnect, up to its last ping; or connect, without a session to resume.
Reconnect ==
  /\ Cancelled
  /\ control' = TRUE
  /\ phase' = IF token = None THEN "closed" ELSE "opened"
  /\ fresh' = (token = None)
  /\ UNCHANGED <<overlapped, token, streamed, session, carried, command, counts>>

Setpoint(via, to) ==
  [via |-> via, to |-> to, session |-> token, carried |-> carried,
   up |-> \E i \in Tasks : at[i] = "connected" /\ session[i] = token]

\* command: on the stream connection, inline before there is one, not while it is down.
Command ==
  /\ token # None /\ control
  /\ \/ /\ stream_ws = None
        /\ command' = IF streamed THEN Setpoint("ConnectionError", None) ELSE Setpoint("inline", token)
     \/ /\ stream_ws # None
        /\ command' = IF at[stream_ws] = "connected" THEN Setpoint("stream", session[stream_ws])
                      ELSE Setpoint("ConnectionClosed", None)
  /\ UNCHANGED <<app, shared, at, session, carried, opens, counts>>

-----------------------------------------------------------------------------
Init ==
  /\ token = None /\ phase = "closed" /\ control = TRUE
  /\ stream_ws = None /\ streamed = FALSE
  /\ at = [i \in Tasks |-> "unborn"] /\ session = [i \in Tasks |-> None]
  /\ carried = FALSE /\ command = None /\ fresh = TRUE /\ overlapped = FALSE
  /\ sessions = 0 /\ breaks = 0

Next ==
  \/ \E i \in Tasks : \/ Loop(i) \/ Establish(i) \/ Refused(i) \/ Break(i) \/ Broken(i)
                      \/ Abandon(i) \/ FinishAbandon(i)
  \/ Open \/ Attach \/ Close \/ LoseControl \/ Reconnect \/ Command

Spec == Init /\ [][Next]_vars

\* The event loop runs the tasks, and a world that does not refuse a handshake completes it.
FairSpec ==
  /\ Spec
  /\ \A i \in Tasks : /\ WF_vars(Loop(i)) /\ WF_vars(Broken(i)) /\ WF_vars(FinishAbandon(i))
                      /\ WF_vars(Establish(i) \/ Refused(i))

-----------------------------------------------------------------------------
(* Properties                                                              *)

\* Types; _stream_ws names a task within its connection.
TypeOK ==
  /\ token \in {None} \union 1..MaxSessions /\ phase \in {"closed", "opened", "attached"}
  /\ (token = None) = (phase = "closed")
  /\ stream_ws \in {None} \union {i \in Tasks : at[i] \in {"connected", "broken", "abandoning"}}
  /\ {control, streamed, carried} \subseteq BOOLEAN
  /\ sessions <= MaxSessions /\ breaks <= MaxBreaks

\* A session has one stream connection at a time, however often its connections were lost and
\* resumed and whatever tasks are left of earlier connections: one at most connects with its
\* token. (Of a session opened over another on the same connection it is not true.)
OneStreamPerSession ==
  token # None /\ ~overlapped =>
    Cardinality({i \in Tasks : at[i] \in {"connecting", "connected"} /\ session[i] = token}) <= 1

\* A setpoint reaches the session it is for ("Closing a session stops its stream connection").
CommandReachesSession ==
  command # None /\ command.via = "stream" /\ ~overlapped => command.to = command.session

\* "On the stream connection when there is one", and inline only "before any is established":
\* command neither raises nor goes inline while the session's stream connection is up, and no
\* setpoint is inline once one carried the session.
CommandUsesStream ==
  command # None =>
    /\ command.up /\ ~overlapped => command.via = "stream"
    /\ command.via = "inline" => ~command.carried

\* A lost stream connection is re-established "while the control connection lives", unless
\* the session is closed or resumed meanwhile.
StreamComesBack ==
  \A i \in Tasks :
    at[i] = "broken" /\ control /\ phase = "attached"
      ~> (at[i] = "connected" /\ stream_ws = i) \/ ~control \/ phase # "attached"

\* The types, with where command sends a setpoint: to its session, and on its stream.
Inv == TypeOK /\ CommandReachesSession /\ CommandUsesStream
=============================================================================
