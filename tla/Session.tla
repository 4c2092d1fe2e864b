------------------------------- MODULE Session -------------------------------
(***************************************************************************)
(* A ClientConnection (src/awp/client.py), the application that drives it   *)
(* (src/awp/aio.py, src/awp/demo.py) and the world at the other end of a    *)
(* control connection that is lost and re-established.                      *)
(*                                                                         *)
(* The world is external: it is modelled from what the client relies on and *)
(* from the scripted world of tests/world.py.  It handles requests in the   *)
(* order they were sent, numbers the statuses of a session 1, 2, ..., moves  *)
(* an action only as the lifecycle permits, and on a resumption replays the  *)
(* statuses the agent has not acknowledged before it reports anything live.  *)
(*                                                                         *)
(* Sessions are numbered; a session token stands for its session's number.  *)
(* The initialize exchange of a new connection is part of Connect.          *)
(***************************************************************************)
EXTENDS Integers, Sequences, SequencesExt, Lifecycle

CONSTANTS
  ActionIds,    \* the action_ids the application uses
  None,         \* Python's None
  Faults,       \* what else may happen, a subset of FaultKinds
  MaxStatus,    \* bound: statuses the world issues in a session
  MaxRequests,  \* bound: requests other than session.open and session.resume
  MaxOpens,     \* bound: session.open requests
  MaxLosses     \* bound: losses of the connection, and lost messages

\* garbled: a message arrives that cannot be decoded or validated, and is dropped.
\* reopen: the application opens a session over one it could resume.
\* abandon: a protocol error on the control connection ends the session.
\* stream_abandon: the same, found by the task that reads the stream connection.
FaultKinds == {"garbled", "reopen", "abandon", "stream_abandon"}

ASSUME SessionAssumption ==
  /\ Faults \subseteq FaultKinds
  /\ MaxStatus \in Nat \ {0} /\ {MaxRequests, MaxOpens, MaxLosses} \subseteq Nat
  /\ None \notin Nat /\ None \notin [state : ActionState, seq : Nat]
  /\ None \notin {"ready", "active", "suspended", "closed"}

VARIABLES
  \* ClientConnection
  session_state, ready, actions,
  last_status_seq, seen_above, replay_to, processed, acked,  \* see StatusSequence
  accused,      \* history: a status made the client report a ProtocolViolation
  dropped,      \* history: a message of this connection was dropped
  \* the control connection: down, new, used for a resumption, or closing by the
  \* client; the requests on it, and what the world sends
  connection, to_world, to_agent,
  \* the world
  held,         \* the session it holds, or None
  attached,     \* whether the connection carries that session
  log,          \* the statuses of its last session; log[k] has status_seq k
  discarded,    \* the statuses up to here are acknowledged, and gone
  \* what the bounds count
  requests, opens, losses

history   == <<accused, dropped>>
client    == <<session_state, ready, actions>>
sequence  == <<last_status_seq, seen_above, replay_to, processed, acked>>
links     == <<connection, to_world, to_agent>>
world     == <<held, attached, log, discarded>>
counters  == <<requests, opens, losses>>
vars      == <<client, sequence, history, links, world, counters>>

\* Every status the bounds let a session have: each loss may add a "suspended" and
\* an "active", and the end of the session a "closed".
MaxSeq == MaxStatus + 2 * MaxLosses + 1

Status == INSTANCE StatusSequence WITH NoReplay <- None

-----------------------------------------------------------------------------
(* Messages                                                                *)

\* The statuses a session numbers: action.status, session.state and world.event.
ActionStatus(action, state, reason) ==
  [about |-> "action", action |-> action, state |-> state, reason |-> reason]
SessionStatus(state) == [about |-> "session", state |-> state]
EventStatus == [about |-> "event"]

Notification(seq, status) == [kind |-> "status", seq |-> seq, status |-> status]
Result(method, body)      == [kind |-> "result", method |-> method, body |-> body]
Error(method, body)       == [kind |-> "error", method |-> method, body |-> body]

\* A request whose response the client still waits for. Losing the connection
\* forgets it (connection_lost), together with the messages in flight.
Unanswered(method) ==
  \/ \E m \in Range(to_world) : m.method = method
  \/ \E m \in Range(to_agent) : m.kind # "status" /\ m.method = method

\* The newest status of an action among those with the numbers given, or 0.
Newest(action, seqs) ==
  LET about == {k \in seqs : log[k].about = "action" /\ log[k].action = action}
  IN  IF about = {} THEN 0 ELSE CHOOSE k \in about : \A j \in about : j <= k

\* How the world sees an action: the state its last status gave it.
WorldState(action) ==
  LET k == Newest(action, DOMAIN log) IN IF k = 0 THEN "submitted" ELSE log[k].state

-----------------------------------------------------------------------------
(* Requests                                                                *)

Connected == connection \in {"new", "used"}

Send(request) == to_world' = Append(to_world, request)

\* One more of the requests MaxRequests bounds.
Request(request) ==
  /\ Connected /\ requests < MaxRequests
  /\ requests' = requests + 1
  /\ Send(request)
  /\ UNCHANGED <<connection, to_agent, opens, losses, world, history>>

\* open_session: normally when there is no session to resume.
OpenSession ==
  /\ Connected /\ opens < MaxOpens
  /\ ~Unanswered("open") /\ ~Unanswered("resume")
  /\ ready = None \/ ("reopen" \in Faults /\ session_state = "suspended")
  /\ opens' = opens + 1
  /\ Send([method |-> "open", session |-> opens'])
  /\ UNCHANGED <<client, sequence, history, connection, to_agent, world, requests, losses>>

\* Mutant: acknowledging one status too many.
ResumeAheadOfAckPoint ==
  /\ connection = "new" /\ connection' = "used"
  /\ ready # None /\ session_state = "suspended" /\ ~Unanswered("open")
  /\ Send([method |-> "resume", session |-> ready, ack |-> last_status_seq + 1])
  /\ Status!Acknowledge
  /\ UNCHANGED <<client, history, to_agent, world, counters>>

\* resume, as AsyncClient.reconnect does on a new connection: the request carries,
\* and so acknowledges, the ack point.
Resume ==
  /\ connection = "new" /\ connection' = "used"
  /\ ready # None /\ session_state = "suspended" /\ ~Unanswered("open")
  /\ Send([method |-> "resume", session |-> ready, ack |-> last_status_seq])
  /\ Status!Acknowledge
  /\ UNCHANGED <<client, history, to_agent, world, counters>>

CloseSession ==
  /\ ready # None /\ ~Unanswered("close")
  /\ Request([method |-> "close"])
  /\ UNCHANGED <<client, sequence>>

\* A new ActionRecord.
Submitted == [state |-> "submitted", seq |-> 0]

\* submit: only an action_id not used yet, of a type the session grants.
Submit(action) ==
  /\ ready # None /\ actions[action] = None
  /\ actions' = [actions EXCEPT ![action] = Submitted]
  /\ Request([method |-> "submit", action |-> action])
  /\ UNCHANGED <<session_state, ready, sequence>>

\* resubmit, cancel and pull_status.
AskAbout(action, method) ==
  /\ ready # None /\ actions[action] # None
  /\ Request([method |-> method, action |-> action])
  /\ UNCHANGED <<client, sequence>>

\* ping: a heartbeat, sent from the timer (_beat) whatever else is in flight.
Ping ==
  /\ ready # None
  /\ Request([method |-> "ping", ack |-> last_status_seq])
  /\ Status!Acknowledge
  /\ UNCHANGED client

-----------------------------------------------------------------------------
(* What the client does with a message                                     *)

\* Take the next message off the connection; the counterpart of each handler below.
Receive(kind) ==
  /\ to_agent # <<>> /\ Head(to_agent).kind = kind
  /\ to_agent' = Tail(to_agent)
  /\ UNCHANGED <<connection, to_world, world, counters>>

ReceiveResult(method) == Receive("result") /\ Head(to_agent).method = method
ReceiveError(method)  == Receive("error") /\ Head(to_agent).method = method
Body == Head(to_agent).body

\* _sequence reports a status beyond the next one.
Accuse(cond) == accused' = (accused \/ cond) /\ UNCHANGED dropped
IsGap(seq) == seq # last_status_seq + 1

\* The record of an action, created by its first status if there is none.
RecordState(action) ==
  IF actions[action] = None THEN "submitted" ELSE actions[action].state

\* Mutant: progress is no transition either.
ProgressBreaksLifecycle(status) ==
  LET source == RecordState(status.action)
  IN  source \in Terminal \/ ~Permitted(source, status.state, status.reason)

BreaksLifecycle(status) ==
  LET source == RecordState(status.action)
  IN  \/ source \in Terminal
      \/ source # status.state /\ ~Permitted(source, status.state, status.reason)

\* _apply_status, for a status that was not processed before.
ApplyStatus(seq, status) ==
  /\ Status!Process(seq)
  /\ actions' = [actions EXCEPT ![status.action] = [state |-> status.state, seq |-> seq]]
  /\ Accuse(IsGap(seq) \/ BreaksLifecycle(status))
  /\ UNCHANGED <<session_state, ready>>

\* The session.state branch of _on_notification; _closed if it reports the end.
ApplySessionState(seq, status) ==
  /\ Status!Process(seq)
  /\ session_state' = status.state
  /\ ready' = IF status.state = "closed" THEN None ELSE ready
  /\ Accuse(IsGap(seq))
  /\ UNCHANGED actions

ApplyEvent(seq) ==
  /\ Status!Process(seq)
  /\ Accuse(IsGap(seq))
  /\ UNCHANGED client

\* A notification that carries a status_seq.
ReceiveStatus ==
  /\ Receive("status")
  /\ LET seq == Head(to_agent).seq
         status == Head(to_agent).status
     IN  \/ status.about = "action" /\ ApplyStatus(seq, status)
         \/ status.about = "session" /\ ApplySessionState(seq, status)
         \/ status.about = "event" /\ ApplyEvent(seq)
         \/ Status!Redeliver(seq) /\ UNCHANGED <<client, history>>

\* A result that reports a status: it is applied unless it was already processed.
ApplyResult ==
  \/ ApplyStatus(Body.seq, Body.status)
  \/ ~Status!Fresh(Body.seq) /\ UNCHANGED <<client, sequence, history>>

IgnoreResult == UNCHANGED <<client, sequence, history>>

NewerThanRecord ==
  actions[Body.status.action] # None /\ Body.seq > actions[Body.status.action].seq

\* _result_action_submit, which first restores the record if another submission of
\* the action was refused meanwhile.
ReceiveSubmitResult ==
  /\ ReceiveResult("submit")
  /\ LET action == Body.status.action
     IN  IF RecordState(action) = "submitted"
           THEN \/ ApplyStatus(Body.seq, Body.status)
                \/ /\ ~Status!Fresh(Body.seq)
                   /\ actions' = [actions EXCEPT ![action] = Submitted]
                   /\ UNCHANGED <<session_state, ready, sequence, history>>
           ELSE IF NewerThanRecord THEN ApplyResult ELSE IgnoreResult

\* _result_action_cancel.
ReceiveCancelResult == ReceiveResult("cancel") /\ ApplyResult

\* _result_action_status: a pull for an action the client knows nothing newer of.
ReceivePullResult ==
  /\ ReceiveResult("pull")
  /\ IF NewerThanRecord THEN ApplyResult ELSE IgnoreResult

\* _result_session_open: nothing is left of the last session.
ReceiveOpenResult ==
  /\ ReceiveResult("open")
  /\ Status!EndSession
  /\ actions' = [a \in ActionIds |-> None]
  /\ ready' = Body
  /\ session_state' = "ready"
  /\ UNCHANGED history

\* Mutant: a replay with nothing to replay is begun as well.
ResumeResultUnchecked ==
  /\ ReceiveResult("resume")
  /\ replay_to' = Body.replay_to
  /\ ready' = Body.session
  /\ UNCHANGED <<session_state, actions, history,
                 last_status_seq, seen_above, processed, acked>>

\* _result_session_resume.
ReceiveResumeResult ==
  /\ ReceiveResult("resume")
  /\ Status!ResumeResult(Body.replay_to)
  /\ ready' = Body.session
  /\ UNCHANGED <<session_state, actions, history>>

\* _session_lost: the session is closed, and nothing of it survives.
SessionLost ==
  /\ Status!EndSession
  /\ ready' = None
  /\ actions' = [a \in ActionIds |-> None]
  /\ session_state' = "closed"

\* AWP_SESSION_UNKNOWN, the answer to a session.resume.
ReceiveResumeError ==
  /\ ReceiveError("resume")
  /\ SessionLost
  /\ UNCHANGED history

\* _closed, on the result of session.close.
ReceiveCloseResult ==
  /\ ReceiveResult("close")
  /\ session_state' = "closed"
  /\ ready' = None
  /\ UNCHANGED <<actions, sequence, history>>

\* Mutant: the record is deleted whatever is known of the action.
SubmitErrorDeletes ==
  /\ ReceiveError("submit")
  /\ actions' = IF Body.code # "conflict" THEN [actions EXCEPT ![Body.action] = None]
                                          ELSE actions
  /\ UNCHANGED <<session_state, ready, sequence, history>>

\* A refused submission created no action, unless its action_id was taken.
ReceiveSubmitError ==
  /\ ReceiveError("submit")
  /\ LET action == Body.action
     IN  actions' = IF actions[action] # None /\ RecordState(action) = "submitted"
                         /\ Body.code # "conflict"
                      THEN [actions EXCEPT ![action] = None] ELSE actions
  /\ UNCHANGED <<session_state, ready, sequence, history>>

\* Responses that change nothing the properties are about.
ReceiveOther ==
  /\ \/ ReceiveResult("ping")
     \/ \E method \in {"open", "close", "cancel", "pull"} : ReceiveError(method)
  /\ UNCHANGED <<client, sequence, history>>

\* The first frame on a granted channel makes the session active (_frame).
FirstFrame ==
  /\ session_state = "ready" /\ ready # None /\ attached
  /\ session_state' = "active"
  /\ UNCHANGED <<ready, actions, sequence, history, links, world, counters>>

-----------------------------------------------------------------------------
(* The connection                                                          *)

\* The application connects (again), and the agent introduces itself.
Connect ==
  /\ connection = "down" /\ connection' = "new"
  /\ UNCHANGED <<client, sequence, history, to_world, to_agent, world, counters>>

\* Mutants: a closed session suspended; a lost connection that suspends nothing.
AlwaysSuspended == "suspended"

NeverSuspended == session_state

\* connection_lost.
StateAfterLoss == IF session_state \in {None, "closed"} THEN session_state ELSE "suspended"

\* Both ends see the connection end at once, and what is in flight is gone. An end
\* that sees it later only handles more of its messages before this step.
Disconnect ==
  /\ connection' = "down"
  /\ to_world' = <<>> /\ to_agent' = <<>>
  /\ attached' = FALSE /\ dropped' = FALSE
  /\ UNCHANGED <<accused, held, log, discarded, requests, opens>>

LoseConnection ==
  /\ Connected /\ losses < MaxLosses
  /\ losses' = losses + 1
  /\ Disconnect
  /\ session_state' = StateAfterLoss
  /\ UNCHANGED <<ready, actions, sequence>>

\* The reader drops a message it cannot decode, and _check one that is not valid.
DropMessage ==
  /\ "garbled" \in Faults /\ losses < MaxLosses
  /\ to_agent # <<>> /\ to_agent' = Tail(to_agent)
  /\ losses' = losses + 1 /\ dropped' = TRUE
  /\ UNCHANGED <<client, sequence, accused, connection, to_world, world, requests, opens>>

\* _integer_range in the reader: abandon, then close the connection and stop.
\* (Whether the world still sees the session.close is WorldCloses or not.)
Abandon ==
  /\ "abandon" \in Faults /\ losses < MaxLosses
  /\ to_agent # <<>>
  /\ losses' = losses + 1
  /\ SessionLost
  /\ Disconnect

\* _integer_range in a _stream task, which starts after the pings that follow an open
\* or a resumption, so after the statuses that came with it: while it sends
\* session.close and closes the connection, the reader goes on receiving.
AbandonFromStream ==
  /\ "stream_abandon" \in Faults /\ losses < MaxLosses
  /\ Connected /\ ready # None /\ session_state \in {"ready", "active"}
  /\ processed # {} /\ replay_to = None
  /\ connection' = "closing"
  /\ losses' = losses + 1
  /\ SessionLost
  /\ Send([method |-> "close"])
  /\ UNCHANGED <<history, to_agent, world, requests, opens>>

FinishClosing ==
  /\ connection = "closing"
  /\ Disconnect
  /\ session_state' = StateAfterLoss
  /\ UNCHANGED <<ready, actions, sequence, losses>>

-----------------------------------------------------------------------------
(* The world                                                               *)

\* Answer the next request, if there is one, with the messages given.
Answer(method, messages) ==
  /\ to_world # <<>> /\ Head(to_world).method = method
  /\ to_world' = Tail(to_world)
  /\ to_agent' = to_agent \o messages
  /\ UNCHANGED <<client, sequence, history, connection, counters>>

Asked == Head(to_world)

\* What the agent acknowledges, the world need not keep.
Discard(ack) == discarded' = IF ack > discarded THEN ack ELSE discarded

NotificationsAfter(seq) ==
  [i \in 1..(Len(log) - seq) |-> Notification(seq + i, log[seq + i])]

GrantOpen ==
  /\ LET first == SessionStatus("ready")
     IN  /\ Answer("open", <<Result("open", Asked.session), Notification(1, first)>>)
         /\ log' = <<first>>
  /\ held' = Asked.session
  /\ attached' = TRUE
  /\ discarded' = 0

\* The replay: what is retained of the statuses the agent has not processed.
GrantResume ==
  /\ to_world # <<>> /\ Asked.method = "resume" /\ held = Asked.session
  /\ LET live == SessionStatus("active")
         result == Result("resume", [session |-> held, replay_to |-> Len(log)])
         replay == NotificationsAfter(IF Asked.ack > discarded THEN Asked.ack ELSE discarded)
     IN  /\ Answer("resume", <<result>> \o replay \o <<Notification(Len(log) + 1, live)>>)
         /\ log' = Append(log, live)
  /\ Discard(Asked.ack)
  /\ attached' = TRUE
  /\ UNCHANGED held

RefuseResume ==
  /\ to_world # <<>> /\ Asked.method = "resume" /\ held # Asked.session
  /\ Answer("resume", <<Error("resume", "session_unknown")>>)
  /\ UNCHANGED world

AnswerPing ==
  /\ Answer("ping", <<Result("ping", None)>>)
  /\ IF attached THEN Discard(Asked.ack) ELSE UNCHANGED discarded
  /\ UNCHANGED <<held, attached, log>>

\* The world ends the session it holds.
EndHeld == log' = Append(log, SessionStatus("closed")) /\ held' = None /\ attached' = FALSE

Closing == Notification(Len(log) + 1, SessionStatus("closed"))

AnswerClose ==
  /\ attached
  /\ Answer("close", <<Closing, Result("close", None)>>)
  /\ EndHeld
  /\ UNCHANGED discarded

\* The state an action may be in next (a repeated "executing" reports progress), and a
\* reason the lifecycle knows for it.
NextStates(action) ==
  LET from == WorldState(action)
  IN  {t.to : t \in {u \in Transitions : u.from = from}}
        \union (IF from = "executing" THEN {from} ELSE {})

ReasonFor(action, state) ==
  LET rows == {t \in Transitions : t.from = WorldState(action) /\ t.to = state}
      reasons == UNION {t.reasons : t \in rows}
  IN  IF reasons = {} THEN NoReason ELSE CHOOSE r \in reasons : TRUE

Room == Len(log) < MaxStatus

\* A submission is admitted with a first status, which the result reports...
AdmitSubmission ==
  /\ attached /\ Room
  /\ to_world # <<>> /\ Asked.method = "submit" /\ WorldState(Asked.action) = "submitted"
  /\ \E state \in NextStates(Asked.action) \cap PreExecution :
       LET status == ActionStatus(Asked.action, state, NoReason)
       IN  /\ log' = Append(log, status)
           /\ Answer("submit", <<Result("submit", [seq |-> Len(log) + 1, status |-> status])>>)
  /\ UNCHANGED <<held, attached, discarded>>

\* ...and a retry, like a pull, reports where the action stands.
ReportAction(method) ==
  /\ attached
  /\ to_world # <<>> /\ Asked.method = method
  /\ LET k == Newest(Asked.action, DOMAIN log)
     IN  /\ k # 0
         /\ method = "cancel" => log[k].state \in Terminal \union {"cancelling"}
         /\ Answer(method, <<Result(method, [seq |-> k, status |-> log[k]])>>)
  /\ UNCHANGED world

\* action.cancel aborts an action under way.
AnswerCancel ==
  /\ attached /\ Room
  /\ to_world # <<>> /\ Asked.method = "cancel"
  /\ \E state \in NextStates(Asked.action) \cap {"cancelling", "cancelled"} :
       LET status == ActionStatus(Asked.action, state, "cancelled_by_agent")
       IN  /\ WorldState(Asked.action) # "cancelling"
           /\ log' = Append(log, status)
           /\ Answer("cancel", <<Result("cancel", [seq |-> Len(log) + 1, status |-> status])>>)
  /\ UNCHANGED <<held, attached, discarded>>

\* The world refuses what it cannot or will not do; it refuses no submission of an
\* action it admitted in the session it carries.
Refuse ==
  /\ to_world # <<>>
  /\ \/ /\ Asked.method \in {"open", "pull", "cancel"}
        /\ Answer(Asked.method, <<Error(Asked.method, None)>>)
     \/ /\ ~attached
        /\ Answer("close", <<Error("close", None)>>)
     \/ /\ Asked.method = "submit"
        /\ attached => WorldState(Asked.action) = "submitted"
        /\ \E code \in {"refused", "conflict"} :
             Answer("submit", <<Error("submit", [action |-> Asked.action, code |-> code])>>)
  /\ UNCHANGED world

\* A status nobody asked for: numbered, retained, and sent if the agent is there.
Report(status) ==
  /\ log' = Append(log, status)
  /\ to_agent' = IF attached THEN Append(to_agent, Notification(Len(log) + 1, status))
                             ELSE to_agent
  /\ UNCHANGED <<client, sequence, history, connection, to_world, discarded, counters>>

Progress(action) ==
  /\ held # None /\ Room
  /\ WorldState(action) # "submitted"
  /\ \E state \in NextStates(action) :
       Report(ActionStatus(action, state, ReasonFor(action, state)))
  /\ UNCHANGED <<held, attached>>

\* A world.event; the session's first activity; its suspension, once nobody is there.
Happen ==
  /\ held # None
  /\ LET states == {k \in DOMAIN log : log[k].about = "session"}
         now == log[CHOOSE k \in states : \A j \in states : j <= k].state
     IN  \/ Room /\ Report(EventStatus)
         \/ Room /\ attached /\ now = "ready" /\ Report(SessionStatus("active"))
         \/ ~attached /\ now # "suspended" /\ Report(SessionStatus("suspended"))
  /\ UNCHANGED <<held, attached>>

\* The world shuts the session down, or the reconnect window passes.
WorldCloses ==
  /\ held # None
  /\ Report(SessionStatus("closed"))
  /\ held' = None /\ attached' = FALSE

-----------------------------------------------------------------------------
Init ==
  /\ session_state = None /\ ready = None
  /\ actions = [a \in ActionIds |-> None]
  /\ Status!Init
  /\ accused = FALSE /\ dropped = FALSE
  /\ connection = "down" /\ to_world = <<>> /\ to_agent = <<>>
  /\ held = None /\ attached = FALSE /\ log = <<>> /\ discarded = 0
  /\ requests = 0 /\ opens = 0 /\ losses = 0

ClientReceives ==
  \/ ReceiveStatus \/ ReceiveSubmitResult \/ ReceiveCancelResult \/ ReceivePullResult
  \/ ReceiveOpenResult \/ ReceiveResumeResult \/ ReceiveCloseResult
  \/ ReceiveResumeError \/ ReceiveSubmitError \/ ReceiveOther

WorldAnswers ==
  \/ GrantOpen \/ GrantResume \/ RefuseResume \/ AnswerPing \/ AnswerClose
  \/ AdmitSubmission \/ AnswerCancel \/ Refuse
  \/ \E method \in {"submit", "pull", "cancel"} : ReportAction(method)

Next ==
  \/ OpenSession \/ Resume \/ CloseSession \/ Ping
  \/ \E a \in ActionIds :
       Submit(a) \/ \E method \in {"submit", "pull", "cancel"} : AskAbout(a, method)
  \/ ClientReceives \/ FirstFrame
  \/ Connect \/ LoseConnection \/ DropMessage
  \/ Abandon \/ AbandonFromStream \/ FinishClosing
  \/ WorldAnswers \/ (\E a \in ActionIds : Progress(a)) \/ Happen \/ WorldCloses

Spec == Init /\ [][Next]_vars

\* Nothing the client waits for stays undone: the reader reads, the world answers and
\* the application reconnects and resumes (recover() in demo.py).
Fairness ==
  /\ WF_vars(ClientReceives) /\ WF_vars(WorldAnswers) /\ WF_vars(FinishClosing)
  /\ WF_vars(Connect) /\ WF_vars(Resume)

FairSpec == Spec /\ Fairness

-----------------------------------------------------------------------------
(* Properties                                                              *)

\* The records of actions (ActionRecord).
Records == [state : ActionState, seq : 0..MaxSeq]

\* The client, the connection and the world stay within their types; only a session
\* the world holds is attached.
TypeOK ==
  /\ session_state \in {None, "ready", "active", "suspended", "closed"}
  /\ ready \in (1..MaxOpens) \union {None}
  /\ actions \in [ActionIds -> Records \union {None}]
  /\ Status!TypeOK
  /\ {accused, dropped} \subseteq BOOLEAN
  /\ connection \in {"down", "new", "used", "closing"}
  /\ held \in (1..MaxOpens) \union {None}
  /\ attached \in BOOLEAN /\ (attached => held # None)
  /\ Len(log) \in 0..MaxSeq
  /\ discarded \in 0..MaxSeq
  /\ requests \in 0..MaxRequests /\ opens \in 0..MaxOpens /\ losses \in 0..MaxLosses

\* The agent and the world hold the same session.
Live == ready # None /\ ready = held

\* The client's sequence bookkeeping implements StatusSequence, whatever the
\* connection and the world do.
SequenceSpec == Status!Spec

\* While the connection only loses what is in flight, the client accuses no world that
\* numbers and orders its statuses and keeps to the lifecycle (ProtocolViolation: "The
\* world broke the specification").
NoFalseAccusation == ~accused

\* The record of an action is its newest status among those processed, whether that
\* came as a notification, a result, a retried result or in a replay (_apply_status,
\* and the comparisons of _result_action_submit and _result_action_status).
RecordIsNewest ==
  Live =>
    /\ processed \subseteq DOMAIN log
    /\ \A a \in ActionIds :
         LET k == Newest(a, processed)
         IN  IF k = 0 THEN actions[a] \in {None, Submitted}
                      ELSE actions[a] = [state |-> log[k].state, seq |-> k]

\* When the world has nothing more to say, the agent has seen every status of the
\* session and agrees on its state, however often the connection was lost. (A frame
\* makes the client call the session active before the world does.)
CaughtUpAgrees ==
  Live /\ attached /\ to_agent = <<>> =>
    LET states == {k \in DOMAIN log : log[k].about = "session"}
        now == log[CHOOSE k \in states : \A j \in states : j <= k].state
    IN  /\ processed = DOMAIN log
        /\ session_state = now \/ (now = "ready" /\ session_state = "active")

\* The world discards no status of the session that the agent has yet to process: what
\* ping and session.resume acknowledge is what was processed of that session.
DiscardedIsProcessed == Live => 1..discarded \subseteq processed

\* A session that is not over has a grant, so the client can acknowledge, resume and
\* close it; and no action outlives the grants of a session that was lost.
SessionHasGrant == session_state \in {"ready", "active", "suspended"} => ready # None

\* An action never leaves a terminal state (lifecycle.json has no transition from one).
TerminalIsFinal ==
  [][\A a \in ActionIds :
       actions[a] # None /\ actions'[a] # None /\ actions[a].state \in Terminal
         => actions'[a].state = actions[a].state]_vars

\* The session implements Delivery: between the open or resumed session of the agent
\* and the same session of the world, each status takes effect at most once and none
\* is given up before.
Promise == INSTANCE Delivery WITH
  issued    <- IF Live THEN Len(log) ELSE 0,
  delivered <- IF Live THEN processed ELSE {},
  discarded <- IF Live THEN discarded ELSE 0

DeliverySpec == Promise!Spec

\* Every status of the session is processed in the end, unless the session ends, even
\* when it or what acknowledged it was lost with a connection; what is dropped comes with
\* the next connection only.
CaughtUp == \A k \in 1..MaxSeq :
  (Live /\ k \in DOMAIN log /\ k \notin processed) ~> (~Live \/ k \in processed \/ dropped)

\* The types, with what no step may break of a session and its acknowledgements: the world
\* gives up nothing unprocessed, and a session that is not over has a grant.
Inv == TypeOK /\ DiscardedIsProcessed /\ SessionHasGrant
=============================================================================
