------------------------------ MODULE Recovery -------------------------------
(***************************************************************************)
(* The scripted agent of src/awp/demo.py on AsyncClient (src/awp/aio.py): it  *)
(* moves, one target after the other, reconnects when the connection is lost, *)
(* resumes the session or opens another, then cancels a move, tries one the   *)
(* world refuses and closes the session.  Streaming mode, without timeouts.   *)
(*                                                                         *)
(* Between the event that resolves a future and the coroutine that awaits it  *)
(* the reader may process any number of messages: a step of the reader is one *)
(* message, a step of the program is what it does between two awaits.  How    *)
(* messages are queued and sent is Transport's subject: here the program has  *)
(* one request outstanding, and a lost connection fails what is awaited.      *)
(***************************************************************************)
EXTENDS Integers, Sequences, FiniteSets

CONSTANTS
  None,
  Targets,      \* length of TARGETS: moves of the script
  Samples,      \* pings of open_session
  FaultAt,      \* labels of the program that faults of the connection happen at, while it awaits
  Faults,       \* what else may happen, a subset of FaultKinds
  MaxLosses,    \* bound: losses of the connection
  MaxSessions   \* bound: sessions the world opens

\* expire: the world forgets a session without a connection.  slow: the first frame of a
\* session comes late.  range: the world sends an integer beyond 2^53-1.  persistent: an
\* application that retries a recovery that failed, which the demo does not.
FaultKinds == {"expire", "slow", "range", "persistent"}

Labels == {"opening", "sampling", "moving", "waiting", "connecting", "initializing",
           "resuming", "live", "settling", "watching", "cancelling", "stopping", "closing"}
Ends == {"done", "ended", "timedout", "crashed"}

\* What a state, an outcome, a future or a method may be but None.
Values ==
  {"ready", "active", "suspended", "closed",
   "submitted", "executing", "far", "completed", "aborted", "lost", "gone",
   "pending", "done", "error", "refused",
   "open", "ping", "submit", "initialize", "resume", "cancel", "close"}

ASSUME RecoveryAssumption ==
  /\ FaultAt \subseteq Labels /\ Faults \subseteq FaultKinds
  /\ {Targets, Samples, MaxSessions} \subseteq Nat \ {0} /\ MaxLosses \in Nat
  /\ None \notin Nat \union Values

VARIABLES
  \* ClientConnection
  session_state, ready,       \* ready: the session whose token is held, or None
  actions,                    \* state of each record, or None
  last_status_seq, replay_to,
  \* AsyncClient
  conn,                       \* the connection: "up", "ending" (by the agent) or "down"
  latest,                     \* a frame is in latest
  future, live,               \* the awaited future and reconnect's: "pending", "done", "error"
                              \* (the connection closed), "refused" (an AwpError), None
  \* the program
  pc, move, samples, outcome,
  \* the world
  held, attached, sessions,   \* the session it holds, whether on this connection
  log,                        \* the statuses of that session
  act,                        \* what became of each action
  to_world, to_agent,
  happened,                   \* history: labels of losses, "range", "untold" and "slow"
  losses                      \* what the bounds count

agent   == <<session_state, ready, actions, last_status_seq, replay_to>>
program == <<pc, move, samples, outcome>>
world   == <<held, attached, sessions, log, act>>
bounds  == <<happened, losses>>
vars    == <<agent, conn, latest, future, live, program, world, to_world, to_agent, bounds>>

\* The moves of TARGETS, the one that is cancelled and the one that is refused.
CancelledMove == Targets + 1
RefusedMove   == Targets + 2
Moves         == 1..RefusedMove

Terminal == {"completed", "aborted"}
\* A record's states: "far" is executing with a progress above 0.2.
States   == Terminal \union {"submitted", "executing", "far"}

-----------------------------------------------------------------------------
(* The program                                                             *)

\* Requests go out on a live connection, else the call raises.
Ask(request) ==
  IF conn = "up" THEN future' = "pending" /\ to_world' = Append(to_world, request)
                 ELSE future' = "error" /\ UNCHANGED to_world

\* An exception that nothing handles.
Raise == pc' = "crashed" /\ UNCHANGED <<move, samples, actions, future, live, to_world>>
Crash == Raise /\ UNCHANGED outcome

\* wait_terminal awaits an event that shows the record terminal, unless it is already.
TerminalRecord(id) == actions[id] \in Terminal

\* move: the basis is the latest frame, and the type must be granted by a session.
Move(id) ==
  IF ~latest \/ ready = None
    THEN Raise
    ELSE /\ pc' = "moving" /\ move' = id
         /\ actions' = [actions EXCEPT ![id] = "submitted"]
         /\ Ask([method |-> "submit", id |-> id])
         /\ UNCHANGED <<samples, live>>

\* run returns, and the script goes on: targets, then the move to be cancelled.
Return(result) ==
  /\ outcome' = [outcome EXCEPT ![move] = result]
  /\ Move(move + 1)

\* Back in run's loop: the record is terminal, or its terminal event is awaited; it may
\* be gone, which is a KeyError.
AwaitTerminal(label) ==
  \/ actions[move] = None /\ Crash
  \/ TerminalRecord(move) /\ label = "waiting" /\ Return(actions[move])
  \/ /\ actions[move] # None /\ ~(TerminalRecord(move) /\ label = "waiting")
     /\ pc' = label
     /\ future' = IF conn = "down" THEN "error"
                  ELSE IF TerminalRecord(move) THEN "done" ELSE "pending"
     /\ UNCHANGED <<move, samples, outcome, actions, live, to_world>>

\* The next call of the script.
AskNext(label, request) ==
  /\ pc' = label /\ Ask(request)
  /\ UNCHANGED <<move, samples, outcome, actions, live>>

\* What is awaited is there, at that label.
Resumed(label, how) ==
  /\ pc = label /\ future = how
  /\ UNCHANGED <<session_state, ready, last_status_seq, replay_to, world, to_agent, bounds>>

Keep == UNCHANGED <<conn, latest>>

Opened ==
  /\ Resumed("opening", "done") /\ Keep
  /\ pc' = "sampling" /\ samples' = Samples
  /\ Ask([method |-> "ping"])
  /\ UNCHANGED <<move, outcome, actions, live>>

\* open_session's pings are done: the first move, or the next if one was lost with its session.
Sampled ==
  /\ Resumed("sampling", "done") /\ Keep
  /\ \/ /\ samples > 1
        /\ samples' = samples - 1 /\ Ask([method |-> "ping"])
        /\ UNCHANGED <<pc, move, outcome, actions, live>>
     \/ samples = 1 /\ move = 0 /\ Move(1) /\ UNCHANGED outcome
     \/ samples = 1 /\ move # 0 /\ Return("lost")

\* submit reads its record after the await.
Admitted ==
  /\ Resumed("moving", "done") /\ Keep
  /\ \/ move <= Targets /\ AwaitTerminal("waiting")
     \/ move = CancelledMove /\ actions[move] = None /\ Crash
     \/ /\ move = CancelledMove /\ actions[move] # None
        /\ pc' = "watching"
        /\ future' = IF conn = "down" THEN "error" ELSE "pending"
        /\ UNCHANGED <<move, samples, outcome, actions, live, to_world>>

\* The last move is refused, as it should be; the session is closed.
Refused ==
  /\ Resumed("moving", "refused") /\ move = RefusedMove /\ Keep
  /\ AskNext("closing", [method |-> "close"])

\* wait_terminal returns the record, read again after the await.
Terminated ==
  /\ Resumed("waiting", "done") /\ Keep
  /\ IF actions[move] = None THEN Crash ELSE Return(actions[move])

Progressed ==
  /\ Resumed("watching", "done") /\ Keep
  /\ AskNext("cancelling", [method |-> "cancel", id |-> move])

\* wait_for's timeout: the action ended before it got far.
Unprogressed ==
  /\ Resumed("watching", "pending") /\ Keep
  /\ act[move] \in Terminal \union {"gone"} /\ to_agent = <<>>
  /\ pc' = "timedout" /\ UNCHANGED <<move, samples, outcome, actions, future, live, to_world>>

CancelAnswered == Resumed("cancelling", "done") /\ Keep /\ AwaitTerminal("stopping")

Stopped ==
  /\ Resumed("stopping", "done") /\ Keep
  /\ IF actions[move] = None THEN Crash ELSE Return(actions[move])

Closed ==
  /\ Resumed("closing", "done") /\ Keep
  /\ pc' = "done" /\ UNCHANGED <<move, samples, outcome, actions, future, live, to_world>>

-----------------------------------------------------------------------------
(* Recovery                                                                *)

\* recover and reconnect, up to connect: a session that is closed ends the demo, any
\* other is left to resume.  What was on the old connection is gone.
Reconnect ==
  IF session_state = "closed"
    THEN pc' = "ended" /\ UNCHANGED <<session_state, conn, attached, to_world, to_agent>>
    ELSE /\ pc' = "connecting" /\ session_state' = "suspended"
         /\ conn' = "down" /\ attached' = FALSE /\ to_world' = <<>> /\ to_agent' = <<>>

RecoverFrom(label) ==
  /\ pc = label /\ future = "error"
  /\ Reconnect /\ live' = None
  /\ UNCHANGED <<ready, actions, last_status_seq, replay_to, latest, future, move, samples,
                 outcome, held, sessions, log, act, bounds>>

\* Mutant: a lost connection that is not caught.
NotCaught == {}

\* run calls recover when the connection is lost while it waits; nothing in recover does.
Caught == {"waiting"}
Recover == \E label \in Caught : RecoverFrom(label)
Retried == {"initializing", "resuming", "live", "settling"}
Retry   == "persistent" \in Faults /\ \E label \in Retried : RecoverFrom(label)

Connect ==
  /\ pc = "connecting"
  /\ conn' = "up"
  /\ pc' = "initializing" /\ future' = "pending"
  /\ to_world' = <<[method |-> "initialize"]>>
  /\ UNCHANGED <<agent, latest, live, move, samples, outcome, world, to_agent, bounds>>

\* The world says the session is live only after the replay: the waiter is there before
\* the request.
Initialized ==
  /\ Resumed("initializing", "done") /\ Keep
  /\ pc' = "resuming"
  /\ live' = IF conn = "down" THEN "error" ELSE "pending"
  /\ Ask([method |-> "resume", token |-> ready, last |-> last_status_seq])
  /\ UNCHANGED <<move, samples, outcome, actions>>

\* Mutant: reconnect is done once it has the result.
LiveNotAwaited ==
  /\ Resumed("resuming", "done") /\ Keep
  /\ pc' = "settling" /\ live' = None /\ Ask([method |-> "ping"])
  /\ UNCHANGED <<move, samples, outcome, actions>>

\* With the result, reconnect awaits the live state unless the session is active already.
ResumedAnswered ==
  /\ Resumed("resuming", "done") /\ Keep
  /\ UNCHANGED <<move, samples, outcome, actions>>
  /\ \/ /\ session_state = "active"
        /\ pc' = "settling" /\ live' = None /\ Ask([method |-> "ping"])
     \/ /\ session_state # "active"
        /\ pc' = "live" /\ future' = live /\ UNCHANGED <<live, to_world>>

\* The session is live, and the waiter removed.
Live ==
  /\ Resumed("live", "done") /\ Keep
  /\ pc' = "settling" /\ live' = None /\ Ask([method |-> "ping"])
  /\ UNCHANGED <<move, samples, outcome, actions>>

\* Mutant: recover's answer taken the wrong way round.
SettledLost == Resumed("settling", "done") /\ Keep /\ Return("lost")

\* reconnect returns: the session is resumed, and run goes on waiting.
Settled == Resumed("settling", "done") /\ Keep /\ AwaitTerminal("waiting")

\* AWP_SESSION_UNKNOWN: open a new session, assuming nothing of the old survives.
Unknown ==
  /\ Resumed("resuming", "refused") /\ Keep
  /\ pc' = "opening" /\ live' = None /\ Ask([method |-> "open"])
  /\ UNCHANGED <<move, samples, outcome, actions>>

\* An exception that no handler of the demo takes.
Unhandled ==
  /\ \/ /\ future = "error" /\ pc \in Labels \ (Caught \union {"connecting"})
     \/ /\ future = "refused" /\ pc # "resuming"
        /\ ~(pc = "moving" /\ move = RefusedMove)
  /\ Crash
  /\ UNCHANGED <<session_state, ready, last_status_seq, replay_to, conn, latest, world,
                 to_agent, bounds>>

Program ==
  \/ Opened \/ Sampled \/ Admitted \/ Refused \/ Terminated \/ Progressed \/ Unprogressed
  \/ CancelAnswered \/ Stopped \/ Closed \/ Recover \/ Retry \/ Connect \/ Initialized \/ ResumedAnswered
  \/ Live \/ Settled \/ Unknown \/ Unhandled

-----------------------------------------------------------------------------
(* The reader                                                              *)

\* Which awaited call a response answers.
Answers(method) ==
  CASE method = "open"       -> {"opening"}
    [] method = "ping"       -> {"sampling", "settling"}
    [] method = "submit"     -> {"moving"}
    [] method = "initialize" -> {"initializing"}
    [] method = "resume"     -> {"resuming"}
    [] method = "cancel"     -> {"cancelling"}
    [] method = "close"      -> {"closing"}

Resolve(labels, how) == IF future = "pending" /\ pc \in labels THEN how ELSE future

\* What a message is: processed by the reader, it leaves the connection.
Reading(kind) ==
  /\ conn = "up" /\ to_agent # <<>> /\ Head(to_agent).kind = kind
  /\ to_agent' = Tail(to_agent)
  /\ UNCHANGED <<conn, program, world, to_world, bounds>>

ReadResult ==
  /\ Reading("result")
  /\ LET m == Head(to_agent)
     IN  /\ future' = Resolve(Answers(m.method), "done")
         /\ \/ /\ m.method = "open"     \* _result_session_open, _dispatch
               /\ ready' = m.token /\ session_state' = "ready"
               /\ actions' = [id \in Moves |-> None]
               /\ last_status_seq' = 0 /\ replay_to' = None /\ latest' = FALSE
            \/ /\ m.method = "resume"   \* _result_session_resume
               /\ replay_to' = IF m.replay_to <= last_status_seq THEN None ELSE m.replay_to
               /\ UNCHANGED <<session_state, ready, actions, last_status_seq, latest>>
            \/ /\ m.method = "close"    \* _closed
               /\ session_state' = "closed" /\ ready' = None
               /\ UNCHANGED <<actions, last_status_seq, replay_to, latest>>
            \/ /\ m.method \in {"ping", "initialize"}
               /\ UNCHANGED <<agent, latest>>
  /\ UNCHANGED live

\* session.resume refused: the session is lost.  action.submit refused: there is no action.
ReadError ==
  /\ Reading("error")
  /\ future' = Resolve(Answers(Head(to_agent).method), "refused")
  /\ IF Head(to_agent).method = "resume"
       THEN /\ session_state' = "closed" /\ ready' = None
            /\ actions' = [id \in Moves |-> None]
            /\ last_status_seq' = 0 /\ replay_to' = None
            /\ live' = IF live = "pending" THEN "done" ELSE live
       ELSE actions' = [actions EXCEPT ![move] = None]
            /\ UNCHANGED <<session_state, ready, last_status_seq, replay_to, live>>
  /\ UNCHANGED latest

\* A status, as a notification or as the result of a submission or cancellation.  The
\* connection is in order: what is not next was processed before.
ReadStatus ==
  /\ Reading("status")
  /\ LET m == Head(to_agent)
         new == m.seq = last_status_seq + 1
         replayed == replay_to # None /\ m.seq <= replay_to
         \* Events resolve the waiters of a live state, a terminal status or progress.
         reached == IF m.about = None THEN {l \in {"live"} : ~replayed}
                    ELSE {l \in {"waiting", "stopping"} : m.about = move /\ m.state \in Terminal}
                           \union {l \in {"watching"} :
                                     /\ move # 0
                                     /\ IF m.about = move THEN m.state = "far"
                                        ELSE actions[move] = "far"}
         answers == IF m.method = None THEN {} ELSE Answers(m.method)
     IN  /\ future' = Resolve(answers \union (IF new THEN reached ELSE {}), "done")
         /\ IF ~new THEN UNCHANGED <<session_state, ready, actions, last_status_seq, replay_to>>
            ELSE /\ last_status_seq' = m.seq
                 /\ replay_to' = IF replay_to # None /\ m.seq >= replay_to THEN None ELSE replay_to
                 /\ session_state' = IF m.about = None THEN m.state ELSE session_state
                 /\ ready' = IF m.about = None /\ m.state = "closed" THEN None ELSE ready
                 /\ actions' = IF m.about = None THEN actions
                               ELSE [actions EXCEPT ![m.about] = m.state]
         /\ live' = IF live = "pending" /\ new /\ m.about = None /\ ~replayed THEN "done" ELSE live
         /\ UNCHANGED latest

ReadFrame ==
  /\ Reading("frame")
  /\ latest' = TRUE
  /\ session_state' = IF session_state = "ready" THEN "active" ELSE session_state
  /\ UNCHANGED <<ready, actions, last_status_seq, replay_to, future, live>>

\* abandon: session.close is queued, if there is a session.
Farewell == IF ready = None \/ session_state = "closed" THEN <<>> ELSE <<[method |-> "close"]>>

\* _integer_range: the session is abandoned, session.close is sent and the connection
\* closed; but a predicate that reads the record of a move (the progress of the one to be
\* cancelled) raises when the event comes, and the reader closes the connection at once.
ReadRange ==
  /\ conn = "up" /\ to_agent # <<>> /\ Head(to_agent).kind = "range"
  /\ to_agent' = Tail(to_agent)
  /\ session_state' = "closed" /\ ready' = None
  /\ actions' = [id \in Moves |-> None]
  /\ last_status_seq' = 0 /\ replay_to' = None
  /\ live' = IF live = "pending" THEN "done" ELSE live
  /\ conn' = "ending"
  /\ IF pc = "watching" /\ future = "pending"
       THEN happened' = happened \union {"untold"} /\ UNCHANGED to_world
       ELSE UNCHANGED happened /\ to_world' = to_world \o Farewell
  /\ future' = IF pc = "live" /\ future = "pending" THEN "done" ELSE future
  /\ UNCHANGED <<latest, program, world, losses>>

\* Mutant: a future that survives the connection.
FutureKept == future

\* What is awaited fails with the connection.
Failed == IF future = "pending" THEN "error" ELSE future

\* _on_closed, when the connection is closed or lost.
Down ==
  /\ conn' = "down" /\ attached' = FALSE /\ to_agent' = <<>>
  /\ session_state' = IF session_state = "closed" THEN "closed" ELSE "suspended"
  /\ future' = Failed
  /\ live' = IF live = "pending" THEN "error" ELSE live
  /\ UNCHANGED <<ready, actions, last_status_seq, replay_to, latest, program, held, sessions,
                 log, act>>

\* A connection the agent closes still delivers what was sent on it.
FinishEnding == conn = "ending" /\ to_world = <<>> /\ Down /\ UNCHANGED <<to_world, bounds>>

\* The connection is lost, with what is on it in either direction.
Lose ==
  /\ conn = "up" /\ pc \in FaultAt /\ future = "pending" /\ losses < MaxLosses
  /\ losses' = losses + 1
  /\ happened' = happened \union {pc}
  /\ Down /\ to_world' = <<>>

-----------------------------------------------------------------------------
(* The world                                                               *)

Status(seq, about, state) ==
  [kind |-> "status", seq |-> seq, about |-> about, state |-> state, method |-> None]
Replied(status, method) == [status EXCEPT !.method = method]
Entry(about, state) == [about |-> about, state |-> state]
Logged(seq) == Status(seq, log[seq].about, log[seq].state)

Handling(method) ==
  /\ to_world # <<>> /\ Head(to_world).method = method
  /\ to_world' = Tail(to_world)
  /\ UNCHANGED <<agent, conn, latest, future, live, program>>

\* What the world sends reaches an agent that still reads.
Tell(messages) == to_agent' = IF conn = "up" THEN to_agent \o messages ELSE to_agent

HandleOpen ==
  /\ Handling("open") /\ sessions < MaxSessions
  /\ sessions' = sessions + 1 /\ held' = sessions + 1 /\ attached' = TRUE
  /\ log' = <<Entry(None, "ready")>>
  /\ \E late \in {FALSE, "slow" \in Faults} :
       /\ Tell(<<[kind |-> "result", method |-> "open", token |-> sessions + 1], Status(1, None, "ready")>>
                 \o IF late THEN <<>> ELSE <<[kind |-> "frame"]>>)
       /\ happened' = IF late THEN happened \union {"slow"} ELSE happened
  /\ UNCHANGED <<act, losses>>

\* The resumption, the replay of what the agent lacks and the live state.
HandleResume ==
  /\ Handling("resume")
  /\ LET r == Head(to_world)
         n == Len(log)
     IN  IF held = r.token
           THEN /\ attached' = TRUE
                /\ log' = Append(log, Entry(None, "active"))
                /\ Tell(<<[kind |-> "result", method |-> "resume", replay_to |-> n]>>
                          \o [i \in 1..(n - r.last) |-> Logged(r.last + i)]
                          \o <<Status(n + 1, None, "active")>>)
           ELSE /\ Tell(<<[kind |-> "error", method |-> "resume"]>>)
                /\ UNCHANGED <<attached, log>>
  /\ UNCHANGED <<held, sessions, act, bounds>>

HandleSubmit ==
  /\ Handling("submit")
  /\ LET id == Head(to_world).id
         seq == Len(log) + 1
     IN  IF held # None /\ id # RefusedMove
           THEN /\ act' = [act EXCEPT ![id] = "executing"]
                /\ log' = Append(log, Entry(id, "executing"))
                /\ Tell(<<Replied(Status(seq, id, "executing"), "submit")>>)
           ELSE Tell(<<[kind |-> "error", method |-> "submit"]>>) /\ UNCHANGED <<act, log>>
  /\ UNCHANGED <<held, attached, sessions, bounds>>

\* The action goes on, or has ended: the result shows its state.
HandleCancel ==
  /\ Handling("cancel")
  /\ LET id == Head(to_world).id
         state == act[id]
     IN  /\ log' = Append(log, Entry(id, state))
         /\ Tell(<<Replied(Status(Len(log) + 1, id, state), "cancel")>>)
  /\ UNCHANGED <<held, attached, sessions, act, bounds>>

HandleOther ==
  /\ Handling("ping") \/ Handling("initialize")
  /\ Tell(<<[kind |-> "result", method |-> Head(to_world).method]>>)
  /\ UNCHANGED <<world, bounds>>

\* What a session that ends leaves of its actions.
Gone == [id \in Moves |-> IF act[id] \in {"executing", "far"} THEN "gone" ELSE act[id]]

HandleClose ==
  /\ Handling("close")
  /\ held' = None /\ attached' = FALSE /\ act' = Gone
  /\ log' = <<>>
  /\ Tell(<<Status(Len(log) + 1, None, "closed"), [kind |-> "result", method |-> "close"]>>)
  /\ UNCHANGED <<sessions, bounds>>

\* The world's own steps on an action: it gets far, and ends.
Advance(id, state) ==
  /\ act[id] \in {"executing", "far"} /\ state \in {"far"} \union Terminal /\ state # act[id]
  /\ state = "far" => id = CancelledMove
  /\ act' = [act EXCEPT ![id] = state]
  /\ log' = Append(log, Entry(id, state))
  /\ IF attached THEN Tell(<<Status(Len(log) + 1, id, state)>>) ELSE UNCHANGED to_agent
  /\ UNCHANGED <<agent, conn, latest, future, live, program, held, attached, sessions, to_world, bounds>>

Forget ==
  /\ "expire" \in Faults /\ held # None /\ ~attached /\ conn = "down" /\ sessions < MaxSessions
  /\ held' = None /\ act' = Gone /\ log' = <<>>
  /\ UNCHANGED <<agent, conn, latest, future, live, program, attached, sessions, to_world, to_agent, bounds>>

LateFrame ==
  /\ "slow" \in happened /\ attached /\ ~latest
  /\ [kind |-> "frame"] \notin {to_agent[i] : i \in DOMAIN to_agent}
  /\ Tell(<<[kind |-> "frame"]>>)
  /\ UNCHANGED <<agent, conn, latest, future, live, program, world, to_world, bounds>>

OutOfRange ==
  /\ "range" \in Faults /\ attached /\ "range" \notin happened /\ pc \in FaultAt
  /\ happened' = happened \union {"range"}
  /\ Tell(<<[kind |-> "range"]>>)
  /\ UNCHANGED <<agent, conn, latest, future, live, program, world, to_world, losses>>

-----------------------------------------------------------------------------
\* run_demo has initialized and calls open_session.
Init ==
  /\ session_state = None /\ ready = None /\ last_status_seq = 0 /\ replay_to = None
  /\ actions = [id \in Moves |-> None]
  /\ conn = "up" /\ latest = FALSE /\ future = "pending" /\ live = None
  /\ pc = "opening" /\ move = 0 /\ samples = 0 /\ outcome = [id \in Moves |-> None]
  /\ held = None /\ attached = FALSE /\ sessions = 0 /\ log = <<>>
  /\ act = [id \in Moves |-> None]
  /\ to_world = <<[method |-> "open"]>> /\ to_agent = <<>>
  /\ happened = {} /\ losses = 0

Reader == ReadResult \/ ReadError \/ ReadStatus \/ ReadFrame \/ ReadRange \/ FinishEnding

Handle ==
  \/ HandleOpen \/ HandleResume \/ HandleSubmit \/ HandleCancel \/ HandleOther \/ HandleClose

Next ==
  \/ Program \/ Reader \/ Handle \/ Lose
  \/ \E id \in Moves, state \in States : Advance(id, state)
  \/ Forget \/ LateFrame \/ OutOfRange

Spec == Init /\ [][Next]_vars

\* The event loop runs the program and the reader; the world answers, and ends its actions.
FairSpec ==
  /\ Spec
  /\ WF_vars(Program) /\ WF_vars(Reader) /\ WF_vars(Handle)
  /\ \A id \in Moves :
       /\ WF_vars(\E state \in Terminal : Advance(id, state) /\ act[id] = "far")
       /\ WF_vars(Advance(id, "far"))
       /\ WF_vars(id # CancelledMove /\ \E state \in Terminal : Advance(id, state))

-----------------------------------------------------------------------------
(* Properties                                                              *)

\* Types; nothing is on a connection that is down, and reconnect leaves no waiter behind.
TypeOK ==
  /\ session_state \in {None, "ready", "active", "suspended", "closed"}
  /\ ready \in {None} \union 1..MaxSessions
  /\ actions \in [Moves -> {None} \union States]
  /\ last_status_seq \in Nat /\ replay_to \in {None} \union Nat
  /\ conn \in {"up", "ending", "down"} /\ latest \in BOOLEAN
  /\ future \in {"pending", "done", "error", "refused"} /\ live \in {None, "pending", "done", "error"}
  /\ pc \in Labels \union Ends /\ move \in 0..RefusedMove /\ samples \in 0..Samples
  /\ outcome \in [Moves -> {None, "lost"} \union States]
  /\ conn = "down" => to_world = <<>> /\ to_agent = <<>>
  /\ live # None => pc \in {"resuming", "live"} \union Ends

\* The world never executes two moves: each waits for the outcome of the last, whatever
\* becomes of connection and session.
OneMoveAtATime == Cardinality({id \in Moves : act[id] \in {"executing", "far"}}) <= 1

\* What run returns is true: the world ended the action that way, or the action ended with
\* its session.
OutcomeTrue ==
  /\ OneMoveAtATime
  /\ \A id \in Moves :
       /\ outcome[id] \notin {None, "lost"} => act[id] = outcome[id]
       /\ outcome[id] = "lost" => act[id] \in {"gone"} \union Terminal

\* "replay done; the world reports the resumption live": when reconnect goes on to its
\* ping, the replay is over; unless an earlier resumption was cut short, whose live state is
\* replayed with the rest.
ReconnectComplete ==
  /\ happened \cap {"resuming", "live", "settling"} = {}
  /\ pc = "settling" /\ conn = "up"
  => replay_to = None

\* "It rides out a lost connection: it resumes the session, or opens a new one": any number
\* of connections lost while a move is awaited.
NeverCrashes == happened \subseteq {"waiting"} => pc # "crashed"

\* "A value beyond 2^53-1 ends the session": unless a connection was lost, a session the
\* agent has abandoned is not held by the world either.
EndedTogether ==
  conn = "down" /\ losses = 0 /\ "untold" \notin happened => held = None

\* The demo comes to its end, unless the world loses it for ever.
DemoEnds == <>(pc \in Ends)

\* The types, with what the demo and the world know of each other in the end: outcomes are
\* true, one move at a time, and an abandoned session is over on both sides.
Inv == TypeOK /\ OutcomeTrue /\ EndedTogether
=============================================================================
