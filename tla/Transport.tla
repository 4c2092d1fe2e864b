------------------------------ MODULE Transport ------------------------------
(***************************************************************************)
(* How AsyncClient (src/awp/aio.py) moves the messages of a ClientConnection *)
(* (src/awp/client.py): the queue _out, flush and its lock, the reader, the   *)
(* heartbeat and watchdog timers, callers that await responses, and the loss  *)
(* and replacement of the connection under all of them.                      *)
(*                                                                         *)
(* A step is what a task does between two awaits that can suspend it.  A     *)
(* request is its id; the reply to a world's ping, which has no entry in      *)
(* _pending, is the number 0.  A session is open throughout, so the watchdog  *)
(* is armed.  The world is external: it takes requests in order and answers   *)
(* each once, in any order, if it answers at all.                            *)
(***************************************************************************)
EXTENDS Integers, Sequences, SequencesExt

CONSTANTS
  Callers,         \* coroutines of the application that call and await responses
  None,            \* Python's None
  Faults,          \* what else may happen, a subset of FaultKinds
  Capacity,        \* messages the connection takes before a send has to wait
  MaxRequests,     \* bound: requests of callers and heartbeats
  MaxPings,        \* bound: pings of the world under way at once; it may ping for ever
  MaxConnections   \* bound: connections opened

\* offline: the application calls while the connection is down.
\* hasty: it reconnects while another task still holds the send lock or waits for it.
\* cancel: it cancels a coroutine that is sending.
FaultKinds == {"offline", "hasty", "cancel"}

ASSUME TransportAssumption ==
  /\ Faults \subseteq FaultKinds
  /\ {Capacity, MaxRequests, MaxPings, MaxConnections} \subseteq Nat
  /\ {"reader", "beat"} \cap Callers = {}

VARIABLES
  \* ClientConnection
  next_id, pending, out,
  accused,      \* history: the client reported a response to an unknown request
  \* AsyncClient
  ws,           \* _ws: None, or a connection that is "open", "lost" or "closing"
  closed,       \* _closed is set
  lock,         \* the task that holds _send_lock, or None
  lockq,        \* the tasks that wait for it
  batch,        \* what its holder has drained from _out and not sent yet
  reader,       \* the _read task: "off", "reading", or "flushing" with an event to dispatch
  event,        \* the id of the response that event is for, or None
  beating,      \* the _beat task runs
  call,         \* what each caller is doing
  \* the connection and the world
  to_world, to_agent, asked,
  happened,     \* history: the faults that happened
  connections   \* what MaxConnections counts

conn   == <<next_id, pending, out, accused>>
locks  == <<lock, lockq, batch>>
tasks  == <<reader, event, beating, call>>
net    == <<to_world, to_agent, asked>>
counts == <<happened, connections>>
vars   == <<conn, ws, closed, locks, tasks, net, counts>>

Tasks == Callers \union {"reader", "beat"}
Ids   == 1..MaxRequests

ASSUME NoneAssumption ==
  None \notin Nat \union Tasks \union {"open", "lost", "closing", "pending", "result", "error"}

\* A caller is idle, in the flush of a call, or waiting for the future of its response.
Idle == [at |-> "idle", id |-> None, future |-> None]

-----------------------------------------------------------------------------
(* The send lock                                                           *)

Free == lock = None /\ lockq = <<>>

\* outgoing: the queue is empty once its messages are taken.
Drain(queue) == <<>>

\* flush, once its task has the lock: the messages of every task that queued one.
Hold(task, queue) == lock' = task /\ batch' = queue /\ out' = Drain(queue)

\* flush, called with the queue given: a free lock is taken without suspending.
Enter(task, queue) ==
  \/ Free /\ queue # <<>> /\ Hold(task, queue) /\ UNCHANGED lockq
  \/ ~Free /\ lockq' = Append(lockq, task) /\ out' = queue /\ UNCHANGED <<lock, batch>>

\* _dispatch: the waiter for that response has its result.
Dispatched(id) ==
  [c \in Callers |-> IF id # None /\ call[c].id = id /\ call[c].future = "pending"
                       THEN [call[c] EXCEPT !.future = "result"] ELSE call[c]]

\* What a task does when its flush is over.
Continue(task) ==
  /\ IF task = "reader"
       THEN reader' = "reading" /\ event' = None /\ call' = Dispatched(event)
       ELSE /\ UNCHANGED <<reader, event>>
            /\ call' = [c \in Callers |->
                          IF c = task THEN [call[c] EXCEPT !.at = "wait"] ELSE call[c]]
  /\ UNCHANGED <<beating, closed, pending>>

\* Mutants: futures that survive the connection, requests that do.
FuturesKept == call
PendingKept == pending

\* _on_closed fails every future, and connection_lost forgets every request.
Failed == [c \in Callers |-> IF call[c].future = "pending"
                               THEN [call[c] EXCEPT !.future = "error"] ELSE call[c]]
Forgotten == {}

\* _on_closed; it acts once per connection.
OnClosed ==
  /\ closed' = TRUE
  /\ IF closed THEN UNCHANGED <<pending, call>> ELSE pending' = Forgotten /\ call' = Failed

\* What a task does when its flush raises: the reader closes the connection, a caller
\* hands the exception on, and the heartbeat dies.
Raise(task) ==
  \/ /\ task = "reader" /\ reader' = "off" /\ event' = None
     /\ OnClosed /\ UNCHANGED beating
  \/ /\ task = "beat" /\ beating' = FALSE
     /\ UNCHANGED <<reader, event, call, closed, pending>>
  \/ /\ task \in Callers /\ call' = [call EXCEPT ![task] = Idle]
     /\ UNCHANGED <<reader, event, beating, closed, pending>>

\* The holder sends its next message; a full connection suspends it.
Send ==
  /\ batch # <<>> /\ ws = "open" /\ Len(to_world) < Capacity
  /\ to_world' = Append(to_world, Head(batch))
  /\ batch' = Tail(batch)
  /\ IF Tail(batch) = <<>>
       THEN lock' = None /\ Continue(lock)
       ELSE UNCHANGED <<lock, tasks, closed, pending>>
  /\ UNCHANGED <<next_id, out, accused, ws, lockq, to_agent, asked, counts>>

\* Sending on a connection that is gone: what was drained is gone with it.
SendFails ==
  /\ batch # <<>> /\ ws # "open"
  /\ lock' = None /\ batch' = <<>>
  /\ Raise(lock)
  /\ UNCHANGED <<next_id, out, accused, ws, lockq, net, counts>>

\* The next task has the lock: it raises if there is no connection to send on, and is
\* done if another flush has sent its messages.
Wake ==
  /\ lock = None /\ lockq # <<>>
  /\ lockq' = Tail(lockq)
  /\ LET task == Head(lockq)
     IN  \/ ws = None /\ Raise(task) /\ UNCHANGED <<lock, batch, out>>
         \/ ws # None /\ out = <<>> /\ Continue(task) /\ UNCHANGED <<lock, batch, out>>
         \/ ws # None /\ out # <<>> /\ Hold(task, out) /\ UNCHANGED <<tasks, closed, pending>>
  /\ UNCHANGED <<next_id, accused, ws, net, counts>>

-----------------------------------------------------------------------------
(* Callers and the heartbeat                                               *)

\* request: a new id, which waits for its response.
NewRequest ==
  /\ next_id <= MaxRequests
  /\ next_id' = next_id + 1
  /\ pending' = pending \union {next_id}

Queued == Append(out, next_id)

\* call: the waiter is there before the request is sent, and failed if it never can be.
Call(c) ==
  /\ call[c] = Idle
  /\ closed => "offline" \in Faults
  /\ NewRequest
  /\ \/ /\ Free /\ ws = None   \* flush raises, and leaves the request queued
        /\ out' = Queued /\ UNCHANGED <<locks, call>>
     \/ /\ ~Free \/ ws # None
        /\ Enter(c, Queued)
        /\ call' = [call EXCEPT ![c] = [at |-> "flush", id |-> next_id,
                                        future |-> IF closed THEN "error" ELSE "pending"]]
  /\ happened' = IF closed THEN happened \union {"offline"} ELSE happened
  /\ UNCHANGED <<accused, ws, closed, reader, event, beating, net, connections>>

\* The future is done: call returns the response or raises.
Return(c) ==
  /\ call[c].at = "wait" /\ call[c].future # "pending"
  /\ call' = [call EXCEPT ![c] = Idle]
  /\ UNCHANGED <<conn, ws, closed, locks, reader, event, beating, net, counts>>

\* Mutant: the request is forgotten with the waiting.
TimeoutForgets(c) ==
  /\ call[c].at = "wait" /\ call[c].future = "pending"
  /\ call' = [call EXCEPT ![c] = Idle]
  /\ pending' = pending \ {call[c].id}
  /\ UNCHANGED <<next_id, out, accused, ws, closed, locks, reader, event, beating, net, counts>>

\* The timeout of _await stops the waiting, not the request.
Timeout(c) ==
  /\ call[c].at = "wait" /\ call[c].future = "pending"
  /\ call' = [call EXCEPT ![c] = Idle]
  /\ UNCHANGED <<conn, ws, closed, locks, reader, event, beating, net, counts>>

\* The application cancels a coroutine within flush: what it drained is not sent.
Cancel(c) ==
  /\ "cancel" \in Faults /\ call[c].at = "flush"
  /\ call' = [call EXCEPT ![c] = Idle]
  /\ IF lock = c THEN lock' = None /\ batch' = <<>> /\ UNCHANGED lockq
                 ELSE lockq' = RemoveFirst(lockq, c) /\ UNCHANGED <<lock, batch>>
  /\ happened' = happened \union {"cancel"}
  /\ UNCHANGED <<conn, ws, closed, reader, event, beating, net, connections>>

\* _beat: a ping that nobody awaits, unless the last one is still being sent.
Beat ==
  /\ beating /\ ~closed /\ lock # "beat" /\ ~Contains(lockq, "beat")
  /\ NewRequest
  /\ Enter("beat", Queued)
  /\ UNCHANGED <<accused, ws, closed, tasks, net, counts>>

-----------------------------------------------------------------------------
(* The reader                                                              *)

\* The reader flushes before it dispatches; with nothing to send it does not suspend.
FlushThenDispatch(id, queue) ==
  \/ /\ Free /\ queue = <<>>
     /\ call' = Dispatched(id)
     /\ UNCHANGED <<out, locks, reader, event>>
  \/ /\ Enter("reader", queue)
     /\ reader' = "flushing" /\ event' = id
     /\ UNCHANGED call

Reading(kind) ==
  /\ reader = "reading" /\ to_agent # <<>> /\ Head(to_agent).kind = kind
  /\ to_agent' = Tail(to_agent)
  /\ UNCHANGED <<next_id, ws, closed, beating, to_world, asked, counts>>

\* _on_response: only a request that waits for it has a response.
ReadResponse ==
  /\ Reading("response")
  /\ LET id == Head(to_agent).id
         known == id \in pending
     IN  /\ pending' = pending \ {id}
         /\ accused' = (accused \/ ~known)
         /\ FlushThenDispatch(IF known THEN id ELSE None, out)

\* _on_world_request: a ping is answered.
ReadPing ==
  /\ Reading("ping")
  /\ FlushThenDispatch(None, Append(out, 0))
  /\ UNCHANGED <<pending, accused>>

\* The connection ends and all that arrived on it is read.
ReaderEnds ==
  /\ reader = "reading" /\ ws = "lost" /\ to_agent = <<>>
  /\ reader' = "off"
  /\ OnClosed
  /\ UNCHANGED <<next_id, out, accused, ws, locks, event, beating, net, counts>>

-----------------------------------------------------------------------------
(* The connection                                                          *)

\* The connection is gone: what was sent, and some of what was to be received.
Gone(how) ==
  /\ ws' = how
  /\ to_world' = <<>> /\ asked' = {}

LoseConnection ==
  /\ ws = "open"
  /\ Gone("lost")
  /\ to_agent' \in {to_agent, <<>>}
  /\ UNCHANGED <<conn, closed, locks, tasks, counts>>

\* Mutant: messages that arrived count, read or not.
NothingArrives == to_agent = <<>>

\* Nothing is read: there is nothing, or the reader waits for the send lock.
Silent == to_agent = <<>> \/ reader = "flushing"

\* _watch closes a connection on which nothing was read for three heartbeat intervals.
Watch ==
  /\ ws = "open" /\ ~closed /\ Silent
  /\ Gone("lost")
  /\ UNCHANGED <<conn, closed, locks, tasks, to_agent, counts>>

\* reconnect, aclose: _drop cancels the connection's tasks, wherever they wait. The
\* reader's last act is _on_closed.
Drop ==
  /\ ws \in {"open", "lost"} /\ connections < MaxConnections
  /\ IF Free /\ out = <<>> THEN UNCHANGED happened
     ELSE "hasty" \in Faults /\ happened' = happened \union {"hasty"}
  /\ reader' = "off" /\ event' = None /\ beating' = FALSE
  /\ lockq' = RemoveFirst(RemoveFirst(lockq, "reader"), "beat")
  /\ IF lock \in {"reader", "beat"} THEN lock' = None /\ batch' = <<>>
                                    ELSE UNCHANGED <<lock, batch>>
  /\ OnClosed
  /\ Gone("closing") /\ to_agent' = <<>>
  /\ UNCHANGED <<next_id, out, accused, connections>>

FinishDrop ==
  /\ ws = "closing"
  /\ ws' = None
  /\ UNCHANGED <<conn, closed, locks, tasks, net, counts>>

\* connect. Opening a connection takes round trips; by then every task that was sending
\* on the last one has failed.
Connect ==
  /\ ws = None /\ Free /\ connections < MaxConnections
  /\ connections' = connections + 1
  /\ ws' = "open" /\ closed' = FALSE
  /\ reader' = "reading" /\ beating' = TRUE
  /\ UNCHANGED <<conn, locks, event, call, net, happened>>

-----------------------------------------------------------------------------
(* The world                                                               *)

TakeRequest ==
  /\ to_world # <<>>
  /\ to_world' = Tail(to_world)
  /\ asked' = asked \union ({Head(to_world)} \ {0})
  /\ UNCHANGED <<conn, ws, closed, locks, tasks, to_agent, counts>>

Answer(id) ==
  /\ id \in asked
  /\ asked' = asked \ {id}
  /\ to_agent' = Append(to_agent, [kind |-> "response", id |-> id])
  /\ UNCHANGED <<conn, ws, closed, locks, tasks, to_world, counts>>

PingsUnderWay == SelectSeq(to_agent, LAMBDA m : m.kind = "ping")

WorldPings ==
  /\ ws = "open" /\ Len(PingsUnderWay) < MaxPings
  /\ to_agent' = Append(to_agent, [kind |-> "ping"])
  /\ UNCHANGED <<conn, ws, closed, locks, tasks, to_world, asked, counts>>

-----------------------------------------------------------------------------
\* Connected for the first time.
Init ==
  /\ next_id = 1 /\ pending = {} /\ out = <<>> /\ accused = FALSE
  /\ ws = "open" /\ closed = FALSE
  /\ lock = None /\ lockq = <<>> /\ batch = <<>>
  /\ reader = "reading" /\ event = None /\ beating = TRUE
  /\ call = [c \in Callers |-> Idle]
  /\ to_world = <<>> /\ to_agent = <<>> /\ asked = {}
  /\ happened = {} /\ connections = 1

Next ==
  \/ Send \/ SendFails \/ Wake \/ Beat
  \/ \E c \in Callers : Call(c) \/ Return(c) \/ Timeout(c) \/ Cancel(c)
  \/ ReadResponse \/ ReadPing \/ ReaderEnds
  \/ LoseConnection \/ Watch \/ Drop \/ FinishDrop \/ Connect
  \/ TakeRequest \/ (\E id \in Ids : Answer(id)) \/ WorldPings

Spec == Init /\ [][Next]_vars

\* The event loop runs every task that can run, and a timer's time comes. Nothing is
\* assumed of the world, of timeouts or of reconnections.
Fairness ==
  /\ WF_vars(Send) /\ WF_vars(SendFails) /\ WF_vars(Wake)
  /\ WF_vars(ReadResponse) /\ WF_vars(ReadPing) /\ WF_vars(ReaderEnds)
  /\ WF_vars(Watch) /\ \A c \in Callers : WF_vars(Return(c))

FairSpec == Spec /\ Fairness

-----------------------------------------------------------------------------
(* Properties                                                              *)

\* Types; the lock is held exactly while drained messages remain, a caller within flush
\* holds or awaits the lock, and so does a flushing reader.
TypeOK ==
  /\ next_id \in 1..(MaxRequests + 1) /\ pending \subseteq 1..(next_id - 1)
  /\ accused \in BOOLEAN /\ closed \in BOOLEAN /\ beating \in BOOLEAN
  /\ ws \in {None, "open", "lost", "closing"}
  /\ (lock = None) = (batch = <<>>)
  /\ {lock} \union ToSet(lockq) \subseteq Tasks \union {None}
  /\ \A c \in Callers : (call[c].at = "flush") = (lock = c \/ Contains(lockq, c))
  /\ (reader = "flushing") = (lock = "reader" \/ Contains(lockq, "reader"))
  /\ Len(to_world) <= Capacity

\* The requests the agent still holds, sent or not, and those on the connection.
Held == ToSet(out) \union ToSet(batch)
Travelling ==
  ToSet(to_world) \union asked
    \union {m.id : m \in {n \in ToSet(to_agent) : n.kind = "response"}}

\* A world that answers each request it took, once, is never accused of a response to an
\* unknown request (ProtocolViolation: "The world broke the specification").
NoFalseAccusation == "hasty" \notin happened => ~accused

\* On a live connection every pending request can still be answered: _pending holds no
\* request of an earlier connection ("will never be answered on this connection").
PendingCanBeAnswered ==
  happened \subseteq {"hasty"} /\ ws = "open" /\ ~closed => pending \subseteq Held \union Travelling

\* No caller waits for nothing: while its future is open the connection is not closed,
\* and its request, its response or the response's event is on the way.
CallerNotForgotten ==
  \A c \in Callers : "cancel" \notin happened /\ call[c].future = "pending" =>
    /\ ~closed
    /\ ws = "open" => call[c].id \in Held \union Travelling \union {event}

\* "Send everything the connection has queued, in order": whatever tasks flush, the
\* requests leave in the order of their ids, and none twice.
SentInOrder ==
  LET queue == to_world \o batch \o out
      requests == {i \in DOMAIN queue : queue[i] # 0}
  IN  \A i, j \in requests : i < j => queue[i] < queue[j]

\* What may keep a caller: a world that has its request, or has it to read, and does not
\* answer it; or another caller, cancelled, that had drained its request.
Excused(c) == call[c].id \in ToSet(to_world) \union asked \/ "cancel" \in happened

\* No caller is stuck in sending, which no timeout covers, even if the world stops reading:
\* a reader that waits for the send lock no longer hears the world, so the watchdog frees
\* them all. A call without a timeout may last for ever, since a world that is heard stays
\* connected, but only while that world owes it the answer.
CallsEnd ==
  \A c \in Callers :
    /\ (call[c].at = "flush") ~> (call[c].at # "flush")
    /\ []<>(call[c].at = "idle" \/ Excused(c))

\* The types of the queue and the lock, with what they are for: messages in order and once,
\* so that each response finds its request.
Inv == TypeOK /\ NoFalseAccusation /\ SentInOrder
=============================================================================
