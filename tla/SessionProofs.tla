---------------------------- MODULE SessionProofs ----------------------------
(***************************************************************************)
(* The session layer, for any number of sessions, statuses, requests and     *)
(* losses.  Whatever goes wrong, the types and the sequence bookkeeping hold; *)
(* where nothing but connections fails, the client and the world agree: no    *)
(* message is dropped on a connection that lives.                           *)
(***************************************************************************)
EXTENDS Session, WellFoundedInduction, TLAPS

-----------------------------------------------------------------------------
(* Messages and their types                                                *)

StatusOK(s) ==
  /\ s.about \in {"action", "session", "event"}
  /\ s.about = "action" => s.action \in ActionIds /\ s.state \in ActionState \ {"submitted"}
  /\ s.about = "session" => s.state \in {"ready", "active", "suspended", "closed"}

Reporting == {"submit", "pull", "cancel"}

RequestOK(m) ==
  /\ m.method \in {"open", "resume", "close", "ping"} \union Reporting
  /\ m.method = "open" => m.session \in 1..MaxOpens
  /\ m.method = "resume" => m.session \in 1..MaxOpens /\ m.ack \in 0..MaxSeq
  /\ m.method = "ping" => m.ack \in 0..MaxSeq
  /\ m.method \in Reporting => m.action \in ActionIds

\* A message that reports a status: the number and the status it reports.
Bears(m) == m.kind = "status" \/ (m.kind = "result" /\ m.method \in Reporting)
NumberOf(m) == IF m.kind = "status" THEN m.seq ELSE m.body.seq
Reported(m) == IF m.kind = "status" THEN m.status ELSE m.body.status

MessageOK(m) ==
  /\ m.kind \in {"status", "result", "error"}
  /\ Bears(m) => NumberOf(m) \in 1..MaxSeq /\ StatusOK(Reported(m))
  /\ m.kind # "status" => m.method \in {"open", "resume", "close", "ping"} \union Reporting
  /\ m.kind = "result" /\ m.method \in Reporting => Reported(m).about = "action"
  /\ m.kind = "result" /\ m.method = "open" => m.body \in 1..MaxOpens
  /\ m.kind = "result" /\ m.method = "resume" =>
       m.body.session \in 1..MaxOpens /\ m.body.replay_to \in 0..MaxSeq
  /\ m.kind = "error" /\ m.method = "submit" => m.body.action \in ActionIds

\* Anything at all: requests, messages and statuses are records of many shapes.
IsSeq(s) == s = [i \in 1..Len(s) |-> s[i]] /\ Len(s) \in Nat

Typed ==
  /\ session_state \in {None, "ready", "active", "suspended", "closed"}
  /\ ready \in (1..MaxOpens) \union {None}
  /\ actions \in [ActionIds -> Records \union {None}]
  /\ Status!TypeOK
  /\ accused \in BOOLEAN /\ dropped \in BOOLEAN
  /\ connection \in {"down", "new", "used", "closing"}
  /\ held \in (1..MaxOpens) \union {None}
  /\ attached \in BOOLEAN /\ (attached => held # None)
  /\ discarded \in 0..MaxSeq
  /\ requests \in 0..MaxRequests /\ opens \in 0..MaxOpens /\ losses \in 0..MaxLosses
  /\ IsSeq(to_world) /\ IsSeq(to_agent) /\ IsSeq(log)
  /\ \A i \in DOMAIN to_world : RequestOK(to_world[i])
  /\ \A i \in DOMAIN to_agent : MessageOK(to_agent[i])
  /\ \A k \in DOMAIN log : StatusOK(log[k])
  /\ held # None => log # <<>>

-----------------------------------------------------------------------------
(* How many statuses a session can have                                    *)

\* The newest status of the session says that it is suspended.
About(k) == log[k].about = "session"
Latest(k) == About(k) /\ \A j \in DOMAIN log : About(j) => j <= k
IsSuspended == \E k \in DOMAIN log : Latest(k) /\ log[k].state = "suspended"

Resuming == \E i \in DOMAIN to_world : to_world[i].method = "resume"

\* A loss entitles the world to a "suspended", now or once the connection is closed,
MaySuspend == held # None /\ ~attached /\ ~IsSuspended
WillSuspend == held # None /\ connection = "closing" /\ (attached \/ Resuming)

\* and to an "active" for a resumption, which a connection may yet ask for.
MayResume == connection \in {"down", "new", "closing"}

One(condition) == IF condition THEN 1 ELSE 0

Credit ==
  IF losses = 0 THEN 0
  ELSE One(MaySuspend) + One(WillSuspend) + One(MayResume) + One(Resuming)

Suspends(s) == s.about = "session" /\ s.state = "suspended"

\* Before the first loss there is neither.
Calm ==
  losses = 0 =>
    /\ session_state # "suspended" /\ connection # "closing" /\ ~Resuming
    /\ held # None => attached
    /\ \A k \in DOMAIN log : ~Suspends(log[k])
    /\ \A i \in DOMAIN to_agent : Bears(to_agent[i]) => ~Suspends(Reported(to_agent[i]))

\* A connection carries one resumption.
OneResume ==
  /\ connection = "down" => to_world = <<>> /\ to_agent = <<>> /\ ~attached
  /\ \A i \in DOMAIN to_world :
       to_world[i].method = "resume" =>
         /\ connection \in {"used", "closing"} /\ (connection = "closing" => losses > 1)
         /\ \A j \in DOMAIN to_world : to_world[j].method = "resume" => j = i

\* Beyond MaxStatus, the session has the statuses the losses brought, and its end.
Bounded == Len(log) + Credit <= MaxStatus + 2 * losses + One(held = None)

\* What holds whatever goes wrong.
BInv == Typed /\ Calm /\ OneResume /\ Bounded

-----------------------------------------------------------------------------
(* Sequences of messages                                                   *)

\* t is s with ms behind it.
Grown(s, t, ms) ==
  /\ IsSeq(t) /\ Len(t) = Len(s) + Len(ms) /\ DOMAIN t = 1..Len(t) /\ DOMAIN s = 1..Len(s)
  /\ Len(s) \in Nat /\ Len(t) \in Nat /\ Len(ms) \in Nat
  /\ \A i \in 1..Len(s) : t[i] = s[i]
  /\ \A i \in 1..Len(ms) : t[Len(s) + i] = ms[i]
  /\ \A i \in 1..Len(t) : i \in 1..Len(s) \/ (i - Len(s) \in 1..Len(ms) /\ t[i] = ms[i - Len(s)])

\* t is s without its first.
Shrunk(s, t) ==
  /\ IsSeq(t) /\ Len(s) = Len(t) + 1 /\ DOMAIN t = 1..Len(t) /\ DOMAIN s = 1..Len(s)
  /\ Len(s) \in Nat /\ Len(t) \in Nat /\ s[1] = Head(s) /\ 1 \in DOMAIN s
  /\ \A i \in 1..Len(t) : t[i] = s[i + 1] /\ i + 1 \in DOMAIN s
  /\ \A i \in 1..Len(s) : i = 1 \/ (i - 1 \in 1..Len(t) /\ t[i - 1] = s[i])

\* It is a sequence in the usual sense, and the other way around.
LEMMA Elements ==
  ASSUME NEW s, IsSeq(s), NEW S, \A i \in 1..Len(s) : s[i] \in S
  PROVE  s \in Seq(S) /\ DOMAIN s = 1..Len(s) /\ Len(s) \in Nat
<1>1. PICK n \in Nat : n = Len(s) /\ s = [i \in 1..n |-> s[i]]
  BY DEF IsSeq
<1>2. s \in [1..n -> S] /\ DOMAIN s = 1..n
  BY <1>1
<1> QED BY <1>1, <1>2

\* A sequence in the usual sense is one that is the function of its elements.
LEMMA Usual ==
  ASSUME NEW S, NEW s \in Seq(S)
  PROVE  IsSeq(s)
<1>1. Len(s) \in Nat /\ s \in [1..Len(s) -> S]
  OBVIOUS
<1>2. s = [i \in 1..Len(s) |-> s[i]]
  BY <1>1
<1> QED BY <1>1, <1>2 DEF IsSeq

\* A message sent goes behind those under way.
LEMMA Sent ==
  ASSUME NEW s, IsSeq(s), NEW m
  PROVE  Grown(s, Append(s, m), <<m>>)
<1> DEFINE S == {s[i] : i \in 1..Len(s)} \union {m}
<1>1. s \in Seq(S) /\ DOMAIN s = 1..Len(s) /\ Len(s) \in Nat /\ m \in S
  BY Elements
<1> HIDE DEF S
<1>2. Append(s, m) \in Seq(S) /\ Len(Append(s, m)) = Len(s) + 1 /\ Append(s, m)[Len(s) + 1] = m
  BY <1>1
<1>3. \A i \in 1..Len(s) : Append(s, m)[i] = s[i]
  BY <1>1
<1>4. IsSeq(Append(s, m))
  BY <1>2, Usual
<1>5. Len(<<m>>) = 1 /\ <<m>>[1] = m
  OBVIOUS
<1> QED BY <1>1, <1>2, <1>3, <1>4, <1>5 DEF Grown

\* So do several.
LEMMA Joined ==
  ASSUME NEW s, NEW t, IsSeq(s), IsSeq(t)
  PROVE  Grown(s, s \o t, t)
<1> DEFINE S == {s[i] : i \in 1..Len(s)} \union {t[i] : i \in 1..Len(t)}
<1>1. (\A i \in 1..Len(s) : s[i] \in S) /\ \A i \in 1..Len(t) : t[i] \in S
  OBVIOUS
<1>2. /\ s \in Seq(S) /\ t \in Seq(S)
      /\ Len(s) \in Nat /\ Len(t) \in Nat /\ DOMAIN s = 1..Len(s) /\ DOMAIN t = 1..Len(t)
  BY <1>1, Elements
<1> HIDE DEF S
<1>3. s \o t \in Seq(S) /\ Len(s \o t) = Len(s) + Len(t)
  BY <1>2
<1>4. \A i \in 1..(Len(s) + Len(t)) : (s \o t)[i] = IF i <= Len(s) THEN s[i] ELSE t[i - Len(s)]
  BY <1>2
<1>5. IsSeq(s \o t)
  BY <1>3, Usual
<1> QED BY <1>2, <1>3, <1>4, <1>5 DEF Grown

\* The first message is taken; the others remain.
LEMMA Taken ==
  ASSUME NEW s, IsSeq(s), s # <<>>
  PROVE  Shrunk(s, Tail(s))
<1> DEFINE S == {s[i] : i \in 1..Len(s)}
<1>1. s \in Seq(S) /\ DOMAIN s = 1..Len(s) /\ Len(s) \in Nat
  BY Elements
<1> HIDE DEF S
<1>2. Tail(s) \in Seq(S) /\ Len(Tail(s)) = Len(s) - 1 /\ Head(s) = s[1] /\ Len(s) > 0
  BY <1>1
<1>3. \A i \in 1..(Len(s) - 1) : Tail(s)[i] = s[i + 1]
  BY <1>1
<1>4. IsSeq(Tail(s))
  BY <1>2, Usual
<1> QED BY <1>1, <1>2, <1>3, <1>4 DEF Shrunk

\* A set of numbers with a bound has a greatest one.
LEMMA GreatestNatural ==
  ASSUME NEW S, NEW n \in Nat, S \subseteq 1..n, S # {}
  PROVE  \E k \in S : \A j \in S : j <= k
<1> DEFINE D == {d \in Nat : n - d \in S}
<1>1. PICK i \in S : TRUE
  OBVIOUS
<1>2. n - i \in D
  <2>1. i \in 1..n
    BY <1>1
  <2>2. n - i \in Nat /\ n - (n - i) = i
    BY <2>1
  <2> QED BY <2>2
<1>3. PICK d \in D : \A e \in D : ~ (<<e, d>> \in OpToRel(<, Nat))
  <2>1. D \in SUBSET Nat /\ D # {}
    BY <1>2
  <2> QED BY <2>1, NatLessThanWellFounded, WFMin
<1>4. \A e \in D : ~ (e < d)
  BY <1>3 DEF OpToRel
<1>5. ASSUME NEW j \in S PROVE j <= n - d
  <2>1. j \in 1..n
    OBVIOUS
  <2>2. n - j \in Nat /\ n - (n - j) = j
    BY <2>1
  <2>3. n - j \in D
    BY <2>2
  <2> QED BY <1>4, <2>1, <2>2, <2>3
<1> QED BY <1>3, <1>5

\* A sequence of one or two messages, and of none.
LEMMA Few ==
  /\ IsSeq(<<>>) /\ Len(<<>>) = 0 /\ DOMAIN <<>> = {}
  /\ \A m : IsSeq(<<m>>) /\ Len(<<m>>) = 1 /\ <<m>>[1] = m
  /\ \A m, n : IsSeq(<<m, n>>) /\ Len(<<m, n>>) = 2 /\ <<m, n>>[1] = m /\ <<m, n>>[2] = n
<1>1. IsSeq(<<>>) /\ Len(<<>>) = 0 /\ DOMAIN <<>> = {}
  BY DEF IsSeq
<1>2. \A m : IsSeq(<<m>>) /\ Len(<<m>>) = 1 /\ <<m>>[1] = m
  BY DEF IsSeq
<1>3. ASSUME NEW m, NEW n
      PROVE  IsSeq(<<m, n>>) /\ Len(<<m, n>>) = 2 /\ <<m, n>>[1] = m /\ <<m, n>>[2] = n
  BY DEF IsSeq
<1> QED BY <1>1, <1>2, <1>3

-----------------------------------------------------------------------------
(* The types of the sequence, and SequenceSpec                             *)

\* The bound on a session's statuses is one.
LEMMA Bounds ==
  /\ MaxSeq \in Nat /\ MaxStatus \in Nat /\ MaxStatus >= 1 /\ MaxSeq = MaxStatus + 2 * MaxLosses + 1
  /\ MaxRequests \in Nat /\ MaxOpens \in Nat /\ MaxLosses \in Nat
  /\ None \notin Nat /\ None \notin {"ready", "active", "suspended", "closed"}
<1>1. MaxRequests \in Nat /\ MaxOpens \in Nat /\ MaxLosses \in Nat
  BY SessionAssumption
<1>2. MaxStatus \in Nat /\ MaxStatus >= 1
  BY SessionAssumption
<1>3. None \notin Nat /\ None \notin {"ready", "active", "suspended", "closed"}
  BY SessionAssumption
<1>4. MaxSeq = MaxStatus + 2 * MaxLosses + 1
  BY DEF MaxSeq
<1>5. MaxSeq \in Nat
  BY <1>1, <1>2, <1>4
<1> QED BY <1>1, <1>2, <1>3, <1>4, <1>5

\* The result of an ApplyStatus, and of the others, is typed.
LEMMA SequenceTyped ==
  ASSUME Status!TypeOK, [Status!Next]_(Status!vars)
  PROVE  Status!TypeOK'
<1> USE Bounds DEF Status!TypeOK, Status!Seqs
<1>1. ASSUME NEW seq \in Status!Seqs, Status!Process(seq) PROVE Status!TypeOK'
  <2>1. last_status_seq' \in 0..MaxSeq /\ seen_above' \subseteq Status!Seqs /\ processed' \subseteq Status!Seqs
    <3>1. CASE Status!Gap(seq)
      BY <1>1, <3>1 DEF Status!Process, Status!Sequence, Status!Gap
    <3>2. CASE Status!InOrder(seq)
      <4>1. PICK n \in seq..MaxSeq : last_status_seq' = n /\ seen_above' \subseteq seen_above
        BY <3>2 DEF Status!InOrder
      <4> QED BY <1>1, <4>1 DEF Status!Process, Status!Sequence
    <3> QED BY <1>1, <3>1, <3>2 DEF Status!Process, Status!Sequence
  <2> QED BY <1>1, <2>1 DEF Status!Process, Status!FinishReplay
<1>2. ASSUME NEW seq \in 0..MaxSeq, Status!Redeliver(seq) PROVE Status!TypeOK'
  BY <1>2 DEF Status!Redeliver, Status!FinishReplay
<1>3. ASSUME NEW target \in (0..MaxSeq) \union {None}, Status!ResumeResult(target) PROVE Status!TypeOK'
  BY <1>3 DEF Status!ResumeResult, Status!ReplayTarget
<1>4. CASE Status!Acknowledge
  BY <1>4 DEF Status!Acknowledge
<1>5. CASE Status!EndSession
  BY <1>5 DEF Status!EndSession
<1>6. CASE UNCHANGED Status!vars
  BY <1>6 DEF Status!vars
<1> QED BY <1>1, <1>2, <1>3, <1>4, <1>5, <1>6 DEF Status!Next

\* The message taken is one the world sent.
HeadOK == to_agent # <<>> /\ MessageOK(Head(to_agent)) /\ Head(to_agent) = to_agent[1] /\ 1 \in DOMAIN to_agent

\* The message the reader takes is typed.
LEMMA HeadTyped == Typed /\ to_agent # <<>> => HeadOK
<1> SUFFICES ASSUME Typed, to_agent # <<>> PROVE HeadOK
  OBVIOUS
<1>1. Shrunk(to_agent, Tail(to_agent))
  BY Taken DEF Typed
<1> QED BY <1>1 DEF Shrunk, Typed, HeadOK

\* A status a handler applies has a number of the session.
LEMMA ApplyIsProcess ==
  ASSUME NEW seq, NEW status, ApplyStatus(seq, status) \/ ApplySessionState(seq, status) \/ ApplyEvent(seq)
  PROVE  Status!Process(seq)
BY DEF ApplyStatus, ApplySessionState, ApplyEvent

\* Every step is one of the sequence's, or leaves the sequence alone.
LEMMA SequenceStep ==
  ASSUME Typed, [Next]_vars
  PROVE  [Status!Next]_(Status!vars)
<1> USE DEF Status!vars, sequence
<1>1. CASE Resume \/ Ping
  BY <1>1 DEF Resume, Ping, Status!Next
<1>2. CASE OpenSession \/ CloseSession
  BY <1>2 DEF OpenSession, CloseSession
<1>3. ASSUME NEW a \in ActionIds, NEW method, Submit(a) \/ AskAbout(a, method)
      PROVE  UNCHANGED Status!vars
  BY <1>3 DEF Submit, AskAbout
<1>4. CASE ReceiveStatus
  <2>1. Head(to_agent).kind = "status" /\ HeadOK
    BY <1>4, HeadTyped DEF ReceiveStatus, Receive
  <2>2. Head(to_agent).seq \in Status!Seqs /\ Head(to_agent).seq \in 0..MaxSeq
    BY <2>1, Bounds DEF HeadOK, MessageOK, Bears, NumberOf, Status!Seqs
  <2>3. Status!Process(Head(to_agent).seq) \/ Status!Redeliver(Head(to_agent).seq)
    BY <1>4, ApplyIsProcess DEF ReceiveStatus
  <2> QED BY <2>2, <2>3 DEF Status!Next
<1>5. CASE ReceiveSubmitResult \/ ReceiveCancelResult \/ ReceivePullResult
  <2>1. Head(to_agent).kind = "result" /\ Head(to_agent).method \in Reporting /\ HeadOK
    BY <1>5, HeadTyped DEF ReceiveSubmitResult, ReceiveCancelResult, ReceivePullResult, ReceiveResult, Receive,
                           Reporting
  <2>2. Body.seq \in Status!Seqs
    BY <2>1, Bounds DEF HeadOK, MessageOK, Bears, NumberOf, Status!Seqs, Body
  <2>3. Status!Process(Body.seq) \/ UNCHANGED Status!vars
    <3>1. ApplyResult => Status!Process(Body.seq) \/ UNCHANGED Status!vars
      BY ApplyIsProcess DEF ApplyResult
    <3>2. CASE ReceiveSubmitResult
      BY <3>1, <3>2, ApplyIsProcess DEF ReceiveSubmitResult, IgnoreResult
    <3> QED BY <1>5, <3>1, <3>2 DEF ReceiveCancelResult, ReceivePullResult, IgnoreResult
  <2> QED BY <2>2, <2>3 DEF Status!Next
<1>6. CASE ReceiveOpenResult \/ ReceiveResumeError \/ Abandon \/ AbandonFromStream
  BY <1>6 DEF ReceiveOpenResult, ReceiveResumeError, Abandon, AbandonFromStream, SessionLost, Status!Next
<1>7. CASE ReceiveResumeResult
  <2>1. Head(to_agent).kind = "result" /\ Head(to_agent).method = "resume" /\ HeadOK
    BY <1>7, HeadTyped DEF ReceiveResumeResult, ReceiveResult, Receive
  <2>2. Body.replay_to \in 0..MaxSeq
    BY <2>1 DEF HeadOK, MessageOK, Body
  <2> QED BY <1>7, <2>2 DEF ReceiveResumeResult, Status!Next
<1>8. CASE ReceiveCloseResult \/ ReceiveSubmitError \/ ReceiveOther \/ FirstFrame
  BY <1>8 DEF ReceiveCloseResult, ReceiveSubmitError, ReceiveOther, FirstFrame
<1>9. CASE Connect \/ LoseConnection \/ DropMessage \/ FinishClosing
  BY <1>9 DEF Connect, LoseConnection, DropMessage, FinishClosing
<1>10. CASE WorldAnswers
  BY <1>10 DEF WorldAnswers, GrantOpen, GrantResume, RefuseResume, AnswerPing, AnswerClose, AdmitSubmission,
               AnswerCancel, Refuse, ReportAction, Answer
<1>11. ASSUME NEW a \in ActionIds, Progress(a) PROVE UNCHANGED Status!vars
  BY <1>11 DEF Progress, Report
<1>12. CASE Happen \/ WorldCloses
  BY <1>12 DEF Happen, WorldCloses, Report
<1>13. CASE UNCHANGED vars
  BY <1>13 DEF vars
<1> QED BY <1>1, <1>2, <1>3, <1>4, <1>5, <1>6, <1>7, <1>8, <1>9, <1>10, <1>11, <1>12, <1>13 DEF Next, ClientReceives

-----------------------------------------------------------------------------
(* What the steps have in common                                           *)

ClientSends ==
  \/ OpenSession \/ Resume \/ CloseSession \/ Ping
  \/ \E a \in ActionIds : Submit(a) \/ \E method \in {"submit", "pull", "cancel"} : AskAbout(a, method)

\* The client sends a request.
SendOf(r) ==
  /\ to_world' = Append(to_world, r) /\ RequestOK(r)
  /\ requests' \in 0..MaxRequests /\ opens' \in 0..MaxOpens
  /\ r.method = "open" =>
       /\ connection' = connection /\ UNCHANGED actions /\ ~Unanswered("open") /\ ~Unanswered("resume")
       /\ ready = None \/ "reopen" \in Faults
  /\ r.method = "resume" =>
       /\ connection = "new" /\ connection' = "used" /\ UNCHANGED actions /\ ~Unanswered("open")
       /\ ready # None /\ session_state = "suspended" /\ r.session = ready /\ r.ack = last_status_seq
  /\ r.method \notin {"open", "resume"} =>
       connection' = connection /\ ready # None /\ (r.method = "ping" => r.ack = last_status_seq)
  /\ connection \in {"new", "used"}
  /\ \A a \in ActionIds : actions'[a] = actions[a] \/ (actions[a] = None /\ actions'[a] = Submitted)
  /\ actions' \in [ActionIds -> Records \union {None}]
  /\ UNCHANGED <<session_state, ready, accused, dropped, to_agent, held, attached, log, discarded, losses>>
  /\ UNCHANGED <<last_status_seq, seen_above, replay_to, processed>>

\* None is no record, and a new record is one.
LEMMA RecordTypes ==
  /\ Submitted \in Records
  /\ \A state \in ActionState, seq \in 0..MaxSeq : [state |-> state, seq |-> seq] \in Records
  /\ None \notin Records
<1>1. Submitted \in Records /\ \A state \in ActionState, seq \in 0..MaxSeq : [state |-> state, seq |-> seq] \in Records
  BY Bounds DEF Submitted, Records, ActionState
<1>2. \A r \in Records : r \in [state : ActionState, seq : Nat]
  BY Bounds DEF Records
<1> QED BY <1>1, <1>2, SessionAssumption

\* Each of the application's calls and the heartbeat sends one request (client.py, the
\* methods that call _request).
LEMMA SendShape ==
  ASSUME Typed, ClientSends
  PROVE  \E r : SendOf(r)
<1> USE Bounds DEF history, client, world
<1>1. /\ actions \in [ActionIds -> Records \union {None}] /\ ready \in (1..MaxOpens) \union {None}
      /\ last_status_seq \in 0..MaxSeq /\ requests \in 0..MaxRequests /\ opens \in 0..MaxOpens
  BY DEF Typed, Status!TypeOK
<1>2. CASE OpenSession
  <2> DEFINE r == [method |-> "open", session |-> opens + 1]
  <2>1. r.method = "open" /\ RequestOK(r)
    BY <1>1, <1>2 DEF RequestOK, OpenSession, Reporting
  <2>2. to_world' = Append(to_world, r)
    BY <1>2 DEF OpenSession, Send
  <2>3. opens' \in 0..MaxOpens
    BY <1>1, <1>2 DEF OpenSession
  <2> HIDE DEF r
  <2>4. SendOf(r)
    BY <1>1, <1>2, <2>1, <2>2, <2>3 DEF SendOf, OpenSession, sequence, Connected
  <2> QED BY <2>4
<1>3. CASE Resume
  <2> DEFINE r == [method |-> "resume", session |-> ready, ack |-> last_status_seq]
  <2>1. r.method = "resume" /\ r.session = ready /\ r.ack = last_status_seq /\ RequestOK(r)
    BY <1>1, <1>3 DEF RequestOK, Resume, Reporting
  <2>2. to_world' = Append(to_world, r)
    BY <1>3 DEF Resume, Send
  <2> HIDE DEF r
  <2>3. SendOf(r)
    BY <1>1, <1>3, <2>1, <2>2 DEF SendOf, Resume, counters, Status!Acknowledge
  <2> QED BY <2>3
<1>4. ASSUME NEW r, Request(r), RequestOK(r), ready # None, UNCHANGED <<session_state, ready>>,
             r.method \notin {"open", "resume"}, r.method = "ping" => r.ack = last_status_seq,
             UNCHANGED <<last_status_seq, seen_above, replay_to, processed>>,
             actions' \in [ActionIds -> Records \union {None}],
             \A a \in ActionIds : actions'[a] = actions[a] \/ (actions[a] = None /\ actions'[a] = Submitted)
      PROVE  \E q : SendOf(q)
  <2>1. SendOf(r)
    BY <1>1, <1>4 DEF SendOf, Request, Send, Connected
  <2> QED BY <2>1
<1>5. CASE CloseSession
  <2> DEFINE r == [method |-> "close"]
  <2>1. r.method = "close" /\ RequestOK(r)
    BY DEF RequestOK, Reporting
  <2>2. Request(r)
    BY <1>5 DEF CloseSession
  <2> HIDE DEF r
  <2> QED BY <1>1, <1>4, <1>5, <2>1, <2>2 DEF CloseSession, sequence
<1>6. CASE Ping
  <2> DEFINE r == [method |-> "ping", ack |-> last_status_seq]
  <2>1. r.method = "ping" /\ r.ack = last_status_seq /\ RequestOK(r)
    BY <1>1 DEF RequestOK, Reporting
  <2>2. Request(r)
    BY <1>6 DEF Ping
  <2> HIDE DEF r
  <2> QED BY <1>1, <1>4, <1>6, <2>1, <2>2 DEF Ping, Status!Acknowledge
<1>7. ASSUME NEW a \in ActionIds, Submit(a) PROVE \E r : SendOf(r)
  <2> DEFINE r == [method |-> "submit", action |-> a]
  <2>1. r.method = "submit" /\ RequestOK(r)
    BY DEF RequestOK, Reporting
  <2>2. Request(r)
    BY <1>7 DEF Submit
  <2>3. /\ actions' \in [ActionIds -> Records \union {None}]
        /\ \A b \in ActionIds : actions'[b] = actions[b] \/ (actions[b] = None /\ actions'[b] = Submitted)
    BY <1>1, <1>7, RecordTypes DEF Submit
  <2> HIDE DEF r
  <2> QED BY <1>1, <1>4, <1>7, <2>1, <2>2, <2>3 DEF Submit, sequence
<1>8. ASSUME NEW a \in ActionIds, NEW method \in {"submit", "pull", "cancel"}, AskAbout(a, method)
      PROVE  \E r : SendOf(r)
  <2> DEFINE r == [method |-> method, action |-> a]
  <2>1. r.method = method /\ RequestOK(r)
    BY DEF RequestOK, Reporting
  <2>2. Request(r)
    BY <1>8 DEF AskAbout
  <2> HIDE DEF r
  <2> QED BY <1>1, <1>4, <1>8, <2>1, <2>2 DEF AskAbout, sequence
<1> QED BY <1>2, <1>3, <1>5, <1>6, <1>7, <1>8 DEF ClientSends

\* The client takes a message.
TakeOf ==
  /\ to_agent # <<>> /\ to_agent' = Tail(to_agent)
  /\ UNCHANGED <<connection, to_world, held, attached, log, discarded, requests, opens, losses, dropped>>

\* What a message may do to the client's state.
TakenInto ==
  /\ session_state' \in {None, "ready", "active", "suspended", "closed"}
  /\ session_state' = "suspended" =>
       session_state = "suspended" \/ (Bears(Head(to_agent)) /\ Suspends(Reported(Head(to_agent))))
  /\ ready' \in (1..MaxOpens) \union {None}
  /\ actions' \in [ActionIds -> Records \union {None}]
  /\ accused' \in BOOLEAN

\* A status of an action that is applied leaves typed records (_apply_status).
LEMMA AppliedStatus ==
  ASSUME Typed, NEW seq \in 1..MaxSeq, NEW status, StatusOK(status), status.about = "action",
         ApplyStatus(seq, status)
  PROVE  /\ UNCHANGED <<session_state, ready, dropped>>
         /\ actions' \in [ActionIds -> Records \union {None}] /\ accused' \in BOOLEAN
<1>1. [state |-> status.state, seq |-> seq] \in Records
  BY Bounds, RecordTypes DEF StatusOK
<1>2. accused' \in BOOLEAN
  BY Zenon DEF ApplyStatus, Accuse, Typed
<1> QED BY <1>1, <1>2 DEF ApplyStatus, Accuse, Typed, StatusOK

\* So does a result that reports one.
LEMMA AppliedResult ==
  ASSUME Typed, Body.seq \in 1..MaxSeq, StatusOK(Body.status), Body.status.about = "action",
         ApplyResult \/ IgnoreResult
  PROVE  /\ UNCHANGED <<session_state, ready, dropped>>
         /\ actions' \in [ActionIds -> Records \union {None}] /\ accused' \in BOOLEAN
<1>1. CASE UNCHANGED <<client, sequence, history>>
  BY <1>1 DEF client, history, Typed
<1>2. CASE ApplyStatus(Body.seq, Body.status)
  BY <1>2, AppliedStatus
<1> QED BY <1>1, <1>2 DEF ApplyResult, IgnoreResult

\* Each handler takes one message and changes no more than the client.
LEMMA ReceiveShape ==
  ASSUME Typed, ClientReceives
  PROVE  TakeOf /\ TakenInto
<1> USE Bounds DEF history, client, world, counters
<1>1. Receive("status") \/ Receive("result") \/ Receive("error")
  BY DEF ClientReceives, ReceiveStatus, ReceiveSubmitResult, ReceiveCancelResult, ReceivePullResult,
         ReceiveOpenResult, ReceiveResumeResult, ReceiveCloseResult, ReceiveResumeError, ReceiveSubmitError,
         ReceiveOther, ReceiveResult, ReceiveError
<1>2. /\ to_agent # <<>> /\ to_agent' = Tail(to_agent)
      /\ UNCHANGED <<connection, to_world, held, attached, log, discarded, requests, opens, losses>>
  BY <1>1 DEF Receive
<1>3. HeadOK
  BY <1>2, HeadTyped
<1>4. /\ session_state \in {None, "ready", "active", "suspended", "closed"}
      /\ ready \in (1..MaxOpens) \union {None} /\ actions \in [ActionIds -> Records \union {None}]
      /\ accused \in BOOLEAN
  BY DEF Typed
<1>5. CASE ReceiveStatus
  <2>1. /\ Head(to_agent).kind = "status" /\ Bears(Head(to_agent))
        /\ Head(to_agent).seq \in 1..MaxSeq /\ StatusOK(Head(to_agent).status)
        /\ Reported(Head(to_agent)) = Head(to_agent).status
    BY <1>3, <1>5 DEF ReceiveStatus, Receive, HeadOK, MessageOK, Bears, NumberOf, Reported
  <2> DEFINE seq == Head(to_agent).seq
             status == Head(to_agent).status
  <2>2. CASE status.about = "action" /\ ApplyStatus(seq, status)
    BY <1>2, <1>4, <2>1, <2>2, AppliedStatus DEF TakeOf, TakenInto
  <2>3. CASE status.about = "session" /\ ApplySessionState(seq, status)
    <3>1. accused' \in BOOLEAN
      BY <1>4, <2>3, Zenon DEF ApplySessionState, Accuse
    <3>2. session_state' = status.state /\ ready' \in {ready, None} /\ UNCHANGED <<actions, dropped>>
      BY <2>3 DEF ApplySessionState, Accuse
    <3>3. status.state \in {"ready", "active", "suspended", "closed"}
      BY <2>1, <2>3 DEF StatusOK
    <3> QED BY <1>2, <1>4, <2>1, <2>3, <3>1, <3>2, <3>3 DEF TakeOf, TakenInto, Suspends
  <2>4. CASE status.about = "event" /\ ApplyEvent(seq)
    <3>1. accused' \in BOOLEAN
      BY <1>4, <2>4, Zenon DEF ApplyEvent, Accuse
    <3> QED BY <1>2, <1>4, <2>4, <3>1 DEF TakeOf, TakenInto, ApplyEvent, Accuse
  <2>5. CASE Status!Redeliver(seq) /\ UNCHANGED <<client, history>>
    BY <1>2, <1>4, <2>5 DEF TakeOf, TakenInto
  <2> QED BY <1>5, <2>2, <2>3, <2>4, <2>5 DEF ReceiveStatus
<1>6. CASE ReceiveSubmitResult \/ ReceiveCancelResult \/ ReceivePullResult
  <2>1. /\ Head(to_agent).kind = "result" /\ Head(to_agent).method \in Reporting
        /\ Body.seq \in 1..MaxSeq /\ StatusOK(Body.status) /\ Body.status.about = "action"
    BY <1>3, <1>6 DEF ReceiveSubmitResult, ReceiveCancelResult, ReceivePullResult, ReceiveResult, Receive,
                      Reporting, HeadOK, MessageOK, Bears, NumberOf, Reported, Body
  <2>2. CASE ReceiveSubmitResult /\ UNCHANGED history /\ UNCHANGED <<session_state, ready>>
                /\ actions' = [actions EXCEPT ![Body.status.action] = Submitted]
    BY <1>2, <1>4, <2>2, RecordTypes DEF TakeOf, TakenInto
  <2>3. CASE ApplyStatus(Body.seq, Body.status)
    BY <1>2, <1>4, <2>1, <2>3, AppliedStatus DEF TakeOf, TakenInto
  <2>4. CASE ApplyResult \/ IgnoreResult
    BY <1>2, <1>4, <2>1, <2>4, AppliedResult DEF TakeOf, TakenInto
  <2> QED BY <1>6, <2>2, <2>3, <2>4 DEF ReceiveSubmitResult, ReceiveCancelResult, ReceivePullResult
<1>7. CASE ReceiveOpenResult \/ ReceiveResumeResult
  <2>1. Head(to_agent).kind = "result" /\ UNCHANGED <<accused, dropped>>
    BY <1>7 DEF ReceiveOpenResult, ReceiveResumeResult, ReceiveResult, Receive
  <2>2. ready' \in 1..MaxOpens
    BY <1>3, <1>7, <2>1 DEF ReceiveOpenResult, ReceiveResumeResult, ReceiveResult, HeadOK, MessageOK, Body
  <2>3. session_state' \in {"ready", session_state} /\ actions' \in [ActionIds -> Records \union {None}]
    BY <1>4, <1>7 DEF ReceiveOpenResult, ReceiveResumeResult
  <2> QED BY <1>2, <1>4, <2>1, <2>2, <2>3 DEF TakeOf, TakenInto
<1>8. CASE ReceiveResumeError \/ ReceiveCloseResult
  BY <1>2, <1>4, <1>8 DEF TakeOf, TakenInto, ReceiveResumeError, ReceiveCloseResult, SessionLost
<1>9. CASE ReceiveSubmitError \/ ReceiveOther
  <2>1. UNCHANGED <<accused, dropped, session_state, ready>>
    BY <1>9 DEF ReceiveSubmitError, ReceiveOther
  <2>2. actions' \in [ActionIds -> Records \union {None}]
    BY <1>4, <1>9 DEF ReceiveSubmitError, ReceiveOther
  <2> QED BY <1>2, <1>4, <2>1, <2>2 DEF TakeOf, TakenInto
<1> QED BY <1>5, <1>6, <1>7, <1>8, <1>9 DEF ClientReceives

-----------------------------------------------------------------------------
(* What the world says                                                     *)

\* The next status of an action is one the lifecycle permits.
LawfulNext(s) ==
  s.about = "action" =>
    LET from == WorldState(s.action)
    IN  from \notin Terminal /\ (from = s.state \/ Permitted(from, s.state, s.reason))

Untouched == UNCHANGED <<session_state, ready, actions, last_status_seq, seen_above, replay_to, processed,
                         accused, dropped, connection, requests, opens, losses>>

TakesRequest == to_world # <<>> /\ to_world' = Tail(to_world)

\* The world answers without a status.
MuteOf(m) ==
  /\ TakesRequest /\ to_agent' = to_agent \o <<m>>
  /\ MessageOK(m) /\ ~Bears(m) /\ m.kind \in {"result", "error"} /\ m.method = Head(to_world).method
  /\ m.method \in {"open", "close"} => m.kind = "error"
  /\ m.method = "resume" => m.kind = "error" /\ held # Head(to_world).session
  /\ UNCHANGED <<held, attached, log>>
  /\ \/ discarded' = discarded
     \/ Head(to_world).method = "ping" /\ attached /\ discarded' = Head(to_world).ack /\ discarded' > discarded

\* The world answers with a new status,
ReportOf(m, s) ==
  /\ TakesRequest /\ to_agent' = to_agent \o <<m>>
  /\ attached /\ Len(log) < MaxStatus /\ StatusOK(s) /\ s.about = "action" /\ LawfulNext(s)
  /\ Head(to_world).method = m.method
  /\ m.kind = "result" /\ m.method \in Reporting \ {"pull"} /\ NumberOf(m) = Len(log) + 1 /\ Reported(m) = s
  /\ log' = Append(log, s)
  /\ UNCHANGED <<held, attached, discarded>>

\* or with the one an action has.
RepeatOf(m, k) ==
  /\ TakesRequest /\ to_agent' = to_agent \o <<m>>
  /\ attached /\ k \in DOMAIN log /\ log[k].about = "action"
  /\ Head(to_world).method = m.method
  /\ m.kind = "result" /\ m.method \in Reporting /\ NumberOf(m) = k /\ Reported(m) = log[k]
  /\ UNCHANGED <<held, attached, discarded, log>>

\* The world says something by itself.
SayOf(s) ==
  /\ held # None /\ log' = Append(log, s) /\ StatusOK(s) /\ LawfulNext(s)
  /\ IF attached THEN to_agent' = to_agent \o <<Notification(Len(log) + 1, s)>> ELSE to_agent' = to_agent
  /\ \/ s = SessionStatus("closed") /\ held' = None /\ attached' = FALSE
     \/ /\ UNCHANGED <<held, attached>>
        /\ s.about = "session" => s.state = IF attached THEN "active" ELSE "suspended"
        /\ Len(log) < MaxStatus \/ (~attached /\ ~IsSuspended /\ Suspends(s))
  /\ UNCHANGED <<discarded, to_world>>

\* No transition leaves a terminal state or enters "submitted" (lifecycle.json).
LEMMA TransitionsTyped ==
  \A t \in Transitions : t.from \notin Terminal /\ t.to # "submitted" /\ t.to \in ActionState
BY DEF Transitions, Row, Terminal, PreExecution, Execution, Cancels, Aborts, Rechecks, ActionState

\* The lifecycle permits a cancellation by the agent wherever it permits one.
LEMMA CancelReason ==
  \A t \in Transitions : t.to \in {"cancelling", "cancelled"} => "cancelled_by_agent" \in t.reasons
BY DEF Transitions, Row, PreExecution, Cancels, Aborts, Rechecks

\* The world's next state of an action.
LEMMA NextStatesTyped ==
  ASSUME NEW a, NEW state \in NextStates(a)
  PROVE  /\ state \in ActionState \ {"submitted"} /\ WorldState(a) \notin Terminal
         /\ \/ state = "executing" /\ WorldState(a) = "executing"
            \/ \E t \in Transitions : t.from = WorldState(a) /\ t.to = state
<1>1. CASE \E t \in Transitions : t.from = WorldState(a) /\ t.to = state
  BY <1>1, TransitionsTyped
<1>2. CASE state = "executing" /\ WorldState(a) = "executing"
  BY <1>2 DEF ActionState, Execution, Terminal
<1> QED BY <1>1, <1>2 DEF NextStates

\* A status of an action, with a reason that the row has.
LEMMA ActionStatusLawful ==
  ASSUME NEW a \in ActionIds, NEW state \in NextStates(a), NEW reason,
         \/ state = "executing" /\ WorldState(a) = "executing"
         \/ \E t \in Transitions :
              t.from = WorldState(a) /\ t.to = state /\ (reason = NoReason \/ t.reasons = {} \/ reason \in t.reasons)
  PROVE  /\ StatusOK(ActionStatus(a, state, reason)) /\ LawfulNext(ActionStatus(a, state, reason))
         /\ ActionStatus(a, state, reason).about = "action"
<1> DEFINE s == ActionStatus(a, state, reason)
<1>1. s.about = "action" /\ s.action = a /\ s.state = state /\ s.reason = reason
  BY DEF ActionStatus
<1>2. state \in ActionState \ {"submitted"} /\ WorldState(a) \notin Terminal
  BY NextStatesTyped
<1> HIDE DEF s
<1>3. StatusOK(s) /\ LawfulNext(s)
  BY <1>1, <1>2 DEF StatusOK, LawfulNext, Permitted
<1> QED BY <1>1, <1>3 DEF s

\* Progress gives a reason of a row.
LEMMA ReasonOfRow ==
  ASSUME NEW a, NEW state, NEW u \in Transitions, u.from = WorldState(a), u.to = state
  PROVE  \E t \in Transitions :
           /\ t.from = WorldState(a) /\ t.to = state
           /\ ReasonFor(a, state) = NoReason \/ t.reasons = {} \/ ReasonFor(a, state) \in t.reasons
<1> DEFINE rows == {t \in Transitions : t.from = WorldState(a) /\ t.to = state}
           reasons == UNION {t.reasons : t \in rows}
<1>1. ReasonFor(a, state) = IF reasons = {} THEN NoReason ELSE CHOOSE r \in reasons : TRUE
  BY DEF ReasonFor
<1>2. CASE reasons = {}
  BY <1>1, <1>2
<1>3. CASE reasons # {}
  <2>1. ReasonFor(a, state) \in reasons
    BY <1>1, <1>3
  <2>2. PICK t \in rows : ReasonFor(a, state) \in t.reasons
    BY <2>1
  <2> QED BY <2>2
<1> QED BY <1>2, <1>3

\* A status notification.
LEMMA NotificationShape ==
  ASSUME NEW seq, NEW s
  PROVE  LET m == Notification(seq, s)
         IN  m.kind = "status" /\ Bears(m) /\ NumberOf(m) = seq /\ Reported(m) = s
BY DEF Notification, Bears, NumberOf, Reported

\* A ping, a resumption refused, and a request refused are answered without a status.
LEMMA MuteShape ==
  ASSUME Typed, RefuseResume \/ AnswerPing \/ Refuse
  PROVE  Untouched /\ \E m : MuteOf(m)
<1> USE DEF client, sequence, history, counters, world
<1>1. Untouched
  BY DEF RefuseResume, AnswerPing, Refuse, Answer, Untouched
<1> SUFFICES \E m : MuteOf(m)
  BY <1>1
<1>2. to_world # <<>> /\ RequestOK(Head(to_world))
  <2>1. to_world # <<>>
    BY DEF RefuseResume, AnswerPing, Refuse, Answer
  <2>2. Shrunk(to_world, Tail(to_world))
    BY <2>1, Taken DEF Typed
  <2> QED BY <2>1, <2>2 DEF Shrunk, Typed
<1>3. ASSUME NEW method, NEW body, Answer(method, <<Error(method, body)>>), UNCHANGED <<held, attached, log, discarded>>,
             method = "resume" => held # Head(to_world).session,
             method = "submit" => body.action \in ActionIds
      PROVE  \E m : MuteOf(m)
  <2> DEFINE m == Error(method, body)
  <2>1. m.kind = "error" /\ m.method = method /\ m.body = body
    BY DEF Error
  <2>2. TakesRequest /\ to_agent' = to_agent \o <<m>> /\ Head(to_world).method = method
    BY <1>3 DEF Answer, TakesRequest
  <2> HIDE DEF m
  <2>3. MessageOK(m) /\ ~Bears(m)
    BY <1>2, <1>3, <2>1, <2>2 DEF MessageOK, Bears, RequestOK
  <2>4. MuteOf(m)
    BY <1>3, <2>1, <2>2, <2>3 DEF MuteOf
  <2> QED BY <2>4
<1>4. CASE RefuseResume
  BY <1>3, <1>4 DEF RefuseResume, Asked
<1>5. CASE AnswerPing
  <2> DEFINE m == Result("ping", None)
  <2>1. m.kind = "result" /\ m.method = "ping"
    BY DEF Result
  <2>2. TakesRequest /\ to_agent' = to_agent \o <<m>> /\ Head(to_world).method = "ping" /\ UNCHANGED <<held, attached, log>>
    BY <1>5 DEF AnswerPing, Answer, TakesRequest
  <2>3. discarded' = discarded \/ (attached /\ discarded' = Head(to_world).ack /\ discarded' > discarded)
    BY <1>5 DEF AnswerPing, Discard, Asked
  <2> HIDE DEF m
  <2>4. MessageOK(m) /\ ~Bears(m)
    BY <2>1 DEF MessageOK, Bears, Reporting
  <2>5. MuteOf(m)
    BY <2>1, <2>2, <2>3, <2>4 DEF MuteOf
  <2> QED BY <2>5
<1>6. CASE Refuse
  <2>1. CASE Asked.method \in {"open", "pull", "cancel"} /\ Answer(Asked.method, <<Error(Asked.method, None)>>)
    BY <1>3, <1>6, <2>1 DEF Refuse
  <2>2. CASE Answer("close", <<Error("close", None)>>)
    BY <1>3, <1>6, <2>2 DEF Refuse
  <2>3. ASSUME NEW code, Asked.method = "submit",
               Answer("submit", <<Error("submit", [action |-> Asked.action, code |-> code])>>)
        PROVE  \E m : MuteOf(m)
    <3>1. [action |-> Asked.action, code |-> code].action \in ActionIds
      BY <1>2, <2>3 DEF Asked, RequestOK, Reporting
    <3> QED BY <1>3, <1>6, <2>3, <3>1 DEF Refuse
  <2> QED BY <1>6, <2>1, <2>2, <2>3 DEF Refuse
<1> QED BY <1>1, <1>4, <1>5, <1>6

\* A result that reports a status.
LEMMA ResultShape ==
  ASSUME NEW method \in Reporting, NEW seq, NEW s
  PROVE  LET m == Result(method, [seq |-> seq, status |-> s])
         IN  m.kind = "result" /\ m.method = method /\ Bears(m) /\ NumberOf(m) = seq /\ Reported(m) = s
BY DEF Result, Bears, NumberOf, Reported

\* A submission admitted and an action cancelled are answered with a new status.
LEMMA ReportShape ==
  ASSUME Typed, AdmitSubmission \/ AnswerCancel
  PROVE  Untouched /\ \E m, s : ReportOf(m, s)
<1> USE DEF client, sequence, history, counters, world
<1>1. Untouched
  BY DEF AdmitSubmission, AnswerCancel, Answer, Untouched
<1>2. to_world # <<>> /\ RequestOK(Head(to_world))
  <2>1. to_world # <<>>
    BY DEF AdmitSubmission, AnswerCancel
  <2>2. Shrunk(to_world, Tail(to_world))
    BY <2>1, Taken DEF Typed
  <2> QED BY <2>1, <2>2 DEF Shrunk, Typed
<1>3. PICK method \in {"submit", "cancel"}, state \in NextStates(Asked.action), reason \in {NoReason, "cancelled_by_agent"} :
        LET s == ActionStatus(Asked.action, state, reason)
        IN  /\ Asked.method = method /\ (reason = NoReason \/ state \in {"cancelling", "cancelled"})
            /\ log' = Append(log, s)
            /\ Answer(method, <<Result(method, [seq |-> Len(log) + 1, status |-> s])>>)
  <2>1. CASE AdmitSubmission
    BY <2>1 DEF AdmitSubmission
  <2>2. CASE AnswerCancel
    BY <2>2 DEF AnswerCancel
  <2> QED BY <2>1, <2>2
<1> DEFINE s == ActionStatus(Asked.action, state, reason)
           m == Result(method, [seq |-> Len(log) + 1, status |-> s])
<1>4. Asked.action \in ActionIds
  BY <1>2, <1>3 DEF Asked, RequestOK, Reporting
<1>5. StatusOK(s) /\ LawfulNext(s) /\ s.about = "action"
  <2>1. \/ state = "executing" /\ WorldState(Asked.action) = "executing"
        \/ \E t \in Transitions : t.from = WorldState(Asked.action) /\ t.to = state
                                  /\ (reason = NoReason \/ t.reasons = {} \/ reason \in t.reasons)
    BY <1>3, NextStatesTyped, CancelReason
  <2> QED BY <1>4, <2>1, ActionStatusLawful
<1>6. m.kind = "result" /\ m.method = method /\ NumberOf(m) = Len(log) + 1 /\ Reported(m) = s
  BY <1>3, ResultShape DEF Reporting
<1>7. TakesRequest /\ to_agent' = to_agent \o <<m>> /\ Head(to_world).method = method /\ log' = Append(log, s)
  BY <1>3 DEF Answer, TakesRequest
<1>8. attached /\ Len(log) < MaxStatus /\ UNCHANGED <<held, attached, discarded>>
  BY DEF AdmitSubmission, AnswerCancel, Room
<1> HIDE DEF m, s
<1>9. ReportOf(m, s)
  BY <1>3, <1>5, <1>6, <1>7, <1>8 DEF ReportOf, Reporting
<1> QED BY <1>1, <1>9

\* A retry and a pull are answered with the status the action has.
LEMMA RepeatShape ==
  ASSUME Typed, NEW method \in {"submit", "pull", "cancel"}, ReportAction(method)
  PROVE  Untouched /\ \E m, k : RepeatOf(m, k)
<1> USE DEF client, sequence, history, counters, world
<1>1. Untouched
  BY DEF ReportAction, Answer, Untouched
<1> DEFINE k == Newest(Asked.action, DOMAIN log)
           m == Result(method, [seq |-> k, status |-> log[k]])
<1>2. k # 0 /\ Answer(method, <<m>>) /\ attached /\ UNCHANGED <<held, attached, log, discarded>>
  BY DEF ReportAction
<1>3. k \in DOMAIN log /\ log[k].about = "action"
  <2> DEFINE about == {j \in DOMAIN log : log[j].about = "action" /\ log[j].action = Asked.action}
  <2>1. k = IF about = {} THEN 0 ELSE CHOOSE n \in about : \A j \in about : j <= n
    BY DEF Newest
  <2>2. PICK n \in about : \A j \in about : j <= n
    <3>1. Len(log) \in Nat /\ DOMAIN log = 1..Len(log) /\ about # {}
      BY <1>2, <2>1, Elements DEF Typed
    <3> QED BY <3>1, GreatestNatural
  <2>3. k \in about
    BY <2>1, <2>2
  <2> QED BY <2>3
<1>4. m.kind = "result" /\ m.method = method /\ NumberOf(m) = k /\ Reported(m) = log[k] /\ method \in Reporting
  BY ResultShape DEF Reporting
<1>5. TakesRequest /\ to_agent' = to_agent \o <<m>> /\ Head(to_world).method = method
  BY <1>2 DEF Answer, TakesRequest
<1> HIDE DEF m, k
<1>6. RepeatOf(m, k)
  BY <1>2, <1>3, <1>4, <1>5 DEF RepeatOf
<1> QED BY <1>1, <1>6

\* The world says something by itself.
LEMMA SayStep ==
  ASSUME Typed, NEW s, Report(s), StatusOK(s), LawfulNext(s), held # None,
         \/ s = SessionStatus("closed") /\ held' = None /\ attached' = FALSE
         \/ /\ UNCHANGED <<held, attached>>
            /\ s.about = "session" => s.state = IF attached THEN "active" ELSE "suspended"
            /\ Len(log) < MaxStatus \/ (~attached /\ ~IsSuspended /\ Suspends(s))
  PROVE  Untouched /\ SayOf(s)
<1>1. Untouched
  BY DEF Report, Untouched, client, sequence, history, counters
<1>2. Append(to_agent, Notification(Len(log) + 1, s)) = to_agent \o <<Notification(Len(log) + 1, s)>>
  <2> DEFINE m == Notification(Len(log) + 1, s)
             S == {to_agent[i] : i \in 1..Len(to_agent)} \union {m}
  <2>1. m \in S /\ \A i \in 1..Len(to_agent) : to_agent[i] \in S
    OBVIOUS
  <2>2. to_agent \in Seq(S)
    BY <2>1, Elements DEF Typed
  <2> HIDE DEF m, S
  <2> QED BY <2>1, <2>2 DEF m
<1> QED BY <1>1, <1>2 DEF Report, SayOf

\* The world reports progress, an event, a change of the session or its end.
LEMMA SayShape ==
  ASSUME Typed, Happen \/ WorldCloses \/ \E a \in ActionIds : Progress(a)
  PROVE  Untouched /\ \E s : SayOf(s)
<1>1. CASE WorldCloses
  <2> DEFINE s == SessionStatus("closed")
  <2>1. StatusOK(s) /\ LawfulNext(s)
    BY DEF SessionStatus, StatusOK, LawfulNext
  <2> QED BY <1>1, <2>1, SayStep DEF WorldCloses
<1>2. ASSUME NEW a \in ActionIds, Progress(a) PROVE Untouched /\ \E s : SayOf(s)
  <2>1. PICK state \in NextStates(a) : Report(ActionStatus(a, state, ReasonFor(a, state)))
    BY <1>2 DEF Progress
  <2> DEFINE s == ActionStatus(a, state, ReasonFor(a, state))
  <2>2. StatusOK(s) /\ LawfulNext(s) /\ s.about = "action"
    BY NextStatesTyped, ReasonOfRow, ActionStatusLawful
  <2> QED BY <1>2, <2>1, <2>2, SayStep DEF Progress, Room
<1>3. CASE Happen
  <2> DEFINE states == {k \in DOMAIN log : log[k].about = "session"}
             now == log[CHOOSE k \in states : \A j \in states : j <= k].state
  <2>1. held # None /\ UNCHANGED <<held, attached>>
    BY <1>3 DEF Happen
  <2>2. CASE Room /\ Report(EventStatus)
    <3>1. StatusOK(EventStatus) /\ LawfulNext(EventStatus) /\ EventStatus.about = "event"
      BY DEF EventStatus, StatusOK, LawfulNext
    <3> QED BY <2>1, <2>2, <3>1, SayStep DEF Room
  <2>3. CASE Room /\ attached /\ Report(SessionStatus("active"))
    <3> DEFINE s == SessionStatus("active")
    <3>1. StatusOK(s) /\ LawfulNext(s) /\ s.state = "active"
      BY DEF SessionStatus, StatusOK, LawfulNext
    <3> QED BY <2>1, <2>3, <3>1, SayStep DEF Room
  <2>4. CASE ~attached /\ now # "suspended" /\ Report(SessionStatus("suspended"))
    <3> DEFINE s == SessionStatus("suspended")
    <3>1. StatusOK(s) /\ LawfulNext(s) /\ s.state = "suspended" /\ Suspends(s)
      BY DEF SessionStatus, StatusOK, LawfulNext, Suspends
    <3>2. ~IsSuspended
      <4> SUFFICES ASSUME NEW k \in DOMAIN log, Latest(k), log[k].state = "suspended" PROVE FALSE
        BY DEF IsSuspended
      <4>1. k \in states /\ \A j \in states : j <= k
        BY DEF Latest, About
      <4>2. \A n \in states : (\A j \in states : j <= n) => n = k
        <5>1. states \subseteq Int
          BY Elements DEF Typed
        <5> QED BY <4>1, <5>1
      <4>3. (CHOOSE n \in states : \A j \in states : j <= n) = k
        BY <4>1, <4>2
      <4> QED BY <2>4, <4>3
    <3> QED BY <2>1, <2>4, <3>1, <3>2, SayStep
  <2> QED BY <1>3, <2>2, <2>3, <2>4 DEF Happen
<1> QED BY <1>1, <1>2, <1>3

\* The world opens a session, closes it, or resumes it.
OpenedBy(o, n) ==
  /\ TakesRequest /\ to_agent' = to_agent \o <<o, n>>
  /\ Head(to_world).method = "open"
  /\ o.kind = "result" /\ o.method = "open" /\ o.body = Head(to_world).session
  /\ n.kind = "status" /\ NumberOf(n) = 1 /\ Reported(n) = SessionStatus("ready")
  /\ log' = <<SessionStatus("ready")>>
  /\ held' = Head(to_world).session /\ attached' = TRUE /\ discarded' = 0

ClosedBy(n, r) ==
  /\ TakesRequest /\ to_agent' = to_agent \o <<n, r>>
  /\ Head(to_world).method = "close" /\ attached
  /\ n.kind = "status" /\ NumberOf(n) = Len(log) + 1 /\ Reported(n) = SessionStatus("closed")
  /\ r.kind = "result" /\ r.method = "close"
  /\ log' = Append(log, SessionStatus("closed"))
  /\ held' = None /\ attached' = FALSE /\ discarded' = discarded

\* The replay is of the statuses behind the one given.
ResumedBy(ms, from) ==
  /\ TakesRequest /\ to_agent' = to_agent \o ms
  /\ Head(to_world).method = "resume" /\ held = Head(to_world).session
  /\ log' = Append(log, SessionStatus("active"))
  /\ held' = held /\ attached' = TRUE /\ discarded' = from
  /\ IF Head(to_world).ack > discarded THEN from = Head(to_world).ack ELSE from = discarded
  /\ IsSeq(ms) /\ Len(ms) > 1
  /\ ms[1].kind = "result" /\ ms[1].method = "resume"
  /\ ms[1].body.session = held /\ ms[1].body.replay_to = Len(log)
  /\ \A i \in 2..Len(ms) :
       /\ ms[i].kind = "status" /\ NumberOf(ms[i]) \in 1..(Len(log) + 1)
       /\ NumberOf(ms[i]) <= Len(log) => Reported(ms[i]) = log[NumberOf(ms[i])]
       /\ NumberOf(ms[i]) = Len(log) + 1 => Reported(ms[i]) = SessionStatus("active")
  /\ from <= Len(log) =>
       Len(ms) = Len(log) - from + 2 /\ \A i \in 2..Len(ms) : NumberOf(ms[i]) = from + i - 1

\* A session granted is answered with its first status.
LEMMA OpenShape ==
  ASSUME Typed, GrantOpen
  PROVE  Untouched /\ \E o, n : OpenedBy(o, n)
<1> USE DEF client, sequence, history, counters, world
<1>1. Untouched
  BY DEF GrantOpen, Answer, Untouched
<1> DEFINE o == Result("open", Asked.session)
           n == Notification(1, SessionStatus("ready"))
<1>2. o.kind = "result" /\ o.method = "open" /\ o.body = Head(to_world).session
  BY DEF Result, Asked
<1>3. n.kind = "status" /\ NumberOf(n) = 1 /\ Reported(n) = SessionStatus("ready")
  BY NotificationShape
<1>4. Answer("open", <<o, n>>) /\ log' = <<SessionStatus("ready")>>
      /\ held' = Head(to_world).session /\ attached' = TRUE /\ discarded' = 0
  BY DEF GrantOpen, Asked
<1> HIDE DEF o, n
<1>5. OpenedBy(o, n)
  BY <1>2, <1>3, <1>4 DEF OpenedBy, Answer, TakesRequest
<1> QED BY <1>1, <1>5

\* session.close is answered behind the status that ends the session.
LEMMA CloseShape ==
  ASSUME Typed, AnswerClose
  PROVE  Untouched /\ \E n, r : ClosedBy(n, r)
<1> USE DEF client, sequence, history, counters, world
<1>1. Untouched
  BY DEF AnswerClose, Answer, Untouched
<1> DEFINE r == Result("close", None)
           n == Notification(Len(log) + 1, SessionStatus("closed"))
<1>2. r.kind = "result" /\ r.method = "close"
  BY DEF Result
<1>3. n.kind = "status" /\ NumberOf(n) = Len(log) + 1 /\ Reported(n) = SessionStatus("closed")
  BY NotificationShape
<1>4. Answer("close", <<n, r>>) /\ log' = Append(log, SessionStatus("closed")) /\ attached
      /\ held' = None /\ attached' = FALSE /\ discarded' = discarded
  BY DEF AnswerClose, EndHeld, Closing
<1> HIDE DEF r, n
<1>5. ClosedBy(n, r)
  BY <1>2, <1>3, <1>4 DEF ClosedBy, Answer, TakesRequest
<1> QED BY <1>1, <1>5

\* A resumption is answered, then the statuses behind the ack point are replayed.
LEMMA ResumeShape ==
  ASSUME Typed, GrantResume
  PROVE  Untouched /\ \E ms, from : ResumedBy(ms, from)
<1> USE DEF client, sequence, history, counters, world
<1>1. Untouched
  BY DEF GrantResume, Answer, Untouched
<1> DEFINE from == IF Asked.ack > discarded THEN Asked.ack ELSE discarded
           result == Result("resume", [session |-> held, replay_to |-> Len(log)])
           replay == NotificationsAfter(from)
           live == Notification(Len(log) + 1, SessionStatus("active"))
           ms == <<result>> \o replay \o <<live>>
<1>2. Answer("resume", ms) /\ log' = Append(log, SessionStatus("active"))
      /\ held' = held /\ attached' = TRUE /\ discarded' = from /\ held = Head(to_world).session
  BY DEF GrantResume, Asked, Discard
<1>3. result.kind = "result" /\ result.method = "resume" /\ result.body.session = held /\ result.body.replay_to = Len(log)
  BY DEF Result
<1>4. live.kind = "status" /\ NumberOf(live) = Len(log) + 1 /\ Reported(live) = SessionStatus("active")
  BY NotificationShape
<1>5. from \in Nat /\ Len(log) \in Nat /\ DOMAIN log = 1..Len(log)
  <2>1. to_world # <<>> /\ Head(to_world).method = "resume"
    BY <1>2 DEF Answer
  <2>2. RequestOK(Head(to_world))
    BY <2>1, Taken DEF Shrunk, Typed
  <2>3. Head(to_world).ack \in Nat /\ discarded \in Nat
    BY <2>1, <2>2, Bounds DEF RequestOK, Typed
  <2> QED BY <2>3, Elements DEF Asked, Typed
<1>6. /\ IsSeq(replay) /\ (from <= Len(log) => Len(replay) = Len(log) - from)
      /\ \A i \in 1..Len(replay) :
           /\ from + i <= Len(log) /\ replay[i].kind = "status"
           /\ NumberOf(replay[i]) = from + i /\ Reported(replay[i]) = log[from + i]
  <2>1. CASE from <= Len(log)
    <3> DEFINE n == Len(log) - from
               S == {Notification(from + i, log[from + i]) : i \in 1..n}
    <3>1. n \in Nat /\ replay = [i \in 1..n |-> Notification(from + i, log[from + i])]
      BY <1>5, <2>1 DEF NotificationsAfter
    <3>2. replay \in Seq(S) /\ Len(replay) = n
      BY <3>1
    <3>3. IsSeq(replay)
      BY <3>2, Usual
    <3>4. \A i \in 1..n : from + i <= Len(log) /\ replay[i] = Notification(from + i, log[from + i])
      BY <1>5, <3>1
    <3> QED BY SMTT(20), <3>2, <3>3, <3>4, NotificationShape
  <2>2. CASE ~(from <= Len(log))
    <3>1. 1..(Len(log) - from) = {}
      BY <1>5, <2>2
    <3>2. replay = <<>>
      BY <3>1 DEF NotificationsAfter
    <3> QED BY <2>2, <3>2, Few
  <2> QED BY <2>1, <2>2
<1> HIDE DEF from, result, replay, live
<1>7. Grown(<<result>>, <<result>> \o replay, replay)
  BY <1>6, Few, Joined
<1>8. Grown(<<result>> \o replay, ms, <<live>>)
  BY <1>7, Few, Joined DEF Grown
<1>9. IsSeq(ms) /\ Len(ms) = Len(replay) + 2 /\ ms[1] = result /\ ms[Len(ms)] = live /\ Len(replay) \in Nat
      /\ \A i \in 2..(Len(ms) - 1) : ms[i] = replay[i - 1]
  <2>1. Len(<<result>>) = 1 /\ Len(<<live>>) = 1 /\ <<result>>[1] = result /\ <<live>>[1] = live
    BY Few
  <2>2. /\ Len(replay) \in Nat /\ Len(<<result>> \o replay) = 1 + Len(replay)
        /\ (<<result>> \o replay)[1] = result
        /\ \A i \in 1..Len(replay) : (<<result>> \o replay)[1 + i] = replay[i]
    BY <1>7, <2>1 DEF Grown
  <2>3. /\ IsSeq(ms) /\ Len(ms) = Len(replay) + 2
        /\ \A i \in 1..(Len(replay) + 1) : ms[i] = (<<result>> \o replay)[i]
        /\ ms[Len(replay) + 1 + 1] = live
    BY <1>8, <2>1, <2>2 DEF Grown
  <2>4. \A i \in 2..(Len(ms) - 1) : ms[i] = replay[i - 1]
    <3> SUFFICES ASSUME NEW i \in 2..(Len(ms) - 1) PROVE ms[i] = replay[i - 1]
      OBVIOUS
    <3>1. i - 1 \in 1..Len(replay) /\ i \in 1..(Len(replay) + 1) /\ 1 + (i - 1) = i
      BY <2>2, <2>3
    <3> QED BY <2>2, <2>3, <3>1
  <2> QED BY <2>2, <2>3, <2>4
<1> HIDE DEF ms
<1>10. \A i \in 2..Len(ms) :
         /\ ms[i].kind = "status" /\ NumberOf(ms[i]) \in 1..(Len(log) + 1)
         /\ NumberOf(ms[i]) <= Len(log) => Reported(ms[i]) = log[NumberOf(ms[i])]
         /\ NumberOf(ms[i]) = Len(log) + 1 => Reported(ms[i]) = SessionStatus("active")
  <2> SUFFICES ASSUME NEW i \in 2..Len(ms)
               PROVE  /\ ms[i].kind = "status" /\ NumberOf(ms[i]) \in 1..(Len(log) + 1)
                      /\ NumberOf(ms[i]) <= Len(log) => Reported(ms[i]) = log[NumberOf(ms[i])]
                      /\ NumberOf(ms[i]) = Len(log) + 1 => Reported(ms[i]) = SessionStatus("active")
    OBVIOUS
  <2>1. CASE i = Len(ms)
    BY <1>4, <1>5, <1>9, <2>1
  <2>2. CASE i # Len(ms)
    <3>1. i - 1 \in 1..Len(replay) /\ ms[i] = replay[i - 1]
      BY <1>9, <2>2
    <3>2. /\ from + (i - 1) <= Len(log) /\ ms[i].kind = "status"
          /\ NumberOf(ms[i]) = from + (i - 1) /\ Reported(ms[i]) = log[from + (i - 1)]
      BY <1>6, <3>1
    <3>3. from + (i - 1) \in 1..Len(log)
      BY <1>5, <3>1, <3>2
    <3> QED BY <1>5, <3>2, <3>3
  <2> QED BY <2>1, <2>2
<1>11. from <= Len(log) =>
         Len(ms) = Len(log) - from + 2 /\ \A i \in 2..Len(ms) : NumberOf(ms[i]) = from + i - 1
  <2> SUFFICES ASSUME from <= Len(log)
               PROVE  Len(ms) = Len(log) - from + 2 /\ \A i \in 2..Len(ms) : NumberOf(ms[i]) = from + i - 1
    OBVIOUS
  <2>1. Len(ms) = Len(log) - from + 2
    BY <1>5, <1>6, <1>9
  <2>2. ASSUME NEW i \in 2..Len(ms) PROVE NumberOf(ms[i]) = from + i - 1
    <3>1. CASE i = Len(ms)
      BY <1>4, <1>5, <1>9, <2>1, <3>1
    <3>2. CASE i # Len(ms)
      <4>1. i - 1 \in 1..Len(replay) /\ ms[i] = replay[i - 1]
        BY <1>9, <3>2
      <4> QED BY <1>5, <1>6, <4>1
    <3> QED BY <3>1, <3>2
  <2> QED BY <2>1, <2>2
<1>12. ResumedBy(ms, from)
  <2>1. TakesRequest /\ to_agent' = to_agent \o ms /\ Head(to_world).method = "resume"
    BY <1>2 DEF Answer, TakesRequest
  <2>2. IF Head(to_world).ack > discarded THEN from = Head(to_world).ack ELSE from = discarded
    BY DEF from, Asked
  <2> QED BY <1>2, <1>3, <1>9, <1>10, <1>11, <2>1, <2>2 DEF ResumedBy
<1> QED BY <1>1, <1>12

WorldStep ==
  \/ \E m : MuteOf(m)
  \/ \E m, s : ReportOf(m, s)
  \/ \E m, k : RepeatOf(m, k)
  \/ \E s : SayOf(s)
  \/ \E o, n : OpenedBy(o, n)
  \/ \E n, r : ClosedBy(n, r)
  \/ \E ms, from : ResumedBy(ms, from)

WorldActs == WorldAnswers \/ Happen \/ WorldCloses \/ \E a \in ActionIds : Progress(a)

\* Whatever the world does is one of these.
LEMMA WorldShape ==
  ASSUME Typed, WorldActs
  PROVE  Untouched /\ WorldStep
BY MuteShape, ReportShape, RepeatShape, SayShape, OpenShape, CloseShape, ResumeShape
   DEF WorldActs, WorldAnswers, WorldStep

-----------------------------------------------------------------------------
(* Whatever goes wrong: the types and the bound                            *)

\* The credit is at most two statuses for each loss.
LEMMA CreditSmall == Typed /\ OneResume /\ Calm => Credit \in 0..(2 * losses)
<1> SUFFICES ASSUME Typed, OneResume, Calm PROVE Credit \in 0..(2 * losses)
  OBVIOUS
<1>1. losses \in Nat
  BY Bounds DEF Typed
<1>2. /\ One(MaySuspend) \in 0..1 /\ One(WillSuspend) \in 0..1 /\ One(MayResume) \in 0..1 /\ One(Resuming) \in 0..1
  BY DEF One
<1>3. losses = 1 => ~(connection = "closing" /\ Resuming)
  BY DEF OneResume, Resuming
<1>4. Resuming => connection \in {"used", "closing"}
  BY DEF OneResume, Resuming
<1>5. losses = 1 => One(MayResume) + One(Resuming) <= 1
  BY <1>3, <1>4 DEF MayResume, One
<1>6. losses = 1 => One(MaySuspend) + One(WillSuspend) <= 1
  BY <1>3 DEF MaySuspend, WillSuspend, One
<1>7. CASE losses = 0
  BY <1>7 DEF Credit
<1>8. CASE losses = 1
  BY <1>2, <1>5, <1>6, <1>8 DEF Credit
<1>9. CASE losses > 1
  BY <1>1, <1>2, <1>9 DEF Credit
<1> QED BY <1>1, <1>7, <1>8, <1>9

\* As long as there is room for an unprompted status, the bound holds.
LEMMA RoomBounded == Typed /\ OneResume /\ Calm /\ Len(log) <= MaxStatus => Bounded
<1> SUFFICES ASSUME Typed, OneResume, Calm, Len(log) <= MaxStatus PROVE Bounded
  OBVIOUS
<1>1. Credit \in 0..(2 * losses) /\ losses \in Nat /\ Len(log) \in Nat
  BY CreditSmall, Bounds DEF Typed, IsSeq
<1>2. One(held = None) \in 0..1
  BY DEF One
<1> QED BY <1>1, <1>2, Bounds DEF Bounded

\* So a session has no more than MaxSeq.
LEMMA LogBounded == BInv => Len(log) \in 0..MaxSeq
<1> SUFFICES ASSUME BInv PROVE Len(log) \in 0..MaxSeq
  OBVIOUS
<1>1. Credit \in 0..(2 * losses) /\ losses \in 0..MaxLosses /\ Len(log) \in Nat
  BY CreditSmall, Bounds DEF BInv, Typed, IsSeq
<1>2. One(held = None) \in 0..1
  BY DEF One
<1> QED BY <1>1, <1>2, Bounds DEF BInv, Bounded

\* Initially nothing was said.
LEMMA InitBInv == Init => BInv
<1> SUFFICES ASSUME Init PROVE BInv
  OBVIOUS
<1>1. /\ to_world = <<>> /\ to_agent = <<>> /\ log = <<>> /\ DOMAIN <<>> = {} /\ IsSeq(<<>>) /\ Len(<<>>) = 0
  BY Few DEF Init
<1>2. Typed
  <2>1. accused \in BOOLEAN /\ dropped \in BOOLEAN /\ attached \in BOOLEAN
    BY Zenon DEF Init
  <2>2. Status!TypeOK
    BY Bounds DEF Init, Status!Init, Status!TypeOK, Status!Seqs
  <2> QED BY <1>1, <2>1, <2>2, Bounds DEF Init, Typed
<1>3. Calm /\ OneResume
  BY <1>1, Bounds DEF Init, Calm, OneResume, Resuming
<1>4. Bounded
  BY <1>1, <1>2, <1>3, RoomBounded, Bounds
<1> QED BY <1>2, <1>3, <1>4 DEF BInv

\* The client sends a request.
LEMMA SendBInv ==
  ASSUME BInv, Status!TypeOK', NEW r, SendOf(r)
  PROVE  BInv'
<1> USE DEF BInv
<1>1. Grown(to_world, to_world', <<r>>) /\ <<r>>[1] = r /\ Len(<<r>>) = 1
  BY Sent, Few DEF Typed, SendOf
<1>2. /\ IsSeq(to_world') /\ Len(to_world') = Len(to_world) + 1
      /\ \A i \in DOMAIN to_world' : (i \in DOMAIN to_world /\ to_world'[i] = to_world[i])
                                     \/ (i = Len(to_world) + 1 /\ to_world'[i] = r)
      /\ \A i \in DOMAIN to_world : i \in DOMAIN to_world' /\ to_world'[i] = to_world[i]
      /\ Len(to_world) + 1 \in DOMAIN to_world' /\ to_world'[Len(to_world) + 1] = r
      /\ Len(to_world) \in Nat /\ DOMAIN to_world = 1..Len(to_world)
  BY <1>1 DEF Grown
<1>3. UNCHANGED <<session_state, ready, accused, dropped, to_agent, held, attached, log, discarded, losses>>
  BY DEF SendOf
<1>4. Typed'
  <2>1. \A i \in DOMAIN to_world' : RequestOK(to_world'[i])
    BY <1>2 DEF SendOf, Typed
  <2>2. connection' \in {"down", "new", "used", "closing"}
    BY DEF SendOf
  <2> QED BY <1>2, <1>3, <2>1, <2>2 DEF SendOf, Typed
<1>5. Resuming' <=> Resuming \/ r.method = "resume"
  BY <1>2 DEF Resuming
<1>6. Calm'
  BY <1>3, <1>5 DEF Calm, SendOf
<1>7. connection # "down" /\ connection # "closing" /\ connection' # "closing" /\ connection' # "down"
  BY DEF SendOf
<1>8. OneResume'
  <2>1. CASE r.method = "resume"
    <3>1. connection = "new" /\ connection' = "used"
      BY <2>1 DEF SendOf
    <3>2. \A i \in DOMAIN to_world : to_world[i].method # "resume"
      BY <3>1 DEF OneResume
    <3> QED BY <1>2, <3>1, <3>2 DEF OneResume
  <2>2. CASE r.method # "resume"
    <3>1. connection' = connection
      BY <2>2 DEF SendOf
    <3> QED BY <1>2, <1>3, <1>7, <2>2, <3>1 DEF OneResume
  <2> QED BY <2>1, <2>2
<1>9. Bounded'
  <2>1. (IsSuspended' <=> IsSuspended) /\ losses' = losses /\ held' = held /\ log' = log /\ attached' = attached
    BY <1>3 DEF IsSuspended, Latest, About
  <2>2. One(MaySuspend)' = One(MaySuspend) /\ One(WillSuspend)' = One(WillSuspend)
    BY <1>7, <2>1 DEF MaySuspend, WillSuspend, One
  <2>3. One(MayResume)' + One(Resuming)' = One(MayResume) + One(Resuming)
    <3>1. CASE r.method = "resume"
      <4>1. connection = "new" /\ connection' = "used" /\ ~Resuming
        BY <3>1 DEF SendOf, OneResume, Resuming
      <4> QED BY <1>5, <3>1, <4>1 DEF MayResume, One
    <3>2. CASE r.method # "resume"
      <4>1. connection' = connection
        BY <3>2 DEF SendOf
      <4> QED BY <1>5, <3>2, <4>1 DEF MayResume, One
    <3> QED BY <3>1, <3>2
  <2>4. Credit' = Credit
    <3>1. /\ One(MaySuspend) \in 0..1 /\ One(WillSuspend) \in 0..1 /\ One(MayResume) \in 0..1 /\ One(Resuming) \in 0..1
          /\ One(MayResume)' \in 0..1 /\ One(Resuming)' \in 0..1
      BY DEF One
    <3> QED BY <2>1, <2>2, <2>3, <3>1 DEF Credit
  <2> QED BY <2>1, <2>4 DEF Bounded, One
<1> QED BY <1>4, <1>6, <1>8, <1>9

\* The client takes a message.
LEMMA TakeBInv ==
  ASSUME BInv, Status!TypeOK', TakeOf, TakenInto
  PROVE  BInv'
<1> USE DEF BInv
<1>1. Shrunk(to_agent, to_agent')
  BY Taken DEF TakeOf, Typed
<1>2. /\ IsSeq(to_agent') /\ Head(to_agent) = to_agent[1] /\ 1 \in DOMAIN to_agent
      /\ \A i \in DOMAIN to_agent' : i + 1 \in DOMAIN to_agent /\ to_agent'[i] = to_agent[i + 1]
  BY <1>1 DEF Shrunk
<1>3. UNCHANGED <<connection, to_world, held, attached, log, discarded, requests, opens, losses, dropped>>
  BY DEF TakeOf
<1>4. Typed'
  <2>1. \A i \in DOMAIN to_agent' : MessageOK(to_agent'[i])
    BY <1>2 DEF Typed
  <2> QED BY <1>2, <1>3, <2>1 DEF TakenInto, Typed
<1>5. Resuming' <=> Resuming
  BY <1>3 DEF Resuming
<1>6. Calm'
  BY <1>2, <1>3, <1>5 DEF Calm, TakenInto
<1>7. OneResume'
  BY <1>2, <1>3, Few DEF OneResume, TakeOf
<1>8. Bounded'
  BY <1>3 DEF Bounded, Credit, One, MaySuspend, WillSuspend, MayResume, Resuming, IsSuspended, Latest, About
<1> QED BY <1>4, <1>6, <1>7, <1>8

\* Credit has four parts, each one or nothing.
LEMMA CreditParts ==
  /\ One(MaySuspend) \in 0..1 /\ One(WillSuspend) \in 0..1 /\ One(MayResume) \in 0..1 /\ One(Resuming) \in 0..1
  /\ One(held = None) \in 0..1
BY DEF One

\* The connection is made, lost or given up.
ConnectionActs == Connect \/ LoseConnection \/ DropMessage \/ Abandon \/ AbandonFromStream \/ FinishClosing

\* A connection made, lost, abandoned or closed, and a message dropped: a loss brings the
\* credit of the two statuses it entitles the world to.
LEMMA ConnectionBInv ==
  ASSUME BInv, Status!TypeOK', ConnectionActs
  PROVE  BInv'
<1> USE DEF BInv, client, history, world, counters
<1>1. /\ losses \in 0..MaxLosses /\ losses \in Nat /\ Len(log) \in Nat /\ IsSeq(to_world) /\ IsSeq(to_agent)
      /\ Len(log) + Credit <= MaxStatus + 2 * losses + One(held = None)
      /\ Credit \in 0..(2 * losses)
  BY CreditSmall, Bounds DEF Typed, IsSeq, Bounded
<1>2. UNCHANGED <<held, log, discarded>> /\ (IsSuspended' <=> IsSuspended)
  BY DEF ConnectionActs, Connect, LoseConnection, DropMessage, Abandon, AbandonFromStream, FinishClosing,
         Disconnect, IsSuspended, Latest, About
<1>3. actions' \in [ActionIds -> Records \union {None}] /\ ready' \in (1..MaxOpens) \union {None}
      /\ requests' = requests /\ opens' = opens
  BY DEF ConnectionActs, Connect, LoseConnection, DropMessage, Abandon, AbandonFromStream, FinishClosing,
         Disconnect, SessionLost, Typed
<1>4. session_state' \in {None, "ready", "active", "suspended", "closed"}
  BY DEF ConnectionActs, Connect, LoseConnection, DropMessage, Abandon, AbandonFromStream, FinishClosing,
         SessionLost, StateAfterLoss, Typed
<1>5. ASSUME Disconnect, losses' \in 0..MaxLosses,
             losses' > losses \/ (losses' = losses /\ connection = "closing")
      PROVE  BInv'
  <2>1. /\ connection' = "down" /\ to_world' = <<>> /\ to_agent' = <<>> /\ attached' = FALSE /\ dropped' = FALSE
        /\ accused' = accused
    BY <1>5 DEF Disconnect
  <2>2. losses > 0 \/ losses' > losses
    BY <1>1, <1>5 DEF Calm
  <2>3. losses' \in Nat /\ losses' > 0
    BY <1>1, <1>5, <2>2, Bounds
  <2>4. Typed'
    BY <1>2, <1>3, <1>4, <1>5, <2>1, Few DEF Typed
  <2>5. ~Resuming'
    BY <2>1, Few DEF Resuming
  <2>6. Calm' /\ OneResume'
    BY <2>1, <2>3, Few DEF Calm, OneResume
  <2>7. One(MaySuspend)' \in 0..1 /\ One(WillSuspend)' = 0 /\ One(MayResume)' = 1 /\ One(Resuming)' = 0
    BY <2>1, <2>5 DEF One, MaySuspend, WillSuspend, MayResume
  <2>8. Credit' <= 2 /\ Credit' \in Nat
    BY <2>7, <2>3 DEF Credit
  <2>9. Bounded'
    <3>1. CASE losses' > losses
      BY <1>1, <1>2, <2>3, <2>8, <3>1, Bounds DEF Bounded, One
    <3>2. CASE losses' = losses /\ connection = "closing"
      <4>1. losses # 0 /\ One(MayResume) = 1
        BY <2>3, <3>2 DEF MayResume, One
      <4>2. One(MaySuspend)' <= One(MaySuspend) + One(WillSuspend)
        BY <1>2, <2>1, <3>2 DEF One, MaySuspend, WillSuspend
      <4>3. Credit' <= Credit
        BY <2>7, <3>2, <4>1, <4>2, CreditParts DEF Credit
      <4> QED BY <1>1, <1>2, <2>8, <3>2, <4>3, Bounds DEF Bounded, One
    <3> QED BY <1>5, <3>1, <3>2
  <2> QED BY <2>4, <2>6, <2>9
<1>6. CASE LoseConnection \/ Abandon \/ FinishClosing
  <2>1. Disconnect /\ losses' \in {losses, losses + 1} /\ losses' \in 0..MaxLosses
    BY <1>1, <1>6, Bounds DEF LoseConnection, Abandon, FinishClosing
  <2>2. losses' > losses \/ (losses' = losses /\ connection = "closing")
    BY <1>1, <1>6 DEF LoseConnection, Abandon, FinishClosing
  <2> QED BY <1>5, <2>1, <2>2
<1>7. CASE Connect
  <2>1. /\ connection = "down" /\ connection' = "new"
        /\ UNCHANGED <<session_state, ready, actions, accused, dropped, to_world, to_agent, held, attached, log, discarded>>
        /\ UNCHANGED <<requests, opens, losses>>
    BY <1>7 DEF Connect
  <2>2. Typed'
    BY <2>1 DEF Typed
  <2>3. Resuming' <=> Resuming
    BY <2>1 DEF Resuming
  <2>4. Calm' /\ OneResume'
    BY <2>1, <2>3, Few DEF Calm, OneResume
  <2>5. Credit' = Credit
    BY <1>2, <2>1, <2>3 DEF Credit, One, MaySuspend, WillSuspend, MayResume
  <2> QED BY <2>1, <2>2, <2>4, <2>5 DEF Bounded, One
<1>8. CASE DropMessage
  <2>1. /\ losses' = losses + 1 /\ losses < MaxLosses /\ to_agent # <<>> /\ to_agent' = Tail(to_agent) /\ dropped' = TRUE
        /\ UNCHANGED <<session_state, ready, actions, accused, connection, to_world, held, attached, log, discarded>>
        /\ UNCHANGED <<requests, opens>>
    BY <1>8 DEF DropMessage
  <2>2. Shrunk(to_agent, to_agent')
    BY <1>1, <2>1, Taken
  <2>3. IsSeq(to_agent') /\ \A i \in DOMAIN to_agent' : i + 1 \in DOMAIN to_agent /\ to_agent'[i] = to_agent[i + 1]
    BY <2>2 DEF Shrunk
  <2>4. Typed'
    <3>1. \A i \in DOMAIN to_agent' : MessageOK(to_agent'[i])
      BY <2>3 DEF Typed
    <3>2. losses' \in 0..MaxLosses
      BY <1>1, <2>1, Bounds
    <3> QED BY <2>1, <2>3, <3>1, <3>2 DEF Typed
  <2>5. Resuming' <=> Resuming
    BY <2>1 DEF Resuming
  <2>6. Calm' /\ OneResume'
    BY <1>1, <2>1, <2>5, Few DEF Calm, OneResume
  <2>7. (Credit \in 0..(2 * losses))'
    BY <2>4, <2>6, CreditSmall, PTL
  <2>8. losses # 0 => Credit' = Credit
    BY <1>1, <1>2, <2>1, <2>5 DEF Credit, One, MaySuspend, WillSuspend, MayResume
  <2>9. Credit' <= Credit + 2
    BY <1>1, <2>1, <2>7, <2>8
  <2>10. Bounded'
    <3>1. One(held' = None) = One(held = None) /\ One(held = None) \in 0..1 /\ Len(log') = Len(log)
      BY <2>1 DEF One
    <3>2. Len(log) + Credit <= MaxStatus + 2 * losses + One(held = None)
      BY DEF Bounded
    <3>3. Len(log) \in Nat /\ losses \in Nat /\ losses' = losses + 1 /\ Credit \in Nat /\ Credit' \in Nat
      BY <1>1, <1>2, <2>1, <2>7, Bounds DEF Typed, IsSeq
    <3> QED BY <2>9, <3>1, <3>2, <3>3, Bounds DEF Bounded
  <2> QED BY <2>4, <2>6, <2>10
<1>9. CASE AbandonFromStream
  <2>1. /\ losses' = losses + 1 /\ losses < MaxLosses /\ connection \in {"new", "used"} /\ connection' = "closing"
        /\ to_world' = Append(to_world, [method |-> "close"])
        /\ UNCHANGED <<accused, dropped, to_agent, held, attached, log, discarded, requests, opens>>
        /\ session_state' = "closed"
    BY <1>9 DEF AbandonFromStream, SessionLost, Send, Connected
  <2> DEFINE r == [method |-> "close"]
  <2>2. r.method = "close" /\ RequestOK(r)
    BY DEF RequestOK, Reporting
  <2>3. Grown(to_world, to_world', <<r>>) /\ <<r>>[1] = r /\ Len(<<r>>) = 1
    BY <1>1, <2>1, Sent, Few
  <2> HIDE DEF r
  <2>4. /\ IsSeq(to_world')
        /\ \A i \in DOMAIN to_world' : (i \in DOMAIN to_world /\ to_world'[i] = to_world[i]) \/ to_world'[i] = r
        /\ \A i \in DOMAIN to_world : i \in DOMAIN to_world' /\ to_world'[i] = to_world[i]
    BY <2>3 DEF Grown
  <2>5. Typed'
    <3>1. \A i \in DOMAIN to_world' : RequestOK(to_world'[i])
      BY <2>2, <2>4 DEF Typed
    <3>2. losses' \in 0..MaxLosses
      BY <1>1, <2>1, Bounds
    <3> QED BY <1>3, <2>1, <2>4, <3>1, <3>2 DEF Typed
  <2>6. Resuming' <=> Resuming
    BY <2>2, <2>4 DEF Resuming
  <2>7. Calm'
    BY <1>1, <2>1 DEF Calm
  <2>8. OneResume'
    <3>1. Resuming => losses' > 1
      BY <1>1, <2>1 DEF Calm
    <3> QED BY <2>1, <2>2, <2>4, <3>1 DEF OneResume, Resuming
  <2>9. (Credit \in 0..(2 * losses))'
    BY <2>5, <2>7, <2>8, CreditSmall, PTL
  <2>10. losses # 0 => Credit' <= Credit + 2
    <3>1. One(Resuming)' = One(Resuming) /\ One(MaySuspend)' = One(MaySuspend) /\ One(WillSuspend)' <= 1
          /\ One(MayResume)' = 1 /\ One(WillSuspend)' \in 0..1
      BY <1>2, <2>1, <2>6 DEF One, MaySuspend, WillSuspend, MayResume
    <3> QED BY <1>1, <2>1, <3>1, CreditParts DEF Credit
  <2>11. Credit' <= Credit + 2
    BY <1>1, <2>1, <2>9, <2>10
  <2> QED BY <1>1, <2>1, <2>5, <2>7, <2>8, <2>9, <2>11, Bounds DEF Bounded, One
<1> QED BY <1>6, <1>7, <1>8, <1>9 DEF ConnectionActs

\* The world takes a request off the connection.
LEMMA RequestTaken ==
  ASSUME Typed, TakesRequest
  PROVE  /\ Shrunk(to_world, to_world') /\ IsSeq(to_world') /\ \A i \in DOMAIN to_world' : RequestOK(to_world'[i])
         /\ RequestOK(Head(to_world)) /\ Head(to_world) = to_world[1] /\ 1 \in DOMAIN to_world
         /\ Resuming' => Resuming
         /\ Head(to_world).method = "resume" => Resuming
<1>1. Shrunk(to_world, to_world')
  BY Taken DEF Typed, TakesRequest
<1>2. /\ IsSeq(to_world') /\ Head(to_world) = to_world[1] /\ 1 \in DOMAIN to_world
      /\ \A i \in DOMAIN to_world' : i + 1 \in DOMAIN to_world /\ to_world'[i] = to_world[i + 1]
  BY <1>1 DEF Shrunk
<1> QED BY <1>1, <1>2 DEF Typed, Resuming

\* A connection still carries one resumption when a request is answered.
LEMMA RequestTakenOne ==
  ASSUME BInv, TakesRequest, connection' = connection, losses' = losses
  PROVE  OneResume'
<1>1. connection # "down"
  BY DEF BInv, OneResume, TakesRequest
<1>2. /\ \A i \in DOMAIN to_world' : i + 1 \in DOMAIN to_world /\ to_world'[i] = to_world[i + 1]
      /\ DOMAIN to_world' \subseteq Int
  BY RequestTaken DEF BInv, Shrunk
<1>3. ASSUME NEW i \in DOMAIN to_world', to_world'[i].method = "resume"
      PROVE  /\ connection \in {"used", "closing"} /\ (connection = "closing" => losses > 1)
             /\ \A j \in DOMAIN to_world' : to_world'[j].method = "resume" => j = i
  <2>1. i + 1 \in DOMAIN to_world /\ to_world[i + 1].method = "resume"
    BY <1>2, <1>3
  <2>2. /\ connection \in {"used", "closing"} /\ (connection = "closing" => losses > 1)
        /\ \A j \in DOMAIN to_world : to_world[j].method = "resume" => j = i + 1
    BY <2>1 DEF BInv, OneResume
  <2>3. ASSUME NEW j \in DOMAIN to_world', to_world'[j].method = "resume" PROVE j = i
    <3>1. j + 1 \in DOMAIN to_world /\ to_world[j + 1].method = "resume"
      BY <1>2, <2>3
    <3>2. j + 1 = i + 1
      BY <2>2, <3>1
    <3> QED BY <1>2, <3>2
  <2> QED BY <2>2, <2>3
<1> QED BY <1>1, <1>3 DEF OneResume

\* A session the world holds can have one more status.
LEMMA OneMore == BInv /\ held # None => Len(log) + 1 \in 1..MaxSeq
<1> SUFFICES ASSUME BInv, held # None PROVE Len(log) + 1 \in 1..MaxSeq
  OBVIOUS
<1>1. Credit \in 0..(2 * losses) /\ losses \in 0..MaxLosses /\ Len(log) \in Nat
  BY CreditSmall, Bounds DEF BInv, Typed, IsSeq
<1>2. One(held = None) = 0
  BY DEF One
<1> QED BY <1>1, <1>2, Bounds DEF BInv, Bounded

\* What the world sends is typed if each message of it is.
LEMMA AgentSent ==
  ASSUME Typed, NEW ms, IsSeq(ms), to_agent' = to_agent \o ms,
         \A i \in 1..Len(ms) : MessageOK(ms[i])
  PROVE  /\ Grown(to_agent, to_agent', ms) /\ IsSeq(to_agent')
         /\ \A i \in DOMAIN to_agent' : MessageOK(to_agent'[i])
<1>1. Grown(to_agent, to_agent', ms)
  BY Joined DEF Typed
<1> QED BY <1>1 DEF Grown, Typed

\* The same of a single message.
LEMMA AgentSentOne ==
  ASSUME Typed, NEW m, to_agent' = to_agent \o <<m>>, MessageOK(m)
  PROVE  /\ Grown(to_agent, to_agent', <<m>>) /\ IsSeq(to_agent')
         /\ \A i \in DOMAIN to_agent' : MessageOK(to_agent'[i])
<1>1. \A i \in 1..Len(<<m>>) : MessageOK(<<m>>[i])
  <2>1. \A i \in 1..1 : i = 1
    OBVIOUS
  <2> QED BY <2>1, Few
<1> QED BY <1>1, AgentSent, Few

\* What the world records is typed if it is.
LEMMA LogSent ==
  ASSUME Typed, NEW s, StatusOK(s), log' = Append(log, s)
  PROVE  /\ Grown(log, log', <<s>>) /\ IsSeq(log') /\ Len(log') = Len(log) + 1 /\ log' # <<>>
         /\ log'[Len(log) + 1] = s /\ Len(log) \in Nat /\ DOMAIN log = 1..Len(log) /\ DOMAIN log' = 1..(Len(log) + 1)
         /\ \A k \in DOMAIN log : log'[k] = log[k]
         /\ \A k \in DOMAIN log' : StatusOK(log'[k])
<1>1. Grown(log, log', <<s>>) /\ Len(<<s>>) = 1 /\ <<s>>[1] = s
  BY Sent, Few DEF Typed
<1>2. /\ IsSeq(log') /\ Len(log') = Len(log) + 1 /\ Len(log) \in Nat /\ DOMAIN log = 1..Len(log)
      /\ DOMAIN log' = 1..(Len(log) + 1) /\ log'[Len(log) + 1] = s
      /\ \A k \in DOMAIN log : log'[k] = log[k]
  BY <1>1 DEF Grown
<1>3. log' # <<>>
  BY <1>2, Few
<1> QED BY <1>1, <1>2, <1>3 DEF Typed

\* Nothing but credit is used up by an answer without a status.
LEMMA AnswerBounded ==
  ASSUME BInv, Untouched, TakesRequest, UNCHANGED <<held, attached, log>>
  PROVE  Bounded'
<1>1. (IsSuspended' <=> IsSuspended) /\ (Resuming' => Resuming) /\ losses' = losses /\ connection' = connection
  BY RequestTaken DEF BInv, IsSuspended, Latest, About, Untouched
<1>2. /\ One(MaySuspend)' = One(MaySuspend) /\ One(WillSuspend)' <= One(WillSuspend) /\ One(MayResume)' = One(MayResume)
      /\ One(Resuming)' <= One(Resuming) /\ One(WillSuspend)' \in 0..1 /\ One(Resuming)' \in 0..1
  BY <1>1 DEF One, MaySuspend, WillSuspend, MayResume
<1>3. Credit' <= Credit /\ Credit \in Nat /\ Credit' \in Nat
  BY <1>1, <1>2, CreditParts DEF Credit
<1>4. losses \in Nat /\ Len(log) \in Nat /\ One(held = None)' = One(held = None)
  BY Bounds DEF BInv, Typed, IsSeq, One
<1> QED BY <1>1, <1>3, <1>4, Bounds, CreditParts DEF BInv, Bounded

\* An answer without a status.
LEMMA MuteBInv ==
  ASSUME BInv, Status!TypeOK', Untouched, NEW m, MuteOf(m)
  PROVE  BInv'
<1> USE DEF BInv
<1>1. Grown(to_agent, to_agent', <<m>>) /\ IsSeq(to_agent') /\ \A i \in DOMAIN to_agent' : MessageOK(to_agent'[i])
  BY AgentSentOne DEF MuteOf
<1>2. \A i \in DOMAIN to_agent' : Bears(to_agent'[i]) => i \in DOMAIN to_agent /\ to_agent'[i] = to_agent[i]
  BY <1>1, Few DEF Grown, MuteOf
<1>3. discarded' \in 0..MaxSeq
  BY RequestTaken DEF MuteOf, Typed, RequestOK
<1>4. Typed'
  BY <1>1, <1>3, RequestTaken DEF MuteOf, Untouched, Typed
<1>5. Calm'
  BY <1>2, RequestTaken DEF MuteOf, Untouched, Calm
<1> QED BY <1>4, <1>5, RequestTakenOne, AnswerBounded DEF MuteOf, Untouched

\* An answer with a new one: there is room for it.
LEMMA ReportBInv ==
  ASSUME BInv, Status!TypeOK', Untouched, NEW m, NEW s, ReportOf(m, s)
  PROVE  BInv'
<1> USE DEF BInv
<1>1. held # None /\ Len(log) + 1 \in 1..MaxSeq
  BY OneMore DEF ReportOf, Typed
<1>2. MessageOK(m) /\ Bears(m) /\ ~Suspends(Reported(m))
  BY <1>1 DEF ReportOf, MessageOK, Bears, Reporting, Suspends
<1>3. Grown(to_agent, to_agent', <<m>>) /\ IsSeq(to_agent') /\ \A i \in DOMAIN to_agent' : MessageOK(to_agent'[i])
  BY <1>2, AgentSentOne DEF ReportOf
<1>4. \A i \in DOMAIN to_agent' : (i \in DOMAIN to_agent /\ to_agent'[i] = to_agent[i]) \/ to_agent'[i] = m
  BY <1>3, Few DEF Grown
<1>5. log' = Append(log, s) /\ StatusOK(s) /\ s.about = "action" /\ Len(log) < MaxStatus
  BY DEF ReportOf
<1>6. Typed'
  BY <1>3, <1>5, LogSent, RequestTaken DEF ReportOf, Untouched, Typed
<1>7. Calm'
  <2>1. losses = 0 => \A k \in DOMAIN log' : ~Suspends(log'[k])
    BY <1>5, LogSent DEF Calm, Suspends
  <2> QED BY <1>2, <1>4, <2>1, RequestTaken DEF ReportOf, Untouched, Calm
<1>8. OneResume'
  BY RequestTakenOne DEF ReportOf, Untouched
<1>9. (Len(log) <= MaxStatus)'
  BY <1>5, LogSent, Bounds
<1>10. Bounded'
  BY <1>6, <1>7, <1>8, <1>9, RoomBounded, PTL
<1> QED BY <1>6, <1>7, <1>8, <1>10

\* An answer with one the session has.
LEMMA RepeatBInv ==
  ASSUME BInv, Status!TypeOK', Untouched, NEW m, NEW k, RepeatOf(m, k)
  PROVE  BInv'
<1> USE DEF BInv
<1>1. k \in 1..MaxSeq /\ StatusOK(log[k])
  <2>1. held # None /\ Len(log) + 1 \in 1..MaxSeq
    BY OneMore DEF RepeatOf, Typed
  <2>2. DOMAIN log = 1..Len(log) /\ Len(log) \in Nat
    BY Elements DEF Typed
  <2> QED BY <2>1, <2>2, Bounds DEF RepeatOf, Typed
<1>2. MessageOK(m) /\ Bears(m) /\ ~Suspends(Reported(m))
  BY <1>1 DEF RepeatOf, MessageOK, Bears, Reporting, Suspends
<1>3. Grown(to_agent, to_agent', <<m>>) /\ IsSeq(to_agent') /\ \A i \in DOMAIN to_agent' : MessageOK(to_agent'[i])
  BY <1>2, AgentSentOne DEF RepeatOf
<1>4. \A i \in DOMAIN to_agent' : (i \in DOMAIN to_agent /\ to_agent'[i] = to_agent[i]) \/ to_agent'[i] = m
  BY <1>3, Few DEF Grown
<1>5. Typed'
  BY <1>3, RequestTaken DEF RepeatOf, Untouched, Typed
<1>6. Calm'
  BY <1>2, <1>4, RequestTaken DEF RepeatOf, Untouched, Calm
<1> QED BY <1>5, <1>6, RequestTakenOne, AnswerBounded DEF RepeatOf, Untouched

\* A new session has one status.
LEMMA OpenedBInv ==
  ASSUME BInv, Status!TypeOK', Untouched, NEW o, NEW n, OpenedBy(o, n)
  PROVE  BInv'
<1> USE DEF BInv
<1> DEFINE ready_ == SessionStatus("ready")
<1>1. ready_.about = "session" /\ ready_.state = "ready" /\ StatusOK(ready_) /\ ~Suspends(ready_)
  BY DEF SessionStatus, StatusOK, Suspends
<1> HIDE DEF ready_
<1>2. MessageOK(n) /\ ~Suspends(Reported(n))
  BY <1>1, Bounds DEF OpenedBy, MessageOK, Bears, ready_
<1>3. MessageOK(o) /\ ~Bears(o) /\ o.body \in 1..MaxOpens
  BY RequestTaken DEF OpenedBy, MessageOK, Bears, RequestOK, Reporting
<1>4. \A i \in 1..Len(<<o, n>>) : MessageOK(<<o, n>>[i])
  <2>1. \A i \in 1..2 : i = 1 \/ i = 2
    OBVIOUS
  <2> QED BY <1>2, <1>3, <2>1, Few
<1>5. Grown(to_agent, to_agent', <<o, n>>) /\ IsSeq(to_agent') /\ \A i \in DOMAIN to_agent' : MessageOK(to_agent'[i])
  BY <1>4, AgentSent, Few DEF OpenedBy
<1>6. \A i \in DOMAIN to_agent' : (i \in DOMAIN to_agent /\ to_agent'[i] = to_agent[i]) \/ to_agent'[i] \in {o, n}
  <2>1. \A i \in 1..2 : i = 1 \/ i = 2
    OBVIOUS
  <2> QED BY <1>5, <2>1, Few DEF Grown
<1>7. IsSeq(log') /\ Len(log') = 1 /\ log' # <<>> /\ \A k \in DOMAIN log' : log'[k] = ready_
  <2>1. log' = <<ready_>>
    BY DEF OpenedBy, ready_
  <2>2. IsSeq(log') /\ Len(log') = 1 /\ log'[1] = ready_
    BY <2>1, Few
  <2>3. DOMAIN log' = 1..1
    BY <2>2, Elements
  <2> QED BY <2>2, <2>3, Few
<1>8. held' \in 1..MaxOpens /\ attached' = TRUE /\ discarded' = 0
  BY <1>3 DEF OpenedBy
<1> attached' \in BOOLEAN
  BY <1>8, Zenon
<1>9. Typed'
  <2>1. IsSeq(to_world') /\ \A i \in DOMAIN to_world' : RequestOK(to_world'[i])
    BY RequestTaken DEF OpenedBy
  <2>2. \A k \in DOMAIN log' : StatusOK(log'[k])
    BY <1>1, <1>7
  <2>3. held' \in (1..MaxOpens) \union {None} /\ held' # None /\ discarded' \in 0..MaxSeq
    BY <1>8, Bounds
  <2> QED BY <1>5, <1>7, <2>1, <2>2, <2>3 DEF Untouched, Typed
<1>10. Calm'
  BY <1>1, <1>2, <1>3, <1>6, <1>7, <1>8, RequestTaken DEF OpenedBy, Untouched, Calm
<1>11. OneResume'
  BY RequestTakenOne DEF OpenedBy, Untouched
<1>12. (Len(log) <= MaxStatus)'
  BY <1>7, Bounds
<1>13. Bounded'
  BY <1>9, <1>10, <1>11, <1>12, RoomBounded, PTL
<1> QED BY <1>9, <1>10, <1>11, <1>13

\* The end of a session uses the one status kept for it.
LEMMA ClosedBInv ==
  ASSUME BInv, Status!TypeOK', Untouched, NEW n, NEW r, ClosedBy(n, r)
  PROVE  BInv'
<1> USE DEF BInv
<1> DEFINE s == SessionStatus("closed")
<1>1. s.about = "session" /\ s.state = "closed" /\ StatusOK(s) /\ ~Suspends(s)
  BY DEF SessionStatus, StatusOK, Suspends
<1> HIDE DEF s
<1>2. held # None /\ Len(log) + 1 \in 1..MaxSeq
  BY OneMore DEF ClosedBy, Typed
<1>3. MessageOK(n) /\ ~Suspends(Reported(n))
  BY <1>1, <1>2 DEF ClosedBy, MessageOK, Bears, s
<1>4. MessageOK(r) /\ ~Bears(r)
  BY DEF ClosedBy, MessageOK, Bears, Reporting
<1>5. \A i \in 1..2 : i = 1 \/ i = 2
  OBVIOUS
<1>6. \A i \in 1..Len(<<n, r>>) : MessageOK(<<n, r>>[i])
  BY <1>3, <1>4, <1>5, Few
<1>7. Grown(to_agent, to_agent', <<n, r>>) /\ IsSeq(to_agent') /\ \A i \in DOMAIN to_agent' : MessageOK(to_agent'[i])
  BY <1>6, AgentSent, Few DEF ClosedBy
<1>8. \A i \in DOMAIN to_agent' : (i \in DOMAIN to_agent /\ to_agent'[i] = to_agent[i]) \/ to_agent'[i] \in {n, r}
  BY <1>5, <1>7, Few DEF Grown
<1>9. log' = Append(log, s)
  BY DEF ClosedBy, s
<1>10. held' = None /\ attached' = FALSE /\ discarded' = discarded
  BY DEF ClosedBy
<1>11. Typed'
  <2>1. IsSeq(to_world') /\ \A i \in DOMAIN to_world' : RequestOK(to_world'[i])
    BY RequestTaken DEF ClosedBy
  <2>2. IsSeq(log') /\ \A k \in DOMAIN log' : StatusOK(log'[k])
    BY <1>1, <1>9, LogSent
  <2>3. attached' \in BOOLEAN
    BY <1>10, Zenon
  <2> QED BY <1>7, <1>10, <2>1, <2>2, <2>3 DEF Untouched, Typed
<1>12. Calm'
  <2>1. losses = 0 => \A k \in DOMAIN log' : ~Suspends(log'[k])
    BY <1>1, <1>9, LogSent DEF Calm
  <2> QED BY <1>3, <1>4, <1>8, <1>10, <2>1, RequestTaken DEF ClosedBy, Untouched, Calm
<1>13. OneResume'
  BY RequestTakenOne DEF ClosedBy, Untouched
<1>14. Bounded'
  <2>1. One(MaySuspend)' = 0 /\ One(WillSuspend)' = 0 /\ One(held = None)' = 1 /\ One(held = None) = 0
    BY <1>2, <1>10 DEF One, MaySuspend, WillSuspend
  <2>2. One(MayResume)' = One(MayResume) /\ One(Resuming)' <= One(Resuming) /\ One(Resuming)' \in 0..1 /\ losses' = losses
    BY RequestTaken DEF Untouched, One, MayResume, ClosedBy
  <2>3. Credit' <= Credit /\ Credit \in Nat /\ Credit' \in Nat
    BY <2>1, <2>2, CreditParts DEF Credit
  <2>4. losses \in Nat /\ Len(log) \in Nat /\ Len(log') = Len(log) + 1
    BY <1>1, <1>9, LogSent, Bounds DEF Typed
  <2> QED BY <2>1, <2>2, <2>3, <2>4, Bounds DEF Bounded
<1> QED BY <1>11, <1>12, <1>13, <1>14

\* A resumption spends the credit its loss brought.
LEMMA ResumedBInv ==
  ASSUME BInv, Status!TypeOK', Untouched, NEW ms, NEW from, ResumedBy(ms, from)
  PROVE  BInv'
<1> USE DEF BInv
<1> DEFINE s == SessionStatus("active")
<1>1. s.about = "session" /\ s.state = "active" /\ StatusOK(s) /\ ~Suspends(s)
  BY DEF SessionStatus, StatusOK, Suspends
<1> HIDE DEF s
<1>2. Resuming /\ RequestOK(Head(to_world)) /\ Head(to_world).method = "resume"
  BY RequestTaken DEF ResumedBy
<1>3. held \in 1..MaxOpens /\ Len(log) + 1 \in 1..MaxSeq /\ held # None
  <2>1. held \in 1..MaxOpens /\ held # None
    BY <1>2, Bounds DEF ResumedBy, RequestOK
  <2> QED BY <2>1, OneMore
<1>4. Len(log) \in Nat /\ DOMAIN log = 1..Len(log) /\ losses \in Nat /\ losses # 0
  BY <1>2, Elements, Bounds DEF Typed, Calm
<1>5. \A i \in 1..Len(ms) : MessageOK(ms[i])
  <2>1. MessageOK(ms[1])
    BY <1>3, <1>4, Bounds DEF ResumedBy, MessageOK, Bears, Reporting
  <2>2. ASSUME NEW i \in 2..Len(ms) PROVE MessageOK(ms[i])
    <3>1. NumberOf(ms[i]) \in 1..(Len(log) + 1) /\ ms[i].kind = "status"
      BY DEF ResumedBy
    <3>2. NumberOf(ms[i]) <= Len(log) => StatusOK(Reported(ms[i]))
      BY <1>4, <3>1 DEF ResumedBy, Typed
    <3>3. NumberOf(ms[i]) = Len(log) + 1 => StatusOK(Reported(ms[i]))
      BY <1>1 DEF ResumedBy, s
    <3>4. StatusOK(Reported(ms[i]))
      BY <1>4, <3>1, <3>2, <3>3
    <3> QED BY <1>3, <1>4, <3>1, <3>4, Bounds DEF MessageOK
  <2>3. \A i \in 1..Len(ms) : i = 1 \/ i \in 2..Len(ms)
    BY DEF ResumedBy, IsSeq
  <2> QED BY <2>1, <2>2, <2>3
<1>6. IsSeq(to_agent') /\ \A i \in DOMAIN to_agent' : MessageOK(to_agent'[i])
  BY <1>5, AgentSent DEF ResumedBy
<1>7. log' = Append(log, s)
  BY DEF ResumedBy, s
<1>8. held' = held /\ attached' = TRUE /\ discarded' \in 0..MaxSeq
  BY <1>2 DEF ResumedBy, RequestOK, Typed
<1>9. Typed'
  <2>1. IsSeq(to_world') /\ \A i \in DOMAIN to_world' : RequestOK(to_world'[i])
    BY RequestTaken DEF ResumedBy
  <2>2. IsSeq(log') /\ log' # <<>> /\ \A k \in DOMAIN log' : StatusOK(log'[k])
    BY <1>1, <1>7, LogSent
  <2>3. attached' \in BOOLEAN
    BY <1>8, Zenon
  <2> QED BY <1>3, <1>6, <1>8, <2>1, <2>2, <2>3 DEF Untouched, Typed
<1>10. Calm'
  BY <1>4 DEF Calm, Untouched
<1>11. OneResume'
  BY RequestTakenOne DEF ResumedBy, Untouched
<1>12. Bounded'
  <2>1. ~Resuming'
    <3> SUFFICES ASSUME NEW i \in DOMAIN to_world', to_world'[i].method = "resume" PROVE FALSE
      BY DEF Resuming
    <3>1. /\ i \in Int /\ i > 0 /\ i + 1 \in DOMAIN to_world /\ to_world'[i] = to_world[i + 1]
          /\ 1 \in DOMAIN to_world /\ to_world[1].method = "resume"
      BY RequestTaken DEF ResumedBy, Shrunk
    <3>2. i + 1 = 1
      BY <3>1 DEF OneResume
    <3> QED BY <3>1, <3>2
  <2>2. One(Resuming)' = 0 /\ One(Resuming) = 1 /\ One(MayResume)' = One(MayResume) /\ One(MaySuspend)' = 0
        /\ One(held = None)' = One(held = None) /\ losses' = losses
    BY <1>2, <1>8, <2>1 DEF One, MayResume, MaySuspend, Untouched
  <2>3. One(WillSuspend)' <= One(WillSuspend) /\ One(WillSuspend)' \in 0..1
    BY <1>2, <1>8 DEF One, WillSuspend, Untouched
  <2>4. Credit' <= Credit - 1 /\ Credit \in Nat /\ Credit' \in Nat
    <3>1. Credit = One(MaySuspend) + One(WillSuspend) + One(MayResume) + 1
      BY <1>4, <2>2 DEF Credit
    <3>2. Credit' = One(WillSuspend)' + One(MayResume)
      <4>1. Credit' = One(MaySuspend)' + One(WillSuspend)' + One(MayResume)' + One(Resuming)'
        BY <1>4, <2>2 DEF Credit
      <4> QED BY <2>2, <2>3, <4>1, CreditParts
    <3> QED BY <2>3, <3>1, <3>2, CreditParts
  <2>5. Len(log') = Len(log) + 1
    BY <1>1, <1>7, LogSent
  <2> QED BY <1>4, <2>2, <2>4, <2>5, Bounds, CreditParts DEF Bounded
<1> QED BY <1>9, <1>10, <1>11, <1>12

\* What the world says by itself has room, or is a suspension, which spends credit, or the
\* end.
LEMMA SayBInv ==
  ASSUME BInv, Status!TypeOK', Untouched, NEW s, SayOf(s)
  PROVE  BInv'
<1> USE DEF BInv
<1> DEFINE n == Notification(Len(log) + 1, s)
<1>1. held # None /\ Len(log) + 1 \in 1..MaxSeq /\ StatusOK(s) /\ log' = Append(log, s)
  BY OneMore DEF SayOf
<1>2. Len(log) \in Nat /\ losses \in Nat /\ losses' = losses /\ connection' = connection /\ to_world' = to_world
      /\ discarded' = discarded
  BY Bounds DEF Typed, IsSeq, Untouched, SayOf
<1>3. s.about = "session" => s.state \in {"closed", "active"} \/ ~attached
  BY DEF SayOf, SessionStatus
<1>4. MessageOK(n) /\ Reported(n) = s /\ Bears(n)
  <2>1. n.kind = "status" /\ Bears(n) /\ NumberOf(n) = Len(log) + 1 /\ Reported(n) = s
    BY NotificationShape
  <2> HIDE DEF n
  <2> QED BY <1>1, <2>1 DEF MessageOK
<1>5. IF attached THEN to_agent' = to_agent \o <<n>> ELSE to_agent' = to_agent
  BY DEF SayOf
<1> HIDE DEF n
<1>6. /\ IsSeq(to_agent') /\ \A i \in DOMAIN to_agent' : MessageOK(to_agent'[i])
      /\ \A i \in DOMAIN to_agent' : (i \in DOMAIN to_agent /\ to_agent'[i] = to_agent[i]) \/ (attached /\ to_agent'[i] = n)
  <2>1. CASE attached
    <3>1. /\ Grown(to_agent, to_agent', <<n>>) /\ IsSeq(to_agent')
          /\ \A i \in DOMAIN to_agent' : MessageOK(to_agent'[i])
      BY <1>4, <1>5, <2>1, AgentSentOne
    <3> QED BY <2>1, <3>1, Few DEF Grown
  <2>2. CASE ~attached
    BY <1>5, <2>2 DEF Typed
  <2> QED BY <2>1, <2>2
<1>7. /\ held' \in {held, None} /\ attached' \in BOOLEAN /\ (attached' => attached)
      /\ held' # None => held' = held /\ attached' = attached
  <2>1. CASE held' = None /\ attached' = FALSE
    <3>1. attached' \in BOOLEAN
      BY <2>1, Zenon
    <3> QED BY <2>1, <3>1
  <2>2. CASE UNCHANGED <<held, attached>>
    BY <2>2 DEF Typed
  <2> QED BY <2>1, <2>2 DEF SayOf
<1>8. Typed'
  <2>1. IsSeq(log') /\ log' # <<>> /\ \A k \in DOMAIN log' : StatusOK(log'[k])
    BY <1>1, LogSent
  <2>2. attached' => held' # None
    BY <1>1 DEF SayOf, Typed
  <2>3. held' \in (1..MaxOpens) \union {None}
    BY <1>7 DEF Typed
  <2> QED BY <1>2, <1>6, <1>7, <2>1, <2>2, <2>3 DEF Untouched, Typed
<1>9. Resuming' <=> Resuming
  BY <1>2 DEF Resuming
<1>10. Calm'
  <2> SUFFICES ASSUME losses = 0 PROVE Calm'
    BY <1>2 DEF Calm
  <2>1. attached /\ ~Suspends(s)
    BY <1>1, <1>3 DEF Calm, Suspends
  <2>2. \A k \in DOMAIN log' : ~Suspends(log'[k])
    BY <1>1, <2>1, LogSent DEF Calm
  <2> QED BY <1>4, <1>6, <1>7, <1>9, <2>1, <2>2 DEF Untouched, Calm
<1>11. OneResume'
  BY <1>2, <1>5, <1>7 DEF OneResume
<1>12. Bounded'
  <2>1. CASE s = SessionStatus("closed") /\ held' = None /\ attached' = FALSE
    <3>1. One(MaySuspend)' = 0 /\ One(WillSuspend)' = 0 /\ One(held = None)' = 1 /\ One(held = None) = 0
      BY <1>1, <2>1 DEF One, MaySuspend, WillSuspend
    <3>2. One(MayResume)' = One(MayResume) /\ One(Resuming)' = One(Resuming)
      BY <1>2, <1>9 DEF One, MayResume
    <3>3. Credit' <= Credit /\ Credit \in Nat /\ Credit' \in Nat
      <4>1. CASE losses = 0
        BY <1>2, <4>1 DEF Credit
      <4>2. CASE losses # 0
        <5>1. Credit = One(MaySuspend) + One(WillSuspend) + One(MayResume) + One(Resuming)
          BY <4>2 DEF Credit
        <5>2. Credit' = One(MaySuspend)' + One(WillSuspend)' + One(MayResume)' + One(Resuming)'
          BY <1>2, <4>2 DEF Credit
        <5>3. Credit' = One(MayResume) + One(Resuming)
          BY <3>1, <3>2, <5>2, CreditParts
        <5> QED BY <5>1, <5>3, CreditParts
      <4> QED BY <4>1, <4>2
    <3>4. Len(log') = Len(log) + 1
      BY <1>1, LogSent
    <3> QED BY <1>2, <3>1, <3>3, <3>4, Bounds DEF Bounded
  <2>2. CASE Len(log) < MaxStatus
    <3>1. (Len(log) <= MaxStatus)'
      BY <1>1, <2>2, LogSent, Bounds
    <3> QED BY <1>8, <1>10, <1>11, <3>1, RoomBounded, PTL
  <2>3. CASE UNCHANGED <<held, attached>> /\ ~attached /\ ~IsSuspended /\ Suspends(s)
    <3>1. IsSuspended'
      <4>1. Len(log) + 1 \in DOMAIN log' /\ log'[Len(log) + 1] = s /\ DOMAIN log' = 1..(Len(log) + 1)
        BY <1>1, <1>2, LogSent
      <4> DEFINE last == Len(log) + 1
      <4>2. PICK k : k = last /\ k \in Int
        BY <1>2
      <4>3. k \in DOMAIN log' /\ log'[k] = s /\ \A j \in DOMAIN log' : j <= k
        BY <1>2, <4>1, <4>2
      <4>4. About(k)' /\ s.state = "suspended"
        BY <2>3, <4>3 DEF About, Suspends
      <4>5. Latest(k)'
        BY <4>3, <4>4 DEF Latest
      <4> QED BY <4>3, <4>4, <4>5 DEF IsSuspended
    <3>2. One(MaySuspend)' = 0 /\ One(MaySuspend) = 1 /\ One(WillSuspend)' = One(WillSuspend)
          /\ One(held = None)' = One(held = None)
      BY <1>1, <1>2, <1>9, <2>3, <3>1 DEF One, MaySuspend, WillSuspend
    <3>3. One(MayResume)' = One(MayResume) /\ One(Resuming)' = One(Resuming) /\ losses # 0
      BY <1>1, <1>2, <1>9, <2>3 DEF One, MayResume, Calm
    <3>4. Credit' = Credit - 1 /\ Credit \in Nat /\ Credit' \in Nat
      <4>1. Credit = 1 + One(WillSuspend) + One(MayResume) + One(Resuming)
        BY <3>2, <3>3 DEF Credit
      <4>2. Credit' = One(MaySuspend)' + One(WillSuspend)' + One(MayResume)' + One(Resuming)'
        BY <1>2, <3>3 DEF Credit
      <4>3. Credit' = One(WillSuspend) + One(MayResume) + One(Resuming)
        BY <3>2, <3>3, <4>2, CreditParts
      <4> QED BY <4>1, <4>3, CreditParts
    <3>5. Len(log') = Len(log) + 1
      BY <1>1, LogSent
    <3> QED BY <1>2, <3>2, <3>4, <3>5, Bounds, CreditParts DEF Bounded
  <2> QED BY <2>1, <2>2, <2>3 DEF SayOf
<1> QED BY <1>8, <1>10, <1>11, <1>12

\* The first frame makes the session active.
LEMMA FrameBInv ==
  ASSUME BInv, Status!TypeOK', FirstFrame
  PROVE  BInv'
<1> USE DEF BInv
<1>1. /\ session_state' = "active" /\ UNCHANGED <<ready, actions, accused, dropped, connection, to_world, to_agent>>
      /\ UNCHANGED <<held, attached, log, discarded, requests, opens, losses>>
  BY DEF FirstFrame, history, links, world, counters
<1> QED BY <1>1 DEF Typed, Calm, OneResume, Resuming, Bounded, Credit, One, MaySuspend, WillSuspend, MayResume,
                    IsSuspended, Latest, About

\* The steps, by who takes them.
LEMMA NextIs ==
  Next => ClientSends \/ ClientReceives \/ FirstFrame \/ ConnectionActs \/ WorldActs
BY DEF Next, ClientSends, ConnectionActs, WorldActs

\* Every step keeps the types and the bound.
LEMMA NextBInv == BInv /\ [Next]_vars => BInv'
<1> SUFFICES ASSUME BInv, [Next]_vars PROVE BInv'
  OBVIOUS
<1>1. Status!TypeOK'
  BY SequenceStep, SequenceTyped DEF BInv, Typed
<1>2. CASE ClientSends
  BY <1>1, <1>2, SendShape, SendBInv DEF BInv
<1>3. CASE ClientReceives
  BY <1>1, <1>3, ReceiveShape, TakeBInv DEF BInv
<1>4. CASE FirstFrame
  BY <1>1, <1>4, FrameBInv
<1>5. CASE ConnectionActs
  BY <1>1, <1>5, ConnectionBInv
<1>6. CASE WorldActs
  <2>1. Untouched /\ WorldStep
    BY <1>6, WorldShape DEF BInv
  <2> QED BY <1>1, <2>1, MuteBInv, ReportBInv, RepeatBInv, SayBInv, OpenedBInv, ClosedBInv, ResumedBInv DEF WorldStep
<1>7. CASE UNCHANGED vars
  BY <1>7 DEF vars, client, sequence, history, links, world, counters, BInv, Typed, Status!TypeOK, Calm, OneResume,
              Resuming, Bounded, Credit, One, MaySuspend, WillSuspend, MayResume, IsSuspended, Latest, About
<1> QED BY <1>2, <1>3, <1>4, <1>5, <1>6, <1>7, NextIs

\* The invariant holds for every kind of fault.
THEOREM BInvCorrect == Spec => []BInv
BY InitBInv, NextBInv, PTL DEF Spec

\* The types, for every kind of fault: a session has no more statuses than MaxSeq.
THEOREM TypeCorrect == Spec => []TypeOK
<1>1. BInv => TypeOK
  <2> SUFFICES ASSUME BInv PROVE TypeOK
    OBVIOUS
  <2>1. Len(log) \in 0..MaxSeq
    BY LogBounded
  <2>2. {accused, dropped} \subseteq BOOLEAN
    BY Zenon DEF BInv, Typed
  <2> QED BY <2>1, <2>2 DEF BInv, Typed, TypeOK
<1> QED BY <1>1, BInvCorrect, PTL

\* The client's bookkeeping is StatusSequence, whatever the connection and the world do
\* and whatever goes wrong (_sequence, _finish_replay and the handlers that run them).
THEOREM SequenceCorrect == Spec => SequenceSpec
<1>1. Init => Status!Init
  BY DEF Init
<1>2. BInv /\ [Next]_vars => [Status!Next]_(Status!vars)
  BY SequenceStep DEF BInv
<1> QED BY <1>1, <1>2, BInvCorrect, PTL DEF Spec, SequenceSpec, Status!Spec

-----------------------------------------------------------------------------
(* Where nothing but connections fails                                     *)

\* Nothing goes wrong but connections: no message is dropped on a connection that
\* lives, and no session is opened over one that could be resumed.
Orderly == Faults \subseteq {"abandon"}

-----------------------------------------------------------------------------
(* Where a session is, in an orderly world                                 *)

Quiet == \A i \in DOMAIN to_agent : ~Bears(to_agent[i])

IsOpened(m) == m.kind = "result" /\ m.method = "open"
IsResumed(m) == m.kind # "status" /\ m.method = "resume"
IsClosed(m) == Bears(m) /\ Reported(m).about = "session" /\ Reported(m).state = "closed"
IsCloseResult(m) == m.kind = "result" /\ m.method = "close"

\* The client is about to learn of a session opened for it.
Opening == \E i \in DOMAIN to_agent : IsOpened(to_agent[i])

\* The session asked for is the last thing asked for,
Asking ==
  \A i \in DOMAIN to_world :
    to_world[i].method = "open" =>
      i = Len(to_world) /\ ready = None /\ ~attached /\ Quiet /\ ~Opening

\* and it starts from nothing.
OpenedAt(i) ==
  /\ ready = None /\ to_world = <<>> /\ discarded = 0
  /\ held \in {to_agent[i].body, None}
  /\ \A j \in DOMAIN to_agent : IsOpened(to_agent[j]) => j = i
  /\ \A j \in 1..(i - 1) : ~Bears(to_agent[j])

Opened == \A i \in DOMAIN to_agent : IsOpened(to_agent[i]) => OpenedAt(i)

\* Outside a session the world says nothing of one.
Outside == ready = None /\ ~Opening => ~attached /\ Quiet

ClosedLog(k) == log[k].about = "session" /\ log[k].state = "closed"

\* The client is in the session the world last held, and has not processed its end;
\* what it acknowledged, it processed.
Inside ==
  ready # None =>
    /\ held \in {ready, None}
    /\ last_status_seq <= Len(log) /\ discarded <= last_status_seq
    /\ \A k \in 1..last_status_seq : ~ClosedLog(k)
    /\ \A i \in DOMAIN to_world : to_world[i].method = "ping" => to_world[i].ack <= last_status_seq

\* A resumption is under way for the session and from the ack point, with nothing else
\* of the session in flight;
ResumeAt(i) ==
  /\ to_world[i].session = ready /\ to_world[i].ack = last_status_seq
  /\ ~attached /\ Quiet
  /\ \A j \in DOMAIN to_agent : ~IsResumed(to_agent[j])

\* it is answered once, with the session's statuses behind the answer;
ResumedAt(i) ==
  /\ connection = "used" /\ ~Resuming
  /\ \A j \in DOMAIN to_agent : IsResumed(to_agent[j]) => j = i
  /\ ready # None
  /\ to_agent[i].kind = "result" =>
       /\ to_agent[i].body.session = ready
       /\ \A j \in 1..(i - 1) : ~Bears(to_agent[j])
  /\ to_agent[i].kind = "error" => ~attached /\ Quiet

Resumption ==
  /\ \A i \in DOMAIN to_world : to_world[i].method = "resume" => ResumeAt(i)
  /\ \A i \in DOMAIN to_agent : IsResumed(to_agent[i]) => ResumedAt(i)

\* On a connection that has not been used for one there is no trace of a suspension.
Unused ==
  connection = "new" =>
    /\ ready # None /\ session_state = "suspended" => ~attached /\ Quiet
    /\ \A i \in DOMAIN to_agent : Bears(to_agent[i]) => ~Suspends(Reported(to_agent[i]))

\* The session's end is the last the world says of it, and comes before the answer to
\* session.close.
Ending ==
  /\ connection # "closing"
  /\ \A i \in DOMAIN to_agent :
       IsClosed(to_agent[i]) =>
         ~attached /\ \A j \in DOMAIN to_agent : j > i => ~Bears(to_agent[j])
  /\ \A i \in DOMAIN to_agent :
       IsCloseResult(to_agent[i]) =>
         \/ ready = None /\ \A j \in 1..(i - 1) : ~IsOpened(to_agent[j])
         \/ \E j \in 1..(i - 1) : IsClosed(to_agent[j])

Phases == Asking /\ Opened /\ Outside /\ Inside /\ Resumption /\ Unused /\ Ending

-----------------------------------------------------------------------------
(* The chain of statuses from the world's log to the client's ack point    *)

\* Where the client is, or will be once it has learned of its session.
Base == IF ready = None THEN 0 ELSE last_status_seq

Carries(i, k) == i \in DOMAIN to_agent /\ Bears(to_agent[i]) /\ NumberOf(to_agent[i]) = k

\* What was processed has no gap.
NoGap == seen_above = {} /\ processed = 1..last_status_seq

\* What is in flight is what the world recorded.
Recorded ==
  \A i \in DOMAIN to_agent :
    Bears(to_agent[i]) =>
      NumberOf(to_agent[i]) \in DOMAIN log /\ log[NumberOf(to_agent[i])] = Reported(to_agent[i])

\* Each status comes after the one before it.
Chained ==
  \A i \in DOMAIN to_agent :
    Bears(to_agent[i]) =>
      \/ NumberOf(to_agent[i]) <= Base + 1
      \/ \E j \in 1..(i - 1) : Carries(j, NumberOf(to_agent[i]) - 1)

\* All that the client has not processed is in flight.
Complete == attached => \A k \in (Base + 1)..Len(log) : \E i \in DOMAIN to_agent : Carries(i, k)

\* The answer to a pull says nothing that is not said before it.
Pulled ==
  \A i \in DOMAIN to_agent :
    to_agent[i].kind = "result" /\ to_agent[i].method = "pull" =>
      \/ NumberOf(to_agent[i]) <= Base
      \/ \E j \in 1..(i - 1) : Carries(j, NumberOf(to_agent[i]))

Chain == NoGap /\ Recorded /\ Chained /\ Complete /\ Pulled

-----------------------------------------------------------------------------
(* What the client knows                                                   *)

\* The state of an action once the statuses up to n were issued.
StateAfter(a, n) ==
  IF Newest(a, 1..n) = 0 THEN "submitted" ELSE log[Newest(a, 1..n)].state

\* The world keeps to the lifecycle.
Continues(k) ==
  log[k].about = "action" =>
    LET from == StateAfter(log[k].action, k - 1)
    IN  /\ from \notin Terminal
        /\ from = log[k].state \/ Permitted(from, log[k].state, log[k].reason)

Lawful == \A k \in DOMAIN log : Continues(k)

RecordOf(a, n) ==
  IF Newest(a, 1..n) = 0
    THEN actions[a] \in {None, Submitted}
    ELSE actions[a] = [state |-> log[Newest(a, 1..n)].state, seq |-> Newest(a, 1..n)]

RecordsRight == ready # None => \A a \in ActionIds : RecordOf(a, last_status_seq)

\* The client has the state that the newest status of the session gives it, if it
\* processed that; a frame may have told it that the session is active.
StateRight ==
  attached /\ ready # None =>
    \A k \in 1..last_status_seq :
      Latest(k) => session_state = log[k].state \/ (log[k].state = "ready" /\ session_state = "active")

\* A session the world holds was opened, and is not over.
HeldLog ==
  held # None => log[1] = SessionStatus("ready") /\ \A k \in DOMAIN log : ~ClosedLog(k)

Knows == Lawful /\ RecordsRight /\ StateRight /\ HeldLog /\ NoFalseAccusation /\ SessionHasGrant

\* What holds in an orderly world.
IInv == BInv /\ Phases /\ Chain /\ Knows

-----------------------------------------------------------------------------
(* The newest status of an action                                          *)

Of(a, k) == log[k].about = "action" /\ log[k].action = a

\* k is the newest of the first n statuses about an action, 0 if there is none.
NewestAt(a, n, k) ==
  \/ k = 0 /\ \A j \in 1..n : ~Of(a, j)
  \/ k \in 1..n /\ Of(a, k) /\ \A j \in 1..n : Of(a, j) => j <= k

NewestIsIt == \A a : \A n \in Nat : \A k : NewestAt(a, n, k) <=> k = Newest(a, 1..n)

\* Newest returns it, and nothing else is it.
LEMMA NewestIs == NewestIsIt
<1> SUFFICES ASSUME NEW a, NEW n \in Nat, NEW k PROVE NewestAt(a, n, k) <=> k = Newest(a, 1..n)
  BY DEF NewestIsIt
<1> DEFINE about == {j \in 1..n : log[j].about = "action" /\ log[j].action = a}
           best == CHOOSE j \in about : \A i \in about : i <= j
<1>1. Newest(a, 1..n) = IF about = {} THEN 0 ELSE best
  BY DEF Newest
<1>2. CASE about = {}
  BY <1>1, <1>2 DEF NewestAt, Of
<1>3. CASE about # {}
  <2>1. best \in about /\ \A i \in about : i <= best
    <3>1. \E j \in about : \A i \in about : i <= j
      BY <1>3, GreatestNatural
    <3> QED BY <3>1
  <2> HIDE DEF best
  <2>2. \A j \in about : (\A i \in about : i <= j) <=> j = best
    BY <2>1
  <2>3. NewestAt(a, n, k) <=> k \in about /\ \A i \in about : i <= k
    BY <1>3 DEF NewestAt, Of
  <2> QED BY <1>1, <1>3, <2>1, <2>2, <2>3
<1> QED BY <1>2, <1>3

\* With the next status it is that, or what it was.
NewestGrows(a, n) ==
  Newest(a, 1..(n + 1)) = IF Of(a, n + 1) THEN n + 1 ELSE Newest(a, 1..n)

\* One more status: the newest is it, or what it was.
LEMMA NewestNext == \A a : \A n \in Nat : NewestGrows(a, n)
<1> SUFFICES ASSUME NEW a, NEW n \in Nat PROVE NewestGrows(a, n)
  OBVIOUS
<1>1. NewestAt(a, n, Newest(a, 1..n)) /\ n + 1 \in Nat
  BY NewestIs DEF NewestIsIt
<1>2. NewestAt(a, n + 1, IF Of(a, n + 1) THEN n + 1 ELSE Newest(a, 1..n))
  BY <1>1 DEF NewestAt
<1> QED BY <1>1, <1>2, NewestIs DEF NewestIsIt, NewestGrows

\* What was recorded stays what it was.
Kept(n) == \A k \in 1..n : log'[k] = log[k]

\* The newest of the statuses kept, and the state it gives, are what they were.
LEMMA NewestKept ==
  ASSUME NEW n \in Nat, Kept(n), NEW a
  PROVE  /\ Newest(a, 1..n)' = Newest(a, 1..n)
         /\ StateAfter(a, n)' = StateAfter(a, n)
<1>1. NewestAt(a, n, Newest(a, 1..n)) /\ Newest(a, 1..n) \in Nat
  <2>1. NewestAt(a, n, Newest(a, 1..n))
    BY NewestIs DEF NewestIsIt
  <2> QED BY <2>1 DEF NewestAt
<1>2. PICK k \in Nat : k = Newest(a, 1..n) /\ NewestAt(a, n, k)
  BY <1>1
<1>3. NewestAt(a, n, k)'
  BY <1>2 DEF NewestAt, Of, Kept
<1>4. NewestIsIt'
  BY NewestIs, PTL
<1>5. k = Newest(a, 1..n)'
  BY <1>3, <1>4 DEF NewestIsIt
<1>6. k # 0 => k \in 1..n
  BY <1>2 DEF NewestAt
<1>7. k # 0 => log'[k] = log[k]
  BY <1>6 DEF Kept
<1> QED BY <1>2, <1>5, <1>7 DEF StateAfter

\* How the world sees an action is what its log says.
LEMMA WorldStateIs ==
  ASSUME Typed, NEW a
  PROVE  WorldState(a) = StateAfter(a, Len(log)) /\ Len(log) \in Nat /\ DOMAIN log = 1..Len(log)
<1>1. DOMAIN log = 1..Len(log) /\ Len(log) \in Nat
  BY Elements DEF Typed
<1> QED BY <1>1 DEF WorldState, StateAfter

-----------------------------------------------------------------------------
(* What the phases say of the connection                                   *)

\* No status comes first but in a session.
LEMMA HeadBears ==
  ASSUME Phases, 1 \in DOMAIN to_agent, Bears(to_agent[1]), DOMAIN to_agent \subseteq Nat \ {0}
  PROVE  ready # None
<1> SUFFICES ASSUME ready = None PROVE FALSE
  OBVIOUS
<1>1. PICK i \in DOMAIN to_agent : IsOpened(to_agent[i])
  BY DEF Phases, Outside, Quiet, Opening
<1>2. i \in Nat /\ i > 0 /\ ~Bears(to_agent[i])
  BY <1>1 DEF IsOpened, Bears, Reporting
<1>3. i # 1 /\ 1 \in 1..(i - 1)
  BY <1>2
<1> QED BY <1>1, <1>3 DEF Phases, Opened, OpenedAt

\* While the client is in a session, none is opened.
LEMMA NoneOpened ==
  ASSUME Phases, ready # None
  PROVE  /\ ~Opening
         /\ \A i \in DOMAIN to_agent : ~IsOpened(to_agent[i])
         /\ \A i \in DOMAIN to_world : to_world[i].method # "open"
BY DEF Phases, Opened, OpenedAt, Opening, Asking

\* As long as there are requests, the same holds of a session being opened.
LEMMA NoneOpening ==
  ASSUME Phases, to_world # <<>>
  PROVE  ~Opening /\ \A i \in DOMAIN to_agent : ~IsOpened(to_agent[i])
BY DEF Phases, Opened, OpenedAt, Opening

\* While the world answers requests of the session it is attached to, the client is in it,
\* and no end of it is in flight.
LEMMA AttachedInside ==
  ASSUME Phases, to_world # <<>>, attached
  PROVE  /\ ready # None
         /\ \A i \in DOMAIN to_world : to_world[i].method \notin {"open", "resume"}
         /\ \A i \in DOMAIN to_agent : ~IsOpened(to_agent[i]) /\ ~IsClosed(to_agent[i])
<1>1. ready # None
  BY NoneOpening DEF Phases, Outside
<1> QED BY <1>1, NoneOpened DEF Phases, Resumption, ResumeAt, Ending

\* The record of an action that the client has processed a status of.
LEMMA RecordIs ==
  ASSUME Typed, Phases, RecordsRight, ready # None, NEW a \in ActionIds, Newest(a, 1..last_status_seq) # 0
  PROVE  LET k == Newest(a, 1..last_status_seq)
         IN  /\ k \in 1..last_status_seq /\ k \in DOMAIN log /\ Of(a, k)
             /\ actions[a] # None /\ actions[a].state = log[k].state /\ actions[a].seq = k
             /\ log[k].state # "submitted"
<1> DEFINE k == Newest(a, 1..last_status_seq)
<1>1. last_status_seq \in Nat /\ last_status_seq <= Len(log) /\ Len(log) \in Nat /\ DOMAIN log = 1..Len(log)
  BY SMTT(20), Elements, Bounds DEF Typed, Status!TypeOK, Phases, Inside
<1>2. k \in 1..last_status_seq /\ Of(a, k)
  <2>1. NewestAt(a, last_status_seq, k)
    BY <1>1, NewestIs DEF NewestIsIt
  <2> QED BY <2>1 DEF NewestAt
<1>3. actions[a] = [state |-> log[k].state, seq |-> k]
  BY DEF RecordsRight, RecordOf
<1> HIDE DEF k
<1>4. k \in DOMAIN log /\ k \in Nat
  BY <1>1, <1>2
<1>5. StatusOK(log[k]) /\ log[k].about = "action"
  BY <1>2, <1>4 DEF Typed, Of
<1>6. log[k].state \in ActionState \ {"submitted"}
  BY <1>5 DEF StatusOK
<1>7. [state |-> log[k].state, seq |-> k] \in [state : ActionState, seq : Nat]
  BY <1>4, <1>6
<1> QED BY <1>2, <1>3, <1>4, <1>6, <1>7, SessionAssumption DEF k

\* The lifecycle is kept to as long as what was recorded stays.
LEMMA ContinuesKept ==
  ASSUME NEW k \in Nat \ {0}, Kept(k)
  PROVE  Continues(k)' <=> Continues(k)
<1>1. log'[k] = log[k] /\ k - 1 \in Nat /\ Kept(k - 1)
  BY DEF Kept
<1> DEFINE from == StateAfter(log[k].action, k - 1)
<1>2. StateAfter(log[k].action, k - 1)' = from
  <2>1. PICK a : a = log[k].action
    OBVIOUS
  <2>2. StateAfter(a, k - 1)' = StateAfter(a, k - 1)
    BY <1>1, NewestKept
  <2> QED BY <1>1, <2>1, <2>2
<1> QED BY <1>1, <1>2 DEF Continues

\* With the same log the lifecycle is kept to.
LEMMA SameLog ==
  ASSUME Typed, UNCHANGED log
  PROVE  Lawful' <=> Lawful
<1>1. DOMAIN log = 1..Len(log)
  BY Elements DEF Typed
<1>2. ASSUME NEW k \in DOMAIN log PROVE Continues(k)' <=> Continues(k)
  <2>1. k \in Nat \ {0} /\ Kept(k)
    BY <1>1 DEF Kept
  <2> QED BY <2>1, ContinuesKept
<1> QED BY <1>2 DEF Lawful

-----------------------------------------------------------------------------
(* The chain, as messages come and go                                      *)

\* What is sent continues the chain: its i-th message is recorded, comes after the status
\* before its own, and if it answers a pull then after its own.
Follows(ms, i) ==
  /\ Bears(ms[i]) =>
       /\ NumberOf(ms[i]) \in DOMAIN log' /\ log'[NumberOf(ms[i])] = Reported(ms[i])
       /\ \/ NumberOf(ms[i]) <= Base + 1
          \/ \E j \in DOMAIN to_agent : Carries(j, NumberOf(ms[i]) - 1)
          \/ \E j \in 1..(i - 1) : Bears(ms[j]) /\ NumberOf(ms[j]) = NumberOf(ms[i]) - 1
  /\ ms[i].kind = "result" /\ ms[i].method = "pull" =>
       \/ NumberOf(ms[i]) <= Base
       \/ \E j \in DOMAIN to_agent : Carries(j, NumberOf(ms[i]))

Appends(ms) ==
  /\ Grown(to_agent, to_agent', ms)
  /\ \A i \in 1..Len(ms) : Follows(ms, i)
  /\ Quiet \/ \A k \in DOMAIN log : k \in DOMAIN log' /\ log'[k] = log[k]
  /\ UNCHANGED <<ready, last_status_seq, seen_above, processed>>

\* The chain holds as the world sends messages whose statuses follow it.
LEMMA ChainGrows ==
  ASSUME Chain, NEW ms, Appends(ms)
  PROVE  NoGap' /\ Recorded' /\ Chained' /\ Pulled'
<1> DEFINE n == Len(to_agent)
<1>1. /\ n \in Nat /\ DOMAIN to_agent = 1..n
      /\ \A i \in DOMAIN to_agent : i \in DOMAIN to_agent' /\ to_agent'[i] = to_agent[i] /\ i \in 1..n
      /\ \A i \in 1..Len(ms) : n + i \in DOMAIN to_agent' /\ to_agent'[n + i] = ms[i]
      /\ \A i \in DOMAIN to_agent' : i \in Nat
      /\ \A i \in DOMAIN to_agent' : i \in DOMAIN to_agent \/ (i - n \in 1..Len(ms) /\ to_agent'[i] = ms[i - n])
  BY DEF Appends, Grown
<1> HIDE DEF n
<1>2. Base' = Base /\ NoGap'
  BY DEF Appends, Chain, NoGap, Base
<1>3. \A j, k : Carries(j, k) => Carries(j, k)'
  BY <1>1 DEF Carries
<1>4. Recorded'
  <2> SUFFICES ASSUME NEW i \in DOMAIN to_agent', Bears(to_agent'[i])
               PROVE  /\ NumberOf(to_agent'[i]) \in DOMAIN log'
                      /\ log'[NumberOf(to_agent'[i])] = Reported(to_agent'[i])
    BY DEF Recorded
  <2>1. CASE i \in DOMAIN to_agent
    BY <1>1, <2>1 DEF Appends, Chain, Recorded, Quiet
  <2>2. CASE i - n \in 1..Len(ms) /\ to_agent'[i] = ms[i - n]
    BY <2>2 DEF Appends, Follows
  <2> QED BY <1>1, <2>1, <2>2
<1>5. Chained'
  <2> SUFFICES ASSUME NEW i \in DOMAIN to_agent', Bears(to_agent'[i]), ~(NumberOf(to_agent'[i]) <= Base + 1)
               PROVE  \E j \in 1..(i - 1) : Carries(j, NumberOf(to_agent[i]) - 1)'
    BY <1>2 DEF Chained, Carries
  <2>1. CASE i \in DOMAIN to_agent
    <3>1. PICK j \in 1..(i - 1) : Carries(j, NumberOf(to_agent[i]) - 1)
      BY <1>1, <2>1 DEF Chain, Chained
    <3> QED BY <1>1, <1>3, <2>1, <3>1
  <2>2. CASE i - n \in 1..Len(ms) /\ to_agent'[i] = ms[i - n]
    <3>1. Follows(ms, i - n)
      BY <2>2 DEF Appends
    <3>2. CASE \E j \in DOMAIN to_agent : Carries(j, NumberOf(ms[i - n]) - 1)
      <4>1. PICK j \in DOMAIN to_agent : Carries(j, NumberOf(ms[i - n]) - 1)
        BY <3>2
      <4>2. j \in 1..(i - 1)
        BY <1>1, <2>2
      <4> QED BY <1>3, <2>2, <4>1, <4>2
    <3>3. CASE \E j \in 1..(i - n - 1) : Bears(ms[j]) /\ NumberOf(ms[j]) = NumberOf(ms[i - n]) - 1
      <4>1. PICK j \in 1..(i - n - 1) : Bears(ms[j]) /\ NumberOf(ms[j]) = NumberOf(ms[i - n]) - 1
        BY <3>3
      <4>2. PICK p : p = n + j
        OBVIOUS
      <4>3. p \in 1..(i - 1) /\ j \in 1..Len(ms)
        BY <1>1, <2>2, <4>2, <4>1
      <4>4. Carries(p, NumberOf(to_agent[i]) - 1)'
        BY <1>1, <2>2, <4>1, <4>2, <4>3 DEF Carries
      <4> QED BY <4>3, <4>4
    <3> QED BY <2>2, <3>1, <3>2, <3>3 DEF Follows
  <2> QED BY <1>1, <2>1, <2>2
<1>6. Pulled'
  <2> SUFFICES ASSUME NEW i \in DOMAIN to_agent', to_agent'[i].kind = "result", to_agent'[i].method = "pull",
                      ~(NumberOf(to_agent'[i]) <= Base)
               PROVE  \E j \in 1..(i - 1) : Carries(j, NumberOf(to_agent[i]))'
    BY <1>2 DEF Pulled, Carries
  <2>1. CASE i \in DOMAIN to_agent
    <3>1. PICK j \in 1..(i - 1) : Carries(j, NumberOf(to_agent[i]))
      BY <1>1, <2>1 DEF Chain, Pulled
    <3> QED BY <1>1, <1>3, <2>1, <3>1
  <2>2. CASE i - n \in 1..Len(ms) /\ to_agent'[i] = ms[i - n]
    <3>1. PICK j \in DOMAIN to_agent : Carries(j, NumberOf(ms[i - n]))
      BY <2>2 DEF Appends, Follows
    <3>2. j \in 1..(i - 1)
      BY <1>1, <2>2
    <3> QED BY <1>3, <2>2, <3>1, <3>2
  <2> QED BY <1>1, <2>1, <2>2
<1> QED BY <1>2, <1>4, <1>5, <1>6

\* The first message is taken, and processed if it carries a status.
LEMMA ChainShrinks ==
  ASSUME Chain, Shrunk(to_agent, to_agent'), UNCHANGED <<log, attached>>,
         Base \in Nat, NEW b \in Nat, Base' = b, Len(log) \in Nat,
         \A i \in DOMAIN to_agent : Bears(to_agent[i]) => NumberOf(to_agent[i]) \in Nat,
         \/ Base <= b /\ (Bears(Head(to_agent)) => NumberOf(Head(to_agent)) <= b)
         \/ ~attached /\ Quiet'
  PROVE  Recorded' /\ Chained' /\ Complete' /\ Pulled'
<1>1. /\ \A i \in DOMAIN to_agent' : i \in Nat /\ i > 0 /\ i + 1 \in DOMAIN to_agent /\ to_agent'[i] = to_agent[i + 1]
      /\ \A i \in DOMAIN to_agent : i \in Nat /\ (i = 1 \/ (i - 1 \in DOMAIN to_agent' /\ to_agent'[i - 1] = to_agent[i]))
      /\ 1 \in DOMAIN to_agent /\ to_agent[1] = Head(to_agent)
  BY DEF Shrunk
<1>2. Recorded'
  <2> SUFFICES ASSUME NEW i \in DOMAIN to_agent', Bears(to_agent'[i])
               PROVE  /\ NumberOf(to_agent'[i]) \in DOMAIN log'
                      /\ log'[NumberOf(to_agent'[i])] = Reported(to_agent'[i])
    BY DEF Recorded
  <2>1. i + 1 \in DOMAIN to_agent /\ to_agent'[i] = to_agent[i + 1]
    BY <1>1
  <2> QED BY <2>1 DEF Chain, Recorded
<1>3. CASE ~attached /\ Quiet'
  <2>1. \A i \in DOMAIN to_agent' : ~Bears(to_agent'[i])
    BY <1>3 DEF Quiet
  <2>2. \A i \in DOMAIN to_agent' : ~(to_agent'[i].kind = "result" /\ to_agent'[i].method = "pull")
    BY <2>1 DEF Bears, Reporting
  <2> QED BY <1>2, <1>3, <2>1, <2>2 DEF Chained, Complete, Pulled
<1>4. CASE Base <= b /\ (Bears(Head(to_agent)) => NumberOf(Head(to_agent)) <= b)
  <2>1. \A i \in Nat : \A k : Carries(i + 1, k) /\ i > 0 => Carries(i, k)'
    <3> SUFFICES ASSUME NEW i \in Nat, NEW k, Carries(i + 1, k), i > 0 PROVE Carries(i, k)'
      OBVIOUS
    <3>1. i + 1 \in DOMAIN to_agent /\ i + 1 # 1 /\ (i + 1) - 1 = i
      BY DEF Carries
    <3> QED BY <1>1, <3>1 DEF Carries
  <2>2. \A k : Carries(1, k) => k <= b
    BY <1>1, <1>4 DEF Carries
  <2>3. ASSUME NEW i \in DOMAIN to_agent', NEW k \in Nat, k > b, \E j \in 1..i : Carries(j, k)
        PROVE  \E j \in 1..(i - 1) : Carries(j, k)'
    <3>1. PICK j \in 1..i : Carries(j, k)
      BY <2>3
    <3>2. i \in Nat
      BY <1>1
    <3>3. j # 1
      BY <2>2, <2>3, <3>1
    <3>4. PICK p \in Nat : p + 1 = j /\ p > 0 /\ p \in 1..(i - 1)
      <4>1. j - 1 \in Nat /\ (j - 1) + 1 = j /\ j - 1 > 0 /\ j - 1 \in 1..(i - 1)
        BY <3>2, <3>3
      <4> QED BY <4>1
    <3> QED BY <2>1, <3>1, <3>4
  <2>4. Chained'
    <3> SUFFICES ASSUME NEW i \in DOMAIN to_agent', Bears(to_agent'[i]), ~(NumberOf(to_agent'[i]) <= b + 1)
                 PROVE  \E j \in 1..(i - 1) : Carries(j, NumberOf(to_agent[i]) - 1)'
      BY DEF Chained, Carries
    <3>1. i + 1 \in DOMAIN to_agent /\ to_agent'[i] = to_agent[i + 1] /\ i \in Nat /\ (i + 1) - 1 = i
      BY <1>1
    <3>2. PICK k \in Nat : k = NumberOf(to_agent'[i]) - 1 /\ k > b
      <4>1. NumberOf(to_agent'[i]) \in Nat
        BY <3>1
      <4> QED BY <4>1
    <3>3. \E j \in 1..i : Carries(j, k)
      <4>1. NumberOf(to_agent[i + 1]) \in Nat /\ k = NumberOf(to_agent[i + 1]) - 1
        BY <3>1, <3>2
      <4>2. ~(NumberOf(to_agent[i + 1]) <= Base + 1)
        BY <1>4, <3>2, <4>1
      <4> QED BY <3>1, <4>1, <4>2 DEF Chain, Chained
    <3> QED BY <2>3, <3>2, <3>3
  <2>5. Pulled'
    <3> SUFFICES ASSUME NEW i \in DOMAIN to_agent', to_agent'[i].kind = "result", to_agent'[i].method = "pull",
                        ~(NumberOf(to_agent'[i]) <= b)
                 PROVE  \E j \in 1..(i - 1) : Carries(j, NumberOf(to_agent[i]))'
      BY DEF Pulled, Carries
    <3>1. i + 1 \in DOMAIN to_agent /\ to_agent'[i] = to_agent[i + 1] /\ i \in Nat /\ (i + 1) - 1 = i
      BY <1>1
    <3>2. PICK k \in Nat : k = NumberOf(to_agent'[i]) /\ k > b
      <4>1. NumberOf(to_agent'[i]) \in Nat
        BY <3>1 DEF Bears, Reporting
      <4> QED BY <4>1
    <3>3. \E j \in 1..i : Carries(j, k)
      <4>1. ~(NumberOf(to_agent[i + 1]) <= Base) /\ k = NumberOf(to_agent[i + 1])
        BY <1>4, <3>1, <3>2
      <4> QED BY <3>1, <4>1 DEF Chain, Pulled
    <3> QED BY <2>3, <3>2, <3>3
  <2>6. Complete'
    <3> SUFFICES ASSUME NEW k \in Nat, attached, k \in (b + 1)..Len(log)
                 PROVE  \E i \in DOMAIN to_agent' : Carries(i, k)'
      BY DEF Complete, Carries
    <3>1. k \in (Base + 1)..Len(log) /\ ~(k <= b)
      BY <1>4
    <3>2. PICK i \in DOMAIN to_agent : Carries(i, k)
      BY <3>1 DEF Chain, Complete
    <3>3. i # 1
      BY <2>2, <3>1, <3>2
    <3>4. PICK p \in Nat : p + 1 = i /\ p > 0
      <4>1. i - 1 \in Nat /\ (i - 1) + 1 = i /\ i - 1 > 0
        BY <1>1, <3>3
      <4> QED BY <4>1
    <3>5. Carries(p, k)'
      BY <2>1, <3>2, <3>4
    <3> QED BY <3>5 DEF Carries
  <2> QED BY <1>2, <2>4, <2>5, <2>6
<1> QED BY <1>3, <1>4

-----------------------------------------------------------------------------
(* The client sends a request                                              *)

\* A request keeps the phases: a session is opened outside of one only, and resumed from
\* the ack point on a connection that was not used for one (open_session, resume).
LEMMA SendPhases ==
  ASSUME Orderly, Typed, OneResume, Phases, SessionHasGrant, NEW r, SendOf(r)
  PROVE  Phases'
<1> DEFINE n == Len(to_world) + 1
<1>1. Grown(to_world, to_world', <<r>>) /\ <<r>>[1] = r /\ Len(<<r>>) = 1
  BY Sent, Few DEF Typed, SendOf
<1>2. /\ \A i \in DOMAIN to_world' : \/ i \in DOMAIN to_world /\ to_world'[i] = to_world[i]
                                     \/ i = n /\ to_world'[i] = r
      /\ Len(to_world') = n
  BY <1>1, Few DEF Grown, Typed, IsSeq
<1>3. UNCHANGED <<session_state, ready, accused, dropped, to_agent, held, attached, log, discarded, losses, last_status_seq>>
  BY DEF SendOf
<1>4. (Quiet' <=> Quiet) /\ (Opening' <=> Opening)
  BY <1>3 DEF Quiet, Opening
<1>5. r.method # "open" => ready # None
  BY DEF SendOf
<1>6. r.method = "open" => ready = None /\ ~Opening /\ \A i \in DOMAIN to_world : to_world[i].method # "open"
  <2> SUFFICES ASSUME r.method = "open"
               PROVE  ready = None /\ ~Opening /\ \A i \in DOMAIN to_world : to_world[i].method # "open"
    OBVIOUS
  <2>1. ready = None /\ ~Unanswered("open")
    BY DEF SendOf, Orderly
  <2>2. /\ \A i \in DOMAIN to_world : to_world[i] \in Range(to_world)
        /\ \A i \in DOMAIN to_agent : to_agent[i] \in Range(to_agent)
    BY DEF Range
  <2> QED BY <2>1, <2>2 DEF Unanswered, Opening, IsOpened
<1>7. Asking'
  <2> SUFFICES ASSUME NEW i \in DOMAIN to_world', to_world'[i].method = "open"
               PROVE  i = n /\ ready = None /\ ~attached /\ Quiet /\ ~Opening
    BY <1>2, <1>3, <1>4 DEF Asking
  <2>1. r.method = "open"
    <3>1. CASE i \in DOMAIN to_world /\ to_world'[i] = to_world[i]
      BY <1>5, <3>1 DEF Phases, Asking
    <3> QED BY <1>2, <3>1
  <2>2. ready = None /\ ~Opening /\ \A j \in DOMAIN to_world : to_world[j].method # "open"
    BY <1>6, <2>1
  <2>3. ~attached /\ Quiet
    BY <2>2 DEF Phases, Outside
  <2> QED BY <1>2, <2>2, <2>3
<1>8. Opened'
  <2>1. \A i \in DOMAIN to_agent : ~IsOpened(to_agent[i])
    BY <1>5, <1>6 DEF Opening, Phases, Opened, OpenedAt
  <2> QED BY <1>3, <2>1 DEF Opened
<1>9. Outside'
  BY <1>3, <1>4 DEF Phases, Outside
<1>10. Inside'
  <2> SUFFICES ASSUME ready # None PROVE Inside'
    BY <1>3 DEF Inside
  <2>1. \A i \in DOMAIN to_world' : to_world'[i].method = "ping" => to_world'[i].ack <= last_status_seq
    <3>1. r.method = "ping" => r.ack = last_status_seq /\ last_status_seq <= last_status_seq
      BY Bounds DEF SendOf, Typed, Status!TypeOK
    <3> QED BY <1>2, <3>1 DEF Phases, Inside
  <2> QED BY <1>3, <2>1 DEF Phases, Inside, ClosedLog
<1>11. Resumption'
  <2>1. \A i \in DOMAIN to_world : to_world[i].method = "resume" => ResumeAt(i)
    BY DEF Phases, Resumption
  <2>2. \A i \in DOMAIN to_agent : IsResumed(to_agent[i]) => ResumedAt(i)
    BY DEF Phases, Resumption
  <2>3. CASE r.method = "resume"
    <3>1. /\ connection = "new" /\ ready # None /\ session_state = "suspended"
          /\ r.session = ready /\ r.ack = last_status_seq
      BY <2>3 DEF SendOf
    <3>2. \A i \in DOMAIN to_agent : ~IsResumed(to_agent[i])
      BY <2>2, <3>1 DEF ResumedAt
    <3>3. ~attached /\ Quiet
      BY <3>1 DEF Phases, Unused
    <3>4. \A i \in DOMAIN to_world' : to_world'[i].method = "resume" => ResumeAt(i)'
      BY <1>2, <1>3, <1>4, <2>1, <3>1, <3>2, <3>3 DEF ResumeAt
    <3> QED BY <1>3, <3>2, <3>4 DEF Resumption
  <2>4. CASE r.method # "resume"
    <3>1. connection' = connection /\ (Resuming' => Resuming)
      BY <1>2, <2>4 DEF SendOf, Resuming
    <3>2. \A i \in DOMAIN to_world' : to_world'[i].method = "resume" => ResumeAt(i)'
      BY <1>2, <1>3, <1>4, <2>1, <2>4 DEF ResumeAt
    <3>3. \A i \in DOMAIN to_agent' : IsResumed(to_agent'[i]) => ResumedAt(i)'
      BY <1>3, <1>4, <2>2, <3>1 DEF ResumedAt
    <3> QED BY <3>2, <3>3 DEF Resumption
  <2> QED BY <2>3, <2>4
<1>12. Unused'
  BY <1>3, <1>4 DEF SendOf, Phases, Unused
<1>13. Ending'
  <2>1. connection' # "closing"
    BY DEF SendOf
  <2> QED BY <1>3, <2>1 DEF Phases, Ending
<1> QED BY <1>7, <1>8, <1>9, <1>10, <1>11, <1>12, <1>13 DEF Phases

\* It changes nothing of the chain, and a submission adds an empty record.
LEMMA SendRest ==
  ASSUME Typed, Phases, Chain, Knows, NEW r, SendOf(r)
  PROVE  Chain' /\ Knows'
<1>1. /\ UNCHANGED <<session_state, ready, accused, to_agent, held, attached, log>>
      /\ UNCHANGED <<last_status_seq, seen_above, processed>>
  BY DEF SendOf
<1>2. Chain'
  BY <1>1 DEF Chain, NoGap, Recorded, Chained, Complete, Pulled, Base, Carries
<1>3. Lawful'
  BY <1>1, SameLog DEF Knows
<1>4. RecordsRight'
  <2> SUFFICES ASSUME ready # None, NEW a \in ActionIds PROVE RecordOf(a, last_status_seq)'
    BY <1>1 DEF RecordsRight
  <2>1. RecordOf(a, last_status_seq)
    BY DEF Knows, RecordsRight
  <2>2. actions'[a] = actions[a] \/ (actions[a] = None /\ actions'[a] = Submitted)
    BY DEF SendOf
  <2>3. Newest(a, 1..last_status_seq)' = Newest(a, 1..last_status_seq)
    BY <1>1 DEF Newest
  <2>4. actions[a] # None \/ Newest(a, 1..last_status_seq) = 0
    BY RecordIs DEF Knows, RecordsRight
  <2> QED BY <1>1, <2>1, <2>2, <2>3, <2>4 DEF RecordOf
<1>5. StateRight' /\ HeldLog' /\ NoFalseAccusation' /\ SessionHasGrant'
  BY <1>1 DEF Knows, StateRight, HeldLog, NoFalseAccusation, SessionHasGrant, Latest, About, ClosedLog
<1> QED BY <1>2, <1>3, <1>4, <1>5 DEF Knows

-----------------------------------------------------------------------------
(* The client takes a message                                              *)

\* It processes the next status,
Progresses ==
  /\ Bears(Head(to_agent)) /\ ready # None
  /\ NumberOf(Head(to_agent)) = last_status_seq + 1
  /\ last_status_seq' = last_status_seq + 1 /\ seen_above' = {} /\ processed' = 1..(last_status_seq + 1)
  /\ accused' = FALSE
  /\ LET s == Reported(Head(to_agent))
     IN  \/ /\ s.about = "action" /\ s.action \in ActionIds
            /\ actions' = [actions EXCEPT ![s.action] = [state |-> s.state, seq |-> last_status_seq + 1]]
            /\ UNCHANGED <<session_state, ready>>
         \/ /\ s.about = "session" /\ session_state' = s.state /\ UNCHANGED actions
            /\ ready' = IF s.state = "closed" THEN None ELSE ready
         \/ s.about = "event" /\ UNCHANGED <<session_state, ready, actions>>

\* or learns of nothing but that a submission was refused,
Disregards ==
  /\ ~IsOpened(Head(to_agent))
  /\ Bears(Head(to_agent)) => ready # None /\ NumberOf(Head(to_agent)) <= last_status_seq
  /\ UNCHANGED <<session_state, ready, last_status_seq, seen_above, processed, accused>>
  /\ \A a \in ActionIds : actions'[a] = actions[a] \/ (RecordState(a) = "submitted" /\ actions'[a] = None)

\* or that it has a session, or has lost it, or has closed it.
Begins ==
  /\ IsOpened(Head(to_agent)) /\ ready' = Head(to_agent).body /\ session_state' = "ready"
  /\ last_status_seq' = 0 /\ seen_above' = {} /\ processed' = {}
  /\ actions' = [a \in ActionIds |-> None] /\ UNCHANGED accused

Loses ==
  /\ Head(to_agent).kind = "error" /\ Head(to_agent).method = "resume"
  /\ ready' = None /\ session_state' = "closed"
  /\ last_status_seq' = 0 /\ seen_above' = {} /\ processed' = {}
  /\ actions' = [a \in ActionIds |-> None] /\ UNCHANGED accused

Ends ==
  /\ IsCloseResult(Head(to_agent)) /\ ready = None /\ ready' = None /\ session_state' = "closed"
  /\ UNCHANGED <<actions, last_status_seq, seen_above, processed, accused>>

Took == Progresses \/ Disregards \/ Begins \/ Loses \/ Ends

\* A status that comes first is the next one or an old one.
HeadIs ==
  /\ ready # None /\ NumberOf(Head(to_agent)) \in Nat /\ last_status_seq \in Nat
  /\ NumberOf(Head(to_agent)) <= last_status_seq + 1
  /\ NumberOf(Head(to_agent)) \in DOMAIN log /\ log[NumberOf(Head(to_agent))] = Reported(Head(to_agent))
  /\ Status!Fresh(NumberOf(Head(to_agent))) <=> NumberOf(Head(to_agent)) = last_status_seq + 1
  /\ Head(to_agent).kind = "result" /\ Head(to_agent).method = "pull" =>
       NumberOf(Head(to_agent)) <= last_status_seq

\* So it is: the chain leaves nothing else.
LEMMA HeadIsNext ==
  ASSUME Typed, Phases, Chain, to_agent # <<>>, Bears(Head(to_agent))
  PROVE  HeadIs
<1> DEFINE m == Head(to_agent)
<1>1. Shrunk(to_agent, Tail(to_agent))
  BY Taken DEF Typed
<1>2. 1 \in DOMAIN to_agent /\ to_agent[1] = m /\ DOMAIN to_agent \subseteq Nat \ {0}
  BY <1>1 DEF Shrunk
<1> HIDE DEF m
<1>3. ready # None
  BY <1>2, HeadBears DEF m
<1>4. NumberOf(m) \in Nat /\ last_status_seq \in Nat
  BY <1>2, Bounds DEF Typed, MessageOK, Status!TypeOK, m
<1>5. \A j \in 1..(1 - 1) : FALSE
  OBVIOUS
<1>6. NumberOf(m) <= last_status_seq + 1
  BY <1>2, <1>3, <1>5 DEF Chain, Chained, Base, m
<1>7. NumberOf(m) \in DOMAIN log /\ log[NumberOf(m)] = Reported(m)
  BY <1>2 DEF Chain, Recorded, m
<1>8. Status!Fresh(NumberOf(m)) <=> NumberOf(m) = last_status_seq + 1
  BY <1>4, <1>6 DEF Status!Fresh, Chain, NoGap
<1>9. m.kind = "result" /\ m.method = "pull" => NumberOf(m) <= last_status_seq
  BY <1>2, <1>3, <1>5 DEF Chain, Pulled, Base
<1> QED BY <1>3, <1>4, <1>6, <1>7, <1>8, <1>9 DEF HeadIs, m

\* Where there is no gap, the ack point moves by one.
LEMMA ProcessNext ==
  ASSUME Typed, NoGap, NEW seq, Status!Process(seq), seq = last_status_seq + 1
  PROVE  last_status_seq' = last_status_seq + 1 /\ seen_above' = {} /\ processed' = 1..(last_status_seq + 1)
<1>1. last_status_seq \in Nat /\ MaxSeq \in Nat
  BY Bounds DEF Typed, Status!TypeOK
<1>2. PICK n \in seq..MaxSeq : /\ (seq + 1)..n \subseteq {} /\ last_status_seq' = n
                               /\ seen_above' = {} \ ((seq + 1)..n)
  BY DEF Status!Process, Status!Sequence, Status!Gap, Status!InOrder, NoGap
<1>3. n = seq
  <2>1. CASE n > seq
    <3>1. seq + 1 \in (seq + 1)..n
      BY <1>1, <2>1
    <3> QED BY <1>2, <3>1
  <2>2. CASE ~(n > seq)
    BY <1>1, <2>2
  <2> QED BY <2>1, <2>2
<1>4. processed' = processed \union {seq}
  BY DEF Status!Process, Status!Sequence
<1>5. (1..last_status_seq) \union {last_status_seq + 1} = 1..(last_status_seq + 1)
  BY <1>1
<1> QED BY <1>2, <1>3, <1>4, <1>5 DEF NoGap

\* The next status of an action is one the lifecycle permits after its record.
LEMMA RecordLawful ==
  ASSUME Typed, Phases, Lawful, RecordsRight, ready # None, last_status_seq + 1 \in DOMAIN log,
         log[last_status_seq + 1].about = "action"
  PROVE  ~BreaksLifecycle(log[last_status_seq + 1])
<1> DEFINE s == log[last_status_seq + 1]
           a == s.action
<1>1. last_status_seq \in Nat /\ (last_status_seq + 1) - 1 = last_status_seq
  BY Bounds DEF Typed, Status!TypeOK
<1>2. a \in ActionIds
  BY DEF Typed, StatusOK
<1>3. RecordState(a) = StateAfter(a, last_status_seq)
  <2>1. CASE Newest(a, 1..last_status_seq) = 0
    <3>1. Submitted.state = "submitted" /\ Submitted # None
      BY RecordTypes DEF Submitted
    <3>2. actions[a] \in {None, Submitted}
      BY <1>2, <2>1 DEF RecordsRight, RecordOf
    <3> QED BY <2>1, <3>1, <3>2 DEF RecordState, StateAfter
  <2>2. CASE Newest(a, 1..last_status_seq) # 0
    BY <1>2, <2>2, RecordIs DEF RecordState, StateAfter
  <2> QED BY <2>1, <2>2
<1>4. LET from == StateAfter(a, last_status_seq)
      IN  from \notin Terminal /\ (from = s.state \/ Permitted(from, s.state, s.reason))
  BY <1>1 DEF Lawful, Continues
<1> QED BY <1>3, <1>4 DEF BreaksLifecycle

\* A status of an action, applied.
LEMMA ApplyProgresses ==
  ASSUME Typed, Phases, Chain, Lawful, RecordsRight, NoFalseAccusation, to_agent # <<>>, Bears(Head(to_agent)),
         Reported(Head(to_agent)).about = "action",
         ApplyStatus(NumberOf(Head(to_agent)), Reported(Head(to_agent)))
  PROVE  Progresses
<1> DEFINE m == Head(to_agent)
           s == Reported(m)
<1>1. HeadIs
  BY HeadIsNext
<1>2. Status!Process(NumberOf(m))
  BY DEF ApplyStatus
<1>3. NumberOf(m) = last_status_seq + 1
  BY <1>1, <1>2 DEF HeadIs, Status!Process, Status!Sequence
<1>4. last_status_seq' = last_status_seq + 1 /\ seen_above' = {} /\ processed' = 1..(last_status_seq + 1)
  BY <1>2, <1>3, ProcessNext DEF Chain
<1>5. last_status_seq + 1 \in DOMAIN log /\ log[last_status_seq + 1] = s /\ ready # None
  BY <1>1, <1>3 DEF HeadIs
<1>6. ~BreaksLifecycle(s)
  BY <1>5, RecordLawful
<1>7. ~IsGap(NumberOf(m))
  BY <1>3 DEF IsGap
<1>8. accused' = FALSE
  BY <1>6, <1>7, Zenon DEF ApplyStatus, Accuse, NoFalseAccusation
<1>9. s.action \in ActionIds
  BY <1>5 DEF Typed, StatusOK
<1> QED BY <1>3, <1>4, <1>5, <1>8, <1>9 DEF ApplyStatus, Progresses

\* The session's state and an event, likewise.
LEMMA OtherProgresses ==
  ASSUME Typed, Phases, Chain, NoFalseAccusation, to_agent # <<>>, Bears(Head(to_agent)),
         LET s == Reported(Head(to_agent))
             seq == NumberOf(Head(to_agent))
         IN  \/ s.about = "session" /\ ApplySessionState(seq, s)
             \/ s.about = "event" /\ ApplyEvent(seq)
  PROVE  Progresses
<1> DEFINE m == Head(to_agent)
           s == Reported(m)
<1>1. HeadIs
  BY HeadIsNext
<1>2. Status!Process(NumberOf(m))
  BY DEF ApplySessionState, ApplyEvent
<1>3. NumberOf(m) = last_status_seq + 1
  BY <1>1, <1>2 DEF HeadIs, Status!Process, Status!Sequence
<1>4. last_status_seq' = last_status_seq + 1 /\ seen_above' = {} /\ processed' = 1..(last_status_seq + 1)
  BY <1>2, <1>3, ProcessNext DEF Chain
<1>5. ~IsGap(NumberOf(m))
  BY <1>3 DEF IsGap
<1>6. accused' = FALSE
  BY <1>5, Zenon DEF ApplySessionState, ApplyEvent, Accuse, NoFalseAccusation
<1> QED BY <1>1, <1>3, <1>4, <1>6 DEF HeadIs, ApplySessionState, ApplyEvent, Progresses, client

\* A result that reports a status is applied, or was processed before.
LEMMA ResultTook ==
  ASSUME IInv, ReceiveSubmitResult \/ ReceiveCancelResult \/ ReceivePullResult
  PROVE  Progresses \/ Disregards
<1> USE DEF IInv, BInv, Knows
<1> DEFINE m == Head(to_agent)
           a == Body.status.action
<1>1. to_agent # <<>> /\ m.kind = "result" /\ m.method \in Reporting /\ MessageOK(m)
  <2>1. to_agent # <<>> /\ m.kind = "result" /\ m.method \in Reporting
    BY DEF ReceiveSubmitResult, ReceiveCancelResult, ReceivePullResult, ReceiveResult, Receive, Reporting
  <2> QED BY <2>1, HeadTyped DEF HeadOK
<1>2. Bears(m) /\ NumberOf(m) = Body.seq /\ Reported(m) = Body.status /\ Body.status.about = "action"
  BY <1>1 DEF Bears, NumberOf, Reported, Body, MessageOK
<1>3. HeadIs
  BY <1>1, <1>2, HeadIsNext
<1>4. ready # None /\ Body.seq \in DOMAIN log /\ log[Body.seq] = Body.status /\ a \in ActionIds
  BY <1>2, <1>3 DEF HeadIs, Typed, StatusOK
<1>5. Body.seq \in Nat /\ last_status_seq \in Nat /\ Body.seq <= last_status_seq + 1
      /\ (Status!Fresh(Body.seq) <=> Body.seq = last_status_seq + 1) /\ Body.seq > 0
  BY <1>1, <1>2, <1>3, Bounds DEF HeadIs, MessageOK
<1>6. ApplyStatus(Body.seq, Body.status) => Progresses
  BY <1>1, <1>2, ApplyProgresses
<1>7. ~IsOpened(m)
  BY <1>1 DEF IsOpened, Reporting
<1>8. ~Status!Fresh(Body.seq) /\ UNCHANGED <<client, sequence, history>> => Disregards
  BY <1>2, <1>4, <1>5, <1>7 DEF Disregards, client, sequence, history
<1>9. ApplyResult => Progresses \/ Disregards
  BY <1>6, <1>8 DEF ApplyResult
\* It is not the next one if the record is as new.
<1>10. RecordState(a) # "submitted" /\ ~NewerThanRecord => ~Status!Fresh(Body.seq)
  <2> SUFFICES ASSUME RecordState(a) # "submitted", ~NewerThanRecord, Body.seq = last_status_seq + 1 PROVE FALSE
    BY <1>5
  <2>1. actions[a] # None /\ RecordState(a) = actions[a].state
    BY DEF RecordState
  <2>2. Newest(a, 1..last_status_seq) # 0
    <3>1. Submitted.state = "submitted"
      BY DEF Submitted
    <3> QED BY <1>4, <2>1, <3>1 DEF RecordsRight, RecordOf
  <2>3. actions[a].seq \in 1..last_status_seq
    BY <1>4, <2>2, RecordIs
  <2> QED BY <1>5, <2>1, <2>3 DEF NewerThanRecord
\* A submission whose status was processed has left its mark.
<1>11. RecordState(a) = "submitted" => Status!Fresh(Body.seq)
  <2> SUFFICES ASSUME RecordState(a) = "submitted", Body.seq <= last_status_seq PROVE FALSE
    BY <1>5
  <2>1. Of(a, Body.seq) /\ Body.seq \in 1..last_status_seq
    BY <1>2, <1>4, <1>5 DEF Of
  <2>2. Newest(a, 1..last_status_seq) # 0
    <3>1. NewestAt(a, last_status_seq, Newest(a, 1..last_status_seq))
      BY <1>5, NewestIs DEF NewestIsIt
    <3> QED BY <2>1, <3>1 DEF NewestAt
  <2> QED BY <1>4, <2>2, RecordIs DEF RecordState
<1>12. CASE ReceiveSubmitResult
  <2>1. CASE RecordState(a) = "submitted"
    BY <1>6, <1>11, <1>12, <2>1 DEF ReceiveSubmitResult
  <2>2. CASE RecordState(a) # "submitted"
    BY <1>8, <1>9, <1>10, <1>12, <2>2 DEF ReceiveSubmitResult, IgnoreResult
  <2> QED BY <2>1, <2>2
<1>13. CASE ReceiveCancelResult
  BY <1>9, <1>13 DEF ReceiveCancelResult
<1>14. CASE ReceivePullResult
  <2>1. m.method = "pull"
    BY <1>14 DEF ReceivePullResult, ReceiveResult
  <2>2. ~Status!Fresh(Body.seq)
    BY <1>1, <1>2, <1>3, <1>5, <2>1 DEF HeadIs
  <2> QED BY <1>8, <1>9, <1>14, <2>2 DEF ReceivePullResult, IgnoreResult
<1> QED BY <1>12, <1>13, <1>14

\* The handlers do nothing else.
LEMMA TookShape ==
  ASSUME IInv, ClientReceives
  PROVE  Took
<1> USE DEF IInv, BInv, Knows
<1> DEFINE m == Head(to_agent)
<1>1. to_agent # <<>> /\ MessageOK(m) /\ m = to_agent[1] /\ 1 \in DOMAIN to_agent
  <2>1. to_agent # <<>>
    BY ReceiveShape DEF TakeOf
  <2> QED BY <2>1, HeadTyped DEF HeadOK
<1>2. CASE ReceiveStatus
  <2>1. m.kind = "status" /\ Bears(m) /\ NumberOf(m) = m.seq /\ Reported(m) = m.status
    BY <1>2 DEF ReceiveStatus, Receive, Bears, NumberOf, Reported
  <2>2. HeadIs
    BY <1>1, <2>1, HeadIsNext
  <2>3. CASE Status!Redeliver(m.seq) /\ UNCHANGED <<client, history>>
    <3>1. ~Status!Fresh(m.seq) /\ UNCHANGED <<last_status_seq, seen_above, processed>>
      BY <2>3 DEF Status!Redeliver
    <3>2. Disregards
      BY <2>1, <2>2, <2>3, <3>1 DEF HeadIs, Disregards, client, history, IsOpened
    <3> QED BY <3>2 DEF Took
  <2>4. CASE m.status.about = "action" /\ ApplyStatus(m.seq, m.status)
    BY <1>1, <2>1, <2>4, ApplyProgresses DEF Took
  <2>5. CASE \/ m.status.about = "session" /\ ApplySessionState(m.seq, m.status)
             \/ m.status.about = "event" /\ ApplyEvent(m.seq)
    BY <1>1, <2>1, <2>5, OtherProgresses DEF Took
  <2> QED BY <1>2, <2>3, <2>4, <2>5 DEF ReceiveStatus
<1>3. CASE ReceiveSubmitResult \/ ReceiveCancelResult \/ ReceivePullResult
  BY <1>3, ResultTook DEF Took
<1>4. CASE ReceiveOpenResult
  BY <1>4 DEF ReceiveOpenResult, ReceiveResult, Receive, Body, Status!EndSession, history, Took, Begins, IsOpened
<1>5. CASE ReceiveResumeResult
  <2>1. m.kind = "result" /\ m.method = "resume" /\ IsResumed(m) /\ ~Bears(m) /\ ~IsOpened(m)
    BY <1>5 DEF ReceiveResumeResult, ReceiveResult, Receive, IsResumed, Bears, Reporting, IsOpened
  <2>2. m.body.session = ready
    BY <1>1, <2>1 DEF Phases, Resumption, ResumedAt
  <2>3. Disregards
    BY <1>5, <2>1, <2>2 DEF ReceiveResumeResult, Body, Status!ResumeResult, history, Disregards
  <2> QED BY <2>3 DEF Took
<1>6. CASE ReceiveResumeError
  BY <1>6 DEF ReceiveResumeError, ReceiveError, Receive, SessionLost, Status!EndSession, history, Took, Loses
<1>7. CASE ReceiveCloseResult
  <2>1. IsCloseResult(m) /\ UNCHANGED <<actions, last_status_seq, seen_above, processed, accused>>
        /\ ready' = None /\ session_state' = "closed"
    BY <1>7 DEF ReceiveCloseResult, ReceiveResult, Receive, IsCloseResult, sequence, history
  <2>2. ready = None
    <3>1. \A j \in 1..(1 - 1) : FALSE
      OBVIOUS
    <3> QED BY <1>1, <2>1, <3>1 DEF Phases, Ending
  <2> QED BY <2>1, <2>2 DEF Took, Ends
<1>8. CASE ReceiveSubmitError
  <2>1. m.kind = "error" /\ UNCHANGED <<session_state, ready, last_status_seq, seen_above, processed, accused>>
    BY <1>8 DEF ReceiveSubmitError, ReceiveError, Receive, sequence, history
  <2>2. \A a \in ActionIds : actions'[a] = actions[a] \/ (RecordState(a) = "submitted" /\ actions'[a] = None)
    BY <1>8 DEF ReceiveSubmitError, Typed
  <2>3. Disregards
    BY <2>1, <2>2 DEF Disregards, IsOpened, Bears
  <2> QED BY <2>3 DEF Took
<1>9. CASE ReceiveOther
  <2>1. ~IsOpened(m) /\ ~Bears(m) /\ UNCHANGED <<client, sequence, history>>
    BY <1>9 DEF ReceiveOther, ReceiveResult, ReceiveError, Receive, IsOpened, Bears, Reporting
  <2>2. Disregards
    BY <2>1 DEF Disregards, client, sequence, history
  <2> QED BY <2>2 DEF Took
<1> QED BY <1>2, <1>3, <1>4, <1>5, <1>6, <1>7, <1>8, <1>9 DEF ClientReceives

\* The messages behind the one taken, and what does not change.
Behind ==
  /\ \A i \in DOMAIN to_agent' : /\ i \in Nat /\ i > 0 /\ i + 1 \in DOMAIN to_agent /\ to_agent'[i] = to_agent[i + 1]
                                 /\ (i + 1) - 1 = i
  /\ \A i \in DOMAIN to_agent : i \in Nat /\ (i = 1 \/ (i - 1 \in DOMAIN to_agent' /\ to_agent'[i - 1] = to_agent[i]))
  /\ \A i \in DOMAIN to_agent' : \A j \in 1..(i - 1) : j \in DOMAIN to_agent' /\ j + 1 \in 1..i
  /\ 1 \in DOMAIN to_agent /\ to_agent[1] = Head(to_agent) /\ MessageOK(Head(to_agent))
  /\ UNCHANGED <<connection, to_world, held, attached, log, discarded>>

\* Taking the first message leaves the others in their order.
LEMMA TakeBehind ==
  ASSUME Typed, TakeOf
  PROVE  Behind /\ Shrunk(to_agent, to_agent')
<1>1. Shrunk(to_agent, to_agent')
  BY Taken DEF TakeOf, Typed
<1>2. \A i \in DOMAIN to_agent' : i \in Nat /\ i > 0 /\ i + 1 \in DOMAIN to_agent /\ to_agent'[i] = to_agent[i + 1]
  BY <1>1 DEF Shrunk
<1>3. \A i \in DOMAIN to_agent' : \A j \in 1..(i - 1) : j \in DOMAIN to_agent' /\ j + 1 \in 1..i
  BY <1>1 DEF Shrunk
<1> QED BY <1>1, <1>2, <1>3, HeadTyped DEF Behind, Shrunk, TakeOf, HeadOK

\* An end of the session that comes first has not been processed.
LEMMA HeadClosed ==
  ASSUME IInv, Took, to_agent # <<>>, IsClosed(Head(to_agent))
  PROVE  Progresses /\ ready' = None
<1> USE DEF IInv, BInv
<1>1. Bears(Head(to_agent)) /\ Reported(Head(to_agent)).about = "session" /\ Reported(Head(to_agent)).state = "closed"
  BY DEF IsClosed
<1>2. HeadIs
  BY <1>1, HeadIsNext
<1>3. ClosedLog(NumberOf(Head(to_agent))) /\ NumberOf(Head(to_agent)) \in Nat \ {0}
  <2>1. DOMAIN log = 1..Len(log)
    BY Elements DEF Typed
  <2> QED BY <1>1, <1>2, <2>1 DEF HeadIs, ClosedLog
<1>4. ~(NumberOf(Head(to_agent)) <= last_status_seq)
  BY <1>2, <1>3 DEF HeadIs, Phases, Inside
<1>5. Progresses
  <2>1. ~Begins /\ ~Loses /\ ~Ends
    BY <1>1 DEF Begins, Loses, Ends, IsOpened, IsCloseResult, Bears, Reporting
  <2> QED BY <1>1, <1>4, <2>1 DEF Took, Disregards
<1> QED BY <1>1, <1>5 DEF Progresses

\* What the step does to the grant.
LEMMA TakeReady ==
  ASSUME IInv, Took, Behind
  PROVE  /\ ready = None /\ ~IsOpened(Head(to_agent)) => ready' = None /\ last_status_seq' = last_status_seq
         /\ ready # None =>
              \/ ready' = ready /\ (last_status_seq' = last_status_seq \/ Progresses)
              \/ ready' = None /\ ~attached /\ Quiet'
         /\ IsOpened(Head(to_agent)) <=> Begins
         /\ IsOpened(Head(to_agent)) => ready = None
<1> USE DEF IInv, BInv
<1> DEFINE m == Head(to_agent)
<1>1. IsOpened(m) => ready = None
  BY DEF Behind, Phases, Opened, OpenedAt
<1>2. IsOpened(m) <=> Begins
  <2>1. IsOpened(m) => ~Progresses /\ ~Disregards /\ ~Loses /\ ~Ends
    BY DEF Progresses, Disregards, Loses, Ends, IsOpened, IsCloseResult, Bears, Reporting
  <2> QED BY <2>1 DEF Took, Begins
<1>3. Loses => ready # None /\ ~attached /\ Quiet
  <2>1. Loses => IsResumed(m) /\ m.kind = "error"
    BY DEF Loses, IsResumed
  <2> QED BY <2>1 DEF Behind, Phases, Resumption, ResumedAt
<1>4. Quiet => Quiet'
  BY DEF Behind, Quiet
<1>5. ASSUME Progresses, ready' = None PROVE ~attached /\ Quiet'
  <2>1. ready # None /\ IsClosed(m)
    BY <1>5 DEF Progresses, IsClosed
  <2>2. ~attached /\ \A j \in DOMAIN to_agent : j > 1 => ~Bears(to_agent[j])
    BY <2>1 DEF Behind, Phases, Ending
  <2>3. Quiet'
    <3> SUFFICES ASSUME NEW i \in DOMAIN to_agent' PROVE ~Bears(to_agent'[i])
      BY DEF Quiet
    <3>1. i + 1 \in DOMAIN to_agent /\ to_agent'[i] = to_agent[i + 1] /\ i + 1 > 1
      BY DEF Behind
    <3> QED BY <2>2, <3>1
  <2> QED BY <2>2, <2>3
<1>6. Progresses => ready # None /\ ready' \in {ready, None}
  BY DEF Progresses
<1>7. Disregards => ready' = ready /\ last_status_seq' = last_status_seq
  BY DEF Disregards
<1>8. Ends => ready = None /\ ready' = None /\ last_status_seq' = last_status_seq
  BY DEF Ends
<1>9. Loses => ready' = None
  BY DEF Loses
<1>10. ready = None /\ ~IsOpened(m) => ready' = None /\ last_status_seq' = last_status_seq
  BY <1>2, <1>3, <1>6, <1>7, <1>8 DEF Took
<1>11. ready # None => \/ ready' = ready /\ (last_status_seq' = last_status_seq \/ Progresses)
                       \/ ready' = None /\ ~attached /\ Quiet'
  BY <1>1, <1>2, <1>3, <1>4, <1>5, <1>6, <1>7, <1>8, <1>9 DEF Took
<1> QED BY <1>1, <1>2, <1>10, <1>11

\* Taking a message keeps the phases.
LEMMA TakePhases ==
  ASSUME IInv, Took, Behind, TakenInto
  PROVE  Phases'
<1> USE DEF IInv, BInv
<1> DEFINE m == Head(to_agent)
<1>1. /\ Quiet => Quiet'
      /\ ~Opening => ~Opening'
      /\ Opening => IsOpened(m) \/ Opening'
  <2>1. Quiet => Quiet'
    BY DEF Behind, Quiet
  <2>2. ~Opening => ~Opening'
    BY DEF Behind, Opening
  <2>3. Opening => IsOpened(m) \/ Opening'
    BY DEF Behind, Opening
  <2> QED BY <2>1, <2>2, <2>3
<1>2. UNCHANGED <<connection, to_world, held, attached, log, discarded>> /\ (Resuming' <=> Resuming)
  BY DEF Behind, Resuming
<1>3. Quiet => ~Bears(m)
  BY DEF Behind, Quiet
<1>4. last_status_seq \in Nat
  BY Bounds DEF Typed, Status!TypeOK
<1>5. Asking'
  <2> SUFFICES ASSUME NEW i \in DOMAIN to_world, to_world[i].method = "open"
               PROVE  i = Len(to_world) /\ ready' = None /\ ~attached /\ Quiet' /\ ~Opening'
    BY <1>2 DEF Asking
  <2>1. i = Len(to_world) /\ ready = None /\ ~attached /\ Quiet /\ ~Opening
    BY DEF Phases, Asking
  <2>2. ~IsOpened(m)
    BY <2>1 DEF Opening, Behind
  <2> QED BY <1>1, <2>1, <2>2, TakeReady
<1>6. Opened'
  <2> SUFFICES ASSUME NEW i \in DOMAIN to_agent', IsOpened(to_agent'[i]) PROVE OpenedAt(i)'
    BY DEF Opened
  <2>1. i + 1 \in DOMAIN to_agent /\ to_agent'[i] = to_agent[i + 1] /\ i \in Nat /\ i > 0 /\ (i + 1) - 1 = i
    BY DEF Behind
  <2>2. /\ ready = None /\ to_world = <<>> /\ discarded = 0
        /\ held \in {to_agent[i + 1].body, None}
        /\ \A j \in DOMAIN to_agent : IsOpened(to_agent[j]) => j = i + 1
        /\ \A j \in 1..i : ~Bears(to_agent[j])
    BY <2>1 DEF Phases, Opened, OpenedAt
  <2>3. ~IsOpened(m)
    BY <2>1, <2>2 DEF Behind
  <2>4. ready' = None
    BY <2>2, <2>3, TakeReady
  <2>5. ASSUME NEW j \in DOMAIN to_agent', IsOpened(to_agent'[j]) PROVE j = i
    <3>1. j \in Nat /\ j + 1 \in DOMAIN to_agent /\ IsOpened(to_agent[j + 1])
      BY <2>5 DEF Behind
    <3>2. j + 1 = i + 1
      BY <2>2, <3>1
    <3> QED BY <2>1, <3>1, <3>2
  <2>6. ASSUME NEW j \in 1..(i - 1) PROVE ~Bears(to_agent'[j])
    <3>1. j + 1 \in 1..i /\ to_agent'[j] = to_agent[j + 1]
      BY DEF Behind
    <3> QED BY <2>2, <3>1
  <2> QED BY <1>2, <2>1, <2>2, <2>4, <2>5, <2>6 DEF OpenedAt
<1>7. Outside'
  <2> SUFFICES ASSUME ready' = None, ~Opening' PROVE ~attached /\ Quiet'
    BY <1>2 DEF Outside
  <2>1. CASE ready = None
    <3>1. ~IsOpened(m)
      <4>1. IsOpened(m) => ready' \in 1..MaxOpens
        BY TakeReady DEF Begins, Behind, MessageOK, IsOpened
      <4> QED BY <4>1, Bounds
    <3> QED BY <1>1, <2>1, <3>1 DEF Phases, Outside
  <2>2. CASE ready # None
    BY <2>2, TakeReady
  <2> QED BY <2>1, <2>2
<1>8. Inside'
  <2> SUFFICES ASSUME ready' # None PROVE Inside'
    BY DEF Inside
  <2>1. CASE ready = None
    <3>1. Begins /\ IsOpened(m)
      BY <2>1, TakeReady
    <3>2. to_world = <<>> /\ discarded = 0 /\ held \in {m.body, None}
      BY <3>1 DEF Behind, Phases, Opened, OpenedAt
    <3>3. last_status_seq' = 0 /\ ready' = m.body /\ Len(log) \in Nat /\ DOMAIN to_world = {}
      BY <3>1, <3>2, Few DEF Begins, Typed, IsSeq
    <3> QED BY <1>2, <3>2, <3>3 DEF Inside
  <2>2. CASE ready # None
    <3>1. ready' = ready /\ (last_status_seq' = last_status_seq \/ Progresses)
      BY <2>2, TakeReady
    <3>2. CASE last_status_seq' = last_status_seq
      BY <1>2, <2>2, <3>1, <3>2 DEF Phases, Inside, ClosedLog
    <3>3. CASE Progresses
      <4>1. HeadIs /\ NumberOf(m) = last_status_seq + 1 /\ last_status_seq' = last_status_seq + 1
        BY <3>3, HeadIsNext, Few DEF Progresses, Behind
      <4>2. last_status_seq + 1 \in DOMAIN log /\ log[last_status_seq + 1] = Reported(m) /\ DOMAIN log = 1..Len(log)
        BY <4>1, Elements DEF HeadIs, Typed
      <4>3. ~ClosedLog(last_status_seq + 1)
        BY <2>2, <3>1, <3>3, <4>2 DEF Progresses, ClosedLog
      <4>4. \A k \in 1..(last_status_seq + 1) : ~ClosedLog(k)
        <5>1. \A k \in 1..(last_status_seq + 1) : k \in 1..last_status_seq \/ k = last_status_seq + 1
          BY <1>4
        <5> QED BY <2>2, <4>3, <5>1 DEF Phases, Inside
      <4>5. discarded \in Nat /\ \A i \in DOMAIN to_world : to_world[i].method = "ping" => to_world[i].ack \in Nat
        BY Bounds DEF Typed, RequestOK
      <4>6. /\ held \in {ready, None} /\ discarded <= last_status_seq + 1
            /\ \A i \in DOMAIN to_world : to_world[i].method = "ping" => to_world[i].ack <= last_status_seq + 1
        BY <1>4, <2>2, <4>5 DEF Phases, Inside
      <4>7. last_status_seq + 1 <= Len(log)
        BY <4>2
      <4> QED BY <1>2, <3>1, <4>1, <4>4, <4>6, <4>7 DEF Inside, ClosedLog
    <3> QED BY <3>1, <3>2, <3>3
  <2> QED BY <2>1, <2>2
<1>9. Resumption'
  <2>1. ASSUME NEW i \in DOMAIN to_world, to_world[i].method = "resume" PROVE ResumeAt(i)'
    <3>1. /\ to_world[i].session = ready /\ to_world[i].ack = last_status_seq
          /\ ~attached /\ Quiet /\ \A j \in DOMAIN to_agent : ~IsResumed(to_agent[j])
      BY <2>1 DEF Phases, Resumption, ResumeAt
    <3>2. ready # None
      <4>1. ready \in 1..MaxOpens
        BY <2>1, <3>1 DEF Typed, RequestOK
      <4> QED BY <4>1, Bounds
    <3>3. ~Loses /\ ~Progresses /\ ~Begins /\ ~Ends
      <4>1. ~IsResumed(m) /\ ~Bears(m)
        BY <1>3, <3>1 DEF Behind
      <4>2. ~IsOpened(m)
        BY <3>2, TakeReady
      <4> QED BY <3>2, <4>1, <4>2, TakeReady DEF Loses, Progresses, Ends, IsResumed
    <3>4. ready' = ready /\ last_status_seq' = last_status_seq
      BY <3>3 DEF Took, Disregards
    <3>5. \A j \in DOMAIN to_agent' : ~IsResumed(to_agent'[j])
      BY <3>1 DEF Behind
    <3> QED BY <1>1, <1>2, <3>1, <3>4, <3>5 DEF ResumeAt
  <2>2. ASSUME NEW i \in DOMAIN to_agent', IsResumed(to_agent'[i]) PROVE ResumedAt(i)'
    <3>1. i + 1 \in DOMAIN to_agent /\ to_agent'[i] = to_agent[i + 1] /\ i \in Nat /\ i > 0 /\ (i + 1) - 1 = i
      BY DEF Behind
    <3>2. ResumedAt(i + 1)
      BY <2>2, <3>1 DEF Phases, Resumption
    <3>3. /\ connection = "used" /\ ~Resuming /\ ready # None
          /\ \A j \in DOMAIN to_agent : IsResumed(to_agent[j]) => j = i + 1
      BY <3>2 DEF ResumedAt
    <3>4. ~IsResumed(m) /\ ~IsOpened(m)
      <4>1. 1 # i + 1
        BY <3>1
      <4> QED BY <3>3, <4>1, TakeReady DEF Behind
    <3>5. ~Bears(m)
      <4>1. 1 \in 1..((i + 1) - 1)
        BY <3>1
      <4>2. to_agent[i + 1].kind \in {"result", "error"}
        BY <2>2, <3>1 DEF Typed, MessageOK, IsResumed
      <4> QED BY <1>3, <3>1, <3>2, <4>1, <4>2 DEF ResumedAt, Behind
    <3>6. ready' = ready
      BY <3>3, <3>4, <3>5, TakeReady DEF Took, Disregards, Progresses, Loses, Ends, IsResumed
    <3>7. \A j \in DOMAIN to_agent' : IsResumed(to_agent'[j]) => j = i
      <4> SUFFICES ASSUME NEW j \in DOMAIN to_agent', IsResumed(to_agent'[j]) PROVE j = i
        OBVIOUS
      <4>1. j \in Nat /\ j + 1 \in DOMAIN to_agent /\ IsResumed(to_agent[j + 1])
        BY DEF Behind
      <4>2. j + 1 = i + 1
        BY <3>3, <4>1
      <4> QED BY <3>1, <4>1, <4>2
    <3>8. to_agent'[i].kind = "result" => /\ to_agent'[i].body.session = ready
                                          /\ \A j \in 1..(i - 1) : ~Bears(to_agent'[j])
      <4> SUFFICES ASSUME to_agent[i + 1].kind = "result"
                   PROVE  to_agent[i + 1].body.session = ready /\ \A j \in 1..(i - 1) : ~Bears(to_agent'[j])
        BY <3>1
      <4>1. to_agent[i + 1].body.session = ready /\ \A j \in 1..i : ~Bears(to_agent[j])
        BY <3>1, <3>2 DEF ResumedAt
      <4>2. \A j \in 1..(i - 1) : j + 1 \in 1..i /\ to_agent'[j] = to_agent[j + 1]
        BY DEF Behind
      <4> QED BY <4>1, <4>2
    <3>9. to_agent'[i].kind = "error" => ~attached /\ Quiet'
      BY <1>1, <3>1, <3>2 DEF ResumedAt
    <3> QED BY <1>2, <3>3, <3>6, <3>7, <3>8, <3>9 DEF ResumedAt
  <2> QED BY <1>2, <2>1, <2>2 DEF Resumption
<1>10. Unused'
  <2> SUFFICES ASSUME connection = "new" PROVE Unused'
    BY <1>2 DEF Unused
  <2>1. \A i \in DOMAIN to_agent : Bears(to_agent[i]) => ~Suspends(Reported(to_agent[i]))
    BY DEF Phases, Unused
  <2>2. \A i \in DOMAIN to_agent' : Bears(to_agent'[i]) => ~Suspends(Reported(to_agent'[i]))
    BY <2>1 DEF Behind
  <2>3. ready' # None /\ session_state' = "suspended" => ~attached /\ Quiet'
    <3> SUFFICES ASSUME ready' # None, session_state' = "suspended" PROVE ~attached /\ Quiet'
      OBVIOUS
    <3>1. session_state = "suspended"
      BY <2>1 DEF TakenInto, Behind
    <3>2. ready # None
      BY <3>1 DEF Knows, SessionHasGrant
    <3> QED BY <1>1, <3>1, <3>2 DEF Phases, Unused
  <2> QED BY <1>2, <2>2, <2>3 DEF Unused
<1>11. Ending'
  <2>1. ASSUME NEW i \in DOMAIN to_agent', IsClosed(to_agent'[i])
        PROVE  ~attached /\ \A j \in DOMAIN to_agent' : j > i => ~Bears(to_agent'[j])
    <3>1. i + 1 \in DOMAIN to_agent /\ IsClosed(to_agent[i + 1]) /\ i \in Nat
      BY <2>1 DEF Behind
    <3>2. ~attached /\ \A j \in DOMAIN to_agent : j > i + 1 => ~Bears(to_agent[j])
      BY <3>1 DEF Phases, Ending
    <3>3. ASSUME NEW j \in DOMAIN to_agent', j > i PROVE ~Bears(to_agent'[j])
      <4>1. j \in Nat /\ j + 1 \in DOMAIN to_agent /\ to_agent'[j] = to_agent[j + 1] /\ j + 1 > i + 1
        BY <3>1, <3>3 DEF Behind
      <4> QED BY <3>2, <4>1
    <3> QED BY <3>2, <3>3
  <2>2. ASSUME NEW i \in DOMAIN to_agent', IsCloseResult(to_agent'[i])
        PROVE  \/ ready' = None /\ \A j \in 1..(i - 1) : ~IsOpened(to_agent'[j])
               \/ \E j \in 1..(i - 1) : IsClosed(to_agent'[j])
    <3>1. /\ i + 1 \in DOMAIN to_agent /\ IsCloseResult(to_agent[i + 1]) /\ i \in Nat /\ i > 0 /\ (i + 1) - 1 = i
          /\ \A j \in 1..(i - 1) : j + 1 \in 1..i /\ to_agent'[j] = to_agent[j + 1]
      BY <2>2 DEF Behind
    <3>2. \/ ready = None /\ \A j \in 1..i : ~IsOpened(to_agent[j])
          \/ \E j \in 1..i : IsClosed(to_agent[j])
      BY <3>1 DEF Phases, Ending
    <3>3. CASE ready = None /\ \A j \in 1..i : ~IsOpened(to_agent[j])
      <4>1. ~IsOpened(m)
        <5>1. 1 \in 1..i
          BY <3>1
        <5> QED BY <3>3, <5>1 DEF Behind
      <4>2. ready' = None
        BY <3>3, <4>1, TakeReady
      <4> QED BY <3>1, <3>3, <4>2
    <3>4. ASSUME NEW j \in 1..i, IsClosed(to_agent[j])
          PROVE  \/ ready' = None /\ \A k \in 1..(i - 1) : ~IsOpened(to_agent'[k])
                 \/ \E k \in 1..(i - 1) : IsClosed(to_agent'[k])
      <4>1. CASE j = 1
        <5>1. IsClosed(m) /\ to_agent # <<>>
          BY <3>4, <4>1, Few DEF Behind
        <5>2. ready # None /\ ready' = None
          BY <5>1, HeadClosed DEF Progresses
        <5>3. \A k \in DOMAIN to_agent' : ~IsOpened(to_agent'[k])
          BY <1>1, <5>2, NoneOpened DEF Opening
        <5>4. \A k \in 1..(i - 1) : k \in DOMAIN to_agent'
          BY DEF Behind
        <5> QED BY <5>2, <5>3, <5>4
      <4>2. CASE j # 1
        <5>1. PICK p \in 1..(i - 1) : p + 1 = j
          <6>1. j - 1 \in 1..(i - 1) /\ (j - 1) + 1 = j
            BY <3>1, <4>2
          <6> QED BY <6>1
        <5> QED BY <3>1, <3>4, <5>1
      <4> QED BY <4>1, <4>2
    <3> QED BY <3>2, <3>3, <3>4
  <2>3. connection' # "closing"
    BY <1>2 DEF Phases, Ending
  <2> QED BY <1>2, <2>1, <2>2, <2>3 DEF Ending
<1> QED BY <1>5, <1>6, <1>7, <1>8, <1>9, <1>10, <1>11 DEF Phases

\* It keeps the chain: the next status goes from the connection to what was processed.
LEMMA TakeChain ==
  ASSUME IInv, Took, Behind, Shrunk(to_agent, to_agent')
  PROVE  Chain'
<1> USE DEF IInv, BInv
<1> DEFINE m == Head(to_agent)
<1>1. last_status_seq \in Nat /\ Len(log) \in Nat /\ MaxSeq \in Nat
  BY Bounds DEF Typed, Status!TypeOK, IsSeq
<1>2. NoGap'
  <2>1. \A n \in {0} : 1..n = {}
    OBVIOUS
  <2>2. CASE Progresses
    BY <2>2 DEF Progresses, NoGap
  <2>3. CASE Disregards
    BY <2>3 DEF Disregards, NoGap, Chain
  <2>4. CASE Begins
    BY <2>1, <2>4 DEF Begins, NoGap
  <2>5. CASE Loses
    BY <2>1, <2>5 DEF Loses, NoGap
  <2>6. CASE Ends
    BY <2>6 DEF Ends, NoGap, Chain
  <2> QED BY <2>2, <2>3, <2>4, <2>5, <2>6 DEF Took
<1>3. last_status_seq' \in Nat
  BY <1>1 DEF Took, Progresses, Disregards, Begins, Loses, Ends
<1>4. PICK b \in Nat : b = IF ready' = None THEN 0 ELSE last_status_seq'
  BY <1>3
<1>5. Base' = b /\ Base \in Nat
  BY <1>1, <1>4 DEF Base
<1>6. \A i \in DOMAIN to_agent : Bears(to_agent[i]) => NumberOf(to_agent[i]) \in Nat
  BY <1>1 DEF Typed, MessageOK
<1>7. Bears(m) => ready # None /\ HeadIs
  <2>1. to_agent # <<>>
    BY Few DEF Behind
  <2> QED BY <2>1, HeadIsNext DEF HeadIs
<1>8. \/ Base <= b /\ (Bears(m) => NumberOf(m) <= b)
      \/ ~attached /\ Quiet'
  <2>1. CASE ready = None
    <3>1. ~Bears(m) /\ Base = 0
      BY <1>7, <2>1 DEF Base
    <3> QED BY <1>4, <3>1
  <2>2. CASE ready # None /\ ready' = ready /\ last_status_seq' = last_status_seq
    <3>1. ~Progresses /\ ~Begins /\ ~Loses
      BY <1>1, <2>2, TakeReady DEF Progresses, Loses
    <3>2. Disregards
      BY <2>2, <3>1 DEF Took, Ends
    <3>3. Base = b /\ b = last_status_seq
      BY <1>4, <2>2 DEF Base
    <3> QED BY <1>1, <3>2, <3>3 DEF Disregards
  <2>3. CASE ready # None /\ ready' = ready /\ Progresses
    <3>1. b = last_status_seq + 1 /\ Base = last_status_seq /\ NumberOf(m) = last_status_seq + 1
      BY <1>4, <2>3 DEF Progresses, Base
    <3> QED BY <1>1, <3>1
  <2> QED BY <2>1, <2>2, <2>3, TakeReady
<1>9. UNCHANGED <<log, attached>>
  BY DEF Behind
<1>10. Recorded' /\ Chained' /\ Complete' /\ Pulled'
  BY <1>1, <1>5, <1>6, <1>8, <1>9, ChainShrinks
<1> QED BY <1>2, <1>10 DEF Chain

\* What the client knows of each action follows the log.
LEMMA TakeRecords ==
  ASSUME IInv, Took, Behind
  PROVE  RecordsRight'
<1> USE DEF IInv, BInv, Knows
<1> DEFINE m == Head(to_agent)
           L == last_status_seq
<1>1. L \in Nat /\ L + 1 \in Nat /\ MaxSeq \in Nat
  BY SMTT(20), Bounds DEF Typed, Status!TypeOK, IsSeq
<1> SUFFICES ASSUME ready' # None, NEW a \in ActionIds PROVE RecordOf(a, last_status_seq)'
  BY DEF RecordsRight
<1>2. log' = log
  BY DEF Behind
<1>3. \A n \in Nat : Newest(a, 1..n)' = Newest(a, 1..n)
  BY <1>2, NewestKept DEF Kept
<1>4. ASSUME NEW n \in Nat, last_status_seq' = n,
             IF Newest(a, 1..n) = 0
               THEN actions'[a] \in {None, Submitted}
               ELSE actions'[a] = [state |-> log[Newest(a, 1..n)].state, seq |-> Newest(a, 1..n)]
      PROVE  RecordOf(a, last_status_seq)'
  <2>1. Newest(a, 1..last_status_seq)' = Newest(a, 1..n)
    BY <1>2, <1>4 DEF Newest
  <2> QED BY <1>2, <1>4, <2>1 DEF RecordOf
<1>5. CASE Begins
  <2>1. actions'[a] = None /\ last_status_seq' = 0
    BY <1>5 DEF Begins
  <2>2. Newest(a, 1..0) = 0
    <3>1. NewestAt(a, 0, Newest(a, 1..0))
      BY NewestIs DEF NewestIsIt
    <3> QED BY <3>1 DEF NewestAt
  <2> QED BY <1>4, <2>1, <2>2
<1>6. CASE Disregards
  <2>1. ready # None /\ last_status_seq' = L /\ RecordOf(a, L)
    BY <1>6 DEF Disregards, RecordsRight
  <2>2. actions'[a] = actions[a] \/ (RecordState(a) = "submitted" /\ actions'[a] = None)
    BY <1>6 DEF Disregards
  <2>3. RecordState(a) = "submitted" => Newest(a, 1..L) = 0
    BY <2>1, RecordIs DEF RecordState
  <2> QED BY <1>1, <1>4, <2>1, <2>2, <2>3 DEF RecordOf
<1>7. CASE Progresses
  <2>1. HeadIs
    <3>1. to_agent # <<>> /\ Bears(m)
      BY <1>7, Few DEF Behind, Progresses
    <3> QED BY <3>1, HeadIsNext
  <2>2. /\ NumberOf(m) = L + 1 /\ last_status_seq' = L + 1 /\ L + 1 \in DOMAIN log /\ log[L + 1] = Reported(m)
        /\ ready # None /\ RecordOf(a, L)
    BY <1>7, <2>1 DEF Progresses, HeadIs, RecordsRight
  <2>3. Newest(a, 1..(L + 1)) = IF Of(a, L + 1) THEN L + 1 ELSE Newest(a, 1..L)
    BY <1>1, NewestNext DEF NewestGrows
  <2>4. CASE Of(a, L + 1)
    <3>1. log[L + 1].about = "action" /\ log[L + 1].action = a
      BY <2>4 DEF Of
    <3>2. actions' = [actions EXCEPT ![a] = [state |-> log[L + 1].state, seq |-> L + 1]]
      BY <1>7, <2>2, <3>1 DEF Progresses
    <3>3. actions'[a] = [state |-> log[L + 1].state, seq |-> L + 1]
      BY <3>2 DEF Typed
    <3>4. Newest(a, 1..(L + 1)) = L + 1 /\ L + 1 # 0
      BY <1>1, <2>3, <2>4
    <3> QED BY <1>1, <1>4, <2>2, <3>3, <3>4
  <2>5. CASE ~Of(a, L + 1)
    <3>1. actions'[a] = actions[a]
      <4>1. ~(log[L + 1].about = "action" /\ log[L + 1].action = a)
        BY <2>5 DEF Of
      <4> QED BY <1>7, <2>2, <4>1 DEF Progresses, Typed
    <3>2. Newest(a, 1..(L + 1)) = Newest(a, 1..L)
      BY <2>3, <2>5
    <3> QED BY <1>1, <1>4, <2>2, <3>1, <3>2 DEF RecordOf
  <2> QED BY <2>4, <2>5
<1>8. ~Loses /\ ~Ends
  BY DEF Loses, Ends
<1> QED BY <1>5, <1>6, <1>7, <1>8 DEF Took

\* It keeps what the client knows: the record of the action is its newest status.
LEMMA TakeKnows ==
  ASSUME IInv, Took, Behind
  PROVE  Knows'
<1> USE DEF IInv, BInv, Knows
<1> DEFINE m == Head(to_agent)
           L == last_status_seq
<1>1. L \in Nat /\ DOMAIN log = 1..Len(log) /\ Len(log) \in Nat
  BY Bounds, Elements DEF Typed, Status!TypeOK
<1>2. UNCHANGED <<log, held, attached>>
  BY DEF Behind
<1>3. Lawful' /\ HeldLog'
  BY <1>2, SameLog DEF HeldLog, ClosedLog
<1>4. NoFalseAccusation'
  BY Zenon DEF NoFalseAccusation, Took, Progresses, Disregards, Begins, Loses, Ends
<1>5. SessionHasGrant'
  <2>1. CASE Begins
    <3>1. ready' \in 1..MaxOpens
      BY <2>1 DEF Begins, Behind, MessageOK, IsOpened
    <3> QED BY <3>1, Bounds DEF SessionHasGrant
  <2>2. CASE Progresses
    <3>1. ready # None /\ (ready' = ready \/ session_state' = "closed")
      BY <2>2 DEF Progresses
    <3> QED BY <3>1 DEF SessionHasGrant
  <2>3. CASE Disregards
    BY <2>3 DEF Disregards, SessionHasGrant
  <2>4. CASE Loses \/ Ends
    BY <2>4 DEF Loses, Ends, SessionHasGrant
  <2> QED BY <2>1, <2>2, <2>3, <2>4 DEF Took
<1>6. StateRight'
  <2> SUFFICES ASSUME attached, ready' # None, NEW k \in 1..last_status_seq', Latest(k)
               PROVE  session_state' = log[k].state \/ (log[k].state = "ready" /\ session_state' = "active")
    BY <1>2 DEF StateRight, Latest, About
  <2>1. CASE Begins
    <3>1. last_status_seq' = 0
      BY <2>1 DEF Begins
    <3> QED BY <3>1
  <2>2. CASE Disregards
    BY <2>2 DEF Disregards, StateRight
  <2>3. CASE Progresses
    <3>1. HeadIs
      <4>1. to_agent # <<>> /\ Bears(m)
        BY <2>3, Few DEF Behind, Progresses
      <4> QED BY <4>1, HeadIsNext
    <3>2. /\ last_status_seq' = L + 1 /\ L + 1 \in DOMAIN log /\ log[L + 1] = Reported(m) /\ ready # None
      BY <2>3, <3>1 DEF Progresses, HeadIs
    <3>3. CASE About(L + 1)
      <4>1. L + 1 <= k
        BY <3>2, <3>3 DEF Latest
      <4>2. k = L + 1
        BY <1>1, <3>2, <4>1
      <4>3. session_state' = log[L + 1].state
        BY <2>3, <3>2, <3>3 DEF Progresses, About
      <4> QED BY <4>2, <4>3
    <3>4. CASE ~About(L + 1)
      <4>1. session_state' = session_state
        BY <2>3, <3>2, <3>4 DEF Progresses, About
      <4>2. k # L + 1
        BY <3>4 DEF Latest
      <4>3. k \in 1..L
        BY <1>1, <3>2, <4>2
      <4> QED BY <3>2, <4>1, <4>3 DEF StateRight
    <3> QED BY <3>3, <3>4
  <2>4. ~Loses /\ ~Ends
    BY DEF Loses, Ends
  <2> QED BY <2>1, <2>2, <2>3, <2>4 DEF Took
<1> QED BY <1>3, <1>4, <1>5, <1>6, TakeRecords

-----------------------------------------------------------------------------
(* Frames and the connection                                               *)

\* What the client knows of its actions stays, as long as it stays in the session.
LEMMA RecordsSame ==
  ASSUME RecordsRight, UNCHANGED log, ready' = None \/ UNCHANGED <<ready, actions, last_status_seq>>
  PROVE  RecordsRight'
<1> SUFFICES ASSUME ready' # None, NEW a \in ActionIds PROVE RecordOf(a, last_status_seq)'
  BY DEF RecordsRight
<1>1. UNCHANGED <<ready, actions, last_status_seq, log>> /\ RecordOf(a, last_status_seq)
  BY DEF RecordsRight
<1>2. Newest(a, 1..last_status_seq)' = Newest(a, 1..last_status_seq)
  BY <1>1 DEF Newest
<1> QED BY <1>1, <1>2 DEF RecordOf

\* A frame tells the client no more than that its session is active.
LEMMA FrameIInv ==
  ASSUME IInv, FirstFrame
  PROVE  Phases' /\ Chain' /\ Knows'
<1> USE DEF IInv, BInv
<1>1. /\ session_state = "ready" /\ session_state' = "active" /\ attached /\ ready # None
      /\ UNCHANGED <<ready, actions, accused, connection, to_world, to_agent, held, attached, log, discarded>>
      /\ UNCHANGED <<last_status_seq, seen_above, processed>>
  BY DEF FirstFrame, sequence, history, links, world
<1>2. Phases'
  BY <1>1 DEF Phases, Asking, Opened, OpenedAt, Outside, Inside, Resumption, ResumeAt, ResumedAt, Unused, Ending,
              Quiet, Opening, ClosedLog, Resuming
<1>3. Chain'
  BY <1>1 DEF Chain, NoGap, Recorded, Chained, Complete, Pulled, Base, Carries
<1>4. Lawful' /\ HeldLog' /\ NoFalseAccusation' /\ SessionHasGrant'
  BY <1>1, SameLog DEF Knows, HeldLog, ClosedLog, NoFalseAccusation, SessionHasGrant
<1>5. RecordsRight'
  BY <1>1, RecordsSame DEF Knows
<1>6. StateRight'
  <2> SUFFICES ASSUME NEW k \in 1..last_status_seq, Latest(k)
               PROVE  session_state' = log[k].state \/ (log[k].state = "ready" /\ session_state' = "active")
    BY <1>1 DEF StateRight, Latest, About
  <2>1. session_state = log[k].state
    BY <1>1 DEF Knows, StateRight
  <2> QED BY <1>1, <2>1
<1> QED BY <1>2, <1>3, <1>4, <1>5, <1>6 DEF Knows

\* A new connection carries nothing yet.
LEMMA ConnectIInv ==
  ASSUME IInv, Connect
  PROVE  Phases' /\ Chain' /\ Knows'
<1> USE DEF IInv, BInv
<1>1. /\ to_world = <<>> /\ to_agent = <<>> /\ ~attached /\ connection' = "new"
      /\ UNCHANGED <<session_state, ready, actions, accused, to_world, to_agent, held, attached, log, discarded>>
      /\ UNCHANGED <<last_status_seq, seen_above, processed>>
  BY DEF Connect, client, sequence, history, world, OneResume
<1>2. DOMAIN to_world = {} /\ DOMAIN to_agent = {}
  BY <1>1, Few
<1>3. Phases'
  BY <1>1, <1>2 DEF Phases, Asking, Opened, OpenedAt, Outside, Inside, Resumption, ResumeAt, ResumedAt, Unused, Ending,
              Quiet, Opening, ClosedLog, Resuming
<1>4. Chain'
  BY <1>1 DEF Chain, NoGap, Recorded, Chained, Complete, Pulled, Base, Carries
<1>5. Lawful' /\ HeldLog' /\ NoFalseAccusation' /\ SessionHasGrant'
  BY <1>1, SameLog DEF Knows, HeldLog, ClosedLog, NoFalseAccusation, SessionHasGrant
<1>6. RecordsRight'
  BY <1>1, RecordsSame DEF Knows
<1>7. StateRight'
  BY <1>1 DEF StateRight
<1> QED BY <1>3, <1>4, <1>5, <1>6, <1>7 DEF Knows

\* With a connection goes what it carried; the session may be suspended, or abandoned.
LEMMA DisconnectIInv ==
  ASSUME IInv, LoseConnection \/ Abandon
  PROVE  Phases' /\ Chain' /\ Knows'
<1> USE DEF IInv, BInv
<1>1. /\ to_world' = <<>> /\ to_agent' = <<>> /\ attached' = FALSE /\ connection' = "down"
      /\ UNCHANGED <<accused, held, log, discarded>>
  BY DEF LoseConnection, Abandon, Disconnect
<1>2. \/ /\ UNCHANGED <<ready, actions, last_status_seq, seen_above, processed>>
         /\ session_state' = StateAfterLoss
      \/ /\ ready' = None /\ session_state' = "closed"
         /\ last_status_seq' = 0 /\ seen_above' = {} /\ processed' = {}
  BY DEF LoseConnection, Abandon, SessionLost, Status!EndSession, sequence
<1>3. DOMAIN to_world' = {} /\ DOMAIN to_agent' = {}
  BY <1>1, Few
<1>4. Inside'
  BY <1>1, <1>2, <1>3 DEF Phases, Inside, ClosedLog
<1>5. Phases'
  BY <1>1, <1>3, <1>4 DEF Phases, Asking, Opened, Outside, Resumption, Unused, Ending, Quiet, Opening
<1>6. NoGap'
  <2>1. \A n \in {0} : 1..n = {}
    OBVIOUS
  <2> QED BY <1>2, <2>1 DEF Chain, NoGap
<1>7. Chain'
  BY <1>1, <1>3, <1>6 DEF Chain, Recorded, Chained, Complete, Pulled
<1>8. Lawful' /\ HeldLog' /\ NoFalseAccusation'
  BY <1>1, SameLog DEF Knows, HeldLog, ClosedLog, NoFalseAccusation
<1>9. SessionHasGrant'
  BY <1>2 DEF Knows, SessionHasGrant, StateAfterLoss, Typed
<1>10. RecordsRight'
  BY <1>1, <1>2, RecordsSame DEF Knows
<1>11. StateRight'
  BY <1>1 DEF StateRight
<1> QED BY <1>5, <1>7, <1>8, <1>9, <1>10, <1>11 DEF Knows

\* Nothing else happens to a connection in an orderly world.
LEMMA OrderlyConnection ==
  ASSUME Orderly, IInv, ConnectionActs
  PROVE  Connect \/ LoseConnection \/ Abandon
BY DEF Orderly, ConnectionActs, DropMessage, AbandonFromStream, FinishClosing, IInv, Phases, Ending

\* Where nothing happens, nothing changes.
LEMMA StutterIInv ==
  ASSUME IInv, UNCHANGED vars
  PROVE  Phases' /\ Chain' /\ Knows'
<1> USE DEF IInv, BInv
<1>1. /\ UNCHANGED <<session_state, ready, actions, accused, connection, to_world, to_agent>>
      /\ UNCHANGED <<held, attached, log, discarded, last_status_seq, seen_above, processed>>
  BY DEF vars, client, sequence, history, links, world
<1>2. Phases'
  BY <1>1 DEF Phases, Asking, Opened, OpenedAt, Outside, Inside, Resumption, ResumeAt, ResumedAt, Unused, Ending,
              Quiet, Opening, ClosedLog, Resuming
<1>3. Chain'
  BY <1>1 DEF Chain, NoGap, Recorded, Chained, Complete, Pulled, Base, Carries
<1>4. Lawful' /\ HeldLog' /\ NoFalseAccusation' /\ SessionHasGrant'
  BY <1>1, SameLog DEF Knows, HeldLog, ClosedLog, NoFalseAccusation, SessionHasGrant
<1>5. RecordsRight' /\ StateRight'
  BY <1>1, RecordsSame DEF Knows, StateRight, Latest, About
<1> QED BY <1>2, <1>3, <1>4, <1>5 DEF Knows

-----------------------------------------------------------------------------
(* What the client knows, as the world says more                           *)

\* With one more status that the lifecycle permits, the log stays lawful.
LEMMA LawfulGrows ==
  ASSUME Typed, Lawful, NEW s, StatusOK(s), LawfulNext(s), log' = Append(log, s)
  PROVE  Lawful'
<1>1. /\ DOMAIN log' = 1..(Len(log) + 1) /\ DOMAIN log = 1..Len(log) /\ Len(log) \in Nat
      /\ log'[Len(log) + 1] = s /\ \A k \in DOMAIN log : log'[k] = log[k]
  BY LogSent
<1> SUFFICES ASSUME NEW k \in DOMAIN log' PROVE Continues(k)'
  BY DEF Lawful
<1>2. k \in Nat \ {0} /\ (k \in DOMAIN log \/ k = Len(log) + 1)
  BY <1>1
<1>3. CASE k \in DOMAIN log
  <2>1. Kept(k)
    BY <1>1, <1>3 DEF Kept
  <2> QED BY <1>2, <1>3, <2>1, ContinuesKept DEF Lawful
<1>4. CASE k = Len(log) + 1
  <2> SUFFICES ASSUME s.about = "action"
               PROVE  LET from == StateAfter(s.action, k - 1)'
                      IN  from \notin Terminal /\ (from = s.state \/ Permitted(from, s.state, s.reason))
    BY <1>1, <1>4 DEF Continues
  <2>1. k - 1 = Len(log) /\ Kept(Len(log))
    BY <1>1, <1>4 DEF Kept
  <2>2. PICK a : a = s.action
    OBVIOUS
  <2>3. WorldState(a) = StateAfter(a, Len(log))
    BY WorldStateIs
  <2>4. PICK n \in Nat : n = Len(log)
    BY <1>1
  <2>5. StateAfter(a, n)' = WorldState(a)
    <3>1. Kept(n)
      BY <2>1, <2>4
    <3>2. StateAfter(a, n)' = StateAfter(a, n)
      BY <3>1, NewestKept
    <3> QED BY <2>3, <2>4, <3>2
  <2>6. k - 1 = n
    BY <2>1, <2>4
  <2> QED BY <2>2, <2>5, <2>6 DEF LawfulNext
<1> QED BY <1>2, <1>3, <1>4

\* The statuses that the records and the state of the session come from are kept.
LEMMA RecordsKept ==
  ASSUME IInv, Untouched, ready # None => Kept(last_status_seq)
  PROVE  RecordsRight'
<1> USE DEF IInv, BInv, Knows
<1> SUFFICES ASSUME ready # None, NEW a \in ActionIds PROVE RecordOf(a, last_status_seq)'
  BY DEF RecordsRight, Untouched
<1>1. UNCHANGED <<ready, actions, last_status_seq>> /\ RecordOf(a, last_status_seq)
  BY DEF RecordsRight, Untouched
<1>2. PICK n \in Nat : n = last_status_seq
  BY Bounds DEF Typed, Status!TypeOK
<1>3. Newest(a, 1..n)' = Newest(a, 1..n)
  BY <1>2, NewestKept
<1>4. Newest(a, 1..last_status_seq)' = Newest(a, 1..n)
  <2>1. Newest(a, 1..last_status_seq)' = Newest(a, 1..n)'
    BY <1>1, <1>2 DEF Newest
  <2> QED BY <1>3, <2>1
<1>5. Newest(a, 1..n) # 0 => Newest(a, 1..n) \in 1..n
  <2>1. NewestAt(a, n, Newest(a, 1..n))
    BY NewestIs DEF NewestIsIt
  <2> QED BY <2>1 DEF NewestAt
<1>6. Newest(a, 1..n) # 0 => log'[Newest(a, 1..n)] = log[Newest(a, 1..n)]
  BY <1>2, <1>5 DEF Kept
<1> QED BY <1>1, <1>2, <1>4, <1>6 DEF RecordOf

\* The world records one more status of the session it holds.
LEMMA GrowsKnows ==
  ASSUME IInv, Untouched, NEW s, StatusOK(s), LawfulNext(s), log' = Append(log, s),
         held' # None => held' = held /\ ~(s.about = "session" /\ s.state = "closed"),
         attached' => attached \/ s.about = "session"
  PROVE  Knows'
<1> USE DEF IInv, BInv, Knows
<1>1. /\ DOMAIN log' = 1..(Len(log) + 1) /\ DOMAIN log = 1..Len(log) /\ Len(log) \in Nat
      /\ log'[Len(log) + 1] = s /\ \A k \in DOMAIN log : log'[k] = log[k]
  BY LogSent
<1>2. last_status_seq \in Nat /\ (ready # None => last_status_seq <= Len(log))
  BY Bounds DEF Typed, Status!TypeOK, Phases, Inside
<1>3. Lawful'
  BY LawfulGrows
<1>4. RecordsRight'
  BY <1>1, <1>2, RecordsKept DEF Kept
<1>5. StateRight'
  <2> SUFFICES ASSUME attached', ready # None, NEW k \in 1..last_status_seq, Latest(k)'
               PROVE  session_state = log'[k].state \/ (log'[k].state = "ready" /\ session_state = "active")
    BY DEF StateRight, Untouched
  <2>1. k \in DOMAIN log /\ log'[k] = log[k] /\ ~(Len(log) + 1 <= k)
    BY <1>1, <1>2
  <2>2. s.about # "session"
    <3>1. Len(log) + 1 \in DOMAIN log'
      BY <1>1
    <3> QED BY <1>1, <2>1, <3>1 DEF Latest, About
  <2>3. Latest(k)
    BY <1>1, <2>1 DEF Latest, About
  <2> QED BY <2>1, <2>2, <2>3 DEF StateRight
<1>6. HeldLog'
  <2> SUFFICES ASSUME held' # None PROVE HeldLog'
    BY DEF HeldLog
  <2>1. held # None /\ 1 \in DOMAIN log
    <3>1. held # None /\ log # <<>>
      BY DEF Typed
    <3>2. Len(log) # 0
      <4>1. log = [k \in 1..Len(log) |-> log[k]]
        BY DEF Typed, IsSeq
      <4>2. Len(log) = 0 => log = <<>>
        BY <4>1
      <4> QED BY <3>1, <4>2
    <3> QED BY <1>1, <3>1, <3>2
  <2>2. log'[1] = SessionStatus("ready")
    BY <1>1, <2>1 DEF HeldLog
  <2>3. ASSUME NEW k \in DOMAIN log' PROVE ~ClosedLog(k)'
    <3>1. k \in DOMAIN log \/ k = Len(log) + 1
      BY <1>1
    <3> QED BY <1>1, <2>1, <3>1 DEF HeldLog, ClosedLog
  <2> QED BY <2>2, <2>3 DEF HeldLog
<1>7. NoFalseAccusation' /\ SessionHasGrant'
  BY DEF Untouched, NoFalseAccusation, SessionHasGrant
<1> QED BY <1>3, <1>4, <1>5, <1>6, <1>7

\* It records nothing.
LEMMA SameKnows ==
  ASSUME IInv, Untouched, UNCHANGED <<held, attached, log>>
  PROVE  Knows'
<1> USE DEF IInv, BInv, Knows
<1>1. Lawful' /\ RecordsRight'
  BY SameLog, RecordsKept DEF Kept
<1> QED BY <1>1 DEF Untouched, StateRight, Latest, About, HeldLog, ClosedLog, NoFalseAccusation, SessionHasGrant

\* It begins a log.
LEMMA OpenedKnows ==
  ASSUME IInv, Untouched, ready = None, log' = <<SessionStatus("ready")>>
  PROVE  Knows'
<1> USE DEF IInv, BInv, Knows
<1>1. DOMAIN log' = 1..1 /\ log'[1] = SessionStatus("ready")
  BY Few
<1>2. SessionStatus("ready").about = "session" /\ SessionStatus("ready").state = "ready"
  BY DEF SessionStatus
<1>3. \A k \in DOMAIN log' : log'[k] = SessionStatus("ready")
  BY <1>1
<1>4. Lawful' /\ HeldLog'
  BY <1>1, <1>2, <1>3 DEF Lawful, Continues, HeldLog, ClosedLog
<1>5. RecordsRight' /\ StateRight'
  BY DEF Untouched, RecordsRight, StateRight
<1> QED BY <1>4, <1>5 DEF Untouched, NoFalseAccusation, SessionHasGrant

-----------------------------------------------------------------------------
(* The phases, as the world says more                                      *)

\* The world sends messages of the session it is attached to, or of its end.
SessionSays(ms) ==
  /\ attached /\ Grown(to_agent, to_agent', ms)
  /\ \A i \in 1..Len(ms) :
       ~IsOpened(ms[i]) /\ ~IsResumed(ms[i]) /\ ~(Bears(ms[i]) /\ Suspends(Reported(ms[i])))
  /\ \A i \in 1..Len(ms) :
       IsClosed(ms[i]) => attached' = FALSE /\ \A j \in 1..Len(ms) : j > i => ~Bears(ms[j])
  /\ \A i \in 1..Len(ms) : IsCloseResult(ms[i]) => \E j \in 1..(i - 1) : IsClosed(ms[j])
  /\ held' \in {held, None} /\ discarded' = discarded
  /\ to_world' = to_world \/ TakesRequest
  /\ \A k \in DOMAIN log : k \in DOMAIN log' /\ log'[k] = log[k]
  /\ Len(log) <= Len(log') /\ Len(log') \in Nat

\* A message sent is behind those under way.
Behold(ms) ==
  /\ \A i \in DOMAIN to_agent : i \in Nat /\ i <= Len(to_agent) /\ i \in DOMAIN to_agent' /\ to_agent'[i] = to_agent[i]
  /\ \A i \in DOMAIN to_agent : \A j \in 1..(i - 1) : j \in DOMAIN to_agent
  /\ \A i \in DOMAIN to_agent' :
       \/ i \in DOMAIN to_agent
       \/ /\ i \in Nat /\ i > Len(to_agent) /\ i - Len(to_agent) \in 1..Len(ms)
          /\ to_agent'[i] = ms[i - Len(to_agent)]
  /\ \A i \in 1..Len(ms) : Len(to_agent) + i \in DOMAIN to_agent' /\ to_agent'[Len(to_agent) + i] = ms[i]
  /\ Len(to_agent) \in Nat /\ DOMAIN to_agent = 1..Len(to_agent)

\* It is there when the connection grows by it.
LEMMA BeholdGrown ==
  ASSUME NEW ms, Grown(to_agent, to_agent', ms)
  PROVE  Behold(ms)
BY DEF Grown, Behold

\* The requests behind the one taken.
LEMMA RequestsBehind ==
  ASSUME Typed, to_world' = to_world \/ TakesRequest
  PROVE  /\ \A i \in DOMAIN to_world' : \E j \in DOMAIN to_world : to_world'[i] = to_world[j]
         /\ to_world = <<>> => to_world' = <<>>
         /\ Resuming' => Resuming
<1>1. CASE to_world' = to_world
  BY <1>1 DEF Resuming
<1>2. CASE TakesRequest
  <2>1. \A i \in DOMAIN to_world' : i + 1 \in DOMAIN to_world /\ to_world'[i] = to_world[i + 1]
    BY <1>2, RequestTaken DEF Shrunk
  <2> QED BY <1>2, <2>1, RequestTaken DEF TakesRequest
<1> QED BY <1>1, <1>2

\* What the world says in a session, or of its end, keeps the phases.
LEMMA SaysPhases ==
  ASSUME IInv, Untouched, NEW ms, SessionSays(ms)
  PROVE  Phases'
<1> USE DEF IInv, BInv
<1> DEFINE n == Len(to_agent)
<1>1. Behold(ms) /\ attached
  BY BeholdGrown DEF SessionSays
<1>2. UNCHANGED <<session_state, ready, connection, last_status_seq>>
  BY DEF Untouched
<1>3. /\ \A i \in DOMAIN to_world' : \E j \in DOMAIN to_world : to_world'[i] = to_world[j]
      /\ to_world = <<>> => to_world' = <<>>
      /\ Resuming' => Resuming
  BY RequestsBehind DEF SessionSays
<1>4. ASSUME NEW i \in DOMAIN to_agent', i \notin DOMAIN to_agent
      PROVE  ~IsOpened(to_agent'[i]) /\ ~IsResumed(to_agent'[i]) /\ ~(Bears(to_agent'[i]) /\ Suspends(Reported(to_agent'[i])))
  BY <1>1, <1>4 DEF Behold, SessionSays
<1>5. ~Opening' => ~Opening
  BY <1>1 DEF Behold, Opening
<1>6. \A i \in DOMAIN to_world : to_world[i].method \notin {"open", "resume"}
  BY <1>1 DEF Phases, Asking, Resumption, ResumeAt
<1>7. Asking'
  BY <1>3, <1>6 DEF Asking
<1>8. Opened'
  <2> SUFFICES ASSUME NEW i \in DOMAIN to_agent', IsOpened(to_agent'[i]) PROVE OpenedAt(i)'
    BY DEF Opened
  <2>1. i \in DOMAIN to_agent /\ to_agent'[i] = to_agent[i]
    BY <1>1, <1>4 DEF Behold
  <2>2. OpenedAt(i)
    BY <2>1 DEF Phases, Opened
  <2>3. ready = None /\ to_world' = <<>> /\ discarded' = 0 /\ held' \in {to_agent'[i].body, None}
    BY <1>3, <2>1, <2>2 DEF OpenedAt, SessionSays
  <2>4. \A j \in DOMAIN to_agent' : IsOpened(to_agent'[j]) => j = i
    BY <1>1, <1>4, <2>2 DEF Behold, OpenedAt
  <2>5. \A j \in 1..(i - 1) : ~Bears(to_agent'[j])
    BY <1>1, <2>1, <2>2 DEF Behold, OpenedAt
  <2> QED BY <1>2, <2>3, <2>4, <2>5 DEF OpenedAt
<1>9. Outside'
  BY <1>1, <1>2, <1>5 DEF Phases, Outside
<1>10. Inside'
  <2> SUFFICES ASSUME ready # None PROVE Inside'
    BY <1>2 DEF Inside
  <2>1. last_status_seq \in Nat /\ DOMAIN log = 1..Len(log) /\ Len(log) \in Nat /\ last_status_seq <= Len(log)
    BY Bounds, Elements DEF Typed, Status!TypeOK, Phases, Inside
  <2>2. \A k \in 1..last_status_seq : k \in DOMAIN log /\ log'[k] = log[k]
    BY <2>1 DEF SessionSays
  <2>3. \A k \in 1..last_status_seq : ~ClosedLog(k)'
    BY <2>2 DEF Phases, Inside, ClosedLog
  <2>4. last_status_seq <= Len(log')
    BY <2>1 DEF SessionSays
  <2>5. \A i \in DOMAIN to_world' : to_world'[i].method = "ping" => to_world'[i].ack <= last_status_seq
    BY <1>3 DEF Phases, Inside
  <2>6. held' \in {ready, None} /\ discarded' <= last_status_seq
    BY DEF SessionSays, Phases, Inside
  <2> QED BY <1>2, <2>3, <2>4, <2>5, <2>6 DEF Inside
<1>11. Resumption'
  <2>1. \A i \in DOMAIN to_world' : to_world'[i].method # "resume"
    BY <1>3, <1>6
  <2>2. ASSUME NEW i \in DOMAIN to_agent', IsResumed(to_agent'[i]) PROVE ResumedAt(i)'
    <3>1. i \in DOMAIN to_agent /\ to_agent'[i] = to_agent[i]
      BY <1>1, <1>4, <2>2 DEF Behold
    <3>2. ResumedAt(i)
      BY <2>2, <3>1 DEF Phases, Resumption
    <3>3. \A j \in DOMAIN to_agent' : IsResumed(to_agent'[j]) => j = i
      BY <1>1, <1>4, <3>2 DEF Behold, ResumedAt
    <3>4. to_agent'[i].kind = "result" => to_agent'[i].body.session = ready /\ \A j \in 1..(i - 1) : ~Bears(to_agent'[j])
      BY <1>1, <3>1, <3>2 DEF Behold, ResumedAt
    <3>5. to_agent'[i].kind # "error"
      BY <1>1, <3>1, <3>2 DEF ResumedAt
    <3> QED BY <1>2, <1>3, <3>2, <3>3, <3>4, <3>5 DEF ResumedAt
  <2> QED BY <2>1, <2>2 DEF Resumption
<1>12. Unused'
  <2> SUFFICES ASSUME connection = "new" PROVE Unused'
    BY <1>2 DEF Unused
  <2>1. ~(ready # None /\ session_state = "suspended")
    BY <1>1 DEF Phases, Unused
  <2>2. \A i \in DOMAIN to_agent' : Bears(to_agent'[i]) => ~Suspends(Reported(to_agent'[i]))
    BY <1>1, <1>4 DEF Phases, Unused, Behold
  <2> QED BY <1>2, <2>1, <2>2 DEF Unused
<1>13. Ending'
  <2>1. \A i \in DOMAIN to_agent : ~IsClosed(to_agent[i])
    BY <1>1 DEF Phases, Ending
  <2>2. ASSUME NEW i \in DOMAIN to_agent', IsClosed(to_agent'[i])
        PROVE  attached' = FALSE /\ \A j \in DOMAIN to_agent' : j > i => ~Bears(to_agent'[j])
    <3>1. i \in Nat /\ i > n /\ i - n \in 1..Len(ms) /\ to_agent'[i] = ms[i - n] /\ n \in Nat
      BY <1>1, <2>1, <2>2 DEF Behold
    <3>2. attached' = FALSE /\ \A j \in 1..Len(ms) : j > i - n => ~Bears(ms[j])
      BY <2>2, <3>1 DEF SessionSays
    <3>3. ASSUME NEW j \in DOMAIN to_agent', j > i PROVE ~Bears(to_agent'[j])
      <4>1. j \in Nat /\ j - n \in 1..Len(ms) /\ to_agent'[j] = ms[j - n]
        BY <1>1, <3>1, <3>3 DEF Behold
      <4>2. j - n > i - n
        BY <3>1, <3>3, <4>1
      <4> QED BY <3>2, <4>1, <4>2
    <3> QED BY <3>2, <3>3
  <2>3. ASSUME NEW i \in DOMAIN to_agent', IsCloseResult(to_agent'[i])
        PROVE  \/ ready = None /\ \A j \in 1..(i - 1) : ~IsOpened(to_agent'[j])
               \/ \E j \in 1..(i - 1) : IsClosed(to_agent'[j])
    <3>1. CASE i \in DOMAIN to_agent
      <4>1. IsCloseResult(to_agent[i]) /\ \A j \in 1..(i - 1) : j \in DOMAIN to_agent /\ to_agent'[j] = to_agent[j]
        BY <1>1, <2>3, <3>1 DEF Behold
      <4>2. ready = None /\ \A j \in 1..(i - 1) : ~IsOpened(to_agent[j])
        BY <2>1, <3>1, <4>1 DEF Phases, Ending
      <4> QED BY <4>1, <4>2
    <3>2. CASE i \notin DOMAIN to_agent
      <4>1. i \in Nat /\ i > n /\ i - n \in 1..Len(ms) /\ to_agent'[i] = ms[i - n] /\ n \in Nat
        BY <1>1, <3>2 DEF Behold
      <4>2. PICK j \in 1..(i - n - 1) : IsClosed(ms[j])
        BY <2>3, <4>1 DEF SessionSays
      <4>3. PICK p : p = n + j
        OBVIOUS
      <4>4. p \in 1..(i - 1) /\ j \in 1..Len(ms)
        BY <4>1, <4>2, <4>3
      <4>5. to_agent'[p] = ms[j]
        BY <1>1, <4>3, <4>4 DEF Behold
      <4> QED BY <4>2, <4>4, <4>5
    <3> QED BY <3>1, <3>2
  <2>4. connection' # "closing"
    BY <1>2 DEF Phases, Ending
  <2> QED BY <1>2, <2>2, <2>3, <2>4 DEF Ending
<1> QED BY <1>7, <1>8, <1>9, <1>10, <1>11, <1>12, <1>13 DEF Phases

\* The world records a status of a session whose client is not there.
LEMMA AlonePhases ==
  ASSUME IInv, Untouched, UNCHANGED <<to_agent, to_world, discarded>>, ~attached, ~attached',
         held' \in {held, None}, \A k \in DOMAIN log : k \in DOMAIN log' /\ log'[k] = log[k],
         Len(log) <= Len(log'), Len(log') \in Nat
  PROVE  Phases'
<1> USE DEF IInv, BInv
<1>1. UNCHANGED <<session_state, ready, connection, last_status_seq, to_agent, to_world, discarded>>
  BY DEF Untouched
<1>2. Inside'
  <2> SUFFICES ASSUME ready # None PROVE Inside'
    BY <1>1 DEF Inside
  <2>1. last_status_seq \in Nat /\ DOMAIN log = 1..Len(log) /\ Len(log) \in Nat /\ last_status_seq <= Len(log)
    BY Bounds, Elements DEF Typed, Status!TypeOK, Phases, Inside
  <2>2. \A k \in 1..last_status_seq : k \in DOMAIN log /\ log'[k] = log[k]
    BY <2>1
  <2>3. \A k \in 1..last_status_seq : ~ClosedLog(k)'
    BY <2>2 DEF Phases, Inside, ClosedLog
  <2>4. last_status_seq <= Len(log')
    BY <2>1
  <2> QED BY <1>1, <2>3, <2>4 DEF Phases, Inside
<1>3. Asking' /\ Opened' /\ Outside'
  BY <1>1 DEF Phases, Asking, Opened, OpenedAt, Outside, Quiet, Opening
<1>4. Resumption' /\ Unused' /\ Ending'
  BY <1>1 DEF Phases, Resumption, ResumeAt, ResumedAt, Unused, Ending, Quiet, Resuming
<1> QED BY <1>2, <1>3, <1>4 DEF Phases

\* The world answers without a status.
LEMMA MutePhases ==
  ASSUME IInv, Untouched, NEW m, MuteOf(m)
  PROVE  Phases'
<1> USE DEF IInv, BInv
<1> DEFINE n == Len(to_agent)
<1>1. /\ Shrunk(to_world, to_world') /\ Head(to_world) = to_world[1] /\ 1 \in DOMAIN to_world
      /\ RequestOK(Head(to_world)) /\ to_world # <<>> /\ Behold(<<m>>)
  BY AgentSentOne, BeholdGrown, RequestTaken DEF MuteOf, TakesRequest
<1>2. UNCHANGED <<session_state, ready, connection, last_status_seq, held, attached, log>>
  BY DEF Untouched, MuteOf
<1>3. /\ \A i \in DOMAIN to_world' : i \in Nat /\ i > 0 /\ i + 1 \in DOMAIN to_world /\ to_world'[i] = to_world[i + 1]
      /\ Len(to_world) = Len(to_world') + 1 /\ Len(to_world') \in Nat
      /\ Resuming' => Resuming
  BY <1>1, RequestTaken DEF Shrunk, MuteOf
<1>4. ~Bears(m) /\ ~IsOpened(m) /\ ~IsCloseResult(m) /\ ~IsClosed(m)
  BY DEF MuteOf, IsOpened, IsCloseResult, IsClosed
<1>5. \A i \in DOMAIN to_agent' : i \in DOMAIN to_agent \/ to_agent'[i] = m
  <2>1. \A i \in 1..Len(<<m>>) : <<m>>[i] = m
    <3>1. \A i \in 1..1 : i = 1
      OBVIOUS
    <3> QED BY <3>1, Few
  <2> QED BY <1>1, <2>1 DEF Behold
<1>6. (Quiet => Quiet') /\ (Opening <=> Opening')
  BY <1>1, <1>4, <1>5 DEF Quiet, Opening, Behold
<1>7. Asking'
  <2> SUFFICES ASSUME NEW i \in DOMAIN to_world', to_world'[i].method = "open"
               PROVE  i = Len(to_world') /\ ready = None /\ ~attached /\ Quiet /\ ~Opening
    BY <1>2, <1>6 DEF Asking
  <2>1. i + 1 \in DOMAIN to_world /\ to_world[i + 1].method = "open" /\ i \in Nat
    BY <1>3
  <2>2. i + 1 = Len(to_world) /\ ready = None /\ ~attached /\ Quiet /\ ~Opening
    BY <2>1 DEF Phases, Asking
  <2> QED BY <1>3, <2>1, <2>2
<1>8. ~Opening
  BY <1>1, NoneOpening
<1>9. Opened'
  BY <1>6, <1>8 DEF Opened, Opening
<1>10. Outside'
  BY <1>2, <1>6 DEF Phases, Outside
<1>11. Inside'
  <2> SUFFICES ASSUME ready # None PROVE Inside'
    BY <1>2 DEF Inside
  <2>1. discarded' <= last_status_seq
    BY <1>1 DEF MuteOf, Phases, Inside
  <2>2. \A i \in DOMAIN to_world' : to_world'[i].method = "ping" => to_world'[i].ack <= last_status_seq
    BY <1>3 DEF Phases, Inside
  <2> QED BY <1>2, <2>1, <2>2 DEF Phases, Inside, ClosedLog
<1>12. Resumption'
  <2>1. ASSUME NEW i \in DOMAIN to_world', to_world'[i].method = "resume" PROVE ResumeAt(i)'
    <3>1. i + 1 \in DOMAIN to_world /\ to_world[i + 1].method = "resume" /\ to_world'[i] = to_world[i + 1] /\ i \in Nat /\ i > 0
      BY <1>3, <2>1
    <3>2. ResumeAt(i + 1)
      BY <3>1 DEF Phases, Resumption
    <3>3. Head(to_world).method # "resume"
      <4>1. 1 # i + 1
        BY <3>1
      <4> QED BY <1>1, <3>1, <4>1 DEF OneResume
    <3>4. ~IsResumed(m)
      BY <3>3 DEF MuteOf, IsResumed
    <3>5. \A j \in DOMAIN to_agent' : ~IsResumed(to_agent'[j])
      BY <1>1, <1>5, <3>2, <3>4 DEF Behold, ResumeAt
    <3> QED BY <1>2, <1>6, <3>1, <3>2, <3>5 DEF ResumeAt
  <2>2. ASSUME NEW i \in DOMAIN to_agent', IsResumed(to_agent'[i]) PROVE ResumedAt(i)'
    <3>1. CASE i \in DOMAIN to_agent
      <4>1. to_agent'[i] = to_agent[i] /\ ResumedAt(i)
        BY <1>1, <2>2, <3>1 DEF Phases, Resumption, Behold
      <4>2. ~IsResumed(m)
        BY <1>1, <4>1 DEF ResumedAt, Resuming, MuteOf, IsResumed
      <4>3. \A j \in DOMAIN to_agent' : IsResumed(to_agent'[j]) => j = i
        BY <1>1, <1>5, <4>1, <4>2 DEF Behold, ResumedAt
      <4>4. \A j \in 1..(i - 1) : to_agent'[j] = to_agent[j]
        BY <1>1, <3>1 DEF Behold
      <4> QED BY <1>2, <1>3, <1>6, <4>1, <4>3, <4>4 DEF ResumedAt
    <3>2. CASE i \notin DOMAIN to_agent
      <4>1. to_agent'[i] = m /\ m.kind = "error" /\ Head(to_world).method = "resume" /\ to_world[1].method = "resume"
        BY <1>1, <1>5, <2>2, <3>2 DEF IsResumed, MuteOf
      <4>2. ResumeAt(1)
        BY <1>1, <4>1 DEF Phases, Resumption
      <4>3. ready # None
        <5>1. ready \in 1..MaxOpens
          BY <1>1, <4>1, <4>2 DEF ResumeAt, RequestOK
        <5> QED BY <5>1, Bounds
      <4>4. connection = "used"
        BY <1>1, <4>1 DEF OneResume, Phases, Ending
      <4>5. ~Resuming'
        <5> SUFFICES ASSUME NEW j \in DOMAIN to_world', to_world'[j].method = "resume" PROVE FALSE
          BY DEF Resuming
        <5>1. j + 1 = 1 /\ j \in Nat /\ j > 0
          BY <1>1, <1>3, <4>1 DEF OneResume
        <5> QED BY <5>1
      <4>6. \A j \in DOMAIN to_agent' : IsResumed(to_agent'[j]) => j = i
        <5>1. \A j \in DOMAIN to_agent' : j \notin DOMAIN to_agent => j = Len(to_agent) + 1
          BY <1>1, Few DEF Behold
        <5>2. \A j \in DOMAIN to_agent : ~IsResumed(to_agent'[j])
          BY <1>1, <4>2 DEF ResumeAt, Behold
        <5> QED BY <3>2, <5>1, <5>2
      <4> QED BY <1>2, <1>6, <4>1, <4>2, <4>3, <4>4, <4>5, <4>6 DEF ResumedAt, ResumeAt
    <3> QED BY <3>1, <3>2
  <2> QED BY <2>1, <2>2 DEF Resumption
<1>13. Unused'
  BY <1>1, <1>2, <1>4, <1>5, <1>6 DEF Phases, Unused, Behold
<1>14. Ending'
  <2>1. ASSUME NEW i \in DOMAIN to_agent', IsClosed(to_agent'[i])
        PROVE  ~attached /\ \A j \in DOMAIN to_agent' : j > i => ~Bears(to_agent'[j])
    <3>1. i \in DOMAIN to_agent /\ to_agent'[i] = to_agent[i]
      BY <1>1, <1>4, <1>5, <2>1 DEF Behold
    <3> QED BY <1>1, <1>4, <1>5, <2>1, <3>1 DEF Phases, Ending, Behold
  <2>2. ASSUME NEW i \in DOMAIN to_agent', IsCloseResult(to_agent'[i])
        PROVE  \/ ready = None /\ \A j \in 1..(i - 1) : ~IsOpened(to_agent'[j])
               \/ \E j \in 1..(i - 1) : IsClosed(to_agent'[j])
    <3>1. i \in DOMAIN to_agent /\ to_agent'[i] = to_agent[i] /\ \A j \in 1..(i - 1) : to_agent'[j] = to_agent[j]
      BY <1>1, <1>4, <1>5, <2>2 DEF Behold
    <3> QED BY <2>2, <3>1 DEF Phases, Ending
  <2> QED BY <1>2, <2>1, <2>2 DEF Phases, Ending
<1> QED BY <1>7, <1>9, <1>10, <1>11, <1>12, <1>13, <1>14 DEF Phases

\* Two messages, one behind the other.
LEMMA TwoBehind ==
  ASSUME NEW a, NEW b, Grown(to_agent, to_agent', <<a, b>>)
  PROVE  /\ Behold(<<a, b>>)
         /\ Len(to_agent) + 1 \in DOMAIN to_agent' /\ to_agent'[Len(to_agent) + 1] = a
         /\ Len(to_agent) + 2 \in DOMAIN to_agent' /\ to_agent'[Len(to_agent) + 2] = b
         /\ \A i \in DOMAIN to_agent' :
              \/ i \in DOMAIN to_agent
              \/ i = Len(to_agent) + 1 /\ to_agent'[i] = a
              \/ i = Len(to_agent) + 2 /\ to_agent'[i] = b
<1>1. Behold(<<a, b>>)
  BY BeholdGrown
<1>2. Len(<<a, b>>) = 2 /\ <<a, b>>[1] = a /\ <<a, b>>[2] = b /\ 1 \in 1..2 /\ 2 \in 1..2 /\ Len(to_agent) \in Nat
  BY <1>1, Few DEF Behold
<1>3. ASSUME NEW i \in DOMAIN to_agent', i \notin DOMAIN to_agent
      PROVE  \/ i = Len(to_agent) + 1 /\ to_agent'[i] = a
             \/ i = Len(to_agent) + 2 /\ to_agent'[i] = b
  <2>1. i \in Nat /\ i - Len(to_agent) \in 1..2 /\ to_agent'[i] = <<a, b>>[i - Len(to_agent)]
    BY <1>1, <1>2, <1>3 DEF Behold
  <2>2. i - Len(to_agent) = 1 \/ i - Len(to_agent) = 2
    BY <2>1
  <2>3. CASE i - Len(to_agent) = 1
    BY <1>2, <2>1, <2>3
  <2>4. CASE i - Len(to_agent) = 2
    BY <1>2, <2>1, <2>4
  <2> QED BY <2>2, <2>3, <2>4
<1> QED BY <1>1, <1>2, <1>3 DEF Behold

\* The world opens the session asked for: nothing of another is left.
LEMMA OpenedAlone ==
  ASSUME IInv, Untouched, NEW o, NEW n, OpenedBy(o, n)
  PROVE  /\ ready = None /\ ~attached /\ Quiet /\ ~Opening /\ to_world' = <<>> /\ DOMAIN to_world' = {}
         /\ Grown(to_agent, to_agent', <<o, n>>)
<1> USE DEF IInv, BInv
<1>1. /\ Shrunk(to_world, to_world') /\ 1 \in DOMAIN to_world /\ to_world[1].method = "open"
  BY RequestTaken DEF OpenedBy
<1>2. 1 = Len(to_world) /\ ready = None /\ ~attached /\ Quiet /\ ~Opening
  BY <1>1 DEF Phases, Asking
<1>3. Len(to_world') = 0 /\ to_world' = [i \in 1..Len(to_world') |-> to_world'[i]]
  BY <1>1, <1>2 DEF Shrunk, IsSeq
<1>4. to_world' = <<>>
  BY <1>3
<1>5. Grown(to_agent, to_agent', <<o, n>>)
  BY Joined, Few DEF OpenedBy, Typed
<1> QED BY <1>2, <1>4, <1>5, Few

\* A session just opened keeps the phases: its client will learn of it.
LEMMA OpenedPhases ==
  ASSUME IInv, Untouched, NEW o, NEW n, OpenedBy(o, n)
  PROVE  Phases'
<1> USE DEF IInv, BInv
<1> DEFINE l == Len(to_agent)
<1>1. /\ ready = None /\ ~attached /\ Quiet /\ ~Opening /\ to_world' = <<>> /\ DOMAIN to_world' = {}
      /\ UNCHANGED <<session_state, ready, connection, last_status_seq>>
  BY OpenedAlone DEF Untouched
<1>2. /\ Behold(<<o, n>>)
      /\ l + 1 \in DOMAIN to_agent' /\ to_agent'[l + 1] = o
      /\ \A i \in DOMAIN to_agent' : i \in DOMAIN to_agent \/ (i = l + 1 /\ to_agent'[i] = o) \/ (i = l + 2 /\ to_agent'[i] = n)
  BY OpenedAlone, TwoBehind
<1>3. \A i \in DOMAIN to_agent : ~Bears(to_agent'[i]) /\ ~IsOpened(to_agent'[i]) /\ ~IsResumed(to_agent'[i])
  <2>1. \A i \in DOMAIN to_agent : ~IsResumed(to_agent[i])
    BY <1>1 DEF Phases, Resumption, ResumedAt
  <2> QED BY <1>1, <1>2, <2>1 DEF Quiet, Opening, Behold
<1>4. IsOpened(o) /\ ~Bears(o) /\ ~IsResumed(o) /\ ~IsCloseResult(o) /\ o.body = held' /\ discarded' = 0
  BY DEF OpenedBy, IsOpened, Bears, Reporting, IsResumed, IsCloseResult
<1>5. ~IsOpened(n) /\ ~IsResumed(n) /\ ~IsCloseResult(n) /\ ~Suspends(Reported(n)) /\ ~IsClosed(n)
  BY DEF OpenedBy, IsOpened, IsResumed, IsCloseResult, Suspends, SessionStatus, IsClosed
<1>6. Asking' /\ Inside'
  BY <1>1 DEF Asking, Inside
<1>7. Opened'
  <2> SUFFICES ASSUME NEW i \in DOMAIN to_agent', IsOpened(to_agent'[i]) PROVE OpenedAt(i)'
    BY DEF Opened
  <2>1. i = l + 1 /\ to_agent'[i] = o /\ l \in Nat
    BY <1>2, <1>3, <1>5 DEF Behold
  <2>2. \A j \in DOMAIN to_agent' : IsOpened(to_agent'[j]) => j = i
    BY <1>2, <1>3, <1>5, <2>1
  <2>3. \A j \in 1..(i - 1) : ~Bears(to_agent'[j])
    BY <1>2, <1>3, <2>1 DEF Behold
  <2> QED BY <1>1, <1>4, <2>1, <2>2, <2>3 DEF OpenedAt
<1>8. Outside'
  BY <1>2, <1>4 DEF Outside, Opening
<1>9. Resumption'
  <2>1. \A i \in DOMAIN to_agent' : ~IsResumed(to_agent'[i])
    BY <1>2, <1>3, <1>4, <1>5
  <2> QED BY <1>1, <2>1 DEF Resumption
<1>10. Unused'
  BY <1>1, <1>2, <1>3, <1>4, <1>5 DEF Unused
<1>11. Ending'
  <2>1. \A i \in DOMAIN to_agent' : ~IsClosed(to_agent'[i])
    BY <1>2, <1>3, <1>4, <1>5 DEF IsClosed
  <2>2. ASSUME NEW i \in DOMAIN to_agent', IsCloseResult(to_agent'[i])
        PROVE  ready' = None /\ \A j \in 1..(i - 1) : ~IsOpened(to_agent'[j])
    <3>1. i \in DOMAIN to_agent
      BY <1>2, <1>4, <1>5, <2>2
    <3> QED BY <1>1, <1>2, <1>3, <3>1 DEF Behold
  <2>3. connection' # "closing"
    BY <1>1 DEF Phases, Ending
  <2> QED BY <2>1, <2>2, <2>3 DEF Ending
<1> QED BY <1>6, <1>7, <1>8, <1>9, <1>10, <1>11 DEF Phases

\* The world resumes the session from the ack point: nothing of it was in flight.
LEMMA ResumedFrom ==
  ASSUME IInv, Untouched, NEW ms, NEW from, ResumedBy(ms, from)
  PROVE  /\ ready # None /\ held = ready /\ from = last_status_seq /\ last_status_seq <= Len(log)
         /\ ~attached /\ Quiet /\ connection = "used" /\ ~Resuming'
         /\ \A i \in DOMAIN to_agent : ~IsResumed(to_agent[i])
         /\ Grown(to_agent, to_agent', ms)
<1> USE DEF IInv, BInv
<1>1. /\ Shrunk(to_world, to_world') /\ Head(to_world) = to_world[1] /\ 1 \in DOMAIN to_world
      /\ RequestOK(Head(to_world)) /\ to_world[1].method = "resume" /\ held = to_world[1].session
  BY RequestTaken DEF ResumedBy
<1>2. ResumeAt(1)
  BY <1>1 DEF Phases, Resumption
<1>3. ready # None
  <2>1. ready \in 1..MaxOpens
    BY <1>1, <1>2 DEF ResumeAt, RequestOK
  <2> QED BY <2>1, Bounds
<1>4. from = last_status_seq
  <2>1. to_world[1].ack = last_status_seq /\ discarded <= last_status_seq
    BY <1>2, <1>3 DEF ResumeAt, Phases, Inside
  <2>2. last_status_seq \in Nat /\ discarded \in Nat
    BY Bounds DEF Typed, Status!TypeOK
  <2> QED BY <1>1, <2>1, <2>2 DEF ResumedBy
<1>5. connection = "used"
  BY <1>1 DEF OneResume, Phases, Ending
<1>6. ~Resuming'
  <2> SUFFICES ASSUME NEW i \in DOMAIN to_world', to_world'[i].method = "resume" PROVE FALSE
    BY DEF Resuming
  <2>1. i \in Nat /\ i > 0 /\ i + 1 \in DOMAIN to_world /\ to_world'[i] = to_world[i + 1]
    BY <1>1 DEF Shrunk
  <2>2. i + 1 = 1
    BY <1>1, <2>1 DEF OneResume
  <2> QED BY <2>1, <2>2
<1>7. Grown(to_agent, to_agent', ms)
  BY Joined DEF ResumedBy, Typed
<1> QED BY <1>1, <1>2, <1>3, <1>4, <1>5, <1>6, <1>7 DEF ResumeAt, Phases, Inside

\* The end of the session is not among what is replayed.
LEMMA ReplayOpen ==
  ASSUME IInv, NEW ms, NEW from, ResumedBy(ms, from), held # None, NEW i \in 2..Len(ms)
  PROVE  /\ ms[i].kind = "status" /\ ~IsClosed(ms[i])
<1> USE DEF IInv, BInv
<1>1. ms[i].kind = "status" /\ NumberOf(ms[i]) \in 1..(Len(log) + 1)
  BY DEF ResumedBy
<1>2. DOMAIN log = 1..Len(log) /\ Len(log) \in Nat
  BY Elements DEF Typed
<1>3. CASE NumberOf(ms[i]) <= Len(log)
  <2>1. NumberOf(ms[i]) \in DOMAIN log /\ Reported(ms[i]) = log[NumberOf(ms[i])]
    BY <1>1, <1>2, <1>3 DEF ResumedBy
  <2> QED BY <1>1, <2>1 DEF Knows, HeldLog, ClosedLog, IsClosed
<1>4. CASE NumberOf(ms[i]) = Len(log) + 1
  BY <1>1, <1>4 DEF ResumedBy, IsClosed, SessionStatus
<1> QED BY <1>1, <1>2, <1>3, <1>4

\* So does a session just resumed.
LEMMA ResumedPhases ==
  ASSUME IInv, Untouched, NEW ms, NEW from, ResumedBy(ms, from)
  PROVE  Phases'
<1> USE DEF IInv, BInv
<1> DEFINE l == Len(to_agent)
<1>1. /\ ready # None /\ held = ready /\ from = last_status_seq /\ last_status_seq <= Len(log)
      /\ Quiet /\ connection = "used" /\ ~Resuming'
      /\ \A i \in DOMAIN to_agent : ~IsResumed(to_agent[i])
      /\ Behold(ms)
  BY ResumedFrom, BeholdGrown
<1>2. UNCHANGED <<session_state, ready, connection, last_status_seq>> /\ held' = ready /\ attached' = TRUE
      /\ discarded' = last_status_seq
  BY <1>1 DEF Untouched, ResumedBy
<1>3. IsSeq(ms) /\ Len(ms) > 1 /\ Len(ms) \in Nat
  BY DEF ResumedBy, IsSeq
<1>4. ms[1].kind = "result" /\ ms[1].method = "resume" /\ ms[1].body.session = ready
      /\ \A i \in 2..Len(ms) : ms[i].kind = "status" /\ ~IsClosed(ms[i])
  BY <1>1, ReplayOpen DEF ResumedBy
<1>5. \A i \in DOMAIN to_agent' :
        \/ i \in DOMAIN to_agent /\ to_agent'[i] = to_agent[i]
        \/ i = l + 1 /\ to_agent'[i] = ms[1]
        \/ to_agent'[i].kind = "status" /\ ~IsClosed(to_agent'[i])
  <2> SUFFICES ASSUME NEW i \in DOMAIN to_agent', i \notin DOMAIN to_agent
               PROVE  \/ i = l + 1 /\ to_agent'[i] = ms[1]
                      \/ to_agent'[i].kind = "status" /\ ~IsClosed(to_agent'[i])
    BY <1>1 DEF Behold
  <2>1. i \in Nat /\ i - l \in 1..Len(ms) /\ to_agent'[i] = ms[i - l] /\ l \in Nat
    BY <1>1 DEF Behold
  <2>2. CASE i - l = 1
    BY <2>1, <2>2
  <2>3. CASE i - l # 1
    <3>1. i - l \in 2..Len(ms)
      BY <1>3, <2>1, <2>3
    <3> QED BY <1>4, <2>1, <3>1
  <2> QED BY <2>2, <2>3
<1>6. \A i \in DOMAIN to_world' : \E j \in DOMAIN to_world : to_world'[i] = to_world[j]
  BY RequestsBehind DEF ResumedBy
<1>7. \A i \in DOMAIN to_agent' : ~IsOpened(to_agent'[i])
  <2>1. \A i \in DOMAIN to_agent : ~IsOpened(to_agent[i])
    BY <1>1, NoneOpened
  <2> QED BY <1>4, <1>5, <2>1 DEF IsOpened
<1>8. Asking' /\ Opened' /\ Outside' /\ Unused'
  <2>1. \A i \in DOMAIN to_world' : to_world'[i].method # "open"
    BY <1>1, <1>6, NoneOpened
  <2> QED BY <1>1, <1>2, <1>7, <2>1 DEF Asking, Opened, Outside, Unused
<1>9. Inside'
  <2>1. last_status_seq \in Nat /\ DOMAIN log = 1..Len(log) /\ Len(log) \in Nat
    BY Bounds, Elements DEF Typed, Status!TypeOK
  <2>2. StatusOK(SessionStatus("active"))
    BY DEF StatusOK, SessionStatus
  <2>3. Len(log') = Len(log) + 1 /\ \A k \in DOMAIN log : log'[k] = log[k]
    BY <2>2, LogSent DEF ResumedBy
  <2>4. \A k \in 1..last_status_seq : k \in DOMAIN log /\ log'[k] = log[k]
    BY <1>1, <2>1, <2>3
  <2>5. \A k \in 1..last_status_seq : ~ClosedLog(k)'
    BY <1>1, <2>4 DEF Phases, Inside, ClosedLog
  <2>6. last_status_seq <= Len(log') /\ last_status_seq <= last_status_seq
    BY <1>1, <2>1, <2>3
  <2>7. \A i \in DOMAIN to_world' : to_world'[i].method = "ping" => to_world'[i].ack <= last_status_seq
    BY <1>1, <1>6 DEF Phases, Inside
  <2> QED BY <1>2, <2>5, <2>6, <2>7 DEF Inside
<1>10. Resumption'
  <2>1. ASSUME NEW i \in DOMAIN to_agent', IsResumed(to_agent'[i]) PROVE ResumedAt(i)'
    <3>1. \A j \in DOMAIN to_agent' : IsResumed(to_agent'[j]) => j = l + 1 /\ to_agent'[j] = ms[1]
      BY <1>1, <1>5 DEF IsResumed
    <3>2. i = l + 1 /\ to_agent'[i] = ms[1] /\ l \in Nat
      BY <1>1, <2>1, <3>1 DEF Behold
    <3>3. \A j \in 1..(i - 1) : ~Bears(to_agent'[j])
      BY <1>1, <3>2 DEF Behold, Quiet
    <3> QED BY <1>1, <1>2, <1>4, <3>1, <3>2, <3>3 DEF ResumedAt
  <2> QED BY <1>1, <2>1 DEF Resumption, Resuming
<1>11. Ending'
  <2>1. \A i \in DOMAIN to_agent' : ~IsClosed(to_agent'[i])
    BY <1>1, <1>4, <1>5 DEF IsClosed, Quiet, Bears, Reporting
  <2>2. ASSUME NEW i \in DOMAIN to_agent', IsCloseResult(to_agent'[i]) PROVE FALSE
    <3>1. i \in DOMAIN to_agent /\ IsCloseResult(to_agent[i])
      BY <1>4, <1>5, <2>2 DEF IsCloseResult
    <3>2. \E j \in 1..(i - 1) : IsClosed(to_agent[j])
      BY <1>1, <3>1 DEF Phases, Ending
    <3> QED BY <1>1, <3>1, <3>2 DEF Behold, Quiet, IsClosed
  <2> QED BY <1>1, <1>2, <2>1, <2>2 DEF Ending
<1> QED BY <1>8, <1>9, <1>10, <1>11 DEF Phases

-----------------------------------------------------------------------------
(* The chain, as the world says more                                       *)

\* What it says reaches up to the log, if what was in flight did.
LEMMA CompleteGrows ==
  ASSUME Complete, Base \in Nat, NEW ms, Appends(ms), DOMAIN log = 1..Len(log), Len(log) \in Nat, Len(log') \in Nat,
         attached' => \A k \in 1..Len(log') :
           \/ k <= Base
           \/ attached /\ k \in DOMAIN log
           \/ \E i \in 1..Len(ms) : Bears(ms[i]) /\ NumberOf(ms[i]) = k
  PROVE  Complete'
<1>1. Behold(ms)
  BY BeholdGrown DEF Appends
<1>2. PICK b \in Nat : b = Base
  OBVIOUS
<1>3. Base' = b
  BY <1>2 DEF Appends, Base
<1> SUFFICES ASSUME NEW k \in Nat, attached', k \in (b + 1)..Len(log')
             PROVE  \E i \in DOMAIN to_agent' : Carries(i, k)'
  BY <1>3 DEF Complete, Carries
<1>4. k \in 1..Len(log') /\ ~(k <= b)
  OBVIOUS
<1>5. CASE attached /\ k \in DOMAIN log
  <2>1. k \in (Base + 1)..Len(log)
    BY <1>2, <1>4, <1>5
  <2>2. PICK i \in DOMAIN to_agent : Carries(i, k)
    BY <1>5, <2>1 DEF Complete
  <2>3. Carries(i, k)' /\ i \in DOMAIN to_agent'
    BY <1>1, <2>2 DEF Behold, Carries
  <2> QED BY <2>3
<1>6. CASE \E i \in 1..Len(ms) : Bears(ms[i]) /\ NumberOf(ms[i]) = k
  <2>1. PICK i \in 1..Len(ms) : Bears(ms[i]) /\ NumberOf(ms[i]) = k
    BY <1>6
  <2>2. PICK p : p = Len(to_agent) + i
    OBVIOUS
  <2>3. p \in DOMAIN to_agent' /\ to_agent'[p] = ms[i]
    BY <1>1, <2>2 DEF Behold
  <2>4. Carries(p, k)'
    BY <2>1, <2>3 DEF Carries
  <2> QED BY <2>3, <2>4
<1> QED BY <1>2, <1>4, <1>5, <1>6

\* While the world is attached, each status is processed or in flight, and so is the one
\* before the next.
LEMMA Preceded ==
  ASSUME IInv, attached, NEW k \in 1..(Len(log) + 1)
  PROVE  /\ k <= Base + 1 \/ \E j \in DOMAIN to_agent : Carries(j, k - 1)
         /\ k <= Len(log) => k <= Base \/ \E j \in DOMAIN to_agent : Carries(j, k)
<1> USE DEF IInv, BInv
<1>1. Base \in Nat /\ Len(log) \in Nat
  BY Bounds DEF Typed, Status!TypeOK, Base, IsSeq
<1>2. \A i \in (Base + 1)..Len(log) : \E j \in DOMAIN to_agent : Carries(j, i)
  BY DEF Chain, Complete
<1>3. ~(k <= Base + 1) => k - 1 \in (Base + 1)..Len(log)
  BY <1>1
<1>4. k <= Len(log) /\ ~(k <= Base) => k \in (Base + 1)..Len(log)
  BY <1>1
<1> QED BY <1>2, <1>3, <1>4

\* The client's place is a number, and so is the world's.
LEMMA BaseTyped ==
  ASSUME Typed
  PROVE  Base \in Nat /\ DOMAIN log = 1..Len(log) /\ Len(log) \in Nat
BY Bounds, Elements DEF Typed, Status!TypeOK, Base

\* An answer without a status.
LEMMA MuteChain ==
  ASSUME IInv, Untouched, NEW m, MuteOf(m)
  PROVE  Chain'
<1> USE DEF IInv, BInv
<1>1. Grown(to_agent, to_agent', <<m>>) /\ UNCHANGED <<ready, last_status_seq, seen_above, processed, log, attached>>
  BY AgentSentOne DEF MuteOf, Untouched
<1>2. \A i \in 1..Len(<<m>>) : <<m>>[i] = m
  <2>1. \A i \in 1..1 : i = 1
    OBVIOUS
  <2> QED BY <2>1, Few
<1>3. ~Bears(m) /\ ~(m.kind = "result" /\ m.method = "pull")
  BY DEF MuteOf, Bears, Reporting
<1>4. \A i \in 1..Len(<<m>>) : Follows(<<m>>, i)
  BY <1>2, <1>3 DEF Follows
<1>5. Appends(<<m>>)
  BY <1>1, <1>4 DEF Appends
<1>6. Complete'
  <2>1. attached' => \A k \in 1..Len(log') : attached /\ k \in DOMAIN log
    BY <1>1, BaseTyped
  <2>2. Len(log') \in Nat
    BY <1>1, BaseTyped
  <2> QED BY <1>5, <2>1, <2>2, BaseTyped, CompleteGrows DEF Chain
<1> QED BY <1>5, <1>6, ChainGrows DEF Chain

\* A status, new or repeated.
LEMMA OneChain ==
  ASSUME IInv, Untouched, attached, NEW m, Grown(to_agent, to_agent', <<m>>), Bears(m),
         NumberOf(m) \in 1..(Len(log) + 1), NumberOf(m) \in DOMAIN log', log'[NumberOf(m)] = Reported(m),
         m.kind = "result" /\ m.method = "pull" => NumberOf(m) <= Len(log),
         \A k \in DOMAIN log : k \in DOMAIN log' /\ log'[k] = log[k],
         log' = log \/ (Len(log') = Len(log) + 1 /\ NumberOf(m) = Len(log) + 1)
  PROVE  Chain'
<1> USE DEF IInv, BInv
<1>1. Base \in Nat /\ DOMAIN log = 1..Len(log) /\ Len(log) \in Nat /\ Len(log') \in Nat
  <2>1. Base \in Nat /\ DOMAIN log = 1..Len(log) /\ Len(log) \in Nat
    BY BaseTyped
  <2> QED BY <2>1
<1>2. Len(<<m>>) = 1 /\ <<m>>[1] = m /\ 1 \in 1..1 /\ \A i \in 1..1 : i = 1
  BY Few
<1>3. Follows(<<m>>, 1)
  BY <1>2, Preceded DEF Follows
<1>4. UNCHANGED <<ready, last_status_seq, seen_above, processed>>
  BY DEF Untouched
<1>5. Appends(<<m>>)
  BY <1>2, <1>3, <1>4 DEF Appends
<1>6. \A k \in 1..Len(log') : k \in DOMAIN log \/ k = NumberOf(m)
  BY <1>1
<1>7. \A k \in 1..Len(log') : (attached /\ k \in DOMAIN log) \/ \E i \in 1..Len(<<m>>) : Bears(<<m>>[i]) /\ NumberOf(<<m>>[i]) = k
  BY <1>2, <1>6
<1>8. Complete'
  BY <1>1, <1>5, <1>7, CompleteGrows DEF Chain
<1> QED BY <1>5, <1>8, ChainGrows DEF Chain

\* The end of the session, and the answer behind it.
LEMMA ClosedChain ==
  ASSUME IInv, Untouched, NEW n, NEW r, ClosedBy(n, r)
  PROVE  Chain'
<1> USE DEF IInv, BInv
<1>1. Base \in Nat /\ DOMAIN log = 1..Len(log) /\ Len(log) \in Nat
  BY BaseTyped
<1>2. StatusOK(SessionStatus("closed"))
  BY DEF StatusOK, SessionStatus
<1>3. /\ DOMAIN log' = 1..(Len(log) + 1) /\ log'[Len(log) + 1] = SessionStatus("closed")
      /\ \A k \in DOMAIN log : log'[k] = log[k]
  BY <1>2, LogSent DEF ClosedBy
<1>4. Len(<<n, r>>) = 2 /\ <<n, r>>[1] = n /\ <<n, r>>[2] = r /\ \A i \in 1..2 : i = 1 \/ i = 2
  BY Few
<1>5. Len(log) + 1 \in 1..(Len(log) + 1) /\ Len(log) + 1 \in DOMAIN log'
  BY <1>1, <1>3
<1>6. Follows(<<n, r>>, 1)
  <2>1. n.kind = "status" /\ NumberOf(n) = Len(log) + 1 /\ log'[NumberOf(n)] = Reported(n) /\ attached
    BY <1>3 DEF ClosedBy
  <2> QED BY <1>4, <1>5, <2>1, Preceded DEF Follows
<1>7. Follows(<<n, r>>, 2)
  BY <1>4 DEF Follows, ClosedBy, Bears, Reporting
<1>8. Grown(to_agent, to_agent', <<n, r>>) /\ attached' = FALSE
  BY Joined, Few DEF ClosedBy, Typed
<1>9. \A k \in DOMAIN log : k \in DOMAIN log' /\ log'[k] = log[k]
  BY <1>1, <1>3
<1>10. UNCHANGED <<ready, last_status_seq, seen_above, processed>>
  BY DEF Untouched
<1>11. Appends(<<n, r>>)
  BY <1>4, <1>6, <1>7, <1>8, <1>9, <1>10 DEF Appends
<1> QED BY <1>8, <1>11, ChainGrows DEF Chain, Complete

\* A status that nobody hears.
LEMMA AloneChain ==
  ASSUME IInv, Untouched, UNCHANGED to_agent, ~attached',
         \A k \in DOMAIN log : k \in DOMAIN log' /\ log'[k] = log[k]
  PROVE  Chain'
<1>1. UNCHANGED <<ready, last_status_seq, seen_above, processed, to_agent>>
  BY DEF Untouched
<1>2. Recorded'
  BY <1>1 DEF IInv, Chain, Recorded
<1> QED BY <1>1, <1>2 DEF IInv, Chain, NoGap, Chained, Complete, Pulled, Base, Carries

\* The first status of a session.
LEMMA OpenedChain ==
  ASSUME IInv, Untouched, NEW o, NEW n, OpenedBy(o, n)
  PROVE  Chain'
<1> USE DEF IInv, BInv
<1>1. ready = None /\ Quiet /\ Grown(to_agent, to_agent', <<o, n>>)
  BY OpenedAlone
<1>2. Base \in Nat /\ DOMAIN log = 1..Len(log) /\ Len(log) \in Nat /\ Base = 0
  BY <1>1, BaseTyped DEF Base
<1>3. Len(log') = 1 /\ log'[1] = SessionStatus("ready") /\ 1 \in DOMAIN log'
  BY Few DEF OpenedBy
<1>4. Len(<<o, n>>) = 2 /\ <<o, n>>[1] = o /\ <<o, n>>[2] = n /\ 2 \in 1..2 /\ \A i \in 1..2 : i = 1 \/ i = 2
  BY Few
<1>5. Follows(<<o, n>>, 1)
  BY <1>4 DEF Follows, OpenedBy, Bears, Reporting
<1>6. n.kind = "status" /\ NumberOf(n) = 1 /\ Reported(n) = SessionStatus("ready") /\ Bears(n)
  BY DEF OpenedBy, Bears
<1>7. Follows(<<o, n>>, 2)
  BY <1>2, <1>3, <1>4, <1>6 DEF Follows
<1>8. UNCHANGED <<ready, last_status_seq, seen_above, processed>>
  BY DEF Untouched
<1>9. Appends(<<o, n>>)
  BY <1>1, <1>4, <1>5, <1>7, <1>8 DEF Appends
<1>10. \A k \in 1..Len(log') : \E i \in 1..Len(<<o, n>>) : Bears(<<o, n>>[i]) /\ NumberOf(<<o, n>>[i]) = k
  <2>1. \A k \in 1..1 : k = 1
    OBVIOUS
  <2> QED BY <1>3, <1>4, <1>6, <2>1
<1>11. Complete'
  BY <1>2, <1>3, <1>9, <1>10, CompleteGrows DEF Chain
<1> QED BY <1>9, <1>11, ChainGrows DEF Chain

\* The replay, and what is live behind it.
LEMMA ResumedChain ==
  ASSUME IInv, Untouched, NEW ms, NEW from, ResumedBy(ms, from)
  PROVE  Chain'
<1> USE DEF IInv, BInv
<1>1. ready # None /\ from = last_status_seq /\ last_status_seq <= Len(log) /\ Quiet /\ Grown(to_agent, to_agent', ms)
  BY ResumedFrom
<1>2. Base \in Nat /\ DOMAIN log = 1..Len(log) /\ Len(log) \in Nat /\ Base = last_status_seq
  BY <1>1, BaseTyped DEF Base
<1> DEFINE L == last_status_seq
<1>3. StatusOK(SessionStatus("active"))
  BY DEF StatusOK, SessionStatus
<1>4. /\ DOMAIN log' = 1..(Len(log) + 1) /\ log'[Len(log) + 1] = SessionStatus("active") /\ Len(log') = Len(log) + 1
      /\ \A k \in DOMAIN log : log'[k] = log[k]
  BY <1>3, LogSent DEF ResumedBy
<1>5. Len(ms) = Len(log) - L + 2 /\ \A i \in 2..Len(ms) : NumberOf(ms[i]) = L + i - 1
  BY <1>1 DEF ResumedBy
<1>6. ms[1].kind = "result" /\ ms[1].method = "resume" /\ \A i \in 2..Len(ms) : ms[i].kind = "status"
  BY DEF ResumedBy
<1>7. ASSUME NEW i \in 2..Len(ms)
      PROVE  NumberOf(ms[i]) \in DOMAIN log' /\ log'[NumberOf(ms[i])] = Reported(ms[i])
  <2>1. NumberOf(ms[i]) \in 1..(Len(log) + 1)
    BY DEF ResumedBy
  <2>2. CASE NumberOf(ms[i]) <= Len(log)
    <3>1. NumberOf(ms[i]) \in DOMAIN log /\ Reported(ms[i]) = log[NumberOf(ms[i])]
      BY <1>2, <2>1, <2>2 DEF ResumedBy
    <3> QED BY <1>2, <1>4, <3>1
  <2>3. CASE NumberOf(ms[i]) = Len(log) + 1
    BY <1>2, <1>4, <2>3 DEF ResumedBy
  <2> QED BY <1>2, <2>1, <2>2, <2>3
<1>8. ASSUME NEW i \in 2..Len(ms)
      PROVE  NumberOf(ms[i]) <= L + 1 \/ \E j \in 1..(i - 1) : Bears(ms[j]) /\ NumberOf(ms[j]) = NumberOf(ms[i]) - 1
  <2>1. CASE i = 2
    BY <1>2, <1>5, <2>1
  <2>2. CASE i # 2
    <3>1. PICK j \in 2..Len(ms) : j = i - 1 /\ j \in 1..(i - 1)
      BY <2>2
    <3>2. NumberOf(ms[j]) = NumberOf(ms[i]) - 1
      BY <1>2, <1>5, <3>1
    <3>3. Bears(ms[j])
      BY <1>6 DEF Bears
    <3> QED BY <3>1, <3>2, <3>3
  <2> QED BY <2>1, <2>2
<1>9. \A i \in 1..Len(ms) : Follows(ms, i)
  <2> SUFFICES ASSUME NEW i \in 1..Len(ms) PROVE Follows(ms, i)
    OBVIOUS
  <2>1. CASE i = 1
    BY <1>6, <2>1 DEF Follows, Bears, Reporting
  <2>2. CASE i # 1
    <3>1. i \in 2..Len(ms)
      BY <2>2
    <3> QED BY <1>2, <1>6, <1>7, <1>8, <3>1 DEF Follows
  <2> QED BY <2>1, <2>2
<1>10. UNCHANGED <<ready, last_status_seq, seen_above, processed>>
  BY DEF Untouched
<1>11. Appends(ms)
  BY <1>1, <1>9, <1>10 DEF Appends
<1>12. ASSUME NEW k \in 1..Len(log'), ~(k <= Base)
       PROVE  \E i \in 1..Len(ms) : Bears(ms[i]) /\ NumberOf(ms[i]) = k
  <2>1. PICK i : i = k - L + 1
    OBVIOUS
  <2>2. i \in 2..Len(ms) /\ L + i - 1 = k
    BY <1>2, <1>4, <1>5, <1>12, <2>1
  <2>3. Bears(ms[i]) /\ NumberOf(ms[i]) = k /\ i \in 1..Len(ms)
    BY <1>5, <1>6, <2>2 DEF Bears
  <2> QED BY <2>3
<1>13. Complete'
  <2>1. Len(log') \in Nat
    BY <1>2, <1>4
  <2> QED BY <1>2, <1>11, <1>12, <2>1, CompleteGrows DEF Chain
<1> QED BY <1>11, <1>13, ChainGrows DEF Chain

-----------------------------------------------------------------------------
(* The invariant                                                           *)

\* The world answers with a status, or ends the session, or says something by itself:
\* then it is attached to the session, or its client is not there.
LEMMA ReportIInv ==
  ASSUME IInv, Untouched, NEW m, NEW s, ReportOf(m, s)
  PROVE  Phases' /\ Chain' /\ Knows'
<1> USE DEF IInv, BInv
<1>1. /\ Grown(to_agent, to_agent', <<m>>) /\ Len(<<m>>) = 1 /\ <<m>>[1] = m /\ \A i \in 1..1 : i = 1
      /\ attached /\ UNCHANGED <<held, attached, discarded>> /\ log' = Append(log, s) /\ StatusOK(s) /\ TakesRequest
  BY Joined, Few DEF ReportOf, Typed
<1>2. /\ m.kind = "result" /\ m.method \in Reporting \ {"pull"} /\ Bears(m)
      /\ NumberOf(m) = Len(log) + 1 /\ Reported(m) = s /\ s.about = "action"
  BY DEF ReportOf, Bears
<1>3. /\ Len(log') = Len(log) + 1 /\ Len(log) \in Nat /\ log'[Len(log) + 1] = s
      /\ \A k \in DOMAIN log : k \in DOMAIN log' /\ log'[k] = log[k]
      /\ Len(log) + 1 \in DOMAIN log' /\ Len(log) + 1 \in 1..(Len(log) + 1)
      /\ Len(log) <= Len(log') /\ Len(log') \in Nat
  BY <1>1, LogSent
<1>4. ~IsOpened(m) /\ ~IsResumed(m) /\ ~IsClosed(m) /\ ~IsCloseResult(m) /\ ~Suspends(Reported(m))
  BY <1>2 DEF IsOpened, IsResumed, IsClosed, IsCloseResult, Suspends, Reporting
<1>5. SessionSays(<<m>>)
  BY <1>1, <1>3, <1>4 DEF SessionSays
<1>6. Chain'
  BY <1>1, <1>2, <1>3, OneChain
<1>7. Knows'
  BY <1>1, <1>2, GrowsKnows DEF ReportOf
<1> QED BY <1>5, <1>6, <1>7, SaysPhases

\* It answers with a status it reported before.
LEMMA RepeatIInv ==
  ASSUME IInv, Untouched, NEW m, NEW k, RepeatOf(m, k)
  PROVE  Phases' /\ Chain' /\ Knows'
<1> USE DEF IInv, BInv
<1>1. /\ Grown(to_agent, to_agent', <<m>>) /\ Len(<<m>>) = 1 /\ <<m>>[1] = m /\ \A i \in 1..1 : i = 1
      /\ attached /\ UNCHANGED <<held, attached, discarded, log>> /\ TakesRequest
  BY Joined, Few DEF RepeatOf, Typed
<1>2. /\ m.kind = "result" /\ m.method \in Reporting /\ Bears(m)
      /\ NumberOf(m) = k /\ Reported(m) = log[k] /\ log[k].about = "action" /\ k \in DOMAIN log
  BY DEF RepeatOf, Bears
<1>3. DOMAIN log = 1..Len(log) /\ Len(log) \in Nat
  BY BaseTyped
<1>4. k \in 1..(Len(log) + 1) /\ k <= Len(log) /\ Len(log) <= Len(log)
  BY <1>2, <1>3
<1>5. ~IsOpened(m) /\ ~IsResumed(m) /\ ~IsClosed(m) /\ ~IsCloseResult(m) /\ ~Suspends(Reported(m))
  BY <1>2 DEF IsOpened, IsResumed, IsClosed, IsCloseResult, Suspends, Reporting
<1>6. SessionSays(<<m>>)
  BY <1>1, <1>3, <1>4, <1>5 DEF SessionSays
<1>7. Chain'
  BY <1>1, <1>2, <1>4, OneChain
<1> QED BY <1>1, <1>6, <1>7, SaysPhases, SameKnows

\* It ends the session at the client's request.
LEMMA ClosedIInv ==
  ASSUME IInv, Untouched, NEW n, NEW r, ClosedBy(n, r)
  PROVE  Phases' /\ Chain' /\ Knows'
<1> USE DEF IInv, BInv
<1> DEFINE s == SessionStatus("closed")
<1>1. s.about = "session" /\ s.state = "closed" /\ StatusOK(s) /\ LawfulNext(s)
  BY DEF SessionStatus, StatusOK, LawfulNext
<1> HIDE DEF s
<1>2. /\ Grown(to_agent, to_agent', <<n, r>>) /\ Len(<<n, r>>) = 2 /\ <<n, r>>[1] = n /\ <<n, r>>[2] = r
      /\ attached /\ held' = None /\ attached' = FALSE /\ discarded' = discarded /\ log' = Append(log, s) /\ TakesRequest
      /\ n.kind = "status" /\ Reported(n) = s /\ r.kind = "result" /\ r.method = "close"
  BY Joined, Few DEF ClosedBy, Typed, s
<1>3. /\ \A k \in DOMAIN log : k \in DOMAIN log' /\ log'[k] = log[k]
      /\ Len(log) <= Len(log') /\ Len(log') \in Nat
  BY <1>1, <1>2, LogSent
<1>4. /\ ~IsOpened(n) /\ ~IsResumed(n) /\ IsClosed(n) /\ ~IsCloseResult(n) /\ ~Suspends(Reported(n))
      /\ ~IsOpened(r) /\ ~IsResumed(r) /\ ~Bears(r) /\ ~IsClosed(r)
  BY <1>1, <1>2 DEF IsOpened, IsResumed, IsClosed, IsCloseResult, Suspends, Bears, Reporting
<1>5. SessionSays(<<n, r>>)
  <2>1. \A i \in 1..2 : i = 1 \/ i = 2
    OBVIOUS
  <2>2. \A i \in 1..2 : ~IsOpened(<<n, r>>[i]) /\ ~IsResumed(<<n, r>>[i])
                        /\ ~(Bears(<<n, r>>[i]) /\ Suspends(Reported(<<n, r>>[i])))
    BY <1>2, <1>4, <2>1
  <2>3. \A i \in 1..2 : IsClosed(<<n, r>>[i]) => \A j \in 1..2 : j > i => ~Bears(<<n, r>>[j])
    BY <1>2, <1>4, <2>1
  <2>4. \A i \in 1..2 : IsCloseResult(<<n, r>>[i]) => \E j \in 1..(i - 1) : IsClosed(<<n, r>>[j])
    <3>1. 1 \in 1..(2 - 1)
      OBVIOUS
    <3> QED BY <1>2, <1>4, <2>1, <3>1
  <2> QED BY <1>2, <1>3, <2>2, <2>3, <2>4 DEF SessionSays
<1>6. Knows'
  BY <1>1, <1>2, GrowsKnows
<1> QED BY <1>5, <1>6, SaysPhases, ClosedChain

\* It says something by itself, to its client or to its log.
LEMMA SayIInv ==
  ASSUME IInv, Untouched, NEW s, SayOf(s)
  PROVE  Phases' /\ Chain' /\ Knows'
<1> USE DEF IInv, BInv
<1> DEFINE n == Notification(Len(log) + 1, s)
<1>1. held # None /\ log' = Append(log, s) /\ StatusOK(s) /\ LawfulNext(s) /\ UNCHANGED <<discarded, to_world>>
  BY DEF SayOf
<1>2. /\ Len(log') = Len(log) + 1 /\ Len(log) \in Nat /\ log'[Len(log) + 1] = s
      /\ \A k \in DOMAIN log : k \in DOMAIN log' /\ log'[k] = log[k]
      /\ Len(log) + 1 \in DOMAIN log' /\ Len(log) + 1 \in 1..(Len(log) + 1)
      /\ Len(log) <= Len(log') /\ Len(log') \in Nat
  BY <1>1, LogSent
<1>3. \/ /\ s.about = "session" /\ s.state = "closed" /\ held' = None /\ attached' = FALSE
      \/ /\ UNCHANGED <<held, attached>> /\ (s.about = "session" => s.state = IF attached THEN "active" ELSE "suspended")
  BY DEF SayOf, SessionStatus
<1>4. Knows'
  BY <1>1, <1>3, GrowsKnows
<1>5. n.kind = "status" /\ Bears(n) /\ NumberOf(n) = Len(log) + 1 /\ Reported(n) = s
  BY NotificationShape
<1>6. CASE attached
  <2>1. to_agent' = to_agent \o <<n>>
    BY <1>6 DEF SayOf
  <2> HIDE DEF n
  <2>2. Grown(to_agent, to_agent', <<n>>) /\ Len(<<n>>) = 1 /\ <<n>>[1] = n /\ \A i \in 1..1 : i = 1
    BY <2>1, Joined, Few DEF Typed
  <2>3. ~IsOpened(n) /\ ~IsResumed(n) /\ ~IsCloseResult(n) /\ ~Suspends(Reported(n)) /\ (IsClosed(n) => attached' = FALSE)
    BY <1>3, <1>5, <1>6 DEF IsOpened, IsResumed, IsCloseResult, IsClosed, Suspends
  <2>4. held' \in {held, None}
    BY <1>3
  <2>5. \A i \in 1..1 : IsClosed(<<n>>[i]) => attached' = FALSE /\ \A j \in 1..1 : j > i => ~Bears(<<n>>[j])
    <3>1. ~(1 > 1)
      OBVIOUS
    <3> QED BY <2>2, <2>3, <3>1
  <2>6. SessionSays(<<n>>)
    BY <1>1, <1>2, <1>6, <2>2, <2>3, <2>4, <2>5 DEF SessionSays
  <2>7. Chain'
    BY <1>2, <1>5, <1>6, <2>2, OneChain
  <2> QED BY <1>4, <2>6, <2>7, SaysPhases
<1>7. CASE ~attached
  <2>1. UNCHANGED to_agent /\ ~attached' /\ held' \in {held, None}
    BY <1>3, <1>7 DEF SayOf
  <2>2. Phases'
    BY <1>1, <1>2, <1>7, <2>1, AlonePhases
  <2>3. Chain'
    BY <1>2, <2>1, AloneChain
  <2> QED BY <1>4, <2>2, <2>3
<1> QED BY <1>6, <1>7

\* A resumption tells no lies.
LEMMA ResumedKnows ==
  ASSUME IInv, Untouched, NEW ms, NEW from, ResumedBy(ms, from)
  PROVE  Knows'
<1> DEFINE s == SessionStatus("active")
<1>1. s.about = "session" /\ s.state = "active" /\ StatusOK(s) /\ LawfulNext(s)
  BY DEF SessionStatus, StatusOK, LawfulNext
<1>2. log' = Append(log, s) /\ held' = held
  BY DEF ResumedBy
<1> HIDE DEF s
<1> QED BY <1>1, <1>2, GrowsKnows

\* Whatever the world does.
LEMMA WorldIInv ==
  ASSUME IInv, WorldActs
  PROVE  Phases' /\ Chain' /\ Knows'
<1>1. Untouched /\ WorldStep
  BY WorldShape DEF IInv, BInv
<1>2. ASSUME NEW m, MuteOf(m) PROVE Phases' /\ Chain' /\ Knows'
  BY <1>1, <1>2, MutePhases, MuteChain, SameKnows DEF MuteOf
<1>3. ASSUME NEW o, NEW n, OpenedBy(o, n) PROVE Phases' /\ Chain' /\ Knows'
  BY <1>1, <1>3, OpenedAlone, OpenedPhases, OpenedChain, OpenedKnows DEF OpenedBy
<1>4. ASSUME NEW ms, NEW from, ResumedBy(ms, from) PROVE Phases' /\ Chain' /\ Knows'
  BY <1>1, <1>4, ResumedPhases, ResumedChain, ResumedKnows
<1> QED BY <1>1, <1>2, <1>3, <1>4, ReportIInv, RepeatIInv, SayIInv, ClosedIInv DEF WorldStep

\* Nothing has been said yet.
LEMMA InitIInv == Init => IInv
<1> SUFFICES ASSUME Init PROVE IInv
  OBVIOUS
<1>1. /\ to_world = <<>> /\ to_agent = <<>> /\ log = <<>> /\ DOMAIN to_world = {} /\ DOMAIN to_agent = {} /\ DOMAIN log = {}
      /\ ready = None /\ ~attached /\ held = None /\ session_state = None /\ connection = "down" /\ accused = FALSE
  BY Few DEF Init
<1>2. last_status_seq = 0 /\ seen_above = {} /\ processed = {}
  BY DEF Init, Status!Init
<1>3. Phases
  BY <1>1 DEF Phases, Asking, Opened, Outside, Inside, Resumption, Unused, Ending, Quiet, Opening
<1>4. Chain
  <2>1. \A k \in {0} : 1..k = {}
    OBVIOUS
  <2> QED BY <1>1, <1>2, <2>1 DEF Chain, NoGap, Recorded, Chained, Complete, Pulled
<1>5. Knows
  <2>1. NoFalseAccusation
    BY <1>1, Zenon DEF NoFalseAccusation
  <2> QED BY <1>1, <2>1, Bounds DEF Knows, Lawful, RecordsRight, StateRight, HeldLog, SessionHasGrant
<1> QED BY <1>3, <1>4, <1>5, InitBInv DEF IInv

\* Every step of an orderly world keeps the invariant.
LEMMA NextIInv == Orderly /\ IInv /\ [Next]_vars => IInv'
<1> SUFFICES ASSUME Orderly, IInv, [Next]_vars PROVE IInv'
  OBVIOUS
<1>1. BInv'
  BY NextBInv DEF IInv
<1>2. CASE ClientSends
  <2>1. PICK r : SendOf(r)
    BY <1>2, SendShape DEF IInv, BInv
  <2> QED BY <1>1, <2>1, SendPhases, SendRest DEF IInv, BInv, Knows
<1>3. CASE ClientReceives
  <2>1. TakeOf /\ TakenInto /\ Took /\ Behind /\ Shrunk(to_agent, to_agent')
    BY <1>3, ReceiveShape, TookShape, TakeBehind DEF IInv, BInv
  <2> QED BY <1>1, <2>1, TakePhases, TakeChain, TakeKnows DEF IInv
<1>4. CASE FirstFrame
  BY <1>1, <1>4, FrameIInv DEF IInv
<1>5. CASE ConnectionActs
  BY <1>1, <1>5, OrderlyConnection, ConnectIInv, DisconnectIInv DEF IInv
<1>6. CASE WorldActs
  BY <1>1, <1>6, WorldIInv DEF IInv
<1>7. CASE UNCHANGED vars
  BY <1>1, <1>7, StutterIInv DEF IInv
<1> QED BY <1>2, <1>3, <1>4, <1>5, <1>6, <1>7, NextIs

\* Where nothing but connections fails, the client and the world keep the phases of their
\* session, every status is on its way, and the client knows what those it processed say.
THEOREM IInvCorrect ==
  ASSUME Orderly
  PROVE  Spec => []IInv
BY InitIInv, NextIInv, PTL DEF Spec

-----------------------------------------------------------------------------
(* What the checked properties say                                         *)

\* Under the premise that nothing but connections fails: the types; what the world gives
\* up was processed; and a session that is not over has a grant (ping and session.resume
\* acknowledge last_status_seq, and connection_lost and _session_lost keep the grant or end
\* the session).
THEOREM InvCorrect ==
  ASSUME Orderly
  PROVE  Spec => []Inv
<1>1. IInv => DiscardedIsProcessed /\ SessionHasGrant
  <2> SUFFICES ASSUME IInv PROVE DiscardedIsProcessed /\ SessionHasGrant
    OBVIOUS
  <2>1. SessionHasGrant
    BY DEF IInv, Knows
  <2>2. last_status_seq \in Nat /\ discarded \in Nat
    BY Bounds DEF IInv, BInv, Typed, Status!TypeOK
  <2>3. Live => discarded <= last_status_seq /\ processed = 1..last_status_seq
    BY DEF IInv, Phases, Inside, Live, Chain, NoGap
  <2> QED BY <2>1, <2>2, <2>3 DEF DiscardedIsProcessed
<1> QED BY <1>1, TypeCorrect, IInvCorrect, PTL DEF Inv

\* The client accuses no world that numbers and orders its statuses and keeps to the
\* lifecycle, however often the connection is lost (_sequence, _apply_status).
THEOREM NoFalseAccusationCorrect ==
  ASSUME Orderly
  PROVE  Spec => []NoFalseAccusation
<1>1. IInv => NoFalseAccusation
  BY DEF IInv, Knows
<1> QED BY <1>1, IInvCorrect, PTL

\* The record of an action is its newest status among those processed, on whatever way
\* they came (_apply_status, _result_action_submit, _result_action_status).
THEOREM RecordIsNewestCorrect ==
  ASSUME Orderly
  PROVE  Spec => []RecordIsNewest
<1>1. IInv => RecordIsNewest
  <2> SUFFICES ASSUME IInv, Live PROVE RecordIsNewest
    BY DEF RecordIsNewest
  <2>1. ready # None /\ processed = 1..last_status_seq /\ last_status_seq <= Len(log)
    BY DEF Live, IInv, Phases, Inside, Chain, NoGap
  <2>2. DOMAIN log = 1..Len(log) /\ Len(log) \in Nat /\ last_status_seq \in Nat
    BY BaseTyped, Bounds DEF IInv, BInv, Typed, Status!TypeOK
  <2>3. processed \subseteq DOMAIN log
    BY <2>1, <2>2
  <2>4. ASSUME NEW a \in ActionIds
        PROVE  IF Newest(a, processed) = 0
                 THEN actions[a] \in {None, Submitted}
                 ELSE actions[a] = [state |-> log[Newest(a, processed)].state, seq |-> Newest(a, processed)]
    <3>1. RecordOf(a, last_status_seq)
      BY <2>1 DEF IInv, Knows, RecordsRight
    <3> QED BY <2>1, <3>1 DEF RecordOf
  <2> QED BY <2>3, <2>4 DEF RecordIsNewest
<1> QED BY <1>1, IInvCorrect, PTL

\* When the world has nothing more to say, the client has processed every status of the
\* session and agrees on its state, however often the connection was lost.
THEOREM CaughtUpAgreesCorrect ==
  ASSUME Orderly
  PROVE  Spec => []CaughtUpAgrees
<1>1. IInv => CaughtUpAgrees
  <2> SUFFICES ASSUME IInv, Live, attached, to_agent = <<>> PROVE CaughtUpAgrees
    BY DEF CaughtUpAgrees
  <2>1. ready # None /\ held # None /\ processed = 1..last_status_seq /\ last_status_seq <= Len(log)
    BY DEF Live, IInv, Phases, Inside, Chain, NoGap
  <2>2. DOMAIN log = 1..Len(log) /\ Len(log) \in Nat /\ last_status_seq \in Nat
    BY BaseTyped, Bounds DEF IInv, BInv, Typed, Status!TypeOK
  <2>3. last_status_seq = Len(log)
    <3>1. PICK n \in Nat : n = Len(log)
      BY <2>2
    <3>2. \A k \in (last_status_seq + 1)..n : FALSE
      BY <2>1, <3>1, Few DEF IInv, Chain, Complete, Base
    <3>3. PICK b \in Nat : b = last_status_seq
      BY <2>2
    <3>4. b <= n /\ \A k \in (b + 1)..n : FALSE
      BY <2>1, <3>1, <3>2, <3>3
    <3>5. b = n
      BY <3>4
    <3> QED BY <3>1, <3>3, <3>5
  <2> DEFINE states == {k \in DOMAIN log : log[k].about = "session"}
             last == CHOOSE k \in states : \A j \in states : j <= k
  <2>4. last \in states /\ \A j \in states : j <= last
    <3>1. 1 \in states
      <4>1. log # <<>>
        BY <2>1 DEF IInv, BInv, Typed
      <4>2. 1 \in DOMAIN log
        <5>1. log = [k \in 1..Len(log) |-> log[k]]
          BY DEF IInv, BInv, Typed, IsSeq
        <5>2. Len(log) = 0 => log = <<>>
          BY <5>1
        <5> QED BY <2>2, <4>1, <5>2
      <4>3. log[1] = SessionStatus("ready")
        BY <2>1 DEF IInv, Knows, HeldLog
      <4> QED BY <4>2, <4>3 DEF SessionStatus
    <3>2. \E k \in states : \A j \in states : j <= k
      <4>1. states \subseteq 1..Len(log) /\ states # {}
        BY <2>2, <3>1
      <4> HIDE DEF states
      <4> QED BY <2>2, <4>1, GreatestNatural
    <3> QED BY <3>2
  <2> HIDE DEF last
  <2>5. Latest(last) /\ last \in 1..last_status_seq
    BY <2>2, <2>3, <2>4 DEF Latest, About
  <2>6. session_state = log[last].state \/ (log[last].state = "ready" /\ session_state = "active")
    BY <2>1, <2>5 DEF IInv, Knows, StateRight
  <2> QED BY <2>1, <2>2, <2>3, <2>6 DEF CaughtUpAgrees, last
<1> QED BY <1>1, IInvCorrect, PTL

-----------------------------------------------------------------------------
(* The session implements Delivery                                         *)

\* What a step does to the session the client and the world share: they are not in one
\* any more, or enter one;
Leaves == ~Live'
Enters == ~Live /\ Live' /\ Len(log') \in 1..MaxSeq /\ processed' = {} /\ discarded' = 0

\* or they remain in it, and nothing happens to it, the world says something, the client
\* processes the next status, or the world gives up what the client acknowledged.
Remains == Live /\ Live' /\ Len(log) \in Nat /\ Len(log) > 0
Rests == Remains /\ Len(log') = Len(log) /\ UNCHANGED <<processed, discarded>>
Says ==
  /\ Remains /\ Len(log') = Len(log) + 1 /\ Len(log') \in 1..MaxSeq
  /\ UNCHANGED <<processed, discarded>>
Hears ==
  /\ Remains /\ Len(log') = Len(log) /\ UNCHANGED discarded
  /\ \E k \in (1..Len(log)) \ processed : processed' = processed \union {k}
GivesUp ==
  /\ Remains /\ Len(log') \in {Len(log), Len(log) + 1} /\ Len(log') \in 1..MaxSeq
  /\ UNCHANGED processed
  /\ \E n \in discarded..Len(log) : 1..n \subseteq processed /\ discarded' = n

Kinds == Leaves \/ Enters \/ Rests \/ Says \/ Hears \/ GivesUp

\* Each of them is a step of Delivery, or none.
LEMMA KindsAreSteps ==
  ASSUME Kinds
  PROVE  [Promise!Next]_(Promise!vars)
<1>1. CASE Leaves
  BY <1>1 DEF Leaves, Promise!Next, Promise!End
<1>2. CASE Enters
  BY <1>2 DEF Enters, Promise!Next, Promise!Begin, Promise!NoSession
<1>3. CASE Rests
  BY <1>3 DEF Rests, Remains, Promise!vars
<1>4. CASE Says
  <2>1. Promise!Issue
    BY <1>4, Bounds DEF Says, Remains, Promise!Issue
  <2> QED BY <2>1 DEF Promise!Next
<1>5. CASE Hears
  <2>1. Promise!Deliver
    BY <1>5 DEF Hears, Remains, Promise!Deliver
  <2> QED BY <2>1 DEF Promise!Next
<1>6. CASE GivesUp
  <2>1. Promise!Discard
    BY <1>6, Bounds DEF GivesUp, Remains, Promise!Discard
  <2> QED BY <2>1 DEF Promise!Next
<1> QED BY <1>1, <1>2, <1>3, <1>4, <1>5, <1>6 DEF Kinds

\* In a session, what was processed is what the ack point says, and the log is not empty.
Sharing ==
  /\ ready # None /\ held # None /\ processed = 1..last_status_seq
  /\ last_status_seq \in Nat /\ discarded \in Nat
  /\ discarded <= last_status_seq /\ last_status_seq <= Len(log)
  /\ Len(log) \in Nat /\ Len(log) > 0 /\ DOMAIN log = 1..Len(log) /\ Len(log) + 1 \in 1..MaxSeq

\* That is what the invariant says of a session they share.
LEMMA LiveShares == IInv /\ Live => Sharing
<1> SUFFICES ASSUME IInv, Live PROVE Sharing
  OBVIOUS
<1>1. ready # None /\ held # None /\ processed = 1..last_status_seq
      /\ discarded <= last_status_seq /\ last_status_seq <= Len(log)
  BY DEF Live, IInv, Phases, Inside, Chain, NoGap
<1>2. last_status_seq \in Nat /\ discarded \in Nat
  BY Bounds DEF IInv, BInv, Typed, Status!TypeOK
<1>3. DOMAIN log = 1..Len(log) /\ Len(log) \in Nat
  BY BaseTyped DEF IInv, BInv
<1>4. Len(log) > 0
  <2>1. log # <<>> /\ log = [k \in 1..Len(log) |-> log[k]]
    BY <1>1 DEF IInv, BInv, Typed, IsSeq
  <2>2. Len(log) = 0 => log = <<>>
    BY <2>1
  <2> QED BY <1>3, <2>1, <2>2
<1>5. Len(log) + 1 \in 1..MaxSeq
  BY <1>1, OneMore DEF IInv
<1> QED BY <1>1, <1>2, <1>3, <1>4, <1>5 DEF Sharing

\* The client's part of a step.
LEMMA ClientKinds ==
  ASSUME IInv, IInv', ClientSends \/ ClientReceives \/ FirstFrame
  PROVE  Kinds
<1>1. CASE ClientSends
  <2>1. UNCHANGED <<ready, held, log, discarded, processed>>
    BY <1>1, SendShape DEF SendOf, IInv, BInv
  <2>2. CASE Live
    BY <2>1, <2>2, LiveShares DEF Live, Sharing, Remains, Rests, Kinds
  <2>3. CASE ~Live
    BY <2>1, <2>3 DEF Live, Leaves, Kinds
  <2> QED BY <2>2, <2>3
<1>2. CASE FirstFrame
  <2>1. UNCHANGED <<ready, held, log, discarded, processed>>
    BY <1>2 DEF FirstFrame, sequence, world
  <2>2. CASE Live
    BY <2>1, <2>2, LiveShares DEF Live, Sharing, Remains, Rests, Kinds
  <2>3. CASE ~Live
    BY <2>1, <2>3 DEF Live, Leaves, Kinds
  <2> QED BY <2>2, <2>3
<1>3. CASE ClientReceives
  <2>1. Took /\ Behind /\ UNCHANGED <<held, log, discarded>> /\ to_agent # <<>>
    BY <1>3, ReceiveShape, TookShape, TakeBehind DEF IInv, BInv, Behind, TakeOf
  <2>2. CASE Begins /\ Live'
    <3>1. ready = None /\ discarded = 0 /\ processed' = {}
      BY <2>1, <2>2 DEF Begins, Behind, IInv, Phases, Opened, OpenedAt
    <3>2. Sharing'
      BY <2>2, LiveShares, PTL
    <3>3. Len(log') \in 1..MaxSeq
      BY <3>2, Bounds DEF Sharing
    <3> QED BY <2>1, <2>2, <3>1, <3>3 DEF Enters, Live, Kinds
  <2>3. CASE Progresses /\ Live'
    <3>1. Live
      BY <2>1, <2>3 DEF Progresses, Live
    <3>2. Sharing
      BY <3>1, LiveShares
    <3>3. last_status_seq + 1 \in DOMAIN log
      BY <2>1, <2>3, HeadIsNext DEF Progresses, HeadIs, IInv, BInv
    <3>4. last_status_seq + 1 \in (1..Len(log)) \ processed
      BY <3>2, <3>3 DEF Sharing
    <3>5. processed' = processed \union {last_status_seq + 1}
      BY <2>3, <3>2 DEF Progresses, Sharing
    <3> QED BY <2>1, <2>3, <3>1, <3>2, <3>4, <3>5 DEF Sharing, Remains, Hears, Kinds
  <2>4. CASE Disregards /\ Live'
    <3>1. Live /\ processed' = processed
      BY <2>1, <2>4 DEF Disregards, Live
    <3> QED BY <2>1, <2>4, <3>1, LiveShares DEF Sharing, Remains, Rests, Kinds
  <2>5. CASE Loses \/ Ends
    BY <2>5 DEF Loses, Ends, Live, Leaves, Kinds
  <2>6. CASE ~Live'
    BY <2>6 DEF Leaves, Kinds
  <2> QED BY <2>1, <2>2, <2>3, <2>4, <2>5, <2>6 DEF Took
<1> QED BY <1>1, <1>2, <1>3

\* The connection's.
LEMMA ConnectionKinds ==
  ASSUME IInv, Connect \/ LoseConnection \/ Abandon
  PROVE  Kinds
<1>1. \/ UNCHANGED <<ready, held, log, discarded, processed>>
      \/ ready' = None
  BY DEF Connect, LoseConnection, Abandon, Disconnect, SessionLost, client, sequence, world
<1>2. CASE ready' = None
  BY <1>2 DEF Live, Leaves, Kinds
<1>3. CASE Live /\ UNCHANGED <<ready, held, log, discarded, processed>>
  BY <1>3, LiveShares DEF Live, Sharing, Remains, Rests, Kinds
<1>4. CASE ~Live /\ UNCHANGED <<ready, held, log, discarded, processed>>
  BY <1>4 DEF Live, Leaves, Kinds
<1> QED BY <1>1, <1>2, <1>3, <1>4

\* The world's.
LEMMA WorldKinds ==
  ASSUME IInv, WorldActs
  PROVE  Kinds
<1>1. Untouched /\ WorldStep
  BY WorldShape DEF IInv, BInv
<1>2. UNCHANGED <<ready, processed, last_status_seq>>
  BY <1>1 DEF Untouched
<1>3. CASE ~Live'
  BY <1>3 DEF Leaves, Kinds
<1>4. CASE Live' /\ ~Live
  <2>1. held' # held /\ held' = ready /\ ready # None
    BY <1>2, <1>4 DEF Live
  <2>2. \A s : SayOf(s) => held' \in {held, None}
    BY DEF SayOf
  <2>3. \A o, n : ~OpenedBy(o, n)
    BY <1>1, <2>1, OpenedAlone
  <2> QED BY <1>1, <2>1, <2>2, <2>3 DEF WorldStep, MuteOf, ReportOf, RepeatOf, ClosedBy, ResumedBy
<1>5. CASE Live' /\ Live
  <2>1. Sharing /\ held' = held /\ held # None /\ ready # None
    BY <1>2, <1>5, LiveShares DEF Live, Sharing
  <2>2. \A s : StatusOK(s) /\ log' = Append(log, s) => Len(log') = Len(log) + 1 /\ Len(log') \in 1..MaxSeq
    BY <2>1, LogSent DEF IInv, BInv, Sharing
  <2>3. ASSUME NEW m, MuteOf(m) PROVE Kinds
    <3>1. CASE discarded' = discarded
      BY <1>2, <1>5, <2>1, <2>3, <3>1 DEF MuteOf, Sharing, Remains, Rests, Kinds
    <3>2. CASE Head(to_world).method = "ping" /\ discarded' = Head(to_world).ack /\ discarded' > discarded
      <4>1. Head(to_world) = to_world[1] /\ 1 \in DOMAIN to_world /\ to_world[1].ack \in Nat
        BY <2>3, <3>2, RequestTaken, Bounds DEF MuteOf, RequestOK, IInv, BInv
      <4>2. to_world[1].ack <= last_status_seq
        BY <2>1, <3>2, <4>1 DEF IInv, Phases, Inside
      <4>3. PICK n \in Nat : n = to_world[1].ack /\ discarded' = n /\ n > discarded /\ n <= last_status_seq
        BY <3>2, <4>1, <4>2
      <4>4. n \in discarded..Len(log) /\ 1..n \subseteq processed
        BY <2>1, <4>3 DEF Sharing
      <4>5. Len(log') = Len(log) /\ Len(log') \in 1..MaxSeq
        BY <2>1, <2>3, Bounds DEF MuteOf, Sharing
      <4> QED BY <1>2, <1>5, <2>1, <4>3, <4>4, <4>5 DEF Sharing, Remains, GivesUp, Kinds
    <3> QED BY <2>3, <3>1, <3>2 DEF MuteOf
  <2>4. ASSUME NEW m, NEW s, ReportOf(m, s) PROVE Kinds
    <3>1. Len(log') = Len(log) + 1 /\ Len(log') \in 1..MaxSeq /\ discarded' = discarded
      BY <2>2, <2>4 DEF ReportOf
    <3> QED BY <1>2, <1>5, <2>1, <3>1 DEF Sharing, Remains, Says, Kinds
  <2>5. ASSUME NEW m, NEW k, RepeatOf(m, k) PROVE Kinds
    BY <1>2, <1>5, <2>1, <2>5 DEF RepeatOf, Sharing, Remains, Rests, Kinds
  <2>6. ASSUME NEW s, SayOf(s) PROVE Kinds
    <3>1. Len(log') = Len(log) + 1 /\ Len(log') \in 1..MaxSeq /\ discarded' = discarded
      BY <2>2, <2>6 DEF SayOf
    <3> QED BY <1>2, <1>5, <2>1, <3>1 DEF Sharing, Remains, Says, Kinds
  <2>7. ASSUME NEW o, NEW n, OpenedBy(o, n) PROVE Kinds
    BY <1>1, <2>1, <2>7, OpenedAlone
  <2>8. ASSUME NEW n, NEW r, ClosedBy(n, r) PROVE Kinds
    BY <2>1, <2>8 DEF ClosedBy
  <2>9. ASSUME NEW ms, NEW from, ResumedBy(ms, from) PROVE Kinds
    <3>1. discarded' = last_status_seq
      BY <1>1, <2>9, ResumedFrom DEF ResumedBy
    <3>2. StatusOK(SessionStatus("active"))
      BY DEF StatusOK, SessionStatus
    <3>3. Len(log') = Len(log) + 1 /\ Len(log') \in 1..MaxSeq
      BY <2>2, <2>9, <3>2 DEF ResumedBy
    <3>4. last_status_seq \in discarded..Len(log) /\ 1..last_status_seq \subseteq processed
      BY <2>1 DEF Sharing
    <3> QED BY <1>2, <1>5, <2>1, <3>1, <3>3, <3>4 DEF Sharing, Remains, GivesUp, Kinds
  <2> QED BY <1>1, <2>3, <2>4, <2>5, <2>6, <2>7, <2>8, <2>9 DEF WorldStep
<1> QED BY <1>3, <1>4, <1>5

\* Every step of an orderly world is a step of Delivery, or none.
LEMMA NextPromise == Orderly /\ IInv /\ IInv' /\ [Next]_vars => [Promise!Next]_(Promise!vars)
<1> SUFFICES ASSUME Orderly, IInv, IInv', [Next]_vars PROVE [Promise!Next]_(Promise!vars)
  OBVIOUS
<1>1. CASE UNCHANGED vars
  BY <1>1 DEF vars, client, sequence, world, Promise!vars, Live
<1>2. CASE Next
  <2>1. Kinds
    BY <1>2, NextIs, ClientKinds, OrderlyConnection, ConnectionKinds, WorldKinds
  <2> QED BY <2>1, KindsAreSteps
<1> QED BY <1>1, <1>2

\* The session layer keeps what Delivery promises: a status takes effect once, in a
\* session, and the world gives up none before (ping, session.resume, _sequence).
THEOREM DeliverySpecCorrect ==
  ASSUME Orderly
  PROVE  Spec => DeliverySpec
<1>1. Init => Promise!Init
  BY DEF Init, Live, Promise!Init, Promise!NoSession
<1>2. Orderly /\ IInv /\ IInv' /\ [Next]_vars => [Promise!Next]_(Promise!vars)
  BY NextPromise
<1> QED BY <1>1, <1>2, IInvCorrect, PTL DEF Spec, DeliverySpec, Promise!Spec

\* What is issued, delivered and given up under the promise: only issued statuses are
\* delivered, and only delivered ones are given up.
Given(n, p, d) == n \in Nat /\ p \subseteq 1..n /\ d \in 0..n /\ 1..d \subseteq p

Issued    == IF Live THEN Len(log) ELSE 0
Delivered == IF Live THEN processed ELSE {}
Discarded == IF Live THEN discarded ELSE 0

PromiseInv == Given(Issued, Delivered, Discarded)

\* Every step of Delivery keeps what is given up within what is delivered, and that within
\* what is issued.
LEMMA NextPromiseInv == PromiseInv /\ [Promise!Next]_(Promise!vars) => PromiseInv'
<1> SUFFICES ASSUME PromiseInv, [Promise!Next]_(Promise!vars) PROVE PromiseInv'
  OBVIOUS
<1>1. PICK n, p, d : n = Issued /\ p = Delivered /\ d = Discarded /\ Given(n, p, d)
  BY DEF PromiseInv
<1>2. PICK m, q, e : m = Issued' /\ q = Delivered' /\ e = Discarded'
  OBVIOUS
<1> SUFFICES Given(m, q, e)
  BY <1>2 DEF PromiseInv
<1> USE <1>1, <1>2 DEF Given, Issued, Delivered, Discarded
<1>3. CASE Promise!Begin
  <2>1. m \in Nat /\ q = {} /\ e = 0
    <3>1. m \in 1..MaxSeq /\ p = {} /\ q = p /\ d = 0 /\ e = d
      BY <1>3 DEF Promise!Begin, Promise!NoSession
    <3> QED BY <3>1, Bounds
  <2> QED BY <2>1
<1>4. CASE Promise!Issue
  <2>1. m = n + 1 /\ q = p /\ e = d
    BY <1>4 DEF Promise!Issue
  <2> QED BY <2>1
<1>5. CASE Promise!Deliver
  BY <1>5 DEF Promise!Deliver
<1>6. CASE Promise!Discard
  <2>1. PICK i \in d..n : 1..i \subseteq p /\ e = i /\ m \in {n, n + 1} /\ q = p
    BY <1>6 DEF Promise!Discard
  <2> QED BY <2>1
<1>7. CASE Promise!End
  BY <1>7 DEF Promise!End
<1>8. CASE UNCHANGED Promise!vars
  BY <1>8 DEF Promise!vars
<1> QED BY <1>3, <1>4, <1>5, <1>6, <1>7, <1>8 DEF Promise!Next

\* What implements Delivery loses nothing, for every number of statuses.
LEMMA PromiseKept == DeliverySpec => []Promise!NothingLost
<1>1. Promise!Init => PromiseInv
  BY DEF Promise!Init, Promise!NoSession, PromiseInv, Given, Issued, Delivered, Discarded
<1>2. PromiseInv => Promise!NothingLost
  BY DEF PromiseInv, Given, Issued, Delivered, Discarded, Promise!NothingLost
<1> QED BY <1>1, <1>2, NextPromiseInv, PTL DEF DeliverySpec, Promise!Spec

\* What the agent lacks of a session, the world still has: the promise under which a
\* resumption can replay it (client.py:368-374, 794-799).
THEOREM NothingLostCorrect ==
  ASSUME Orderly
  PROVE  Spec => []Promise!NothingLost
<1> QED BY DeliverySpecCorrect, PromiseKept, PTL

\* Where nothing but connections fails, no action leaves a terminal state: what the run
\* session_gap refutes, where a message was dropped on a connection that lives
\* (_apply_status applies what a gap left behind).
THEOREM TerminalIsFinalOrderly ==
  ASSUME Orderly
  PROVE  Spec => TerminalIsFinal
<1>1. ASSUME IInv, [Next]_vars, NEW a \in ActionIds, actions[a] # None, actions'[a] # None,
             actions[a].state \in Terminal
      PROVE  actions'[a].state = actions[a].state
  <2>1. CASE ClientSends
    BY <1>1, <2>1, SendShape DEF SendOf, IInv, BInv
  <2>2. CASE FirstFrame
    BY <1>1, <2>2 DEF FirstFrame
  <2>3. CASE ConnectionActs
    BY <1>1, <2>3, OrderlyConnection DEF Connect, LoseConnection, Abandon, SessionLost, client
  <2>4. CASE WorldActs
    BY <1>1, <2>4, WorldShape DEF Untouched, IInv, BInv
  <2>5. CASE UNCHANGED vars
    BY <1>1, <2>5 DEF vars, client
  <2>6. CASE ClientReceives
    <3>1. Took /\ to_agent # <<>>
      BY <1>1, <2>6, TookShape, ReceiveShape DEF IInv, BInv, TakeOf
    <3>2. CASE Disregards \/ Ends
      BY <1>1, <3>2 DEF Disregards, Ends
    <3>3. CASE Begins \/ Loses
      BY <1>1, <3>3 DEF Begins, Loses
    <3>4. CASE Progresses
      <4> DEFINE s == Reported(Head(to_agent))
      <4>1. CASE s.about # "action"
        BY <1>1, <3>4, <4>1 DEF Progresses
      <4>2. CASE s.about = "action" /\ s.action # a
        BY <1>1, <3>4, <4>2 DEF Progresses, IInv, BInv, Typed
      <4>3. CASE s.about = "action" /\ s.action = a
        <5>1. ready # None /\ last_status_seq + 1 \in DOMAIN log /\ log[last_status_seq + 1] = s
          BY <1>1, <3>1, <3>4, HeadIsNext DEF Progresses, HeadIs, IInv, BInv
        <5>2. ~BreaksLifecycle(s)
          BY <1>1, <4>3, <5>1, RecordLawful DEF IInv, BInv, Knows
        <5>3. FALSE
          BY <1>1, <4>3, <5>2 DEF BreaksLifecycle, RecordState
        <5> QED BY <5>3
      <4> QED BY <4>1, <4>2, <4>3
    <3> QED BY <3>1, <3>2, <3>3, <3>4 DEF Took
  <2> QED BY <1>1, <2>1, <2>2, <2>3, <2>4, <2>5, <2>6, NextIs
<1> DEFINE Final == \A a \in ActionIds :
                      actions[a] # None /\ actions'[a] # None /\ actions[a].state \in Terminal
                        => actions'[a].state = actions[a].state
<1>2. IInv /\ [Next]_vars => [Final]_vars
  BY <1>1
<1> QED BY <1>2, IInvCorrect, PTL DEF Spec, TerminalIsFinal
=============================================================================
