---------------------------- MODULE TransportProofs ----------------------------
(***************************************************************************)
(* What Transport moves is in order and answered, for any callers, capacity   *)
(* and numbers of requests, pings and connections, and with every fault: each *)
(* message is in one place, from the queue to the event of its response.      *)
(***************************************************************************)
EXTENDS Transport, TLAPS

\* What is queued, drained, on the wire, and in the responses that arrived.
Queueing   == ToSet(out)
Drained    == ToSet(batch)
OnTheWire  == ToSet(to_world)
ResponsesIn(s) == {m.id : m \in {n \in ToSet(s) : n.kind = "response"}}
Responding == ResponsesIn(to_agent)

Messages == 0..MaxRequests
Calls    == [at : {"idle", "flush", "wait"}, id : Ids \union {None},
             future : {None, "pending", "result", "error"}]
Arrivals == [kind : {"response"}, id : Ids] \union [kind : {"ping"}]

-----------------------------------------------------------------------------
(* The inductive invariant, in parts                                       *)

\* Types; a caller that is not idle has a request and a future.
Typed ==
  /\ next_id \in 1..(MaxRequests + 1) /\ pending \subseteq 1..(next_id - 1)
  /\ accused \in BOOLEAN /\ closed \in BOOLEAN /\ beating \in BOOLEAN
  /\ ws \in {None, "open", "lost", "closing"}
  /\ lock \in Tasks \union {None} /\ lockq \in Seq(Tasks)
  /\ out \in Seq(Messages) /\ batch \in Seq(Messages) /\ to_world \in Seq(Messages)
  /\ reader \in {"off", "reading", "flushing"} /\ event \in Ids \union {None}
  /\ call \in [Callers -> Calls]
  /\ to_agent \in Seq(Arrivals) /\ asked \subseteq Ids

\* The task holds the lock or waits for it.
Within(task) == lock = task \/ task \in ToSet(lockq)

Distinct(s) == \A i, j \in DOMAIN s : s[i] = s[j] => i = j

\* A task holds the lock or waits for it, once, if it is within flush; what is drained is
\* the holder's.
Locking ==
  /\ lock = None <=> batch = <<>>
  /\ Distinct(lockq) /\ lock \notin ToSet(lockq)
  /\ \A c \in Callers : call[c].at = "flush" <=> Within(c)
  /\ (reader = "flushing") <=> Within("reader")

\* The reader lives as long as the connection is not closed; nothing is on a connection that
\* is gone, but what arrived before.
Connection ==
  /\ closed = (reader = "off")
  /\ closed => ws # "open"
  /\ ws \in {None, "closing"} => closed /\ to_agent = <<>>
  /\ ws # "open" => to_world = <<>> /\ asked = {}
  /\ event # None => reader = "flushing"
  /\ Len(to_world) <= Capacity

Increasing(s) == \A i, j \in DOMAIN s : i < j /\ s[i] # 0 /\ s[j] # 0 => s[i] < s[j]

\* Every request of A is older than every request of B.
Before(A, B) == \A a \in A, b \in B : a # 0 /\ b # 0 => a < b

\* Requests are numbered in the order of the queue, of what is drained, and of what is on the
\* wire; those the world took are older, and those to come newer.
Ordered ==
  /\ Increasing(to_world) /\ Increasing(batch) /\ Increasing(out)
  /\ Before(OnTheWire, Drained) /\ Before(OnTheWire, Queueing) /\ Before(Drained, Queueing)
  /\ Before(asked \union Responding, OnTheWire)
  /\ Before(asked \union Responding, Drained)
  /\ Before(asked \union Responding, Queueing)
  /\ Before(asked \union Responding \union OnTheWire \union Drained \union Queueing, {next_id})

OneEach(s) ==
  \A i, j \in DOMAIN s :
    s[i].kind = "response" /\ s[j].kind = "response" /\ s[i].id = s[j].id => i = j

\* Each request has at most one response, and none before it is answered.
AnsweredOnce == asked \cap Responding = {} /\ OneEach(to_agent)

Moving == asked \union Responding \union OnTheWire \union Drained \union Queueing

\* What moves is pending, unless the connection was closed under it and not dropped yet.
Expected ==
  "hasty" \notin happened =>
    /\ ~accused
    /\ (closed /\ ws = "lost") \/ Moving \ {0} \subseteq pending

\* What is pending moves, on a connection that was not lost.
Answerable ==
  /\ "offline" \notin happened /\ closed => pending = {}
  /\ happened \subseteq {"hasty"} /\ ws = "open" => pending \subseteq Moving

\* A call that is waited for is pending, or its response is about to be dispatched.
Awaited ==
  \A c \in Callers : call[c].future = "pending" =>
    /\ ~closed
    /\ call[c].id # None /\ call[c].id \in pending \union {event}
    /\ "cancel" \notin happened /\ ws = "open" => call[c].id \in Moving \union {event}

IInv ==
  /\ Typed /\ Locking /\ Connection /\ Ordered
  /\ AnsweredOnce /\ Expected /\ Answerable /\ Awaited

-----------------------------------------------------------------------------
(* Sequences                                                               *)

\* What is put behind a sequence.
LEMMA Appended ==
  ASSUME NEW S, NEW s \in Seq(S), NEW m \in S
  PROVE  /\ Append(s, m) \in Seq(S) /\ Append(s, m) # <<>>
         /\ Len(Append(s, m)) = Len(s) + 1
         /\ ToSet(Append(s, m)) = ToSet(s) \union {m}
<1>1. /\ Append(s, m) \in Seq(S) /\ Len(Append(s, m)) = Len(s) + 1
      /\ DOMAIN s = 1..Len(s) /\ DOMAIN Append(s, m) = 1..(Len(s) + 1) /\ Len(s) \in Nat
  OBVIOUS
<1>2. /\ Append(s, m)[Len(s) + 1] = m
      /\ \A i \in DOMAIN s : i \in DOMAIN Append(s, m) /\ Append(s, m)[i] = s[i]
      /\ \A i \in DOMAIN Append(s, m) : i = Len(s) + 1 \/ i \in DOMAIN s
  BY <1>1
<1>3. ToSet(Append(s, m)) = ToSet(s) \union {m}
  BY <1>1, <1>2 DEF ToSet
<1> QED BY <1>1, <1>3

\* The first of a sequence, and the rest.
LEMMA Taken ==
  ASSUME NEW S, NEW s \in Seq(S), s # <<>>
  PROVE  /\ Head(s) \in S /\ Tail(s) \in Seq(S) /\ Len(Tail(s)) = Len(s) - 1
         /\ 1 \in DOMAIN s /\ Head(s) = s[1]
         /\ ToSet(s) = ToSet(Tail(s)) \union {Head(s)}
         /\ \A i \in DOMAIN Tail(s) : i + 1 \in DOMAIN s /\ Tail(s)[i] = s[i + 1]
<1>1. /\ Head(s) \in S /\ Tail(s) \in Seq(S) /\ Len(Tail(s)) = Len(s) - 1
      /\ 1 \in DOMAIN s /\ Head(s) = s[1]
      /\ \A i \in DOMAIN Tail(s) : i + 1 \in DOMAIN s /\ Tail(s)[i] = s[i + 1]
      /\ \A i \in DOMAIN s : i = 1 \/ (i - 1 \in DOMAIN Tail(s) /\ Tail(s)[i - 1] = s[i])
  OBVIOUS
<1>2. \A x : (\E i \in DOMAIN s : s[i] = x) <=> (x = Head(s) \/ \E i \in DOMAIN Tail(s) : Tail(s)[i] = x)
  BY <1>1
<1>3. \A x : x \in ToSet(s) <=> x \in ToSet(Tail(s)) \/ x = Head(s)
  BY <1>2, Zenon DEF ToSet
<1> QED BY <1>1, <1>3

\* Nothing is in the empty sequence.
LEMMA Nothing ==
  /\ ToSet(<<>>) = {} /\ Distinct(<<>>) /\ Increasing(<<>>) /\ Len(<<>>) = 0
  /\ \A S : <<>> \in Seq(S)
BY DEF ToSet, Distinct, Increasing

\* A task that waits for the first time waits once.
LEMMA AppendedOnce ==
  ASSUME NEW S, NEW s \in Seq(S), NEW m \in S, Distinct(s), m \notin ToSet(s)
  PROVE  Distinct(Append(s, m))
<1>1. /\ DOMAIN s = 1..Len(s) /\ DOMAIN Append(s, m) = 1..(Len(s) + 1) /\ Len(s) \in Nat
      /\ Append(s, m)[Len(s) + 1] = m /\ \A i \in DOMAIN s : Append(s, m)[i] = s[i]
  OBVIOUS
<1> QED BY <1>1 DEF Distinct, ToSet

\* The first of those that wait once is not among the rest.
LEMMA TakenOnce ==
  ASSUME NEW S, NEW s \in Seq(S), s # <<>>, Distinct(s)
  PROVE  Distinct(Tail(s)) /\ Head(s) \notin ToSet(Tail(s))
<1>1. \A i \in DOMAIN Tail(s) : i \in Nat
  BY Taken
<1> QED BY <1>1, Taken DEF Distinct, ToSet

\* A sequence behind another.
LEMMA Joined ==
  ASSUME NEW S, NEW s \in Seq(S), NEW t \in Seq(S)
  PROVE  /\ s \o t \in Seq(S) /\ Len(s \o t) = Len(s) + Len(t)
         /\ \A i \in 1..Len(s) : (s \o t)[i] = s[i]
         /\ \A i \in 1..Len(t) : (s \o t)[Len(s) + i] = t[i]
OBVIOUS

\* RemoveFirst takes a task that waits once out of the queue, and nothing else.
LEMMA Removed ==
  ASSUME NEW S, NEW s \in Seq(S), NEW m, Distinct(s)
  PROVE  /\ RemoveFirst(s, m) \in Seq(S) /\ Distinct(RemoveFirst(s, m))
         /\ ToSet(RemoveFirst(s, m)) = ToSet(s) \ {m}
<1>1. CASE ~\E i \in 1..Len(s) : s[i] = m
  <2>1. RemoveFirst(s, m) = s
    BY <1>1 DEF RemoveFirst
  <2>2. m \notin ToSet(s)
    BY <1>1 DEF ToSet
  <2> QED BY <2>1, <2>2
<1>2. CASE \E i \in 1..Len(s) : s[i] = m
  <2>1. PICK k \in 1..Len(s) : s[k] = m
    BY <1>2
  <2>2. {i \in 1..Len(s) : s[i] = m} = {k}
    BY <2>1 DEF Distinct
  <2>3. Min({k}) = k
    BY <2>1 DEF Min
  <2>4. SelectInSeq(s, LAMBDA v : v = m) = k
    BY <2>2, <2>3 DEF SelectInSeq
  <2>5. RemoveFirst(s, m) = RemoveAt(s, k)
    BY <1>2, <2>4 DEF RemoveFirst
  <2> DEFINE t == SubSeq(s, 1, k - 1)
             u == SubSeq(s, k + 1, Len(s))
  <2>6. Len(s) \in Nat /\ \A i \in 1..Len(s) : s[i] \in S
    OBVIOUS
  <2>7. /\ t \in Seq(S) /\ Len(t) = k - 1 /\ \A i \in 1..(k - 1) : t[i] = s[i]
    BY <2>1, <2>6
  <2>8. /\ u \in Seq(S) /\ Len(u) = Len(s) - k /\ \A i \in 1..(Len(s) - k) : u[i] = s[k + i]
    BY <2>1, <2>6
  <2> DEFINE r == t \o u
  <2>9. /\ r \in Seq(S) /\ Len(r) = Len(s) - 1
        /\ \A i \in 1..Len(r) : r[i] = IF i < k THEN s[i] ELSE s[i + 1]
    <3>1. /\ r \in Seq(S) /\ Len(r) = Len(t) + Len(u)
          /\ \A i \in 1..Len(t) : r[i] = t[i]
          /\ \A i \in 1..Len(u) : r[Len(t) + i] = u[i]
      <4> HIDE DEF t, u
      <4>1. t \in Seq(S) /\ u \in Seq(S)
        BY <2>7, <2>8
      <4>2. /\ t \o u \in Seq(S) /\ Len(t \o u) = Len(t) + Len(u)
            /\ \A i \in 1..Len(t) : (t \o u)[i] = t[i]
            /\ \A i \in 1..Len(u) : (t \o u)[Len(t) + i] = u[i]
        BY <4>1, Joined
      <4> QED BY <4>2
    <3> HIDE DEF r, t, u
    <3>2. Len(r) = Len(s) - 1 /\ Len(t) = k - 1 /\ Len(u) = Len(s) - k
      BY <3>1, <2>7, <2>8, <2>1, <2>6
    <3>3. ASSUME NEW i \in 1..Len(r) PROVE r[i] = IF i < k THEN s[i] ELSE s[i + 1]
      <4>1. CASE i < k
        <5>1. i \in 1..(k - 1)
          BY <4>1, <2>1, <2>6
        <5> QED BY <5>1, <4>1, <3>1, <3>2, <2>7
      <4>2. CASE ~(i < k)
        <5>1. PICK j \in 1..(Len(s) - k) : i = (k - 1) + j
          <6>1. i - (k - 1) \in 1..(Len(s) - k) /\ i = (k - 1) + (i - (k - 1))
            BY <4>2, <3>2, <2>1, <2>6
          <6> QED BY <6>1
        <5>2. r[(k - 1) + j] = u[j] /\ u[j] = s[k + j]
          BY <5>1, <3>1, <3>2, <2>8
        <5>3. k + j = i + 1
          BY <5>1, <2>1, <2>6
        <5> QED BY <5>1, <5>2, <5>3, <4>2
      <4> QED BY <4>1, <4>2
    <3> QED BY <3>1, <3>2, <3>3
  <2>10. RemoveFirst(s, m) = r
    BY <2>5 DEF RemoveAt
  <2> HIDE DEF r
  <2>11. DOMAIN r = 1..(Len(s) - 1) /\ DOMAIN s = 1..Len(s)
    BY <2>9
  <2>12. Distinct(r)
    <3>1. SUFFICES ASSUME NEW i \in DOMAIN r, NEW j \in DOMAIN r, r[i] = r[j] PROVE i = j
      BY DEF Distinct
    <3> DEFINE from(n) == IF n < k THEN n ELSE n + 1
    <3>2. \A n \in DOMAIN r : from(n) \in DOMAIN s /\ r[n] = s[from(n)]
      BY <2>9, <2>11, <2>6, <2>1
    <3>3. from(i) = from(j)
      <4> HIDE DEF from
      <4> QED BY <3>1, <3>2 DEF Distinct
    <3> QED BY <3>3, <2>11, <2>6, <2>1
  <2>13. ToSet(r) = ToSet(s) \ {m}
    <3>1. ASSUME NEW x \in ToSet(r) PROVE x \in ToSet(s) \ {m}
      <4>1. PICK i \in DOMAIN r : r[i] = x
        BY <3>1 DEF ToSet
      <4>2. PICK j \in DOMAIN s : j # k /\ r[i] = s[j]
        <5>1. CASE i < k
          BY <5>1, <2>6, <2>9, <2>11
        <5>2. CASE ~(i < k)
          <6>1. r[i] = s[i + 1] /\ i + 1 \in DOMAIN s /\ i + 1 # k
            BY <5>2, <2>6, <2>9, <2>11
          <6> QED BY <6>1
        <5> QED BY <5>1, <5>2
      <4>3. s[j] # m
        BY <4>2, <2>1, <2>6 DEF Distinct
      <4> QED BY <4>1, <4>2, <4>3 DEF ToSet
    <3>2. ASSUME NEW x \in ToSet(s) \ {m} PROVE x \in ToSet(r)
      <4>1. PICK i \in DOMAIN s : s[i] = x
        BY <3>2 DEF ToSet
      <4>2. CASE i < k
        BY <4>1, <4>2, <2>1, <2>6, <2>9, <2>11 DEF ToSet
      <4>3. CASE ~(i < k)
        <5>1. i # k
          BY <4>1, <2>1
        <5>2. i - 1 \in DOMAIN r /\ r[i - 1] = x
          BY <5>1, <4>1, <4>3, <2>1, <2>6, <2>9, <2>11
        <5> QED BY <5>2 DEF ToSet
      <4> QED BY <4>2, <4>3
    <3> QED BY <3>1, <3>2
  <2> QED BY <2>9, <2>10, <2>12, <2>13
<1> QED BY <1>1, <1>2

\* A newer request is put behind.
LEMMA AppendedInOrder ==
  ASSUME NEW s \in Seq(Messages), NEW m \in Messages, Increasing(s), Before(ToSet(s), {m})
  PROVE  Increasing(Append(s, m))
<1>1. /\ DOMAIN s = 1..Len(s) /\ DOMAIN Append(s, m) = 1..(Len(s) + 1) /\ Len(s) \in Nat
      /\ Append(s, m)[Len(s) + 1] = m /\ \A i \in DOMAIN s : Append(s, m)[i] = s[i]
  OBVIOUS
<1>2. \A i \in DOMAIN s : s[i] # 0 /\ m # 0 => s[i] < m
  BY DEF Before, ToSet
<1> QED BY <1>1, <1>2 DEF Increasing

\* The first request is the oldest.
LEMMA TakenInOrder ==
  ASSUME NEW s \in Seq(Messages), s # <<>>, Increasing(s)
  PROVE  Increasing(Tail(s)) /\ Before({Head(s)}, ToSet(Tail(s)))
<1>1. \A i \in DOMAIN Tail(s) : i \in Nat /\ i >= 1
  BY Taken
<1>2. Increasing(Tail(s))
  BY <1>1, Taken DEF Increasing
<1>3. ASSUME NEW b \in ToSet(Tail(s)), Head(s) # 0, b # 0 PROVE Head(s) < b
  <2>1. PICK i \in DOMAIN Tail(s) : b = Tail(s)[i]
    BY DEF ToSet
  <2> QED BY <2>1, <1>1, <1>3, Taken DEF Increasing
<1> QED BY <1>2, <1>3 DEF Before

\* A message that arrives, and one that is read.
LEMMA Arrived ==
  ASSUME NEW s \in Seq(Arrivals), NEW m \in Arrivals
  PROVE  /\ m.kind = "ping" => ResponsesIn(Append(s, m)) = ResponsesIn(s)
         /\ m.kind = "response" => ResponsesIn(Append(s, m)) = ResponsesIn(s) \union {m.id}
         /\ OneEach(s) /\ (m.kind = "response" => m.id \notin ResponsesIn(s))
              => OneEach(Append(s, m))
<1>1. ToSet(Append(s, m)) = ToSet(s) \union {m}
  BY Appended
<1>2. /\ DOMAIN s = 1..Len(s) /\ DOMAIN Append(s, m) = 1..(Len(s) + 1) /\ Len(s) \in Nat
      /\ Append(s, m)[Len(s) + 1] = m /\ \A i \in DOMAIN s : Append(s, m)[i] = s[i]
  OBVIOUS
<1>3. \A i \in DOMAIN s : s[i].kind = "response" => s[i].id \in ResponsesIn(s)
  BY DEF ResponsesIn, ToSet
<1>4. OneEach(s) /\ (m.kind = "response" => m.id \notin ResponsesIn(s)) => OneEach(Append(s, m))
  BY <1>2, <1>3 DEF OneEach
<1>5. m.kind = "response" => ResponsesIn(Append(s, m)) = ResponsesIn(s) \union {m.id}
  BY <1>1 DEF ResponsesIn
<1>6. m.kind = "ping" => ResponsesIn(Append(s, m)) = ResponsesIn(s)
  BY <1>1 DEF ResponsesIn
<1> QED BY <1>4, <1>5, <1>6

\* The reader takes the first that arrived: a ping, or the one response to its request.
LEMMA Read ==
  ASSUME NEW s \in Seq(Arrivals), s # <<>>, OneEach(s)
  PROVE  /\ OneEach(Tail(s))
         /\ Head(s).kind = "ping" => ResponsesIn(s) = ResponsesIn(Tail(s))
         /\ Head(s).kind = "response" =>
              /\ Head(s).id \in Ids /\ Head(s).id \notin ResponsesIn(Tail(s))
              /\ ResponsesIn(s) = ResponsesIn(Tail(s)) \union {Head(s).id}
<1>1. ToSet(s) = ToSet(Tail(s)) \union {Head(s)} /\ Head(s) \in Arrivals
  BY Taken
<1>2. \A i \in DOMAIN Tail(s) : i + 1 \in DOMAIN s /\ Tail(s)[i] = s[i + 1] /\ i \in Nat /\ i >= 1
  BY Taken
<1>3. 1 \in DOMAIN s /\ Head(s) = s[1]
  BY Taken
<1>4. OneEach(Tail(s))
  BY <1>2 DEF OneEach
<1>5. Head(s).kind = "ping" => ResponsesIn(s) = ResponsesIn(Tail(s))
  BY <1>1 DEF ResponsesIn
<1>6. ASSUME Head(s).kind = "response"
      PROVE  /\ Head(s).id \in Ids /\ Head(s).id \notin ResponsesIn(Tail(s))
             /\ ResponsesIn(s) = ResponsesIn(Tail(s)) \union {Head(s).id}
  <2>1. Head(s).id \in Ids
    BY <1>1, <1>6 DEF Arrivals
  <2>2. ASSUME Head(s).id \in ResponsesIn(Tail(s)) PROVE FALSE
    <3>1. PICK i \in DOMAIN Tail(s) : Tail(s)[i].kind = "response" /\ Tail(s)[i].id = Head(s).id
      BY <2>2 DEF ResponsesIn, ToSet
    <3> QED BY <3>1, <1>2, <1>3, <1>6 DEF OneEach
  <2>3. ResponsesIn(s) = ResponsesIn(Tail(s)) \union {Head(s).id}
    BY <1>1, <1>6 DEF ResponsesIn
  <2> QED BY <2>1, <2>2, <2>3
<1> QED BY <1>4, <1>5, <1>6

\* Nothing arrived, so no response did.
LEMMA NoResponses == ResponsesIn(<<>>) = {} /\ OneEach(<<>>)
<1>1. ToSet(<<>>) = {} /\ OneEach(<<>>)
  BY Nothing DEF OneEach
<1> QED BY <1>1 DEF ResponsesIn

\* None is neither a task nor a request nor a state.
LEMMA NoneIsNothing ==
  /\ None \notin Tasks /\ None \notin Nat /\ None \notin Ids /\ None \notin Callers
  /\ None \notin {"open", "lost", "closing", "pending", "result", "error", "reader", "beat"}
  /\ "reader" \notin Callers /\ "beat" \notin Callers
  /\ MaxRequests \in Nat /\ Capacity \in Nat
BY TransportAssumption, NoneAssumption DEF Tasks, Ids

-----------------------------------------------------------------------------
(* Types                                                                   *)

\* What a step makes of the calls are calls; an answer and a closed connection end what is
\* awaited and nothing else.
LEMMA CallsTyped ==
  ASSUME Typed
  PROVE  /\ \A id : Dispatched(id) \in [Callers -> Calls]
         /\ Failed \in [Callers -> Calls]
         /\ Idle \in Calls
         /\ \A c \in Callers : [call EXCEPT ![c] = Idle] \in [Callers -> Calls]
<1>1. Idle \in Calls
  BY DEF Idle, Calls
<1>2. ASSUME NEW k \in Calls, NEW x \in {"pending", "result", "error"}
      PROVE  [k EXCEPT !.future = x] \in Calls
  BY DEF Calls
<1>3. \A c \in Callers : call[c] \in Calls
  BY DEF Typed
<1>4. \A id : Dispatched(id) \in [Callers -> Calls]
  BY <1>2, <1>3 DEF Dispatched
<1>5. Failed \in [Callers -> Calls]
  BY <1>2, <1>3 DEF Failed
<1>6. \A c \in Callers : [call EXCEPT ![c] = Idle] \in [Callers -> Calls]
  BY <1>1 DEF Typed
<1> QED BY <1>1, <1>4, <1>5, <1>6

\* A task whose flush is over goes on in a state of its type.
LEMMA ContinueTyped ==
  ASSUME Typed, NEW task \in Tasks, Continue(task)
  PROVE  /\ reader' \in {"off", "reading", "flushing"} /\ event' \in Ids \union {None}
         /\ call' \in [Callers -> Calls]
         /\ beating' = beating /\ closed' = closed /\ pending' = pending
<1>1. CASE task = "reader"
  BY <1>1, CallsTyped DEF Continue, Typed
<1>2. CASE task # "reader"
  <2>1. \A c \in Callers : call[c] \in Calls /\ [call[c] EXCEPT !.at = "wait"] \in Calls
    BY DEF Typed, Calls
  <2>2. call' \in [Callers -> Calls]
    BY <1>2, <2>1 DEF Continue
  <2> QED BY <1>2, <2>2 DEF Continue, Typed
<1> QED BY <1>1, <1>2

\* A closed connection leaves no request pending that was not.
LEMMA OnClosedTyped ==
  ASSUME Typed, OnClosed
  PROVE  closed' = TRUE /\ pending' \subseteq pending /\ call' \in [Callers -> Calls]
BY CallsTyped DEF OnClosed, Forgotten, Typed

\* A task whose flush raises ends in a state of its type.
LEMMA RaiseTyped ==
  ASSUME Typed, NEW task \in Tasks, Raise(task)
  PROVE  /\ reader' \in {"off", "reading", "flushing"} /\ event' \in Ids \union {None}
         /\ call' \in [Callers -> Calls]
         /\ beating' \in BOOLEAN /\ closed' \in BOOLEAN /\ pending' \subseteq pending
<1>1. CASE task = "reader" /\ reader' = "off" /\ event' = None /\ OnClosed /\ UNCHANGED beating
  BY <1>1, OnClosedTyped DEF Typed
<1>2. CASE task = "beat" /\ beating' = FALSE /\ UNCHANGED <<reader, event, call, closed, pending>>
  BY <1>2 DEF Typed
<1>3. CASE /\ task \in Callers /\ call' = [call EXCEPT ![task] = Idle]
           /\ UNCHANGED <<reader, event, beating, closed, pending>>
  BY <1>3, CallsTyped DEF Typed
<1> QED BY <1>1, <1>2, <1>3 DEF Raise

\* A flush takes the lock or waits for it.
LEMMA EnterTyped ==
  ASSUME Typed, NEW task \in Tasks, NEW queue \in Seq(Messages), Enter(task, queue)
  PROVE  /\ lock' \in Tasks \union {None} /\ lockq' \in Seq(Tasks)
         /\ out' \in Seq(Messages) /\ batch' \in Seq(Messages)
<1>1. Append(lockq, task) \in Seq(Tasks) /\ <<>> \in Seq(Messages)
  BY Nothing, Appended DEF Typed
<1> QED BY <1>1 DEF Typed, Enter, Free, Hold, Drain

\* The reader flushes and dispatches within the types.
LEMMA FlushThenDispatchTyped ==
  ASSUME Typed, NEW id \in Ids \union {None}, NEW queue \in Seq(Messages),
         FlushThenDispatch(id, queue)
  PROVE  /\ lock' \in Tasks \union {None} /\ lockq' \in Seq(Tasks)
         /\ out' \in Seq(Messages) /\ batch' \in Seq(Messages)
         /\ reader' \in {"off", "reading", "flushing"} /\ event' \in Ids \union {None}
         /\ call' \in [Callers -> Calls]
<1>1. "reader" \in Tasks
  BY DEF Tasks
<1>2. CASE Free /\ queue = <<>> /\ call' = Dispatched(id) /\ UNCHANGED <<out, locks, reader, event>>
  BY <1>2, CallsTyped DEF Typed, locks
<1>3. CASE Enter("reader", queue) /\ reader' = "flushing" /\ event' = id /\ UNCHANGED call
  <2>1. /\ lock' \in Tasks \union {None} /\ lockq' \in Seq(Tasks)
        /\ out' \in Seq(Messages) /\ batch' \in Seq(Messages)
    BY <1>1, <1>3, EnterTyped
  <2> QED BY <1>3, <2>1 DEF Typed
<1> QED BY <1>2, <1>3 DEF FlushThenDispatch

\* A request is a message, and so is the reply to a ping.
LEMMA RequestsTyped ==
  ASSUME Typed
  PROVE  /\ Append(out, 0) \in Seq(Messages)
         /\ NewRequest =>
              /\ next_id \in Ids /\ next_id \in Messages /\ Queued \in Seq(Messages)
              /\ next_id' \in 1..(MaxRequests + 1) /\ pending' \subseteq 1..(next_id' - 1)
<1> USE NoneIsNothing
<1>1. 0 \in Messages
  BY DEF Messages
<1>2. Append(out, 0) \in Seq(Messages)
  BY <1>1, Appended DEF Typed
<1>3. ASSUME NewRequest
      PROVE  /\ next_id \in Ids /\ next_id \in Messages
             /\ next_id' \in 1..(MaxRequests + 1) /\ pending' \subseteq 1..(next_id' - 1)
  BY <1>3 DEF NewRequest, Typed, Messages, Ids
<1>4. NewRequest => Queued \in Seq(Messages)
  BY <1>3, Appended DEF Queued, Typed
<1> QED BY <1>2, <1>3, <1>4

\* Every step keeps the types.
LEMMA TypedStep ==
  ASSUME IInv, [Next]_vars
  PROVE  Typed'
<1> USE NoneIsNothing DEF IInv
<1>0. Typed /\ Locking
  OBVIOUS
<1>1. CASE Send
  <2>1. /\ Tail(batch) \in Seq(Messages) /\ Append(to_world, Head(batch)) \in Seq(Messages)
    BY <1>1, Taken, Appended DEF Send, Typed
  <2>2. lock \in Tasks
    BY <1>1 DEF Send, Locking, Typed
  <2>3. CASE Tail(batch) = <<>>
    <3>1. lock' = None /\ Continue(lock)
      BY <1>1, <2>3 DEF Send
    <3> QED BY <3>1, <2>1, <2>2, <1>1, ContinueTyped DEF Send, Typed, counts
  <2>4. CASE Tail(batch) # <<>>
    BY <1>1, <2>1, <2>4 DEF Send, Typed, tasks, counts
  <2> QED BY <2>3, <2>4
<1>2. CASE SendFails
  <2>1. lock \in Tasks
    BY <1>2 DEF SendFails, Locking, Typed
  <2>2. Raise(lock) /\ lock' = None /\ batch' = <<>>
        /\ UNCHANGED <<next_id, out, accused, ws, lockq, net, counts>>
    BY <1>2 DEF SendFails
  <2> QED BY <2>1, <2>2, RaiseTyped, Nothing DEF Typed, net, counts
<1>3. CASE Wake
  <2>1. Head(lockq) \in Tasks /\ Tail(lockq) \in Seq(Tasks)
    BY <1>3, Taken DEF Wake, Typed
  <2>2. lockq' = Tail(lockq) /\ UNCHANGED <<next_id, accused, ws, net, counts>>
    BY <1>3 DEF Wake
  <2>3. CASE ws = None /\ Raise(Head(lockq)) /\ UNCHANGED <<lock, batch, out>>
    BY <2>1, <2>2, <2>3, RaiseTyped DEF Typed, net, counts
  <2>4. CASE ws # None /\ out = <<>> /\ Continue(Head(lockq)) /\ UNCHANGED <<lock, batch, out>>
    BY <2>1, <2>2, <2>4, ContinueTyped DEF Typed, net, counts
  <2>5. CASE ws # None /\ out # <<>> /\ Hold(Head(lockq), out) /\ UNCHANGED <<tasks, closed, pending>>
    BY <2>1, <2>2, <2>5, Nothing DEF Typed, net, counts, tasks, Hold, Drain
  <2> QED BY <1>3, <2>3, <2>4, <2>5 DEF Wake
<1>4. CASE Beat
  <2>1. NewRequest /\ Enter("beat", Queued) /\ UNCHANGED <<accused, ws, closed, tasks, net, counts>>
    BY <1>4 DEF Beat
  <2>2. "beat" \in Tasks
    BY DEF Tasks
  <2>3. /\ lock' \in Tasks \union {None} /\ lockq' \in Seq(Tasks)
        /\ out' \in Seq(Messages) /\ batch' \in Seq(Messages)
    BY <2>1, <2>2, RequestsTyped, EnterTyped
  <2> QED BY <2>1, <2>3, RequestsTyped DEF Typed, tasks, net, counts
<1>5. ASSUME NEW c \in Callers, Call(c) PROVE Typed'
  <2>1. NewRequest /\ UNCHANGED <<accused, ws, closed, reader, event, beating, net, connections>>
    BY <1>5 DEF Call
  <2>2. CASE out' = Queued /\ UNCHANGED <<locks, call>>
    BY <2>1, <2>2, RequestsTyped DEF Typed, net, locks
  <2>3. CASE /\ Enter(c, Queued)
             /\ call' = [call EXCEPT ![c] = [at |-> "flush", id |-> next_id,
                                             future |-> IF closed THEN "error" ELSE "pending"]]
    <3>1. c \in Tasks
      BY DEF Tasks
    <3>2. /\ lock' \in Tasks \union {None} /\ lockq' \in Seq(Tasks)
          /\ out' \in Seq(Messages) /\ batch' \in Seq(Messages)
      BY <2>1, <2>3, <3>1, RequestsTyped, EnterTyped
    <3>3. [at |-> "flush", id |-> next_id, future |-> IF closed THEN "error" ELSE "pending"] \in Calls
      BY <2>1, RequestsTyped DEF Calls
    <3>4. call' \in [Callers -> Calls]
      BY <2>3, <3>3 DEF Typed
    <3> QED BY <2>1, <3>2, <3>4, RequestsTyped DEF Typed, net
  <2> QED BY <1>5, <2>2, <2>3 DEF Call
<1>6. ASSUME NEW c \in Callers, Return(c) \/ Timeout(c) PROVE Typed'
  <2>1. /\ call' = [call EXCEPT ![c] = Idle]
        /\ UNCHANGED <<conn, ws, closed, locks, reader, event, beating, net>>
    BY <1>6 DEF Return, Timeout
  <2>2. call' \in [Callers -> Calls]
    BY <2>1, CallsTyped
  <2> QED BY <2>1, <2>2 DEF Typed, conn, locks, net
<1>7. ASSUME NEW c \in Callers, Cancel(c) PROVE Typed'
  <2>1. RemoveFirst(lockq, c) \in Seq(Tasks) /\ <<>> \in Seq(Messages)
    BY Removed, Nothing DEF Typed, Locking
  <2> QED BY <1>7, <2>1, CallsTyped DEF Cancel, Typed, conn, net
<1>8. CASE ReadResponse
  <2>1. /\ Head(to_agent).kind = "response" /\ to_agent # <<>> /\ to_agent' = Tail(to_agent)
        /\ UNCHANGED <<next_id, ws, closed, beating, to_world, asked, counts>>
    BY <1>8 DEF ReadResponse, Reading
  <2>2. Head(to_agent).id \in Ids /\ Tail(to_agent) \in Seq(Arrivals)
    BY <2>1, Read, Taken DEF Typed, AnsweredOnce
  <2>3. /\ pending' = pending \ {Head(to_agent).id} /\ accused' \in BOOLEAN
        /\ FlushThenDispatch(IF Head(to_agent).id \in pending THEN Head(to_agent).id ELSE None, out)
    BY <1>8 DEF ReadResponse, Typed
  <2>4. /\ lock' \in Tasks \union {None} /\ lockq' \in Seq(Tasks)
        /\ out' \in Seq(Messages) /\ batch' \in Seq(Messages)
        /\ reader' \in {"off", "reading", "flushing"} /\ event' \in Ids \union {None}
        /\ call' \in [Callers -> Calls]
    BY <2>2, <2>3, FlushThenDispatchTyped DEF Typed
  <2> QED BY <2>1, <2>2, <2>3, <2>4 DEF Typed
<1>9. CASE ReadPing
  <2>1. /\ to_agent # <<>> /\ to_agent' = Tail(to_agent)
        /\ UNCHANGED <<next_id, ws, closed, beating, to_world, asked, counts>>
        /\ UNCHANGED <<pending, accused>> /\ FlushThenDispatch(None, Append(out, 0))
    BY <1>9 DEF ReadPing, Reading
  <2>2. Tail(to_agent) \in Seq(Arrivals)
    BY <2>1, Taken DEF Typed
  <2>3. /\ lock' \in Tasks \union {None} /\ lockq' \in Seq(Tasks)
        /\ out' \in Seq(Messages) /\ batch' \in Seq(Messages)
        /\ reader' \in {"off", "reading", "flushing"} /\ event' \in Ids \union {None}
        /\ call' \in [Callers -> Calls]
    BY <2>1, RequestsTyped, FlushThenDispatchTyped DEF Typed
  <2> QED BY <2>1, <2>2, <2>3 DEF Typed
<1>10. CASE ReaderEnds
  BY <1>10, OnClosedTyped DEF ReaderEnds, Typed, locks, net
<1>11. CASE LoseConnection \/ Watch
  BY <1>11, Nothing DEF LoseConnection, Watch, Gone, Typed, conn, locks, tasks
<1>12. CASE Drop
  <2>1. RemoveFirst(RemoveFirst(lockq, "reader"), "beat") \in Seq(Tasks)
    BY Removed DEF Typed, Locking
  <2>2. /\ closed' = TRUE /\ pending' \subseteq pending /\ call' \in [Callers -> Calls]
    BY <1>12, OnClosedTyped DEF Drop
  <2>3. /\ lock' \in Tasks \union {None} /\ batch' \in Seq(Messages) /\ to_world' \in Seq(Messages)
        /\ lockq' \in Seq(Tasks) /\ to_agent' \in Seq(Arrivals)
    BY <1>12, <2>1, Nothing DEF Drop, Gone, Typed
  <2>4. /\ UNCHANGED <<next_id, out, accused>> /\ ws' = "closing" /\ asked' = {}
        /\ reader' = "off" /\ event' = None /\ beating' = FALSE
    BY <1>12 DEF Drop, Gone
  <2> QED BY <2>2, <2>3, <2>4 DEF Typed
<1>13. CASE FinishDrop \/ Connect
  BY <1>13 DEF FinishDrop, Connect, Typed, conn, locks, tasks, net
<1>14. CASE TakeRequest
  <2>1. Head(to_world) \in Messages /\ Tail(to_world) \in Seq(Messages)
    BY <1>14, Taken DEF TakeRequest, Typed
  <2>2. {Head(to_world)} \ {0} \subseteq Ids
    BY <2>1 DEF Messages, Ids
  <2> QED BY <1>14, <2>1, <2>2 DEF TakeRequest, Typed, conn, locks, tasks
<1>15. ASSUME NEW id \in Ids, Answer(id) PROVE Typed'
  <2>1. Append(to_agent, [kind |-> "response", id |-> id]) \in Seq(Arrivals)
    BY Appended DEF Typed, Arrivals
  <2> QED BY <1>15, <2>1 DEF Answer, Typed, conn, locks, tasks
<1>16. CASE WorldPings
  <2>1. Append(to_agent, [kind |-> "ping"]) \in Seq(Arrivals)
    BY Appended DEF Typed, Arrivals
  <2> QED BY <1>16, <2>1 DEF WorldPings, Typed, conn, locks, tasks
<1>17. CASE UNCHANGED vars
  BY <1>17 DEF Typed, vars, conn, locks, tasks, net
<1> QED BY <1>1, <1>2, <1>3, <1>4, <1>5, <1>6, <1>7, <1>8, <1>9, <1>10, <1>11, <1>12, <1>13,
           <1>14, <1>15, <1>16, <1>17 DEF Next

-----------------------------------------------------------------------------
(* The lock                                                                *)

\* A task enters flush: it has the lock, or waits for it.
LEMMA EnterLocks ==
  ASSUME Typed, Locking, NEW task \in Tasks, ~Within(task),
         NEW queue \in Seq(Messages), Enter(task, queue)
  PROVE  /\ (lock' = None <=> batch' = <<>>)
         /\ Distinct(lockq') /\ lock' \notin ToSet(lockq')
         /\ \A t \in Tasks : Within(t)' <=> (Within(t) \/ t = task)
<1> USE NoneIsNothing
<1>1. CASE Free /\ queue # <<>> /\ Hold(task, queue) /\ UNCHANGED lockq
  BY <1>1, Nothing DEF Free, Hold, Within, Locking
<1>2. CASE ~Free /\ lockq' = Append(lockq, task) /\ out' = queue /\ UNCHANGED <<lock, batch>>
  <2>1. ToSet(lockq') = ToSet(lockq) \union {task} /\ Distinct(lockq')
    BY <1>2, Appended, AppendedOnce DEF Typed, Locking, Within
  <2> QED BY <1>2, <2>1 DEF Locking, Within
<1> QED BY <1>1, <1>2 DEF Enter

\* Its flush is over, or raises: that task goes on, and the others stay where they are.
LEMMA ContinueLeaves ==
  ASSUME Typed, NEW task \in Tasks, Continue(task) \/ Raise(task)
  PROVE  /\ \A c \in Callers : (call'[c].at = "flush") <=> (call[c].at = "flush" /\ c # task)
         /\ (reader' = "flushing") <=> (reader = "flushing" /\ task # "reader")
<1> USE NoneIsNothing
<1>1. \A c \in Callers : call[c] \in Calls
  BY DEF Typed
<1>2. /\ \A id : \A c \in Callers : Dispatched(id)[c].at = call[c].at
      /\ \A c \in Callers : Failed[c].at = call[c].at
  BY <1>1 DEF Dispatched, Failed, Calls
<1>3. CASE Continue(task) /\ task = "reader"
  BY <1>3, <1>2 DEF Continue
<1>4. CASE Continue(task) /\ task # "reader"
  <2>1. \A c \in Callers : c # task => call'[c] = call[c]
    BY <1>4 DEF Continue
  <2>2. task \in Callers => call'[task].at = "wait"
    BY <1>4, <1>1 DEF Continue, Calls
  <2> QED BY <1>4, <2>1, <2>2 DEF Continue
<1>5. CASE task = "reader" /\ reader' = "off" /\ event' = None /\ OnClosed /\ UNCHANGED beating
  BY <1>5, <1>2 DEF OnClosed
<1>6. CASE task = "beat" /\ beating' = FALSE /\ UNCHANGED <<reader, event, call, closed, pending>>
  BY <1>6
<1>7. CASE /\ task \in Callers /\ call' = [call EXCEPT ![task] = Idle]
           /\ UNCHANGED <<reader, event, beating, closed, pending>>
  BY <1>7 DEF Idle, Typed
<1> QED BY <1>3, <1>4, <1>5, <1>6, <1>7 DEF Raise

\* Every step keeps each task in its place.
LEMMA LockingStep ==
  ASSUME IInv, [Next]_vars
  PROVE  Locking'
<1> USE NoneIsNothing DEF IInv
<1>0. /\ \A t \in Callers \union {"reader", "beat"} : t \in Tasks
      /\ \A t \in Tasks : t \in Callers \/ t = "reader" \/ t = "beat"
  BY DEF Tasks
<1>a. ASSUME NEW task \in Tasks, Within(task), Continue(task) \/ Raise(task),
             Distinct(lockq'), lock' \notin ToSet(lockq'), (lock' = None <=> batch' = <<>>),
             \A t \in Tasks : Within(t)' <=> (Within(t) /\ t # task)
      PROVE  Locking'
  BY <1>0, <1>a, ContinueLeaves DEF Locking
<1>1. CASE Send
  <2>1. lock \in Tasks /\ lock \notin ToSet(lockq)
    BY <1>1 DEF Send, Locking, Typed
  <2>2. CASE Tail(batch) = <<>>
    <3>1. lock' = None /\ Continue(lock) /\ lockq' = lockq /\ batch' = <<>>
      BY <1>1, <2>2 DEF Send
    <3>2. \A t \in Tasks : Within(t)' <=> (Within(t) /\ t # lock)
      BY <3>1, <2>1 DEF Within
    <3>3. Within(lock) /\ None \notin ToSet(lockq)
      BY DEF Within, Typed, ToSet
    <3> QED BY <2>1, <3>1, <3>2, <3>3, <1>a DEF Locking
  <2>3. CASE Tail(batch) # <<>>
    BY <1>1, <2>1, <2>3 DEF Send, Locking, Within, tasks
  <2> QED BY <2>2, <2>3
<1>2. CASE SendFails
  <2>1. lock \in Tasks /\ lock \notin ToSet(lockq)
    BY <1>2 DEF SendFails, Locking, Typed
  <2>2. Raise(lock) /\ lock' = None /\ batch' = <<>> /\ lockq' = lockq
    BY <1>2 DEF SendFails
  <2>3. \A t \in Tasks : Within(t)' <=> (Within(t) /\ t # lock)
    BY <2>1, <2>2 DEF Within
  <2>4. Within(lock) /\ None \notin ToSet(lockq)
    BY DEF Within, Typed, ToSet
  <2> QED BY <2>1, <2>2, <2>3, <2>4, <1>a DEF Locking
<1>3. CASE Wake
  <2>1. /\ Head(lockq) \in Tasks /\ ToSet(lockq) = ToSet(Tail(lockq)) \union {Head(lockq)}
        /\ Distinct(Tail(lockq)) /\ Head(lockq) \notin ToSet(Tail(lockq))
    BY <1>3, Taken, TakenOnce DEF Wake, Typed, Locking
  <2>2. lock = None /\ lockq' = Tail(lockq) /\ None \notin ToSet(lockq)
    BY <1>3 DEF Wake, Typed, ToSet
  <2>3. CASE UNCHANGED <<lock, batch, out>> /\ (Raise(Head(lockq)) \/ Continue(Head(lockq)))
    <3>1. \A t \in Tasks : Within(t)' <=> (Within(t) /\ t # Head(lockq))
      BY <2>1, <2>2, <2>3 DEF Within
    <3>2. Within(Head(lockq))
      BY <2>1 DEF Within
    <3> QED BY <2>1, <2>2, <2>3, <3>1, <3>2, <1>a DEF Locking
  <2>4. CASE out # <<>> /\ Hold(Head(lockq), out) /\ UNCHANGED <<tasks, closed, pending>>
    <3>1. \A t \in Tasks : Within(t)' <=> Within(t)
      BY <2>1, <2>2, <2>4 DEF Within, Hold
    <3> QED BY <1>0, <2>1, <2>2, <2>4, <3>1 DEF Locking, Hold, tasks
  <2> QED BY <1>3, <2>3, <2>4 DEF Wake
<1>4. CASE Beat
  <2>1. /\ NewRequest /\ Enter("beat", Queued) /\ UNCHANGED <<call, reader>>
        /\ lock # "beat" /\ ~Contains(lockq, "beat")
    BY <1>4 DEF Beat, tasks
  <2>2. ~Within("beat")
    BY <2>1 DEF Within, Contains, ToSet, Typed
  <2>3. Queued \in Seq(Messages)
    BY <2>1, RequestsTyped
  <2> QED BY <1>0, <2>1, <2>2, <2>3, EnterLocks DEF Locking
<1>5. ASSUME NEW c \in Callers, Call(c) PROVE Locking'
  <2>1. NewRequest /\ reader' = reader /\ call[c] = Idle
    BY <1>5 DEF Call
  <2>2. CASE out' = Queued /\ UNCHANGED <<locks, call>>
    BY <2>1, <2>2 DEF Locking, Within, locks
  <2>3. CASE /\ Enter(c, Queued)
             /\ call' = [call EXCEPT ![c] = [at |-> "flush", id |-> next_id,
                                             future |-> IF closed THEN "error" ELSE "pending"]]
    <3>1. ~Within(c)
      BY <2>1 DEF Locking, Idle
    <3>2. Queued \in Seq(Messages)
      BY <2>1, RequestsTyped
    <3>3. \A d \in Callers : (call'[d].at = "flush") <=> (call[d].at = "flush" \/ d = c)
      BY <2>3 DEF Typed
    <3> QED BY <1>0, <2>1, <2>3, <3>1, <3>2, <3>3, EnterLocks DEF Locking
  <2> QED BY <1>5, <2>2, <2>3 DEF Call
<1>6. ASSUME NEW c \in Callers, Return(c) \/ Timeout(c) PROVE Locking'
  <2>1. call[c].at # "flush" /\ UNCHANGED <<locks, reader>> /\ call' = [call EXCEPT ![c] = Idle]
    BY <1>6 DEF Return, Timeout
  <2>2. \A d \in Callers : (call'[d].at = "flush") <=> (call[d].at = "flush")
    BY <2>1 DEF Typed, Idle
  <2> QED BY <2>1, <2>2 DEF Locking, Within, locks
<1>7. ASSUME NEW c \in Callers, Cancel(c) PROVE Locking'
  <2>1. /\ RemoveFirst(lockq, c) \in Seq(Tasks) /\ Distinct(RemoveFirst(lockq, c))
        /\ ToSet(RemoveFirst(lockq, c)) = ToSet(lockq) \ {c}
    BY Removed DEF Typed, Locking
  <2>2. \A d \in Callers : (call'[d].at = "flush") <=> (call[d].at = "flush" /\ d # c)
    BY <1>7 DEF Cancel, Idle, Typed
  <2>3. None \notin ToSet(lockq)
    BY DEF Typed, ToSet
  <2>4. CASE lock = c
    BY <1>0, <1>7, <2>2, <2>3, <2>4 DEF Cancel, Locking, Within
  <2>5. CASE lock # c
    BY <1>0, <1>7, <2>1, <2>2, <2>3, <2>5 DEF Cancel, Locking, Within
  <2> QED BY <2>4, <2>5
<1>8. ASSUME NEW id \in Ids \union {None}, NEW queue \in Seq(Messages), reader = "reading",
             FlushThenDispatch(id, queue)
      PROVE  Locking'
  <2>1. CASE call' = Dispatched(id) /\ UNCHANGED <<out, locks, reader, event>>
    <3>1. \A c \in Callers : call[c] \in Calls
      BY DEF Typed
    <3>2. \A c \in Callers : call'[c].at = call[c].at
      BY <2>1, <3>1 DEF Dispatched, Calls
    <3> QED BY <2>1, <3>2 DEF Locking, Within, locks
  <2>2. CASE Enter("reader", queue) /\ reader' = "flushing" /\ UNCHANGED call
    <3>1. ~Within("reader")
      BY <1>8 DEF Locking
    <3> QED BY <1>0, <2>2, <3>1, EnterLocks DEF Locking
  <2> QED BY <1>8, <2>1, <2>2 DEF FlushThenDispatch
<1>9. CASE ReadResponse
  <2>1. reader = "reading" /\ Head(to_agent).kind = "response" /\ to_agent # <<>>
    BY <1>9 DEF ReadResponse, Reading
  <2>2. Head(to_agent).id \in Ids
    BY <2>1, Read DEF Typed, AnsweredOnce
  <2> QED BY <1>9, <2>1, <2>2, <1>8 DEF ReadResponse, Typed
<1>10. CASE ReadPing
  BY <1>10, RequestsTyped, <1>8 DEF ReadPing, Reading
<1>11. CASE ReaderEnds
  <2>1. \A c \in Callers : call[c] \in Calls
    BY DEF Typed
  <2>2. \A c \in Callers : call'[c].at = call[c].at
    BY <1>11, <2>1 DEF ReaderEnds, OnClosed, Failed, Calls
  <2> QED BY <1>11, <2>2 DEF ReaderEnds, Locking, Within, locks
<1>12. CASE Drop
  <2> DEFINE q == RemoveFirst(lockq, "reader")
  <2>1. q \in Seq(Tasks) /\ Distinct(q) /\ ToSet(q) = ToSet(lockq) \ {"reader"}
    BY Removed DEF Typed, Locking
  <2>2. Distinct(RemoveFirst(q, "beat")) /\ ToSet(RemoveFirst(q, "beat")) = ToSet(q) \ {"beat"}
    <3> HIDE DEF q
    <3> QED BY <2>1, Removed
  <2>3. \A c \in Callers : call[c] \in Calls
    BY DEF Typed
  <2>4. \A c \in Callers : call'[c].at = call[c].at
    BY <1>12, <2>3 DEF Drop, OnClosed, Failed, Calls
  <2>5. /\ lockq' = RemoveFirst(q, "beat") /\ reader' = "off"
        /\ IF lock \in {"reader", "beat"} THEN lock' = None /\ batch' = <<>>
                                          ELSE UNCHANGED <<lock, batch>>
    BY <1>12 DEF Drop
  <2>6. None \notin ToSet(lockq)
    BY DEF Typed, ToSet
  <2> HIDE DEF q
  <2>7. \A c \in Callers : Within(c)' <=> Within(c)
    BY <2>1, <2>2, <2>5 DEF Within
  <2>8. ~Within("reader")' /\ lock' \notin ToSet(lockq') /\ (lock' = None <=> batch' = <<>>)
    BY <2>1, <2>2, <2>5, <2>6 DEF Within, Locking
  <2> QED BY <2>2, <2>4, <2>5, <2>7, <2>8 DEF Locking
<1>13. CASE Connect
  <2>1. UNCHANGED <<locks, call>> /\ reader' = "reading" /\ Free
    BY <1>13 DEF Connect
  <2>2. ~Within("reader")
    BY <2>1, Nothing DEF Within, Free
  <2> QED BY <2>1, <2>2 DEF Locking, Within, locks
<1>14. CASE UNCHANGED <<lock, lockq, batch, call, reader>>
  BY <1>14 DEF Locking, Within
<1>15. LoseConnection \/ Watch \/ FinishDrop \/ TakeRequest \/ WorldPings
         \/ (\E id \in Ids : Answer(id)) \/ UNCHANGED vars
       => UNCHANGED <<lock, lockq, batch, call, reader>>
  BY DEF LoseConnection, Watch, FinishDrop, TakeRequest, Answer, WorldPings, locks, tasks, vars
<1> QED BY <1>1, <1>2, <1>3, <1>4, <1>5, <1>6, <1>7, <1>9, <1>10, <1>11, <1>12, <1>13, <1>14,
           <1>15 DEF Next

-----------------------------------------------------------------------------
(* The connection                                                          *)

\* A task that goes on leaves the connection open; one that raises leaves an open connection
\* only if it is not the reader.
LEMMA ContinueConnected ==
  ASSUME Typed, Locking, Connection, NEW task \in Tasks, Within(task), Continue(task)
  PROVE  /\ closed' = closed /\ closed' = (reader' = "off")
         /\ event' # None => reader' = "flushing"
<1>1. CASE task = "reader"
  BY <1>1 DEF Continue, Locking, Connection
<1>2. CASE task # "reader"
  BY <1>2 DEF Continue, Connection
<1> QED BY <1>1, <1>2

\* A flush that raises closes the connection exactly if it was the reader's.
LEMMA RaiseConnected ==
  ASSUME Typed, Locking, Connection, NEW task \in Tasks, Within(task), Raise(task)
  PROVE  /\ closed' = (reader' = "off") /\ (closed => closed')
         /\ task # "reader" => closed' = closed
         /\ event' # None => reader' = "flushing"
<1> USE NoneIsNothing
<1>1. CASE task = "reader" /\ reader' = "off" /\ event' = None /\ OnClosed
  BY <1>1 DEF OnClosed
<1>2. CASE task # "reader" /\ UNCHANGED <<reader, event, closed>>
  BY <1>2 DEF Connection
<1> QED BY <1>1, <1>2 DEF Raise

\* Every step keeps the connection, the reader and what is on the connection together.
LEMMA ConnectionStep ==
  ASSUME IInv, [Next]_vars
  PROVE  Connection'
<1> USE NoneIsNothing DEF IInv
<1>0. Typed /\ Locking /\ Connection /\ ws \in {None, "open", "lost", "closing"}
  BY DEF Typed
<1>1. CASE Send
  <2>1. lock \in Tasks /\ Within(lock)
    BY <1>1 DEF Send, Locking, Typed, Within
  <2>2. /\ ws = "open" /\ UNCHANGED <<ws, to_agent, asked>>
        /\ to_world' = Append(to_world, Head(batch)) /\ Len(to_world) < Capacity
    BY <1>1 DEF Send
  <2>3. Len(to_world') <= Capacity
    BY <1>1, <2>2, Taken, Appended DEF Typed, Send
  <2>4. /\ closed' = closed /\ closed' = (reader' = "off")
        /\ event' # None => reader' = "flushing"
    BY <1>1, <2>1, ContinueConnected DEF Send, tasks, Connection
  <2> QED BY <2>2, <2>3, <2>4 DEF Connection
<1>2. CASE SendFails
  <2>1. lock \in Tasks /\ Within(lock)
    BY <1>2 DEF SendFails, Locking, Typed, Within
  <2>2. ws # "open" /\ UNCHANGED <<ws, to_agent, to_world, asked>> /\ Raise(lock)
    BY <1>2 DEF SendFails, net
  <2>3. /\ closed' = (reader' = "off") /\ (closed => closed')
        /\ event' # None => reader' = "flushing"
    BY <2>1, <2>2, RaiseConnected
  <2> QED BY <2>2, <2>3 DEF Connection
<1>3. CASE Wake
  <2>1. Head(lockq) \in Tasks /\ Within(Head(lockq))
    BY <1>3, Taken DEF Wake, Typed, Within
  <2>2. UNCHANGED <<ws, to_agent, to_world, asked>>
    BY <1>3 DEF Wake, net
  <2>3. CASE ws = None /\ Raise(Head(lockq))
    BY <2>1, <2>2, <2>3, RaiseConnected DEF Connection
  <2>4. CASE Continue(Head(lockq))
    BY <2>1, <2>2, <2>4, ContinueConnected DEF Connection
  <2>5. CASE UNCHANGED <<tasks, closed>>
    BY <2>2, <2>5 DEF Connection, tasks
  <2> QED BY <1>3, <2>3, <2>4, <2>5 DEF Wake
<1>4. CASE UNCHANGED <<ws, to_agent, to_world, asked, closed, reader, event>>
  BY <1>4 DEF Connection
<1>5. Beat \/ (\E c \in Callers : Call(c) \/ Return(c) \/ Timeout(c) \/ Cancel(c)) \/ UNCHANGED vars
        => UNCHANGED <<ws, to_agent, to_world, asked, closed, reader, event>>
  BY DEF Beat, Call, Return, Timeout, Cancel, tasks, net, vars
<1>6. ASSUME ReadResponse \/ ReadPing PROVE Connection'
  <2>1. /\ reader = "reading" /\ to_agent # <<>> /\ UNCHANGED <<ws, closed, to_world, asked>>
        /\ to_agent' = Tail(to_agent)
    BY <1>6 DEF ReadResponse, ReadPing, Reading
  <2>2. \/ UNCHANGED <<reader, event>>
        \/ reader' = "flushing"
    BY <1>6 DEF ReadResponse, ReadPing, FlushThenDispatch
  <2>3. ~closed /\ event = None
    BY <2>1 DEF Connection
  <2> QED BY <2>1, <2>2, <2>3 DEF Connection
<1>7. CASE ReaderEnds
  <2>1. event = None
    BY <1>7 DEF ReaderEnds, Connection
  <2> QED BY <1>7, <2>1 DEF ReaderEnds, OnClosed, Connection, net
<1>8. CASE LoseConnection \/ Watch
  <2>1. /\ ws = "open" /\ ws' = "lost" /\ to_world' = <<>> /\ asked' = {}
        /\ UNCHANGED <<closed, reader, event>>
    BY <1>8 DEF LoseConnection, Watch, Gone, tasks
  <2> QED BY <2>1, Nothing DEF Connection
<1>9. CASE Drop
  <2>1. /\ ws' = "closing" /\ to_world' = <<>> /\ asked' = {} /\ to_agent' = <<>>
        /\ closed' = TRUE /\ reader' = "off" /\ event' = None
    BY <1>9 DEF Drop, Gone, OnClosed
  <2>2. closed' = (reader' = "off")
    BY <2>1
  <2>3. Len(to_world') <= Capacity
    BY <2>1, Nothing
  <2> QED BY <2>1, <2>2, <2>3 DEF Connection
<1>10. CASE FinishDrop
  <2>1. ws = "closing" /\ ws' = None /\ UNCHANGED <<closed, reader, event, to_world, to_agent, asked>>
    BY <1>10 DEF FinishDrop, tasks, net
  <2> QED BY <2>1 DEF Connection
<1>11. CASE Connect
  <2>1. /\ ws = None /\ ws' = "open" /\ closed' = FALSE /\ reader' = "reading"
        /\ UNCHANGED <<event, to_world, to_agent, asked>>
    BY <1>11 DEF Connect, net
  <2>2. event = None
    BY <2>1 DEF Connection
  <2> QED BY <2>1, <2>2 DEF Connection
<1>12. CASE TakeRequest
  <2>1. /\ to_world # <<>> /\ to_world' = Tail(to_world)
        /\ UNCHANGED <<ws, closed, reader, event, to_agent>>
    BY <1>12 DEF TakeRequest, tasks
  <2>2. Len(to_world') <= Capacity
    BY <2>1, Taken DEF Typed, Connection
  <2> QED BY <2>1, <2>2 DEF Connection
<1>13. CASE (\E id \in Ids : Answer(id)) \/ WorldPings
  <2>1. /\ ws = "open" /\ UNCHANGED <<ws, closed, reader, event, to_world>>
        /\ asked' = asked \/ ws = "open"
    BY <1>13 DEF Answer, WorldPings, tasks, Connection
  <2> QED BY <2>1 DEF Connection
<1> QED BY <1>1, <1>2, <1>3, <1>4, <1>5, <1>6, <1>7, <1>8, <1>9, <1>10, <1>11, <1>12, <1>13 DEF Next

-----------------------------------------------------------------------------
(* What moves                                                              *)

\* What moves is requests, and replies to pings on their way to the world.
LEMMA MovingTyped ==
  ASSUME Typed
  PROVE  /\ \A x \in OnTheWire \union Drained \union Queueing : x \in Messages /\ x \in Nat
         /\ \A x \in asked \union Responding : x \in Ids /\ x \in Messages /\ x \in Nat /\ x # 0
<1> USE NoneIsNothing
<1>1. \A s \in Seq(Messages) : \A x \in ToSet(s) : x \in Messages
  BY DEF ToSet
<1>2. \A x \in OnTheWire \union Drained \union Queueing : x \in Messages
  BY <1>1 DEF Typed, OnTheWire, Drained, Queueing
<1>3. \A i \in DOMAIN to_agent : to_agent[i] \in Arrivals
  BY DEF Typed
<1>4. \A x \in asked \union Responding : x \in Ids
  BY <1>3 DEF Typed, Responding, ResponsesIn, ToSet, Arrivals
<1>5. /\ \A x \in Messages : x \in Nat
      /\ \A x \in Ids : x \in Messages /\ x \in Nat /\ x # 0
  BY DEF Messages, Ids
<1> QED BY <1>2, <1>4, <1>5

\* The queue a flush is called with is drained at once, or waits with its task.
LEMMA EnterMoves ==
  ASSUME Typed, Locking, NEW task, NEW queue \in Seq(Messages), Enter(task, queue)
  PROVE  /\ \/ Drained = {} /\ Drained' = ToSet(queue) /\ Queueing' = {}
               /\ batch' = queue /\ out' = <<>>
            \/ Drained' = Drained /\ Queueing' = ToSet(queue) /\ batch' = batch /\ out' = queue
         /\ Drained' \union Queueing' = Drained \union ToSet(queue)
<1>1. CASE Free /\ queue # <<>> /\ Hold(task, queue) /\ UNCHANGED lockq
  <2>1. batch = <<>> /\ batch' = queue /\ out' = <<>>
    BY <1>1 DEF Free, Hold, Drain, Locking
  <2> QED BY <2>1, Nothing DEF Drained, Queueing
<1>2. CASE lockq' = Append(lockq, task) /\ out' = queue /\ UNCHANGED <<lock, batch>>
  BY <1>2 DEF Drained, Queueing
<1> QED BY <1>1, <1>2 DEF Enter

\* The reader's flush drains the queue or leaves it to the lock's holder.
LEMMA FlushThenDispatchMoves ==
  ASSUME Typed, Locking, NEW id, NEW queue \in Seq(Messages), FlushThenDispatch(id, queue),
         queue = <<>> => out = <<>>
  PROVE  /\ \/ Drained = {} /\ Drained' = ToSet(queue) /\ Queueing' = {}
               /\ batch' = queue /\ out' = <<>>
            \/ Drained' = Drained /\ Queueing' = ToSet(queue) /\ batch' = batch /\ out' = queue
         /\ Drained' \union Queueing' = Drained \union ToSet(queue)
<1>1. CASE Free /\ queue = <<>> /\ UNCHANGED <<out, locks>>
  <2>1. batch' = batch /\ out' = queue
    BY <1>1 DEF locks
  <2> QED BY <2>1 DEF Drained, Queueing
<1>2. CASE Enter("reader", queue)
  BY <1>2, EnterMoves
<1> QED BY <1>1, <1>2 DEF FlushThenDispatch

\* A queue that is in order, behind what was drained before, is in order wherever it goes.
LEMMA FlushedInOrder ==
  ASSUME Typed, Ordered, NEW queue \in Seq(Messages), NEW A,
         \/ /\ Drained = {} /\ Drained' = ToSet(queue) /\ Queueing' = {}
            /\ batch' = queue /\ out' = <<>>
         \/ Drained' = Drained /\ Queueing' = ToSet(queue) /\ batch' = batch /\ out' = queue,
         Increasing(queue), Before(Drained, ToSet(queue)),
         Before(A, Drained), Before(A, ToSet(queue))
  PROVE  /\ Increasing(batch') /\ Increasing(out') /\ Before(Drained', Queueing')
         /\ Before(A, Drained') /\ Before(A, Queueing')
<1>1. Before(ToSet(queue), {}) /\ Before(A, {})
  BY DEF Before
<1> QED BY <1>1, Nothing DEF Ordered

\* The queue with a new request, or with a reply, is in order.
LEMMA QueuedInOrder ==
  ASSUME Typed, Ordered, NEW m \in Messages, m = 0 \/ m = next_id,
         NEW A, Before(A, Queueing), Before(A, {next_id})
  PROVE  /\ Append(out, m) \in Seq(Messages) /\ Increasing(Append(out, m))
         /\ ToSet(Append(out, m)) = Queueing \union {m} /\ Append(out, m) # <<>>
         /\ Before(A, ToSet(Append(out, m)))
<1>1. Append(out, m) \in Seq(Messages) /\ ToSet(Append(out, m)) = Queueing \union {m}
      /\ Append(out, m) # <<>>
  BY Appended DEF Typed, Queueing
<1>2. Before(Queueing, {m})
  BY DEF Ordered, Before
<1>3. Increasing(Append(out, m))
  BY <1>2, AppendedInOrder DEF Typed, Ordered, Queueing
<1>4. Before(A, ToSet(Append(out, m)))
  BY <1>1 DEF Before
<1> QED BY <1>1, <1>3, <1>4

\* Every step keeps the requests in order.
LEMMA OrderedStep ==
  ASSUME IInv, [Next]_vars
  PROVE  Ordered'
<1> USE NoneIsNothing DEF IInv
<1>0. Typed /\ Locking /\ Connection /\ Ordered /\ AnsweredOnce
  OBVIOUS
<1> DEFINE Old == asked \union Responding
<1>a. /\ Before(Old, OnTheWire) /\ Before(Old, Drained) /\ Before(Old, Queueing)
      /\ Before(Old, {next_id}) /\ Before(OnTheWire, {next_id}) /\ Before(Drained, {next_id})
      /\ Before(Queueing, {next_id}) /\ Before(OnTheWire, Drained) /\ Before(OnTheWire, Queueing)
      /\ Before(Drained, Queueing)
  BY DEF Ordered, Before
\* Enough for a step that only takes some of what moves away.
<1>b. ASSUME Old' \subseteq Old, OnTheWire' \subseteq OnTheWire, Drained' \subseteq Drained,
             Queueing' \subseteq Queueing, next_id' = next_id,
             Increasing(to_world'), Increasing(batch'), Increasing(out')
      PROVE  Ordered'
  <2> HIDE DEF Old
  <2> QED BY <1>a, <1>b DEF Ordered, Before, Old
\* Enough for a step that flushes a queue.
<1>c. ASSUME NEW queue \in Seq(Messages), NEW m \in Messages,
             \/ /\ Drained = {} /\ Drained' = ToSet(queue) /\ Queueing' = {}
                /\ batch' = queue /\ out' = <<>>
             \/ Drained' = Drained /\ Queueing' = ToSet(queue) /\ batch' = batch /\ out' = queue,
             \/ queue = out /\ next_id' = next_id
             \/ queue = Append(out, 0) /\ next_id' = next_id
             \/ queue = Append(out, next_id) /\ next_id' = next_id + 1 /\ m = next_id,
             to_world' = to_world, Old' \subseteq Old
      PROVE  Ordered'
  <2> HIDE DEF Old
  <2>1. 0 \in Messages
    BY DEF Messages
  <2>2. /\ Increasing(queue) /\ Before(Drained, ToSet(queue)) /\ Before(Old, ToSet(queue))
        /\ Before(OnTheWire, ToSet(queue)) /\ Before(ToSet(queue), {next_id'})
        /\ next_id' >= next_id
    <3>1. CASE queue = out /\ next_id' = next_id
      BY <1>a, <3>1 DEF Ordered, Queueing, Typed
    <3>2. CASE queue = Append(out, 0) /\ next_id' = next_id
      <4>1. Before(Queueing \union {0}, {next_id})
        BY <1>a DEF Before
      <4>2. Increasing(queue) /\ ToSet(queue) = Queueing \union {0}
        BY <1>a, <2>1, <3>2, QueuedInOrder
      <4> QED BY <1>a, <3>2, <4>1, <4>2 DEF Before, Typed
    <3>3. CASE queue = Append(out, next_id) /\ next_id' = next_id + 1 /\ m = next_id
      <4>1. Before(Queueing \union {next_id}, {next_id + 1})
        BY <1>a, MovingTyped DEF Before, Typed
      <4>2. Increasing(queue) /\ ToSet(queue) = Queueing \union {next_id}
        BY <1>a, <1>c, <3>3, QueuedInOrder
      <4> QED BY <1>a, <3>3, <4>1, <4>2 DEF Before, Typed
    <3> QED BY <1>c, <3>1, <3>2, <3>3
  <2>3. /\ Increasing(batch') /\ Increasing(out') /\ Before(Drained', Queueing')
        /\ Before(Old, Drained') /\ Before(Old, Queueing')
    BY <1>a, <1>c, <2>2, FlushedInOrder
  <2>4. Before(OnTheWire, Drained') /\ Before(OnTheWire, Queueing')
    BY <1>a, <1>c, <2>2, FlushedInOrder
  <2>5. OnTheWire' = OnTheWire
    BY <1>c DEF OnTheWire
  <2>6. \A x \in Old \union OnTheWire \union Drained \union Queueing : x \in Nat
    BY MovingTyped DEF Old
  <2>7. Before(Old \union OnTheWire \union Drained', {next_id'}) /\ Before(Queueing', {next_id'})
    BY <1>a, <1>c, <2>2, <2>6 DEF Before, Typed
  <2> QED BY <1>a, <1>c, <2>2, <2>3, <2>4, <2>5, <2>7 DEF Ordered, Before, Old
<1>1. CASE Send
  <2>1. /\ to_world' = Append(to_world, Head(batch)) /\ batch' = Tail(batch) /\ batch # <<>>
        /\ UNCHANGED <<out, next_id, asked, to_agent>>
    BY <1>1 DEF Send
  <2>2. /\ Head(batch) \in Messages /\ Drained = Drained' \union {Head(batch)}
        /\ Increasing(batch') /\ Before({Head(batch)}, Drained')
    BY <2>1, Taken, TakenInOrder DEF Typed, Drained, Ordered
  <2>3. OnTheWire' = OnTheWire \union {Head(batch)}
    BY <2>1, <2>2, Appended DEF Typed, OnTheWire
  <2>4. Increasing(to_world')
    <3>1. Before(ToSet(to_world), {Head(batch)})
      BY <1>a, <2>2 DEF OnTheWire, Before
    <3> QED BY <2>1, <2>2, <3>1, AppendedInOrder DEF Typed, Ordered
  <2>5. Old' = Old /\ Queueing' = Queueing
    BY <2>1 DEF Responding, Queueing
  <2> HIDE DEF Old
  <2> QED BY <1>a, <2>1, <2>2, <2>3, <2>4, <2>5 DEF Ordered, Before, Old
<1>2. CASE SendFails \/ (\E c \in Callers : Cancel(c)) \/ Drop
  <2>1. /\ out' = out /\ next_id' = next_id /\ (batch' = batch \/ batch' = <<>>)
        /\ (to_world' = to_world \/ to_world' = <<>>)
        /\ (asked' = asked \/ asked' = {}) /\ (to_agent' = to_agent \/ to_agent' = <<>>)
    BY <1>2 DEF SendFails, Cancel, Drop, Gone, net, conn
  <2>2. /\ Old' \subseteq Old /\ OnTheWire' \subseteq OnTheWire /\ Drained' \subseteq Drained
        /\ Queueing' \subseteq Queueing
    BY <2>1, Nothing, NoResponses DEF Responding, OnTheWire, Drained, Queueing
  <2> QED BY <1>b, <2>1, <2>2, Nothing DEF Ordered
<1>3. CASE Wake
  <2>1. UNCHANGED <<next_id, to_world, asked, to_agent>>
    BY <1>3 DEF Wake, net
  <2>2. Old' = Old
    BY <2>1 DEF Responding
  <2>3. CASE UNCHANGED <<batch, out>>
    <3>1. OnTheWire' = OnTheWire /\ Drained' = Drained /\ Queueing' = Queueing
      BY <2>1, <2>3 DEF OnTheWire, Drained, Queueing
    <3> QED BY <1>b, <2>1, <2>2, <2>3, <3>1 DEF Ordered
  <2>4. CASE Hold(Head(lockq), out)
    <3>1. lock = None /\ batch = <<>> /\ batch' = out /\ out' = <<>>
      BY <1>3, <2>4 DEF Wake, Hold, Drain, Locking
    <3>2. Drained = {} /\ Drained' = ToSet(out) /\ Queueing' = {}
      BY <3>1, Nothing DEF Drained, Queueing
    <3>3. 0 \in Messages /\ out \in Seq(Messages)
      BY DEF Messages, Typed
    <3> QED BY <1>c, <2>1, <2>2, <3>1, <3>2, <3>3
  <2> QED BY <1>3, <2>3, <2>4 DEF Wake
<1>4. ASSUME NEW task \in Tasks, NewRequest, Enter(task, Queued),
             UNCHANGED <<to_world, asked, to_agent>>
      PROVE  Ordered'
  <2>1. next_id \in Messages /\ Queued \in Seq(Messages) /\ Queued = Append(out, next_id)
    BY <1>4, RequestsTyped DEF Queued
  <2>2. Old' = Old /\ next_id' = next_id + 1
    BY <1>4 DEF Responding, NewRequest
  <2>3. \/ /\ Drained = {} /\ Drained' = ToSet(Queued) /\ Queueing' = {}
           /\ batch' = Queued /\ out' = <<>>
        \/ Drained' = Drained /\ Queueing' = ToSet(Queued) /\ batch' = batch /\ out' = Queued
    BY <1>4, <2>1, EnterMoves
  <2> QED BY <1>4, <1>c, <2>1, <2>2, <2>3
<1>5. CASE Beat
  BY <1>4, <1>5 DEF Beat, Tasks, net
<1>6. ASSUME NEW c \in Callers, Call(c) PROVE Ordered'
  <2>1. NewRequest /\ UNCHANGED <<to_world, asked, to_agent>> /\ c \in Tasks
    BY <1>6 DEF Call, net, Tasks
  <2>2. CASE out' = Queued /\ UNCHANGED <<locks, call>>
    <3>1. next_id \in Messages /\ Queued \in Seq(Messages) /\ Queued = Append(out, next_id)
      BY <2>1, RequestsTyped DEF Queued
    <3>2. Old' = Old /\ next_id' = next_id + 1
      BY <2>1 DEF Responding, NewRequest
    <3>3. Drained' = Drained /\ Queueing' = ToSet(Queued) /\ batch' = batch
      BY <2>2 DEF locks, Drained, Queueing
    <3> QED BY <1>c, <2>1, <2>2, <3>1, <3>2, <3>3
  <2>3. CASE Enter(c, Queued)
    BY <1>4, <2>1, <2>3
  <2> QED BY <1>6, <2>2, <2>3 DEF Call
<1>7. CASE ReadResponse
  <2>1. /\ to_agent # <<>> /\ to_agent' = Tail(to_agent) /\ UNCHANGED <<next_id, to_world, asked>>
        /\ Head(to_agent).kind = "response"
    BY <1>7 DEF ReadResponse, Reading
  <2>2. Old' \subseteq Old
    BY <2>1, Read DEF Typed, AnsweredOnce, Responding
  <2>3. PICK id : FlushThenDispatch(id, out)
    BY <1>7 DEF ReadResponse
  <2>4. 0 \in Messages /\ out \in Seq(Messages)
    BY DEF Messages, Typed
  <2>5. \/ /\ Drained = {} /\ Drained' = ToSet(out) /\ Queueing' = {}
           /\ batch' = out /\ out' = <<>>
        \/ Drained' = Drained /\ Queueing' = ToSet(out) /\ batch' = batch /\ out' = out
    BY <2>3, <2>4, FlushThenDispatchMoves
  <2> QED BY <1>c, <2>1, <2>2, <2>4, <2>5
<1>8. CASE ReadPing
  <2>1. /\ to_agent # <<>> /\ to_agent' = Tail(to_agent) /\ UNCHANGED <<next_id, to_world, asked>>
        /\ Head(to_agent).kind = "ping"
    BY <1>8 DEF ReadPing, Reading
  <2>2. Old' \subseteq Old
    BY <2>1, Read DEF Typed, AnsweredOnce, Responding
  <2>3. FlushThenDispatch(None, Append(out, 0))
    BY <1>8 DEF ReadPing
  <2>4. 0 \in Messages /\ Append(out, 0) \in Seq(Messages) /\ Append(out, 0) # <<>>
    <3>1. 0 \in Messages
      BY DEF Messages
    <3> QED BY <3>1, Appended DEF Typed
  <2>5. \/ /\ Drained = {} /\ Drained' = ToSet(Append(out, 0)) /\ Queueing' = {}
           /\ batch' = Append(out, 0) /\ out' = <<>>
        \/ /\ Drained' = Drained /\ Queueing' = ToSet(Append(out, 0))
           /\ batch' = batch /\ out' = Append(out, 0)
    BY <2>3, <2>4, FlushThenDispatchMoves
  <2> QED BY <1>c, <2>1, <2>2, <2>4, <2>5
<1>9. CASE LoseConnection \/ Watch
  <2>1. /\ UNCHANGED <<out, next_id, batch>> /\ to_world' = <<>> /\ asked' = {}
        /\ (to_agent' = to_agent \/ to_agent' = <<>>)
    BY <1>9 DEF LoseConnection, Watch, Gone, conn, locks
  <2>2. /\ Old' \subseteq Old /\ OnTheWire' \subseteq OnTheWire /\ Drained' \subseteq Drained
        /\ Queueing' \subseteq Queueing
    BY <2>1, Nothing, NoResponses DEF Responding, OnTheWire, Drained, Queueing
  <2> QED BY <1>b, <2>1, <2>2, Nothing DEF Ordered
<1>10. CASE TakeRequest
  <2>1. /\ to_world # <<>> /\ to_world' = Tail(to_world)
        /\ asked' = asked \union ({Head(to_world)} \ {0})
        /\ UNCHANGED <<out, next_id, batch, to_agent>>
    BY <1>10 DEF TakeRequest, conn, locks
  <2>2. /\ OnTheWire = OnTheWire' \union {Head(to_world)}
        /\ Increasing(to_world') /\ Before({Head(to_world)}, OnTheWire')
    BY <2>1, Taken, TakenInOrder DEF Typed, OnTheWire, Ordered
  <2>3. Drained' = Drained /\ Queueing' = Queueing /\ Responding' = Responding
    BY <2>1 DEF Drained, Queueing, Responding
  <2>4. Old' = Old \union ({Head(to_world)} \ {0})
    BY <2>1, <2>3
  <2> HIDE DEF Old
  <2> QED BY <1>a, <2>1, <2>2, <2>3, <2>4 DEF Ordered, Before, Old
<1>11. ASSUME NEW id \in Ids, Answer(id) PROVE Ordered'
  <2>1. /\ id \in asked /\ asked' = asked \ {id}
        /\ to_agent' = Append(to_agent, [kind |-> "response", id |-> id])
        /\ UNCHANGED <<out, next_id, batch, to_world>>
    BY <1>11 DEF Answer, conn, locks
  <2>2. Responding' = Responding \union {id}
    <3>1. [kind |-> "response", id |-> id] \in Arrivals
      BY DEF Arrivals
    <3> QED BY <2>1, <3>1, Arrived DEF Typed, Responding
  <2>3. Old' = Old
    BY <2>1, <2>2
  <2>4. Drained' = Drained /\ Queueing' = Queueing /\ OnTheWire' = OnTheWire
    BY <2>1 DEF Drained, Queueing, OnTheWire
  <2> QED BY <1>b, <2>1, <2>3, <2>4 DEF Ordered
<1>12. CASE WorldPings
  <2>1. /\ to_agent' = Append(to_agent, [kind |-> "ping"])
        /\ UNCHANGED <<out, next_id, batch, to_world, asked>>
    BY <1>12 DEF WorldPings, conn, locks
  <2>2. Responding' = Responding
    <3>1. [kind |-> "ping"] \in Arrivals
      BY DEF Arrivals
    <3> QED BY <2>1, <3>1, Arrived DEF Typed, Responding
  <2>3. Old' = Old
    BY <2>1, <2>2
  <2>4. Drained' = Drained /\ Queueing' = Queueing /\ OnTheWire' = OnTheWire
    BY <2>1 DEF Drained, Queueing, OnTheWire
  <2> QED BY <1>b, <2>1, <2>3, <2>4 DEF Ordered
<1>13. CASE UNCHANGED <<out, next_id, batch, to_world, asked, to_agent>>
  <2>1. Old' = Old /\ Drained' = Drained /\ Queueing' = Queueing /\ OnTheWire' = OnTheWire
    BY <1>13 DEF Drained, Queueing, OnTheWire, Responding
  <2> QED BY <1>b, <1>13, <2>1 DEF Ordered
<1>14. ReaderEnds \/ FinishDrop \/ Connect \/ (\E c \in Callers : Return(c) \/ Timeout(c))
          \/ UNCHANGED vars
         => UNCHANGED <<out, next_id, batch, to_world, asked, to_agent>>
  BY DEF ReaderEnds, FinishDrop, Connect, Return, Timeout, conn, locks, net, vars
<1> QED BY <1>1, <1>2, <1>3, <1>5, <1>6, <1>7, <1>8, <1>9, <1>10, <1>11, <1>12, <1>13, <1>14 DEF Next

-----------------------------------------------------------------------------
(* What a step does to what moves                                          *)

\* Sending, taking the lock and answering move requests on, and lose none.
LEMMA MovesOn ==
  ASSUME Typed, Locking, AnsweredOnce,
         \/ Send \/ Wake \/ ReadPing \/ ReaderEnds \/ FinishDrop \/ Connect \/ TakeRequest
         \/ (\E id \in Ids : Answer(id)) \/ WorldPings
         \/ (\E c \in Callers : Return(c) \/ Timeout(c)) \/ UNCHANGED vars
  PROVE  Moving' \ {0} = Moving \ {0}
<1> USE NoneIsNothing
<1>1. CASE Send
  <2>1. /\ to_world' = Append(to_world, Head(batch)) /\ batch' = Tail(batch) /\ batch # <<>>
        /\ UNCHANGED <<out, asked, to_agent>>
    BY <1>1 DEF Send
  <2>2. Head(batch) \in Messages /\ Drained = Drained' \union {Head(batch)}
    BY <2>1, Taken DEF Typed, Drained
  <2>3. OnTheWire' = OnTheWire \union {Head(batch)}
    BY <2>1, <2>2, Appended DEF Typed, OnTheWire
  <2> QED BY <2>1, <2>2, <2>3 DEF Moving, Queueing, Responding
<1>2. CASE Wake
  <2>1. UNCHANGED <<to_world, asked, to_agent>>
    BY <1>2 DEF Wake, net
  <2>2. CASE UNCHANGED <<batch, out>>
    BY <2>1, <2>2 DEF Moving, OnTheWire, Drained, Queueing, Responding
  <2>3. CASE Hold(Head(lockq), out)
    <3>1. lock = None /\ batch = <<>> /\ batch' = out /\ out' = <<>>
      BY <1>2, <2>3 DEF Wake, Hold, Drain, Locking
    <3>2. Drained = {} /\ Drained' = Queueing /\ Queueing' = {}
      BY <3>1, Nothing DEF Drained, Queueing
    <3> QED BY <2>1, <3>2 DEF Moving, OnTheWire, Responding
  <2> QED BY <1>2, <2>2, <2>3 DEF Wake
<1>3. CASE ReadPing
  <2>1. /\ to_agent # <<>> /\ to_agent' = Tail(to_agent) /\ UNCHANGED <<to_world, asked>>
        /\ Head(to_agent).kind = "ping"
    BY <1>3 DEF ReadPing, Reading
  <2>2. Responding' = Responding
    BY <2>1, Read DEF Typed, AnsweredOnce, Responding
  <2>3. FlushThenDispatch(None, Append(out, 0))
    BY <1>3 DEF ReadPing
  <2>4. 0 \in Messages
    BY DEF Messages
  <2>5. /\ Append(out, 0) \in Seq(Messages) /\ Append(out, 0) # <<>>
        /\ ToSet(Append(out, 0)) = Queueing \union {0}
    BY <2>4, Appended DEF Typed, Queueing
  <2>6. Drained' \union Queueing' = Drained \union Queueing \union {0}
    BY <2>3, <2>5, FlushThenDispatchMoves
  <2> QED BY <2>1, <2>2, <2>6 DEF Moving, OnTheWire
<1>4. CASE TakeRequest
  <2>1. /\ to_world # <<>> /\ to_world' = Tail(to_world)
        /\ asked' = asked \union ({Head(to_world)} \ {0})
        /\ UNCHANGED <<out, batch, to_agent>>
    BY <1>4 DEF TakeRequest, conn, locks
  <2>2. OnTheWire = OnTheWire' \union {Head(to_world)}
    BY <2>1, Taken DEF Typed, OnTheWire
  <2> QED BY <2>1, <2>2 DEF Moving, Drained, Queueing, Responding
<1>5. ASSUME NEW id \in Ids, Answer(id) PROVE Moving' \ {0} = Moving \ {0}
  <2>1. /\ id \in asked /\ asked' = asked \ {id}
        /\ to_agent' = Append(to_agent, [kind |-> "response", id |-> id])
        /\ UNCHANGED <<out, batch, to_world>>
    BY <1>5 DEF Answer, conn, locks
  <2>2. Responding' = Responding \union {id}
    <3>1. [kind |-> "response", id |-> id] \in Arrivals
      BY DEF Arrivals
    <3> QED BY <2>1, <3>1, Arrived DEF Typed, Responding
  <2> QED BY <2>1, <2>2 DEF Moving, Drained, Queueing, OnTheWire
<1>6. CASE WorldPings
  <2>1. to_agent' = Append(to_agent, [kind |-> "ping"]) /\ UNCHANGED <<out, batch, to_world, asked>>
    BY <1>6 DEF WorldPings, conn, locks
  <2>2. Responding' = Responding
    <3>1. [kind |-> "ping"] \in Arrivals
      BY DEF Arrivals
    <3> QED BY <2>1, <3>1, Arrived DEF Typed, Responding
  <2> QED BY <2>1, <2>2 DEF Moving, Drained, Queueing, OnTheWire
<1>7. CASE UNCHANGED <<out, batch, to_world, asked, to_agent>>
  BY <1>7 DEF Moving, Drained, Queueing, OnTheWire, Responding
<1>8. ReaderEnds \/ FinishDrop \/ Connect \/ (\E c \in Callers : Return(c) \/ Timeout(c))
          \/ UNCHANGED vars
        => UNCHANGED <<out, batch, to_world, asked, to_agent>>
  BY DEF ReaderEnds, FinishDrop, Connect, Return, Timeout, conn, locks, net, vars
<1> QED BY <1>1, <1>2, <1>3, <1>4, <1>5, <1>6, <1>7, <1>8

\* A new request moves.
LEMMA MovesMore ==
  ASSUME Typed, Locking, Beat \/ \E c \in Callers : Call(c)
  PROVE  Moving' = Moving \union {next_id} /\ NewRequest
<1>1. NewRequest /\ UNCHANGED <<to_world, asked, to_agent>>
  BY DEF Beat, Call, net
<1>2. /\ next_id \in Messages /\ Queued \in Seq(Messages)
      /\ ToSet(Queued) = Queueing \union {next_id}
  BY <1>1, RequestsTyped, Appended DEF Queued, Typed, Queueing
<1>3. CASE \E task : Enter(task, Queued)
  <2>1. Drained' \union Queueing' = Drained \union Queueing \union {next_id}
    BY <1>2, <1>3, EnterMoves
  <2> QED BY <1>1, <2>1 DEF Moving, OnTheWire, Responding
<1>4. CASE out' = Queued /\ UNCHANGED locks
  <2>1. Drained' = Drained /\ Queueing' = Queueing \union {next_id}
    BY <1>2, <1>4 DEF locks, Drained, Queueing
  <2> QED BY <1>1, <2>1 DEF Moving, OnTheWire, Responding
<1> QED BY <1>1, <1>3, <1>4 DEF Beat, Call

\* What is lost with a connection, or with the flush of a cancelled coroutine, moves no more.
LEMMA MovesLess ==
  ASSUME SendFails \/ (\E c \in Callers : Cancel(c)) \/ LoseConnection \/ Watch \/ Drop
  PROVE  Moving' \subseteq Moving
<1>1. /\ out' = out /\ (batch' = batch \/ batch' = <<>>)
      /\ (to_world' = to_world \/ to_world' = <<>>)
      /\ (asked' = asked \/ asked' = {}) /\ (to_agent' = to_agent \/ to_agent' = <<>>)
  BY DEF SendFails, Cancel, LoseConnection, Watch, Drop, Gone, net, conn, locks
<1>2. /\ Responding' \subseteq Responding /\ OnTheWire' \subseteq OnTheWire
      /\ Drained' \subseteq Drained /\ Queueing' = Queueing
  BY <1>1, Nothing, NoResponses DEF Responding, OnTheWire, Drained, Queueing
<1> QED BY <1>1, <1>2 DEF Moving

\* A response that is read was the only place of its request.
LEMMA MovesIn ==
  ASSUME IInv, ReadResponse
  PROVE  LET id == Head(to_agent).id
         IN  /\ id \in Ids /\ Moving = Moving' \union {id} /\ id \notin Moving'
             /\ id \in Responding
<1> DEFINE id == Head(to_agent).id
<1>0. Typed /\ Locking /\ Ordered /\ AnsweredOnce
  BY DEF IInv
<1>1. /\ to_agent # <<>> /\ to_agent' = Tail(to_agent) /\ UNCHANGED <<to_world, asked>>
      /\ Head(to_agent).kind = "response"
  BY DEF ReadResponse, Reading
<1>2. /\ id \in Ids /\ Responding = Responding' \union {id} /\ id \notin Responding'
  BY <1>0, <1>1, Read DEF Typed, AnsweredOnce, Responding
<1>3. PICK e : FlushThenDispatch(e, out)
  BY DEF ReadResponse
<1>4. Drained' \union Queueing' = Drained \union Queueing
  BY <1>0, <1>3, FlushThenDispatchMoves DEF Typed, Queueing
<1>5. OnTheWire' = OnTheWire
  BY <1>1 DEF OnTheWire
<1>6. id \notin asked
  BY <1>0, <1>2 DEF AnsweredOnce
<1>7. id \in Nat /\ id # 0
  BY <1>0, <1>2, MovingTyped
<1>8. id \notin OnTheWire \union Drained \union Queueing
  BY <1>0, <1>2, <1>7 DEF Ordered, Before
<1> QED BY <1>1, <1>2, <1>4, <1>5, <1>6, <1>8 DEF Moving

\* Every step keeps the responses apart.
LEMMA AnsweredOnceStep ==
  ASSUME IInv, [Next]_vars
  PROVE  AnsweredOnce'
<1> USE DEF IInv
<1>0. Typed /\ Ordered /\ AnsweredOnce
  OBVIOUS
<1>1. CASE ReadResponse \/ ReadPing
  <2>1. /\ to_agent # <<>> /\ to_agent' = Tail(to_agent) /\ asked' = asked
        /\ Head(to_agent).kind \in {"response", "ping"}
    BY <1>1 DEF ReadResponse, ReadPing, Reading
  <2>2. Responding' \subseteq Responding /\ OneEach(to_agent')
    BY <2>1, Read DEF Typed, AnsweredOnce, Responding
  <2> QED BY <2>1, <2>2 DEF AnsweredOnce
<1>2. CASE LoseConnection \/ Watch \/ Drop
  <2>1. asked' = {} /\ (to_agent' = to_agent \/ to_agent' = <<>>)
    BY <1>2 DEF LoseConnection, Watch, Drop, Gone
  <2> QED BY <2>1, NoResponses DEF AnsweredOnce
<1>3. CASE TakeRequest
  <2>1. /\ to_world # <<>> /\ asked' = asked \union ({Head(to_world)} \ {0})
        /\ to_agent' = to_agent
    BY <1>3 DEF TakeRequest
  <2>2. Head(to_world) \in OnTheWire
    BY <2>1, Taken DEF Typed, OnTheWire
  <2>3. Head(to_world) # 0 => Head(to_world) \notin Responding
    BY <2>2, MovingTyped DEF Ordered, Before
  <2>4. Responding' = Responding
    BY <2>1 DEF Responding
  <2> QED BY <2>1, <2>3, <2>4 DEF AnsweredOnce
<1>4. ASSUME NEW id \in Ids, Answer(id) PROVE AnsweredOnce'
  <2>1. /\ id \in asked /\ asked' = asked \ {id}
        /\ to_agent' = Append(to_agent, [kind |-> "response", id |-> id])
    BY <1>4 DEF Answer
  <2>2. [kind |-> "response", id |-> id] \in Arrivals
    BY DEF Arrivals
  <2>3. Responding' = Responding \union {id} /\ OneEach(to_agent')
    BY <2>1, <2>2, Arrived DEF Typed, AnsweredOnce, Responding
  <2> QED BY <2>1, <2>3 DEF AnsweredOnce
<1>5. CASE WorldPings
  <2>1. to_agent' = Append(to_agent, [kind |-> "ping"]) /\ asked' = asked
    BY <1>5 DEF WorldPings
  <2>2. [kind |-> "ping"] \in Arrivals
    BY DEF Arrivals
  <2>3. Responding' = Responding /\ OneEach(to_agent')
    BY <2>1, <2>2, Arrived DEF Typed, AnsweredOnce, Responding
  <2> QED BY <2>1, <2>3 DEF AnsweredOnce
<1>6. CASE UNCHANGED <<asked, to_agent>>
  BY <1>6 DEF AnsweredOnce, Responding
<1>7. Send \/ SendFails \/ Wake \/ Beat \/ ReaderEnds \/ FinishDrop \/ Connect
        \/ (\E c \in Callers : Call(c) \/ Return(c) \/ Timeout(c) \/ Cancel(c)) \/ UNCHANGED vars
        => UNCHANGED <<asked, to_agent>>
  BY DEF Send, SendFails, Wake, Beat, ReaderEnds, FinishDrop, Connect, Call, Return, Timeout, Cancel,
         net, vars
<1> QED BY <1>1, <1>2, <1>3, <1>4, <1>5, <1>6, <1>7 DEF Next

-----------------------------------------------------------------------------
(* Who is waited for                                                       *)

\* A task that raises forgets the pending requests only as the reader of a connection that
\* was lost, for the first time.
LEMMA RaiseForgets ==
  ASSUME Typed, Locking, Connection, ws # "open", NEW task \in Tasks, Within(task), Raise(task)
  PROVE  \/ /\ task = "reader" /\ ws = "lost" /\ ~closed /\ closed' = TRUE
            /\ pending' = {} /\ call' = Failed
         \/ /\ task # "reader" /\ UNCHANGED <<pending, closed, event>>
            /\ \A c \in Callers : call'[c] = call[c] \/ call'[c] = Idle
<1> USE NoneIsNothing
<1>1. CASE task = "reader" /\ OnClosed
  <2>1. ~closed /\ ws = "lost"
    BY <1>1 DEF Locking, Connection, Typed
  <2> QED BY <1>1, <2>1 DEF OnClosed, Forgotten
<1>2. CASE task # "reader" /\ UNCHANGED <<reader, event, call, closed, pending>>
  BY <1>2
<1>3. CASE /\ task \in Callers /\ call' = [call EXCEPT ![task] = Idle]
           /\ UNCHANGED <<reader, event, beating, closed, pending>>
  BY <1>3 DEF Typed
<1> QED BY <1>1, <1>2, <1>3 DEF Raise

\* A flush that is over forgets nothing.
LEMMA ContinueForgets ==
  ASSUME Typed, NEW task, Continue(task)
  PROVE  /\ UNCHANGED <<pending, closed>>
         /\ \/ /\ event' = event
               /\ \A c \in Callers :
                    call'[c] = call[c] \/ call'[c] = [call[c] EXCEPT !.at = "wait"]
            \/ task = "reader" /\ event' = None /\ call' = Dispatched(event)
BY DEF Continue, Typed

\* Every step keeps what moves pending: no response will be a surprise.
LEMMA ExpectedStep ==
  ASSUME IInv, [Next]_vars
  PROVE  Expected'
<1> USE NoneIsNothing DEF IInv
<1>0. Typed /\ Locking /\ Connection /\ AnsweredOnce /\ Expected
  OBVIOUS
<1>a. SUFFICES ASSUME "hasty" \notin happened'
               PROVE  ~accused' /\ ((closed' /\ ws' = "lost") \/ Moving' \ {0} \subseteq pending')
  BY DEF Expected
<1>b. "hasty" \notin happened
  BY <1>a DEF Next, Send, SendFails, Wake, Beat, Call, Return, Timeout, Cancel, ReadResponse, ReadPing,
             Reading, ReaderEnds, LoseConnection, Watch, Drop, FinishDrop, Connect, TakeRequest, Answer,
             WorldPings, counts, vars
<1>c. ~accused /\ ((closed /\ ws = "lost") \/ Moving \ {0} \subseteq pending)
  BY <1>b DEF Expected
<1>1. CASE Send
  <2>1. UNCHANGED <<accused, ws, pending, closed>>
    BY <1>1, ContinueForgets DEF Send
  <2> QED BY <1>1, <1>c, <2>1, MovesOn
<1>2. CASE SendFails
  <2>1. lock \in Tasks /\ Within(lock) /\ ws # "open" /\ Raise(lock) /\ UNCHANGED <<accused, ws>>
    BY <1>2 DEF SendFails, Locking, Typed, Within
  <2>2. (ws = "lost" /\ closed' = TRUE) \/ UNCHANGED <<pending, closed>>
    BY <2>1, RaiseForgets
  <2> QED BY <1>2, <1>c, <2>1, <2>2, MovesLess
<1>3. CASE Wake
  <2>1. Head(lockq) \in Tasks /\ Within(Head(lockq)) /\ UNCHANGED <<accused, ws>>
    BY <1>3, Taken DEF Wake, Typed, Within
  <2>2. CASE ws = None /\ Raise(Head(lockq))
    <3>1. UNCHANGED <<pending, closed>>
      BY <2>1, <2>2, RaiseForgets
    <3> QED BY <1>3, <1>c, <2>1, <3>1, MovesOn
  <2>3. CASE Continue(Head(lockq)) \/ UNCHANGED <<tasks, closed, pending>>
    <3>1. UNCHANGED <<pending, closed>>
      BY <2>3, ContinueForgets
    <3> QED BY <1>3, <1>c, <2>1, <3>1, MovesOn
  <2> QED BY <1>3, <2>2, <2>3 DEF Wake
<1>4. CASE Beat \/ \E c \in Callers : Call(c)
  <2>1. UNCHANGED <<accused, ws, closed>>
    BY <1>4 DEF Beat, Call
  <2>2. Moving' = Moving \union {next_id} /\ pending' = pending \union {next_id}
    BY <1>4, MovesMore DEF NewRequest
  <2> QED BY <1>c, <2>1, <2>2
<1>5. CASE ReadResponse
  <2> DEFINE id == Head(to_agent).id
  <2>1. id \in Ids /\ Moving = Moving' \union {id} /\ id \notin Moving' /\ id \in Responding
    BY <1>5, MovesIn
  <2>2. /\ pending' = pending \ {id} /\ accused' = (accused \/ id \notin pending)
        /\ closed' = closed /\ reader = "reading"
    BY <1>5 DEF ReadResponse, Reading
  <2>3. ~closed
    BY <2>2 DEF Connection
  <2>4. id \in pending
    BY <1>c, <2>1, <2>3 DEF Moving, Ids
  <2> HIDE DEF id
  <2> QED BY <1>c, <2>1, <2>2, <2>3, <2>4
<1>6. CASE ReaderEnds
  BY <1>6, <1>c DEF ReaderEnds, OnClosed
<1>7. CASE Drop
  <2>1. Free /\ out = <<>>
    BY <1>7, <1>a DEF Drop
  <2>2. /\ batch' = <<>> /\ out' = <<>> /\ to_world' = <<>> /\ asked' = {} /\ to_agent' = <<>>
        /\ accused' = accused
    BY <1>7, <2>1 DEF Drop, Gone, Free, Locking
  <2>3. Moving' = {}
    BY <2>2, Nothing, NoResponses DEF Moving, Responding, OnTheWire, Drained, Queueing
  <2> QED BY <1>c, <2>2, <2>3
<1>8. CASE LoseConnection \/ Watch
  <2>1. UNCHANGED <<accused, pending, closed>> /\ ~closed
    BY <1>8 DEF LoseConnection, Watch, conn, Connection
  <2> QED BY <1>8, <1>c, <2>1, MovesLess
<1>9. CASE \E c \in Callers : Cancel(c)
  <2>1. UNCHANGED <<accused, pending, closed, ws>>
    BY <1>9 DEF Cancel, conn
  <2> QED BY <1>9, <1>c, <2>1, MovesLess
<1>10. CASE FinishDrop \/ Connect
  <2>1. ws \in {None, "closing"} /\ UNCHANGED <<accused, pending>>
    BY <1>10 DEF FinishDrop, Connect, conn
  <2> QED BY <1>10, <1>c, <2>1, MovesOn
<1>11. CASE UNCHANGED <<accused, ws, pending, closed>> /\ Moving' \ {0} = Moving \ {0}
  BY <1>11, <1>c
<1>12. ReadPing \/ TakeRequest \/ (\E id \in Ids : Answer(id)) \/ WorldPings
          \/ (\E c \in Callers : Return(c) \/ Timeout(c)) \/ UNCHANGED vars
         => UNCHANGED <<accused, ws, pending, closed>> /\ Moving' \ {0} = Moving \ {0}
  BY MovesOn DEF ReadPing, Reading, TakeRequest, Answer, WorldPings, Return, Timeout, conn, vars
<1> QED BY <1>1, <1>2, <1>3, <1>4, <1>5, <1>6, <1>7, <1>8, <1>9, <1>10, <1>11, <1>12 DEF Next

\* Every step keeps what is pending on its way, as long as the connection is not lost.
LEMMA AnswerableStep ==
  ASSUME IInv, [Next]_vars
  PROVE  Answerable'
<1> USE NoneIsNothing DEF IInv
<1>0. Typed /\ Locking /\ Connection /\ AnsweredOnce /\ Answerable
  OBVIOUS
<1>a. happened \subseteq happened'
  BY DEF Next, Send, SendFails, Wake, Beat, Call, Return, Timeout, Cancel, ReadResponse, ReadPing,
         Reading, ReaderEnds, LoseConnection, Watch, Drop, FinishDrop, Connect, TakeRequest, Answer,
         WorldPings, counts, vars
<1>b. \A x \in pending : x # 0
  BY DEF Typed
\* Enough for a step that forgets nothing, on the connection there is.
<1>c. ASSUME UNCHANGED <<ws, pending, closed>>, Moving' \ {0} = Moving \ {0} PROVE Answerable'
  BY <1>a, <1>b, <1>c DEF Answerable
\* Enough for a step on a connection that is gone.
<1>d. ASSUME ws' # "open", pending' = {} \/ UNCHANGED <<pending, closed>> PROVE Answerable'
  BY <1>a, <1>d DEF Answerable
<1>1. CASE Send
  <2>1. UNCHANGED <<ws, pending, closed>>
    BY <1>1, ContinueForgets DEF Send
  <2> QED BY <1>1, <1>c, <2>1, MovesOn
<1>2. CASE SendFails
  <2>1. lock \in Tasks /\ Within(lock) /\ ws # "open" /\ Raise(lock) /\ UNCHANGED ws
    BY <1>2 DEF SendFails, Locking, Typed, Within
  <2> QED BY <1>d, <2>1, RaiseForgets
<1>3. CASE Wake
  <2>1. Head(lockq) \in Tasks /\ Within(Head(lockq)) /\ UNCHANGED ws
    BY <1>3, Taken DEF Wake, Typed, Within
  <2>2. CASE ws = None /\ Raise(Head(lockq))
    BY <1>d, <2>1, <2>2, RaiseForgets
  <2>3. CASE Continue(Head(lockq)) \/ UNCHANGED <<tasks, closed, pending>>
    BY <1>3, <1>c, <2>1, <2>3, ContinueForgets, MovesOn
  <2> QED BY <1>3, <2>2, <2>3 DEF Wake
<1>4. CASE Beat \/ \E c \in Callers : Call(c)
  <2>1. UNCHANGED <<ws, closed>> /\ (closed => "offline" \in happened')
    BY <1>4 DEF Beat, Call
  <2>2. Moving' = Moving \union {next_id} /\ pending' = pending \union {next_id}
    BY <1>4, MovesMore DEF NewRequest
  <2> QED BY <1>a, <2>1, <2>2 DEF Answerable
<1>5. CASE ReadResponse
  <2>1. Moving = Moving' \union {Head(to_agent).id}
    BY <1>5, MovesIn
  <2>2. pending' = pending \ {Head(to_agent).id} /\ closed' = closed /\ ws' = ws
    BY <1>5 DEF ReadResponse, Reading
  <2> QED BY <1>a, <2>1, <2>2 DEF Answerable
<1>6. CASE ReaderEnds
  <2>1. ws' # "open" /\ pending' = {}
    BY <1>6 DEF ReaderEnds, OnClosed, Forgotten, Connection
  <2> QED BY <1>d, <2>1
<1>7. CASE Drop
  <2>1. ws' # "open" /\ (pending' = {} \/ UNCHANGED <<pending, closed>>)
    BY <1>7 DEF Drop, Gone, OnClosed, Forgotten
  <2> QED BY <1>d, <2>1
<1>8. CASE LoseConnection \/ Watch
  <2>1. ws' # "open" /\ UNCHANGED <<pending, closed>>
    BY <1>8 DEF LoseConnection, Watch, Gone, conn
  <2> QED BY <1>d, <2>1
<1>9. CASE \E c \in Callers : Cancel(c)
  <2>1. UNCHANGED <<pending, closed>> /\ "cancel" \in happened'
    BY <1>9 DEF Cancel, conn
  <2> QED BY <1>a, <2>1 DEF Answerable
<1>10. CASE FinishDrop
  <2>1. ws' # "open" /\ UNCHANGED <<pending, closed>>
    BY <1>10 DEF FinishDrop, conn
  <2> QED BY <1>d, <2>1
<1>11. CASE Connect
  <2>1. closed /\ closed' = FALSE /\ pending' = pending /\ happened' = happened
    BY <1>11 DEF Connect, conn, Connection
  <2> QED BY <2>1 DEF Answerable
<1>12. ReadPing \/ TakeRequest \/ (\E id \in Ids : Answer(id)) \/ WorldPings
          \/ (\E c \in Callers : Return(c) \/ Timeout(c)) \/ UNCHANGED vars
         => UNCHANGED <<ws, pending, closed>> /\ Moving' \ {0} = Moving \ {0}
  BY MovesOn DEF ReadPing, Reading, TakeRequest, Answer, WorldPings, Return, Timeout, conn, vars
<1> QED BY <1>1, <1>2, <1>3, <1>4, <1>5, <1>6, <1>7, <1>8, <1>9, <1>10, <1>11, <1>12, <1>c DEF Next

\* The future of a call is pending after a step only if it was before: no event has its id.
LEMMA StillAwaited ==
  ASSUME Typed, NEW c \in Callers
  PROVE  /\ Failed[c].future # "pending" /\ Idle.future # "pending"
         /\ [call[c] EXCEPT !.at = "wait"].future = call[c].future
         /\ [call[c] EXCEPT !.at = "wait"].id = call[c].id
         /\ \A id : Dispatched(id)[c].future = "pending" =>
              Dispatched(id)[c] = call[c] /\ (id = None \/ call[c].id # id)
<1> USE NoneIsNothing
<1>1. call[c] \in Calls
  BY DEF Typed
<1>2. Failed[c].future # "pending"
  BY <1>1 DEF Failed, Calls
<1>3. Idle.future # "pending"
  BY DEF Idle
<1>4. /\ [call[c] EXCEPT !.at = "wait"].future = call[c].future
      /\ [call[c] EXCEPT !.at = "wait"].id = call[c].id
  BY <1>1 DEF Calls
<1>5. ASSUME NEW id, Dispatched(id)[c].future = "pending"
      PROVE  Dispatched(id)[c] = call[c] /\ (id = None \/ call[c].id # id)
  <2>1. CASE id # None /\ call[c].id = id /\ call[c].future = "pending"
    <3>1. Dispatched(id)[c].future = "result"
      BY <1>1, <2>1 DEF Dispatched, Calls
    <3> QED BY <3>1, <1>5
  <2>2. CASE ~(id # None /\ call[c].id = id /\ call[c].future = "pending")
    <3>1. Dispatched(id)[c] = call[c]
      BY <2>2 DEF Dispatched
    <3> QED BY <2>2, <3>1, <1>5
  <2> QED BY <2>1, <2>2
<1> QED BY <1>2, <1>3, <1>4, <1>5

\* Every step keeps what is awaited on its way: no caller waits for nothing.
LEMMA AwaitedStep ==
  ASSUME IInv, [Next]_vars
  PROVE  Awaited'
<1> USE NoneIsNothing DEF IInv
<1>0. Typed /\ Locking /\ Connection /\ AnsweredOnce /\ Awaited
  OBVIOUS
<1>a. happened \subseteq happened'
  BY DEF Next, Send, SendFails, Wake, Beat, Call, Return, Timeout, Cancel, ReadResponse, ReadPing,
         Reading, ReaderEnds, LoseConnection, Watch, Drop, FinishDrop, Connect, TakeRequest, Answer,
         WorldPings, counts, vars
<1>b. \A c \in Callers : call[c].id # None => call[c].id # 0
  BY DEF Typed, Calls, Ids
\* Enough for a step that forgets nothing and begins no call.
<1>c. ASSUME UNCHANGED <<pending, closed>>, ws' = "open" => ws = "open" \/ closed,
             "cancel" \in happened' \/ ws' # "open" \/ Moving' \ {0} = Moving \ {0},
             \A c \in Callers :
               call'[c].future = "pending" =>
                 /\ call[c].future = "pending" /\ call'[c].id = call[c].id
                 /\ event' = event \/ call[c].id # event
      PROVE  Awaited'
  BY <1>a, <1>b, <1>c DEF Awaited
\* Enough for a step that fails every call.
<1>d. ASSUME call' = Failed PROVE Awaited'
  BY <1>d, StillAwaited DEF Awaited
<1>e. ASSUME NEW task, Continue(task), UNCHANGED ws, Moving' \ {0} = Moving \ {0} PROVE Awaited'
  <2>1. UNCHANGED <<pending, closed>>
    BY <1>e, ContinueForgets
  <2>2. CASE /\ event' = event
             /\ \A c \in Callers : call'[c] = call[c] \/ call'[c] = [call[c] EXCEPT !.at = "wait"]
    BY <1>c, <1>e, <2>1, <2>2, StillAwaited
  <2>3. CASE event' = None /\ call' = Dispatched(event)
    <3>1. \A c \in Callers : call'[c].future = "pending" =>
             call'[c] = call[c] /\ (event = None \/ call[c].id # event)
      BY <2>3, StillAwaited
    <3> QED BY <1>c, <1>e, <2>1, <2>3, <3>1
  <2> QED BY <1>e, <2>2, <2>3, ContinueForgets
<1>f. ASSUME NEW task \in Tasks, Within(task), ws # "open", ws' = ws, Raise(task) PROVE Awaited'
  <2>1. CASE call' = Failed
    BY <2>1, <1>d
  <2>2. CASE UNCHANGED <<pending, closed, event>> /\ \A c \in Callers : call'[c] = call[c] \/ call'[c] = Idle
    BY <1>c, <1>f, <2>2, StillAwaited
  <2> QED BY <1>f, <2>1, <2>2, RaiseForgets
<1>1. CASE Send
  <2>1. ws' = ws /\ Moving' \ {0} = Moving \ {0}
    BY <1>1, MovesOn DEF Send
  <2>2. CASE Continue(lock)
    BY <1>e, <2>1, <2>2
  <2>3. CASE UNCHANGED <<lock, tasks, closed, pending>>
    BY <1>c, <2>1, <2>3 DEF tasks
  <2> QED BY <1>1, <2>2, <2>3 DEF Send
<1>2. CASE SendFails
  <2>1. lock \in Tasks /\ Within(lock) /\ ws # "open" /\ Raise(lock) /\ UNCHANGED ws
    BY <1>2 DEF SendFails, Locking, Typed, Within
  <2> QED BY <1>f, <2>1
<1>3. CASE Wake
  <2>1. Head(lockq) \in Tasks /\ Within(Head(lockq)) /\ UNCHANGED ws
    BY <1>3, Taken DEF Wake, Typed, Within
  <2>2. Moving' \ {0} = Moving \ {0}
    BY <1>3, MovesOn
  <2>3. CASE ws = None /\ Raise(Head(lockq))
    BY <1>f, <2>1, <2>3
  <2>4. CASE Continue(Head(lockq))
    BY <1>e, <2>1, <2>2, <2>4
  <2>5. CASE UNCHANGED <<tasks, closed, pending>>
    BY <1>c, <2>1, <2>2, <2>5 DEF tasks
  <2> QED BY <1>3, <2>3, <2>4, <2>5 DEF Wake
<1>4. CASE Beat
  <2>1. UNCHANGED <<ws, closed, call, event>>
    BY <1>4 DEF Beat, tasks
  <2>2. Moving' = Moving \union {next_id} /\ pending' = pending \union {next_id}
    BY <1>4, MovesMore DEF NewRequest
  <2> QED BY <1>a, <2>1, <2>2 DEF Awaited
<1>5. ASSUME NEW c \in Callers, Call(c) PROVE Awaited'
  <2>1. UNCHANGED <<ws, closed, event>>
    BY <1>5 DEF Call
  <2>2. Moving' = Moving \union {next_id} /\ pending' = pending \union {next_id} /\ next_id \in Ids
    BY <1>5, MovesMore, RequestsTyped DEF NewRequest
  <2>3. CASE call' = call
    BY <1>a, <2>1, <2>2, <2>3 DEF Awaited
  <2>4. CASE call' = [call EXCEPT ![c] = [at |-> "flush", id |-> next_id,
                                          future |-> IF closed THEN "error" ELSE "pending"]]
    <3>1. \A d \in Callers \ {c} : call'[d] = call[d]
      BY <2>4 DEF Typed
    <3>2. call'[c].id = next_id /\ (call'[c].future = "pending" => ~closed)
      BY <2>4 DEF Typed
    <3> QED BY <1>a, <2>1, <2>2, <3>1, <3>2 DEF Awaited
  <2> QED BY <1>5, <2>3, <2>4 DEF Call
<1>6. CASE \E c \in Callers : Return(c) \/ Timeout(c) \/ Cancel(c)
  <2>1. /\ UNCHANGED <<ws, pending, closed, event>>
        /\ \A c \in Callers : call'[c] = call[c] \/ call'[c] = Idle
    BY <1>6 DEF Return, Timeout, Cancel, conn, Typed
  <2>2. "cancel" \in happened' \/ Moving' \ {0} = Moving \ {0}
    BY <1>6, MovesOn DEF Cancel
  <2> QED BY <1>c, <2>1, <2>2, StillAwaited
<1>7. CASE ReadResponse
  <2> DEFINE id == Head(to_agent).id
  <2>1. id \in Ids /\ Moving = Moving' \union {id}
    BY <1>7, MovesIn
  <2>2. /\ pending' = pending \ {id} /\ UNCHANGED <<closed, ws>> /\ reader = "reading"
        /\ FlushThenDispatch(IF id \in pending THEN id ELSE None, out)
    BY <1>7 DEF ReadResponse, Reading
  <2>3. event = None
    BY <2>2 DEF Connection
  <2> HIDE DEF id
  <2>4. ASSUME NEW c \in Callers, call'[c].future = "pending"
        PROVE  call'[c] = call[c] /\ (call[c].id # id \/ event' = id)
    <3>1. CASE call' = Dispatched(IF id \in pending THEN id ELSE None)
      <4>1. call'[c] = call[c]
        BY <2>4, <3>1, StillAwaited
      <4>2. call[c].id \in pending /\ call[c].id # None
        BY <2>3, <2>4, <4>1 DEF Awaited
      <4>3. call[c].id # id
        BY <2>1, <2>4, <3>1, <4>2, StillAwaited
      <4> QED BY <4>1, <4>3
    <3>2. CASE event' = (IF id \in pending THEN id ELSE None) /\ UNCHANGED call
      <4>1. call[c].id \in pending
        BY <2>3, <2>4, <3>2 DEF Awaited
      <4> QED BY <3>2, <4>1
    <3> QED BY <2>2, <3>1, <3>2 DEF FlushThenDispatch
  <2> QED BY <1>a, <2>1, <2>2, <2>3, <2>4 DEF Awaited
<1>8. CASE ReadPing
  <2>1. /\ UNCHANGED <<pending, closed, ws>> /\ reader = "reading"
        /\ FlushThenDispatch(None, Append(out, 0))
    BY <1>8 DEF ReadPing, Reading
  <2>2. event = None
    BY <2>1 DEF Connection
  <2>3. event' = event /\ \A c \in Callers : call'[c].future = "pending" => call'[c] = call[c]
    BY <2>1, <2>2, StillAwaited DEF FlushThenDispatch
  <2> QED BY <1>8, <1>c, <2>1, <2>3, MovesOn
<1>9. CASE ReaderEnds \/ Drop
  <2>1. CASE call' = Failed
    BY <2>1, <1>d
  <2>2. CASE closed /\ UNCHANGED call
    BY <2>2 DEF Awaited
  <2> QED BY <1>9, <2>1, <2>2 DEF ReaderEnds, Drop, OnClosed
<1>10. CASE LoseConnection \/ Watch \/ FinishDrop
  <2>1. ws' # "open" /\ UNCHANGED <<pending, closed, call, event>>
    BY <1>10 DEF LoseConnection, Watch, FinishDrop, Gone, conn, tasks
  <2> QED BY <1>c, <2>1
<1>11. CASE Connect
  <2>1. closed /\ UNCHANGED call
    BY <1>11 DEF Connect, Connection
  <2> QED BY <2>1 DEF Awaited
<1>12. CASE UNCHANGED <<ws, pending, closed, call, event>> /\ Moving' \ {0} = Moving \ {0}
  BY <1>12, <1>c
<1>13. TakeRequest \/ (\E id \in Ids : Answer(id)) \/ WorldPings \/ UNCHANGED vars
         => UNCHANGED <<ws, pending, closed, call, event>> /\ Moving' \ {0} = Moving \ {0}
  BY MovesOn DEF TakeRequest, Answer, WorldPings, conn, tasks, vars
<1> QED BY <1>1, <1>2, <1>3, <1>4, <1>5, <1>6, <1>7, <1>8, <1>9, <1>10, <1>11, <1>12, <1>13 DEF Next

-----------------------------------------------------------------------------
(* The theorems                                                            *)

\* Connected for the first time, there is nothing to move.
LEMMA Initially == Init => IInv
<1> SUFFICES ASSUME Init PROVE IInv
  OBVIOUS
<1> USE NoneIsNothing
<1>1. /\ Queueing = {} /\ Drained = {} /\ OnTheWire = {} /\ Responding = {}
      /\ asked = {} /\ pending = {} /\ ToSet(lockq) = {}
  BY Nothing, NoResponses DEF Init, Queueing, Drained, OnTheWire, Responding
<1>2. Typed
  <2>1. Idle \in Calls
    BY DEF Idle, Calls
  <2>2. call \in [Callers -> Calls]
    BY <2>1 DEF Init
  <2>3. next_id \in 1..(MaxRequests + 1) /\ pending \subseteq 1..(next_id - 1)
    BY DEF Init
  <2>4. /\ lockq \in Seq(Tasks) /\ to_agent \in Seq(Arrivals)
        /\ out \in Seq(Messages) /\ batch \in Seq(Messages) /\ to_world \in Seq(Messages)
    BY Nothing DEF Init
  <2> QED BY <2>2, <2>3, <2>4 DEF Init, Typed
<1>3. \A c \in Callers : call[c] = Idle
  BY DEF Init
<1>4. Locking
  BY <1>1, <1>3, Nothing DEF Init, Locking, Within, Idle, Tasks
<1>5. Connection
  <2>1. Len(to_world) = 0 /\ 0 <= Capacity
    BY Nothing DEF Init
  <2> QED BY <2>1 DEF Init, Connection
<1>6. Ordered
  BY <1>1, Nothing DEF Init, Ordered, Before
<1>7. AnsweredOnce
  BY <1>1, NoResponses DEF Init, AnsweredOnce
<1>8. Moving = {}
  BY <1>1 DEF Moving
<1>9. Expected /\ Answerable
  BY <1>1, <1>8 DEF Init, Expected, Answerable
<1>10. Awaited
  BY <1>3 DEF Awaited, Idle
<1> QED BY <1>2, <1>4, <1>5, <1>6, <1>7, <1>9, <1>10 DEF IInv

\* The inductive invariant holds in every state.
THEOREM Inductive == Spec => []IInv
<1>1. IInv /\ [Next]_vars => IInv'
  BY TypedStep, LockingStep, ConnectionStep, OrderedStep, AnsweredOnceStep, ExpectedStep,
     AnswerableStep, AwaitedStep DEF IInv
<1> QED BY Initially, <1>1, PTL DEF Spec

\* Requests in order wherever they are leave in order.
LEMMA InOrder == IInv => SentInOrder
<1> SUFFICES ASSUME IInv PROVE SentInOrder
  OBVIOUS
<1>1. /\ to_world \in Seq(Messages) /\ batch \in Seq(Messages) /\ out \in Seq(Messages)
      /\ Increasing(to_world) /\ Increasing(batch) /\ Increasing(out)
      /\ Before(ToSet(to_world), ToSet(batch)) /\ Before(ToSet(to_world), ToSet(out))
      /\ Before(ToSet(batch), ToSet(out))
  BY DEF IInv, Typed, Ordered, OnTheWire, Drained, Queueing
<1>2. ASSUME NEW s \in Seq(Messages), NEW t \in Seq(Messages), Increasing(s), Increasing(t),
             Before(ToSet(s), ToSet(t))
      PROVE  /\ s \o t \in Seq(Messages) /\ Increasing(s \o t)
             /\ ToSet(s \o t) = ToSet(s) \union ToSet(t)
  <2> DEFINE r == s \o t
  <2>1. /\ r \in Seq(Messages) /\ Len(r) = Len(s) + Len(t)
        /\ \A i \in 1..Len(s) : r[i] = s[i]
        /\ \A i \in 1..Len(t) : r[Len(s) + i] = t[i]
    BY Joined
  <2>2. /\ Len(s) \in Nat /\ Len(t) \in Nat /\ DOMAIN s = 1..Len(s) /\ DOMAIN t = 1..Len(t)
    OBVIOUS
  <2> HIDE DEF r
  <2>3. DOMAIN r = 1..(Len(s) + Len(t))
    BY <2>1
  <2>4. \A i \in DOMAIN r : \/ i \in DOMAIN s /\ r[i] = s[i]
                            \/ i > Len(s) /\ i - Len(s) \in DOMAIN t /\ r[i] = t[i - Len(s)]
    <3>1. ASSUME NEW i \in DOMAIN r, i > Len(s) PROVE i - Len(s) \in DOMAIN t /\ r[i] = t[i - Len(s)]
      <4>1. i - Len(s) \in 1..Len(t) /\ Len(s) + (i - Len(s)) = i
        BY <2>2, <2>3, <3>1
      <4> QED BY <2>1, <2>2, <4>1
    <3> QED BY <2>1, <2>2, <2>3, <3>1
  <2>5. ToSet(r) \subseteq ToSet(s) \union ToSet(t)
    BY <2>4 DEF ToSet
  <2>6. ToSet(s) \subseteq ToSet(r)
    <3>1. \A i \in DOMAIN s : i \in DOMAIN r /\ r[i] = s[i]
      BY <2>1, <2>2, <2>3
    <3> QED BY <3>1 DEF ToSet
  <2>7. ToSet(t) \subseteq ToSet(r)
    <3>1. \A i \in DOMAIN t : Len(s) + i \in DOMAIN r /\ r[Len(s) + i] = t[i]
      BY <2>1, <2>2, <2>3
    <3> QED BY <3>1 DEF ToSet
  <2>8. ASSUME NEW i \in DOMAIN r, NEW j \in DOMAIN r, i < j, r[i] # 0, r[j] # 0 PROVE r[i] < r[j]
    <3>1. CASE i \in DOMAIN s /\ r[i] = s[i] /\ j \in DOMAIN s /\ r[j] = s[j]
      BY <1>2, <2>8, <3>1 DEF Increasing
    <3>2. CASE i \in DOMAIN s /\ r[i] = s[i] /\ j - Len(s) \in DOMAIN t /\ r[j] = t[j - Len(s)]
      BY <1>2, <2>8, <3>2 DEF Before, ToSet
    <3>3. CASE /\ i - Len(s) \in DOMAIN t /\ r[i] = t[i - Len(s)]
               /\ j - Len(s) \in DOMAIN t /\ r[j] = t[j - Len(s)]
      BY <1>2, <2>2, <2>3, <2>8, <3>3 DEF Increasing
    <3> QED BY <2>2, <2>3, <2>4, <2>8, <3>1, <3>2, <3>3
  <2>9. Increasing(r)
    BY <2>8 DEF Increasing
  <2> QED BY <2>1, <2>5, <2>6, <2>7, <2>9 DEF r
<1>3. /\ to_world \o batch \in Seq(Messages) /\ Increasing(to_world \o batch)
      /\ Before(ToSet(to_world \o batch), ToSet(out))
  <2>1. ToSet(to_world \o batch) = ToSet(to_world) \union ToSet(batch)
    BY <1>1, <1>2
  <2> QED BY <1>1, <1>2, <2>1 DEF Before
<1>4. Increasing((to_world \o batch) \o out)
  BY <1>1, <1>2, <1>3
<1> QED BY <1>4 DEF SentInOrder, Increasing

\* "Send everything the connection has queued, in order", and once: whatever tasks flush, are
\* cancelled or fail on whatever connections (aio.py:138-147).
THEOREM SentInOrderCorrect == Spec => []SentInOrder
BY Inductive, InOrder, PTL

\* The types of the queue and the lock, the lock held exactly while something is drained, and no
\* world that answers once accused of a response to an unknown request, unless a connection was
\* replaced under a task that was sending (client.py:594-598, aio.py:149-159).
THEOREM InvCorrect == Spec => []Inv
<1>1. IInv => Inv
  <2> SUFFICES ASSUME IInv PROVE Inv
    OBVIOUS
  <2> USE NoneIsNothing DEF IInv
  <2>1. \A t : Contains(lockq, t) <=> t \in ToSet(lockq)
    BY DEF Contains, ToSet, Typed
  <2>2. {lock} \union ToSet(lockq) \subseteq Tasks \union {None}
    BY DEF Typed, ToSet
  <2>3. \A c \in Callers : (call[c].at = "flush") = (lock = c \/ Contains(lockq, c))
    BY <2>1 DEF Locking, Within
  <2>4. (reader = "flushing") = (lock = "reader" \/ Contains(lockq, "reader"))
    BY <2>1 DEF Locking, Within
  <2>5. (lock = None) = (batch = <<>>)
    BY DEF Locking
  <2>6. TypeOK
    BY <2>2, <2>3, <2>4, <2>5 DEF TypeOK, Typed, Connection
  <2>7. NoFalseAccusation
    BY DEF NoFalseAccusation, Expected
  <2> QED BY <2>6, <2>7, InOrder DEF Inv
<1> QED BY <1>1, Inductive, PTL

\* What moves is what is held and what travels.
LEMMA MovingIs == Moving = Held \union Travelling
BY DEF Moving, Held, Travelling, Queueing, Drained, OnTheWire, Responding, ResponsesIn

\* On a live connection every pending request can still be answered, unless the application
\* cancelled a coroutine that was sending it or called without a connection (client.py:242-244).
THEOREM PendingCanBeAnsweredCorrect == Spec => []PendingCanBeAnswered
<1>1. IInv => PendingCanBeAnswered
  BY MovingIs DEF IInv, Answerable, PendingCanBeAnswered
<1> QED BY <1>1, Inductive, PTL

\* No caller waits for nothing: while its future is open the connection is not closed, and
\* its request, its response or the event of that is on the way (aio.py:205-212, 252-263).
THEOREM CallerNotForgottenCorrect == Spec => []CallerNotForgotten
<1>1. IInv => CallerNotForgotten
  BY MovingIs DEF IInv, Awaited, CallerNotForgotten
<1> QED BY <1>1, Inductive, PTL
=============================================================================
