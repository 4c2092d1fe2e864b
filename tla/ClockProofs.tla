----------------------------- MODULE ClockProofs -----------------------------
(***************************************************************************)
(* The error bounds of Clock hold for every window, delay and drift by one;    *)
(* and a client of ClockSession is a Clock, for any number of sessions, pings  *)
(* and losses, if the timer does not ping before a resumption is answered:     *)
(* every pong it samples was stamped on the clock of the session it holds.    *)
(***************************************************************************)
EXTENDS ClockSession, WellFoundedInduction, TLAPS

-----------------------------------------------------------------------------
(* The estimator                                                           *)

\* A sample is off by at most half its round trip, however asymmetric its delays
\* (clock.py:15-18).
LEMMA SampleError ==
  ASSUME NEW origin \in Int, NEW out \in Nat, NEW busy \in Nat, NEW back \in Nat,
         NEW o \in Int
  PROVE  LET s == Sample(origin, origin + out + o, origin + out + o + busy,
                         origin + out + busy + back)
         IN  /\ s \in ClockSample
             /\ 2 * (s.offset_ns - o) <= s.rtt_ns + 1
             /\ 2 * (o - s.offset_ns) <= s.rtt_ns + 1
<1> DEFINE sum == ((origin + out + o) - origin)
                    + ((origin + out + o + busy) - (origin + out + busy + back))
           half == sum \div 2
           rtt == ((origin + out + busy + back) - origin)
                    - ((origin + out + o + busy) - (origin + out + o))
<1>1. sum = 2 * o + out - back /\ rtt = out + back
  OBVIOUS
<1>2. half \in Int /\ 2 * half <= sum /\ sum <= 2 * half + 1
  <2> HIDE DEF sum
  <2>1. sum \in Int
    BY <1>1
  <2> QED BY <2>1
<1>3. Sample(origin, origin + out + o, origin + out + o + busy, origin + out + busy + back)
        = [offset_ns |-> half, rtt_ns |-> rtt]
  BY <1>1 DEF Sample
<1> HIDE DEF half, rtt, sum
<1> QED BY <1>1, <1>2, <1>3 DEF ClockSample

\* The bound, without Abs.
LEMMA WithinBounds ==
  ASSUME NEW s \in ClockSample, NEW d \in Int, offset \in Int
  PROVE  Within(s, d) <=> /\ 2 * (s.offset_ns - offset) <= s.rtt_ns + 1 + 2 * d
                          /\ 2 * (offset - s.offset_ns) <= s.rtt_ns + 1 + 2 * d
BY DEF Within, Abs, ClockSample

\* A drift by one costs what a bound older by one allows.
LEMMA DriftByOne ==
  ASSUME NEW a \in Int, NEW r \in Int, NEW o \in Int, NEW d \in Int,
         NEW p \in (o - 1)..(o + 1),
         2 * (a - o) <= r + 1 + 2 * d, 2 * (o - a) <= r + 1 + 2 * d
  PROVE  /\ 2 * (a - p) <= r + 1 + 2 * (d + 1)
         /\ 2 * (p - a) <= r + 1 + 2 * (d + 1)
OBVIOUS

\* A bound for an age holds for a greater one.
LEMMA OlderBound ==
  ASSUME NEW a \in Int, NEW r \in Int, NEW o \in Int, NEW d \in Int, NEW w \in Int,
         d <= w,
         2 * (a - o) <= r + 1 + 2 * d, 2 * (o - a) <= r + 1 + 2 * d
  PROVE  /\ 2 * (a - o) <= r + 1 + 2 * w
         /\ 2 * (o - a) <= r + 1 + 2 * w
OBVIOUS

-----------------------------------------------------------------------------
\* The inductive invariant: types, and the bound of each sample by its age.
IInv == TypeOK /\ SamplesWithin

\* A new estimator has no samples (clock.py:26-27).
LEMMA InitIInv == Init => IInv
BY ClockAssumption DEF Init, IInv, TypeOK, SamplesWithin

\* Adding a sample that is exact up to its round trip ages the others by one, and drops
\* the oldest once there are Window (clock.py:24-30).
LEMMA AddKeepsWithin ==
  ASSUME IInv, offset' \in (offset - 1)..(offset + 1),
         NEW s \in ClockSample, Add(s),
         2 * (s.offset_ns - offset') <= s.rtt_ns + 1,
         2 * (offset' - s.offset_ns) <= s.rtt_ns + 1
  PROVE  IInv'
<1> USE ClockAssumption
<1>1. offset' \in Int /\ samples' \in Seq(ClockSample)
  BY DEF IInv, TypeOK, Add
<1>2. Len(samples') <= Window /\ Len(samples') \in Nat
  BY DEF IInv, TypeOK, Add
<1>3. ASSUME NEW i \in 1..Len(samples')
      PROVE  \/ samples'[i] = s /\ i = Len(samples')
             \/ \E j \in 1..Len(samples) :
                  samples'[i] = samples[j] /\ Len(samples') - i = Len(samples) - j + 1
  <2>1. CASE Len(samples) < Window
    <3>1. samples' = Append(samples, s)
      BY <2>1 DEF Add
    <3>2. CASE i = Len(samples) + 1
      BY <3>1, <3>2 DEF IInv, TypeOK
    <3>3. CASE i # Len(samples) + 1
      <4>1. i \in 1..Len(samples) /\ samples'[i] = samples[i] /\ Len(samples') = Len(samples) + 1
        BY <3>1, <3>3 DEF IInv, TypeOK
      <4> QED BY <4>1
    <3> QED BY <3>2, <3>3
  <2>2. CASE ~(Len(samples) < Window)
    <3>1. samples' = Append(Tail(samples), s) /\ samples # <<>>
      BY <2>2 DEF Add, IInv, TypeOK
    <3>2. Len(samples') = Len(samples)
      BY <3>1 DEF IInv, TypeOK
    <3>3. CASE i = Len(samples)
      BY <3>1, <3>2, <3>3 DEF IInv, TypeOK
    <3>4. CASE i # Len(samples)
      <4>1. i \in 1..(Len(samples) - 1) /\ i + 1 \in 1..Len(samples)
        BY <3>2, <3>4 DEF IInv, TypeOK
      <4>2. Tail(samples) \in Seq(ClockSample) /\ Len(Tail(samples)) = Len(samples) - 1
        BY <3>1 DEF IInv, TypeOK
      <4>3. samples'[i] = Tail(samples)[i]
        BY <3>1, <4>1, <4>2
      <4>4. Tail(samples)[i] = samples[i + 1]
        BY <3>1, <4>1 DEF IInv, TypeOK
      <4> QED BY <4>1, <4>3, <4>4, <3>2, <1>2
    <3> QED BY <3>3, <3>4
  <2> QED BY <2>1, <2>2
<1>4. ASSUME NEW i \in 1..Len(samples')
      PROVE  2 * Abs(samples'[i].offset_ns - offset')
               <= samples'[i].rtt_ns + 1 + 2 * (Len(samples') - i)
  <2> DEFINE t == samples'[i]
             age == Len(samples') - i
  <2>1. t.offset_ns \in Int /\ t.rtt_ns \in Nat /\ age \in Int
    <3>1. t \in ClockSample
      BY <1>1
    <3>2. age \in Int
      BY <1>2
    <3> HIDE DEF t, age
    <3> QED BY <3>1, <3>2 DEF ClockSample
  <2>2. CASE t = s /\ i = Len(samples')
    <3>1. age = 0
      BY <2>2, <1>2
    <3> HIDE DEF t, age
    <3>2. /\ 2 * (t.offset_ns - offset') <= t.rtt_ns + 1 + 2 * age
          /\ 2 * (offset' - t.offset_ns) <= t.rtt_ns + 1 + 2 * age
      BY <2>1, <2>2, <3>1, <1>1
    <3>3. 2 * Abs(t.offset_ns - offset') <= t.rtt_ns + 1 + 2 * age
      BY <2>1, <3>2, <1>1 DEF Abs
    <3> QED BY <3>3 DEF t, age
  <2>3. ASSUME NEW j \in 1..Len(samples), t = samples[j], age = Len(samples) - j + 1
        PROVE  2 * Abs(t.offset_ns - offset') <= t.rtt_ns + 1 + 2 * age
    <3> DEFINE d == Len(samples) - j
    <3>1. samples[j] \in ClockSample /\ offset \in Int /\ d \in Int /\ age = d + 1
      BY <2>3 DEF IInv, TypeOK
    <3>2. Within(samples[j], d)
      BY DEF IInv, SamplesWithin
    <3> HIDE DEF t, age, d
    <3>3. /\ 2 * (t.offset_ns - offset) <= t.rtt_ns + 1 + 2 * d
          /\ 2 * (offset - t.offset_ns) <= t.rtt_ns + 1 + 2 * d
      BY <2>3, <3>1, <3>2, WithinBounds
    <3>4. /\ 2 * (t.offset_ns - offset') <= t.rtt_ns + 1 + 2 * age
          /\ 2 * (offset' - t.offset_ns) <= t.rtt_ns + 1 + 2 * age
      <4> DEFINE a == t.offset_ns
                 r == t.rtt_ns
      <4>1. a \in Int /\ r \in Int
        BY <2>1
      <4>2. 2 * (a - offset) <= r + 1 + 2 * d /\ 2 * (offset - a) <= r + 1 + 2 * d
        BY <3>3
      <4> HIDE DEF a, r
      <4>3. 2 * (a - offset') <= r + 1 + 2 * (d + 1) /\ 2 * (offset' - a) <= r + 1 + 2 * (d + 1)
        BY <3>1, <4>1, <4>2, DriftByOne
      <4> QED BY <3>1, <4>3 DEF a, r
    <3> QED BY SMTT(20), <2>1, <3>4, <1>1 DEF Abs
  <2> QED BY <1>3, <2>2, <2>3
<1>5. SamplesWithin'
  BY <1>4 DEF SamplesWithin, Within
<1> QED BY <1>1, <1>2, <1>5 DEF IInv, TypeOK

\* Every exchange and every new session preserves it.
LEMMA NextIInv == IInv /\ [Next]_vars => IInv'
<1> SUFFICES ASSUME IInv, [Next]_vars PROVE IInv'
  OBVIOUS
<1> USE ClockAssumption
<1>1. CASE Exchange
  <2>1. PICK origin \in Origins, out \in Delays, busy \in Delays, back \in Delays :
          Add(Sample(origin, origin + out + offset', origin + out + offset' + busy,
                     origin + out + busy + back))
    BY <1>1 DEF Exchange, Measure
  <2>2. offset' \in (offset - 1)..(offset + 1) /\ offset' \in Int
    BY <1>1 DEF Exchange
  <2> DEFINE s == Sample(origin, origin + out + offset', origin + out + offset' + busy,
                         origin + out + busy + back)
  <2>3. origin \in Int /\ out \in Nat /\ busy \in Nat /\ back \in Nat
    OBVIOUS
  <2>4. /\ s \in ClockSample
        /\ 2 * (s.offset_ns - offset') <= s.rtt_ns + 1
        /\ 2 * (offset' - s.offset_ns) <= s.rtt_ns + 1
    BY <2>2, <2>3, SampleError
  <2> HIDE DEF s
  <2> QED BY <2>1, <2>2, <2>4, AddKeepsWithin DEF s
<1>2. CASE NewSession
  BY <1>2 DEF NewSession, IInv, TypeOK, SamplesWithin
<1>3. CASE UNCHANGED vars
  BY <1>3 DEF vars, IInv, TypeOK, SamplesWithin, Within
<1> QED BY <1>1, <1>2, <1>3 DEF Next

\* The inductive invariant holds throughout.
THEOREM Invariant == Spec => []IInv
BY InitIInv, NextIInv, PTL DEF Spec

\* Every sample kept is as good as its round trip and its age allow.
THEOREM SamplesWithinCorrect == Spec => []SamplesWithin
<1>1. IInv => SamplesWithin
  BY DEF IInv
<1> QED BY <1>1, Invariant, PTL

-----------------------------------------------------------------------------
(* The sample the client uses                                              *)

\* A nonempty set of naturals has a least element.
LEMMA LeastNatural ==
  ASSUME NEW T \in SUBSET Nat, T # {}
  PROVE  \E x \in T : \A y \in T : x <= y
<1>1. PICK x \in T : \A y \in T : ~ (<<y, x>> \in OpToRel(<, Nat))
  BY NatLessThanWellFounded, WFMin
<1>2. \A y \in T : ~ (y < x)
  BY <1>1 DEF OpToRel
<1> QED BY <1>2

\* best is one of the samples, and none has a smaller round trip (clock.py:36-38).
LEMMA BestIsASample ==
  ASSUME TypeOK, samples # <<>>
  PROVE  \E i \in 1..Len(samples) :
           /\ Best = samples[i]
           /\ \A j \in 1..Len(samples) : samples[i].rtt_ns <= samples[j].rtt_ns
<1> DEFINE N == Len(samples)
           rtt(i) == samples[i].rtt_ns
           Least == {i \in 1..N : \A j \in 1..N : rtt(i) <= rtt(j)}
           P(i) == /\ \A j \in 1..N : rtt(i) <= rtt(j)
                   /\ \A j \in 1..(i - 1) : rtt(i) < rtt(j)
<1>1. N \in Nat /\ 1 \in 1..N /\ \A i \in 1..N : rtt(i) \in Nat
  <2>1. N \in Nat /\ 1 \in 1..N
    BY DEF TypeOK
  <2>2. ASSUME NEW i \in 1..N PROVE rtt(i) \in Nat
    <3>1. samples[i] \in ClockSample
      BY DEF TypeOK
    <3> QED BY <3>1 DEF ClockSample
  <2> QED BY <2>1, <2>2
<1> HIDE DEF N, rtt
<1>2. PICK r \in {rtt(i) : i \in 1..N} : \A s \in {rtt(i) : i \in 1..N} : r <= s
  <2>1. {rtt(i) : i \in 1..N} \in SUBSET Nat /\ {rtt(i) : i \in 1..N} # {}
    BY <1>1
  <2> QED BY <2>1, LeastNatural
<1>3. Least \in SUBSET Nat /\ Least # {}
  BY <1>1, <1>2
<1>4. PICK m \in Least : \A j \in Least : m <= j
  BY <1>3, LeastNatural
<1>5. m \in 1..N /\ P(m)
  <2>1. m \in 1..N /\ \A j \in 1..N : rtt(m) <= rtt(j)
    BY <1>4
  <2>2. ASSUME NEW j \in 1..(m - 1) PROVE rtt(m) < rtt(j)
    <3>1. j \in 1..N /\ j < m
      BY <1>1, <2>1
    <3>2. j \notin Least
      BY <1>1, <1>4, <3>1
    <3>3. PICK k \in 1..N : ~(rtt(j) <= rtt(k))
      BY <3>1, <3>2
    <3> QED BY <1>1, <2>1, <3>1, <3>3
  <2> QED BY <2>1, <2>2
<1> DEFINE b == CHOOSE i \in 1..N : P(i)
<1>6. b \in 1..N /\ P(b)
  BY <1>5
<1>7. Best = samples[b]
  BY DEF Best, N, rtt
<1> HIDE DEF b
<1> QED BY <1>6, <1>7 DEF N, rtt

\* The offset the client maps times through is off by at most half the reported round
\* trip, rounded up, and the drift over the window (clock.py:36-61).
THEOREM BestWithinCorrect == Spec => []BestWithin
<1>1. IInv => BestWithin
  <2> SUFFICES ASSUME IInv, samples # <<>> PROVE Within(Best, Window - 1)
    BY DEF BestWithin
  <2>1. PICK i \in 1..Len(samples) : Best = samples[i]
    BY BestIsASample DEF IInv
  <2> DEFINE s == samples[i]
             d == Len(samples) - i
  <2>2. s \in ClockSample /\ d \in Int /\ Window - 1 \in Int /\ offset \in Int /\ d <= Window - 1
    BY ClockAssumption DEF IInv, TypeOK
  <2>3. Within(s, d)
    BY DEF IInv, SamplesWithin
  <2> HIDE DEF s, d
  <2>4. s.offset_ns \in Int /\ s.rtt_ns \in Nat
    BY <2>2 DEF ClockSample
  <2> DEFINE w == Window - 1
             a == s.offset_ns
             r == s.rtt_ns
  <2>5. /\ 2 * (a - offset) <= r + 1 + 2 * d
        /\ 2 * (offset - a) <= r + 1 + 2 * d
    BY <2>2, <2>3, WithinBounds
  <2>6. w \in Int /\ d <= w /\ a \in Int /\ r \in Int
    BY <2>2, <2>4
  <2> HIDE DEF w, a, r
  <2>7. /\ 2 * (a - offset) <= r + 1 + 2 * w
        /\ 2 * (offset - a) <= r + 1 + 2 * w
    BY <2>2, <2>5, <2>6, OlderBound
  <2>8. Within(s, w)
    BY <2>2, <2>6, <2>7, WithinBounds DEF a, r
  <2> QED BY <2>1, <2>8 DEF s, w
<1> QED BY <1>1, Invariant, PTL

\* No sample kept has a smaller round trip than the one in use (clock.py:36-38).
THEOREM BestIsLeastCorrect == Spec => []BestIsLeast
<1>1. IInv => BestIsLeast
  <2> SUFFICES ASSUME IInv, NEW i \in 1..Len(samples)
               PROVE  Best.rtt_ns <= samples[i].rtt_ns
    BY DEF BestIsLeast
  <2>1. samples # <<>>
    BY DEF IInv, TypeOK
  <2> QED BY <2>1, BestIsASample DEF IInv
<1> QED BY <1>1, Invariant, PTL

-----------------------------------------------------------------------------
(* The client whose pings it gets                                          *)

\* The timer waits for the resumption's answer.
Patient == "hasty" \notin Faults

-----------------------------------------------------------------------------
(* The inductive invariant, in parts                                       *)

\* The client has opened or resumed its session on this connection.
Used == {"opened", "sampling", "using", "closing"}

Asks == {"session.open", "session.resume"}

Requests ==
  [method : {"ping", "session.close"} \union Asks, id : Nat, lockstep : {None} \union BOOLEAN]

Answers ==
  [method : {"ping", "session.close", "session.state"} \union Asks, id : Nat,
   lockstep : {None} \union BOOLEAN, clock : {None} \union Nat]

OnlyPings(messages) == \A i \in DOMAIN messages : messages[i].method = "ping"

Numbered(messages) ==
  \A i \in DOMAIN messages :
    IF messages[i].method = "ping" THEN messages[i].id \in 1..pings ELSE messages[i].id = 0

\* Types; only pings have an identifier.
Typed ==
  /\ ready \in {None} \union 1..MaxSessions /\ held \in {None} \union 1..MaxSessions
  /\ lockstep \in BOOLEAN /\ ticking \in BOOLEAN /\ bound \in BOOLEAN /\ up \in BOOLEAN
  /\ stage \in {"new", "asked"} \union Used
  /\ pings \in 0..MaxPings /\ sessions \in 0..MaxSessions /\ awaited \in 0..pings
  /\ clock_pings \subseteq 1..pings
  /\ requests \in Seq(Requests) /\ answers \in Seq(Answers)
  /\ Numbered(requests) /\ Numbered(answers)

\* A ping is marked until it is answered.
Pending ==
  \A id \in clock_pings :
    \/ \E i \in DOMAIN requests : requests[i].id = id
    \/ \E i \in DOMAIN answers : answers[i].id = id

\* It was sent in a streaming session, on the connection of that session.
Marking == clock_pings # {} /\ ready # None => ~lockstep /\ stage \in Used

\* open_session and reconnect wait for a pong that is a sample.
Awaiting == stage = "sampling" /\ Marked => awaited \in clock_pings

\* The session's end: the client learns of it as the answer is received.
Ends(a) == a.method # "ping" /\ a.clock = None

EndsBefore(i) == \E j \in 1..(i - 1) : Ends(answers[j])

\* A pong that is to be a sample was stamped on the clock the client will then have.
Stamped ==
  \A i \in DOMAIN answers :
    answers[i].id \in clock_pings =>
      answers[i].clock = IF ready = None \/ EndsBefore(i) THEN None ELSE ready

\* The world has no other session than the client's.
Holding == ready # None => held \in {ready, None} /\ (held = ready => ticking = lockstep)

\* Before a session is asked for, nothing but pings was sent.
Before == stage = "new" => OnlyPings(requests) /\ OnlyPings(answers) /\ ~bound

\* What is asked for is the last of the requests,
AskSent ==
  /\ OnlyPings(answers) /\ ~bound
  /\ requests # <<>>
  /\ LET n == Len(requests)
     IN  /\ \A i \in 1..(n - 1) : requests[i].method = "ping"
         /\ \/ /\ requests[n].method = "session.open" /\ requests[n].lockstep \in BOOLEAN
               /\ ready = None /\ sessions # 0
            \/ requests[n].method = "session.resume" /\ ready # None

\* or was answered, and at most the session's end after it.
AnswerAt(i) ==
  /\ \A j \in 1..(i - 1) : answers[j].method = "ping"
  /\ \/ /\ answers[i].method = "session.open" /\ answers[i].lockstep \in BOOLEAN
        /\ ready = None /\ answers[i].clock \in 1..MaxSessions
        /\ held # None => ticking = answers[i].lockstep
     \/ answers[i].method = "session.resume" /\ ready # None /\ answers[i].clock \in {ready, None}
  /\ \/ Len(answers) = i /\ held = answers[i].clock /\ (bound <=> held # None)
     \/ /\ Len(answers) = i + 1 /\ answers[i + 1].method = "session.state"
        /\ answers[i + 1].clock = None /\ answers[i].clock # None /\ held = None /\ ~bound

AskAnswered == requests = <<>> /\ \E i \in DOMAIN answers : AnswerAt(i)

Asking == stage = "asked" => AskSent \/ AskAnswered

\* The client's session is over, or will be when it has received what is under way.
Gone == ready = None \/ \E i \in DOMAIN answers : Ends(answers[i])

\* Then on, the world has the session on this connection, or tells its end once.
Using ==
  stage \in Used =>
    /\ IF Gone THEN held = None /\ ~bound ELSE held = ready /\ bound
    /\ \A i \in DOMAIN requests :
         requests[i].method # "ping" =>
           /\ requests[i].method = "session.close" /\ stage = "closing"
           /\ \A j \in DOMAIN requests : j # i => requests[j].method = "ping"
           /\ \A j \in DOMAIN answers : answers[j].method # "session.close"
    /\ \A i \in DOMAIN answers :
         answers[i].method # "ping" =>
           /\ answers[i].clock = None
           /\ \/ /\ answers[i].method = "session.close" /\ stage = "closing"
                 /\ OnlyPings(requests)
                 /\ \A j \in DOMAIN answers : j > i => answers[j].method = "ping"
              \/ /\ answers[i].method = "session.state" /\ ready # None
                 /\ \A j \in DOMAIN answers : j # i => answers[j].method # "session.state"

PInv ==
  /\ Typed /\ Pending /\ Marking /\ Awaiting /\ Stamped /\ Holding
  /\ Before /\ Asking /\ Using /\ SampledWhenUsed

-----------------------------------------------------------------------------
(* Sequences of messages                                                   *)

\* A message is sent behind those under way.
LEMMA Sent ==
  ASSUME NEW S, NEW s \in Seq(S), NEW m \in S
  PROVE  /\ Append(s, m) \in Seq(S)
         /\ \A i \in DOMAIN s : i \in DOMAIN Append(s, m) /\ Append(s, m)[i] = s[i]
         /\ Len(Append(s, m)) = Len(s) + 1 /\ Append(s, m)[Len(s) + 1] = m
         /\ DOMAIN Append(s, m) = 1..(Len(s) + 1) /\ DOMAIN s = 1..Len(s) /\ Len(s) \in Nat
         /\ \A i \in DOMAIN Append(s, m) : Append(s, m)[i] = m \/ i \in DOMAIN s
<1>1. Append(s, m)[Len(s) + 1] = m
  OBVIOUS
<1> QED BY <1>1

\* The first message is taken; the others remain.
LEMMA Taken ==
  ASSUME NEW S, NEW s \in Seq(S), s # <<>>
  PROVE  /\ Tail(s) \in Seq(S)
         /\ 1 \in DOMAIN s /\ Head(s) = s[1] /\ Head(s) \in S
         /\ \A i \in DOMAIN s : i = 1 \/ (i - 1 \in DOMAIN Tail(s) /\ Tail(s)[i - 1] = s[i])
         /\ \A i \in DOMAIN Tail(s) : i + 1 \in DOMAIN s /\ Tail(s)[i] = s[i + 1]
         /\ Len(Tail(s)) = Len(s) - 1 /\ DOMAIN s = 1..Len(s) /\ DOMAIN Tail(s) = 1..(Len(s) - 1)
         /\ Len(s) \in Nat
OBVIOUS

-----------------------------------------------------------------------------
(* Every step preserves the parts                                          *)

\* Nothing has been sent.
LEMMA InitPInv == SessionInit => PInv
<1> SUFFICES ASSUME SessionInit PROVE PInv
  OBVIOUS
<1> USE ClockSessionAssumption
<1>1. requests = <<>> /\ answers = <<>> /\ DOMAIN requests = {} /\ DOMAIN answers = {}
  BY DEF SessionInit
<1>2. Typed
  <2>1. lockstep \in BOOLEAN /\ ticking \in BOOLEAN /\ bound \in BOOLEAN /\ up \in BOOLEAN
    BY Zenon DEF SessionInit
  <2>2. 0 \in 0..MaxPings /\ 0 \in 0..MaxSessions
    OBVIOUS
  <2> QED BY <1>1, <2>1, <2>2 DEF SessionInit, Typed, Numbered
<1> QED BY <1>1, <1>2 DEF SessionInit, PInv, Pending, Marking, Awaiting, Marked, Stamped, Holding,
                          Before, Asking, Using, Used, OnlyPings, SampledWhenUsed

\* A ping of the timer, or of the application (aio.py:357-364).
LEMMA PingStep ==
  ASSUME PInv, Ping, stage \in Used \/ (stage = "new" /\ ready = None),
         UNCHANGED app \/ (stage = "opened" /\ stage' = "sampling" /\ awaited' = pings')
  PROVE  PInv'
<1> DEFINE r == [method |-> "ping", id |-> pings + 1, lockstep |-> None]
<1> USE ClockSessionAssumption DEF PInv
<1>1. /\ pings' = pings + 1 /\ pings \in Nat /\ pings < MaxPings /\ requests' = Append(requests, r)
      /\ clock_pings' = IF Marked THEN clock_pings \union {pings + 1} ELSE clock_pings
      /\ UNCHANGED <<ready, lockstep, samples, up, answers, held, ticking, bound, sessions>>
  BY DEF Ping, Request, Typed, world
<1>2. r \in Requests /\ r.method = "ping" /\ r.id = pings + 1
  BY <1>1 DEF Requests
<1> HIDE DEF r
<1>3. /\ requests' \in Seq(Requests)
      /\ \A i \in DOMAIN requests : i \in DOMAIN requests' /\ requests'[i] = requests[i]
      /\ Len(requests) + 1 \in DOMAIN requests' /\ requests'[Len(requests) + 1] = r
      /\ \A i \in DOMAIN requests' : requests'[i] = r \/ i \in DOMAIN requests
  BY <1>1, <1>2, Sent DEF Typed
<1>4. /\ stage' \in Used \/ (stage' = "new" /\ stage = "new" /\ ready = None)
      /\ stage \in Used <=> stage' \in Used
      /\ stage' # "asked" /\ (stage' = "using" <=> stage = "using") /\ (stage' = "closing" <=> stage = "closing")
  BY DEF app, Used
<1>5. Typed'
  <2>1. awaited' \in 0..pings' /\ stage' \in {"new", "asked"} \union Used /\ clock_pings' \subseteq 1..pings'
    BY <1>1, <1>4 DEF Typed, app
  <2>2. Numbered(requests)' /\ Numbered(answers)'
    BY SMTT(20), <1>1, <1>2, <1>3 DEF Typed, Numbered
  <2> QED BY <1>1, <1>3, <2>1, <2>2 DEF Typed
<1>6. Pending'
  BY SMTT(20), <1>1, <1>2, <1>3 DEF Pending
<1>7. Marking'
  BY <1>1, <1>4 DEF Marking, Marked
<1>8. Awaiting'
  BY <1>1 DEF Awaiting, Marked, app
<1>9. Stamped'
  <2>1. \A i \in DOMAIN answers : answers[i].id \in clock_pings' => answers[i].id \in clock_pings
    BY <1>1 DEF Typed, Numbered
  <2> QED BY <1>1, <2>1 DEF Stamped, EndsBefore, Ends
<1>10. Holding' /\ SampledWhenUsed' /\ Asking'
  BY <1>1, <1>4 DEF Holding, SampledWhenUsed, Asking
<1>11. Before'
  BY <1>1, <1>2, <1>3, <1>4 DEF Before, OnlyPings, Used
<1>12. Using'
  <2> SUFFICES ASSUME stage' \in Used PROVE Using'
    BY DEF Using
  <2>1. (Gone' <=> Gone) /\ stage \in Used
    BY <1>1, <1>4 DEF Gone, Ends
  <2>2. OnlyPings(requests) => OnlyPings(requests')
    BY <1>2, <1>3 DEF OnlyPings
  <2>3. \A i \in DOMAIN requests' : requests'[i].method # "ping" => i \in DOMAIN requests
    BY <1>2, <1>3
  <2> QED BY <1>1, <1>2, <1>3, <1>4, <2>1, <2>2, <2>3 DEF Using, OnlyPings
<1> QED BY <1>5, <1>6, <1>7, <1>8, <1>9, <1>10, <1>11, <1>12

\* open_session, reconnect or close_session asks the world.
LEMMA AskStep ==
  ASSUME PInv, OpenSession \/ Resume \/ Close
  PROVE  PInv'
<1> USE ClockSessionAssumption DEF PInv
<1>1. PICK method \in {"session.open", "session.resume", "session.close"}, mode \in {None} \union BOOLEAN :
        /\ requests' = Append(requests, [method |-> method, id |-> 0, lockstep |-> mode])
        /\ \/ method = "session.open" /\ mode \in BOOLEAN /\ stage \in {"new", "using"} /\ stage' = "asked"
              /\ ready = None /\ sessions < MaxSessions /\ sessions' = sessions + 1
           \/ method = "session.resume" /\ stage = "new" /\ stage' = "asked" /\ ready # None /\ sessions' = sessions
           \/ method = "session.close" /\ stage = "using" /\ stage' = "closing" /\ ready # None /\ sessions' = sessions
  <2>1. CASE OpenSession
    <3>1. PICK mode \in BOOLEAN : Ask({"new", "using"}, "session.open", mode, "asked")
      BY <2>1 DEF OpenSession
    <3> QED BY <2>1, <3>1 DEF OpenSession, Ask, Request
  <2>2. CASE Resume
    BY <2>2 DEF Resume, Ask, Request
  <2>3. CASE Close
    BY <2>3 DEF Close, Ask, Request
  <2> QED BY <2>1, <2>2, <2>3
<1>2. UNCHANGED <<ready, lockstep, samples, clock_pings, awaited, up, answers, held, ticking, bound, pings>>
  BY DEF OpenSession, Resume, Close, Ask, client, world
<1> DEFINE r == [method |-> method, id |-> 0, lockstep |-> mode]
<1>3. r \in Requests /\ r.method = method /\ r.id = 0 /\ r.lockstep = mode /\ requests' = Append(requests, r)
  BY <1>1 DEF Requests, Asks
<1> HIDE DEF r
<1>4. /\ requests' \in Seq(Requests)
      /\ \A i \in DOMAIN requests : i \in DOMAIN requests' /\ requests'[i] = requests[i]
      /\ Len(requests') = Len(requests) + 1 /\ requests'[Len(requests')] = r
      /\ DOMAIN requests' = 1..Len(requests') /\ DOMAIN requests = 1..Len(requests) /\ Len(requests) \in Nat
      /\ \A i \in DOMAIN requests' : i = Len(requests') \/ i \in DOMAIN requests
  <2>1. Len(requests') = Len(requests) + 1 /\ requests'[Len(requests) + 1] = r
    BY <1>3, Sent DEF Typed
  <2> QED BY <1>3, <2>1, Sent DEF Typed
<1>5. Typed'
  <2>1. sessions' \in 0..MaxSessions /\ stage' \in {"new", "asked"} \union Used
    BY <1>1 DEF Typed, Used
  <2>2. Numbered(requests)' /\ Numbered(answers)'
    BY <1>1, <1>2, <1>3, <1>4 DEF Typed, Numbered
  <2> QED BY <1>2, <1>4, <2>1, <2>2 DEF Typed
<1>6. Pending'
  BY <1>2, <1>4 DEF Pending
<1>7. Marking' /\ Awaiting' /\ Holding' /\ SampledWhenUsed' /\ Before'
  BY <1>1, <1>2 DEF Marking, Awaiting, Marked, Holding, SampledWhenUsed, Before, Used
<1>8. Stamped'
  BY <1>2 DEF Stamped, EndsBefore, Ends
<1>9. Asking'
  <2> SUFFICES ASSUME stage' = "asked" PROVE AskSent'
    BY DEF Asking
  <2>1. OnlyPings(requests) /\ OnlyPings(answers) /\ ~bound
    BY <1>1 DEF Before, Using, Used, Gone, OnlyPings
  <2>2. requests' # <<>>
    BY <1>4
  <2>3. \A i \in 1..(Len(requests') - 1) : requests'[i].method = "ping"
    BY <1>4, <2>1 DEF OnlyPings
  <2>4. sessions \in Nat
    BY DEF Typed
  <2> QED BY <1>1, <1>2, <1>3, <1>4, <2>1, <2>2, <2>3, <2>4 DEF AskSent, OnlyPings
<1>10. Using'
  <2> SUFFICES ASSUME stage' \in Used PROVE Using'
    BY DEF Using
  <2>1. method = "session.close" /\ stage = "using" /\ stage' = "closing"
    BY <1>1 DEF Used
  <2>2. Gone' <=> Gone
    BY <1>2 DEF Gone, Ends
  <2>3. OnlyPings(requests) /\ \A i \in DOMAIN answers : answers[i].method # "session.close"
    BY <2>1 DEF Using, Used, OnlyPings
  <2> QED BY <1>2, <1>3, <1>4, <2>1, <2>2, <2>3 DEF Using, Used, OnlyPings
<1> QED BY <1>5, <1>6, <1>7, <1>8, <1>9, <1>10

\* The connection is lost, with what was under way, and another is made.
LEMMA ReconnectStep ==
  ASSUME PInv, Reconnect
  PROVE  PInv'
<1> USE ClockSessionAssumption DEF PInv
<1>1. requests' = <<>> /\ answers' = <<>> /\ DOMAIN requests' = {} /\ DOMAIN answers' = {}
  BY DEF Reconnect
<1>2. Typed'
  <2>1. Numbered(requests)' /\ Numbered(answers)' /\ bound' \in BOOLEAN /\ up' \in BOOLEAN
    BY <1>1, Zenon DEF Reconnect, Numbered
  <2> QED BY <1>1, <2>1 DEF Reconnect, Typed, Unmarked
<1>3. Pending' /\ Marking' /\ Awaiting' /\ SampledWhenUsed'
  BY DEF Reconnect, Pending, Marking, Awaiting, SampledWhenUsed, Unmarked
<1>4. Stamped' /\ Before' /\ Asking' /\ Using'
  BY <1>1 DEF Reconnect, Stamped, Before, OnlyPings, Asking, Using, Used
<1>5. Holding'
  BY DEF Reconnect, Holding
<1> QED BY <1>2, <1>3, <1>4, <1>5

\* The world's session is over: it tells the connection of the session.
LEMMA ForgetStep ==
  ASSUME PInv, Forget
  PROVE  PInv'
<1> USE ClockSessionAssumption DEF PInv
<1>1. /\ held # None /\ held' = None /\ bound' = FALSE
      /\ UNCHANGED <<ready, lockstep, samples, clock_pings, stage, awaited, up, requests, ticking, sessions, pings>>
  BY DEF Forget, client, app
<1> DEFINE m == [method |-> "session.state", id |-> 0, lockstep |-> None, clock |-> None]
<1>2. CASE ~bound
  <2>1. UNCHANGED answers
    BY <1>2 DEF Forget
  <2>2. Typed' /\ Pending'
    BY <1>1, <2>1 DEF Typed, Numbered, Pending
  <2>3. Marking' /\ Awaiting' /\ SampledWhenUsed' /\ Before' /\ Holding'
    BY <1>1, <2>1 DEF Marking, Awaiting, Marked, SampledWhenUsed, Before, Holding, OnlyPings
  <2>4. Stamped'
    BY <1>1, <2>1 DEF Stamped, EndsBefore, Ends
  <2>5. Asking'
    <3>1. AskAnswered => AskAnswered'
      BY <1>1, <1>2, <2>1 DEF AskAnswered, AnswerAt
    <3>2. AskSent => AskSent'
      BY <1>1, <2>1 DEF AskSent, OnlyPings
    <3> QED BY <1>1, <3>1, <3>2 DEF Asking
  <2>6. Using'
    <3>1. Gone' <=> Gone
      BY <1>1, <2>1 DEF Gone, Ends
    <3>2. stage \in Used => Gone
      BY <1>2 DEF Using
    <3> QED BY <1>1, <1>2, <2>1, <3>1, <3>2 DEF Using, OnlyPings
  <2> QED BY <2>2, <2>3, <2>4, <2>5, <2>6
<1>3. CASE bound
  <2>1. answers' = Append(answers, m)
    BY <1>3 DEF Forget
  <2>2. m \in Answers /\ m.method = "session.state" /\ m.id = 0 /\ m.clock = None
    BY DEF Answers
  <2> HIDE DEF m
  <2>3. /\ answers' \in Seq(Answers)
        /\ \A i \in DOMAIN answers : i \in DOMAIN answers' /\ answers'[i] = answers[i]
        /\ Len(answers') = Len(answers) + 1 /\ answers'[Len(answers) + 1] = m
        /\ DOMAIN answers' = 1..(Len(answers) + 1) /\ DOMAIN answers = 1..Len(answers) /\ Len(answers) \in Nat
        /\ \A i \in DOMAIN answers' : i = Len(answers) + 1 \/ i \in DOMAIN answers
    BY <2>1, <2>2, Sent DEF Typed
  <2>4. Typed' /\ Pending'
    <3>1. Numbered(answers)'
      BY <1>1, <2>2, <2>3 DEF Typed, Numbered
    <3>2. Numbered(requests)'
      BY <1>1 DEF Typed, Numbered
    <3>3. Typed'
      BY <1>1, <2>3, <3>1, <3>2 DEF Typed
    <3>4. Pending'
      BY <1>1, <2>3 DEF Pending
    <3> QED BY <3>3, <3>4
  <2>5. Marking' /\ Awaiting' /\ SampledWhenUsed' /\ Before' /\ Holding'
    BY <1>1, <1>3 DEF Marking, Awaiting, Marked, SampledWhenUsed, Before, Holding, OnlyPings
  <2>6. Stamped'
    <3> SUFFICES ASSUME NEW i \in DOMAIN answers', answers'[i].id \in clock_pings
                 PROVE  answers'[i].clock = IF ready = None \/ EndsBefore(i)' THEN None ELSE ready
      BY <1>1 DEF Stamped
    <3>1. i \in DOMAIN answers /\ answers'[i] = answers[i]
      BY <2>2, <2>3 DEF Typed
    <3>2. EndsBefore(i)' <=> EndsBefore(i)
      BY SMTT(20), <2>3, <3>1 DEF EndsBefore, Ends
    <3> QED BY <3>1, <3>2 DEF Stamped
  <2>7. Asking'
    <3> SUFFICES ASSUME stage = "asked" PROVE AskAnswered'
      BY <1>1 DEF Asking
    <3>1. AskAnswered
      BY <1>3 DEF Asking, AskSent
    <3>2. PICK i \in DOMAIN answers : AnswerAt(i)
      BY <3>1 DEF AskAnswered
    <3>3. Len(answers) = i /\ held = answers[i].clock
      BY <1>3, <3>2 DEF AnswerAt
    <3>4. i \in DOMAIN answers' /\ i \in Nat /\ Len(answers') = i + 1 /\ answers'[i + 1] = m
      BY <2>3, <3>3
    <3>5. answers'[i] = answers[i] /\ \A j \in 1..(i - 1) : answers'[j] = answers[j]
      BY <2>3, <3>4
    <3>6. requests' = <<>>
      BY <1>1, <3>1 DEF AskAnswered
    <3>7. AnswerAt(i)'
      BY <1>1, <2>2, <3>2, <3>3, <3>4, <3>5 DEF AnswerAt
    <3> QED BY <3>4, <3>6, <3>7 DEF AskAnswered
  <2>8. Using'
    <3> SUFFICES ASSUME stage \in Used PROVE Using'
      BY <1>1 DEF Using
    <3>1. ~Gone
      BY <1>3 DEF Using
    <3>2. Gone'
      BY <2>2, <2>3 DEF Gone, Ends
    <3>3. ready # None /\ OnlyPings(answers)
      BY <3>1 DEF Gone, Using, Ends, OnlyPings
    <3> QED BY <1>1, <2>2, <2>3, <3>2, <3>3 DEF Using, OnlyPings
  <2> QED BY <2>4, <2>5, <2>6, <2>7, <2>8
<1> QED BY <1>2, <1>3 DEF Typed

\* No ping is behind what is asked for.
LEMMA AskedIsLast ==
  ASSUME Typed, AskSent, requests[1].method # "ping"
  PROVE  Len(requests) = 1
<1> DEFINE n == Len(requests)
<1>1. n \in Nat /\ n # 0 /\ \A i \in 1..(n - 1) : requests[i].method = "ping"
  BY DEF Typed, AskSent
<1> HIDE DEF n
<1>2. n = 1
  BY <1>1
<1> QED BY <1>2 DEF n

\* The world answers the first of the requests.
LEMMA HandleStep ==
  ASSUME PInv, Handle
  PROVE  PInv'
<1> USE ClockSessionAssumption DEF PInv
<1> DEFINE r == Head(requests)
           M(c) == [method |-> r.method, id |-> r.id, lockstep |-> r.lockstep, clock |-> c]
<1>1. /\ requests # <<>> /\ requests' = Tail(requests)
      /\ UNCHANGED <<ready, lockstep, samples, clock_pings, stage, awaited, up, sessions, pings>>
  BY DEF Handle, client, app
<1>2. PICK c \in {None} \union Nat :
        /\ answers' = Append(answers, M(c))
        /\ held' \in {None} \union 1..MaxSessions /\ ticking' \in BOOLEAN /\ bound' \in BOOLEAN
        /\ \/ r.method = "ping" /\ c = Stamp /\ UNCHANGED <<held, ticking, bound>>
           \/ r.method = "session.open" /\ c = sessions /\ held' = sessions /\ ticking' = r.lockstep /\ bound'
           \/ r.method = "session.resume" /\ c = held /\ (bound' <=> held # None) /\ UNCHANGED <<held, ticking>>
           \/ r.method = "session.close" /\ c = None /\ held' = None /\ ~bound' /\ UNCHANGED ticking
  <2>1. held \in {None} \union 1..MaxSessions /\ ticking \in BOOLEAN /\ bound \in BOOLEAN /\ sessions \in Nat
    BY DEF Typed
  <2>2. CASE r.method = "ping" /\ Answer(r, Stamp) /\ UNCHANGED world
    <3>1. Stamp \in {None} \union Nat
      BY <2>1 DEF Stamp, Tick
    <3> QED BY <2>1, <2>2, <3>1 DEF Answer, world
  <2>3. CASE r.method = "session.open" /\ held' = sessions /\ ticking' = r.lockstep /\ bound' = TRUE /\ Answer(r, held')
    <3>1. stage = "asked"
      <4>1. 1 \in DOMAIN requests /\ requests[1] = r
        BY <1>1, Taken DEF Typed
      <4> QED BY <2>3, <4>1 DEF Before, Using, OnlyPings, Typed
    <3>2. AskSent
      BY <1>1, <3>1 DEF Asking, AskAnswered
    <3>3. sessions # 0 /\ r.lockstep \in BOOLEAN
      <4>1. /\ 1 \in DOMAIN requests /\ requests[1] = r
            /\ Len(requests) \in Nat /\ Len(requests) # 0
        BY <1>1, Taken DEF Typed
      <4>2. Len(requests) = 1
        BY <2>3, <3>2, <4>1, AskedIsLast
      <4> QED BY <2>3, <3>2, <4>1, <4>2 DEF AskSent
    <3>4. sessions \in 1..MaxSessions
      BY <3>3 DEF Typed
    <3> QED BY <2>1, <2>3, <3>3, <3>4 DEF Answer
  <2>4. CASE r.method = "session.resume" /\ bound' = (held # None) /\ UNCHANGED <<held, ticking>> /\ Answer(r, held)
    <3>1. bound' \in BOOLEAN /\ (bound' <=> held # None)
      BY <2>4, Zenon
    <3> QED BY <2>1, <2>4, <3>1 DEF Answer
  <2>5. CASE r.method = "session.close" /\ held' = None /\ bound' = FALSE /\ UNCHANGED ticking /\ Answer(r, None)
    BY <2>1, <2>5 DEF Answer
  <2> QED BY <2>2, <2>3, <2>4, <2>5 DEF Handle
<1>3. /\ requests' \in Seq(Requests)
      /\ 1 \in DOMAIN requests /\ r = requests[1] /\ r \in Requests
      /\ \A i \in DOMAIN requests : i = 1 \/ (i - 1 \in DOMAIN requests' /\ requests'[i - 1] = requests[i])
      /\ \A i \in DOMAIN requests' : i + 1 \in DOMAIN requests /\ requests'[i] = requests[i + 1]
      /\ Len(requests') = Len(requests) - 1 /\ DOMAIN requests = 1..Len(requests)
      /\ DOMAIN requests' = 1..(Len(requests) - 1) /\ Len(requests) \in Nat
  BY <1>1, Taken DEF Typed
<1> DEFINE m == M(c)
<1>4. m \in Answers /\ m.method = r.method /\ m.id = r.id /\ m.lockstep = r.lockstep /\ m.clock = c
  BY <1>3 DEF Requests, Answers
<1> HIDE DEF r, m
<1>5. /\ answers' \in Seq(Answers)
      /\ \A i \in DOMAIN answers : i \in DOMAIN answers' /\ answers'[i] = answers[i]
      /\ Len(answers') = Len(answers) + 1 /\ answers'[Len(answers) + 1] = m
      /\ DOMAIN answers' = 1..(Len(answers) + 1) /\ DOMAIN answers = 1..Len(answers) /\ Len(answers) \in Nat
      /\ \A i \in DOMAIN answers' : i = Len(answers) + 1 \/ i \in DOMAIN answers
  <2>1. answers' = Append(answers, m)
    BY <1>2 DEF m, r
  <2> QED BY <1>4, <2>1, Sent DEF Typed
<1>6. Typed'
  <2>1. Numbered(requests)' /\ Numbered(answers)'
    BY SMTT(20), <1>1, <1>3, <1>4, <1>5 DEF Typed, Numbered
  <2> QED BY <1>1, <1>2, <1>3, <1>5, <2>1 DEF Typed
<1>7. Pending'
  <2> SUFFICES ASSUME NEW id \in clock_pings
               PROVE  \/ \E i \in DOMAIN requests' : requests'[i].id = id
                      \/ \E i \in DOMAIN answers' : answers'[i].id = id
    BY <1>1 DEF Pending
  <2>1. CASE \E i \in DOMAIN answers : answers[i].id = id
    BY <1>5, <2>1
  <2>2. ASSUME NEW i \in DOMAIN requests, requests[i].id = id
        PROVE  \/ \E j \in DOMAIN requests' : requests'[j].id = id
               \/ \E j \in DOMAIN answers' : answers'[j].id = id
    <3>1. CASE i = 1
      <4>1. Len(answers) + 1 \in DOMAIN answers'
        BY <1>5
      <4> QED BY <1>3, <1>4, <1>5, <2>2, <3>1, <4>1
    <3> QED BY <1>3, <2>2, <3>1
  <2> QED BY <2>1, <2>2 DEF Pending
<1>8. Marking' /\ Awaiting' /\ SampledWhenUsed'
  BY <1>1 DEF Marking, Awaiting, Marked, SampledWhenUsed
<1>9. CASE r.method = "ping"
  <2>1. c = Stamp /\ UNCHANGED <<held, ticking, bound>> /\ ~Ends(m)
    BY <1>2, <1>4, <1>9 DEF Ends
  <2>2. Holding' /\ Before'
    BY SMTT(20), <1>1, <1>3, <1>4, <1>5, <1>9, <2>1 DEF Holding, Before, OnlyPings
  <2>3. Gone' <=> Gone
    BY <1>1, <1>5, <2>1 DEF Gone, Ends
  <2>4. Stamped'
    <3> SUFFICES ASSUME NEW i \in DOMAIN answers', answers'[i].id \in clock_pings
                 PROVE  answers'[i].clock = IF ready = None \/ EndsBefore(i)' THEN None ELSE ready
      BY <1>1 DEF Stamped
    <3>1. CASE i \in DOMAIN answers
      <4>1. EndsBefore(i)' <=> EndsBefore(i)
        BY SMTT(20), <1>5, <3>1 DEF EndsBefore, Ends
      <4> QED BY <1>5, <3>1, <4>1 DEF Stamped
    <3>2. CASE i = Len(answers) + 1
      <4>1. answers'[i].clock = Stamp /\ (Gone <=> ready = None \/ EndsBefore(i)')
        <5>1. EndsBefore(i)' <=> \E j \in DOMAIN answers : Ends(answers[j])
          BY <1>5, <3>2 DEF EndsBefore, Ends
        <5> QED BY <1>4, <1>5, <2>1, <3>2, <5>1 DEF Gone
      <4>2. Gone => ~bound
        BY <1>1 DEF Before, Asking, AskSent, AskAnswered, Using, Typed
      <4>3. ~Gone => bound /\ held = ready /\ ~ticking
        <5> SUFFICES ASSUME ~Gone PROVE bound /\ held = ready /\ ~ticking
          OBVIOUS
        <5>1. ready # None /\ clock_pings # {}
          BY DEF Gone
        <5> QED BY <5>1 DEF Marking, Using, Holding
      <4> QED BY <4>1, <4>2, <4>3 DEF Stamp
    <3> QED BY <1>5, <3>1, <3>2
  <2>5. Asking'
    <3> SUFFICES ASSUME stage = "asked" PROVE AskSent'
      BY <1>1 DEF Asking
    <3>1. AskSent
      BY <1>1 DEF Asking, AskAnswered
    <3>2. Len(requests) # 1
      BY <1>3, <1>9, <3>1 DEF AskSent
    <3>3. requests' # <<>> /\ Len(requests') \in DOMAIN requests' /\ requests'[Len(requests')] = requests[Len(requests)]
      BY SMTT(20), <1>3, <3>2
    <3>4. \A i \in 1..(Len(requests') - 1) : requests'[i].method = "ping"
      <4> SUFFICES ASSUME NEW i \in 1..(Len(requests') - 1) PROVE requests'[i].method = "ping"
        OBVIOUS
      <4>1. requests'[i] = requests[i + 1] /\ i + 1 \in 1..(Len(requests) - 1)
        BY SMTT(20), <1>3
      <4> QED BY <3>1, <4>1 DEF AskSent
    <3>5. OnlyPings(answers)'
      BY <1>4, <1>5, <1>9, <3>1 DEF AskSent, OnlyPings
    <3> QED BY <1>1, <2>1, <3>1, <3>3, <3>4, <3>5 DEF AskSent
  <2>6. Using'
    <3> SUFFICES ASSUME stage \in Used PROVE Using'
      BY <1>1 DEF Using
    <3>1. OnlyPings(requests) => OnlyPings(requests')
      BY <1>3 DEF OnlyPings
    <3>2. \A i \in DOMAIN answers' : answers'[i].method # "ping" => i \in DOMAIN answers
      BY <1>4, <1>5, <1>9
    <3>3. IF Gone' THEN held' = None /\ ~bound' ELSE held' = ready' /\ bound'
      BY <1>1, <2>1, <2>3 DEF Using
    <3>4. ASSUME NEW i \in DOMAIN requests', requests'[i].method # "ping"
          PROVE  /\ requests'[i].method = "session.close" /\ stage = "closing"
                 /\ \A j \in DOMAIN requests' : j # i => requests'[j].method = "ping"
                 /\ \A j \in DOMAIN answers' : answers'[j].method # "session.close"
      BY SMTT(20), <1>3, <1>4, <1>5, <1>9, <3>4 DEF Using
    <3>5. ASSUME NEW i \in DOMAIN answers', answers'[i].method # "ping"
          PROVE  /\ answers'[i].clock = None
                 /\ \/ /\ answers'[i].method = "session.close" /\ stage = "closing"
                       /\ OnlyPings(requests')
                       /\ \A j \in DOMAIN answers' : j > i => answers'[j].method = "ping"
                    \/ /\ answers'[i].method = "session.state" /\ ready # None
                       /\ \A j \in DOMAIN answers' : j # i => answers'[j].method # "session.state"
      BY <1>4, <1>5, <1>9, <3>1, <3>2, <3>5 DEF Using
    <3> QED BY <1>1, <3>3, <3>4, <3>5 DEF Using, OnlyPings
  <2> QED BY <1>6, <1>7, <1>8, <2>2, <2>4, <2>5, <2>6
<1>10. ASSUME r.method # "ping" PROVE Stamped'
  <2> SUFFICES ASSUME NEW i \in DOMAIN answers', answers'[i].id \in clock_pings
               PROVE  answers'[i].clock = IF ready = None \/ EndsBefore(i)' THEN None ELSE ready
    BY <1>1 DEF Stamped
  <2>1. m.id = 0
    BY <1>3, <1>4, <1>10 DEF Typed, Numbered
  <2>2. i \in DOMAIN answers
    BY <1>5, <2>1 DEF Typed
  <2>3. EndsBefore(i)' <=> EndsBefore(i)
    BY SMTT(20), <1>5, <2>2 DEF EndsBefore, Ends
  <2> QED BY <1>5, <2>2, <2>3 DEF Stamped
<1>11. CASE r.method \in Asks
  <2>1. stage = "asked" /\ AskSent
    BY <1>1, <1>3, <1>11 DEF Asks, Before, Using, OnlyPings, Typed, Asking, AskAnswered
  <2>2. Len(requests) = 1 /\ requests' = <<>>
    BY <1>3, <1>11, <2>1, AskedIsLast DEF Asks
  <2>3. \/ r.method = "session.open" /\ r.lockstep \in BOOLEAN /\ ready = None /\ sessions # 0
        \/ r.method = "session.resume" /\ ready # None
    BY <1>3, <2>1, <2>2 DEF AskSent
  <2> PICK n \in Nat : n = Len(answers) + 1
    BY <1>5
  <2>4. /\ \/ m.method = "session.open" /\ m.lockstep \in BOOLEAN /\ ready = None /\ m.clock \in 1..MaxSessions
              /\ ticking' = m.lockstep
           \/ m.method = "session.resume" /\ ready # None /\ m.clock \in {ready, None} /\ UNCHANGED <<held, ticking>>
        /\ held' = m.clock /\ (bound' <=> held' # None)
    BY <1>2, <1>4, <2>3 DEF Typed, Holding
  <2>5. AnswerAt(n)'
    <3>1. \A j \in 1..(n - 1) : answers'[j].method = "ping"
      BY <1>5, <2>1 DEF AskSent, OnlyPings
    <3>2. answers'[n] = m /\ Len(answers') = n
      BY <1>5
    <3> QED BY <1>1, <2>4, <3>1, <3>2 DEF AnswerAt
  <2>6. AskAnswered'
    BY <1>5, <2>2, <2>5 DEF AskAnswered
  <2>7. Holding'
    BY <1>1, <2>4 DEF Holding
  <2>8. Before' /\ Asking' /\ Using'
    BY <1>1, <2>1, <2>6 DEF Before, Asking, Using, Used
  <2> QED BY <1>6, <1>7, <1>8, <1>10, <1>11, <2>7, <2>8 DEF Asks
<1>12. CASE r.method = "session.close"
  <2>1. held' = None /\ ~bound' /\ m.clock = None
    BY <1>2, <1>4, <1>12
  <2>2. stage \in Used
    <3>1. ~AskAnswered /\ stage # "new"
      BY <1>1, <1>3, <1>12 DEF Before, AskAnswered, OnlyPings
    <3>2. ~AskSent
      BY <1>3, <1>12, AskedIsLast DEF AskSent
    <3> QED BY <3>1, <3>2 DEF Asking, Typed
  <2>3. /\ stage = "closing"
        /\ \A j \in DOMAIN requests : j # 1 => requests[j].method = "ping"
        /\ \A j \in DOMAIN answers : answers[j].method # "session.close"
    BY <1>3, <1>12, <2>2 DEF Using
  <2>4. OnlyPings(requests)'
    BY <1>3, <2>3 DEF OnlyPings
  <2>5. Gone'
    BY <1>4, <1>5, <1>12, <2>1 DEF Gone, Ends
  <2>6. ASSUME NEW i \in DOMAIN answers', answers'[i].method # "ping"
        PROVE  /\ answers'[i].clock = None
               /\ \/ /\ answers'[i].method = "session.close" /\ stage = "closing"
                     /\ OnlyPings(requests)'
                     /\ \A j \in DOMAIN answers' : j > i => answers'[j].method = "ping"
                  \/ /\ answers'[i].method = "session.state" /\ ready # None
                     /\ \A j \in DOMAIN answers' : j # i => answers'[j].method # "session.state"
    <3>1. CASE i = Len(answers) + 1
      BY <1>4, <1>5, <1>12, <2>1, <2>3, <2>4, <3>1
    <3>2. CASE i \in DOMAIN answers
      BY <1>4, <1>5, <1>12, <2>2, <2>3, <2>6, <3>2 DEF Using
    <3> QED BY <1>5, <3>1, <3>2
  <2>7. Using'
    BY <1>1, <2>1, <2>4, <2>5, <2>6 DEF Using, OnlyPings
  <2>8. Holding' /\ Before' /\ Asking'
    BY <1>1, <2>1, <2>3 DEF Holding, Before, Asking
  <2> QED BY <1>6, <1>7, <1>8, <1>10, <1>12, <2>7, <2>8
<1> QED BY <1>2, <1>9, <1>11, <1>12 DEF Asks

\* A pong that is a sample was stamped on the clock of the session the client holds
\* (client.py:627-633).
LEMMA SampleOfSession ==
  ASSUME PInv, answers # <<>>, Head(answers).id \in clock_pings
  PROVE  Head(answers).clock = ready /\ Head(answers).method = "ping"
<1>1. 1 \in DOMAIN answers /\ Head(answers) = answers[1]
  BY Taken DEF PInv, Typed
<1>2. ~EndsBefore(1)
  BY DEF EndsBefore
<1>3. answers[1].method = "ping"
  BY <1>1 DEF PInv, Typed, Numbered
<1> QED BY <1>1, <1>2, <1>3 DEF PInv, Stamped

\* Nothing marked is under way when open_session or reconnect has its answer.
LEMMA AnswerIsFirst ==
  ASSUME PInv, answers # <<>>, Head(answers).method \in Asks
  PROVE  stage = "asked" /\ requests = <<>> /\ AnswerAt(1) /\ clock_pings = {}
<1> USE DEF PInv
<1>1. /\ 1 \in DOMAIN answers /\ Head(answers) = answers[1] /\ Len(answers) \in Nat
      /\ DOMAIN answers = 1..Len(answers) /\ answers[1].method \notin {"ping", "session.close", "session.state"}
  BY Taken DEF Typed, Asks
<1>2. stage \notin Used /\ stage # "new" /\ ~AskSent
  BY <1>1 DEF Using, Before, AskSent, OnlyPings
<1>3. stage = "asked" /\ AskAnswered
  BY <1>2 DEF Typed, Asking
<1>4. PICK i \in DOMAIN answers : AnswerAt(i)
  BY <1>3 DEF AskAnswered
<1>5. i = 1
  <2>1. i # 1 => 1 \in 1..(i - 1)
    BY <1>1
  <2> QED BY <1>1, <1>4, <2>1 DEF AnswerAt
<1>6. ASSUME NEW id \in clock_pings PROVE FALSE
  <2>1. id # 0
    BY DEF Typed
  <2>2. DOMAIN requests = {}
    BY <1>3 DEF AskAnswered
  <2>3. PICK k \in DOMAIN answers : answers[k].id = id
    BY <2>2 DEF Pending
  <2>4. k = 1 \/ (k = 2 /\ Len(answers) = 2)
    BY <1>1, <1>4, <1>5 DEF AnswerAt
  <2>5. answers[k].method # "ping"
    BY <1>1, <1>4, <1>5, <2>4 DEF AnswerAt
  <2> QED BY <2>1, <2>3, <2>5 DEF Typed, Numbered
<1> QED BY <1>3, <1>4, <1>5, <1>6 DEF AskAnswered

\* No other answer than a pong is received with marked pings of the old session under way.
LEMMA ReceiveStep ==
  ASSUME PInv, TypeOK, Receive
  PROVE  PInv'
<1> USE ClockSessionAssumption DEF PInv
<1> DEFINE a == Head(answers)
<1>1. /\ answers # <<>> /\ answers' = Tail(answers) /\ clock_pings' = clock_pings \ {a.id}
      /\ UNCHANGED <<awaited, up, requests, held, ticking, bound, sessions, pings>>
  BY DEF Receive, world
<1>2. /\ answers' \in Seq(Answers)
      /\ 1 \in DOMAIN answers /\ a = answers[1] /\ a \in Answers
      /\ \A i \in DOMAIN answers : i = 1 \/ (i - 1 \in DOMAIN answers' /\ answers'[i - 1] = answers[i])
      /\ \A i \in DOMAIN answers' : i + 1 \in DOMAIN answers /\ answers'[i] = answers[i + 1]
      /\ Len(answers') = Len(answers) - 1 /\ DOMAIN answers = 1..Len(answers)
      /\ DOMAIN answers' = 1..(Len(answers) - 1) /\ Len(answers) \in Nat
  BY <1>1, Taken DEF Typed
<1>3. \/ a.method = "ping" /\ Pong(a)
      \/ a.method = "session.open" /\ Opened(a)
      \/ a.method = "session.resume" /\ a.clock # None /\ Resumed(a)
      \/ a.method \in {"session.close", "session.state", "session.resume"} /\ a.clock = None /\ Over(a)
  BY DEF Receive
<1>4. a.id \in clock_pings => a.clock = ready /\ a.method = "ping"
  BY <1>1, SampleOfSession
<1> HIDE DEF a
<1>5. Numbered(answers)' /\ Numbered(requests)' /\ clock_pings' \subseteq 1..pings'
  <2>1. Numbered(requests)' /\ clock_pings' \subseteq 1..pings'
    BY <1>1 DEF Typed, Numbered
  <2>2. \A i \in DOMAIN answers : IF answers[i].method = "ping" THEN answers[i].id \in 1..pings ELSE answers[i].id = 0
    BY DEF Typed, Numbered
  <2> QED BY <1>1, <1>2, <2>1, <2>2 DEF Numbered
<1>6. Pending'
  <2> SUFFICES ASSUME NEW id \in clock_pings, id # a.id
               PROVE  \/ \E i \in DOMAIN requests : requests[i].id = id
                      \/ \E i \in DOMAIN answers' : answers'[i].id = id
    BY <1>1 DEF Pending
  <2>1. ASSUME NEW i \in DOMAIN answers, answers[i].id = id
        PROVE  \E j \in DOMAIN answers' : answers'[j].id = id
    BY <1>2, <2>1
  <2> QED BY <2>1 DEF Pending
<1>7. ASSUME NEW i \in DOMAIN answers'
      PROVE  EndsBefore(i + 1) <=> Ends(a) \/ EndsBefore(i)'
  <2>1. EndsBefore(i)' <=> \E j \in 1..(i - 1) : Ends(answers[j + 1])
    <3>1. \A j \in 1..(i - 1) : j \in DOMAIN answers'
      BY <1>2
    <3>2. \A j \in 1..(i - 1) : answers'[j] = answers[j + 1]
      BY <1>2, <3>1
    <3> QED BY <3>2 DEF EndsBefore, Ends
  <2>2. ASSUME NEW j \in 1..i, Ends(answers[j]), j # 1
        PROVE  \E k \in 1..(i - 1) : Ends(answers[k + 1])
    <3>1. j - 1 \in 1..(i - 1) /\ (j - 1) + 1 = j
      BY <1>2, <2>2
    <3> QED BY <2>2, <3>1
  <2>3. ASSUME NEW j \in 1..(i - 1) PROVE j + 1 \in 1..i
    BY <1>2
  <2>4. 1 \in 1..i /\ (i + 1) - 1 = i
    BY <1>2
  <2> QED BY <1>2, <2>1, <2>2, <2>3, <2>4 DEF EndsBefore
<1>8. Gone <=> ready = None \/ Ends(a) \/ \E i \in DOMAIN answers' : Ends(answers'[i])
  BY <1>2 DEF Gone, Ends
<1>9. CASE a.method = "ping"
  <2>1. /\ UNCHANGED <<ready, lockstep>> /\ ~Ends(a)
        /\ stage' = IF stage = "sampling" /\ a.id = awaited THEN "using" ELSE stage
        /\ a.id \in clock_pings => Exchange
        /\ a.id \notin clock_pings => UNCHANGED samples
    BY <1>3, <1>4, <1>9 DEF Pong, Counted, Ignored, Ends
  <2>2. /\ stage' \in Used <=> stage \in Used
        /\ (stage' = "new" <=> stage = "new") /\ (stage' = "asked" <=> stage = "asked")
        /\ (stage' = "closing" <=> stage = "closing")
    BY <2>1 DEF Used
  <2>3. Typed'
    <3>1. stage' \in {"new", "asked"} \union Used
      BY <2>1 DEF Typed, Used
    <3> QED BY <1>1, <1>2, <1>5, <2>1, <3>1 DEF Typed
  <2>4. Marking' /\ Holding'
    BY <1>1, <2>1, <2>2 DEF Marking, Holding
  <2>5. Awaiting'
    BY <1>1, <2>1 DEF Awaiting, Marked
  <2>6. SampledWhenUsed'
    <3> SUFFICES ASSUME stage' = "using", Marked PROVE samples' # <<>>
      BY <2>1 DEF SampledWhenUsed, Marked
    <3>1. CASE a.id \in clock_pings
      <4>1. PICK s : Add(s)
        BY <2>1, <3>1 DEF Exchange, Measure
      <4>2. samples \in Seq(ClockSample \union {s}) /\ s \in ClockSample \union {s}
        BY DEF TypeOK
      <4>3. samples # <<>> => Tail(samples) \in Seq(ClockSample \union {s})
        BY <4>2
      <4>4. samples = <<>> => Len(samples) < Window
        BY ClockAssumption
      <4> HIDE DEF ClockSample
      <4> QED BY <4>1, <4>2, <4>3, <4>4 DEF Add
    <3>2. CASE a.id \notin clock_pings
      BY <2>1, <3>2 DEF SampledWhenUsed, Awaiting, Marked
    <3> QED BY <3>1, <3>2
  <2>7. Stamped'
    BY <1>1, <1>2, <1>7, <2>1 DEF Stamped
  <2>8. Before'
    BY <1>1, <1>2, <2>2 DEF Before, OnlyPings
  <2>9. Asking'
    <3> SUFFICES ASSUME stage = "asked" PROVE AskSent' \/ AskAnswered'
      BY <2>2 DEF Asking
    <3>1. AskSent => AskSent'
      BY <1>1, <1>2, <2>1 DEF AskSent, OnlyPings
    <3>2. ASSUME AskAnswered PROVE AskAnswered'
      <4>1. PICK i \in DOMAIN answers : AnswerAt(i)
        BY <3>2 DEF AskAnswered
      <4>2. i # 1
        <5>1. answers[1].method = "ping"
          BY <1>2, <1>9
        <5> QED BY <4>1, <5>1 DEF AnswerAt
      <4>3. PICK k \in DOMAIN answers' : i = k + 1
        BY <1>2, <4>2
      <4>4. /\ answers'[k] = answers[i] /\ k \in Nat /\ Len(answers') = Len(answers) - 1
            /\ Len(answers) = i + 1 => answers'[k + 1] = answers[i + 1]
        BY <1>2, <4>3
      <4>5. \A j \in 1..(k - 1) : answers'[j].method = "ping"
        <5>1. \A j \in 1..(i - 1) : answers[j].method = "ping"
          BY <4>1 DEF AnswerAt
        <5>2. ASSUME NEW j \in 1..(k - 1) PROVE answers'[j].method = "ping"
          <6>1. j \in DOMAIN answers' /\ j + 1 \in 1..(i - 1)
            BY <1>2, <4>3
          <6>2. answers'[j] = answers[j + 1]
            BY <1>2, <6>1
          <6> QED BY <5>1, <6>1, <6>2
        <5> QED BY <5>2
      <4>6. AnswerAt(k)'
        BY <1>1, <1>2, <2>1, <4>1, <4>3, <4>4, <4>5 DEF AnswerAt
      <4> QED BY <1>1, <3>2, <4>6 DEF AskAnswered
    <3> QED BY <3>1, <3>2 DEF Asking
  <2>10. Using'
    <3>1. Gone' <=> Gone
      BY <1>8, <2>1 DEF Gone, Ends
    <3> QED BY <1>1, <1>2, <2>1, <2>2, <3>1 DEF Using, OnlyPings
  <2> QED BY <1>6, <2>3, <2>4, <2>5, <2>6, <2>7, <2>8, <2>9, <2>10
<1>10. CASE a.method \in Asks /\ a.clock # None
  <2>1. stage = "asked" /\ requests = <<>> /\ AnswerAt(1) /\ clock_pings = {}
    BY <1>1, <1>10, AnswerIsFirst DEF a
  <2>2. /\ stage' = "opened" /\ ready' = a.clock /\ ready' \in 1..MaxSessions /\ lockstep' \in BOOLEAN
        /\ held # None => ticking = lockstep'
    <3>1. CASE a.method = "session.open" /\ Opened(a)
      BY <1>2, <2>1, <3>1 DEF Opened, AnswerAt
    <3>2. CASE a.method = "session.resume" /\ a.clock # None /\ Resumed(a)
      <4>1. a.clock = ready /\ held \in {ready, None}
        BY <1>2, <2>1, <3>2 DEF AnswerAt, Holding
      <4> QED BY <1>2, <3>2, <4>1 DEF Resumed, Typed, Holding
    <3> QED BY <1>3, <1>10, <3>1, <3>2 DEF Asks
  <2>3. /\ requests' = <<>> /\ DOMAIN requests' = {} /\ clock_pings' = {}
        /\ \/ DOMAIN answers' = {} /\ held = ready' /\ bound
           \/ /\ DOMAIN answers' = 1..1 /\ answers'[1].method = "session.state"
              /\ answers'[1].clock = None /\ held = None /\ ~bound
    <3>1. CASE Len(answers) = 1 /\ held = answers[1].clock /\ (bound <=> held # None)
      BY <1>1, <1>2, <1>10, <2>1, <2>2, <3>1
    <3>2. CASE /\ Len(answers) = 2 /\ answers[2].method = "session.state"
               /\ answers[2].clock = None /\ held = None /\ ~bound
      <4>1. DOMAIN answers' = 1..1 /\ 1 \in DOMAIN answers'
        BY <1>2, <3>2
      <4>2. answers'[1] = answers[2]
        BY <1>2, <4>1
      <4> QED BY <1>1, <2>1, <3>2, <4>1, <4>2
    <3> QED BY <2>1, <3>1, <3>2 DEF AnswerAt
  <2>4. Typed'
    BY <1>1, <1>2, <1>5, <2>2 DEF Typed, Used
  <2>5. Marking' /\ Awaiting' /\ Stamped' /\ Holding' /\ Before' /\ Asking' /\ SampledWhenUsed'
    BY <1>1, <2>2, <2>3 DEF Marking, Awaiting, Stamped, Holding, Before, Asking, SampledWhenUsed
  <2>6. Using'
    <3>1. IF Gone' THEN held' = None /\ ~bound' ELSE held' = ready' /\ bound'
      BY <1>1, <2>2, <2>3, ClockSessionAssumption DEF Gone, Ends
    <3>2. ready' # None /\ \A i \in DOMAIN answers' : i = 1
      BY <2>2, <2>3
    <3> QED BY <2>2, <2>3, <3>1, <3>2 DEF Using
  <2> QED BY <1>6, <2>4, <2>5, <2>6
<1>11. CASE a.method \in {"session.close", "session.state", "session.resume"} /\ a.clock = None /\ Over(a)
  <2>1. /\ ready' = None /\ lockstep' = lockstep /\ samples' = samples /\ Ends(a)
        /\ stage' = IF a.method = "session.state" THEN stage ELSE "new"
    BY <1>11 DEF Over, Ends
  <2>2. CASE a.method = "session.resume"
    <3>1. stage = "asked" /\ requests = <<>> /\ AnswerAt(1) /\ clock_pings = {}
      BY <1>1, <2>2, AnswerIsFirst DEF a, Asks
    <3>2. Len(answers) = 1 /\ ~bound
      BY <1>2, <1>11, <3>1 DEF AnswerAt
    <3>3. DOMAIN answers' = {} /\ DOMAIN requests' = {} /\ clock_pings' = {} /\ stage' = "new"
      BY <1>1, <1>2, <2>1, <2>2, <3>1, <3>2
    <3>4. Typed'
      BY <1>1, <1>2, <1>5, <2>1, <3>3 DEF Typed
    <3>5. Before'
      BY <1>1, <3>2, <3>3 DEF Before, OnlyPings
    <3> QED BY <1>6, <2>1, <3>3, <3>4, <3>5
            DEF Marking, Awaiting, Stamped, Holding, Asking, SampledWhenUsed, Using, Used
  <2>3. CASE a.method # "session.resume"
    <3>1. stage \in Used
      <4>1. ~AskAnswered
        <5> SUFFICES ASSUME NEW i \in DOMAIN answers, AnswerAt(i) PROVE FALSE
          BY DEF AskAnswered
        <5>1. i = 1 \/ 1 \in 1..(i - 1)
          BY <1>2
        <5>2. a.method \in {"session.close", "session.state"}
          BY <1>11, <2>3
        <5> QED BY <1>2, <5>1, <5>2 DEF AnswerAt
      <4> QED BY <1>2, <1>11, <4>1 DEF Typed, Before, Asking, AskSent, OnlyPings
    <3>2. held = None /\ ~bound
      BY <1>8, <2>1, <3>1 DEF Using
    <3>3. Stamped'
      BY <1>1, <1>2, <1>7, <2>1 DEF Stamped
    <3>4. CASE a.method = "session.close"
      <4>1. OnlyPings(requests) /\ \A j \in DOMAIN answers : j > 1 => answers[j].method = "ping"
        BY <1>2, <3>1, <3>4 DEF Using
      <4>2. OnlyPings(requests') /\ OnlyPings(answers') /\ stage' = "new"
        BY <1>1, <1>2, <2>1, <3>4, <4>1 DEF OnlyPings
      <4>3. Before'
        BY <1>1, <3>2, <4>2 DEF Before, OnlyPings
      <4>4. Typed'
        BY <1>1, <1>2, <1>5, <2>1, <4>2 DEF Typed
      <4> QED BY <1>6, <2>1, <3>3, <4>2, <4>3, <4>4
              DEF Marking, Awaiting, Marked, Holding, Asking, SampledWhenUsed, Using, Used
    <3>5. CASE a.method = "session.state"
      <4>1. stage' = stage
        BY <2>1, <3>5
      <4>2. /\ \A j \in DOMAIN answers : j # 1 => answers[j].method # "session.state"
            /\ \A j \in DOMAIN answers' : answers'[j].method # "session.state"
        <5>1. \A j \in DOMAIN answers : j # 1 => answers[j].method # "session.state"
          BY <1>2, <3>1, <3>5 DEF Using
        <5> QED BY <1>2, <5>1
      <4>3. Typed'
        BY <1>1, <1>2, <1>5, <2>1, <4>1 DEF Typed
      <4>4. Gone'
        BY <2>1 DEF Gone
      <4>5. Using'
        BY <1>1, <1>2, <3>1, <3>2, <4>1, <4>2, <4>4 DEF Using, OnlyPings
      <4> QED BY <1>6, <2>1, <3>1, <3>3, <4>1, <4>3, <4>5
              DEF Marking, Awaiting, Marked, Holding, Asking, SampledWhenUsed, Before, Used
    <3> QED BY <1>11, <2>3, <3>4, <3>5
  <2> QED BY <2>2, <2>3
<1>12. a.method = "session.open" => a.clock # None
  <2> SUFFICES ASSUME a.method = "session.open" PROVE a.clock # None
    OBVIOUS
  <2>1. AnswerAt(1)
    BY <1>1, AnswerIsFirst DEF a, Asks
  <2> QED BY <1>2, <2>1 DEF AnswerAt
<1> QED BY <1>3, <1>9, <1>10, <1>11, <1>12 DEF Asks

-----------------------------------------------------------------------------
(* The refinement, and what follows from it                                *)

\* Every step of the client is one of the estimator, or leaves it alone: a marked pong is an
\* exchange with its session's clock, and a session opened has no samples (client.py:627-633).
LEMMA StepRefines == ASSUME PInv, [SessionNext]_session_vars PROVE [Next]_vars
<1>1. CASE Receive
  <2> DEFINE a == Head(answers)
  <2>1. a.id \in clock_pings => a.clock = ready
    BY <1>1, SampleOfSession DEF Receive
  <2> HIDE DEF a
  <2>2. Pong(a) => [Next]_vars
    BY <2>1 DEF Pong, Counted, Ignored, Next, vars
  <2>3. Opened(a) => [Next]_vars
    BY DEF Opened, Next
  <2>4. Resumed(a) \/ Over(a) => [Next]_vars
    BY DEF Resumed, Over, vars
  <2> QED BY <1>1, <2>2, <2>3, <2>4 DEF Receive, a
<1>2. CASE SessionNext /\ ~Receive
  <2>1. UNCHANGED vars
    BY <1>2 DEF SessionNext, Beat, AppPing, Ping, OpenSession, Resume, Close, Ask, Reconnect, Handle, Forget,
                client, vars
  <2> QED BY <2>1
<1>3. CASE UNCHANGED session_vars
  BY <1>3 DEF session_vars, client, vars
<1> QED BY <1>1, <1>2, <1>3

\* Nothing changes for the client in a stuttering step.
LEMMA StutterPInv == PInv /\ UNCHANGED session_vars => PInv'
<1> SUFFICES ASSUME PInv, UNCHANGED session_vars PROVE PInv'
  OBVIOUS
<1> USE DEF PInv, session_vars, client, app, link, world
<1>1. (\A i : EndsBefore(i)' <=> EndsBefore(i)) /\ (Gone' <=> Gone)
  BY DEF EndsBefore, Gone, Ends
<1>2. Typed'
  BY DEF Typed, Numbered
<1>3. Pending' /\ Marking' /\ Awaiting' /\ SampledWhenUsed'
  BY DEF Pending, Marking, Awaiting, Marked, SampledWhenUsed
<1>4. Holding' /\ Before'
  BY DEF Holding, Before, OnlyPings
<1>5. Stamped' /\ Using'
  BY <1>1 DEF Stamped, Using, OnlyPings
<1>6. Asking'
  BY DEF Asking, AskSent, AskAnswered, AnswerAt, OnlyPings
<1> QED BY <1>2, <1>3, <1>4, <1>5, <1>6

\* The two invariants, of the estimator and of its connection, together.
CInv == IInv /\ PInv

\* Initially no exchange was recorded, and nothing is in flight.
LEMMA InitCInv == SessionInit => CInv
BY InitPInv, InitIInv DEF CInv, SessionInit

\* The timer does not ping before there is a session on the connection (aio.py:265-275).
LEMMA NextCInv == ASSUME Patient, CInv, [SessionNext]_session_vars PROVE CInv'
<1>1. IInv'
  BY StepRefines, NextIInv DEF CInv
<1>2. PInv /\ TypeOK
  BY DEF CInv, IInv
<1>3. CASE Beat
  <2>1. Ping /\ stage \in Used /\ UNCHANGED app
    BY <1>2, <1>3 DEF Beat, Patient, PInv, Typed
  <2> QED BY <1>1, <1>2, <2>1, PingStep DEF CInv
<1>4. CASE AppPing
  <2>1. /\ Ping
        /\ stage \in Used \/ (stage = "new" /\ ready = None)
        /\ UNCHANGED app \/ (stage = "opened" /\ stage' = "sampling" /\ awaited' = pings')
    BY <1>4 DEF AppPing, Used
  <2> QED BY <1>1, <1>2, <2>1, PingStep DEF CInv
<1>5. CASE OpenSession \/ Resume \/ Close
  BY <1>1, <1>2, <1>5, AskStep DEF CInv
<1>6. CASE Receive
  BY <1>1, <1>2, <1>6, ReceiveStep DEF CInv
<1>7. CASE Reconnect
  BY <1>1, <1>2, <1>7, ReconnectStep DEF CInv
<1>8. CASE Handle
  BY <1>1, <1>2, <1>8, HandleStep DEF CInv
<1>9. CASE Forget
  BY <1>1, <1>2, <1>9, ForgetStep DEF CInv
<1>10. CASE UNCHANGED session_vars
  BY <1>1, <1>2, <1>10, StutterPInv DEF CInv
<1> QED BY <1>3, <1>4, <1>5, <1>6, <1>7, <1>8, <1>9, <1>10 DEF SessionNext

\* The inductive invariant holds throughout.
THEOREM CInvCorrect == ASSUME Patient PROVE SessionSpec => []CInv
<1>1. CInv /\ [SessionNext]_session_vars => CInv'
  BY NextCInv
<1> QED BY <1>1, InitCInv, PTL DEF SessionSpec

\* The client is a Clock: only pongs stamped on its session's clock are samples, through
\* closed, lost and resumed sessions (client.py:627-633), and what ClockProofs shows of a Clock
\* is true of it.
THEOREM ClientIsClock == ASSUME Patient PROVE SessionSpec => ClockSpec
<1>1. SessionInit => Init
  BY DEF SessionInit
<1>2. CInv /\ [SessionNext]_session_vars => [Next]_vars
  BY StepRefines DEF CInv
<1> QED BY <1>1, <1>2, CInvCorrect, PTL DEF SessionSpec, ClockSpec, Spec

\* The offset a client maps its session's times through is off by no more than half the round
\* trip it reports and the drift over the window (clock.py:36-61).
THEOREM SessionBestWithin == ASSUME Patient PROVE SessionSpec => []BestWithin
BY ClientIsClock, BestWithinCorrect, PTL DEF ClockSpec

\* Types, and a streaming session in use has a sample to map its times with (aio.py:357-364).
THEOREM SessionInvCorrect == ASSUME Patient PROVE SessionSpec => []SessionInv
<1>1. CInv => SessionInv
  <2> SUFFICES ASSUME CInv PROVE SessionInv
    OBVIOUS
  <2>1. SessionTypeOK
    <3>1. awaited \in 0..MaxPings /\ stage \in {"new", "asked", "opened", "sampling", "using", "closing"}
      <4>1. awaited \in 0..pings /\ pings \in 0..MaxPings /\ MaxPings \in Nat
        BY ClockSessionAssumption DEF CInv, PInv, Typed
      <4> QED BY <4>1 DEF CInv, PInv, Typed, Used
    <3> QED BY <3>1 DEF CInv, PInv, IInv, SessionTypeOK, Typed, Pending
  <2> QED BY <2>1 DEF CInv, PInv, SessionInv
<1> QED BY <1>1, CInvCorrect, PTL
=============================================================================
