----------------------------- MODULE LossProofs -----------------------------
(***************************************************************************)
(* Losing a connection, seen from both ends of it: how it is noticed          *)
(* (Heartbeat), and what a program does that rides it out (Recovery).         *)
(*                                                                         *)
(* The timers of Heartbeat, for every interval, watchdog, lag and delay: how   *)
(* much slack the polling, the event loop and the network may take together.  *)
(* The demo of Recovery, for any number of targets and lost connections.       *)
(***************************************************************************)
EXTENDS Heartbeat, Recovery, FiniteSetTheorems, TLAPS

\* What polling and the event loop add to an interval.
Late == BeatPoll + Lag

\* Two intervals are enough for the poll of _beat, a late event loop, and a round trip.
Prompt == \A n \in Intervals : Late + 2 * Delay <= 2 * n

\* Half the watchdog's period is enough for the poll of _beat, a late event loop and a
\* message, and the whole of it for a policy that acts.
Timely == \A w \in Watchdogs \ {Never} : 2 * (Late + Delay) <= w /\ Period + Delay <= w

-----------------------------------------------------------------------------
(* The inductive invariant of Heartbeat, in parts                          *)

Messages == Nat \X BOOLEAN

Timing == heartbeat \/ lockstep

\* Types; no task sleeps longer than the event loop is late, and no message is longer under way.
TimersTyped ==
  /\ {heartbeat, lockstep, connected, alive, tripped} \subseteq BOOLEAN
  /\ interval \in Intervals /\ watchdog \in Watchdogs /\ reports \in ReportIntervals
  /\ beat_slept \in 0..BeatPoll + Lag /\ watch_slept \in 0..WatchPoll + Lag
  /\ report_slept \in Nat /\ last \in Nat /\ rx \in Nat /\ quiet \in Nat /\ idle \in Nat
  /\ from_agent \in Seq(Messages) /\ from_world \in Seq(Nat)
  /\ \A i \in DOMAIN from_agent : from_agent[i][1] <= Delay
  /\ \A i \in DOMAIN from_world : from_world[i] <= Delay

\* _beat pings when its interval is over, or at the poll after.
Pinging == Timing => 2 * last <= TwiceHeartbeat + 2 * beat_slept

\* _watch has noticed a silence, or will at its next poll.
Watching == connected => rx <= 3 * interval + watch_slept

\* Since the last ping, the world was heard; or that ping or its pong is under way, and the
\* world was heard since the ping before.
Since(n) ==
  /\ 2 * n <= TwiceHeartbeat + 2 * beat_slept
  /\ n <= last \/ last >= 2 * interval

Heard ==
  alive /\ Timing =>
    \/ Since(rx)
    \/ \E i \in DOMAIN from_agent :
         from_agent[i][2] /\ 2 * rx <= TwiceHeartbeat + 2 * (Late + from_agent[i][1])
    \/ \E i \in DOMAIN from_world :
         2 * rx <= TwiceHeartbeat + 2 * (Late + Delay + from_world[i])

\* The same of the world, which hears the pings themselves.
WorldHeard ==
  heartbeat /\ Watchdog # Never =>
    /\ ~tripped
    /\ \/ Since(quiet)
       \/ \E i \in DOMAIN from_agent : 2 * quiet <= TwiceHeartbeat + 2 * (Late + from_agent[i][1])

\* A policy that acts is heard as well.
PolicyHeard ==
  ~heartbeat /\ Watchdog # Never /\ idle <= Period =>
    /\ ~tripped
    /\ \/ quiet <= idle
       \/ \E i \in DOMAIN from_agent : quiet <= Period + from_agent[i][1]

\* The reports come too rarely to hold the watchdog off.
Sparse == reports = Never \/ reports > Patience

\* The last report was sent before the watchdog's period was over.
OneReport == reports # Never /\ idle <= report_slept + Patience

\* Of an agent without the timer, only the policy's pings are heard, and a single report after
\* them, until the watchdog trips.
PolicyAlone ==
  ~heartbeat /\ Watchdog # Never /\ Sparse /\ ~tripped =>
    /\ \A i \in DOMAIN from_agent :
         idle <= from_agent[i][1] \/ (OneReport /\ report_slept <= from_agent[i][1])
    /\ idle <= Delay + quiet \/ (OneReport /\ report_slept <= Delay + quiet)

\* The silence of the agent counts up to the watchdog's period, and that of the policy only
\* without the timer; a world without a watchdog is never in the safe state.
Counting ==
  /\ Watchdog # Never => quiet <= Watchdog + 1
  /\ heartbeat => idle = 0
  /\ tripped => Watchdog # Never

IInv == TimersTyped /\ Pinging /\ Watching /\ Heard /\ PolicyAlone /\ Counting

\* For a watchdog, in addition.
WInv == IInv /\ WorldHeard /\ PolicyHeard

-----------------------------------------------------------------------------
(* Sequences of messages                                                   *)

\* A message is sent behind those under way.
LEMMA Sent ==
  ASSUME NEW S, NEW s \in Seq(S), NEW m \in S
  PROVE  /\ Append(s, m) \in Seq(S)
         /\ \A i \in DOMAIN s : i \in DOMAIN Append(s, m) /\ Append(s, m)[i] = s[i]
         /\ Len(s) + 1 \in DOMAIN Append(s, m) /\ Append(s, m)[Len(s) + 1] = m
         /\ \A i \in DOMAIN Append(s, m) : Append(s, m)[i] = m \/ i \in DOMAIN s
<1>1. Len(s) + 1 \in DOMAIN Append(s, m) /\ Append(s, m)[Len(s) + 1] = m
  OBVIOUS
<1> QED BY <1>1

\* The first message is taken; the others remain.
LEMMA Taken ==
  ASSUME NEW S, NEW s \in Seq(S), s # <<>>
  PROVE  /\ Tail(s) \in Seq(S)
         /\ 1 \in DOMAIN s /\ Head(s) = s[1] /\ Head(s) \in S
         /\ \A i \in DOMAIN s : i = 1 \/ (i - 1 \in DOMAIN Tail(s) /\ Tail(s)[i - 1] = s[i])
         /\ \A i \in DOMAIN Tail(s) : i + 1 \in DOMAIN s /\ Tail(s)[i] = s[i + 1]
OBVIOUS

-----------------------------------------------------------------------------
(* The session                                                             *)

\* What _beat's interval is bounded by (client.py:258-263).
LEMMA Interval ==
  ASSUME TimersTyped
  PROVE  /\ interval \in Nat /\ TwiceHeartbeat \in Nat /\ TwiceHeartbeat <= 2 * interval
         /\ Watchdog # Never =>
              Watchdog \in Watchdogs /\ Watchdog \in Nat /\ TwiceHeartbeat <= Watchdog
<1>1. interval \in Nat
  BY HeartbeatAssumption DEF TimersTyped
<1>2. Watchdog # Never => Watchdog \in Nat /\ Watchdog \in Watchdogs
  BY HeartbeatAssumption DEF TimersTyped, Watchdog
<1> QED BY <1>1, <1>2 DEF TwiceHeartbeat

\* The session does not change.
LEMMA SameSession ==
  ASSUME [HBNext]_hbvars
  PROVE  /\ UNCHANGED session
         /\ TwiceHeartbeat' = TwiceHeartbeat /\ Watchdog' = Watchdog /\ Timing' = Timing
         /\ Stalled' = Stalled
<1>1. UNCHANGED session
  BY DEF HBNext, Beat, Watch, Report, PolicyPing, Read, Take, Trip, Die, Elapse, hbvars
<1> QED BY <1>1 DEF session, TwiceHeartbeat, Watchdog, Timing, Stalled

-----------------------------------------------------------------------------
(* Every step preserves the parts                                          *)

\* Every timer has just begun.
LEMMA InitWInv == HBInit => WInv
<1> SUFFICES ASSUME HBInit PROVE WInv
  OBVIOUS
<1> USE HeartbeatAssumption
<1>1. TimersTyped
  <2>1. {heartbeat, lockstep, connected, alive, tripped} \subseteq BOOLEAN
    BY Zenon DEF HBInit
  <2>2. from_agent \in Seq(Messages) /\ from_world \in Seq(Nat) /\ DOMAIN from_agent = {} /\ DOMAIN from_world = {}
    BY DEF HBInit
  <2> QED BY <2>1, <2>2 DEF HBInit, TimersTyped, BeatPoll, WatchPoll
<1>2. TwiceHeartbeat \in Nat /\ (Watchdog # Never => Watchdog \in Nat)
  BY <1>1, Interval
<1>3. Pinging /\ Watching /\ Since(rx) /\ Since(quiet) /\ PolicyAlone /\ Counting
  BY <1>1, <1>2, Interval DEF HBInit, TimersTyped, Pinging, Watching, Since, PolicyAlone, Counting
<1> QED BY <1>1, <1>3 DEF HBInit, WInv, IInv, Heard, WorldHeard, PolicyHeard

\* Types.
LEMMA NextTyped == TimersTyped /\ [HBNext]_hbvars => TimersTyped'
<1> SUFFICES ASSUME TimersTyped, [HBNext]_hbvars PROVE TimersTyped'
  OBVIOUS
<1> USE HeartbeatAssumption
<1>1. UNCHANGED <<heartbeat, lockstep, interval, watchdog, reports>>
  BY SameSession DEF session
<1>2. /\ from_agent \in Seq(Messages) /\ from_world \in Seq(Nat)
      /\ \A i \in DOMAIN from_agent : from_agent[i][1] <= Delay
      /\ \A i \in DOMAIN from_world : from_world[i] <= Delay
      /\ Delay \in Nat /\ Lag \in Nat
  BY DEF TimersTyped
<1>3. ASSUME NEW ack \in BOOLEAN, Send(ack)
      PROVE  from_agent' \in Seq(Messages) /\ \A i \in DOMAIN from_agent' : from_agent'[i][1] <= Delay
  <2>1. <<0, ack>> \in Messages
    BY DEF Messages
  <2> QED BY <1>2, <1>3, <2>1, Sent DEF Send
<1>4. CASE Beat
  <2>1. from_agent' \in Seq(Messages) /\ \A i \in DOMAIN from_agent' : from_agent'[i][1] <= Delay
    BY <1>2, <1>3, <1>4 DEF Beat
  <2>2. last' = 0 \/ last' = last
    BY <1>4 DEF Beat
  <2> QED BY <1>1, <1>4, <2>1, <2>2 DEF Beat, TimersTyped, BeatPoll
<1>5. CASE Watch
  BY <1>1, <1>5 DEF Watch, TimersTyped, net, WatchPoll, Lost
<1>6. CASE Report
  <2>1. from_agent' \in Seq(Messages) /\ \A i \in DOMAIN from_agent' : from_agent'[i][1] <= Delay
    BY <1>2, <1>3, <1>6 DEF Report
  <2> QED BY <1>1, <1>6, <2>1 DEF Report, TimersTyped
<1>7. CASE PolicyPing
  <2>1. from_agent' \in Seq(Messages) /\ \A i \in DOMAIN from_agent' : from_agent'[i][1] <= Delay
    BY <1>2, <1>3, <1>7 DEF PolicyPing
  <2> QED BY <1>1, <1>7, <2>1 DEF PolicyPing, TimersTyped, timers
<1>8. CASE Read
  <2>1. from_world' \in Seq(Nat) /\ \A i \in DOMAIN from_world' : from_world'[i] <= Delay
    BY <1>2, <1>8, Taken DEF Read
  <2> QED BY <1>1, <1>8, <2>1 DEF Read, TimersTyped
<1>9. CASE Take
  <2>1. from_agent' \in Seq(Messages) /\ \A i \in DOMAIN from_agent' : from_agent'[i][1] <= Delay
    BY <1>2, <1>9, Taken DEF Take
  <2>2. from_world' \in Seq(Nat) /\ \A i \in DOMAIN from_world' : from_world'[i] <= Delay
    BY <1>2, <1>9, Sent DEF Take
  <2> QED BY <1>1, <1>9, <2>1, <2>2 DEF Take, TimersTyped, timers
<1>10. CASE Trip \/ Die
  BY <1>1, <1>10 DEF Trip, Die, TimersTyped, timers, net
<1>11. CASE Elapse
  <2>1. from_agent' \in Seq(Messages) /\ \A i \in DOMAIN from_agent' : from_agent'[i][1] <= Delay
    <3>1. DOMAIN from_agent' = DOMAIN from_agent /\ DOMAIN from_agent = 1..Len(from_agent) /\ Len(from_agent) \in Nat
      BY <1>2, <1>11 DEF Elapse
    <3>2. ASSUME NEW i \in DOMAIN from_agent
          PROVE  from_agent'[i] \in Messages /\ from_agent'[i][1] <= Delay
      <4>1. from_agent[i] \in Messages /\ from_agent[i][1] < Delay
        BY <1>2, <1>11 DEF Elapse
      <4>2. from_agent'[i] = <<from_agent[i][1] + 1, from_agent[i][2]>>
        BY <1>11 DEF Elapse
      <4> QED BY <1>2, <4>1, <4>2 DEF Messages
    <3>3. from_agent' = [i \in 1..Len(from_agent) |-> from_agent'[i]]
      BY <1>11, <3>1 DEF Elapse
    <3> QED BY <3>1, <3>2, <3>3
  <2>2. from_world' \in Seq(Nat) /\ \A i \in DOMAIN from_world' : from_world'[i] <= Delay
    <3>1. DOMAIN from_world = 1..Len(from_world) /\ Len(from_world) \in Nat /\ \A i \in DOMAIN from_world : from_world[i] \in Nat
      BY <1>2
    <3> QED BY SMTT(20), <1>2, <1>11, <3>1 DEF Elapse
  <2>3. report_slept' \in Nat /\ last' \in Nat /\ rx' \in Nat /\ quiet' \in Nat /\ idle' \in Nat
    <3>1. \A n \in Nat : \A limit : Upto(n, limit) \in Nat
      BY DEF Upto
    <3>2. /\ report_slept' = 0 \/ report_slept' = report_slept + 1
          /\ \E limit : last' = Upto(last, limit)
          /\ \E limit : rx' = Upto(rx, limit)
          /\ \E limit : quiet' = Upto(quiet, limit)
          /\ idle' = 0 \/ \E limit : idle' = Upto(idle, limit)
      BY <1>11 DEF Elapse
    <3> QED BY SMTT(20), <3>1, <3>2 DEF TimersTyped
  <2>4. beat_slept' \in 0..BeatPoll + Lag /\ watch_slept' \in 0..WatchPoll + Lag
    BY <1>2, <1>11 DEF Elapse, TimersTyped, BeatPoll, WatchPoll
  <2> QED BY <1>1, <1>11, <2>1, <2>2, <2>3, <2>4 DEF Elapse, TimersTyped
<1>12. CASE UNCHANGED hbvars
  BY <1>1, <1>12 DEF hbvars, TimersTyped, timers, net
<1> QED BY <1>4, <1>5, <1>6, <1>7, <1>8, <1>9, <1>10, <1>11, <1>12 DEF HBNext

\* _beat polls every 50 ms (aio.py:263-274).
LEMMA NextPinging == TimersTyped /\ Pinging /\ [HBNext]_hbvars => Pinging'
<1> SUFFICES ASSUME TimersTyped, Pinging, [HBNext]_hbvars PROVE Pinging'
  OBVIOUS
<1>1. TwiceHeartbeat \in Nat /\ TwiceHeartbeat' = TwiceHeartbeat /\ Timing' = Timing
  BY Interval, SameSession
<1>2. last \in Nat /\ beat_slept \in Nat
  BY HeartbeatAssumption DEF TimersTyped, BeatPoll
<1>3. CASE Beat
  <2>1. beat_slept' = 0 /\ (last' = 0 \/ (last' = last /\ ~Due))
    BY <1>3 DEF Beat
  <2>2. Timing /\ ~Due => 2 * last < TwiceHeartbeat
    BY <1>1, <1>2 DEF Due, Timing
  <2> QED BY <1>1, <1>2, <2>1, <2>2 DEF Pinging
<1>4. CASE Elapse
  <2>1. beat_slept' = beat_slept + 1 /\ (last' = last + 1 \/ last' = last)
    BY <1>4 DEF Elapse, Upto
  <2> QED BY <1>1, <1>2, <2>1 DEF Pinging
<1>5. CASE UNCHANGED <<last, beat_slept>>
  BY <1>1, <1>5 DEF Pinging
<1> QED BY <1>3, <1>4, <1>5 DEF HBNext, Watch, Report, PolicyPing, Read, Take, Trip, Die, timers, hbvars

\* _watch polls every 100 ms (aio.py:281-287).
LEMMA NextWatching == TimersTyped /\ Watching /\ [HBNext]_hbvars => Watching'
<1> SUFFICES ASSUME TimersTyped, Watching, [HBNext]_hbvars PROVE Watching'
  OBVIOUS
<1>1. interval \in Nat /\ interval' = interval
  BY Interval, SameSession DEF session
<1>2. rx \in Nat /\ watch_slept \in Nat
  BY HeartbeatAssumption DEF TimersTyped, WatchPoll
<1>3. CASE Watch
  <2>1. connected' => ~Lost
    BY <1>3, Zenon DEF Watch
  <2>2. ~Lost => rx <= 3 * interval
    BY <1>1, <1>2 DEF Lost
  <2> QED BY <1>1, <1>3, <2>1, <2>2 DEF Watch, Watching
<1>4. CASE Elapse
  <2>1. connected /\ watch_slept' = watch_slept + 1 /\ (rx' = rx + 1 \/ rx' = rx)
    BY <1>4 DEF Elapse, Upto
  <2> QED BY <1>1, <1>2, <2>1 DEF Watching
<1>5. CASE Read
  BY <1>1, <1>2, <1>5 DEF Read, Watching
<1>6. CASE UNCHANGED <<rx, watch_slept, connected>>
  BY <1>1, <1>6 DEF Watching
<1> QED BY <1>3, <1>4, <1>5, <1>6 DEF HBNext, Beat, Report, PolicyPing, Take, Trip, Die, timers, hbvars

\* The constants of the timers.
LEMMA Bounds == Late \in Nat /\ Delay \in Nat /\ Period \in Nat
BY HeartbeatAssumption DEF Late, BeatPoll

\* Without the timer there is no ping of it where a watchdog waits.
LEMMA NoTimer == ~heartbeat /\ Watchdog # Never => ~Timing /\ ~Due
BY DEF Watchdog, Timing, Due

\* Time goes on for what is measured as for what it is measured against.
LEMMA OneLater ==
  ASSUME NEW n \in Nat, NEW m \in {n, n + 1}, NEW h \in Nat, NEW d \in Nat, NEW age \in Nat,
         2 * n <= h + 2 * (d + age)
  PROVE  2 * m <= h + 2 * (d + (age + 1))
OBVIOUS

\* A ping or its pong is under way, or the world was heard since the ping was sent.
LEMMA NextHeard == TimersTyped /\ Heard /\ [HBNext]_hbvars => Heard'
<1> SUFFICES ASSUME TimersTyped, Heard, [HBNext]_hbvars, alive', Timing'
             PROVE  \/ Since(rx)'
                    \/ \E i \in DOMAIN from_agent' :
                         from_agent'[i][2] /\ 2 * rx' <= TwiceHeartbeat' + 2 * (Late + from_agent'[i][1])
                    \/ \E i \in DOMAIN from_world' :
                         2 * rx' <= TwiceHeartbeat' + 2 * (Late + Delay + from_world'[i])
  BY DEF Heard, Late, BeatPoll
<1> DEFINE Ping(s, n) ==
             \E i \in DOMAIN s : s[i][2] /\ 2 * n <= TwiceHeartbeat + 2 * (Late + s[i][1])
           Pong(s, n) ==
             \E i \in DOMAIN s : 2 * n <= TwiceHeartbeat + 2 * (Late + Delay + s[i])
<1>1. /\ TwiceHeartbeat \in Nat /\ TwiceHeartbeat' = TwiceHeartbeat /\ Timing /\ interval' = interval
      /\ interval \in Nat /\ TwiceHeartbeat <= 2 * interval
  BY Interval, SameSession DEF session
<1>2. alive
  BY DEF HBNext, Beat, Watch, Report, PolicyPing, Read, Take, Trip, Die, Elapse, hbvars
<1>3. /\ last \in Nat /\ rx \in Nat /\ beat_slept \in 0..Late
      /\ from_agent \in Seq(Messages) /\ from_world \in Seq(Nat)
      /\ \A i \in DOMAIN from_agent : from_agent[i] \in Messages /\ from_agent[i][1] <= Delay
      /\ \A i \in DOMAIN from_world : from_world[i] \in Nat
  BY DEF TimersTyped, Late
<1>4. Since(rx) \/ Ping(from_agent, rx) \/ Pong(from_world, rx)
  BY <1>1, <1>2 DEF Heard
<1> SUFFICES Since(rx)' \/ Ping(from_agent', rx') \/ Pong(from_world', rx')
  BY <1>1
<1> USE Bounds
<1>5. ASSUME NEW ack \in BOOLEAN, Send(ack), UNCHANGED rx, Ping(from_agent, rx)
      PROVE  Ping(from_agent', rx')
  <2>1. <<0, ack>> \in Messages /\ from_agent' = Append(from_agent, <<0, ack>>)
    BY <1>5 DEF Messages, Send
  <2>2. \A i \in DOMAIN from_agent : i \in DOMAIN from_agent' /\ from_agent'[i] = from_agent[i]
    BY <1>3, <2>1, Sent
  <2> QED BY <1>5, <2>2
<1>6. CASE Beat
  <2>1. UNCHANGED <<rx, from_world, interval>> /\ beat_slept' = 0
    BY <1>1, <1>6 DEF Beat
  <2>2. CASE ~Due
    <3>1. UNCHANGED <<last, from_agent>>
      BY <1>6, <2>2 DEF Beat
    <3>2. 2 * last < TwiceHeartbeat
      BY <1>1, <1>3, <2>2 DEF Due, Timing
    <3>3. Since(rx) => Since(rx)'
      BY <1>1, <1>3, <2>1, <3>1, <3>2 DEF Since
    <3> QED BY <1>4, <2>1, <3>1, <3>3
  <2>3. CASE Due
    <3>1. Send(TRUE)
      BY <1>6, <2>3 DEF Beat
    <3>2. Since(rx) => Ping(from_agent', rx')
      <4>1. <<0, TRUE>> \in Messages /\ <<0, TRUE>>[1] = 0 /\ <<0, TRUE>>[2]
        BY DEF Messages
      <4>2. PICK i \in DOMAIN from_agent' : from_agent'[i] = <<0, TRUE>>
        <5>1. from_agent' = Append(from_agent, <<0, TRUE>>)
          BY <3>1 DEF Send
        <5> DEFINE m == <<0, TRUE>>
        <5>2. m \in Messages /\ from_agent \in Seq(Messages)
          BY <1>3, <4>1
        <5> HIDE DEF m
        <5>3. Len(from_agent) + 1 \in DOMAIN Append(from_agent, m) /\ Append(from_agent, m)[Len(from_agent) + 1] = m
          BY <5>2, Sent
        <5> QED BY <5>1, <5>3 DEF m
      <4>3. Since(rx) => 2 * rx <= TwiceHeartbeat + 2 * (Late + 0)
        BY <1>1, <1>3 DEF Since
      <4> QED BY <2>1, <4>1, <4>2, <4>3
    <3> QED BY <1>4, <1>5, <2>1, <3>1, <3>2
  <2> QED BY <2>2, <2>3
<1>7. CASE Report \/ PolicyPing
  <2>1. UNCHANGED <<rx, from_world, last, beat_slept>>
    BY <1>7 DEF Report, PolicyPing, timers
  <2>2. UNCHANGED from_agent \/ Send(TRUE) \/ Send(FALSE)
    BY <1>7 DEF Report, PolicyPing
  <2>3. Since(rx) => Since(rx)'
    BY <1>1, <2>1 DEF Since
  <2>4. Ping(from_agent, rx) => Ping(from_agent', rx')
    BY <1>5, <2>1, <2>2
  <2> QED BY <1>4, <2>1, <2>3, <2>4
<1>8. CASE Read
  <2>1. rx' = 0 /\ UNCHANGED <<last, beat_slept>>
    BY <1>8 DEF Read
  <2> QED BY <1>1, <1>3, <2>1 DEF Since
<1>9. CASE Take
  <2>1. UNCHANGED <<rx, last, beat_slept>> /\ from_agent # <<>> /\ from_agent' = Tail(from_agent)
    BY <1>9 DEF Take, timers
  <2>2. Since(rx) => Since(rx)'
    BY <1>1, <2>1 DEF Since
  <2>3. CASE Pong(from_world, rx)
    <3>1. from_world' = from_world \/ from_world' = Append(from_world, 0)
      BY <1>9 DEF Take
    <3>2. \A i \in DOMAIN from_world : i \in DOMAIN from_world' /\ from_world'[i] = from_world[i]
      <4>1. from_world \in Seq(Nat) /\ 0 \in Nat
        BY <1>3
      <4>2. \A i \in DOMAIN from_world :
              i \in DOMAIN Append(from_world, 0) /\ Append(from_world, 0)[i] = from_world[i]
        BY <4>1, Sent
      <4> QED BY <3>1, <4>2
    <3> QED BY <2>1, <2>3, <3>2
  <2>4. CASE Ping(from_agent, rx)
    <3>1. PICK i \in DOMAIN from_agent :
            from_agent[i][2] /\ 2 * rx <= TwiceHeartbeat + 2 * (Late + from_agent[i][1])
      BY <2>4
    <3>2. CASE i = 1
      <4>1. from_world' = Append(from_world, 0)
        BY <1>2, <1>3, <1>9, <2>1, <3>1, <3>2, Taken DEF Take
      <4>2. PICK j \in DOMAIN from_world' : from_world'[j] = 0
        <5>1. from_world \in Seq(Nat) /\ 0 \in Nat
          BY <1>3
        <5>2. /\ Len(from_world) + 1 \in DOMAIN Append(from_world, 0)
              /\ Append(from_world, 0)[Len(from_world) + 1] = 0
          BY <5>1, Sent
        <5> QED BY <4>1, <5>2
      <4>3. 2 * rx <= TwiceHeartbeat + 2 * (Late + Delay + 0)
        <5>1. from_agent[i][1] \in Nat /\ from_agent[i][1] <= Delay
          BY <1>3 DEF Messages
        <5> QED BY <1>1, <1>3, <3>1, <5>1
      <4> QED BY <2>1, <4>2, <4>3
    <3>3. CASE i # 1
      <4>1. i - 1 \in DOMAIN from_agent' /\ from_agent'[i - 1] = from_agent[i]
        BY <1>3, <2>1, <3>3, Taken
      <4> QED BY <2>1, <3>1, <4>1
    <3> QED BY <3>2, <3>3
  <2> QED BY <1>4, <2>2, <2>3, <2>4
<1>10. CASE Elapse
  <2>1. /\ (rx' = rx \/ rx' = rx + 1) /\ beat_slept' = beat_slept + 1
        /\ last' = IF last < 2 * interval THEN last + 1 ELSE last
    BY <1>10 DEF Elapse, Upto
  <2>2. Since(rx) => Since(rx)'
    BY <1>1, <1>3, <2>1 DEF Since
  <2>3. Ping(from_agent, rx) => Ping(from_agent', rx')
    <3> SUFFICES ASSUME NEW i \in DOMAIN from_agent, from_agent[i][2],
                        2 * rx <= TwiceHeartbeat + 2 * (Late + from_agent[i][1])
                 PROVE  Ping(from_agent', rx')
      OBVIOUS
    <3>1. i \in DOMAIN from_agent' /\ from_agent'[i] = <<from_agent[i][1] + 1, from_agent[i][2]>>
      BY <1>10 DEF Elapse
    <3>2. from_agent[i][1] \in Nat
      BY <1>3 DEF Messages
    <3>3. 2 * rx' <= TwiceHeartbeat + 2 * (Late + (from_agent[i][1] + 1))
      BY <1>1, <1>3, <2>1, <3>2, OneLater
    <3>4. from_agent'[i][2] /\ from_agent'[i][1] = from_agent[i][1] + 1
      BY <3>1
    <3> QED BY <3>1, <3>3, <3>4
  <2>4. Pong(from_world, rx) => Pong(from_world', rx')
    <3> SUFFICES ASSUME NEW i \in DOMAIN from_world,
                        2 * rx <= TwiceHeartbeat + 2 * (Late + Delay + from_world[i])
                 PROVE  Pong(from_world', rx')
      OBVIOUS
    <3>1. i \in DOMAIN from_world' /\ from_world'[i] = from_world[i] + 1
      BY <1>10 DEF Elapse
    <3>2. Late + Delay \in Nat /\ from_world[i] \in Nat
      <4>1. from_world[i] \in Nat
        BY <1>3
      <4>2. \A m, n \in Nat : m + n \in Nat
        OBVIOUS
      <4> QED BY <4>1, <4>2, Bounds
    <3>3. 2 * rx' <= TwiceHeartbeat + 2 * (Late + Delay + (from_world[i] + 1))
      BY <1>1, <1>3, <2>1, <3>2, OneLater
    <3> QED BY <3>1, <3>3
  <2> QED BY <1>4, <2>2, <2>3, <2>4
<1>11. CASE UNCHANGED <<rx, last, beat_slept, from_agent, from_world>>
  <2>1. Since(rx) => Since(rx)'
    BY <1>1, <1>11 DEF Since
  <2> QED BY <1>4, <1>11, <2>1
<1> QED BY <1>6, <1>7, <1>8, <1>9, <1>10, <1>11 DEF HBNext, Watch, Trip, Die, timers, net, hbvars

\* What the world measures.
LEMMA NextCounting == TimersTyped /\ Counting /\ [HBNext]_hbvars => Counting'
<1> SUFFICES ASSUME TimersTyped, Counting, [HBNext]_hbvars PROVE Counting'
  OBVIOUS
<1>1. Watchdog # Never => quiet' <= Watchdog + 1
  <2> SUFFICES ASSUME Watchdog # Never PROVE quiet' <= Watchdog + 1
    OBVIOUS
  <2>1. Watchdog \in Nat /\ quiet \in Nat /\ quiet <= Watchdog + 1
    BY Interval DEF TimersTyped, Counting
  <2>2. CASE Elapse
    BY <2>1, <2>2 DEF Elapse, Upto
  <2>3. CASE quiet' = quiet \/ quiet' = 0
    BY <2>1, <2>3
  <2> QED BY <2>2, <2>3 DEF HBNext, Beat, Watch, Report, PolicyPing, Read, Take, Trip, Die, hbvars
<1>2. heartbeat => idle' = 0
  BY DEF Counting, HBNext, Beat, Watch, Report, PolicyPing, Read, Take, Trip, Die, Elapse, hbvars
<1>3. tripped' => Watchdog # Never
  BY DEF Counting, HBNext, Beat, Watch, Report, PolicyPing, Read, Take, Trip, Tripping, Die, Elapse, hbvars
<1> QED BY <1>1, <1>2, <1>3, SameSession DEF Counting, session

\* What is under way, and what the world heard last, is as old as the policy's last ping or as
\* the one report that followed it (aio.py:44-48, 290-297).
LEMMA NextPolicyAlone == TimersTyped /\ Counting /\ PolicyAlone /\ [HBNext]_hbvars => PolicyAlone'
<1> SUFFICES ASSUME TimersTyped, Counting, PolicyAlone, [HBNext]_hbvars,
                    ~heartbeat, Watchdog # Never, Sparse, ~tripped'
             PROVE  /\ \A i \in DOMAIN from_agent' :
                         idle' <= from_agent'[i][1] \/ (OneReport' /\ report_slept' <= from_agent'[i][1])
                    /\ idle' <= Delay + quiet' \/ (OneReport' /\ report_slept' <= Delay + quiet')
  BY SameSession DEF PolicyAlone, session, Sparse, Patience
<1>1. ~tripped
  BY DEF HBNext, Beat, Watch, Report, PolicyPing, Read, Take, Trip, Die, Elapse, hbvars
<1>2. /\ \A i \in DOMAIN from_agent :
           idle <= from_agent[i][1] \/ (OneReport /\ report_slept <= from_agent[i][1])
      /\ idle <= Delay + quiet \/ (OneReport /\ report_slept <= Delay + quiet)
  BY <1>1 DEF PolicyAlone
<1>3. /\ idle \in Nat /\ quiet \in Nat /\ report_slept \in Nat /\ Delay \in Nat
      /\ Watchdog \in Nat /\ quiet <= Watchdog + 1
      /\ from_agent \in Seq(Messages)
      /\ \A i \in DOMAIN from_agent : from_agent[i][1] \in Nat /\ from_agent[i][1] <= Delay
  <2>1. \A i \in DOMAIN from_agent : from_agent[i] \in Messages
    BY DEF TimersTyped
  <2> QED BY <2>1, Bounds, Interval DEF TimersTyped, Messages, Counting
<1>4. Patience \in Nat /\ Patience = Watchdog + Delay + 1
  BY <1>3 DEF Patience
<1>5. reports' = reports /\ Patience' = Patience
  BY SameSession DEF session, Patience
<1>6. ASSUME NEW ack \in BOOLEAN, Send(ack), NEW i \in DOMAIN from_agent'
      PROVE  from_agent'[i][1] \in Nat /\ (i \in DOMAIN from_agent => from_agent'[i] = from_agent[i])
  <2> DEFINE m == <<0, ack>>
  <2>1. m \in Messages /\ m[1] = 0 /\ from_agent' = Append(from_agent, m)
    BY <1>6 DEF Messages, Send
  <2> HIDE DEF m
  <2>2. from_agent'[i] = m \/ i \in DOMAIN from_agent
    BY <1>3, <1>6, <2>1, Sent
  <2>3. i \in DOMAIN from_agent => from_agent'[i] = from_agent[i]
    BY <1>3, <1>6, <2>1, Sent
  <2> QED BY <1>3, <2>1, <2>2, <2>3
<1>7. CASE PolicyPing
  <2>1. idle' = 0 /\ Send(TRUE) /\ UNCHANGED quiet
    BY <1>7 DEF PolicyPing
  <2>2. \A i \in DOMAIN from_agent' : from_agent'[i][1] \in Nat
    BY <1>6, <2>1
  <2> QED BY <1>3, <2>1, <2>2
<1>8. CASE Report
  <2>1. /\ reports # Never /\ report_slept >= reports /\ report_slept' = 0
        /\ UNCHANGED <<idle, quiet>> /\ Send(FALSE)
    BY <1>8 DEF Report, Watchdog
  <2>2. reports \in Nat /\ reports > Patience
    BY <2>1, HeartbeatAssumption DEF TimersTyped, Sparse
  <2>3. idle <= Patience
    BY <1>2, <1>3, <1>4, <2>1, <2>2
  <2>4. OneReport'
    BY <1>3, <1>4, <1>5, <2>1, <2>3 DEF OneReport
  <2>5. \A i \in DOMAIN from_agent' : from_agent'[i][1] \in Nat
    BY <1>6, <2>1
  <2> QED BY <1>3, <2>1, <2>4, <2>5
<1>9. CASE Take
  <2>1. UNCHANGED <<idle, report_slept>> /\ quiet' = 0 /\ from_agent # <<>> /\ from_agent' = Tail(from_agent)
    BY <1>9 DEF Take, timers
  <2>2. \A i \in DOMAIN from_agent' : i + 1 \in DOMAIN from_agent /\ from_agent'[i] = from_agent[i + 1]
    BY <1>3, <2>1, Taken
  <2>3. OneReport' = OneReport
    BY <1>5, <2>1 DEF OneReport
  <2>4. idle <= Delay \/ (OneReport /\ report_slept <= Delay)
    <3>1. 1 \in DOMAIN from_agent
      BY <1>3, <2>1, Taken
    <3> QED BY <1>2, <1>3, <3>1
  <2> QED BY <1>2, <1>3, <2>1, <2>2, <2>3, <2>4
<1>10. CASE Elapse
  <2>1. idle' = idle \/ idle' = idle + 1
    BY <1>10 DEF Elapse, Upto
  <2>2. reports # Never => report_slept' = report_slept + 1
    BY <1>10 DEF Elapse
  <2>3. OneReport => OneReport' /\ report_slept' = report_slept + 1
    BY <1>3, <1>4, <1>5, <2>1, <2>2 DEF OneReport
  <2>4. ASSUME NEW i \in DOMAIN from_agent'
        PROVE  idle' <= from_agent'[i][1] \/ (OneReport' /\ report_slept' <= from_agent'[i][1])
    <3>1. i \in DOMAIN from_agent /\ from_agent'[i] = <<from_agent[i][1] + 1, from_agent[i][2]>>
      BY <1>10 DEF Elapse
    <3>2. from_agent'[i][1] = from_agent[i][1] + 1 /\ from_agent[i][1] \in Nat
      BY <1>3, <3>1
    <3>3. idle <= from_agent[i][1] \/ (OneReport /\ report_slept <= from_agent[i][1])
      BY <1>2, <3>1
    <3> QED BY <1>3, <2>1, <2>3, <3>2, <3>3
  <2>5. quiet' = quiet + 1
    <3>1. ~(quiet > Watchdog)
      BY <1>1, <1>10 DEF Elapse, Tripping
    <3> QED BY <1>3, <1>10, <3>1 DEF Elapse, Upto
  <2> QED BY <1>2, <1>3, <2>1, <2>3, <2>4, <2>5
<1>11. CASE UNCHANGED <<idle, quiet, from_agent, report_slept>>
  <2>1. OneReport' = OneReport
    BY <1>5, <1>11 DEF OneReport
  <2> QED BY <1>2, <1>11, <2>1
<1>12. Beat \/ Trip => UNCHANGED <<idle, quiet, from_agent, report_slept>>
  BY NoTimer DEF Beat, Trip, timers, net
<1> QED BY <1>7, <1>8, <1>9, <1>10, <1>11, <1>12 DEF HBNext, Watch, Read, Die, timers, net, hbvars

\* Every step preserves the invariant.
LEMMA NextIInv == IInv /\ [HBNext]_hbvars => IInv'
BY NextTyped, NextPinging, NextWatching, NextHeard, NextPolicyAlone, NextCounting DEF IInv

-----------------------------------------------------------------------------
(* What the timers promise                                                 *)

\* The invariant holds throughout.
THEOREM Invariant == HBSpec => []IInv
<1>1. HBInit => IInv
  BY InitWInv DEF WInv
<1> QED BY <1>1, NextIInv, PTL DEF HBSpec

\* "Three heartbeat intervals without any message from the world is loss": noticed at the
\* next poll, whatever the delays (aio.py:276-287).
LEMMA SilenceIsNoticed == IInv => SilenceNoticed
<1> SUFFICES ASSUME IInv, connected PROVE rx <= Longest
  BY DEF SilenceNoticed
<1>1. rx \in Nat /\ watch_slept \in Nat /\ watch_slept <= WatchPoll + Lag /\ interval \in Nat /\ Lag \in Nat
  BY Interval, HeartbeatAssumption DEF IInv, TimersTyped, WatchPoll
<1> QED BY <1>1 DEF IInv, Watching, Longest, WatchPoll

\* The same of every behaviour.
THEOREM SilenceNoticedCorrect == HBSpec => []SilenceNoticed
BY SilenceIsNoticed, Invariant, PTL

\* Once the policy stalls for longer than the watchdog waits, the world is in the safe state
\* if the agent sends no reports, and one report later if they are further apart than the
\* watchdog is patient: no timer holds the watchdog off otherwise (aio.py:44-48, 290-297).
THEOREM StalledPolicyTripsCorrect == HBSpec => []StalledPolicyTrips
<1>1. IInv => StalledPolicyTrips
  <2> SUFFICES ASSUME IInv, Watchdog # Never, ~tripped, Sparse
               PROVE  /\ reports = Never => idle <= Patience
                      /\ reports # Never => idle <= 2 * Patience
    BY DEF StalledPolicyTrips, Sparse
  <2>1. /\ Watchdog \in Nat /\ idle \in Nat /\ quiet \in Nat /\ report_slept \in Nat
        /\ quiet <= Watchdog + 1 /\ Patience = Watchdog + Delay + 1
    BY Interval DEF IInv, TimersTyped, Counting, Patience
  <2>2. CASE heartbeat
    BY <2>1, <2>2, Bounds DEF IInv, Counting
  <2>3. CASE ~heartbeat
    <3>1. idle <= Delay + quiet \/ (OneReport /\ report_slept <= Delay + quiet)
      BY <2>3 DEF IInv, PolicyAlone
    <3> QED BY <2>1, <3>1, Bounds DEF OneReport
  <2> QED BY <2>2, <2>3
<1> QED BY <1>1, Invariant, PTL

\* A world that answers is not taken for lost, and a lost one is noticed, if two intervals are
\* enough for the poll, a late event loop and a round trip (aio.py:263-287).
THEOREM HeartbeatInvCorrect == ASSUME Prompt PROVE HBSpec => []HBInv
<1>1. TimersTyped /\ Heard /\ alive /\ Timing => rx <= 3 * interval
  <2> SUFFICES ASSUME TimersTyped, Heard, alive, Timing PROVE rx <= 3 * interval
    OBVIOUS
  <2>1. /\ interval \in Nat /\ TwiceHeartbeat \in Nat /\ TwiceHeartbeat <= 2 * interval
        /\ Late + 2 * Delay <= 2 * interval /\ rx \in Nat /\ beat_slept \in 0..Late
        /\ \A i \in DOMAIN from_world : from_world[i] \in Nat /\ from_world[i] <= Delay
    BY Interval DEF TimersTyped, Prompt, Late
  <2>2. \A i \in DOMAIN from_agent : from_agent[i][1] \in Nat /\ from_agent[i][1] <= Delay
    <3>1. \A i \in DOMAIN from_agent : from_agent[i] \in Messages
      BY DEF TimersTyped
    <3> QED BY <3>1 DEF TimersTyped, Messages
  <2>3. CASE Since(rx)
    BY <2>1, <2>3, Bounds DEF Since
  <2>4. ASSUME NEW i \in DOMAIN from_agent, 2 * rx <= TwiceHeartbeat + 2 * (Late + from_agent[i][1])
        PROVE  rx <= 3 * interval
    BY <2>1, <2>2, <2>4, Bounds
  <2>5. ASSUME NEW i \in DOMAIN from_world, 2 * rx <= TwiceHeartbeat + 2 * (Late + Delay + from_world[i])
        PROVE  rx <= 3 * interval
    BY <2>1, <2>5, Bounds
  <2> QED BY <2>3, <2>4, <2>5 DEF Heard
<1>2. HBInit => AliveIsNotLost
  BY DEF HBInit, AliveIsNotLost
<1>3. IInv /\ AliveIsNotLost /\ [HBNext]_hbvars => AliveIsNotLost'
  <2> SUFFICES ASSUME IInv, AliveIsNotLost, [HBNext]_hbvars, alive', Timing' PROVE connected'
    BY DEF AliveIsNotLost, Timing
  <2>1. alive /\ Timing
    BY SameSession DEF HBNext, Beat, Watch, Report, PolicyPing, Read, Take, Trip, Die, Elapse, hbvars
  <2>2. connected
    BY <2>1 DEF AliveIsNotLost, Timing
  <2>3. ~Lost
    BY <1>1, <2>1, Interval DEF IInv, TimersTyped, Lost
  <2> QED BY <2>2, <2>3 DEF HBNext, Beat, Watch, Report, PolicyPing, Read, Take, Trip, Die, Elapse, hbvars
<1>4. IInv /\ AliveIsNotLost => HBInv
  <2>1. IInv => HBTypeOK
    <3> SUFFICES ASSUME IInv PROVE HBTypeOK
      OBVIOUS
    <3>1. Timing => 2 * last <= TwiceHeartbeat + 2 * (BeatPoll + Lag)
      <4>1. last \in Nat /\ beat_slept \in Nat /\ beat_slept <= BeatPoll + Lag /\ BeatPoll + Lag \in Nat
        BY HeartbeatAssumption DEF IInv, TimersTyped, BeatPoll
      <4> QED BY <4>1, Interval DEF IInv, Pinging
    <3> QED BY <3>1 DEF IInv, TimersTyped, HBTypeOK, Timing
  <2> QED BY <2>1, SilenceIsNoticed DEF HBInv
<1> QED BY <1>2, <1>3, <1>4, Invariant, PTL DEF HBSpec

-----------------------------------------------------------------------------
(* The world's watchdog                                                    *)

\* What holds the watchdog off, as long as nothing has tripped it.
LEMMA QuietBounded ==
  ASSUME Timely, TimersTyped, Watchdog # Never,
         \/ heartbeat /\ WorldHeard
         \/ ~heartbeat /\ PolicyHeard /\ idle <= Period
  PROVE  ~tripped /\ quiet <= Watchdog
<1>1. /\ Watchdog \in Nat /\ TwiceHeartbeat \in Nat /\ TwiceHeartbeat <= Watchdog
      /\ 2 * (Late + Delay) <= Watchdog /\ Period + Delay <= Watchdog
      /\ quiet \in Nat /\ idle \in Nat /\ beat_slept \in 0..Late
  BY Interval DEF TimersTyped, Timely, Late
<1>2. \A i \in DOMAIN from_agent : from_agent[i][1] \in Nat /\ from_agent[i][1] <= Delay
  <2>1. \A i \in DOMAIN from_agent : from_agent[i] \in Messages
    BY DEF TimersTyped
  <2> QED BY <2>1 DEF TimersTyped, Messages
<1>3. CASE heartbeat /\ WorldHeard
  <2>1. CASE Since(quiet)
    BY <1>1, <1>3, <2>1, Bounds DEF Since, WorldHeard
  <2>2. ASSUME NEW i \in DOMAIN from_agent, 2 * quiet <= TwiceHeartbeat + 2 * (Late + from_agent[i][1])
        PROVE  quiet <= Watchdog
    BY <1>1, <1>2, <2>2, Bounds
  <2> QED BY <1>3, <2>1, <2>2 DEF WorldHeard
<1>4. CASE ~heartbeat /\ PolicyHeard /\ idle <= Period
  <2>1. ~tripped /\ (quiet <= idle \/ \E i \in DOMAIN from_agent : quiet <= Period + from_agent[i][1])
    BY <1>4 DEF PolicyHeard
  <2> QED BY <1>1, <1>2, <1>4, <2>1, Bounds
<1> QED BY <1>3, <1>4

\* Only the watchdog's end is the safe state.
LEMMA NoTrip ==
  ASSUME [HBNext]_hbvars, ~tripped, Watchdog \in Nat, quiet \in Nat, quiet <= Watchdog
  PROVE  ~tripped'
<1>1. ~Trip
  BY DEF Trip, Tripping
<1> QED BY <1>1 DEF HBNext, Beat, Watch, Report, PolicyPing, Read, Take, Die, Elapse, hbvars

\* The timer's pings reach the world in time (client.py:258-263).
LEMMA NextWorldHeard == ASSUME Timely, TimersTyped, WorldHeard, [HBNext]_hbvars PROVE WorldHeard'
<1> SUFFICES ASSUME heartbeat, Watchdog # Never
             PROVE  /\ ~tripped'
                    /\ \/ Since(quiet)'
                       \/ \E i \in DOMAIN from_agent' :
                            2 * quiet' <= TwiceHeartbeat' + 2 * (Late + from_agent'[i][1])
  BY SameSession DEF WorldHeard, session, Late, BeatPoll
<1> DEFINE Under(s, n) == \E i \in DOMAIN s : 2 * n <= TwiceHeartbeat + 2 * (Late + s[i][1])
<1>1. /\ TwiceHeartbeat \in Nat /\ TwiceHeartbeat' = TwiceHeartbeat /\ interval' = interval
      /\ interval \in Nat /\ TwiceHeartbeat <= 2 * interval /\ Watchdog \in Nat /\ Timing
  BY Interval, SameSession DEF session, Timing
<1>2. /\ last \in Nat /\ quiet \in Nat /\ beat_slept \in 0..Late /\ from_agent \in Seq(Messages)
      /\ \A i \in DOMAIN from_agent : from_agent[i] \in Messages
  BY DEF TimersTyped, Late
<1>3. ~tripped /\ quiet <= Watchdog /\ (Since(quiet) \/ Under(from_agent, quiet))
  BY QuietBounded DEF WorldHeard
<1>4. ~tripped'
  BY <1>3, <1>1, <1>2, NoTrip
<1> SUFFICES Since(quiet)' \/ Under(from_agent', quiet')
  BY <1>1, <1>4
<1> USE Bounds
<1>5. ASSUME NEW ack \in BOOLEAN, Send(ack), UNCHANGED quiet
      PROVE  /\ Under(from_agent, quiet) => Under(from_agent', quiet')
             /\ 2 * quiet <= TwiceHeartbeat + 2 * Late => Under(from_agent', quiet')
  <2> DEFINE m == <<0, ack>>
  <2>1. m \in Messages /\ m[1] = 0 /\ from_agent' = Append(from_agent, m)
    BY <1>5 DEF Messages, Send
  <2> HIDE DEF m
  <2>2. \A i \in DOMAIN from_agent : i \in DOMAIN from_agent' /\ from_agent'[i] = from_agent[i]
    BY <1>2, <2>1, Sent
  <2>3. Len(from_agent) + 1 \in DOMAIN from_agent' /\ from_agent'[Len(from_agent) + 1] = m
    BY <1>2, <2>1, Sent
  <2>4. 2 * quiet <= TwiceHeartbeat + 2 * Late => Under(from_agent', quiet')
    BY <1>1, <1>2, <1>5, <2>1, <2>3
  <2> QED BY <1>5, <2>2, <2>4
<1>6. CASE Beat
  <2>1. UNCHANGED <<quiet, interval>> /\ beat_slept' = 0
    BY <1>1, <1>6 DEF Beat
  <2>2. CASE ~Due
    <3>1. UNCHANGED <<last, from_agent>>
      BY <1>6, <2>2 DEF Beat
    <3>2. 2 * last < TwiceHeartbeat
      BY <1>1, <1>2, <2>2 DEF Due, Timing
    <3>3. Since(quiet) => Since(quiet)'
      BY <1>1, <1>2, <2>1, <3>1, <3>2 DEF Since
    <3> QED BY <1>3, <2>1, <3>1, <3>3
  <2>3. CASE Due
    <3>1. Send(TRUE)
      BY <1>6, <2>3 DEF Beat
    <3>2. Since(quiet) => 2 * quiet <= TwiceHeartbeat + 2 * Late
      BY <1>1, <1>2 DEF Since
    <3> QED BY <1>3, <1>5, <2>1, <3>1, <3>2
  <2> QED BY <2>2, <2>3
<1>7. CASE Report \/ PolicyPing
  <2>1. UNCHANGED <<quiet, last, beat_slept>>
    BY <1>7 DEF Report, PolicyPing, timers
  <2>2. UNCHANGED from_agent \/ Send(TRUE) \/ Send(FALSE)
    BY <1>7 DEF Report, PolicyPing
  <2>3. Since(quiet) => Since(quiet)'
    BY <1>1, <2>1 DEF Since
  <2>4. Under(from_agent, quiet) => Under(from_agent', quiet')
    BY <1>5, <2>1, <2>2
  <2> QED BY <1>3, <2>3, <2>4
<1>8. CASE Take
  <2>1. quiet' = 0 /\ UNCHANGED <<last, beat_slept>>
    BY <1>8 DEF Take, timers
  <2> QED BY <1>1, <1>2, <2>1 DEF Since
<1>9. CASE Elapse
  <2>1. /\ (quiet' = quiet \/ quiet' = quiet + 1) /\ beat_slept' = beat_slept + 1
        /\ last' = IF last < 2 * interval THEN last + 1 ELSE last
    BY <1>9 DEF Elapse, Upto
  <2>2. Since(quiet) => Since(quiet)'
    BY <1>1, <1>2, <2>1 DEF Since
  <2>3. Under(from_agent, quiet) => Under(from_agent', quiet')
    <3> SUFFICES ASSUME NEW i \in DOMAIN from_agent,
                        2 * quiet <= TwiceHeartbeat + 2 * (Late + from_agent[i][1])
                 PROVE  Under(from_agent', quiet')
      OBVIOUS
    <3>1. i \in DOMAIN from_agent' /\ from_agent'[i][1] = from_agent[i][1] + 1
      BY <1>9 DEF Elapse
    <3>2. from_agent[i][1] \in Nat
      BY <1>2 DEF Messages
    <3>3. 2 * quiet' <= TwiceHeartbeat + 2 * (Late + (from_agent[i][1] + 1))
      BY <1>1, <1>2, <2>1, <3>2, OneLater
    <3> QED BY <3>1, <3>3
  <2> QED BY <1>3, <2>2, <2>3
<1>10. CASE UNCHANGED <<quiet, last, beat_slept, from_agent>>
  <2>1. Since(quiet) => Since(quiet)'
    BY <1>1, <1>10 DEF Since
  <2> QED BY <1>3, <1>10, <2>1
<1> QED BY <1>6, <1>7, <1>8, <1>9, <1>10 DEF HBNext, Watch, Read, Trip, Die, timers, net, hbvars

\* So do those of a policy that acts (aio.py:44-48).
LEMMA NextPolicyHeard == ASSUME Timely, TimersTyped, PolicyHeard, [HBNext]_hbvars PROVE PolicyHeard'
<1> SUFFICES ASSUME ~heartbeat, Watchdog # Never, idle' <= Period
             PROVE  /\ ~tripped'
                    /\ \/ quiet' <= idle'
                       \/ \E i \in DOMAIN from_agent' : quiet' <= Period + from_agent'[i][1]
  BY SameSession DEF PolicyHeard, session
<1> USE Bounds
<1>1. Watchdog \in Nat /\ idle \in Nat /\ quiet \in Nat /\ from_agent \in Seq(Messages)
  BY Interval DEF TimersTyped
<1>2. idle <= Period
  <2>1. CASE PolicyPing
    BY <2>1 DEF PolicyPing
  <2>2. CASE Elapse
    <3>1. idle' = Upto(idle, Stalled)
      BY <2>2 DEF Elapse
    <3> QED BY <1>1, <3>1 DEF Upto
  <2> QED BY <2>1, <2>2 DEF HBNext, Beat, Watch, Report, Read, Take, Trip, Die, hbvars
<1> DEFINE Under(s, n) == \E i \in DOMAIN s : n <= Period + s[i][1]
<1>3. ~tripped /\ quiet <= Watchdog /\ (quiet <= idle \/ Under(from_agent, quiet))
  BY <1>2, QuietBounded DEF PolicyHeard
<1>4. ~tripped'
  BY <1>3, <1>1, NoTrip
<1> SUFFICES quiet' <= idle' \/ Under(from_agent', quiet')
  BY <1>4
<1>5. ASSUME NEW ack \in BOOLEAN, Send(ack), UNCHANGED quiet
      PROVE  Under(from_agent', quiet')
  <2> DEFINE m == <<0, ack>>
  <2>1. m \in Messages /\ m[1] = 0 /\ from_agent' = Append(from_agent, m)
    BY <1>5 DEF Messages, Send
  <2> HIDE DEF m
  <2>2. \A i \in DOMAIN from_agent : i \in DOMAIN from_agent' /\ from_agent'[i] = from_agent[i]
    BY <1>1, <2>1, Sent
  <2>3. Len(from_agent) + 1 \in DOMAIN from_agent' /\ from_agent'[Len(from_agent) + 1] = m
    BY <1>1, <2>1, Sent
  <2>4. quiet <= Period => Under(from_agent', quiet')
    BY <1>1, <1>5, <2>1, <2>3
  <2> QED BY <1>1, <1>2, <1>3, <1>5, <2>2, <2>4
<1>6. CASE Beat
  BY <1>3, <1>5, <1>6, NoTimer DEF Beat
<1>7. CASE Report \/ PolicyPing
  <2>1. UNCHANGED quiet /\ (Send(TRUE) \/ Send(FALSE) \/ UNCHANGED <<from_agent, idle>>)
    BY <1>7 DEF Report, PolicyPing
  <2> QED BY <1>3, <1>5, <2>1
<1>8. CASE Take
  BY <1>1, <1>8 DEF Take
<1>9. CASE Elapse
  <2>1. quiet' = quiet \/ quiet' = quiet + 1
    BY <1>9 DEF Elapse, Upto
  <2>2. idle' = idle + 1
    <3>1. idle' = Upto(idle, Stalled)
      BY <1>9 DEF Elapse
    <3>2. Stalled \in Nat /\ Stalled > Period
      BY <1>1 DEF Stalled
    <3> QED BY <1>1, <1>2, <3>1, <3>2 DEF Upto
  <2>3. Under(from_agent, quiet) => Under(from_agent', quiet')
    <3> SUFFICES ASSUME NEW i \in DOMAIN from_agent, quiet <= Period + from_agent[i][1]
                 PROVE  Under(from_agent', quiet')
      OBVIOUS
    <3>1. i \in DOMAIN from_agent' /\ from_agent'[i][1] = from_agent[i][1] + 1
      BY <1>9 DEF Elapse
    <3>2. from_agent[i] \in Messages
      BY <1>1
    <3>3. quiet' <= Period + (from_agent[i][1] + 1)
      BY <1>1, <2>1, <3>2 DEF Messages
    <3> QED BY <3>1, <3>3
  <2> QED BY <1>1, <1>3, <2>1, <2>2, <2>3
<1>10. CASE UNCHANGED <<quiet, idle, from_agent>>
  BY <1>3, <1>10
<1> QED BY <1>6, <1>7, <1>8, <1>9, <1>10 DEF HBNext, Watch, Read, Trip, Die, timers, net, hbvars

\* While the timer or the policy pings, the world does not enter the safe state, if the
\* watchdog's period leaves room for polling, a late event loop and a message
\* (client.py:258-263).
THEOREM WatchdogHeldOffCorrect == ASSUME Timely PROVE HBSpec => []WatchdogHeldOff
<1>1. HBInit => WInv
  BY InitWInv
<1>2. WInv /\ [HBNext]_hbvars => WInv'
  BY NextIInv, NextWorldHeard, NextPolicyHeard DEF WInv, IInv
<1>3. WInv => WatchdogHeldOff
  <2> SUFFICES ASSUME WInv, tripped PROVE idle > Period
    BY DEF WatchdogHeldOff
  <2>1. Watchdog # Never
    BY DEF WInv, IInv, Counting
  <2>2. ~heartbeat /\ ~(idle <= Period)
    BY <2>1 DEF WInv, WorldHeard, PolicyHeard
  <2>3. idle \in Nat
    BY DEF WInv, IInv, TimersTyped
  <2> QED BY <2>2, <2>3, Bounds
<1> QED BY <1>1, <1>2, <1>3, PTL DEF HBSpec

-----------------------------------------------------------------------------
(* The inductive invariant of Recovery, in parts                           *)

\* What an action is that the world knows.
Running == {"executing", "far"} \union Terminal

StateOK(about, state) ==
  /\ about \in {None} \union Moves
  /\ about # None => state \in Running

\* What is asked of the world, and what the world says.
RequestOK(r) ==
  /\ r.method \in {"open", "ping", "submit", "initialize", "resume", "cancel", "close"}
  /\ r.method \in {"submit", "cancel"} => r.id \in Moves
  /\ r.method = "resume" => r.token \in 1..MaxSessions /\ r.last \in Nat

MessageOK(m) ==
  /\ m.kind \in {"result", "error", "status", "frame", "range"}
  /\ m.kind = "result" => m.method \in {"open", "ping", "initialize", "resume", "close"}
  /\ m.kind = "result" /\ m.method = "open" => m.token \in 1..MaxSessions
  /\ m.kind = "result" /\ m.method = "resume" => m.replay_to \in Nat
  /\ m.kind = "error" => m.method \in {"submit", "resume"}
  /\ m.kind = "status" =>
       /\ m.method \in {None, "submit", "cancel"}
       /\ m.seq \in Nat \ {0} /\ StateOK(m.about, m.state)
       /\ m.about = None => m.state \in {"ready", "active", "closed"} /\ m.method = None

\* The log holds what the world has said of the session.
EntryOK(e) ==
  /\ StateOK(e.about, e.state)
  /\ e.about = None => e.state \in {"ready", "active"}

\* A sequence, of whatever.
IsSeq(s) == s = [i \in 1..Len(s) |-> s[i]] /\ Len(s) \in Nat

\* Types, of what is under way as well, and what each label of the program goes with.
Typed ==
  /\ TypeOK
  /\ act \in [Moves -> {None, "gone"} \union Running]
  /\ held \in {None} \union 1..MaxSessions /\ sessions \in 0..MaxSessions /\ losses \in Nat
  /\ attached \in BOOLEAN
  /\ IsSeq(to_world) /\ IsSeq(to_agent) /\ IsSeq(log)
  /\ \A i \in DOMAIN to_world : RequestOK(to_world[i])
  /\ \A i \in DOMAIN to_agent : MessageOK(to_agent[i])
  /\ \A k \in DOMAIN log : EntryOK(log[k])
  /\ move > CancelledMove => pc \in {"moving", "closing"} \union Ends
  /\ move = 0 => pc \in {"opening", "sampling"} \union Ends
  /\ pc = "resuming" => live # None
  /\ held = None => ~attached /\ log = <<>>

Response(m) == m.kind \in {"result", "error"} \/ (m.kind = "status" /\ m.method # None)

\* A call is awaited.
Awaited(method) == pc \in Answers(method) /\ future = "pending"

\* A request that is not answered yet is the one that is awaited; the others say goodbye.
RequestTrue(r) ==
  /\ r.method \in {"open", "resume"} => conn = "up" /\ to_agent = <<>> /\ ~attached
  /\ r.method = "open" => ready = None
  /\ r.method = "resume" => r.token = ready /\ r.last = last_status_seq
  /\ r.method = "submit" => r.id = move /\ act[move] = None
  /\ r.method = "cancel" => r.id = move /\ held # None /\ act[move] \in Running

\* Requests are outstanding one at a time: while the connection lives, the one that is awaited.
Asked ==
  \A i \in DOMAIN to_world :
    /\ to_world[i].method # "close" \/ conn = "up" => i = 1 /\ Awaited(to_world[i].method)
    /\ conn = "up" => \A j \in DOMAIN to_agent : ~Response(to_agent[j])
    /\ RequestTrue(to_world[i])

\* A result, and a refusal.
IsResult(m, method) == m.kind = "result" /\ m.method = method
IsError(m, method) == m.kind = "error" /\ m.method = method

\* So is the request that an answer is under way to.
AnswerTrue(m, i) ==
  /\ Awaited(m.method)
  /\ m.method \in {"open", "resume"} => i = 1
  /\ IsResult(m, "open") => m.token = held /\ attached
  /\ IsResult(m, "resume") => attached
  /\ IsError(m, "resume") => ~attached /\ held = None
  /\ IsResult(m, "close") => held = None
  /\ m.method = "submit" => IF m.kind = "error" THEN move = RefusedMove ELSE act[move] \in Running

\* So are answers.
OneAnswer ==
  conn = "up" =>
    \A i \in DOMAIN to_agent :
      Response(to_agent[i]) =>
        /\ AnswerTrue(to_agent[i], i)
        /\ \A j \in DOMAIN to_agent : Response(to_agent[j]) => j = i

Serving == {"sampling", "moving", "waiting", "watching", "cancelling", "stopping", "live", "settling"}

\* When the session is on the connection: as long as the program uses it.
Attached ==
  /\ conn = "down" => ~attached
  /\ conn = "up" /\ (pc \in Serving \/ (pc \in {"opening", "resuming"} /\ future = "done")) => attached
  /\ pc = "initializing" => ~attached
  /\ pc = "resuming" /\ future = "refused" => ~attached /\ held = None /\ ready = None
  /\ pc = "connecting" => conn = "down" /\ session_state = "suspended"
  /\ conn = "up" /\ ~attached /\ pc \notin {"closing"} \union Ends =>
       \A i \in DOMAIN to_agent : to_agent[i].kind \in {"result", "error"}
  /\ conn = "up" => \A i \in DOMAIN to_agent :
       to_agent[i].kind = "status" /\ to_agent[i].state = "closed" => pc \in {"closing"} \union Ends /\ held = None
  /\ ready # None => held \in {None, ready}
  /\ future = "refused" => pc = "resuming" \/ (pc = "moving" /\ move = RefusedMove)

\* From the result of session.open on there is a session, on a live connection one that is not closed.
Phase == pc \in Serving \union {"connecting", "initializing"} \/ (pc = "opening" /\ future = "done")
          \/ (pc = "resuming" /\ future # "refused")

Held ==
  /\ Phase /\ session_state # "closed" => ready # None
  /\ Phase /\ conn = "up" => ready # None /\ session_state # "closed"

Placed ==
  \/ pc \in {"waiting", "connecting", "initializing", "resuming", "live", "settling"}
  \/ pc \in {"opening", "sampling"} /\ move # 0
  \/ pc = "moving" /\ future = "done"

\* The move that the program is at is the last that was submitted, and the one that goes on.
Moved ==
  /\ \A id \in Moves : act[id] \in {"executing", "far"} => id = move /\ held # None
  /\ \A id \in Moves : act[id] # None => id <= move
  /\ pc \in {"opening", "sampling"} => \A id \in Moves : act[id] \notin {"executing", "far"}
  /\ Placed => act[move] # None
  /\ conn = "up" /\ (pc = "watching" \/ (pc = "moving" /\ future = "done")) => act[move] \in Running

\* What was said of an action that ended is its end, and nothing else was said after.
LogTrue ==
  /\ \A k \in DOMAIN log : log[k].about # None /\ log[k].state \in Terminal => act[log[k].about] = log[k].state
  /\ \A j, k \in DOMAIN log : j < k /\ log[j].about # None /\ log[j].about = log[k].about
                     /\ log[j].state \in Terminal => log[k].state \in Terminal

\* What is under way was said of the session.
StatusTrue ==
  /\ \A i \in DOMAIN to_agent : LET m == to_agent[i] IN
       m.kind = "status" /\ m.about # None /\ m.state \in Terminal => act[m.about] = m.state
  /\ conn = "up" /\ held # None => \A i \in DOMAIN to_agent : LET m == to_agent[i] IN
       m.kind = "status" => /\ m.seq \in DOMAIN log
                            /\ log[m.seq].about = m.about /\ log[m.seq].state = m.state

\* A record that is terminal is true, and stays so: what is not processed yet says the same.
RecordTrue ==
  /\ \A id \in Moves : actions[id] \in Terminal => act[id] = actions[id]
  /\ \A id \in Moves : actions[id] \in Terminal =>
       \A k \in DOMAIN log : k > last_status_seq /\ log[k].about = id => log[k].state \in Terminal
  /\ pc \in {"waiting", "stopping"} /\ future = "done" =>
       /\ actions[move] \in Terminal \union {None}
       /\ conn = "up" => actions[move] \in Terminal

\* An outcome is what became of a move, or that it was lost with its session.
Outcomes ==
  /\ \A id \in Moves : outcome[id] # None => id < move \/ (id = move /\ pc = "crashed")
  /\ \A id \in Moves :
       /\ outcome[id] \in {None, "lost"} \union Terminal
       /\ outcome[id] \notin {None, "lost"} => act[id] = outcome[id]
       /\ outcome[id] = "lost" => act[id] \in {"gone"} \union Terminal

Unlost ==
  losses = 0 =>
    /\ pc \notin {"connecting", "initializing", "resuming", "live", "settling"}
    /\ conn # "up" => session_state = "closed"
    /\ future = "error" => conn # "up"
    /\ conn = "up" /\ held # None =>
         \/ ready # None /\ session_state # "closed"
         \/ to_agent # <<>> /\ to_agent[1].kind = "result" /\ to_agent[1].method = "open"
    /\ conn = "ending" /\ "untold" \notin happened /\ held # None =>
         \E i \in DOMAIN to_world : to_world[i].method = "close"
    /\ EndedTogether

Tame == happened \subseteq {"waiting"}

\* A frame is there, or comes before the pong of open_session.
FrameDue == \/ latest /\ \A i \in DOMAIN to_agent : ~(to_agent[i].kind = "result" /\ to_agent[i].method = "open")
            \/ \E i \in DOMAIN to_agent : to_agent[i].kind = "frame" /\
                 \A j \in DOMAIN to_agent : to_agent[j].kind = "result" /\ to_agent[j].method = "ping" => i < j

\* Where connections are lost only while a move is awaited, recovery finds what it needs.
Uneventful ==
  Tame =>
    /\ conn # "ending" /\ \A i \in DOMAIN to_agent : to_agent[i].kind # "range"
    /\ conn = "down" => pc \in {"waiting", "connecting"} \union Ends
    /\ pc = "waiting" /\ conn = "down" => future = "error"
    /\ future = "error" => pc \in {"waiting", "connecting"} \union Ends
    /\ pc \in {"resuming", "live"} => live # "error"
    /\ pc \notin {"opening", "sampling"} \union Ends => latest
    /\ pc = "sampling" /\ future = "done" => latest
    /\ attached /\ pc \in {"opening", "sampling"} => FrameDue
    /\ pc \in (Serving \ {"sampling"}) \union {"connecting", "initializing", "resuming"} /\ future # "refused"
         => actions[move] # None
    /\ pc # "crashed"

Kept == happened \cap {"resuming", "live", "settling"} = {}

\* The agent has processed what the world said of the session.
Seen == \A k \in DOMAIN log : log[k].about = None => k <= last_status_seq

\* The live state of the resumption was processed.
Resumption == pc \in {"resuming", "live"}

\* The session is live again as far as the client knows, or its resumption under way.
Back == Resumption /\ (session_state \in {"ready", "active"} \/ live = "done" \/ (pc = "live" /\ future = "done"))
ResumeAsked == \E i \in DOMAIN to_world : to_world[i].method = "resume"
ResumeUnderWay == ResumeAsked
  \/ \E i \in DOMAIN to_agent : to_agent[i].kind = "result" /\ to_agent[i].method = "resume"

\* The agent's side of a session that opens or resumes.
SideReplaying ==
  /\ replay_to # None => last_status_seq < replay_to
  /\ pc = "initializing" => session_state = "suspended"
  /\ pc = "initializing" /\ conn # "up" => conn = "down" /\ future = "error"
  /\ future = "error" \/ live = "error" => conn # "up"
  /\ pc = "resuming" /\ future = "refused" => replay_to = None
  /\ pc = "sampling" /\ future = "done" /\ session_state # "closed" => last_status_seq >= 1

\* A session says that it is ready, and then no more until it is resumed.
FirstDue ==
  \/ last_status_seq >= 1 /\ \A i \in DOMAIN to_agent : ~(to_agent[i].kind = "result" /\ to_agent[i].method = "open")
  \/ \E i \in DOMAIN to_agent : to_agent[i].kind = "status" /\ to_agent[i].seq = 1
        /\ (last_status_seq = 0 \/ (to_agent[1].kind = "result" /\ to_agent[1].method = "open"))
        /\ \A j \in DOMAIN to_agent : to_agent[j].kind = "result" /\ to_agent[j].method = "ping" => i < j

Opening ==
  /\ pc \in {"opening", "sampling"} => \A k \in DOMAIN log : log[k].about = None => k = 1
  /\ attached /\ conn = "up" /\ pc \in {"opening", "sampling"} => FirstDue
  /\ conn = "up" /\ ResumeUnderWay => session_state = "suspended" /\ live # "done"

\* The replay ends where the resumption says: then comes the live state, the one thing
\* the agent has not seen the session say.
KeptReplaying ==
  /\ replay_to # None => Resumption /\ conn = "up"
  /\ Resumption /\ conn # "up" => session_state = "closed"
  /\ conn = "up" /\ ResumeUnderWay => replay_to = None
  /\ conn = "up" /\ Back => replay_to = None
  /\ \/ pc \in (Serving \ {"sampling", "live"}) \union {"connecting", "initializing"}
     \/ ResumeAsked
     \/ Back
     => (session_state # "closed" => Seen)
  /\ conn = "up" /\ Resumption => \A j, k \in DOMAIN log :
        log[j].about = None /\ log[k].about = None /\ j > last_status_seq /\ k > last_status_seq => j = k

\* No state that the session enters after the replay is taken for a replayed one.
KeptWire ==
  /\ conn = "up" /\ replay_to # None =>
       \A i \in DOMAIN to_agent : to_agent[i].kind = "status" /\ to_agent[i].about = None
         => to_agent[i].seq > replay_to
  /\ conn = "up" => \A j \in DOMAIN to_agent : to_agent[j].kind = "result" /\ to_agent[j].method = "resume" =>
       \A i \in DOMAIN to_agent : to_agent[i].kind = "status" /\ to_agent[i].about = None
         => to_agent[i].seq > to_agent[j].replay_to

\* The replay of a resumption, unless an earlier one was cut short.
Replaying == SideReplaying /\ Opening /\ (Kept => KeptReplaying /\ KeptWire)

-----------------------------------------------------------------------------
(* Sequences of messages                                                   *)

\* t is s with m behind it.
Longer(s, t, m) ==
  /\ IsSeq(t) /\ Len(t) = Len(s) + 1 /\ DOMAIN t = 1..Len(t) /\ DOMAIN s = 1..Len(s)
  /\ Len(s) \in Nat /\ Len(t) \in Nat
  /\ \A i \in 1..Len(s) : t[i] = s[i]
  /\ t[Len(s) + 1] = m

\* t is s without its first.
Shorter(s, t) ==
  /\ IsSeq(t) /\ Len(s) = Len(t) + 1 /\ DOMAIN t = 1..Len(t) /\ DOMAIN s = 1..Len(s)
  /\ Len(s) \in Nat /\ Len(t) \in Nat /\ s[1] = Head(s) /\ 1 \in DOMAIN s
  /\ \A i \in 1..Len(t) : t[i] = s[i + 1] /\ i + 1 \in DOMAIN s
  /\ \A i \in 1..Len(s) : i = 1 \/ (i - 1 \in 1..Len(t) /\ t[i - 1] = s[i])

\* It is a sequence in the usual sense, and the other way around.
LEMMA Members ==
  ASSUME NEW s, IsSeq(s), NEW S, \A i \in 1..Len(s) : s[i] \in S
  PROVE  s \in Seq(S) /\ DOMAIN s = 1..Len(s) /\ Len(s) \in Nat
<1>1. PICK n \in Nat : n = Len(s) /\ s = [i \in 1..n |-> s[i]]
  BY DEF IsSeq
<1>2. s \in [1..n -> S] /\ DOMAIN s = 1..n
  BY <1>1
<1> QED BY <1>1, <1>2

LEMMA Ordinary ==
  ASSUME NEW S, NEW s \in Seq(S)
  PROVE  IsSeq(s)
<1>1. Len(s) \in Nat /\ s \in [1..Len(s) -> S]
  OBVIOUS
<1>2. s = [i \in 1..Len(s) |-> s[i]]
  BY <1>1
<1> QED BY <1>1, <1>2 DEF IsSeq

\* The indices of a sequence; the empty one has none.
LEMMA Indices ==
  ASSUME NEW s, IsSeq(s)
  PROVE  DOMAIN s = 1..Len(s) /\ Len(s) \in Nat /\ (s = <<>> <=> DOMAIN s = {}) /\ (s # <<>> => 1 \in DOMAIN s)
<1> DEFINE S == {s[i] : i \in 1..Len(s)}
<1>1. s \in Seq(S) /\ DOMAIN s = 1..Len(s) /\ Len(s) \in Nat
  BY Members
<1> HIDE DEF S
<1>2. s = <<>> <=> Len(s) = 0
  BY <1>1
<1> QED BY <1>1, <1>2

\* A message sent goes behind those under way.
LEMMA Behind ==
  ASSUME NEW s, IsSeq(s), NEW m
  PROVE  Longer(s, Append(s, m), m)
<1> DEFINE S == {s[i] : i \in 1..Len(s)} \union {m}
<1>1. s \in Seq(S) /\ DOMAIN s = 1..Len(s) /\ Len(s) \in Nat /\ m \in S
  BY Members
<1> HIDE DEF S
<1>2. Append(s, m) \in Seq(S) /\ Len(Append(s, m)) = Len(s) + 1 /\ Append(s, m)[Len(s) + 1] = m
  BY <1>1
<1>3. \A i \in 1..Len(s) : Append(s, m)[i] = s[i]
  BY <1>1
<1>4. IsSeq(Append(s, m))
  BY <1>2, Ordinary
<1> QED BY <1>1, <1>2, <1>3, <1>4 DEF Longer

\* So do several.
LEMMA Concatenated ==
  ASSUME NEW s, NEW t, IsSeq(s), IsSeq(t)
  PROVE  /\ IsSeq(s \o t) /\ Len(s \o t) = Len(s) + Len(t)
         /\ \A i \in 1..Len(s) + Len(t) : (s \o t)[i] = IF i <= Len(s) THEN s[i] ELSE t[i - Len(s)]
<1> DEFINE S == {s[i] : i \in 1..Len(s)} \union {t[i] : i \in 1..Len(t)}
<1>1. (\A i \in 1..Len(s) : s[i] \in S) /\ \A i \in 1..Len(t) : t[i] \in S
  OBVIOUS
<1>2. /\ s \in Seq(S) /\ t \in Seq(S)
      /\ Len(s) \in Nat /\ Len(t) \in Nat /\ DOMAIN s = 1..Len(s) /\ DOMAIN t = 1..Len(t)
  BY <1>1, Members
<1> HIDE DEF S
<1>3. s \o t \in Seq(S) /\ Len(s \o t) = Len(s) + Len(t)
  BY <1>2
<1>4. \A i \in 1..(Len(s) + Len(t)) : (s \o t)[i] = IF i <= Len(s) THEN s[i] ELSE t[i - Len(s)]
  BY <1>2
<1>5. IsSeq(s \o t)
  BY <1>3, Ordinary
<1> QED BY <1>2, <1>3, <1>4, <1>5

\* One message is a sequence, and none.
LEMMA Single ==
  /\ IsSeq(<<>>) /\ Len(<<>>) = 0 /\ DOMAIN <<>> = {}
  /\ \A m : IsSeq(<<m>>) /\ Len(<<m>>) = 1 /\ DOMAIN <<m>> = {1} /\ <<m>>[1] = m
<1>1. IsSeq(<<>>) /\ Len(<<>>) = 0 /\ DOMAIN <<>> = {}
  BY DEF IsSeq
<1>2. \A m : IsSeq(<<m>>) /\ Len(<<m>>) = 1 /\ <<m>>[1] = m
  BY DEF IsSeq
<1> QED BY <1>1, <1>2, Indices

\* One message behind others, as a concatenation.
LEMMA OneBehind ==
  ASSUME NEW s, IsSeq(s), NEW m
  PROVE  Longer(s, s \o <<m>>, m)
<1>1. Len(<<m>>) = 1 /\ <<m>>[1] = m /\ IsSeq(<<m>>)
  BY Single
<1>2. IsSeq(s \o <<m>>) /\ Len(s \o <<m>>) = Len(s) + 1
  BY <1>1, Concatenated
<1>3. \A i \in 1..Len(s) + 1 : (s \o <<m>>)[i] = IF i <= Len(s) THEN s[i] ELSE <<m>>[i - Len(s)]
  BY <1>1, Concatenated
<1>4. DOMAIN s = 1..Len(s) /\ Len(s) \in Nat /\ DOMAIN (s \o <<m>>) = 1..Len(s \o <<m>>)
  BY <1>2, Indices
<1> QED BY <1>1, <1>2, <1>3, <1>4 DEF Longer

\* The first message is taken; the others remain.
LEMMA Remaining ==
  ASSUME NEW s, IsSeq(s), s # <<>>
  PROVE  Shorter(s, Tail(s))
<1> DEFINE S == {s[i] : i \in 1..Len(s)}
<1>1. s \in Seq(S) /\ DOMAIN s = 1..Len(s) /\ Len(s) \in Nat
  BY Members
<1> HIDE DEF S
<1>2. Tail(s) \in Seq(S) /\ Len(Tail(s)) = Len(s) - 1 /\ Head(s) = s[1] /\ Len(s) > 0
  BY <1>1
<1>3. \A i \in 1..(Len(s) - 1) : Tail(s)[i] = s[i + 1]
  BY <1>1
<1>4. IsSeq(Tail(s))
  BY <1>2, Ordinary
<1> QED BY <1>1, <1>2, <1>3, <1>4 DEF Shorter

-----------------------------------------------------------------------------
(* What a step does where the invariant holds                              *)

\* What others leave alone.
SameAgent == UNCHANGED <<session_state, ready, last_status_seq, replay_to>>
SameWorld == UNCHANGED <<held, attached, sessions, log, act>>
SameProgram == UNCHANGED <<pc, move, samples, outcome>>
SameBounds == UNCHANGED <<happened, losses>>

\* The program goes on; the others do not.
Still == SameAgent /\ SameWorld /\ SameBounds /\ UNCHANGED <<conn, latest, to_agent>>

\* Nothing else is asked or answered on a connection that lives.
Called(r) ==
  IF conn = "up"
    THEN /\ future' = "pending"
         /\ DOMAIN to_world = {} /\ DOMAIN to_world' = {1} /\ to_world'[1] = r /\ IsSeq(to_world')
         /\ \A i \in DOMAIN to_agent : ~Response(to_agent[i])
    ELSE future' = "error" /\ to_world' = to_world

\* What the program does, at each label.
DoPing ==
  /\ pc \in {"opening", "sampling"} /\ future = "done" /\ Still
  /\ pc' = "sampling" /\ samples' \in 0..Samples /\ Called([method |-> "ping"])
  /\ UNCHANGED <<move, outcome, actions, live>>

\* The result of the last move, if there was one.
Returned ==
  \/ pc = "sampling" /\ move = 0 /\ outcome' = outcome
  \/ pc = "sampling" /\ move # 0 /\ outcome' = [outcome EXCEPT ![move] = "lost"]
  \/ /\ pc \in {"waiting", "stopping", "moving", "cancelling", "settling"} /\ move # 0
     /\ actions[move] \in Terminal /\ outcome' = [outcome EXCEPT ![move] = actions[move]]

DoSubmit ==
  /\ future = "done" /\ Still /\ latest /\ ready # None /\ move <= CancelledMove
  /\ Returned
  /\ pc' = "moving" /\ move' = move + 1 /\ actions' = [actions EXCEPT ![move + 1] = "submitted"]
  /\ Called([method |-> "submit", id |-> move + 1])
  /\ UNCHANGED <<samples, live>>

DoClose ==
  /\ pc = "moving" /\ future = "refused" /\ Still
  /\ pc' = "closing" /\ Called([method |-> "close"])
  /\ UNCHANGED <<move, samples, outcome, actions, live>>

DoCancel ==
  /\ pc = "watching" /\ future = "done" /\ Still
  /\ pc' = "cancelling" /\ Called([method |-> "cancel", id |-> move])
  /\ UNCHANGED <<move, samples, outcome, actions, live>>

DoResume ==
  /\ pc = "initializing" /\ future = "done" /\ Still
  /\ pc' = "resuming" /\ live' = (IF conn = "down" THEN "error" ELSE "pending")
  /\ Called([method |-> "resume", token |-> ready, last |-> last_status_seq])
  /\ UNCHANGED <<move, samples, outcome, actions>>

DoSettle ==
  /\ (pc = "resuming" /\ session_state = "active") \/ pc = "live"
  /\ future = "done" /\ Still
  /\ pc' = "settling" /\ live' = None /\ Called([method |-> "ping"])
  /\ UNCHANGED <<move, samples, outcome, actions>>

DoOpen ==
  /\ pc = "resuming" /\ future = "refused" /\ Still
  /\ pc' = "opening" /\ live' = None /\ Called([method |-> "open"])
  /\ UNCHANGED <<move, samples, outcome, actions>>

DoWait ==
  /\ future = "done" /\ Still
  /\ \/ pc = "moving" /\ move <= Targets /\ pc' = "waiting"
     \/ pc = "settling" /\ pc' = "waiting"
     \/ pc = "cancelling" /\ pc' = "stopping"
  /\ actions[move] # None
  /\ future' = (IF conn = "down" THEN "error" ELSE IF actions[move] \in Terminal THEN "done" ELSE "pending")
  /\ UNCHANGED <<move, samples, outcome, actions, live, to_world>>

DoWatch ==
  /\ pc = "moving" /\ move = CancelledMove /\ future = "done" /\ Still
  /\ pc' = "watching" /\ actions[move] # None
  /\ future' = (IF conn = "down" THEN "error" ELSE "pending")
  /\ UNCHANGED <<move, samples, outcome, actions, live, to_world>>

DoAwait ==
  /\ pc = "resuming" /\ future = "done" /\ session_state # "active" /\ Still
  /\ pc' = "live" /\ future' = live
  /\ UNCHANGED <<move, samples, outcome, actions, live, to_world>>

\* What the demo does not handle.
Crashes ==
  \/ /\ pc \in {"sampling", "waiting", "stopping", "moving", "cancelling", "settling"} /\ future = "done"
     /\ ~latest \/ ready = None
  \/ /\ pc \in {"waiting", "stopping", "moving", "cancelling", "settling"} /\ future = "done"
     /\ actions[move] = None
  \/ future = "error" /\ pc \in Labels \ {"waiting", "connecting"}
  \/ future = "refused" /\ pc # "resuming" /\ ~(pc = "moving" /\ move = RefusedMove)

DoStop ==
  /\ Still /\ pc \in Labels
  /\ \/ pc' \in {"timedout", "done"} /\ outcome' = outcome /\ pc \in {"watching", "closing"}
     \/ pc' = "crashed" /\ Crashes /\ (outcome' = outcome \/ Returned)
  /\ future = "pending" => pc = "watching"
  /\ UNCHANGED <<move, samples, actions, future, live, to_world>>

DoGiveUp ==
  /\ pc \in {"waiting"} \union Retried /\ future = "error" /\ session_state = "closed"
  /\ pc' = "ended" /\ live' = None
  /\ SameAgent /\ SameWorld /\ SameBounds
  /\ UNCHANGED <<actions, conn, latest, future, move, samples, outcome, to_world, to_agent>>

DoReconnect ==
  /\ pc \in {"waiting"} \union Retried /\ future = "error" /\ session_state # "closed"
  /\ pc' = "connecting" /\ live' = None
  /\ session_state' = "suspended" /\ conn' = "down" /\ attached' = FALSE
  /\ to_world' = <<>> /\ to_agent' = <<>> /\ DOMAIN to_world' = {} /\ DOMAIN to_agent' = {}
  /\ SameBounds
  /\ UNCHANGED <<ready, actions, last_status_seq, replay_to, latest, future, move, samples,
                 outcome, held, sessions, log, act>>

DoConnect ==
  /\ pc = "connecting" /\ pc' = "initializing" /\ conn' = "up" /\ future' = "pending"
  /\ DOMAIN to_world' = {1} /\ to_world'[1] = [method |-> "initialize"] /\ IsSeq(to_world')
  /\ SameAgent /\ SameWorld /\ SameBounds
  /\ UNCHANGED <<actions, latest, live, move, samples, outcome, to_agent>>

\* The reader takes the first message.
Reads ==
  /\ conn = "up" /\ Shorter(to_agent, to_agent')
  /\ SameProgram /\ SameWorld /\ UNCHANGED <<conn, to_world>>

\* It is the answer to the call that is awaited, and no other is under way.
Answers1(how) ==
  /\ Reads /\ SameBounds /\ Response(to_agent[1])
  /\ future = "pending" /\ future' = how
  /\ DOMAIN to_world = {} /\ \A i \in DOMAIN to_agent' : ~Response(to_agent'[i])

\* What the reader does, with each message.
DoReadOpen ==
  /\ Answers1("done") /\ IsResult(to_agent[1], "open") /\ pc = "opening" /\ attached
  /\ ready' = held /\ held \in 1..MaxSessions /\ session_state' = "ready"
  /\ actions' = [id \in Moves |-> None] /\ last_status_seq' = 0 /\ replay_to' = None /\ latest' = FALSE
  /\ live' = live

DoReadResume ==
  /\ Answers1("done") /\ IsResult(to_agent[1], "resume") /\ pc = "resuming" /\ attached
  /\ replay_to' = (IF to_agent[1].replay_to <= last_status_seq THEN None ELSE to_agent[1].replay_to)
  /\ UNCHANGED <<session_state, ready, actions, last_status_seq, latest, live>>

DoReadClose ==
  /\ Answers1("done") /\ IsResult(to_agent[1], "close") /\ pc = "closing" /\ held = None
  /\ session_state' = "closed" /\ ready' = None
  /\ UNCHANGED <<actions, last_status_seq, replay_to, latest, live>>

DoReadPong ==
  /\ Answers1("done")
  /\ \/ IsResult(to_agent[1], "ping") /\ pc \in {"sampling", "settling"}
     \/ IsResult(to_agent[1], "initialize") /\ pc = "initializing"
  /\ SameAgent /\ UNCHANGED <<actions, latest, live>>

DoReadUnknown ==
  /\ Answers1("refused") /\ IsError(to_agent[1], "resume") /\ pc = "resuming"
  /\ ~attached /\ held = None
  /\ session_state' = "closed" /\ ready' = None /\ actions' = [id \in Moves |-> None]
  /\ last_status_seq' = 0 /\ replay_to' = None
  /\ live' = (IF live = "pending" THEN "done" ELSE live)
  /\ latest' = latest

DoReadRefusal ==
  /\ Answers1("refused") /\ IsError(to_agent[1], "submit") /\ pc = "moving" /\ move = RefusedMove
  /\ actions' = [actions EXCEPT ![move] = None]
  /\ SameAgent /\ UNCHANGED <<live, latest>>

IsStatus(m) == m.kind = "status"
New == to_agent[1].seq = last_status_seq + 1

\* The status of a move that the world answers with, or tells.
AnswersOrNot ==
  \/ Answers1("done") /\ pc \in Answers(to_agent[1].method) /\ pc \in {"moving", "cancelling"}
  \/ to_agent[1].method = None /\ future' = future

DoReadOld ==
  /\ Reads /\ SameBounds /\ IsStatus(to_agent[1]) /\ ~New
  /\ AnswersOrNot
  /\ SameAgent /\ UNCHANGED <<actions, live, latest>>

DoneReplaying == replay_to' = (IF replay_to # None /\ to_agent[1].seq >= replay_to THEN None ELSE replay_to)

DoReadAction ==
  /\ Reads /\ SameBounds /\ IsStatus(to_agent[1]) /\ New /\ to_agent[1].about # None
  /\ \/ AnswersOrNot
     \/ /\ to_agent[1].method = None /\ future = "pending" /\ future' = "done"
        /\ \/ pc \in {"waiting", "stopping"} /\ to_agent[1].about = move /\ to_agent[1].state \in Terminal
           \/ pc = "watching"
  /\ last_status_seq' = to_agent[1].seq /\ DoneReplaying
  /\ actions' = [actions EXCEPT ![to_agent[1].about] = to_agent[1].state]
  /\ UNCHANGED <<session_state, ready, live, latest>>

Replayed == replay_to # None /\ to_agent[1].seq <= replay_to

DoReadState ==
  /\ Reads /\ SameBounds /\ IsStatus(to_agent[1]) /\ New /\ to_agent[1].about = None /\ to_agent[1].method = None
  /\ future' = (IF future = "pending" /\ pc = "live" /\ ~Replayed THEN "done" ELSE future)
  /\ live' = (IF live = "pending" /\ ~Replayed THEN "done" ELSE live)
  /\ last_status_seq' = to_agent[1].seq /\ DoneReplaying
  /\ session_state' = to_agent[1].state
  /\ ready' = (IF to_agent[1].state = "closed" THEN None ELSE ready)
  /\ UNCHANGED <<actions, latest>>

DoReadFrame ==
  /\ Reads /\ SameBounds /\ to_agent[1].kind = "frame"
  /\ latest' = TRUE
  /\ session_state' = (IF session_state = "ready" THEN "active" ELSE session_state)
  /\ UNCHANGED <<ready, actions, last_status_seq, replay_to, future, live>>

DoReadRange ==
  /\ conn = "up" /\ conn' = "ending" /\ Shorter(to_agent, to_agent') /\ to_agent[1].kind = "range"
  /\ session_state' = "closed" /\ ready' = None /\ actions' = [id \in Moves |-> None]
  /\ last_status_seq' = 0 /\ replay_to' = None
  /\ live' = (IF live = "pending" THEN "done" ELSE live)
  /\ future' = (IF pc = "live" /\ future = "pending" THEN "done" ELSE future)
  /\ \/ happened' = happened \union {"untold"} /\ to_world' = to_world
     \/ happened' = happened /\ (ready = None \/ session_state = "closed") /\ to_world' = to_world
     \/ /\ happened' = happened /\ ready # None /\ session_state # "closed"
        /\ Longer(to_world, to_world', [method |-> "close"])
  /\ SameProgram /\ SameWorld /\ UNCHANGED <<latest, losses>>

\* What a connection takes with it.
Falls ==
  /\ conn' = "down" /\ attached' = FALSE
  /\ to_world' = <<>> /\ to_agent' = <<>> /\ DOMAIN to_world' = {} /\ DOMAIN to_agent' = {}
  /\ session_state' = (IF session_state = "closed" THEN "closed" ELSE "suspended")
  /\ future' = (IF future = "pending" THEN "error" ELSE future)
  /\ live' = (IF live = "pending" THEN "error" ELSE live)
  /\ UNCHANGED <<ready, actions, last_status_seq, replay_to, latest, held, sessions, log, act>>
  /\ SameProgram

DoFinish == conn = "ending" /\ DOMAIN to_world = {} /\ Falls /\ SameBounds

DoLose ==
  /\ conn = "up" /\ future = "pending" /\ pc \in Labels /\ losses' = losses + 1
  /\ happened' = happened \union {pc} /\ Falls

\* What the world does, with each request and on its own.
SameClient == SameAgent /\ SameProgram /\ UNCHANGED <<actions, conn, latest, future, live>>

\* The world takes the first request.
Takes(method) ==
  /\ Shorter(to_world, to_world') /\ to_world[1].method = method /\ SameClient

\* What it sends reaches an agent that reads.
Tells(m) ==
  IF conn = "up" THEN Longer(to_agent, to_agent', m) ELSE to_agent' = to_agent

\* The request was the only one, and its answer is the only one.
Asks ==
  conn = "up" => DOMAIN to_world' = {} /\ \A i \in DOMAIN to_agent : ~Response(to_agent[i])

DoHandleOpen ==
  /\ Takes("open") /\ Asks /\ conn = "up" /\ pc = "opening" /\ future = "pending" /\ ready = None
  /\ sessions' = sessions + 1 /\ held' = sessions + 1 /\ sessions + 1 \in 1..MaxSessions /\ attached' = TRUE
  /\ IsSeq(log') /\ DOMAIN log' = {1} /\ log'[1] = Entry(None, "ready")
  /\ DOMAIN to_agent = {} /\ IsSeq(to_agent') /\ 1 \in DOMAIN to_agent' /\ 2 \in DOMAIN to_agent'
  /\ to_agent'[1] = [kind |-> "result", method |-> "open", token |-> sessions + 1]
  /\ to_agent'[2] = Status(1, None, "ready")
  /\ \/ DOMAIN to_agent' = 1..3 /\ to_agent'[3] = [kind |-> "frame"] /\ happened' = happened
     \/ DOMAIN to_agent' = 1..2 /\ happened' = happened \union {"slow"}
  /\ UNCHANGED <<act, losses>>

DoHandleResume ==
  /\ Takes("resume") /\ Asks /\ conn = "up" /\ pc = "resuming" /\ future = "pending" /\ ~attached
  /\ held = ready /\ held \in 1..MaxSessions
  /\ attached' = TRUE /\ Longer(log, log', Entry(None, "active"))
  /\ DOMAIN to_agent = {} /\ IsSeq(to_agent')
  /\ to_agent'[1] = [kind |-> "result", method |-> "resume", replay_to |-> Len(log)]
  /\ 1 \in DOMAIN to_agent'
  /\ \A i \in DOMAIN to_agent' :
       \/ i = 1
       \/ to_agent'[i] = Status(Len(log) + 1, None, "active")
       \/ \E k \in DOMAIN log : k > last_status_seq /\ to_agent'[i] = Logged(k)
  /\ UNCHANGED <<held, sessions, act>> /\ SameBounds

DoHandleUnknown ==
  /\ Takes("resume") /\ Asks /\ conn = "up" /\ pc = "resuming" /\ future = "pending" /\ ~attached
  /\ held = None /\ DOMAIN to_agent = {}
  /\ Longer(to_agent, to_agent', [kind |-> "error", method |-> "resume"])
  /\ SameWorld /\ SameBounds

DoHandleSubmit ==
  /\ Takes("submit") /\ Asks /\ pc = "moving" /\ future = "pending" /\ act[move] = None
  /\ held # None /\ move # RefusedMove /\ move \in Moves
  /\ act' = [act EXCEPT ![move] = "executing"]
  /\ Longer(log, log', Entry(move, "executing"))
  /\ Tells(Replied(Status(Len(log) + 1, move, "executing"), "submit"))
  /\ UNCHANGED <<held, attached, sessions>> /\ SameBounds

DoHandleRefuse ==
  /\ Takes("submit") /\ Asks /\ pc = "moving" /\ future = "pending"
  /\ conn = "up" => move = RefusedMove
  /\ Tells([kind |-> "error", method |-> "submit"])
  /\ SameWorld /\ SameBounds

DoHandleCancel ==
  /\ Takes("cancel") /\ Asks /\ pc = "cancelling" /\ future = "pending" /\ move \in Moves
  /\ act[move] \in Running /\ held # None
  /\ Longer(log, log', Entry(move, act[move]))
  /\ Tells(Replied(Status(Len(log) + 1, move, act[move]), "cancel"))
  /\ UNCHANGED <<held, attached, sessions, act>> /\ SameBounds

DoHandleOther ==
  /\ \/ Takes("ping") /\ pc \in {"sampling", "settling"} /\ Tells([kind |-> "result", method |-> "ping"])
     \/ Takes("initialize") /\ pc = "initializing" /\ Tells([kind |-> "result", method |-> "initialize"])
  /\ Asks /\ future = "pending"
  /\ SameWorld /\ SameBounds

DoHandleClose ==
  /\ Takes("close") /\ Asks
  /\ held' = None /\ attached' = FALSE /\ act' = Gone /\ log' = <<>> /\ IsSeq(log') /\ DOMAIN log' = {}
  /\ IF conn = "up"
       THEN /\ pc = "closing" /\ future = "pending"
            /\ \E t : /\ Longer(to_agent, t, Status(Len(log) + 1, None, "closed"))
                      /\ Longer(t, to_agent', [kind |-> "result", method |-> "close"])
       ELSE to_agent' = to_agent
  /\ sessions' = sessions /\ SameBounds

DoAdvance ==
  \E id \in Moves, state \in {"far"} \union Terminal :
    /\ id = move /\ act[id] \in {"executing", "far"} /\ state # act[id] /\ held # None
    /\ act' = [act EXCEPT ![id] = state]
    /\ Longer(log, log', Entry(id, state))
    /\ IF attached THEN Tells(Status(Len(log) + 1, id, state)) ELSE to_agent' = to_agent
    /\ SameClient /\ UNCHANGED <<held, attached, sessions, to_world>> /\ SameBounds

DoForget ==
  /\ held # None /\ ~attached /\ conn = "down"
  /\ held' = None /\ act' = Gone /\ log' = <<>> /\ IsSeq(log') /\ DOMAIN log' = {}
  /\ SameClient /\ UNCHANGED <<attached, sessions, to_world, to_agent>> /\ SameBounds

DoTell ==
  /\ attached
  /\ \/ Tells([kind |-> "frame"]) /\ happened' = happened
     \/ Tells([kind |-> "range"]) /\ happened' = happened \union {"range"}
  /\ SameClient /\ SameWorld /\ UNCHANGED <<to_world, losses>>

DoNothing == SameClient /\ SameWorld /\ SameBounds /\ UNCHANGED <<to_world, to_agent>>

-----------------------------------------------------------------------------
(* The steps of the program                                                *)

\* The constants.
LEMMA Names ==
  /\ Targets \in Nat /\ Targets >= 1 /\ Samples \in Nat /\ Samples >= 1 /\ MaxSessions \in Nat
  /\ CancelledMove = Targets + 1 /\ RefusedMove = Targets + 2 /\ Moves = 1..Targets + 2
  /\ FaultAt \subseteq Labels
  /\ None \notin Nat /\ None \notin Values
BY RecoveryAssumption DEF CancelledMove, RefusedMove, Moves

\* None is none of them.
LEMMA NoneIsOther ==
  /\ None \notin {"ready", "active", "suspended", "closed"} /\ None \notin {"pending", "done", "error", "refused"}
  /\ None \notin {"submitted", "executing", "far", "completed", "aborted", "lost", "gone"}
  /\ None \notin {"open", "ping", "submit", "initialize", "resume", "cancel", "close"}
BY Names DEF Values

\* While nothing is awaited, nothing was asked and nothing is answered.
LEMMA Idle ==
  ASSUME Typed, Asked, OneAnswer, conn = "up", future # "pending"
  PROVE  DOMAIN to_world = {} /\ to_world = <<>> /\ \A i \in DOMAIN to_agent : ~Response(to_agent[i])
<1>1. IsSeq(to_world) /\ (to_world = <<>> <=> DOMAIN to_world = {})
  BY Indices DEF Typed
<1> QED BY <1>1 DEF Asked, OneAnswer, AnswerTrue, Awaited

\* A request is the only one on its connection.
LEMMA AskCalls ==
  ASSUME Typed, Asked, OneAnswer, future # "pending", NEW r, Ask(r)
  PROVE  Called(r)
<1>1. CASE conn = "up"
  <2>1. Longer(<<>>, to_world', r) /\ DOMAIN to_world = {}
    BY <1>1, Idle, Behind, Single DEF Ask
  <2>2. DOMAIN to_world' = {1} /\ to_world'[1] = r /\ IsSeq(to_world')
    BY <2>1, Single DEF Longer
  <2> QED BY <1>1, <2>1, <2>2, Idle DEF Called, Ask
<1> QED BY <1>1 DEF Called, Ask

\* move submits the next, or raises.
LEMMA MoveDoes ==
  ASSUME Typed, Asked, OneAnswer, Still, Returned, future = "done", move <= CancelledMove, pc \in Labels,
         Move(move + 1)
  PROVE  DoSubmit \/ DoStop
<1>0. Keep
  BY DEF Still, Keep
<1>1. CASE ~latest \/ ready = None
  <2>1. Raise
    BY <1>1 DEF Move
  <2> QED BY <1>1, <2>1 DEF Raise, DoStop, Crashes, Returned
<1>2. CASE latest /\ ready # None
  <2>1. Called([method |-> "submit", id |-> move + 1])
    BY <1>2, AskCalls DEF Move
  <2> QED BY <1>2, <2>1 DEF Move, DoSubmit
<1> QED BY <1>1, <1>2

\* What a step of the program leaves alone.
LEMMA ResumedStill ==
  ASSUME NEW label, NEW how, Resumed(label, how), Keep
  PROVE  Still /\ pc = label /\ future = how
BY DEF Resumed, Keep, Still, SameAgent, SameWorld, SameBounds, world, bounds

\* run returns, with an outcome.
LEMMA ReturnDoes ==
  ASSUME Typed, Asked, OneAnswer, Still, future = "done", NEW result, Return(result),
         \/ pc = "sampling" /\ result = "lost" /\ move # 0
         \/ /\ pc \in {"waiting", "stopping", "moving", "cancelling", "settling"} /\ result = actions[move]
                 /\ result \in Terminal
            /\ move <= CancelledMove
  PROVE  DoSubmit \/ DoStop
<1>1. Returned /\ move <= CancelledMove /\ pc \in Labels
  <2>1. move # 0 /\ move <= CancelledMove
    BY Names DEF Typed, TypeOK, Ends
  <2> QED BY <2>1 DEF Returned, Return, Labels
<1> QED BY <1>1, MoveDoes DEF Return

\* run goes on waiting, returns or raises.
LEMMA AwaitDoes ==
  ASSUME Typed, Asked, OneAnswer, Still, future = "done", NEW label, AwaitTerminal(label),
         move <= CancelledMove,
         \/ pc = "moving" /\ move <= Targets /\ label = "waiting"
         \/ pc = "settling" /\ label = "waiting"
         \/ pc = "cancelling" /\ label = "stopping"
  PROVE  DoSubmit \/ DoStop \/ DoWait
<1>1. CASE actions[move] = None /\ Crash
  BY <1>1 DEF Crash, Raise, DoStop, Crashes, Labels
<1>2. CASE TerminalRecord(move) /\ label = "waiting" /\ Return(actions[move])
  BY <1>2, ReturnDoes DEF TerminalRecord
<1>3. CASE /\ actions[move] # None /\ ~(TerminalRecord(move) /\ label = "waiting")
           /\ pc' = label
           /\ future' = IF conn = "down" THEN "error"
                        ELSE IF TerminalRecord(move) THEN "done" ELSE "pending"
           /\ UNCHANGED <<move, samples, outcome, actions, live, to_world>>
  BY <1>3 DEF DoWait, TerminalRecord
<1> QED BY <1>1, <1>2, <1>3 DEF AwaitTerminal

\* The steps of the program, of the reader, of the world's handlers, and the others.
DoProgram ==
  \/ DoPing \/ DoSubmit \/ DoClose \/ DoCancel \/ DoResume \/ DoSettle \/ DoOpen
  \/ DoWait \/ DoWatch \/ DoAwait \/ DoStop \/ DoGiveUp \/ DoReconnect \/ DoConnect

\* The program, between two awaits.
LEMMA ProgramDoes ==
  ASSUME Typed, Asked, OneAnswer, RecordTrue, Attached, Program
  PROVE  DoProgram
<1> USE Names DEF DoProgram
<1>a. move <= CancelledMove \/ pc \in {"moving", "closing"} \union Ends
  BY DEF Typed, TypeOK
<1>1. CASE Opened
  <2>1. Still /\ pc = "opening" /\ future = "done"
    BY <1>1, ResumedStill DEF Opened
  <2>2. Called([method |-> "ping"])
    BY <1>1, <2>1, AskCalls DEF Opened
  <2> QED BY <1>1, <2>1, <2>2 DEF Opened, DoPing
<1>2. CASE Sampled
  <2>1. Still /\ pc = "sampling" /\ future = "done"
    BY <1>2, ResumedStill DEF Sampled
  <2>2. CASE samples > 1 /\ samples' = samples - 1 /\ Ask([method |-> "ping"])
               /\ UNCHANGED <<pc, move, outcome, actions, live>>
    <3>1. Called([method |-> "ping"])
      BY <2>1, <2>2, AskCalls
    <3> QED BY <2>1, <2>2, <3>1 DEF DoPing, Typed, TypeOK
  <2>3. CASE samples = 1 /\ move = 0 /\ Move(1) /\ UNCHANGED outcome
    <3>1. Returned /\ move <= CancelledMove /\ Move(move + 1)
      BY <2>1, <2>3 DEF Returned
    <3> QED BY <2>1, <3>1, MoveDoes DEF Labels
  <2>4. CASE samples = 1 /\ move # 0 /\ Return("lost")
    BY <2>1, <2>4, ReturnDoes
  <2> QED BY <1>2, <2>2, <2>3, <2>4 DEF Sampled
<1>3. CASE Admitted
  <2>1. Still /\ pc = "moving" /\ future = "done"
    BY <1>3, ResumedStill DEF Admitted
  <2>2. CASE move <= Targets /\ AwaitTerminal("waiting")
    <3>1. move <= CancelledMove
      BY <2>2 DEF Typed, TypeOK
    <3> QED BY <2>1, <2>2, <3>1, AwaitDoes
  <2>3. CASE move = CancelledMove /\ actions[move] = None /\ Crash
    BY <2>1, <2>3 DEF Crash, Raise, DoStop, Crashes, Labels
  <2>4. CASE /\ move = CancelledMove /\ actions[move] # None
             /\ pc' = "watching"
             /\ future' = IF conn = "down" THEN "error" ELSE "pending"
             /\ UNCHANGED <<move, samples, outcome, actions, live, to_world>>
    BY <2>1, <2>4 DEF DoWatch
  <2> QED BY <1>3, <2>2, <2>3, <2>4 DEF Admitted
<1>4. CASE Refused
  <2>1. Still /\ pc = "moving" /\ future = "refused"
    BY <1>4, ResumedStill DEF Refused
  <2>2. Called([method |-> "close"])
    BY <1>4, <2>1, AskCalls DEF Refused, AskNext
  <2> QED BY <1>4, <2>1, <2>2 DEF Refused, AskNext, DoClose
<1>5. CASE Terminated
  <2>1. Still /\ pc = "waiting" /\ future = "done"
    BY <1>5, ResumedStill DEF Terminated
  <2>2. CASE actions[move] = None /\ Crash
    BY <2>1, <2>2 DEF Crash, Raise, DoStop, Crashes, Labels
  <2>3. CASE actions[move] # None /\ Return(actions[move])
    <3>1. actions[move] \in Terminal /\ move <= CancelledMove
      BY <2>1, <2>3, <1>a DEF RecordTrue, Ends
    <3> QED BY <2>1, <2>3, <3>1, ReturnDoes
  <2> QED BY <1>5, <2>2, <2>3 DEF Terminated
<1>6. CASE Progressed
  <2>1. Still /\ pc = "watching" /\ future = "done"
    BY <1>6, ResumedStill DEF Progressed
  <2>2. Called([method |-> "cancel", id |-> move])
    BY <1>6, <2>1, AskCalls DEF Progressed, AskNext
  <2> QED BY <1>6, <2>1, <2>2 DEF Progressed, AskNext, DoCancel
<1>7. CASE Unprogressed
  <2>1. Still /\ pc = "watching" /\ future = "pending"
    BY <1>7, ResumedStill DEF Unprogressed
  <2> QED BY <1>7, <2>1 DEF Unprogressed, DoStop, Labels
<1>8. CASE CancelAnswered
  <2>1. Still /\ pc = "cancelling" /\ future = "done"
    BY <1>8, ResumedStill DEF CancelAnswered
  <2> QED BY <1>8, <2>1, <1>a, AwaitDoes DEF CancelAnswered, Ends
<1>9. CASE Stopped
  <2>1. Still /\ pc = "stopping" /\ future = "done"
    BY <1>9, ResumedStill DEF Stopped
  <2>2. CASE actions[move] = None /\ Crash
    BY <2>1, <2>2 DEF Crash, Raise, DoStop, Crashes, Labels
  <2>3. CASE actions[move] # None /\ Return(actions[move])
    <3>1. actions[move] \in Terminal /\ move <= CancelledMove
      BY <2>1, <2>3, <1>a DEF RecordTrue, Ends
    <3> QED BY <2>1, <2>3, <3>1, ReturnDoes
  <2> QED BY <1>9, <2>2, <2>3 DEF Stopped
<1>10. CASE Closed
  <2>1. Still /\ pc = "closing" /\ future = "done"
    BY <1>10, ResumedStill DEF Closed
  <2> QED BY <1>10, <2>1 DEF Closed, DoStop, Labels
<1>11. CASE Recover \/ Retry
  <2>1. PICK label \in {"waiting"} \union Retried : RecoverFrom(label)
    BY <1>11 DEF Recover, Retry, Caught
  <2>2. CASE session_state = "closed"
    BY <2>1, <2>2 DEF RecoverFrom, Reconnect, DoGiveUp, SameAgent, SameWorld, SameBounds, bounds
  <2>3. CASE session_state # "closed"
    BY <2>1, <2>3, Single DEF RecoverFrom, Reconnect, DoReconnect, SameBounds, bounds
  <2> QED BY <2>2, <2>3
<1>12. CASE Connect
  <2>1. DOMAIN to_world' = {1} /\ to_world'[1] = [method |-> "initialize"] /\ IsSeq(to_world')
    BY <1>12, Single DEF Connect
  <2> QED BY <1>12, <2>1 DEF Connect, DoConnect, SameAgent, SameWorld, SameBounds, agent, world, bounds
<1>13. CASE Initialized
  <2>1. Still /\ pc = "initializing" /\ future = "done"
    BY <1>13, ResumedStill DEF Initialized
  <2>2. Called([method |-> "resume", token |-> ready, last |-> last_status_seq])
    BY <1>13, <2>1, AskCalls DEF Initialized
  <2> QED BY <1>13, <2>1, <2>2 DEF Initialized, DoResume
<1>14. CASE ResumedAnswered
  <2>1. Still /\ pc = "resuming" /\ future = "done"
    BY <1>14, ResumedStill DEF ResumedAnswered
  <2>2. CASE session_state = "active" /\ Ask([method |-> "ping"])
    <3>1. Called([method |-> "ping"])
      BY <2>1, <2>2, AskCalls
    <3> QED BY <1>14, <2>1, <2>2, <3>1 DEF ResumedAnswered, DoSettle
  <2>3. CASE session_state # "active"
    BY <1>14, <2>1, <2>3 DEF ResumedAnswered, DoAwait
  <2> QED BY <1>14, <2>2, <2>3 DEF ResumedAnswered
<1>15. CASE Live
  <2>1. Still /\ pc = "live" /\ future = "done"
    BY <1>15, ResumedStill DEF Live
  <2>2. Called([method |-> "ping"])
    BY <1>15, <2>1, AskCalls DEF Live
  <2> QED BY <1>15, <2>1, <2>2 DEF Live, DoSettle
<1>16. CASE Settled
  <2>1. Still /\ pc = "settling" /\ future = "done"
    BY <1>16, ResumedStill DEF Settled
  <2> QED BY <1>16, <2>1, <1>a, AwaitDoes DEF Settled, Ends
<1>17. CASE Unknown
  <2>1. Still /\ pc = "resuming" /\ future = "refused"
    BY <1>17, ResumedStill DEF Unknown
  <2>2. Called([method |-> "open"])
    BY <1>17, <2>1, AskCalls DEF Unknown
  <2> QED BY <1>17, <2>1, <2>2 DEF Unknown, DoOpen
<1>18. CASE Unhandled
  <2>1. Still /\ pc' = "crashed" /\ outcome' = outcome
          /\ UNCHANGED <<move, samples, actions, future, live, to_world>>
    BY <1>18 DEF Unhandled, Crash, Raise, Still, SameAgent, SameWorld, SameBounds, world, bounds
  <2>2. CASE future = "error" /\ pc \in Labels \ (Caught \union {"connecting"})
    BY <2>1, <2>2 DEF DoStop, Crashes, Caught, Labels
  <2>3. CASE future = "refused" /\ pc # "resuming" /\ ~(pc = "moving" /\ move = RefusedMove)
    BY <2>3 DEF Attached
  <2> QED BY <1>18, <2>2, <2>3 DEF Unhandled
<1> QED
  BY <1>1, <1>2, <1>3, <1>4, <1>5, <1>6, <1>7, <1>8, <1>9, <1>10, <1>11, <1>12, <1>13, <1>14, <1>15, <1>16, <1>17,
     <1>18 DEF Program

-----------------------------------------------------------------------------
(* The steps of the reader                                                 *)

\* Which label awaits which call.
LEMMA Methods ==
  /\ Answers("open") = {"opening"} /\ Answers("ping") = {"sampling", "settling"} /\ Answers("submit") = {"moving"}
  /\ Answers("initialize") = {"initializing"} /\ Answers("resume") = {"resuming"}
  /\ Answers("cancel") = {"cancelling"} /\ Answers("close") = {"closing"}
BY DEF Answers

\* The reader takes the first message.
LEMMA ReadingReads ==
  ASSUME Typed, NEW kind, Reading(kind)
  PROVE  /\ Reads /\ SameBounds /\ Head(to_agent) = to_agent[1] /\ to_agent[1].kind = kind
         /\ 1 \in DOMAIN to_agent /\ MessageOK(to_agent[1])
<1>1. Shorter(to_agent, Tail(to_agent))
  BY Remaining DEF Typed, Reading
<1>2. 1 \in DOMAIN to_agent /\ Head(to_agent) = to_agent[1]
  BY <1>1 DEF Shorter
<1>3. MessageOK(to_agent[1])
  BY <1>2 DEF Typed
<1> QED BY <1>1, <1>2, <1>3 DEF Reading, Reads, SameProgram, SameWorld, SameBounds, program, world, bounds

\* An answer is the one that is awaited.
LEMMA AnswerRead ==
  ASSUME Typed, Asked, OneAnswer, Reads, SameBounds, Response(to_agent[1]),
         NEW how, NEW labels, labels \subseteq Labels, Answers(to_agent[1].method) \subseteq labels,
         future' = Resolve(labels, how)
  PROVE  Answers1(how) /\ pc \in Answers(to_agent[1].method)
<1>1. 1 \in DOMAIN to_agent /\ conn = "up" /\ DOMAIN to_agent' = 1..Len(to_agent') /\ Len(to_agent') \in Nat
  BY DEF Reads, Shorter
<1>2. Awaited(to_agent[1].method) /\ \A j \in DOMAIN to_agent : Response(to_agent[j]) => j = 1
  BY <1>1 DEF OneAnswer, AnswerTrue, IsResult, IsError
<1>3. ASSUME NEW i \in DOMAIN to_agent' PROVE ~Response(to_agent'[i])
  <2>1. to_agent'[i] = to_agent[i + 1] /\ i + 1 \in DOMAIN to_agent /\ i + 1 # 1
    BY <1>1 DEF Reads, Shorter
  <2> QED BY <1>2, <2>1
<1>4. IsSeq(to_world) /\ DOMAIN to_world = {}
  BY <1>1 DEF Asked, Typed
<1> QED BY <1>2, <1>3, <1>4 DEF Answers1, Resolve, Awaited

DoReader ==
  \/ DoReadOpen \/ DoReadResume \/ DoReadClose \/ DoReadPong \/ DoReadUnknown \/ DoReadRefusal
  \/ DoReadOld \/ DoReadAction \/ DoReadState \/ DoReadFrame \/ DoReadRange \/ DoFinish

\* A result is the one that is awaited.
LEMMA ReadResultDoes ==
  ASSUME Typed, Asked, OneAnswer, ReadResult
  PROVE  DoReadOpen \/ DoReadResume \/ DoReadClose \/ DoReadPong
<1> DEFINE m == to_agent[1]
<1>1. /\ Reads /\ SameBounds /\ Head(to_agent) = m /\ m.kind = "result"
      /\ 1 \in DOMAIN to_agent /\ MessageOK(m) /\ conn = "up"
  BY ReadingReads DEF ReadResult, Reads
<1>2. m.method \in {"open", "ping", "initialize", "resume", "close"} /\ Response(m)
  BY <1>1 DEF MessageOK, Response
<1>3. Answers(m.method) \subseteq Labels
  BY <1>2, Methods DEF Labels
<1>4. Answers1("done") /\ pc \in Answers(m.method)
  BY <1>1, <1>2, <1>3, AnswerRead DEF ReadResult
<1>5. CASE m.method = "open"
  <2>1. m.token = held /\ attached /\ m.token \in 1..MaxSessions
    BY <1>1, <1>2, <1>5 DEF OneAnswer, AnswerTrue, IsResult, IsError, MessageOK
  <2>2. /\ ready' = m.token /\ session_state' = "ready" /\ actions' = [id \in Moves |-> None]
        /\ last_status_seq' = 0 /\ replay_to' = None /\ latest' = FALSE /\ live' = live
    BY <1>1, <1>5 DEF ReadResult
  <2> QED BY <1>1, <1>4, <1>5, <2>1, <2>2, Methods DEF DoReadOpen, IsResult
<1>6. CASE m.method = "resume"
  <2>1. attached
    BY <1>1, <1>2, <1>6 DEF OneAnswer, AnswerTrue, IsResult, IsError
  <2> QED BY <1>1, <1>4, <1>6, <2>1, Methods DEF ReadResult, DoReadResume, IsResult
<1>7. CASE m.method = "close"
  <2>1. held = None
    BY <1>1, <1>2, <1>7 DEF OneAnswer, AnswerTrue, IsResult, IsError
  <2> QED BY <1>1, <1>4, <1>7, <2>1, Methods DEF ReadResult, DoReadClose, IsResult
<1>8. CASE m.method \in {"ping", "initialize"}
  BY <1>1, <1>4, <1>8, Methods DEF ReadResult, DoReadPong, IsResult, SameAgent, agent
<1> QED BY <1>2, <1>5, <1>6, <1>7, <1>8

\* So is a refusal.
LEMMA ReadErrorDoes ==
  ASSUME Typed, Asked, OneAnswer, ReadError
  PROVE  DoReadUnknown \/ DoReadRefusal
<1> DEFINE m == to_agent[1]
<1>1. /\ Reads /\ SameBounds /\ Head(to_agent) = m /\ m.kind = "error"
      /\ 1 \in DOMAIN to_agent /\ MessageOK(m) /\ conn = "up"
  BY ReadingReads DEF ReadError, Reads
<1>2. m.method \in {"submit", "resume"} /\ Response(m)
  BY <1>1 DEF MessageOK, Response
<1>3. Answers(m.method) \subseteq Labels
  BY <1>2, Methods DEF Labels
<1>4. Answers1("refused") /\ pc \in Answers(m.method)
  BY <1>1, <1>2, <1>3, AnswerRead DEF ReadError
<1>5. CASE m.method = "resume"
  <2>1. ~attached /\ held = None
    BY <1>1, <1>2, <1>5 DEF OneAnswer, AnswerTrue, IsResult, IsError
  <2> QED BY <1>1, <1>4, <1>5, <2>1, Methods DEF ReadError, DoReadUnknown, IsError
<1>6. CASE m.method = "submit"
  <2>1. move = RefusedMove
    BY <1>1, <1>2, <1>6 DEF OneAnswer, AnswerTrue, IsResult, IsError
  <2> QED BY <1>1, <1>4, <1>6, <2>1, Methods DEF ReadError, DoReadRefusal, IsError, SameAgent
<1> QED BY <1>2, <1>5, <1>6

\* A status is old, of an action or of the session.
LEMMA ReadStatusDoes ==
  ASSUME Typed, Asked, OneAnswer, ReadStatus
  PROVE  DoReadOld \/ DoReadAction \/ DoReadState
<1> DEFINE m == to_agent[1]
           replayed == replay_to # None /\ m.seq <= replay_to
           reached == IF m.about = None THEN {l \in {"live"} : ~replayed}
                      ELSE {l \in {"waiting", "stopping"} : m.about = move /\ m.state \in Terminal}
                             \union {l \in {"watching"} :
                                       /\ move # 0
                                       /\ IF m.about = move THEN m.state = "far"
                                          ELSE actions[move] = "far"}
           answers == IF m.method = None THEN {} ELSE Answers(m.method)
           labels == answers \union (IF New THEN reached ELSE {})
<1>1. /\ Reads /\ SameBounds /\ Head(to_agent) = m /\ m.kind = "status"
      /\ 1 \in DOMAIN to_agent /\ MessageOK(m) /\ conn = "up"
  BY ReadingReads DEF ReadStatus, Reads
<1>2. future' = Resolve(labels, "done")
  BY <1>1 DEF ReadStatus, New
<1>3. /\ latest' = latest
      /\ ~New => SameAgent /\ actions' = actions
      /\ New => /\ last_status_seq' = m.seq /\ DoneReplaying
                /\ session_state' = (IF m.about = None THEN m.state ELSE session_state)
                /\ ready' = (IF m.about = None /\ m.state = "closed" THEN None ELSE ready)
                /\ actions' = (IF m.about = None THEN actions ELSE [actions EXCEPT ![m.about] = m.state])
      /\ live' = (IF live = "pending" /\ New /\ m.about = None /\ ~replayed THEN "done" ELSE live)
  BY <1>1 DEF ReadStatus, New, SameAgent, DoneReplaying
<1>4. reached \subseteq {"live", "waiting", "stopping", "watching"} /\ answers \subseteq {"moving", "cancelling"}
  BY <1>1, Methods DEF MessageOK
<1>5. CASE m.method # None
  <2>1. Response(m) /\ labels \subseteq Labels /\ Answers(m.method) \subseteq labels
    BY <1>1, <1>4, <1>5 DEF Response, Labels
  <2>2. Answers1("done") /\ pc \in Answers(m.method)
    BY <1>1, <1>2, <2>1, AnswerRead
  <2>3. AnswersOrNot /\ m.about # None
    BY <1>1, <1>4, <1>5, <2>2 DEF AnswersOrNot, MessageOK
  <2> QED BY <1>1, <1>3, <2>3 DEF DoReadOld, DoReadAction, IsStatus
<1>6. CASE m.method = None /\ ~New
  <2>1. future' = future
    BY <1>2, <1>6 DEF Resolve
  <2> QED BY <1>1, <1>3, <1>6, <2>1 DEF DoReadOld, AnswersOrNot, IsStatus
<1>7. CASE m.method = None /\ New /\ m.about = None
  <2>1. future' = (IF future = "pending" /\ pc = "live" /\ ~Replayed THEN "done" ELSE future)
    BY <1>2, <1>7 DEF Resolve, Replayed
  <2> QED BY <1>1, <1>3, <1>7, <2>1 DEF DoReadState, IsStatus, Replayed
<1>8. CASE m.method = None /\ New /\ m.about # None
  <2>1. \/ future' = future
        \/ /\ future = "pending" /\ future' = "done"
           /\ \/ pc \in {"waiting", "stopping"} /\ m.about = move /\ m.state \in Terminal
              \/ pc = "watching"
    BY <1>2, <1>8 DEF Resolve
  <2> QED BY <1>1, <1>3, <1>8, <2>1 DEF DoReadAction, IsStatus, AnswersOrNot
<1> QED BY <1>5, <1>6, <1>7, <1>8

\* An integer out of range ends the connection.
LEMMA ReadRangeDoes ==
  ASSUME Typed, ReadRange
  PROVE  DoReadRange
<1>1. Shorter(to_agent, to_agent') /\ to_agent[1] = Head(to_agent)
  <2>1. Shorter(to_agent, Tail(to_agent))
    BY Remaining DEF Typed, ReadRange
  <2> QED BY <2>1 DEF Shorter, ReadRange
<1>2. CASE pc = "watching" /\ future = "pending"
  BY <1>1, <1>2 DEF ReadRange, DoReadRange, SameProgram, SameWorld, program, world
<1>3. CASE ~(pc = "watching" /\ future = "pending") /\ (ready = None \/ session_state = "closed")
  <2>1. to_world' = to_world \o <<>> /\ to_world \o <<>> = to_world
    <3>1. IsSeq(to_world \o <<>>) /\ Len(to_world \o <<>>) = Len(to_world)
      BY Concatenated, Single DEF Typed
    <3>2. \A i \in 1..Len(to_world) : (to_world \o <<>>)[i] = to_world[i]
      BY Concatenated, Single DEF Typed
    <3> QED BY <1>3, <3>1, <3>2 DEF ReadRange, Farewell, IsSeq, Typed
  <2> QED BY <1>1, <1>3, <2>1 DEF ReadRange, DoReadRange, SameProgram, SameWorld, program, world
<1>4. CASE ~(pc = "watching" /\ future = "pending") /\ ~(ready = None \/ session_state = "closed")
  <2>1. Longer(to_world, to_world', [method |-> "close"])
    BY <1>4, OneBehind DEF ReadRange, Farewell, Typed
  <2> QED BY <1>1, <1>4, <2>1 DEF ReadRange, DoReadRange, SameProgram, SameWorld, program, world
<1> QED BY <1>2, <1>3, <1>4

\* What a connection takes with it.
LEMMA DownFalls ==
  ASSUME Down, to_world' = <<>>
  PROVE  Falls
BY Single DEF Down, Falls, Failed, SameProgram, program

\* The reader, at one message.
LEMMA ReaderDoes ==
  ASSUME Typed, Asked, OneAnswer, Reader
  PROVE  DoReader
<1>1. CASE ReadFrame
  <2>1. Reads /\ SameBounds /\ to_agent[1].kind = "frame"
    BY <1>1, ReadingReads DEF ReadFrame
  <2> QED BY <1>1, <2>1 DEF ReadFrame, DoReadFrame, DoReader
<1>2. CASE FinishEnding
  BY <1>2, DownFalls, Single DEF FinishEnding, DoFinish, DoReader, SameBounds, bounds
<1> QED BY <1>1, <1>2, ReadResultDoes, ReadErrorDoes, ReadStatusDoes, ReadRangeDoes DEF Reader, DoReader

-----------------------------------------------------------------------------
(* The steps of the world                                                  *)

\* The world takes the first request, which is the one that is awaited, or a farewell.
LEMMA HandlingTakes ==
  ASSUME Typed, Asked, NEW method, Handling(method)
  PROVE  /\ Takes(method) /\ Asks /\ Head(to_world) = to_world[1] /\ 1 \in DOMAIN to_world
         /\ RequestOK(to_world[1])
         /\ method # "close" \/ conn = "up" => pc \in Answers(method) /\ future = "pending"
<1>1. Shorter(to_world, Tail(to_world))
  BY Remaining DEF Typed, Handling
<1>2. 1 \in DOMAIN to_world /\ Head(to_world) = to_world[1] /\ to_world[1].method = method
  BY <1>1 DEF Shorter, Handling
<1>3. RequestOK(to_world[1])
  BY <1>2 DEF Typed
<1>4. Takes(method)
  BY <1>1, <1>2 DEF Takes, Handling, SameClient, SameAgent, SameProgram, agent, program
<1>5. method # "close" \/ conn = "up" => pc \in Answers(method) /\ future = "pending"
  BY <1>2 DEF Asked, Awaited
<1>6. ASSUME conn = "up" PROVE DOMAIN to_world' = {}
  <2>1. \A i \in DOMAIN to_world : i = 1
    BY <1>6 DEF Asked, RequestTrue
  <2>2. Len(to_world') = 0
    <3>1. 1 + Len(to_world') \in DOMAIN to_world /\ Len(to_world') \in Nat
      BY <1>4 DEF Takes, Shorter
    <3> QED BY <2>1, <3>1
  <2> QED BY <1>4, <2>2 DEF Takes, Shorter
<1> QED BY <1>2, <1>3, <1>4, <1>5, <1>6 DEF Asks, Asked

\* The world says one thing.
LEMMA TellTells ==
  ASSUME Typed, NEW m, Tell(<<m>>)
  PROVE  Tells(m)
BY OneBehind DEF Tell, Tells, Typed

\* What the world sends on a connection that carries nothing: two messages, or three.
LEMMA TellTwo ==
  ASSUME NEW a, NEW b
  PROVE  LET t == <<>> \o (<<a, b>> \o <<>>)
         IN  DOMAIN t = 1..2 /\ t[1] = a /\ t[2] = b /\ IsSeq(t)
<1> DEFINE u == <<a, b>> \o <<>>
<1>0. IsSeq(<<a, b>>) /\ Len(<<a, b>>) = 2 /\ <<a, b>>[1] = a /\ <<a, b>>[2] = b
  BY DEF IsSeq
<1>1. IsSeq(u) /\ Len(u) = 2 /\ u[1] = a /\ u[2] = b
  <2>1. IsSeq(u) /\ Len(u) = 2 + 0 /\ \A i \in 1..2 + 0 : u[i] = IF i <= 2 THEN <<a, b>>[i] ELSE <<>>[i - 2]
    BY <1>0, Concatenated, Single
  <2> QED BY <1>0, <2>1
<1> HIDE DEF u
<1>2. IsSeq(<<>> \o u) /\ Len(<<>> \o u) = 0 + 2
      /\ \A i \in 1..0 + 2 : (<<>> \o u)[i] = IF i <= 0 THEN <<>>[i] ELSE u[i - 0]
  BY <1>1, Concatenated, Single
<1> QED BY <1>1, <1>2, Indices DEF u

LEMMA TellThree ==
  ASSUME NEW a, NEW b, NEW c
  PROVE  LET t == <<>> \o (<<a, b>> \o <<c>>)
         IN  DOMAIN t = 1..3 /\ t[1] = a /\ t[2] = b /\ t[3] = c /\ IsSeq(t)
<1> DEFINE u == <<a, b>> \o <<c>>
<1>0. IsSeq(<<a, b>>) /\ Len(<<a, b>>) = 2 /\ <<a, b>>[1] = a /\ <<a, b>>[2] = b
  BY DEF IsSeq
<1>1. IsSeq(u) /\ Len(u) = 3 /\ u[1] = a /\ u[2] = b /\ u[3] = c
  <2>1. IsSeq(u) /\ Len(u) = 2 + 1 /\ \A i \in 1..2 + 1 : u[i] = IF i <= 2 THEN <<a, b>>[i] ELSE <<c>>[i - 2]
    BY <1>0, Concatenated, Single
  <2> QED BY <1>0, <2>1, Single
<1> HIDE DEF u
<1>2. IsSeq(<<>> \o u) /\ Len(<<>> \o u) = 0 + 3
      /\ \A i \in 1..0 + 3 : (<<>> \o u)[i] = IF i <= 0 THEN <<>>[i] ELSE u[i - 0]
  BY <1>1, Concatenated, Single
<1> QED BY <1>1, <1>2, Indices DEF u

\* session.open: the result, the first status and a frame, unless that is late.
LEMMA HandleOpenDoes ==
  ASSUME Typed, Asked, HandleOpen
  PROVE  DoHandleOpen
<1>1. /\ Takes("open") /\ Asks /\ 1 \in DOMAIN to_world /\ to_world[1].method = "open"
      /\ pc = "opening" /\ future = "pending"
  BY HandlingTakes, Methods DEF HandleOpen, Takes
<1>2. conn = "up" /\ to_agent = <<>> /\ ready = None
  BY <1>1 DEF Asked, RequestTrue
<1>3. IsSeq(log') /\ DOMAIN log' = {1} /\ log'[1] = Entry(None, "ready")
  BY Single DEF HandleOpen
<1>4. sessions + 1 \in 1..MaxSessions
  BY Names DEF Typed, HandleOpen
<1> DEFINE a == [kind |-> "result", method |-> "open", token |-> sessions + 1]
           b == Status(1, None, "ready")
           c == [kind |-> "frame"]
<1>5. PICK late \in {FALSE, "slow" \in Faults} :
        /\ to_agent' = <<>> \o (<<a, b>> \o IF late THEN <<>> ELSE <<c>>)
        /\ happened' = IF late THEN happened \union {"slow"} ELSE happened
  BY <1>2 DEF HandleOpen, Tell
<1> HIDE DEF a, b, c
<1>6. CASE late
  <2>0. to_agent' = <<>> \o (<<a, b>> \o <<>>)
    BY <1>5, <1>6
  <2>1. DOMAIN to_agent' = 1..2 /\ to_agent'[1] = a /\ to_agent'[2] = b /\ IsSeq(to_agent')
    BY <2>0, TellTwo
  <2> QED BY <1>1, <1>2, <1>3, <1>4, <1>5, <1>6, <2>1, Single DEF DoHandleOpen, HandleOpen, a, b
<1>7. CASE ~late
  <2>0. to_agent' = <<>> \o (<<a, b>> \o <<c>>)
    BY <1>5, <1>7
  <2>1. DOMAIN to_agent' = 1..3 /\ to_agent'[1] = a /\ to_agent'[2] = b /\ to_agent'[3] = c /\ IsSeq(to_agent')
    BY <2>0, TellThree
  <2> QED BY <1>1, <1>2, <1>3, <1>4, <1>5, <1>7, <2>1, Single DEF DoHandleOpen, HandleOpen, a, b, c
<1> QED BY <1>6, <1>7

\* The replay is a sequence, if it is empty as well.
LEMMA Replay ==
  ASSUME NEW n \in Nat, NEW seen \in Nat, NEW s, s = [i \in 1..(n - seen) |-> s[i]]
  PROVE  /\ IsSeq(s) /\ Len(s) \in Nat
         /\ \A i \in 1..Len(s) : i \in 1..(n - seen) /\ seen + i \in 1..n
<1>1. PICK k \in Nat : 1..(n - seen) = 1..k
  <2>1. CASE seen <= n
    BY <2>1
  <2>2. CASE seen > n
    <3>1. 1..(n - seen) = 1..0
      BY <2>2
    <3> QED BY <3>1
  <2> QED BY <2>1, <2>2
<1> DEFINE S == {s[i] : i \in 1..k}
<1>2. s = [i \in 1..k |-> s[i]] /\ DOMAIN s = 1..k
  BY <1>1
<1>3. \A i \in 1..k : s[i] \in S
  OBVIOUS
<1> HIDE DEF S
<1>4. s \in [1..k -> S]
  BY <1>2, <1>3
<1>5. s \in Seq(S)
  BY <1>4
<1>6. IsSeq(s)
  BY <1>5, Ordinary
<1>7. Len(s) \in Nat /\ DOMAIN s = 1..Len(s)
  BY <1>6, Indices
<1>8. ASSUME NEW i \in 1..Len(s) PROVE i \in 1..(n - seen) /\ seen + i \in 1..n
  <2>1. i \in 1..(n - seen)
    BY <1>1, <1>2, <1>7
  <2> QED BY <2>1
<1> QED BY <1>6, <1>7, <1>8

\* session.resume: the result, the replay and the live state, or the refusal.
LEMMA HandleResumeDoes ==
  ASSUME Typed, Asked, Attached, HandleResume
  PROVE  DoHandleResume \/ DoHandleUnknown
<1>1. /\ Takes("resume") /\ Asks /\ 1 \in DOMAIN to_world /\ to_world[1].method = "resume"
      /\ pc = "resuming" /\ future = "pending" /\ RequestOK(to_world[1]) /\ Head(to_world) = to_world[1]
  BY HandlingTakes, Methods DEF HandleResume, Takes
<1>2. /\ conn = "up" /\ to_agent = <<>> /\ ~attached
      /\ to_world[1].token = ready /\ to_world[1].last = last_status_seq /\ ready \in 1..MaxSessions
      /\ last_status_seq \in Nat
  BY <1>1 DEF Asked, RequestTrue, RequestOK
<1>3. DOMAIN to_agent = {} /\ ready # None
  BY <1>2, Single, Names
<1>4. CASE held = ready
  <2> DEFINE n == Len(log)
             a == [kind |-> "result", method |-> "resume", replay_to |-> n]
             s == [i \in 1..(n - last_status_seq) |-> Logged(last_status_seq + i)]
             z == Status(n + 1, None, "active")
  <2>1. to_agent' = <<>> \o (<<a>> \o s \o <<z>>) /\ log' = Append(log, Entry(None, "active")) /\ attached' = TRUE
    BY <1>1, <1>2, <1>4 DEF HandleResume, Tell
  <2>2. n \in Nat /\ DOMAIN log = 1..n
    BY Indices DEF Typed
  <2>3. IsSeq(s) /\ Len(s) \in Nat /\ \A i \in 1..Len(s) : s[i] = Logged(last_status_seq + i)
          /\ last_status_seq + i \in 1..n
    <3>1. s = [i \in 1..(n - last_status_seq) |-> s[i]]
      OBVIOUS
    <3>2. \A i \in 1..(n - last_status_seq) : s[i] = Logged(last_status_seq + i)
      OBVIOUS
    <3> HIDE DEF s, n
    <3> QED BY <1>2, <2>2, <3>1, <3>2, Replay
  <2> HIDE DEF s, a, z
  <2> DEFINE u == <<a>> \o s
  <2>4. /\ IsSeq(u) /\ Len(u) = 1 + Len(s)
        /\ \A i \in 1..1 + Len(s) : u[i] = IF i <= 1 THEN <<a>>[i] ELSE s[i - 1]
    BY <2>3, Concatenated, Single
  <2> HIDE DEF u
  <2> DEFINE v == u \o <<z>>
  <2>5. Longer(u, v, z)
    BY <2>4, OneBehind
  <2>6. IsSeq(v) /\ Len(v) \in Nat /\ DOMAIN v = 1..Len(v)
    BY <2>5 DEF Longer
  <2> HIDE DEF v
  <2>7. IsSeq(<<>> \o v) /\ Len(<<>> \o v) = 0 + Len(v)
        /\ \A i \in 1..0 + Len(v) : (<<>> \o v)[i] = IF i <= 0 THEN <<>>[i] ELSE v[i - 0]
    BY <2>6, Concatenated, Single
  <2>8. IsSeq(to_agent') /\ DOMAIN to_agent' = 1..Len(v) /\ \A i \in 1..Len(v) : to_agent'[i] = v[i]
    BY <2>1, <2>6, <2>7, Indices DEF u, v
  <2>9. to_agent'[1] = a /\ 1 \in DOMAIN to_agent'
    BY <2>3, <2>4, <2>5, <2>8, Single DEF Longer
  <2>10. ASSUME NEW i \in DOMAIN to_agent', i # 1
         PROVE  \/ to_agent'[i] = z
                \/ \E k \in DOMAIN log : k > last_status_seq /\ to_agent'[i] = Logged(k)
    <3>1. CASE i = Len(v)
      BY <2>4, <2>5, <2>8, <3>1 DEF Longer
    <3>2. CASE i # Len(v)
      <4>1. to_agent'[i] = s[i - 1] /\ i - 1 \in 1..Len(s)
        BY <2>3, <2>4, <2>5, <2>8, <2>10, <3>2 DEF Longer
      <4>2. to_agent'[i] = Logged(last_status_seq + (i - 1)) /\ last_status_seq + (i - 1) \in DOMAIN log
        BY <2>2, <2>3, <4>1
      <4>3. last_status_seq + (i - 1) > last_status_seq
        BY <1>2, <2>3, <4>1
      <4> QED BY <4>2, <4>3
    <3> QED BY <3>1, <3>2
  <2>11. Longer(log, log', Entry(None, "active"))
    BY <2>1, Behind DEF Typed
  <2>12. DoHandleResume
    BY <1>1, <1>2, <1>3, <1>4, <2>1, <2>8, <2>9, <2>10, <2>11 DEF DoHandleResume, HandleResume, a, z,
      SameBounds, bounds
  <2> QED BY <2>12
<1>5. CASE held # ready
  <2>1. held = None
    BY <1>3, <1>5 DEF Attached
  <2>2. Tell(<<[kind |-> "error", method |-> "resume"]>>) /\ UNCHANGED <<attached, log>>
    BY <1>1, <1>2, <1>5 DEF HandleResume
  <2>3. Longer(to_agent, to_agent', [kind |-> "error", method |-> "resume"])
    BY <1>2, <2>2, TellTells DEF Tells
  <2> QED BY <1>1, <1>2, <1>3, <2>1, <2>2, <2>3 DEF DoHandleUnknown, HandleResume, SameWorld, SameBounds, bounds
<1> QED BY <1>4, <1>5

DoHandle ==
  \/ DoHandleOpen \/ DoHandleResume \/ DoHandleUnknown \/ DoHandleSubmit \/ DoHandleRefuse
  \/ DoHandleCancel \/ DoHandleOther \/ DoHandleClose

\* The world, at one request.
LEMMA HandleDoes ==
  ASSUME Typed, Asked, Attached, Handle
  PROVE  DoHandle
<1> USE DEF DoHandle
<1>1. CASE HandleSubmit
  <2> DEFINE r == to_world[1]
  <2>1. /\ Takes("submit") /\ Asks /\ 1 \in DOMAIN to_world /\ r.method = "submit"
        /\ pc = "moving" /\ future = "pending" /\ RequestOK(r) /\ Head(to_world) = r
    BY <1>1, HandlingTakes, Methods DEF HandleSubmit, Takes
  <2>2. r.id = move /\ act[move] = None /\ move \in Moves
    BY <2>1 DEF Asked, RequestTrue, RequestOK
  <2>3. CASE held # None /\ move # RefusedMove
    <3>1. /\ act' = [act EXCEPT ![move] = "executing"] /\ log' = Append(log, Entry(move, "executing"))
          /\ Tell(<<Replied(Status(Len(log) + 1, move, "executing"), "submit")>>)
      BY <1>1, <2>1, <2>2, <2>3 DEF HandleSubmit
    <3>2. Longer(log, log', Entry(move, "executing"))
      BY <3>1, Behind DEF Typed
    <3>3. Tells(Replied(Status(Len(log) + 1, move, "executing"), "submit"))
      BY <3>1, TellTells
    <3> QED BY <1>1, <2>1, <2>2, <2>3, <3>1, <3>2, <3>3 DEF HandleSubmit, DoHandleSubmit, SameBounds, bounds
  <2>4. CASE ~(held # None /\ move # RefusedMove)
    <3>1. Tell(<<[kind |-> "error", method |-> "submit"]>>) /\ UNCHANGED <<act, log>>
      BY <1>1, <2>1, <2>2, <2>4 DEF HandleSubmit
    <3>2. Tells([kind |-> "error", method |-> "submit"])
      BY <3>1, TellTells
    <3>3. conn = "up" => move = RefusedMove
      BY <2>1, <2>4 DEF Attached, Serving, Typed
    <3> QED BY <1>1, <2>1, <3>1, <3>2, <3>3 DEF HandleSubmit, DoHandleRefuse, SameWorld, SameBounds, bounds
  <2> QED BY <2>3, <2>4
<1>2. CASE HandleCancel
  <2> DEFINE r == to_world[1]
  <2>1. /\ Takes("cancel") /\ Asks /\ 1 \in DOMAIN to_world /\ r.method = "cancel"
        /\ pc = "cancelling" /\ future = "pending" /\ RequestOK(r) /\ Head(to_world) = r
    BY <1>2, HandlingTakes, Methods DEF HandleCancel, Takes
  <2>2. r.id = move /\ act[move] \in Running /\ held # None /\ move \in Moves
    BY <2>1 DEF Asked, RequestTrue, RequestOK
  <2>3. /\ log' = Append(log, Entry(move, act[move]))
        /\ Tell(<<Replied(Status(Len(log) + 1, move, act[move]), "cancel")>>)
    BY <1>2, <2>1, <2>2 DEF HandleCancel
  <2>4. Longer(log, log', Entry(move, act[move]))
    BY <2>3, Behind DEF Typed
  <2>5. Tells(Replied(Status(Len(log) + 1, move, act[move]), "cancel"))
    BY <2>3, TellTells
  <2> QED BY <1>2, <2>1, <2>2, <2>4, <2>5 DEF HandleCancel, DoHandleCancel, SameBounds, bounds
<1>3. CASE HandleOther
  <2>1. PICK method \in {"ping", "initialize"} : Handling(method)
    BY <1>3 DEF HandleOther
  <2>2. /\ Takes(method) /\ Asks /\ pc \in Answers(method) /\ future = "pending" /\ Head(to_world).method = method
    BY <2>1, HandlingTakes DEF Handling
  <2>3. Tells([kind |-> "result", method |-> method])
    BY <1>3, <2>2, TellTells DEF HandleOther
  <2> QED BY <1>3, <2>2, <2>3, Methods DEF HandleOther, DoHandleOther, SameWorld, SameBounds, world, bounds
<1>4. CASE HandleClose
  <2> DEFINE a == Status(Len(log) + 1, None, "closed")
             b == [kind |-> "result", method |-> "close"]
  <2>1. Takes("close") /\ Asks /\ (conn = "up" => pc = "closing" /\ future = "pending")
    BY <1>4, HandlingTakes, Methods DEF HandleClose
  <2>2. held' = None /\ attached' = FALSE /\ act' = Gone /\ log' = <<>> /\ sessions' = sessions /\ SameBounds
        /\ Tell(<<a, b>>)
    BY <1>4 DEF HandleClose, SameBounds, bounds
  <2>3. ASSUME conn = "up" PROVE \E t : Longer(to_agent, t, a) /\ Longer(t, to_agent', b)
    <3> HIDE DEF a, b
    <3> DEFINE t == to_agent \o <<a>>
    <3>1. Longer(to_agent, t, a)
      BY OneBehind DEF Typed
    <3>2. Longer(t, t \o <<b>>, b)
      BY <3>1, OneBehind DEF Longer
    <3>3. to_agent' = to_agent \o <<a, b>>
      BY <2>2, <2>3 DEF Tell
    <3>4. IsSeq(<<a, b>>) /\ Len(<<a, b>>) = 2 /\ <<a, b>>[1] = a /\ <<a, b>>[2] = b
      BY DEF IsSeq
    <3>5. /\ IsSeq(to_agent') /\ Len(to_agent') = Len(to_agent) + 2 /\ Len(to_agent) \in Nat
          /\ \A i \in 1..Len(to_agent) + 2 : to_agent'[i] = IF i <= Len(to_agent) THEN to_agent[i] ELSE <<a, b>>[i - Len(to_agent)]
      BY <3>3, <3>4, Concatenated, Indices DEF Typed
    <3> HIDE DEF t
    <3>6. Longer(t, to_agent', b)
      BY <3>1, <3>4, <3>5, Indices DEF Longer
    <3> QED BY <3>1, <3>6
  <2> QED BY <2>1, <2>2, <2>3, Single DEF DoHandleClose, Tell
<1> QED BY <1>1, <1>2, <1>3, <1>4, HandleOpenDoes, HandleResumeDoes DEF Handle

DoOther == DoLose \/ DoAdvance \/ DoForget \/ DoTell \/ DoNothing

\* Every step does one of these.
LEMMA NextDoes ==
  ASSUME Typed, Asked, OneAnswer, Attached, RecordTrue, Moved, [Next]_vars
  PROVE  DoProgram \/ DoReader \/ DoHandle \/ DoOther
<1>1. CASE Lose
  BY <1>1, DownFalls, Names DEF Lose, DoLose, DoOther
<1>2. ASSUME NEW id \in Moves, NEW state \in States, Advance(id, state) PROVE DoAdvance
  <2>1. id = move /\ held # None /\ state \in {"far"} \union Terminal
    BY <1>2 DEF Advance, Moved
  <2>2. Longer(log, log', Entry(id, state))
    BY <1>2, Behind DEF Advance, Typed
  <2>3. attached => Tells(Status(Len(log) + 1, id, state))
    BY <1>2, TellTells DEF Advance
  <2> QED BY <1>2, <2>1, <2>2, <2>3
       DEF Advance, DoAdvance, SameClient, SameAgent, SameProgram, SameBounds, agent, program, bounds
<1>3. CASE Forget
  BY <1>3, Single DEF Forget, DoForget, SameClient, SameAgent, SameProgram, SameBounds, agent, program, bounds,
    DoOther
<1>4. CASE LateFrame
  BY <1>4, TellTells
     DEF LateFrame, DoTell, SameClient, SameAgent, SameProgram, SameWorld, agent, program, world, bounds, DoOther
<1>5. CASE OutOfRange
  BY <1>5, TellTells
     DEF OutOfRange, DoTell, SameClient, SameAgent, SameProgram, SameWorld, agent, program, world, DoOther
<1>6. CASE UNCHANGED vars
  BY <1>6 DEF vars, DoNothing, SameClient, SameAgent, SameProgram, SameWorld, SameBounds, agent, program, world,
              bounds, DoOther
<1> QED BY <1>1, <1>2, <1>3, <1>4, <1>5, <1>6, ProgramDoes, ReaderDoes, HandleDoes DEF Next, DoOther

-----------------------------------------------------------------------------
(* The messages after a step                                               *)

\* What remains of the messages, the requests, the log, with one less or one more.
LEMMA ReadsElements ==
  ASSUME Shorter(to_agent, to_agent')
  PROVE  /\ IsSeq(to_agent') /\ 1 \in DOMAIN to_agent
         /\ \A i \in DOMAIN to_agent' : i \in Nat /\ i >= 1 /\ i + 1 \in DOMAIN to_agent
              /\ to_agent'[i] = to_agent[i + 1]
BY DEF Shorter

LEMMA TakesElements ==
  ASSUME Shorter(to_world, to_world')
  PROVE  /\ IsSeq(to_world') /\ 1 \in DOMAIN to_world
         /\ \A i \in DOMAIN to_world' : i \in Nat /\ i >= 1 /\ i + 1 \in DOMAIN to_world
              /\ to_world'[i] = to_world[i + 1]
         /\ \A i \in DOMAIN to_world : i = 1 \/ (i - 1 \in DOMAIN to_world' /\ to_world'[i - 1] = to_world[i])
BY DEF Shorter

LEMMA LongerElements ==
  ASSUME NEW s, NEW t, NEW m, Longer(s, t, m)
  PROVE  /\ IsSeq(t)
         /\ \A i \in DOMAIN s : i \in DOMAIN t /\ t[i] = s[i] /\ i <= Len(s) /\ i >= 1 /\ i \in Nat
         /\ \A i \in DOMAIN t : (i \in DOMAIN s /\ t[i] = s[i]) \/ (i = Len(s) + 1 /\ t[i] = m)
         /\ Len(s) + 1 \in DOMAIN t /\ t[Len(s) + 1] = m /\ Len(s) \in Nat
BY DEF Longer

LEMMA TellsElements ==
  ASSUME Typed, NEW m, Tells(m)
  PROVE  /\ IsSeq(to_agent') /\ Len(to_agent) \in Nat
         /\ \A i \in DOMAIN to_agent : i \in DOMAIN to_agent' /\ to_agent'[i] = to_agent[i]
              /\ i <= Len(to_agent) /\ i \in Nat /\ i >= 1
         /\ \A i \in DOMAIN to_agent' : \/ i \in DOMAIN to_agent /\ to_agent'[i] = to_agent[i]
                                        \/ conn = "up" /\ i = Len(to_agent) + 1 /\ to_agent'[i] = m
         /\ conn = "up" => Len(to_agent) + 1 \in DOMAIN to_agent' /\ to_agent'[Len(to_agent) + 1] = m
<1>1. IsSeq(to_agent) /\ DOMAIN to_agent = 1..Len(to_agent) /\ Len(to_agent) \in Nat
  BY Indices DEF Typed
<1>2. CASE conn = "up"
  BY <1>1, <1>2, LongerElements DEF Tells
<1>3. CASE conn # "up"
  BY <1>1, <1>3 DEF Tells
<1> QED BY <1>2, <1>3

\* The session that ends leaves no action that goes on.
LEMMA GoneActions ==
  ASSUME Typed
  PROVE  /\ Gone \in [Moves -> {None, "gone"} \union Running]
         /\ \A id \in Moves : /\ Gone[id] \notin {"executing", "far"}
                              /\ Gone[id] = None <=> act[id] = None
                              /\ act[id] \in Terminal => Gone[id] = act[id]
                              /\ act[id] = "gone" => Gone[id] = "gone"
BY NoneIsOther DEF Gone, Typed, Running, Terminal

-----------------------------------------------------------------------------
(* Types                                                                   *)

\* What the parts of the type invariant say of the variables of one side.
AgentTyped ==
  /\ session_state \in {None, "ready", "active", "suspended", "closed"}
  /\ ready \in {None} \union 1..MaxSessions
  /\ actions \in [Moves -> {None} \union States]
  /\ last_status_seq \in Nat /\ replay_to \in {None} \union Nat
  /\ conn \in {"up", "ending", "down"} /\ latest \in BOOLEAN
  /\ future \in {"pending", "done", "error", "refused"} /\ live \in {None, "pending", "done", "error"}

ProgramTyped ==
  /\ pc \in Labels \union Ends /\ move \in 0..RefusedMove /\ samples \in 0..Samples
  /\ outcome \in [Moves -> {None, "lost"} \union States]
  /\ live # None => pc \in {"resuming", "live"} \union Ends
  /\ move > CancelledMove => pc \in {"moving", "closing"} \union Ends
  /\ move = 0 => pc \in {"opening", "sampling"} \union Ends
  /\ pc = "resuming" => live # None

WorldTyped ==
  /\ act \in [Moves -> {None, "gone"} \union Running]
  /\ held \in {None} \union 1..MaxSessions /\ sessions \in 0..MaxSessions /\ losses \in Nat
  /\ attached \in BOOLEAN
  /\ held = None => ~attached /\ log = <<>>
  /\ IsSeq(log)
  /\ \A k \in DOMAIN log : EntryOK(log[k])

WireTyped ==
  /\ conn = "down" => to_world = <<>> /\ to_agent = <<>>
  /\ IsSeq(to_world) /\ IsSeq(to_agent)
  /\ \A i \in DOMAIN to_world : RequestOK(to_world[i])
  /\ \A i \in DOMAIN to_agent : MessageOK(to_agent[i])

\* Together they are all of it, before a step and after.
LEMMA TypedParts == Typed <=> AgentTyped /\ ProgramTyped /\ WorldTyped /\ WireTyped
BY DEF Typed, TypeOK, AgentTyped, ProgramTyped, WorldTyped, WireTyped

LEMMA TypedNext == AgentTyped' /\ ProgramTyped' /\ WorldTyped' /\ WireTyped' => Typed'
BY DEF Typed, TypeOK, AgentTyped, ProgramTyped, WorldTyped, WireTyped

\* Where nothing changes.
LEMMA TypedSame ==
  /\ WorldTyped /\ SameWorld /\ losses' = losses => WorldTyped'
  /\ WireTyped /\ UNCHANGED <<conn, to_world, to_agent>> => WireTyped'
  /\ ProgramTyped /\ SameProgram /\ live' = live => ProgramTyped'
BY DEF WorldTyped, WireTyped, ProgramTyped, SameWorld, SameProgram, RequestOK, MessageOK, EntryOK, StateOK

\* A call keeps the types of what is under way.
LEMMA CallTyped ==
  ASSUME Typed, NEW r, Called(r), RequestOK(r), UNCHANGED <<conn, to_agent>>
  PROVE  WireTyped' /\ future' \in {"pending", "error"}
<1>1. CASE conn = "up"
  <2>1. \A i \in DOMAIN to_world' : to_world'[i] = r
    BY <1>1 DEF Called
  <2> QED BY <1>1, <2>1, TypedParts DEF Called, WireTyped, RequestOK, MessageOK, StateOK
<1>2. CASE conn # "up"
  BY <1>2, TypedParts DEF Called, WireTyped, RequestOK, MessageOK, StateOK
<1> QED BY <1>1, <1>2

\* The program keeps the types.
LEMMA ProgramTypes ==
  ASSUME Typed, Attached, Held, DoProgram
  PROVE  Typed'
<1> USE Names DEF AgentTyped, ProgramTyped
<1>0. AgentTyped /\ ProgramTyped /\ WorldTyped /\ WireTyped
  BY TypedParts
<1>1. CASE DoPing
  <2>1. WireTyped' /\ future' \in {"pending", "error"}
    BY <1>1, CallTyped DEF DoPing, RequestOK, Still
  <2> QED BY <1>0, <1>1, <2>1, TypedSame, TypedNext DEF DoPing, Still, SameAgent, SameBounds, Labels, Ends
<1>2. CASE DoSubmit
  <2>1. RequestOK([method |-> "submit", id |-> move + 1]) /\ move \in Nat
    BY <1>0, <1>2 DEF DoSubmit, RequestOK
  <2>2. WireTyped' /\ future' \in {"pending", "error"}
    BY <1>2, <2>1, CallTyped DEF DoSubmit, Still
  <2>3. outcome' \in [Moves -> {None, "lost"} \union States] /\ actions' \in [Moves -> {None} \union States]
    BY <1>0, <1>2 DEF DoSubmit, Returned, States
  <2> QED BY <1>0, <1>2, <2>1, <2>2, <2>3, TypedSame, TypedNext DEF DoSubmit, Still, SameAgent, SameBounds,
        Labels, Ends, Returned
<1>3. CASE DoClose
  <2>1. WireTyped' /\ future' \in {"pending", "error"}
    BY <1>3, CallTyped DEF DoClose, RequestOK, Still
  <2> QED BY <1>0, <1>3, <2>1, TypedSame, TypedNext DEF DoClose, Still, SameAgent, SameBounds, Labels, Ends
<1>4. CASE DoCancel
  <2>1. RequestOK([method |-> "cancel", id |-> move])
    BY <1>0, <1>4 DEF DoCancel, RequestOK, Ends
  <2>2. WireTyped' /\ future' \in {"pending", "error"}
    BY <1>4, <2>1, CallTyped DEF DoCancel, Still
  <2> QED BY <1>0, <1>4, <2>2, TypedSame, TypedNext DEF DoCancel, Still, SameAgent, SameBounds, Labels, Ends
<1>5. CASE DoResume
  <2>1. conn = "up" => ready \in 1..MaxSessions
    <3>1. Phase
      BY <1>5 DEF DoResume, Phase
    <3> QED BY <1>0, <3>1 DEF Held
  <2>2. WireTyped' /\ future' \in {"pending", "error"}
    <3>1. CASE conn = "up"
      BY <1>0, <1>5, <2>1, <3>1, CallTyped DEF DoResume, Still, RequestOK
    <3>2. CASE conn # "up"
      BY <1>0, <1>5, <3>2, TypedSame DEF DoResume, Still, Called
    <3> QED BY <3>1, <3>2
  <2> QED BY <1>0, <1>5, <2>2, TypedSame, TypedNext, NoneIsOther DEF DoResume, Still, SameAgent, SameBounds,
        Labels, Ends
<1>6. CASE DoSettle
  <2>1. WireTyped' /\ future' \in {"pending", "error"}
    BY <1>6, CallTyped DEF DoSettle, RequestOK, Still
  <2> QED BY <1>0, <1>6, <2>1, TypedSame, TypedNext DEF DoSettle, Still, SameAgent, SameBounds, Labels, Ends
<1>7. CASE DoOpen
  <2>1. WireTyped' /\ future' \in {"pending", "error"}
    BY <1>7, CallTyped DEF DoOpen, RequestOK, Still
  <2> QED BY <1>0, <1>7, <2>1, TypedSame, TypedNext DEF DoOpen, Still, SameAgent, SameBounds, Labels, Ends
<1>8. CASE DoWait \/ DoWatch
  <2>1. WireTyped' /\ WorldTyped'
    BY <1>0, <1>8, TypedSame DEF DoWait, DoWatch, Still, SameBounds
  <2> QED BY <1>0, <1>8, <2>1, TypedNext DEF DoWait, DoWatch, Still, SameAgent, Labels, Ends
<1>9. CASE DoAwait
  <2>1. WireTyped' /\ WorldTyped'
    BY <1>0, <1>9, TypedSame DEF DoAwait, Still, SameBounds
  <2> QED BY <1>0, <1>9, <2>1, TypedNext DEF DoAwait, Still, SameAgent, Labels, Ends
<1>10. CASE DoStop
  <2>1. outcome' \in [Moves -> {None, "lost"} \union States]
    BY <1>0, <1>10 DEF DoStop, Returned, States
  <2> QED BY <1>0, <1>10, <2>1, TypedSame, TypedNext DEF DoStop, Still, SameAgent, SameBounds, Ends
<1>11. CASE DoGiveUp
  BY <1>0, <1>11, TypedSame, TypedNext DEF DoGiveUp, SameAgent, SameBounds, Ends
<1>12. CASE DoReconnect
  <2>1. WireTyped' /\ WorldTyped'
    BY <1>0, <1>12, Single DEF DoReconnect, SameBounds, WorldTyped, WireTyped
  <2> QED BY <1>0, <1>12, <2>1, TypedNext DEF DoReconnect, Labels, Ends, Retried
<1>13. CASE DoConnect
  <2>1. WireTyped'
    <3>1. \A i \in DOMAIN to_world' : RequestOK(to_world'[i])
      BY <1>13 DEF DoConnect, RequestOK
    <3> QED BY <1>0, <1>13, <3>1 DEF DoConnect, WireTyped
  <2> QED BY <1>0, <1>13, <2>1, TypedSame, TypedNext DEF DoConnect, SameAgent, SameBounds, Labels, Ends
<1> QED BY <1>1, <1>2, <1>3, <1>4, <1>5, <1>6, <1>7, <1>8, <1>9, <1>10, <1>11, <1>12, <1>13 DEF DoProgram

\* What is read has the type of what was under way.
LEMMA ReadTyped ==
  ASSUME WireTyped, Shorter(to_agent, to_agent'), conn = "up", UNCHANGED <<conn, to_world>>
  PROVE  WireTyped' /\ MessageOK(to_agent[1])
<1>1. IsSeq(to_agent') /\ \A i \in DOMAIN to_agent' : MessageOK(to_agent'[i])
  BY ReadsElements DEF WireTyped
<1>2. MessageOK(to_agent[1])
  BY ReadsElements DEF WireTyped
<1>3. \A i \in DOMAIN to_world' : RequestOK(to_world'[i])
  BY DEF WireTyped
<1> QED BY <1>1, <1>2, <1>3 DEF WireTyped

\* The reader keeps the types.
LEMMA ReaderTypes ==
  ASSUME Typed, DoReader
  PROVE  Typed'
<1> USE Names DEF AgentTyped, ProgramTyped
<1>0. AgentTyped /\ ProgramTyped /\ WorldTyped /\ WireTyped
  BY TypedParts
<1>1. CASE DoReadOpen \/ DoReadResume \/ DoReadClose \/ DoReadPong \/ DoReadUnknown \/ DoReadRefusal
  <2>1. /\ Reads /\ SameBounds /\ future' \in {"done", "refused"}
    BY <1>1 DEF DoReadOpen, DoReadResume, DoReadClose, DoReadPong, DoReadUnknown, DoReadRefusal, Answers1
  <2>2. /\ session_state' \in {None, "ready", "active", "suspended", "closed"}
        /\ ready' \in {None} \union 1..MaxSessions
        /\ last_status_seq' \in Nat
    <3>1. CASE DoReadOpen
      BY <3>1 DEF DoReadOpen
    <3> QED BY <1>0, <1>1, <3>1 DEF DoReadResume, DoReadClose, DoReadPong, DoReadUnknown, DoReadRefusal, SameAgent
  <2>7. latest' = latest \/ latest' = FALSE
    BY <1>1 DEF DoReadOpen, DoReadResume, DoReadClose, DoReadPong, DoReadUnknown, DoReadRefusal
  <2>8. live' = live \/ (live' = "done" /\ live = "pending")
    <3>1. CASE DoReadUnknown
      BY <3>1 DEF DoReadUnknown
    <3> QED BY <1>1, <3>1 DEF DoReadOpen, DoReadResume, DoReadClose, DoReadPong, DoReadRefusal
  <2>3. actions' \in [Moves -> {None} \union States]
    BY <1>0, <1>1
       DEF DoReadOpen, DoReadResume, DoReadClose, DoReadPong, DoReadUnknown, DoReadRefusal, SameAgent
  <2>4. WireTyped' /\ WorldTyped' /\ MessageOK(to_agent[1])
    BY <1>0, <2>1, ReadTyped, TypedSame DEF Reads, SameBounds
  <2>5. replay_to' \in {None} \union Nat
    BY <1>0, <1>1, <2>4
       DEF DoReadOpen, DoReadResume, DoReadClose, DoReadPong, DoReadUnknown, DoReadRefusal, SameAgent,
         MessageOK, IsResult
  <2>6. conn' \in {"up", "ending", "down"} /\ SameProgram
    BY <1>0, <2>1 DEF Reads
  <2> QED BY <1>0, <2>1, <2>2, <2>3, <2>4, <2>5, <2>6, <2>7, <2>8, TypedNext, NoneIsOther DEF SameProgram
<1>2. CASE DoReadOld \/ DoReadAction \/ DoReadState \/ DoReadFrame
  <2>1. Reads /\ SameBounds
    BY <1>2 DEF DoReadOld, DoReadAction, DoReadState, DoReadFrame
  <2>2. WireTyped' /\ WorldTyped' /\ MessageOK(to_agent[1])
    BY <1>0, <2>1, ReadTyped, TypedSame DEF Reads, SameBounds
  <2>3. future' = future \/ future' = "done"
    BY <1>2 DEF DoReadOld, DoReadAction, DoReadState, DoReadFrame, AnswersOrNot, Answers1
  <2>4. (live' = live \/ (live' = "done" /\ live = "pending")) /\ (latest' = latest \/ latest' = TRUE)
    <3>1. CASE DoReadState
      BY <3>1 DEF DoReadState
    <3> QED BY <1>2, <3>1 DEF DoReadOld, DoReadAction, DoReadFrame
  <2>5. session_state' \in {None, "ready", "active", "suspended", "closed"}
    BY <1>0, <1>2, <2>2 DEF DoReadOld, DoReadAction, DoReadState, DoReadFrame, SameAgent, MessageOK, IsStatus
  <2>6. ready' \in {None} \union 1..MaxSessions
    BY <1>0, <1>2 DEF DoReadOld, DoReadAction, DoReadState, DoReadFrame, SameAgent
  <2>7. last_status_seq' \in Nat /\ replay_to' \in {None} \union Nat
    BY <1>0, <1>2, <2>2 DEF DoReadOld, DoReadAction, DoReadState, DoReadFrame, SameAgent, MessageOK, IsStatus,
      DoneReplaying
  <2>8. actions' \in [Moves -> {None} \union States]
    <3>1. CASE DoReadAction
      <4>1. to_agent[1].about \in Moves /\ to_agent[1].state \in States
        BY <2>2, <3>1 DEF DoReadAction, MessageOK, IsStatus, StateOK, Running, States, Terminal
      <4> QED BY <1>0, <3>1, <4>1 DEF DoReadAction
    <3> QED BY <1>0, <1>2, <3>1 DEF DoReadOld, DoReadState, DoReadFrame
  <2>9. conn' \in {"up", "ending", "down"} /\ SameProgram
    BY <1>0, <2>1 DEF Reads
  <2> QED BY <1>0, <2>2, <2>3, <2>4, <2>5, <2>6, <2>7, <2>8, <2>9, TypedNext, NoneIsOther DEF SameProgram
<1>3. CASE DoReadRange
  <2>1. IsSeq(to_agent') /\ \A i \in DOMAIN to_agent' : MessageOK(to_agent'[i])
    BY <1>0, <1>3, ReadsElements DEF DoReadRange, WireTyped
  <2>2. IsSeq(to_world') /\ \A i \in DOMAIN to_world' : RequestOK(to_world'[i])
    <3>1. CASE Longer(to_world, to_world', [method |-> "close"])
      <4>1. RequestOK([method |-> "close"])
        BY DEF RequestOK
      <4> QED BY <1>0, <3>1, <4>1, LongerElements DEF WireTyped
    <3>2. CASE to_world' = to_world
      BY <1>0, <3>2 DEF WireTyped
    <3> QED BY <1>3, <3>1, <3>2 DEF DoReadRange
  <2>3. WireTyped' /\ WorldTyped'
    BY <1>0, <1>3, <2>1, <2>2, TypedSame DEF DoReadRange, WireTyped
  <2> QED BY <1>0, <1>3, <2>3, TypedNext, NoneIsOther DEF DoReadRange, SameProgram
<1>4. CASE DoFinish
  <2>1. WireTyped' /\ WorldTyped'
    BY <1>0, <1>4, Single DEF DoFinish, Falls, SameBounds, WireTyped, WorldTyped
  <2> QED BY <1>0, <1>4, <2>1, TypedNext, NoneIsOther DEF DoFinish, Falls, SameProgram
<1> QED BY <1>1, <1>2, <1>3, <1>4 DEF DoReader

\* What the world says has its type, and what it has taken had.
LEMMA TellsTyped ==
  ASSUME Typed, NEW m, MessageOK(m), Tells(m)
  PROVE  /\ IsSeq(to_agent') /\ \A i \in DOMAIN to_agent' : MessageOK(to_agent'[i])
         /\ conn = "down" => to_agent' = <<>>
<1>1. \A i \in DOMAIN to_agent' : MessageOK(to_agent'[i])
  BY TellsElements DEF Typed
<1> QED BY <1>1, TellsElements DEF Typed, TypeOK, Tells

LEMMA TakesTyped ==
  ASSUME WireTyped, NEW method, Takes(method), conn # "down"
  PROVE  IsSeq(to_world') /\ \A i \in DOMAIN to_world' : RequestOK(to_world'[i])
BY TakesElements DEF Takes, WireTyped

\* There is nothing to take from a connection that is down.
LEMMA NotDown ==
  ASSUME Typed, NEW method, Takes(method)
  PROVE  conn # "down"
BY TakesElements, Single DEF Takes, Typed, TypeOK

\* So has what it logs.
LEMMA LogTyped ==
  ASSUME WorldTyped, NEW e, EntryOK(e), Longer(log, log', e)
  PROVE  IsSeq(log') /\ \A k \in DOMAIN log' : EntryOK(log'[k])
BY LongerElements DEF WorldTyped

\* An agent and a program that nothing happens to.
LEMMA ClientTyped ==
  ASSUME AgentTyped, ProgramTyped, SameClient
  PROVE  AgentTyped' /\ ProgramTyped'
BY DEF AgentTyped, ProgramTyped, SameClient, SameAgent, SameProgram

\* The world keeps the types.
LEMMA WorldTypes ==
  ASSUME Typed, DoHandle \/ DoOther
  PROVE  Typed'
<1> USE Names
<1>0. AgentTyped /\ ProgramTyped /\ WorldTyped /\ WireTyped
  BY TypedParts
<1>1. CASE DoHandleOpen
  <2>1. AgentTyped' /\ ProgramTyped' /\ conn' = "up"
    BY <1>0, <1>1, ClientTyped DEF DoHandleOpen, Takes, SameClient
  <2>2. IsSeq(to_world') /\ \A i \in DOMAIN to_world' : RequestOK(to_world'[i])
    BY <1>0, <1>1, TakesTyped DEF DoHandleOpen
  <2>3. \A i \in DOMAIN to_agent' : MessageOK(to_agent'[i])
    <3>1. \A i \in DOMAIN to_agent' : i \in {1, 2} \/ (i = 3 /\ to_agent'[3] = [kind |-> "frame"])
      BY <1>1 DEF DoHandleOpen
    <3>2. MessageOK([kind |-> "frame"]) /\ MessageOK([kind |-> "result", method |-> "open", token |-> sessions + 1])
      BY <1>1 DEF MessageOK, DoHandleOpen
    <3>3. MessageOK(Status(1, None, "ready"))
      BY DEF MessageOK, Status, StateOK
    <3> QED BY <1>1, <3>1, <3>2, <3>3 DEF DoHandleOpen
  <2>4. WorldTyped'
    <3>1. EntryOK(Entry(None, "ready"))
      BY DEF EntryOK, Entry, StateOK
    <3>2. held' # None /\ held' \in 1..MaxSessions /\ sessions' \in 0..MaxSessions
      BY <1>1 DEF DoHandleOpen
    <3> QED BY <1>0, <1>1, <3>1, <3>2 DEF DoHandleOpen, WorldTyped
  <2>5. WireTyped'
    BY <1>1, <2>1, <2>2, <2>3 DEF WireTyped, DoHandleOpen
  <2> QED BY <2>1, <2>4, <2>5, TypedNext
<1>2. CASE DoHandleResume
  <2>1. AgentTyped' /\ ProgramTyped' /\ conn' = "up"
    BY <1>0, <1>2, ClientTyped DEF DoHandleResume, Takes, SameClient
  <2>2. IsSeq(to_world') /\ \A i \in DOMAIN to_world' : RequestOK(to_world'[i])
    BY <1>0, <1>2, TakesTyped DEF DoHandleResume
  <2>3. Len(log) \in Nat /\ DOMAIN log = 1..Len(log)
    BY <1>0, Indices DEF WorldTyped
  <2>4. ASSUME NEW i \in DOMAIN to_agent' PROVE MessageOK(to_agent'[i])
    <3>1. MessageOK([kind |-> "result", method |-> "resume", replay_to |-> Len(log)])
      BY <2>3 DEF MessageOK
    <3>2. MessageOK(Status(Len(log) + 1, None, "active"))
      BY <2>3 DEF MessageOK, Status, StateOK
    <3>3. ASSUME NEW k \in DOMAIN log PROVE MessageOK(Logged(k))
      <4>1. EntryOK(log[k]) /\ k \in Nat \ {0}
        BY <1>0, <2>3 DEF WorldTyped
      <4> QED BY <4>1 DEF MessageOK, Logged, Status, EntryOK
    <3> QED BY <1>2, <3>1, <3>2, <3>3 DEF DoHandleResume
  <2>5. WorldTyped'
    <3>1. EntryOK(Entry(None, "active"))
      BY DEF EntryOK, Entry, StateOK
    <3>2. IsSeq(log') /\ \A k \in DOMAIN log' : EntryOK(log'[k])
      BY <1>0, <1>2, <3>1, LogTyped DEF DoHandleResume
    <3>3. held # None
      BY <1>2 DEF DoHandleResume
    <3> QED BY <1>0, <1>2, <3>2, <3>3 DEF DoHandleResume, WorldTyped, SameBounds
  <2>6. WireTyped'
    BY <1>2, <2>1, <2>2, <2>4 DEF WireTyped, DoHandleResume
  <2> QED BY <2>1, <2>5, <2>6, TypedNext
<1>3. CASE DoHandleUnknown \/ DoHandleRefuse \/ DoHandleOther
  <2>1. PICK method, m : Takes(method) /\ Tells(m) /\ MessageOK(m)
    BY <1>3 DEF DoHandleUnknown, DoHandleRefuse, DoHandleOther, Tells, MessageOK
  <2>2. AgentTyped' /\ ProgramTyped' /\ conn' = conn
    BY <1>0, <2>1, ClientTyped DEF Takes, SameClient
  <2>3. WorldTyped'
    BY <1>0, <1>3, TypedSame DEF DoHandleUnknown, DoHandleRefuse, DoHandleOther, SameBounds
  <2>4. WireTyped'
    BY <1>0, <2>1, <2>2, TakesTyped, TellsTyped, NotDown DEF WireTyped
  <2> QED BY <2>2, <2>3, <2>4, TypedNext
<1>4. CASE DoHandleSubmit
  <2>0. Len(log) \in Nat
    BY <1>0, Indices DEF WorldTyped
  <2>1. MessageOK(Replied(Status(Len(log) + 1, move, "executing"), "submit"))
    BY <1>4, <2>0, NoneIsOther DEF MessageOK, Replied, Status, StateOK, Running, DoHandleSubmit
  <2>2. AgentTyped' /\ ProgramTyped' /\ conn' = conn
    BY <1>0, <1>4, ClientTyped DEF DoHandleSubmit, Takes, SameClient
  <2>3. WorldTyped'
    <3>1. EntryOK(Entry(move, "executing"))
      BY <1>4 DEF EntryOK, Entry, StateOK, Running, DoHandleSubmit
    <3>2. IsSeq(log') /\ \A k \in DOMAIN log' : EntryOK(log'[k])
      BY <1>0, <1>4, <3>1, LogTyped DEF DoHandleSubmit
    <3>3. act' \in [Moves -> {None, "gone"} \union Running]
      BY <1>0, <1>4 DEF DoHandleSubmit, WorldTyped, Running
    <3> QED BY <1>0, <1>4, <3>2, <3>3 DEF DoHandleSubmit, WorldTyped, SameBounds
  <2>4. WireTyped'
    BY <1>0, <1>4, <2>1, <2>2, TakesTyped, TellsTyped, NotDown DEF WireTyped, DoHandleSubmit
  <2> QED BY <2>2, <2>3, <2>4, TypedNext
<1>5. CASE DoHandleCancel
  <2>0. Len(log) \in Nat
    BY <1>0, Indices DEF WorldTyped
  <2>1. MessageOK(Replied(Status(Len(log) + 1, move, act[move]), "cancel"))
    BY <1>5, <2>0, NoneIsOther DEF MessageOK, Replied, Status, StateOK, DoHandleCancel
  <2>2. AgentTyped' /\ ProgramTyped' /\ conn' = conn
    BY <1>0, <1>5, ClientTyped DEF DoHandleCancel, Takes, SameClient
  <2>3. WorldTyped'
    <3>1. EntryOK(Entry(move, act[move]))
      BY <1>5 DEF EntryOK, Entry, StateOK, DoHandleCancel
    <3>2. IsSeq(log') /\ \A k \in DOMAIN log' : EntryOK(log'[k])
      BY <1>0, <1>5, <3>1, LogTyped DEF DoHandleCancel
    <3> QED BY <1>0, <1>5, <3>2 DEF DoHandleCancel, WorldTyped, SameBounds
  <2>4. WireTyped'
    BY <1>0, <1>5, <2>1, <2>2, TakesTyped, TellsTyped, NotDown DEF WireTyped, DoHandleCancel
  <2> QED BY <2>2, <2>3, <2>4, TypedNext
<1>6. CASE DoHandleClose
  <2>1. AgentTyped' /\ ProgramTyped' /\ conn' = conn /\ conn # "down"
    BY <1>0, <1>6, ClientTyped, NotDown DEF DoHandleClose, Takes, SameClient
  <2>2. WorldTyped'
    BY <1>0, <1>6, GoneActions DEF DoHandleClose, WorldTyped, SameBounds
  <2>3. IsSeq(to_agent') /\ \A i \in DOMAIN to_agent' : MessageOK(to_agent'[i])
    <3>1. CASE conn = "up"
      <4> DEFINE a == Status(Len(log) + 1, None, "closed")
                 b == [kind |-> "result", method |-> "close"]
      <4>1. PICK t : Longer(to_agent, t, a) /\ Longer(t, to_agent', b)
        BY <1>6, <3>1 DEF DoHandleClose
      <4>2. MessageOK(a) /\ MessageOK(b)
        <5>1. Len(log) \in Nat
          BY <1>0, Indices DEF WorldTyped
        <5> QED BY <5>1 DEF MessageOK, Status, StateOK
      <4> HIDE DEF a, b
      <4>3. \A i \in DOMAIN t : MessageOK(t[i])
        BY <1>0, <4>1, <4>2, LongerElements DEF WireTyped
      <4> QED BY <4>1, <4>2, <4>3, LongerElements
    <3> QED BY <1>0, <1>6, <3>1 DEF DoHandleClose, WireTyped
  <2>4. WireTyped'
    BY <1>0, <1>6, <2>1, <2>3, TakesTyped DEF WireTyped, DoHandleClose
  <2> QED BY <2>1, <2>2, <2>4, TypedNext
<1>7. CASE DoLose
  <2>1. WireTyped'
    BY <1>0, <1>7, Single DEF DoLose, Falls, WireTyped
  <2>2. WorldTyped'
    <3>1. losses' \in Nat /\ attached' = FALSE /\ UNCHANGED <<act, held, sessions, log>>
      BY <1>0, <1>7 DEF DoLose, Falls, WorldTyped
    <3> QED BY <1>0, <3>1 DEF WorldTyped
  <2> QED BY <1>0, <1>7, <2>1, <2>2, TypedNext, NoneIsOther DEF DoLose, Falls, SameProgram, AgentTyped, ProgramTyped
<1>8. CASE DoAdvance
  <2>1. PICK id \in Moves, state \in {"far"} \union Terminal :
          /\ id = move /\ act[id] \in {"executing", "far"} /\ state # act[id] /\ held # None
          /\ act' = [act EXCEPT ![id] = state]
          /\ Longer(log, log', Entry(id, state))
          /\ IF attached THEN Tells(Status(Len(log) + 1, id, state)) ELSE to_agent' = to_agent
          /\ SameClient /\ UNCHANGED <<held, attached, sessions, to_world>> /\ SameBounds
    BY <1>8 DEF DoAdvance
  <2>2. Len(log) \in Nat
    BY <1>0, Indices DEF WorldTyped
  <2>3. MessageOK(Status(Len(log) + 1, id, state))
    BY <2>2 DEF MessageOK, Status, StateOK, Running
  <2>4. AgentTyped' /\ ProgramTyped' /\ conn' = conn
    BY <1>0, <2>1, ClientTyped DEF SameClient
  <2>5. WorldTyped'
    <3>1. EntryOK(Entry(id, state))
      BY DEF EntryOK, Entry, StateOK, Running
    <3>2. IsSeq(log') /\ \A k \in DOMAIN log' : EntryOK(log'[k])
      BY <1>0, <2>1, <3>1, LogTyped
    <3>3. act' \in [Moves -> {None, "gone"} \union Running]
      BY <1>0, <2>1 DEF WorldTyped, Running
    <3> QED BY <1>0, <2>1, <3>2, <3>3 DEF WorldTyped, SameBounds
  <2>6. WireTyped'
    <3>1. CASE attached
      BY <1>0, <2>1, <2>3, <2>4, <3>1, TellsTyped DEF WireTyped
    <3>2. CASE ~attached
      BY <1>0, <2>1, <2>4, <3>2 DEF WireTyped
    <3> QED BY <3>1, <3>2
  <2> QED BY <2>4, <2>5, <2>6, TypedNext
<1>9. CASE DoForget
  <2>1. AgentTyped' /\ ProgramTyped' /\ conn' = conn
    BY <1>0, <1>9, ClientTyped DEF DoForget, SameClient
  <2>2. WorldTyped' /\ WireTyped'
    BY <1>0, <1>9, <2>1, GoneActions DEF DoForget, WorldTyped, WireTyped, SameBounds
  <2> QED BY <2>1, <2>2, TypedNext
<1>10. CASE DoTell
  <2>1. AgentTyped' /\ ProgramTyped' /\ conn' = conn
    BY <1>0, <1>10, ClientTyped DEF DoTell, SameClient
  <2>2. PICK m : Tells(m) /\ MessageOK(m)
    BY <1>10 DEF DoTell, MessageOK
  <2>3. WorldTyped' /\ WireTyped'
    BY <1>0, <1>10, <2>1, <2>2, TypedSame, TellsTyped DEF DoTell, WireTyped
  <2> QED BY <2>1, <2>3, TypedNext
<1>11. CASE DoNothing
  BY <1>0, <1>11, ClientTyped, TypedSame, TypedNext DEF DoNothing, SameBounds, SameClient
<1> QED BY <1>1, <1>2, <1>3, <1>4, <1>5, <1>6, <1>7, <1>8, <1>9, <1>10, <1>11 DEF DoHandle, DoOther

-----------------------------------------------------------------------------
(* Requests                                                                *)

\* Labels that await an answer.
Calling == {"opening", "sampling", "moving", "initializing", "resuming", "cancelling", "closing", "settling"}

\* Where no call awaits an answer, nothing is on the way but a goodbye.
LEMMA NotAwaiting ==
  ASSUME Typed, Asked, OneAnswer, future # "pending" \/ pc \notin Calling
  PROVE  /\ \A i \in DOMAIN to_world : to_world[i].method = "close" /\ conn # "up"
         /\ conn = "up" => \A i \in DOMAIN to_agent : ~Response(to_agent[i])
<1>1. \A method \in {"open", "ping", "submit", "initialize", "resume", "cancel", "close"} : ~Awaited(method)
  BY Methods DEF Awaited, Calling
<1>2. \A i \in DOMAIN to_world : to_world[i].method = "close" /\ conn # "up"
  <2>1. ASSUME NEW i \in DOMAIN to_world PROVE RequestOK(to_world[i])
    BY DEF Typed
  <2> QED BY <1>1, <2>1 DEF Asked, RequestOK
<1>3. ASSUME conn = "up", NEW i \in DOMAIN to_agent PROVE ~Response(to_agent[i])
  <2>1. MessageOK(to_agent[i])
    BY DEF Typed
  <2>2. Response(to_agent[i]) => Awaited(to_agent[i].method)
    BY <1>3 DEF OneAnswer, AnswerTrue
  <2> QED BY <1>1, <2>1, <2>2 DEF MessageOK, Response
<1> QED BY <1>2, <1>3

\* Where only farewells are left, nothing is asked.
LEMMA OnlyGoodbyes ==
  ASSUME \A i \in DOMAIN to_world' : to_world'[i].method = "close" /\ conn' # "up"
  PROVE  Asked'
BY DEF Asked, RequestTrue

\* Request by request.
LEMMA RequestByRequest ==
  ASSUME \A i \in DOMAIN to_world' : \A r :
           r = to_world'[i] =>
             /\ r.method # "close" \/ conn' = "up" => i = 1 /\ Awaited(r.method)'
             /\ conn' = "up" => \A j \in DOMAIN to_agent' : ~Response(to_agent'[j])
             /\ RequestTrue(r)'
  PROVE  Asked'
BY DEF Asked, Awaited, RequestTrue, Response

\* A call asks one thing.
LEMMA AskedCall ==
  ASSUME Typed, Asked, OneAnswer, future # "pending", NEW r, Called(r), UNCHANGED <<conn, to_agent>>,
         conn = "up" => pc' \in Answers(r.method) /\ RequestTrue(r)'
  PROVE  Asked'
<1>1. CASE conn = "up"
  <2>1. \A i \in DOMAIN to_world' : i = 1 /\ to_world'[i] = r
    BY <1>1 DEF Called
  <2>2. Awaited(r.method)' /\ \A j \in DOMAIN to_agent' : ~Response(to_agent'[j])
    BY <1>1, <2>1 DEF Called, Awaited
  <2> QED BY <1>1, <2>1, <2>2, RequestByRequest
<1>2. CASE conn # "up"
  BY <1>2, NotAwaiting, OnlyGoodbyes DEF Called
<1> QED BY <1>1, <1>2

\* Nothing is under way to an agent whose connection no session is attached to.
LEMMA Unattached ==
  ASSUME Typed, Asked, OneAnswer, Attached, conn = "up", ~attached, future # "pending" \/ pc \notin Calling,
         pc \in Labels \ {"closing"}
  PROVE  DOMAIN to_agent = {} /\ to_agent = <<>>
<1>1. \A i \in DOMAIN to_agent : to_agent[i].kind \in {"result", "error"} /\ ~Response(to_agent[i])
  BY NotAwaiting DEF Attached, Labels, Ends
<1> QED BY <1>1, Indices DEF Response, Typed

\* The program asks when it awaits nothing else.
LEMMA ProgramAsked ==
  ASSUME Typed, Asked, OneAnswer, Attached, Moved, Held, DoProgram
  PROVE  Asked'
<1> USE Methods
<1>1. CASE DoPing \/ DoClose \/ DoSettle
  <2>1. PICK method \in {"ping", "close"} : Called([method |-> method]) /\ (pc' \in Answers(method))
    BY <1>1 DEF DoPing, DoClose, DoSettle
  <2>2. RequestTrue([method |-> method])'
    BY <2>1 DEF RequestTrue
  <2> QED BY <1>1, <2>1, <2>2, AskedCall DEF DoPing, DoClose, DoSettle, Still
<1>2. CASE DoSubmit
  <2>1. act[move + 1] = None
    BY <1>2, Names DEF DoSubmit, Moved, Typed, TypeOK
  <2>3. PICK r : r = [method |-> "submit", id |-> move + 1]
    OBVIOUS
  <2>2. RequestTrue(r)' /\ Called(r)
    BY <1>2, <2>1, <2>3 DEF RequestTrue, DoSubmit, Still, SameWorld
  <2> QED BY <1>2, <2>2, <2>3, AskedCall DEF DoSubmit, Still
<1>3. CASE DoCancel
  <2>1. conn = "up" => held # None /\ act[move] \in Running
    BY <1>3 DEF DoCancel, Attached, Serving, Moved, Typed
  <2>3. PICK r : r = [method |-> "cancel", id |-> move]
    OBVIOUS
  <2>2. Called(r) /\ (conn = "up" => RequestTrue(r)')
    BY <1>3, <2>1, <2>3 DEF RequestTrue, DoCancel, Still, SameWorld
  <2> QED BY <1>3, <2>2, <2>3, AskedCall DEF DoCancel, Still
<1>4. CASE DoResume
  <2>1. conn = "up" => ~attached /\ to_agent = <<>>
    BY <1>4, Unattached DEF DoResume, Attached, Labels
  <2>3. PICK r : r = [method |-> "resume", token |-> ready, last |-> last_status_seq]
    OBVIOUS
  <2>2. Called(r) /\ (conn = "up" => RequestTrue(r)')
    BY <1>4, <2>1, <2>3 DEF RequestTrue, DoResume, Still, SameWorld, SameAgent
  <2> QED BY <1>4, <2>2, <2>3, AskedCall DEF DoResume, Still
<1>5. CASE DoOpen
  <2>1. conn = "up" => ~attached /\ ready = None /\ to_agent = <<>>
    BY <1>5, Unattached DEF DoOpen, Attached, Labels
  <2>2. conn = "up" => RequestTrue([method |-> "open"])'
    BY <1>5, <2>1 DEF RequestTrue, DoOpen, Still, SameWorld, SameAgent
  <2> QED BY <1>5, <2>2, AskedCall DEF DoOpen, Still
<1>6. CASE DoWait \/ DoWatch \/ DoAwait \/ DoStop \/ DoGiveUp
  <2>1. (future # "pending" \/ pc \notin Calling) /\ UNCHANGED <<to_world, conn>>
    BY <1>6 DEF DoWait, DoWatch, DoAwait, DoStop, DoGiveUp, Calling, Still
  <2> QED BY <2>1, NotAwaiting, OnlyGoodbyes
<1>7. CASE DoReconnect
  BY <1>7, OnlyGoodbyes DEF DoReconnect
<1>8. CASE DoConnect
  <2>1. conn # "up" /\ conn = "down" /\ to_agent = <<>> /\ DOMAIN to_agent' = {}
    BY <1>8, Single DEF DoConnect, Attached, Typed, TypeOK
  <2>2. \A i \in DOMAIN to_world' : i = 1 /\ to_world'[i] = [method |-> "initialize"]
    BY <1>8 DEF DoConnect
  <2>3. Awaited("initialize")'
    BY <1>8 DEF DoConnect, Awaited
  <2>4. RequestTrue([method |-> "initialize"])'
    BY DEF RequestTrue
  <2> QED BY <2>1, <2>2, <2>3, <2>4, RequestByRequest
<1> QED BY <1>1, <1>2, <1>3, <1>4, <1>5, <1>6, <1>7, <1>8 DEF DoProgram

\* What is asked is asked while the reader reads what is not an answer to it.
LEMMA StillAsked ==
  ASSUME Typed, Asked, conn = "up", SameProgram, to_world' = to_world, 1 \in DOMAIN to_agent,
         SameWorld, future' = future \/ pc \notin Calling,
         \A i \in DOMAIN to_agent' : i + 1 \in DOMAIN to_agent /\ to_agent'[i] = to_agent[i + 1]
  PROVE  \A i \in DOMAIN to_world' : \A r :
           r = to_world'[i] => /\ i = 1 /\ Awaited(r.method)' /\ RequestTrue(r)'
                               /\ \A j \in DOMAIN to_agent' : ~Response(to_agent'[j])
<1>1. ASSUME NEW i \in DOMAIN to_world
      PROVE  i = 1 /\ Awaited(to_world[i].method) /\ RequestTrue(to_world[i]) /\ RequestOK(to_world[i])
             /\ \A j \in DOMAIN to_agent : ~Response(to_agent[j])
  BY DEF Asked, Typed
<1>2. ASSUME NEW i \in DOMAIN to_world PROVE pc \in Calling
  BY <1>1, Methods DEF RequestOK, Awaited, Calling
<1>3. DOMAIN to_agent # {} /\ to_agent # <<>>
  BY Single
<1>4. ASSUME NEW i \in DOMAIN to_world, NEW r, r = to_world[i] PROVE Awaited(r.method)' /\ RequestTrue(r)'
  BY <1>1, <1>2, <1>3, <1>4 DEF Awaited, RequestTrue, SameProgram, SameWorld
<1> QED BY <1>1, <1>4

\* The reader takes no request back.
LEMMA ReaderAsked ==
  ASSUME Typed, Asked, OneAnswer, DoReader
  PROVE  Asked'
<1>1. ASSUME NEW how, Answers1(how) PROVE Asked'
  BY <1>1, OnlyGoodbyes DEF Answers1, Reads
<1>2. CASE DoReadOld \/ DoReadAction \/ DoReadState \/ DoReadFrame
  <2>1. Reads /\ SameProgram /\ SameWorld /\ conn = "up" /\ conn' = conn /\ to_world' = to_world
    BY <1>2 DEF DoReadOld, DoReadAction, DoReadState, DoReadFrame, Reads
  <2>2. Answers1("done") \/ future' = future \/ pc \notin Calling
    BY <1>2 DEF DoReadOld, DoReadAction, DoReadState, DoReadFrame, AnswersOrNot, Calling
  <2>3. 1 \in DOMAIN to_agent /\ \A i \in DOMAIN to_agent' : i + 1 \in DOMAIN to_agent
          /\ to_agent'[i] = to_agent[i + 1]
    BY <2>1, ReadsElements DEF Reads
  <2> QED BY <1>1, <2>1, <2>2, <2>3, StillAsked, RequestByRequest
<1>3. CASE DoReadRange
  <2>1. 1 \in DOMAIN to_agent /\ \A i \in DOMAIN to_agent' : i + 1 \in DOMAIN to_agent
          /\ to_agent'[i] = to_agent[i + 1]
    BY <1>3, ReadsElements DEF DoReadRange
  <2>2. DOMAIN to_agent # {} /\ to_agent # <<>>
    BY <2>1, Single
  <2>3. ASSUME NEW i \in DOMAIN to_world, NEW r, r = to_world[i]
        PROVE  RequestTrue(r)' /\ (r.method # "close" => i = 1 /\ Awaited(r.method)')
    <3>1. i = 1 /\ Awaited(r.method) /\ RequestTrue(r) /\ RequestOK(r)
      BY <1>3, <2>3 DEF Asked, Typed, DoReadRange
    <3>2. pc \in Calling
      BY <3>1, Methods DEF RequestOK, Awaited, Calling
    <3> QED BY <1>3, <2>2, <3>1, <3>2 DEF Awaited, RequestTrue, DoReadRange, SameProgram, SameWorld, Calling
  <2>4. ASSUME NEW i \in DOMAIN to_world'
        PROVE  (i \in DOMAIN to_world /\ to_world'[i] = to_world[i]) \/ to_world'[i] = [method |-> "close"]
    <3>1. CASE to_world' = to_world
      BY <3>1
    <3>2. CASE Longer(to_world, to_world', [method |-> "close"])
      BY <3>2, LongerElements
    <3> QED BY <1>3, <3>1, <3>2 DEF DoReadRange
  <2>5. conn' # "up"
    BY <1>3 DEF DoReadRange
  <2>6. RequestTrue([method |-> "close"])'
    BY DEF RequestTrue
  <2> QED BY <2>3, <2>4, <2>5, <2>6, RequestByRequest
<1>4. CASE DoFinish
  BY <1>4, OnlyGoodbyes DEF DoFinish, Falls
<1> QED
  BY <1>1, <1>2, <1>3, <1>4
  DEF DoReader, DoReadOpen, DoReadResume, DoReadClose, DoReadPong, DoReadUnknown, DoReadRefusal

\* The world takes requests as they came: what is left is a goodbye.
LEMMA TakesAsked ==
  ASSUME Typed, Asked, NEW method, Takes(method), Asks
  PROVE  Asked'
<1>1. conn' = conn
  BY DEF Takes, SameClient
<1>2. ASSUME NEW i \in DOMAIN to_world' PROVE to_world'[i].method = "close" /\ conn # "up"
  <2>1. i + 1 \in DOMAIN to_world /\ to_world'[i] = to_world[i + 1] /\ i + 1 # 1
    BY TakesElements DEF Takes
  <2> QED BY <2>1 DEF Asked, Asks
<1> QED BY <1>1, <1>2, OnlyGoodbyes

\* The world takes requests.
LEMMA WorldAsked ==
  ASSUME Typed, Asked, OneAnswer, DoHandle \/ DoOther
  PROVE  Asked'
<1>1. ASSUME DoHandle PROVE Asked'
  <2>1. PICK method : Takes(method) /\ Asks
    BY <1>1
    DEF DoHandle, DoHandleOpen, DoHandleResume, DoHandleUnknown, DoHandleSubmit, DoHandleRefuse, DoHandleCancel,
        DoHandleOther, DoHandleClose
  <2> QED BY <2>1, TakesAsked
<1>2. CASE DoLose
  BY <1>2, OnlyGoodbyes DEF DoLose, Falls
<1>3. CASE DoForget
  BY <1>3, OnlyGoodbyes, Single DEF DoForget, Typed, TypeOK
<1>4. CASE DoAdvance \/ DoTell \/ DoNothing
  <2>1. SameClient /\ to_world' = to_world
    BY <1>4 DEF DoAdvance, DoTell, DoNothing
  <2>2. \/ to_agent' = to_agent
        \/ attached /\ \E m : Tells(m) /\ ~Response(m)
    <3>1. CASE DoAdvance
      BY <3>1 DEF DoAdvance, Response, Status
    <3>2. CASE DoTell
      BY <3>2 DEF DoTell, Response
    <3> QED BY <1>4, <3>1, <3>2 DEF DoNothing
  <2>3. \A i \in DOMAIN to_agent' : (i \in DOMAIN to_agent /\ to_agent'[i] = to_agent[i])
          \/ (~Response(to_agent'[i]) /\ attached)
    BY <2>2, TellsElements
  <2>4. /\ UNCHANGED <<held>> /\ (attached \/ to_agent' = to_agent) /\ attached' = attached
        /\ (act[move] = None => act'[move] = None) /\ (act[move] \in Running => act'[move] \in Running)
    <3>1. CASE DoAdvance
      <4>1. PICK id \in Moves, state \in {"far"} \union Terminal :
              /\ id = move /\ act[id] \in {"executing", "far"} /\ act' = [act EXCEPT ![id] = state]
        BY <3>1 DEF DoAdvance
      <4> QED BY <2>2, <3>1, <4>1, NoneIsOther DEF DoAdvance, Running, Typed
    <3> QED BY <1>4, <2>2, <3>1 DEF DoTell, DoNothing, SameWorld
  <2>5. ASSUME NEW i \in DOMAIN to_world, NEW r, r = to_world[i] PROVE RequestTrue(r)'
    BY <2>1, <2>4, <2>5 DEF Asked, RequestTrue, SameClient, SameAgent, SameProgram
  <2>6. ASSUME NEW i \in DOMAIN to_world, NEW r, r = to_world[i], r.method # "close" \/ conn = "up"
        PROVE  i = 1 /\ Awaited(r.method)'
    BY <2>1, <2>6 DEF Asked, Awaited, SameClient, SameProgram
  <2>7. conn' = conn
    BY <2>1 DEF SameClient
  <2>8. ASSUME NEW i \in DOMAIN to_world, conn = "up" PROVE \A j \in DOMAIN to_agent' : ~Response(to_agent'[j])
    BY <2>3, <2>8 DEF Asked
  <2>9. \A i \in DOMAIN to_world' : i \in DOMAIN to_world /\ to_world'[i] = to_world[i]
    BY <2>1
  <2> QED BY <2>5, <2>6, <2>7, <2>8, <2>9, RequestByRequest
<1> QED BY <1>1, <1>2, <1>3, <1>4 DEF DoOther

-----------------------------------------------------------------------------
(* Answers                                                                 *)

\* Answer by answer.
LEMMA AnswerByAnswer ==
  ASSUME conn' = "up" => \A i \in DOMAIN to_agent' : \A m :
           m = to_agent'[i] /\ Response(m) =>
             /\ AnswerTrue(m, i)'
             /\ \A j \in DOMAIN to_agent' : Response(to_agent'[j]) => j = i
  PROVE  OneAnswer'
BY DEF OneAnswer, AnswerTrue, Response, Awaited, IsResult, IsError

\* Where no answer is under way, there is not more than one.
LEMMA NoAnswer ==
  ASSUME conn' = "up" => \A i \in DOMAIN to_agent' : ~Response(to_agent'[i])
  PROVE  OneAnswer'
BY AnswerByAnswer

\* The world answers the one request there was.
LEMMA AnswerTold ==
  ASSUME Typed, Asks, conn' = conn, NEW m, Tells(m),
         conn = "up" => \A i : i = Len(to_agent) + 1 => AnswerTrue(m, i)'
  PROVE  OneAnswer'
<1>1. CASE conn = "up"
  <2>1. \A i \in DOMAIN to_agent' : ~Response(to_agent'[i]) \/ (i = Len(to_agent) + 1 /\ to_agent'[i] = m)
    BY <1>1, TellsElements DEF Asks
  <2> QED BY <1>1, <2>1, AnswerByAnswer
<1>2. CASE conn # "up"
  BY <1>2, NoAnswer
<1> QED BY <1>1, <1>2

\* The program answers nothing, and asks when no answer is under way.
LEMMA ProgramOneAnswer ==
  ASSUME Typed, Asked, OneAnswer, Attached, DoProgram
  PROVE  OneAnswer'
<1>1. CASE DoReconnect
  BY <1>1, NoAnswer DEF DoReconnect
<1>2. CASE DoConnect
  <2>1. DOMAIN to_agent' = {}
    BY <1>2, Single DEF DoConnect, Attached, Typed, TypeOK
  <2> QED BY <2>1, NoAnswer
<1>3. CASE DoGiveUp
  BY <1>3, NotAwaiting, NoAnswer DEF DoGiveUp
<1>4. ASSUME Still, future # "pending" \/ pc \notin Calling PROVE OneAnswer'
  BY <1>4, NotAwaiting, NoAnswer DEF Still
<1> QED BY <1>1, <1>2, <1>3, <1>4
    DEF DoProgram, DoPing, DoSubmit, DoClose, DoCancel, DoResume, DoSettle, DoOpen, DoWait, DoWatch, DoAwait,
      DoStop,
        Calling

\* The answer that is read was the only one.
LEMMA ReaderOneAnswer ==
  ASSUME Typed, Asked, OneAnswer, DoReader
  PROVE  OneAnswer'
<1>1. ASSUME NEW how, Answers1(how) PROVE OneAnswer'
  BY <1>1, NoAnswer DEF Answers1, Reads
<1>2. CASE DoReadOld \/ DoReadAction \/ DoReadState \/ DoReadFrame
  <2>1. Reads /\ SameProgram /\ SameWorld /\ conn = "up" /\ conn' = conn
    BY <1>2 DEF DoReadOld, DoReadAction, DoReadState, DoReadFrame, Reads
  <2>2. Answers1("done") \/ future' = future \/ pc \notin Calling
    BY <1>2 DEF DoReadOld, DoReadAction, DoReadState, DoReadFrame, AnswersOrNot, Calling
  <2>3. \A i \in DOMAIN to_agent' : i \in Nat /\ i >= 1 /\ i + 1 \in DOMAIN to_agent
          /\ to_agent'[i] = to_agent[i + 1]
    BY <2>1, ReadsElements DEF Reads
  <2>4. ASSUME NEW i \in DOMAIN to_agent', NEW m, m = to_agent'[i], Response(m), future' = future
                 \/ pc \notin Calling
        PROVE  /\ AnswerTrue(m, i)'
               /\ \A j \in DOMAIN to_agent' : Response(to_agent'[j]) => j = i
    <3>1. /\ AnswerTrue(m, i + 1) /\ m.method \notin {"open", "resume"}
          /\ \A j \in DOMAIN to_agent : Response(to_agent[j]) => j = i + 1
      BY <2>1, <2>3, <2>4 DEF OneAnswer, AnswerTrue
    <3>2. pc \in Calling
      <4>1. MessageOK(m)
        BY <2>3, <2>4 DEF Typed
      <4> QED BY <2>4, <3>1, <4>1, Methods DEF AnswerTrue, Awaited, MessageOK, Response, Calling
    <3>3. AnswerTrue(m, i)'
      BY <2>1, <2>4, <3>1, <3>2 DEF AnswerTrue, Awaited, SameProgram, SameWorld, IsResult, IsError
    <3>4. \A j \in DOMAIN to_agent' : Response(to_agent'[j]) => j = i
      BY <2>3, <3>1
    <3> QED BY <3>3, <3>4
  <2> QED BY <1>1, <2>2, <2>4, AnswerByAnswer
<1>3. CASE DoReadRange \/ DoFinish
  BY <1>3, NoAnswer DEF DoReadRange, DoFinish, Falls
<1> QED
  BY <1>1, <1>2, <1>3
  DEF DoReader, DoReadOpen, DoReadResume, DoReadClose, DoReadPong, DoReadUnknown, DoReadRefusal

\* The world answers the one request.
LEMMA HandleOneAnswer ==
  ASSUME Typed, Asked, OneAnswer, DoHandle
  PROVE  OneAnswer'
<1> USE Methods DEF AnswerTrue, Awaited, IsResult, IsError
<1>1. CASE DoHandleOpen
  <2>1. \A i \in DOMAIN to_agent' : i = 1 \/ ~Response(to_agent'[i])
    BY <1>1 DEF DoHandleOpen, Response, Status
  <2>2. ASSUME NEW m, m = to_agent'[1] PROVE AnswerTrue(m, 1)'
    BY <1>1, <2>2 DEF DoHandleOpen, Takes, SameClient, SameProgram
  <2> QED BY <2>1, <2>2, AnswerByAnswer
<1>2. CASE DoHandleResume
  <2>1. \A i \in DOMAIN to_agent' : i = 1 \/ ~Response(to_agent'[i])
    BY <1>2 DEF DoHandleResume, Response, Status, Logged
  <2>2. ASSUME NEW m, m = to_agent'[1] PROVE AnswerTrue(m, 1)'
    BY <1>2, <2>2 DEF DoHandleResume, Takes, SameClient, SameProgram
  <2> QED BY <2>1, <2>2, AnswerByAnswer
<1>3. CASE DoHandleUnknown
  <2>1. Len(to_agent) + 1 = 1
    BY <1>3, Indices, Single DEF DoHandleUnknown, Typed
  <2>2. AnswerTrue([kind |-> "error", method |-> "resume"], 1)'
    BY <1>3 DEF DoHandleUnknown, Takes, SameClient, SameProgram, SameWorld
  <2> QED BY <1>3, <2>1, <2>2, AnswerTold DEF DoHandleUnknown, Takes, SameClient, Tells
<1>4. CASE DoHandleSubmit
  <2>1. PICK m : m = Replied(Status(Len(log) + 1, move, "executing"), "submit")
    OBVIOUS
  <2>2. m.method = "submit" /\ m.kind = "status" /\ Tells(m)
    BY <1>4, <2>1 DEF Replied, Status, DoHandleSubmit
  <2>3. act'[move] \in Running
    BY <1>4 DEF DoHandleSubmit, Typed, Running
  <2>4. \A i : AnswerTrue(m, i)'
    BY <1>4, <2>2, <2>3 DEF DoHandleSubmit, Takes, SameClient, SameProgram
  <2> QED BY <1>4, <2>2, <2>4, AnswerTold DEF DoHandleSubmit, Takes, SameClient
<1>5. CASE DoHandleRefuse
  <2>1. conn = "up" => \A i : AnswerTrue([kind |-> "error", method |-> "submit"], i)'
    BY <1>5 DEF DoHandleRefuse, Takes, SameClient, SameProgram
  <2> QED BY <1>5, <2>1, AnswerTold DEF DoHandleRefuse, Takes, SameClient
<1>6. CASE DoHandleCancel
  <2>1. PICK m : m = Replied(Status(Len(log) + 1, move, act[move]), "cancel")
    OBVIOUS
  <2>2. m.method = "cancel" /\ m.kind = "status" /\ Tells(m)
    BY <1>6, <2>1 DEF Replied, Status, DoHandleCancel
  <2>4. \A i : AnswerTrue(m, i)'
    BY <1>6, <2>2 DEF DoHandleCancel, Takes, SameClient, SameProgram
  <2> QED BY <1>6, <2>2, <2>4, AnswerTold DEF DoHandleCancel, Takes, SameClient
<1>7. CASE DoHandleOther
  <2>1. PICK method \in {"ping", "initialize"} : Takes(method) /\ pc \in Answers(method)
          /\ Tells([kind |-> "result", method |-> method])
    BY <1>7 DEF DoHandleOther
  <2>2. \A i : AnswerTrue([kind |-> "result", method |-> method], i)'
    BY <1>7, <2>1 DEF DoHandleOther, Takes, SameClient, SameProgram
  <2> QED BY <1>7, <2>1, <2>2, AnswerTold DEF DoHandleOther, Takes, SameClient
<1>8. CASE DoHandleClose
  <2>1. CASE conn = "up"
    <3> DEFINE a == Status(Len(log) + 1, None, "closed")
               b == [kind |-> "result", method |-> "close"]
    <3>1. PICK t : Longer(to_agent, t, a) /\ Longer(t, to_agent', b)
      BY <1>8, <2>1 DEF DoHandleClose
    <3>2. ~Response(a) /\ a.kind = "status"
      BY DEF Response, Status
    <3> HIDE DEF a
    <3>3. \A i \in DOMAIN t : ~Response(t[i])
      BY <1>8, <2>1, <3>1, <3>2, LongerElements DEF DoHandleClose, Asks
    <3>4. \A i \in DOMAIN to_agent' : ~Response(to_agent'[i]) \/ (to_agent'[i] = b /\ i = Len(t) + 1)
      BY <3>1, <3>3, LongerElements
    <3>5. \A i : AnswerTrue(b, i)'
      BY <1>8, <2>1 DEF DoHandleClose, Takes, SameClient, SameProgram
    <3> QED BY <3>4, <3>5, AnswerByAnswer
  <2>2. CASE conn # "up"
    BY <1>8, <2>2, NoAnswer DEF DoHandleClose, Takes, SameClient
  <2> QED BY <2>1, <2>2
<1> QED BY <1>1, <1>2, <1>3, <1>4, <1>5, <1>6, <1>7, <1>8 DEF DoHandle

\* What else the world does to the actions and what is under way.
LEMMA Tolds ==
  ASSUME Typed, DoAdvance \/ DoTell \/ DoNothing
  PROVE  /\ SameClient /\ UNCHANGED <<to_world, held, attached, sessions>>
         /\ \A i \in DOMAIN to_agent' : \/ i \in DOMAIN to_agent /\ to_agent'[i] = to_agent[i]
                                        \/ ~Response(to_agent'[i]) /\ attached
         /\ act[move] \in Running => act'[move] \in Running
<1>1. \/ to_agent' = to_agent
      \/ attached /\ \E m : Tells(m) /\ ~Response(m)
  <2>1. CASE DoAdvance
    BY <2>1 DEF DoAdvance, Response, Status
  <2>2. CASE DoTell
    BY <2>2 DEF DoTell, Response
  <2> QED BY <2>1, <2>2 DEF DoNothing
<1>2. \A i \in DOMAIN to_agent' : (i \in DOMAIN to_agent /\ to_agent'[i] = to_agent[i])
        \/ (~Response(to_agent'[i]) /\ attached)
  BY <1>1, TellsElements
<1>3. act[move] \in Running => act'[move] \in Running
  BY DEF DoAdvance, DoTell, DoNothing, SameWorld, Running, Typed
<1> QED BY <1>2, <1>3 DEF DoAdvance, DoTell, DoNothing, SameWorld

\* Nothing else answers.
LEMMA OtherOneAnswer ==
  ASSUME Typed, Asked, OneAnswer, DoOther
  PROVE  OneAnswer'
<1>1. CASE DoLose \/ DoForget
  BY <1>1, NoAnswer DEF DoLose, DoForget, Falls, SameClient
<1>2. CASE DoAdvance \/ DoTell \/ DoNothing
  <2>1. SameClient /\ UNCHANGED <<held, attached>> /\ (act[move] \in Running => act'[move] \in Running)
    BY <1>2, Tolds
  <2>2. \A i \in DOMAIN to_agent' : Response(to_agent'[i]) => i \in DOMAIN to_agent /\ to_agent'[i] = to_agent[i]
    BY <1>2, Tolds
  <2>3. ASSUME conn = "up", NEW i \in DOMAIN to_agent', NEW m, m = to_agent'[i], Response(m) PROVE AnswerTrue(m, i)'
    <3>1. AnswerTrue(m, i)
      BY <2>2, <2>3 DEF OneAnswer
    <3> QED BY <2>1, <3>1 DEF AnswerTrue, Awaited, SameClient, SameProgram, IsResult, IsError
  <2>4. conn = "up" => \A i, j \in DOMAIN to_agent' : Response(to_agent'[i]) /\ Response(to_agent'[j]) => j = i
    BY <2>2 DEF OneAnswer
  <2>5. conn' = conn
    BY <2>1 DEF SameClient
  <2> QED BY <2>3, <2>4, <2>5, AnswerByAnswer
<1> QED BY <1>1, <1>2 DEF DoOther

-----------------------------------------------------------------------------
(* Sessions and connections                                                *)

\* The clauses of Attached on messages, and the others.
WireAttached ==
  /\ conn = "up" /\ ~attached /\ pc \notin {"closing"} \union Ends =>
       \A i \in DOMAIN to_agent : to_agent[i].kind \in {"result", "error"}
  /\ conn = "up" => \A i \in DOMAIN to_agent :
       to_agent[i].kind = "status" /\ to_agent[i].state = "closed" => pc \in {"closing"} \union Ends /\ held = None

PlaceAttached ==
  /\ conn = "down" => ~attached
  /\ conn = "up" /\ (pc \in Serving \/ (pc \in {"opening", "resuming"} /\ future = "done")) => attached
  /\ pc = "initializing" => ~attached
  /\ pc = "resuming" /\ future = "refused" => ~attached /\ held = None /\ ready = None
  /\ pc = "connecting" => conn = "down" /\ session_state = "suspended"
  /\ ready # None => held \in {None, ready}
  /\ future = "refused" => pc = "resuming" \/ (pc = "moving" /\ move = RefusedMove)

\* The parts of Attached.
LEMMA AttachedParts ==
  /\ Attached <=> WireAttached /\ PlaceAttached
  /\ WireAttached' /\ PlaceAttached' => Attached'
BY DEF Attached, WireAttached, PlaceAttached

\* The program goes on to use a session that is attached.
LEMMA ProgramAttached ==
  ASSUME Typed, Asked, OneAnswer, Attached, DoProgram
  PROVE  Attached'
<1> USE DEF Labels, Ends, Serving, Retried
<1>0. WireAttached /\ PlaceAttached
  BY AttachedParts
<1>1. CASE DoPing \/ DoSubmit \/ DoClose \/ DoCancel \/ DoResume \/ DoSettle \/ DoOpen
  <2>1. Still /\ future' \in {"pending", "error"} /\ pc \in Labels \ {"closing"} /\ pc' \in Labels
    BY <1>1 DEF DoPing, DoSubmit, DoClose, DoCancel, DoResume, DoSettle, DoOpen, Called, Returned
  <2>2. WireAttached'
    BY <1>0, <2>1 DEF WireAttached, Still, SameWorld
  <2>3. pc' \in Serving /\ conn = "up" => attached
    BY <1>0, <1>1 DEF PlaceAttached, DoPing, DoSubmit, DoClose, DoCancel, DoResume, DoSettle, DoOpen, Returned
  <2>4. pc' \notin {"initializing", "connecting"}
    BY <1>1 DEF DoPing, DoSubmit, DoClose, DoCancel, DoResume, DoSettle, DoOpen
  <2>5. PlaceAttached'
    BY <1>0, <2>1, <2>3, <2>4 DEF PlaceAttached, Still, SameWorld, SameAgent
  <2> QED BY <2>2, <2>5, AttachedParts
<1>2. CASE DoWait \/ DoWatch \/ DoAwait
  <2>1. /\ Still /\ future' \in {"pending", "error", "done"} /\ pc \in Serving \union {"resuming"}
             /\ pc' \in Serving
        /\ future = "done"
    BY <1>2, NoneIsOther DEF DoWait, DoWatch, DoAwait, Typed, TypeOK
  <2>2. WireAttached'
    BY <1>0, <2>1 DEF WireAttached, Still, SameWorld
  <2>3. PlaceAttached'
    BY <1>0, <2>1 DEF PlaceAttached, Still, SameWorld, SameAgent
  <2> QED BY <2>2, <2>3, AttachedParts
<1>3. CASE DoStop
  <2>1. WireAttached'
    BY <1>0, <1>3 DEF WireAttached, Still, SameWorld, DoStop
  <2>2. future # "refused"
    BY <1>0, <1>3 DEF PlaceAttached, DoStop, Crashes
  <2>3. PlaceAttached'
    BY <1>0, <1>3, <2>2 DEF PlaceAttached, Still, SameWorld, SameAgent, DoStop
  <2> QED BY <2>1, <2>3, AttachedParts
<1>4. CASE DoGiveUp
  <2>1. WireAttached' /\ PlaceAttached'
    BY <1>0, <1>4 DEF WireAttached, PlaceAttached, SameWorld, SameAgent, DoGiveUp
  <2> QED BY <2>1, AttachedParts
<1>5. CASE DoReconnect
  <2>1. WireAttached' /\ PlaceAttached'
    BY <1>0, <1>5 DEF WireAttached, PlaceAttached, DoReconnect
  <2> QED BY <2>1, AttachedParts
<1>6. CASE DoConnect
  <2>1. DOMAIN to_agent' = {} /\ conn = "down"
    BY <1>0, <1>6, Single DEF DoConnect, PlaceAttached, Typed, TypeOK
  <2>2. WireAttached' /\ PlaceAttached'
    BY <1>0, <1>6, <2>1 DEF WireAttached, PlaceAttached, DoConnect, SameAgent, SameWorld
  <2> QED BY <2>2, AttachedParts
<1> QED BY <1>1, <1>2, <1>3, <1>4, <1>5, <1>6 DEF DoProgram

\* What the reader resolves says that it is.
LEMMA ReaderAttached ==
  ASSUME Typed, Asked, OneAnswer, Attached, DoReader
  PROVE  Attached'
<1> USE DEF Serving
<1>0. WireAttached /\ PlaceAttached
  BY AttachedParts
<1>1. ASSUME Reads PROVE WireAttached'
  <2>1. \A i \in DOMAIN to_agent' : i + 1 \in DOMAIN to_agent /\ to_agent'[i] = to_agent[i + 1]
    BY <1>1, ReadsElements DEF Reads
  <2> QED BY <1>0, <1>1, <2>1 DEF WireAttached, Reads, SameWorld, SameProgram
<1>2. CASE DoReadOpen \/ DoReadResume \/ DoReadClose \/ DoReadPong
  <2>1. PlaceAttached' /\ Reads
    BY <1>0, <1>2 DEF PlaceAttached, DoReadOpen, DoReadResume, DoReadClose, DoReadPong, Answers1, Reads, SameAgent,
                      SameWorld, SameProgram
  <2> QED BY <1>1, <2>1, AttachedParts
<1>3. CASE DoReadUnknown \/ DoReadRefusal
  <2>1. PlaceAttached' /\ Reads
    BY <1>0, <1>3 DEF PlaceAttached, DoReadUnknown, DoReadRefusal, Answers1, Reads, SameAgent,
                      SameWorld, SameProgram
  <2> QED BY <1>1, <2>1, AttachedParts
<1>4. CASE DoReadOld \/ DoReadAction \/ DoReadState \/ DoReadFrame
  <2>1. Reads /\ (future' = future \/ (future = "pending" /\ future' = "done" /\ pc \notin {"opening", "resuming"})) /\ ready' \in {ready, None}
    BY <1>4 DEF DoReadOld, DoReadAction, DoReadState, DoReadFrame, AnswersOrNot, Answers1, SameAgent
  <2>2. PlaceAttached'
    BY <1>0, <2>1 DEF PlaceAttached, Reads, SameWorld, SameProgram
  <2> QED BY <1>1, <2>1, <2>2, AttachedParts
<1>5. CASE DoReadRange \/ DoFinish
  <2>1. WireAttached' /\ PlaceAttached'
    BY <1>0, <1>5 DEF PlaceAttached, WireAttached, DoReadRange, DoFinish, Falls, SameWorld, SameProgram
  <2> QED BY <2>1, AttachedParts
<1> QED BY <1>2, <1>3, <1>4, <1>5 DEF DoReader

\* The world attaches and detaches.
LEMMA WorldAttached ==
  ASSUME Typed, Asked, OneAnswer, Attached, DoHandle \/ DoOther
  PROVE  Attached'
<1> USE DEF Serving, Ends
<1>0. WireAttached /\ PlaceAttached
  BY AttachedParts

\* One message more, which says nothing of the end of the session.
<1>a. ASSUME SameClient, UNCHANGED <<held, attached>>, NEW m, Tells(m),
             ~(m.kind = "status" /\ m.state = "closed"),
             conn = "up" /\ ~attached /\ pc \notin {"closing"} \union Ends => m.kind \in {"result", "error"}
      PROVE  Attached'
  <2>1. \A i \in DOMAIN to_agent' : (i \in DOMAIN to_agent /\ to_agent'[i] = to_agent[i]) \/ to_agent'[i] = m
    BY <1>a, TellsElements
  <2>2. WireAttached'
    BY <1>0, <1>a, <2>1 DEF WireAttached, SameClient, SameProgram
  <2>3. PlaceAttached'
    BY <1>0, <1>a DEF PlaceAttached, SameClient, SameProgram, SameAgent
  <2> QED BY <2>2, <2>3, AttachedParts
<1>1. CASE DoHandleOpen
  <2>1. WireAttached'
    BY <1>1 DEF DoHandleOpen, WireAttached, Status
  <2>2. PlaceAttached'
    BY <1>0, <1>1 DEF DoHandleOpen, PlaceAttached, Takes, SameClient, SameProgram, SameAgent
  <2> QED BY <2>1, <2>2, AttachedParts
<1>2. CASE DoHandleResume
  <2>1. ASSUME NEW i \in DOMAIN to_agent' PROVE ~(to_agent'[i].kind = "status" /\ to_agent'[i].state = "closed")
    <3>1. ASSUME NEW k \in DOMAIN log PROVE Logged(k).state # "closed"
      BY DEF Typed, EntryOK, StateOK, Running, Terminal, Logged, Status
    <3> QED BY <1>2, <3>1 DEF DoHandleResume, Status
  <2>2. WireAttached'
    BY <1>2, <2>1 DEF DoHandleResume, WireAttached
  <2>3. PlaceAttached'
    BY <1>0, <1>2 DEF DoHandleResume, PlaceAttached, Takes, SameClient, SameProgram, SameAgent
  <2> QED BY <2>2, <2>3, AttachedParts
<1>3. CASE DoHandleUnknown \/ DoHandleRefuse \/ DoHandleOther
  <2>1. PICK m : Tells(m) /\ m.kind \in {"result", "error"}
    BY <1>3 DEF DoHandleUnknown, DoHandleRefuse, DoHandleOther, Tells
  <2>2. SameClient /\ UNCHANGED <<held, attached>>
    BY <1>3 DEF DoHandleUnknown, DoHandleRefuse, DoHandleOther, Takes, SameWorld
  <2> QED BY <1>a, <2>1, <2>2
<1>4. CASE DoHandleSubmit \/ DoHandleCancel
  <2>1. PICK m : Tells(m) /\ m.kind = "status" /\ m.state # "closed"
    BY <1>4 DEF DoHandleSubmit, DoHandleCancel, Replied, Status, Running, Terminal
  <2>2. SameClient /\ UNCHANGED <<held, attached>> /\ pc \in {"moving", "cancelling"}
    BY <1>4 DEF DoHandleSubmit, DoHandleCancel, Takes
  <2> QED BY <1>0, <1>a, <2>1, <2>2 DEF PlaceAttached
<1>5. CASE DoHandleClose
  <2>1. WireAttached'
    BY <1>5 DEF DoHandleClose, WireAttached, Takes, SameClient, SameProgram
  <2>2. PlaceAttached'
    BY <1>0, <1>5 DEF DoHandleClose, PlaceAttached, Takes, SameClient, SameProgram, SameAgent
  <2> QED BY <2>1, <2>2, AttachedParts
<1>6. CASE DoLose
  <2>1. WireAttached'
    BY <1>6 DEF DoLose, Falls, WireAttached
  <2>2. PlaceAttached'
    BY <1>0, <1>6 DEF DoLose, Falls, PlaceAttached, SameProgram
  <2> QED BY <2>1, <2>2, AttachedParts
<1>7. CASE DoForget
  <2>1. WireAttached' /\ PlaceAttached'
    BY <1>0, <1>7 DEF DoForget, WireAttached, PlaceAttached, SameClient, SameProgram, SameAgent
  <2> QED BY <2>1, AttachedParts
<1>8. CASE (DoAdvance /\ to_agent' = to_agent) \/ DoNothing
  <2>1. SameClient /\ UNCHANGED <<to_agent, held, attached>>
    BY <1>8 DEF DoAdvance, DoNothing, SameWorld
  <2>2. WireAttached' /\ PlaceAttached'
    BY <1>0, <2>1 DEF WireAttached, PlaceAttached, SameClient, SameProgram, SameAgent
  <2> QED BY <2>2, AttachedParts
<1>9. CASE (DoAdvance /\ to_agent' # to_agent) \/ DoTell
  <2>1. SameClient /\ UNCHANGED <<held, attached>> /\ attached
    BY <1>9 DEF DoAdvance, DoTell, SameWorld
  <2>2. PICK m : Tells(m) /\ ~(m.kind = "status" /\ m.state = "closed")
    <3>1. CASE DoTell
      BY <3>1 DEF DoTell
    <3>2. CASE DoAdvance /\ to_agent' # to_agent
      <4>1. PICK id \in Moves, state \in {"far"} \union Terminal : Tells(Status(Len(log) + 1, id, state))
        BY <3>2 DEF DoAdvance
      <4> QED BY <4>1 DEF Status, Terminal
    <3> QED BY <1>9, <3>1, <3>2
  <2> QED BY <1>a, <2>1, <2>2
<1> QED BY <1>1, <1>2, <1>3, <1>4, <1>5, <1>6, <1>7, <1>8, <1>9 DEF DoHandle, DoOther

-----------------------------------------------------------------------------
(* The session of the agent                                                *)

\* The program goes on with the session it has.
LEMMA ProgramHeld ==
  ASSUME Typed, Asked, OneAnswer, Attached, Held, DoProgram
  PROVE  Held'
<1> USE DEF Held, Phase, Serving, Retried
<1>1. CASE DoPing
  BY <1>1 DEF DoPing, Still, SameAgent, Called
<1>2. CASE DoSubmit
  BY <1>2 DEF DoSubmit, Still, SameAgent, Returned
<1>3. CASE DoClose \/ DoCancel \/ DoOpen
  BY <1>3 DEF DoClose, DoCancel, DoOpen, Still, SameAgent, Called
<1>4. CASE DoResume \/ DoSettle
  BY <1>4 DEF DoResume, DoSettle, Still, SameAgent
<1>5. CASE DoWait \/ DoWatch \/ DoAwait
  BY <1>5 DEF DoWait, DoWatch, DoAwait, Still, SameAgent
<1>6. CASE DoStop \/ DoGiveUp
  BY <1>6 DEF DoStop, DoGiveUp, Still, SameAgent, Ends, Labels
<1>7. CASE DoReconnect
  <2>1. Phase
    BY <1>7 DEF DoReconnect
  <2> QED BY <1>7, <2>1 DEF DoReconnect
<1>8. CASE DoConnect
  BY <1>8 DEF DoConnect, SameAgent, Attached
<1> QED BY <1>1, <1>2, <1>3, <1>4, <1>5, <1>6, <1>7, <1>8 DEF DoProgram

\* A token is forgotten only where the session is over.
LEMMA ReaderHeld ==
  ASSUME Typed, Asked, OneAnswer, Attached, Held, DoReader
  PROVE  Held'
<1> USE DEF Held, Phase, Serving
<1>1. CASE DoReadOpen
  BY <1>1, NoneIsOther, Names DEF DoReadOpen, Answers1, Reads, SameProgram
<1>2. CASE DoReadResume \/ DoReadClose \/ DoReadPong \/ DoReadUnknown \/ DoReadRefusal
  BY <1>2 DEF DoReadResume, DoReadClose, DoReadPong, DoReadUnknown, DoReadRefusal, Answers1, Reads, SameAgent,
    SameProgram
<1>3. CASE DoReadOld \/ DoReadAction \/ DoReadFrame
  BY <1>3 DEF DoReadOld, DoReadAction, DoReadFrame, AnswersOrNot, Answers1, Reads, SameAgent, SameProgram
<1>4. CASE DoReadState
  <2>1. to_agent[1].state # "closed" \/ pc \in {"closing"} \union Ends
    BY <1>4, ReadsElements DEF DoReadState, Reads, Attached, IsStatus
  <2> QED BY <1>4, <2>1 DEF DoReadState, Reads, SameProgram, Ends
<1>5. CASE DoReadRange \/ DoFinish
  BY <1>5 DEF DoReadRange, DoFinish, Falls, SameProgram
<1> QED BY <1>1, <1>2, <1>3, <1>4, <1>5 DEF DoReader

\* The world changes nothing of the client.
LEMMA WorldHeld ==
  ASSUME Held, DoHandle \/ DoOther
  PROVE  Held'
<1>1. ASSUME SameClient PROVE Held'
  BY <1>1 DEF Held, Phase, SameClient, SameAgent, SameProgram
<1>2. CASE DoLose
  BY <1>2 DEF DoLose, Falls, SameProgram, Held, Phase
<1> QED
  BY <1>1, <1>2
  DEF DoHandle, DoOther, DoHandleOpen, DoHandleResume, DoHandleUnknown, DoHandleSubmit, DoHandleRefuse,
      DoHandleCancel, DoHandleOther, DoHandleClose, DoAdvance, DoForget, DoTell, DoNothing, Takes

-----------------------------------------------------------------------------
(* One move at a time                                                      *)

\* A move is submitted when the last one has its outcome.
LEMMA ProgramMoved ==
  ASSUME Typed, Asked, OneAnswer, Attached, RecordTrue, Moved, DoProgram
  PROVE  Moved'
<1> USE DEF Moved, Placed, Retried
<1>1. CASE DoPing
  BY <1>1 DEF DoPing, Still, SameWorld
<1>2. CASE DoSubmit
  <2>1. \A id \in Moves : act[id] \notin {"executing", "far"}
    <3>1. CASE pc = "sampling"
      BY <3>1
    <3>2. CASE pc # "sampling"
      <4>1. actions[move] \in Terminal /\ move # 0 /\ move \in Moves
        BY <1>2, <3>2, Names DEF DoSubmit, Returned, Typed, TypeOK
      <4>2. act[move] \in Terminal
        BY <4>1 DEF RecordTrue
      <4> QED BY <4>2 DEF Terminal
    <3> QED BY <3>1, <3>2
  <2>2. \A id \in Moves : act[id] # None => id <= move + 1
    BY Names DEF Typed, TypeOK
  <2>3. act' = act /\ move' = move + 1 /\ pc' = "moving" /\ future' # "done"
    BY <1>2 DEF DoSubmit, Still, SameWorld, Called
  <2> QED BY <2>1, <2>2, <2>3
<1>3. CASE DoClose \/ DoCancel
  BY <1>3 DEF DoClose, DoCancel, Still, SameWorld
<1>4. CASE DoResume \/ DoSettle
  BY <1>4 DEF DoResume, DoSettle, Still, SameWorld
<1>5. CASE DoOpen
  <2>1. held = None
    BY <1>5 DEF DoOpen, Attached
  <2> QED BY <1>5, <2>1 DEF DoOpen, Still, SameWorld
<1>6. CASE DoWait \/ DoWatch \/ DoAwait
  BY <1>6 DEF DoWait, DoWatch, DoAwait, Still, SameWorld
<1>7. CASE DoStop \/ DoGiveUp
  BY <1>7 DEF DoStop, DoGiveUp, Still, SameWorld
<1>8. CASE DoReconnect
  BY <1>8 DEF DoReconnect
<1>9. CASE DoConnect
  BY <1>9 DEF DoConnect, SameWorld
<1> QED BY <1>1, <1>2, <1>3, <1>4, <1>5, <1>6, <1>7, <1>8, <1>9 DEF DoProgram

\* Reading changes no action.
LEMMA ReaderMoved ==
  ASSUME Typed, Asked, OneAnswer, Moved, DoReader
  PROVE  Moved'
<1> USE DEF Moved, Placed
<1>1. CASE DoReadOpen \/ DoReadResume \/ DoReadClose \/ DoReadPong
  BY <1>1 DEF DoReadOpen, DoReadResume, DoReadClose, DoReadPong, Answers1, Reads, SameProgram, SameWorld
<1>2. CASE DoReadUnknown \/ DoReadRefusal
  BY <1>2 DEF DoReadUnknown, DoReadRefusal, Answers1, Reads, SameProgram, SameWorld
<1>3. CASE DoReadOld \/ DoReadAction
  <2>1. Reads
    BY <1>3 DEF DoReadOld, DoReadAction
  <2>2. \/ future' = future \/ pc # "moving"
        \/ act[move] \in Running
    <3>1. ASSUME Answers1("done"), pc \in Answers(to_agent[1].method), pc = "moving" PROVE act[move] \in Running
      <4>1. AnswerTrue(to_agent[1], 1) /\ MessageOK(to_agent[1]) /\ IsStatus(to_agent[1])
        BY <1>3, <3>1, ReadsElements DEF Answers1, Reads, OneAnswer, Typed, DoReadOld, DoReadAction
      <4>2. to_agent[1].method = "submit"
        BY <3>1, <4>1, Methods DEF MessageOK, Response, IsStatus, Answers1
      <4> QED BY <4>1, <4>2 DEF AnswerTrue, IsStatus
    <3> QED BY <1>3, <3>1 DEF DoReadOld, DoReadAction, AnswersOrNot
  <2> QED BY <2>1, <2>2, NoneIsOther DEF Reads, SameProgram, SameWorld, Running, Terminal
<1>4. CASE DoReadState \/ DoReadFrame
  BY <1>4 DEF DoReadState, DoReadFrame, Reads, SameProgram, SameWorld
<1>5. CASE DoReadRange \/ DoFinish
  BY <1>5 DEF DoReadRange, DoFinish, Falls, SameProgram, SameWorld
<1> QED BY <1>1, <1>2, <1>3, <1>4, <1>5 DEF DoReader

\* The world goes on with the move that the program is at.
LEMMA WorldMoved ==
  ASSUME Typed, Attached, Moved, DoHandle \/ DoOther
  PROVE  Moved'
<1> USE DEF Moved, Placed
<1>1. CASE DoHandleOpen \/ DoHandleResume
  BY <1>1, Names DEF DoHandleOpen, DoHandleResume, Takes, SameClient, SameProgram
<1>2. CASE DoHandleUnknown \/ DoHandleRefuse \/ DoHandleOther \/ DoTell \/ DoNothing
  BY <1>2 DEF DoHandleUnknown, DoHandleRefuse, DoHandleOther, DoTell, DoNothing, Takes, SameClient, SameProgram,
    SameWorld
<1>3. CASE DoHandleSubmit
  <2>1. \A id \in Moves : id = move \/ act'[id] = act[id]
    BY <1>3 DEF DoHandleSubmit, Typed
  <2> QED BY <1>3, <2>1, Names DEF DoHandleSubmit, Takes, SameClient, SameProgram, Typed, TypeOK
<1>4. CASE DoHandleCancel
  BY <1>4 DEF DoHandleCancel, Takes, SameClient, SameProgram
<1>5. CASE DoHandleClose \/ DoForget
  <2>1. /\ \A id \in Moves : act'[id] \notin {"executing", "far"} /\ (act'[id] = None <=> act[id] = None)
        /\ SameClient
    BY <1>5, GoneActions DEF DoHandleClose, DoForget, Takes
  <2>2. Placed => move \in Moves
    BY Names DEF Placed, Typed, TypeOK, Ends
  <2>3. conn = "up" => pc = "closing"
    BY <1>5 DEF DoHandleClose, DoForget
  <2> QED BY <2>1, <2>2, <2>3 DEF SameClient, SameProgram, Placed
<1>6. CASE DoLose
  BY <1>6 DEF DoLose, Falls, SameProgram
<1>7. CASE DoAdvance
  <2>1. PICK id \in Moves, state \in {"far"} \union Terminal :
          /\ id = move /\ act[id] \in {"executing", "far"} /\ act' = [act EXCEPT ![id] = state]
    BY <1>7 DEF DoAdvance
  <2>2. (\A i \in Moves : i = move \/ act'[i] = act[i]) /\ act'[move] \in Running /\ move \in Moves
    BY <2>1 DEF Typed, Running
  <2>3. SameClient /\ held' = held /\ held # None
    BY <1>7 DEF DoAdvance
  <2> QED BY <2>1, <2>2, <2>3, Names, NoneIsOther DEF SameClient, SameProgram, Running, Terminal
<1> QED BY <1>1, <1>2, <1>3, <1>4, <1>5, <1>6, <1>7 DEF DoHandle, DoOther

-----------------------------------------------------------------------------
(* What the world says is true                                             *)

\* An entry more in the log, and perhaps the status that says so on its way.
LEMMA LogGrows ==
  ASSUME Typed, LogTrue, NEW e, Longer(log, log', e),
         \A id \in Moves : act[id] \in Terminal => act'[id] = act[id],
         e.about # None => /\ e.about \in Moves
                           /\ e.state \in Terminal => act'[e.about] = e.state
                           /\ act[e.about] \in Terminal => e.state \in Terminal
  PROVE  LogTrue'
<1>1. \A k \in DOMAIN log' : (k \in DOMAIN log /\ log'[k] = log[k] /\ k <= Len(log))
        \/ (k = Len(log) + 1 /\ log'[k] = e)
  BY LongerElements
<1>2. Len(log) \in Nat
  BY LongerElements
<1>3. \A k \in DOMAIN log : k \in Nat /\ (log[k].about # None => log[k].about \in Moves)
  BY LongerElements DEF Typed, EntryOK, StateOK
<1>4. \A k \in DOMAIN log : log[k].about # None /\ log[k].state \in Terminal =>
        act[log[k].about] = log[k].state /\ act'[log[k].about] = log[k].state
  BY <1>3 DEF LogTrue
<1>5. \A k \in DOMAIN log' : log'[k].about # None /\ log'[k].state \in Terminal
        => act'[log'[k].about] = log'[k].state
  BY <1>1, <1>4
<1>6. ASSUME NEW j \in DOMAIN log', NEW k \in DOMAIN log', j < k, log'[j].about # None,
               log'[j].about = log'[k].about,
             log'[j].state \in Terminal
      PROVE  log'[k].state \in Terminal
  <2>1. j \in DOMAIN log /\ log'[j] = log[j]
    BY <1>1, <1>2, <1>3, <1>6
  <2>2. CASE k \in DOMAIN log /\ log'[k] = log[k]
    BY <1>6, <2>1, <2>2 DEF LogTrue
  <2>3. CASE log'[k] = e
    BY <1>4, <1>6, <2>1, <2>3
  <2> QED BY <1>1, <2>2, <2>3
<1> QED BY <1>5, <1>6 DEF LogTrue

\* What is said is logged.
LEMMA StatusGrows ==
  ASSUME Typed, StatusTrue, NEW e, Longer(log, log', e), UNCHANGED <<conn, held>>,
         \A id \in Moves : act[id] \in Terminal => act'[id] = act[id],
         e.about # None /\ e.state \in Terminal => act'[e.about] = e.state,
         \/ to_agent' = to_agent
         \/ \E m : /\ Tells(m)
                   /\ m.kind = "status" /\ m.about = e.about /\ m.state = e.state /\ m.seq = Len(log) + 1
  PROVE  StatusTrue'
<1>1. \A k \in DOMAIN log : k \in DOMAIN log' /\ log'[k] = log[k]
  BY LongerElements
<1>2. Len(log) + 1 \in DOMAIN log' /\ log'[Len(log) + 1] = e
  BY LongerElements
<1>3. \A i \in DOMAIN to_agent' :
        \/ i \in DOMAIN to_agent /\ to_agent'[i] = to_agent[i]
        \/ to_agent'[i].about = e.about /\ to_agent'[i].state = e.state /\ to_agent'[i].seq = Len(log) + 1
  <2>1. CASE to_agent' = to_agent
    BY <2>1
  <2>2. ASSUME NEW m, Tells(m), m.kind = "status", m.about = e.about, m.state = e.state, m.seq = Len(log) + 1
        PROVE  \A i \in DOMAIN to_agent' :
                 \/ i \in DOMAIN to_agent /\ to_agent'[i] = to_agent[i]
                 \/ to_agent'[i].about = e.about /\ to_agent'[i].state = e.state /\ to_agent'[i].seq = Len(log) + 1
    BY <2>2, TellsElements
  <2> QED BY <2>1, <2>2
<1>4. \A i \in DOMAIN to_agent : to_agent[i].kind = "status" /\ to_agent[i].about # None
        => to_agent[i].about \in Moves
  BY DEF Typed, MessageOK, StateOK
<1>5. ASSUME NEW i \in DOMAIN to_agent', to_agent'[i].kind = "status", to_agent'[i].about # None,
             to_agent'[i].state \in Terminal
      PROVE  act'[to_agent'[i].about] = to_agent'[i].state
  BY <1>3, <1>4, <1>5 DEF StatusTrue
<1>6. ASSUME conn = "up", held # None, NEW i \in DOMAIN to_agent', to_agent'[i].kind = "status"
      PROVE  /\ to_agent'[i].seq \in DOMAIN log'
             /\ log'[to_agent'[i].seq].about = to_agent'[i].about
                  /\ log'[to_agent'[i].seq].state = to_agent'[i].state
  BY <1>1, <1>2, <1>3, <1>6 DEF StatusTrue
<1> QED BY <1>5, <1>6 DEF StatusTrue

\* Messages are read, or lost; nothing is said.
LEMMA NothingSaid ==
  ASSUME StatusTrue, UNCHANGED <<log, act>>, conn' = "up" => conn = "up" /\ held' = held,
         \A i \in DOMAIN to_agent' : \/ \E j \in DOMAIN to_agent : to_agent'[i] = to_agent[j]
                                     \/ to_agent'[i].kind # "status"
  PROVE  StatusTrue'
<1>1. ASSUME NEW i \in DOMAIN to_agent', to_agent'[i].kind = "status"
      PROVE  \E j \in DOMAIN to_agent : to_agent'[i] = to_agent[j]
  BY <1>1
<1>2. ASSUME NEW i \in DOMAIN to_agent', to_agent'[i].kind = "status", to_agent'[i].about # None,
             to_agent'[i].state \in Terminal
      PROVE  act'[to_agent'[i].about] = to_agent'[i].state
  BY <1>1, <1>2 DEF StatusTrue
<1>3. ASSUME conn' = "up", held' # None, NEW i \in DOMAIN to_agent', to_agent'[i].kind = "status"
      PROVE  /\ to_agent'[i].seq \in DOMAIN log'
             /\ log'[to_agent'[i].seq].about = to_agent'[i].about
                  /\ log'[to_agent'[i].seq].state = to_agent'[i].state
  BY <1>1, <1>3 DEF StatusTrue
<1> QED BY <1>2, <1>3 DEF StatusTrue

\* The client changes neither the log nor what is under way, but for what it reads.
LEMMA ClientTrue ==
  ASSUME Typed, Attached, LogTrue, StatusTrue, DoProgram \/ DoReader \/ DoLose
  PROVE  LogTrue' /\ StatusTrue'
<1>1. UNCHANGED <<log, act, held>>
  BY DEF DoProgram, DoReader, DoLose, Falls, DoPing, DoSubmit, DoClose, DoCancel, DoResume, DoSettle, DoOpen,
    DoWait,
         DoWatch, DoAwait, DoStop, DoGiveUp, DoReconnect, DoConnect, Still, SameWorld,
         DoReadOpen, DoReadResume, DoReadClose, DoReadPong, DoReadUnknown, DoReadRefusal, DoReadOld, DoReadAction,
         DoReadState, DoReadFrame, DoReadRange, DoFinish, Answers1, Reads
<1>2. /\ conn' = "up" => conn = "up" \/ DOMAIN to_agent' = {}
      /\ \/ to_agent' = to_agent
         \/ DOMAIN to_agent' = {}
         \/ Shorter(to_agent, to_agent')
  <2>1. CASE DoProgram
    <3>1. CASE DoConnect
      BY <3>1, Single DEF DoConnect, Attached, Typed, TypeOK
    <3> QED
      BY <2>1, <3>1
      DEF DoProgram, DoPing, DoSubmit, DoClose, DoCancel, DoResume, DoSettle, DoOpen, DoWait,
          DoWatch, DoAwait, DoStop, DoGiveUp, DoReconnect, Still
  <2>2. CASE DoReader
    BY <2>2
    DEF DoReader, DoReadOpen, DoReadResume, DoReadClose, DoReadPong, DoReadUnknown, DoReadRefusal, DoReadOld,
        DoReadAction, DoReadState, DoReadFrame, DoReadRange, DoFinish, Answers1, Reads, Falls
  <2>3. CASE DoLose
    BY <2>3 DEF DoLose, Falls
  <2> QED BY <2>1, <2>2, <2>3
<1>3. \A i \in DOMAIN to_agent' : \E j \in DOMAIN to_agent : to_agent'[i] = to_agent[j]
  <2>1. CASE Shorter(to_agent, to_agent')
    BY <2>1, ReadsElements
  <2> QED BY <1>2, <2>1
<1>4. LogTrue'
  BY <1>1 DEF LogTrue
<1>5. StatusTrue'
  <2>1. CASE DOMAIN to_agent' = {}
    BY <2>1 DEF StatusTrue
  <2>2. CASE DOMAIN to_agent' # {}
    BY <1>1, <1>2, <1>3, <2>2, NothingSaid
  <2> QED BY <2>1, <2>2
<1> QED BY <1>4, <1>5

\* The world says what is so.
LEMMA WorldTrue ==
  ASSUME Typed, Asked, Attached, LogTrue, StatusTrue, DoHandle \/ DoAdvance \/ DoForget \/ DoTell \/ DoNothing
  PROVE  LogTrue' /\ StatusTrue'
<1>0. conn' = conn
  BY DEF DoHandle, DoHandleOpen, DoHandleResume, DoHandleUnknown, DoHandleSubmit, DoHandleRefuse, DoHandleCancel,
         DoHandleOther, DoHandleClose, DoAdvance, DoForget, DoTell, DoNothing, Takes, SameClient
<1>1. CASE DoHandleOpen
  <2>1. LogTrue'
    BY <1>1 DEF DoHandleOpen, LogTrue, Entry
  <2>2. StatusTrue'
    BY <1>1 DEF DoHandleOpen, StatusTrue, Status, Entry
  <2> QED BY <2>1, <2>2
<1>2. CASE DoHandleResume
  <2>1. LogTrue'
    BY <1>2, LogGrows DEF DoHandleResume, Entry
  <2>2. /\ \A k \in DOMAIN log : k \in DOMAIN log' /\ log'[k] = log[k]
        /\ Len(log) + 1 \in DOMAIN log' /\ log'[Len(log) + 1] = Entry(None, "active")
    BY <1>2, LongerElements DEF DoHandleResume
  <2>3. ASSUME NEW i \in DOMAIN to_agent', to_agent'[i].kind = "status"
        PROVE  /\ to_agent'[i].seq \in DOMAIN log'
               /\ log'[to_agent'[i].seq].about = to_agent'[i].about
                    /\ log'[to_agent'[i].seq].state = to_agent'[i].state
    <3>1. CASE to_agent'[i] = Status(Len(log) + 1, None, "active")
      BY <2>2, <3>1 DEF Status, Entry
    <3>2. ASSUME NEW k \in DOMAIN log, to_agent'[i] = Logged(k)
          PROVE  /\ to_agent'[i].seq \in DOMAIN log'
                 /\ log'[to_agent'[i].seq].about = to_agent'[i].about
                      /\ log'[to_agent'[i].seq].state = to_agent'[i].state
      BY <2>2, <3>2 DEF Logged, Status
    <3> QED BY <1>2, <2>3, <3>1, <3>2, NoneIsOther DEF DoHandleResume
  <2>4. ASSUME NEW i \in DOMAIN to_agent', to_agent'[i].kind = "status", to_agent'[i].about # None,
               to_agent'[i].state \in Terminal
        PROVE  act'[to_agent'[i].about] = to_agent'[i].state
    BY <2>1, <2>3, <2>4 DEF LogTrue
  <2>5. StatusTrue'
    BY <2>3, <2>4 DEF StatusTrue
  <2> QED BY <2>1, <2>5
<1>3. CASE DoHandleUnknown \/ DoHandleRefuse \/ DoHandleOther \/ DoTell \/ DoNothing
  <2>1. UNCHANGED <<log, act, held>>
    BY <1>3 DEF DoHandleUnknown, DoHandleRefuse, DoHandleOther, DoTell, DoNothing, SameWorld
  <2>2. to_agent' = to_agent \/ \E m : Tells(m) /\ m.kind # "status"
    BY <1>3 DEF DoHandleUnknown, DoHandleRefuse, DoHandleOther, DoTell, DoNothing, Tells
  <2>3. \A i \in DOMAIN to_agent' : \/ \E j \in DOMAIN to_agent : to_agent'[i] = to_agent[j]
                                    \/ to_agent'[i].kind # "status"
    BY <2>2, TellsElements
  <2> QED BY <1>0, <2>1, <2>3, NothingSaid DEF LogTrue
<1>4. CASE DoHandleSubmit
  <2>1. PICK e : e = Entry(move, "executing")
    OBVIOUS
  <2>2. Longer(log, log', e) /\ e.about = move /\ e.state = "executing" /\ move \in Moves
          /\ act[move] \notin Terminal
    BY <1>4, <2>1, NoneIsOther DEF DoHandleSubmit, Entry, Terminal
  <2>3. (\A id \in Moves : act[id] \in Terminal => act'[id] = act[id]) /\ e.state \notin Terminal /\ held' = held
    BY <1>4, <2>2 DEF DoHandleSubmit, Typed, Terminal
  <2>4. \E m : Tells(m) /\ m.kind = "status" /\ m.about = e.about /\ m.state = e.state /\ m.seq = Len(log) + 1
    <3>1. PICK m : m = Replied(Status(Len(log) + 1, move, "executing"), "submit") /\ Tells(m)
      BY <1>4 DEF DoHandleSubmit
    <3> QED BY <2>2, <3>1 DEF Replied, Status
  <2> QED BY <1>0, <2>2, <2>3, <2>4, LogGrows, StatusGrows
<1>5. CASE DoHandleCancel
  <2>1. PICK e : e = Entry(move, act[move])
    OBVIOUS
  <2>2. Longer(log, log', e) /\ e.about = move /\ e.state = act[move] /\ move \in Moves /\ UNCHANGED <<act, held>>
    BY <1>5, <2>1 DEF DoHandleCancel, Entry
  <2>4. \E m : Tells(m) /\ m.kind = "status" /\ m.about = e.about /\ m.state = e.state /\ m.seq = Len(log) + 1
    <3>1. PICK m : m = Replied(Status(Len(log) + 1, move, act[move]), "cancel") /\ Tells(m)
      BY <1>5 DEF DoHandleCancel
    <3> QED BY <2>2, <3>1 DEF Replied, Status
  <2> QED BY <1>0, <2>2, <2>4, LogGrows, StatusGrows
<1>6. CASE DoHandleClose \/ DoForget
  <2>1. /\ held' = None /\ DOMAIN log' = {}
        /\ \A id \in Moves : act[id] \in Terminal => act'[id] = act[id]
    BY <1>6, GoneActions DEF DoHandleClose, DoForget
  <2>2. \A i \in DOMAIN to_agent' : \/ i \in DOMAIN to_agent /\ to_agent'[i] = to_agent[i]
                                    \/ to_agent'[i].kind = "status" => to_agent'[i].about = None
    <3>1. CASE conn = "up" /\ DoHandleClose
      <4> DEFINE a == Status(Len(log) + 1, None, "closed")
                 b == [kind |-> "result", method |-> "close"]
      <4>1. PICK t : Longer(to_agent, t, a) /\ Longer(t, to_agent', b)
        BY <3>1 DEF DoHandleClose
      <4>2. a.about = None
        BY DEF Status
      <4> HIDE DEF a
      <4> QED BY <4>1, <4>2, LongerElements
    <3> QED BY <1>6, <3>1 DEF DoHandleClose, DoForget
  <2>3. \A i \in DOMAIN to_agent : to_agent[i].kind = "status" /\ to_agent[i].about # None
          => to_agent[i].about \in Moves
    BY DEF Typed, MessageOK, StateOK
  <2>4. ASSUME NEW i \in DOMAIN to_agent', to_agent'[i].kind = "status", to_agent'[i].about # None,
               to_agent'[i].state \in Terminal
        PROVE  act'[to_agent'[i].about] = to_agent'[i].state
    BY <2>1, <2>2, <2>3, <2>4 DEF StatusTrue
  <2> QED BY <2>1, <2>4 DEF LogTrue, StatusTrue
<1>7. CASE DoAdvance
  <2>1. PICK id \in Moves, state \in {"far"} \union Terminal :
          /\ act[id] \in {"executing", "far"} /\ act' = [act EXCEPT ![id] = state]
          /\ Longer(log, log', Entry(id, state))
          /\ IF attached THEN Tells(Status(Len(log) + 1, id, state)) ELSE to_agent' = to_agent
          /\ held' = held
    BY <1>7 DEF DoAdvance
  <2>2. PICK e : e = Entry(id, state)
    OBVIOUS
  <2>3. Longer(log, log', e) /\ e.about = id /\ e.state = state
    BY <2>1, <2>2 DEF Entry
  <2>4. (\A i \in Moves : act[i] \in Terminal => act'[i] = act[i]) /\ act'[id] = state /\ act[id] \notin Terminal
    BY <2>1 DEF Typed, Terminal
  <2>5. \/ to_agent' = to_agent
        \/ \E m : Tells(m) /\ m.kind = "status" /\ m.about = e.about /\ m.state = e.state /\ m.seq = Len(log) + 1
    <3>1. CASE attached
      <4>1. PICK m : m = Status(Len(log) + 1, id, state) /\ Tells(m)
        BY <2>1, <3>1
      <4> QED BY <2>3, <4>1 DEF Status
    <3> QED BY <2>1, <3>1
  <2> QED BY <1>0, <2>1, <2>3, <2>4, <2>5, LogGrows, StatusGrows
<1> QED BY <1>1, <1>2, <1>3, <1>4, <1>5, <1>6, <1>7 DEF DoHandle

-----------------------------------------------------------------------------
(* What the agent records is true                                          *)

\* The program makes one record, of an action that is not there yet.
LEMMA ProgramRecordTrue ==
  ASSUME Typed, RecordTrue, DoProgram
  PROVE  RecordTrue'
<1> USE DEF RecordTrue
<1>1. CASE DoSubmit
  <2>1. \A id \in Moves : actions'[id] = actions[id] \/ actions'[id] = "submitted"
    BY <1>1 DEF DoSubmit, Typed, TypeOK
  <2> QED BY <1>1, <2>1 DEF DoSubmit, Still, SameWorld, SameAgent, Terminal
<1>2. CASE DoWait
  BY <1>2 DEF DoWait, Still, SameWorld, SameAgent
<1>3. CASE DoPing \/ DoClose \/ DoCancel \/ DoResume \/ DoSettle \/ DoOpen \/ DoWatch \/ DoAwait
  BY <1>3 DEF DoPing, DoClose, DoCancel, DoResume, DoSettle, DoOpen, DoWatch, DoAwait, Still, SameWorld, SameAgent
<1>4. CASE DoStop \/ DoGiveUp \/ DoReconnect \/ DoConnect
  BY <1>4 DEF DoStop, DoGiveUp, DoReconnect, DoConnect, Still, SameWorld, SameAgent
<1> QED BY <1>1, <1>2, <1>3, <1>4 DEF DoProgram

\* A status makes the record what the world said.
LEMMA ReaderRecordTrue ==
  ASSUME Typed, Attached, LogTrue, StatusTrue, RecordTrue, DoReader
  PROVE  RecordTrue'
<1> USE DEF RecordTrue
<1>1. CASE DoReadOpen \/ DoReadUnknown \/ DoReadRange
  <2>1. (\A id \in Moves : actions'[id] = None) /\ UNCHANGED <<pc, move>>
    BY <1>1 DEF DoReadOpen, DoReadUnknown, DoReadRange, Answers1, Reads, SameProgram
  <2>2. pc \in {"opening", "resuming"} \/ conn' = "ending"
    BY <1>1 DEF DoReadOpen, DoReadUnknown, DoReadRange
  <2>3. pc \in {"waiting", "stopping"} => move \in Moves
    BY Names DEF Typed, TypeOK, Ends
  <2> QED BY <2>1, <2>2, <2>3, NoneIsOther DEF Terminal
<1>2. CASE DoReadRefusal
  <2>1. \A id \in Moves : actions'[id] \in {actions[id], None}
    BY <1>2 DEF DoReadRefusal, Typed, TypeOK
  <2> QED BY <1>2, <2>1, NoneIsOther DEF DoReadRefusal, Answers1, Reads, SameProgram, SameWorld, SameAgent, Terminal
<1>3. CASE DoReadResume \/ DoReadClose \/ DoReadPong \/ DoReadOld \/ DoReadFrame
  BY <1>3 DEF DoReadResume, DoReadClose, DoReadPong, DoReadOld, DoReadFrame, AnswersOrNot, Answers1, Reads,
    SameProgram,
              SameWorld, SameAgent
<1>4. CASE DoReadState
  <2>1. last_status_seq \in Nat /\ last_status_seq' \in Nat /\ last_status_seq' > last_status_seq
        /\ \A k \in DOMAIN log : k \in Nat
    BY <1>4, Indices DEF DoReadState, New, Typed, TypeOK
  <2> QED BY <1>4, <2>1 DEF DoReadState, Reads, SameProgram, SameWorld
<1>5. CASE DoReadAction
  <2> DEFINE m == to_agent[1]
  <2>1. /\ last_status_seq \in Nat /\ last_status_seq' = m.seq /\ m.seq = last_status_seq + 1
        /\ \A k \in DOMAIN log : k \in Nat
    BY <1>5, Indices DEF DoReadAction, New, Typed, TypeOK
  <2>2. /\ 1 \in DOMAIN to_agent /\ m.kind = "status" /\ m.about # None /\ conn = "up" /\ m.about \in Moves
        /\ SameProgram /\ SameWorld /\ conn' = conn
    BY <1>5, ReadsElements DEF DoReadAction, Reads, IsStatus, Typed, MessageOK, StateOK
  <2>3. actions' = [actions EXCEPT ![m.about] = m.state] /\ actions'[m.about] = m.state
        /\ \A id \in Moves : id = m.about \/ actions'[id] = actions[id]
    BY <1>5, <2>2 DEF DoReadAction, Typed, TypeOK
  <2>4. m.state \in Terminal => act[m.about] = m.state
    BY <2>2 DEF StatusTrue
  <2>5. held # None => m.seq \in DOMAIN log /\ log[m.seq].about = m.about /\ log[m.seq].state = m.state
    BY <2>2 DEF StatusTrue
  <2>6. held = None => DOMAIN log = {}
    BY Single DEF Typed
  <2> HIDE DEF m
  <2>7. \A id \in Moves : actions'[id] \in Terminal => act'[id] = actions'[id]
    BY <2>2, <2>3, <2>4 DEF SameWorld
  <2>8. ASSUME NEW id \in Moves, actions'[id] \in Terminal, NEW k \in DOMAIN log, k > m.seq, log[k].about = id
        PROVE  log[k].state \in Terminal
    <3>1. CASE id = m.about
      BY <2>2, <2>3, <2>5, <2>6, <2>8, <3>1 DEF LogTrue
    <3>2. CASE id # m.about
      BY <2>1, <2>3, <2>8, <3>2
    <3> QED BY <3>1, <3>2
  <2>9. ASSUME pc \in {"waiting", "stopping"}, future' = "done" PROVE actions'[move] \in Terminal
    <3>1. held # None /\ move \in Moves
      BY <2>2, <2>9, Names DEF Attached, Serving, Typed, TypeOK, Ends
    <3>2. CASE future = "done" /\ m.about = move
      <4>1. m.state \in Terminal
        BY <2>1, <2>2, <2>5, <2>9, <3>1, <3>2
      <4> QED BY <2>3, <3>2, <4>1
    <3>3. CASE future = "done" /\ m.about # move
      BY <2>2, <2>3, <2>9, <3>1, <3>3
    <3>4. CASE future # "done"
      BY <1>5, <2>3, <2>9, <3>4 DEF DoReadAction, AnswersOrNot, m
    <3> QED BY <3>2, <3>3, <3>4
  <2> QED BY <2>1, <2>2, <2>7, <2>8, <2>9 DEF SameWorld, SameProgram
<1>6. CASE DoFinish
  BY <1>6 DEF DoFinish, Falls, SameProgram
<1> QED BY <1>1, <1>2, <1>3, <1>4, <1>5, <1>6 DEF DoReader

\* The log grows by what is true of an action that has ended.
LEMMA RecordGrows ==
  ASSUME Typed, RecordTrue, SameClient, NEW e, Longer(log, log', e),
         \A id \in Moves : act[id] \in Terminal => act'[id] = act[id],
         e.about # None => (act[e.about] \in Terminal => e.state \in Terminal)
  PROVE  RecordTrue'
<1>1. \A k \in DOMAIN log' : (k \in DOMAIN log /\ log'[k] = log[k]) \/ log'[k] = e
  BY LongerElements
<1>2. ASSUME NEW id \in Moves, actions[id] \in Terminal, NEW k \in DOMAIN log', k > last_status_seq,
               log'[k].about = id
      PROVE  log'[k].state \in Terminal
  <2>1. id # None /\ act[id] \in Terminal
    BY <1>2, Names DEF RecordTrue
  <2> QED BY <1>1, <1>2, <2>1 DEF RecordTrue
<1>3. \A id \in Moves : actions[id] \in Terminal => act'[id] = actions[id]
  BY DEF RecordTrue
<1> QED BY <1>2, <1>3 DEF RecordTrue, SameClient, SameAgent, SameProgram

\* Actions that ended do not change.
LEMMA WorldRecordTrue ==
  ASSUME Typed, RecordTrue, DoHandle \/ DoOther
  PROVE  RecordTrue'
<1>1. CASE DoHandleOpen
  <2>1. \A id \in Moves : id # None
    BY Names
  <2> QED BY <1>1, <2>1 DEF DoHandleOpen, RecordTrue, Takes, SameClient, SameAgent, SameProgram, Entry
<1>2. CASE DoHandleResume
  BY <1>2, RecordGrows DEF DoHandleResume, Entry, Takes
<1>3. CASE DoHandleUnknown \/ DoHandleRefuse \/ DoHandleOther \/ DoTell \/ DoNothing
  <2>1. SameClient /\ UNCHANGED <<log, act>>
    BY <1>3 DEF DoHandleUnknown, DoHandleRefuse, DoHandleOther, DoTell, DoNothing, SameWorld, Takes
  <2> QED BY <2>1 DEF RecordTrue, SameClient, SameAgent, SameProgram
<1>4. CASE DoHandleSubmit
  <2>1. PICK e : e = Entry(move, "executing")
    OBVIOUS
  <2>2. Longer(log, log', e) /\ e.about = move /\ act[move] \notin Terminal /\ SameClient
    BY <1>4, <2>1, NoneIsOther DEF DoHandleSubmit, Entry, Terminal, Takes
  <2>3. \A id \in Moves : act[id] \in Terminal => act'[id] = act[id]
    BY <1>4, <2>2 DEF DoHandleSubmit, Typed
  <2> QED BY <2>2, <2>3, RecordGrows
<1>5. CASE DoHandleCancel
  <2>1. PICK e : e = Entry(move, act[move])
    OBVIOUS
  <2>2. Longer(log, log', e) /\ e.about = move /\ e.state = act[move] /\ SameClient /\ act' = act
    BY <1>5, <2>1 DEF DoHandleCancel, Entry, Takes
  <2> QED BY <2>2, RecordGrows
<1>6. CASE DoHandleClose \/ DoForget
  <2>1. DOMAIN log' = {} /\ SameClient /\ \A id \in Moves : act[id] \in Terminal => act'[id] = act[id]
    BY <1>6, GoneActions DEF DoHandleClose, DoForget, Takes
  <2> QED BY <2>1 DEF RecordTrue, SameClient, SameAgent, SameProgram
<1>7. CASE DoAdvance
  <2>1. PICK id \in Moves, state \in {"far"} \union Terminal :
          /\ act[id] \in {"executing", "far"} /\ act' = [act EXCEPT ![id] = state]
          /\ Longer(log, log', Entry(id, state)) /\ SameClient
    BY <1>7 DEF DoAdvance
  <2>2. PICK e : e = Entry(id, state)
    OBVIOUS
  <2>3. Longer(log, log', e) /\ e.about = id /\ act[id] \notin Terminal
    BY <2>1, <2>2 DEF Entry, Terminal
  <2>4. \A i \in Moves : act[i] \in Terminal => act'[i] = act[i]
    BY <2>1, <2>3 DEF Typed
  <2> QED BY <2>1, <2>3, <2>4, RecordGrows
<1>8. CASE DoLose
  BY <1>8 DEF DoLose, Falls, RecordTrue, SameProgram
<1> QED BY <1>1, <1>2, <1>3, <1>4, <1>5, <1>6, <1>7, <1>8 DEF DoHandle, DoOther

-----------------------------------------------------------------------------
(* Outcomes                                                                *)

\* The world does not take back how an action ended.
LEMMA EndsStay ==
  ASSUME Typed, DoProgram \/ DoReader \/ DoHandle \/ DoOther
  PROVE  \A id \in Moves : act[id] \in {"gone"} \union Terminal => act'[id] = act[id]
<1>1. CASE DoHandleSubmit
  BY <1>1, NoneIsOther DEF DoHandleSubmit, Typed, Terminal
<1>2. CASE DoAdvance
  <2>1. PICK id \in Moves, state \in {"far"} \union Terminal :
          /\ act[id] \in {"executing", "far"} /\ act' = [act EXCEPT ![id] = state]
    BY <1>2 DEF DoAdvance
  <2> QED BY <2>1 DEF Typed, Terminal
<1>3. CASE DoHandleClose \/ DoForget
  BY <1>3, GoneActions DEF DoHandleClose, DoForget
<1>4. CASE DoProgram \/ DoReader
  <2>1. act' = act
    BY <1>4
    DEF DoProgram, DoReader, Falls, DoPing, DoSubmit, DoClose, DoCancel, DoResume, DoSettle, DoOpen, DoWait,
        DoWatch, DoAwait, DoStop, DoGiveUp, DoReconnect, DoConnect, Still, SameWorld,
        DoReadOpen, DoReadResume, DoReadClose, DoReadPong, DoReadUnknown, DoReadRefusal, DoReadOld, DoReadAction,
        DoReadState, DoReadFrame, DoReadRange, DoFinish, Answers1, Reads
  <2> QED BY <2>1
<1> QED
  BY <1>1, <1>2, <1>3, <1>4
  DEF DoHandle, DoOther, DoHandleOpen, DoHandleResume, DoHandleUnknown, DoHandleRefuse, DoHandleCancel,
    DoHandleOther,
      DoLose, DoTell, DoNothing, SameWorld, Falls

\* The outcome of a move is what its record shows.
LEMMA NextOutcomes ==
  ASSUME Typed, Moved, RecordTrue, Outcomes, DoProgram \/ DoReader \/ DoHandle \/ DoOther
  PROVE  Outcomes'
<1>1. \A id \in Moves : outcome[id] # None => act'[id] = act[id]
  <2>1. \A id \in Moves : outcome[id] # None => act[id] \in {"gone"} \union Terminal
    BY DEF Outcomes
  <2> QED BY <2>1, EndsStay
<1>2. ASSUME UNCHANGED <<outcome, move>>, pc' = pc \/ pc # "crashed" PROVE Outcomes'
  BY <1>1, <1>2, NoneIsOther DEF Outcomes
<1>3. ASSUME DoSubmit \/ DoStop, Returned, move # 0 PROVE Outcomes'
  <2>1. act' = act /\ move \in Moves /\ move \in Nat
    BY <1>3, Names DEF DoSubmit, DoStop, Still, SameWorld, Typed, TypeOK
  <2>2. PICK result \in {"lost"} \union Terminal :
          /\ outcome' = [outcome EXCEPT ![move] = result]
          /\ result # "lost" => actions[move] = result
          /\ result = "lost" => pc = "sampling"
    BY <1>3 DEF Returned, Terminal
  <2>3. IF result = "lost" THEN act[move] \in {"gone"} \union Terminal ELSE act[move] = result
    <3>1. CASE result = "lost"
      <4>1. act[move] \notin {"executing", "far"} /\ act[move] # None
        BY <1>3, <2>1, <2>2, <3>1 DEF Moved, Placed
      <4> QED BY <2>1, <3>1, <4>1 DEF Typed, Running
    <3> QED BY <2>1, <2>2, <3>1 DEF RecordTrue
  <2>4. outcome'[move] = result /\ \A id \in Moves : id = move \/ outcome'[id] = outcome[id]
    BY <2>1, <2>2 DEF Typed, TypeOK
  <2>5. move' = move + 1 \/ (move' = move /\ (pc' = "crashed" \/ outcome' = outcome))
    BY <1>3 DEF DoSubmit, DoStop
  <2>6. ASSUME NEW id \in Moves, outcome'[id] # None PROVE id < move' \/ (id = move' /\ pc' = "crashed")
    <3>0. pc # "crashed"
      BY <1>3 DEF DoSubmit, DoStop, Returned, Labels
    <3>1. id = move \/ id < move
      BY <2>4, <2>6, <3>0 DEF Outcomes
    <3>2. outcome' = outcome => id < move
      BY <2>6, <3>0 DEF Outcomes
    <3> QED BY <2>1, <2>5, <3>1, <3>2, Names
  <2>7. ASSUME NEW id \in Moves
        PROVE  /\ outcome'[id] \in {None, "lost"} \union Terminal
               /\ outcome'[id] \notin {None, "lost"} => act[id] = outcome'[id]
               /\ outcome'[id] = "lost" => act[id] \in {"gone"} \union Terminal
    <3>1. CASE id = move
      BY <2>2, <2>3, <2>4, <3>1 DEF Terminal
    <3>2. CASE id # move
      BY <2>4, <3>2 DEF Outcomes
    <3> QED BY <3>1, <3>2
  <2> QED BY <2>1, <2>6, <2>7 DEF Outcomes
<1>4. CASE DoProgram
  <2>1. CASE DoSubmit /\ move = 0
    <3>1. outcome' = outcome /\ move' = move + 1 /\ pc # "crashed" /\ move \in Nat
      BY <2>1 DEF DoSubmit, Returned, Typed, TypeOK
    <3>2. \A id \in Moves : outcome'[id] # None => id < move'
      BY <3>1, Names DEF Outcomes
    <3> QED BY <1>1, <3>1, <3>2, NoneIsOther DEF Outcomes
  <2>2. CASE DoSubmit /\ move # 0
    BY <1>3, <2>2 DEF DoSubmit
  <2>3. CASE DoStop
    <3>1. pc # "crashed" /\ move' = move
      BY <2>3 DEF DoStop, Labels
    <3>2. outcome' = outcome \/ (Returned /\ move # 0)
      BY <2>3 DEF DoStop, Returned
    <3> QED BY <1>2, <1>3, <2>3, <3>1, <3>2
  <2>4. CASE DoPing \/ DoClose \/ DoCancel \/ DoResume \/ DoSettle \/ DoOpen \/ DoWait \/ DoWatch \/ DoAwait
             \/ DoGiveUp \/ DoReconnect \/ DoConnect
    <3>1. UNCHANGED <<outcome, move>> /\ pc # "crashed"
      BY <2>4 DEF DoPing, DoClose, DoCancel, DoResume, DoSettle, DoOpen, DoWait, DoWatch, DoAwait, DoGiveUp,
        DoReconnect,
                  DoConnect, Retried
    <3> QED BY <1>2, <3>1
  <2> QED BY <1>4, <2>1, <2>2, <2>3, <2>4 DEF DoProgram
<1>5. CASE DoReader \/ DoHandle \/ DoOther
  <2>1. SameProgram
    BY <1>5
    DEF DoReader, DoReadOpen, DoReadResume, DoReadClose, DoReadPong, DoReadUnknown, DoReadRefusal, DoReadOld,
        DoReadAction, DoReadState, DoReadFrame, DoReadRange, DoFinish, Answers1, Reads, Falls,
        DoHandle, DoOther, DoHandleOpen, DoHandleResume, DoHandleUnknown, DoHandleSubmit, DoHandleRefuse,
        DoHandleCancel, DoHandleOther, DoHandleClose, DoLose, DoAdvance, DoForget, DoTell, DoNothing, Takes,
          SameClient
  <2> QED BY <1>2, <2>1 DEF SameProgram
<1> QED BY <1>4, <1>5

-----------------------------------------------------------------------------
(* A session that is abandoned is over on both sides                       *)

\* The result that opens the session comes first.
OpenUnderWay == to_agent # <<>> /\ to_agent[1].kind = "result" /\ to_agent[1].method = "open"

\* The clauses of Unlost.
SideUnlost ==
  /\ pc \notin {"connecting", "initializing", "resuming", "live", "settling"}
  /\ conn # "up" => session_state = "closed"
  /\ future = "error" => conn # "up"

EndUnlost ==
  /\ conn = "up" /\ held # None => (ready # None /\ session_state # "closed") \/ OpenUnderWay
  /\ conn = "ending" /\ "untold" \notin happened /\ held # None
       => \E i \in DOMAIN to_world : to_world[i].method = "close"
  /\ conn = "down" /\ "untold" \notin happened => held = None

\* Together they are all of it, before a step and after.
LEMMA UnlostParts ==
  /\ Unlost <=> (losses = 0 => SideUnlost /\ EndUnlost)
  /\ (losses' = 0 => SideUnlost' /\ EndUnlost') => Unlost'
BY DEF Unlost, SideUnlost, EndUnlost, OpenUnderWay, EndedTogether

\* Without a loss, the program reconnects never.
LEMMA ProgramUnlost ==
  ASSUME Typed, Attached, Unlost, DoProgram
  PROVE  Unlost'
<1> SUFFICES ASSUME losses' = 0 PROVE SideUnlost' /\ EndUnlost'
  BY UnlostParts
<1> USE DEF SideUnlost
<1>0. losses = 0 /\ SideUnlost /\ EndUnlost
  <2>1. losses = 0
    BY DEF DoProgram, DoPing, DoSubmit, DoClose, DoCancel, DoResume, DoSettle, DoOpen, DoWait, DoWatch, DoAwait,
      DoStop,
           DoGiveUp, DoReconnect, DoConnect, Still, SameBounds
  <2> QED BY <2>1, UnlostParts
<1>1. CASE DoPing \/ DoSubmit \/ DoClose \/ DoCancel
  <2>1. Still /\ future' \in {"pending", "error"} /\ (future' = "error" => conn # "up")
          /\ (conn # "up" => to_world' = to_world)
    BY <1>1 DEF DoPing, DoSubmit, DoClose, DoCancel, Called
  <2>2. SideUnlost'
    BY <1>0, <1>1, <2>1 DEF DoPing, DoSubmit, DoClose, DoCancel, Still, SameAgent
  <2>3. EndUnlost'
    BY <1>0, <2>1 DEF EndUnlost, OpenUnderWay, Still, SameAgent, SameWorld, SameBounds
  <2> QED BY <2>2, <2>3
<1>2. CASE DoWait \/ DoWatch \/ DoStop
  <2>1. EndUnlost'
    BY <1>0, <1>2 DEF DoWait, DoWatch, DoStop, EndUnlost, OpenUnderWay, Still, SameAgent, SameWorld, SameBounds
  <2>2. SideUnlost'
    BY <1>0, <1>2 DEF DoWait, DoWatch, DoStop, Still, SameAgent
  <2> QED BY <2>1, <2>2
<1>3. CASE DoGiveUp
  BY <1>0, <1>3 DEF DoGiveUp, EndUnlost, OpenUnderWay, SameAgent, SameWorld, SameBounds
<1>4. CASE DoReconnect \/ DoConnect \/ DoResume \/ DoSettle \/ DoOpen \/ DoAwait
  BY <1>0, <1>4 DEF DoReconnect, DoConnect, DoResume, DoSettle, DoOpen, DoAwait, Retried
<1> QED BY <1>1, <1>2, <1>3, <1>4 DEF DoProgram

\* The reader ends the connection with a farewell.
LEMMA ReaderUnlost ==
  ASSUME Typed, Attached, Unlost, DoReader
  PROVE  Unlost'
<1> SUFFICES ASSUME losses' = 0 PROVE SideUnlost' /\ EndUnlost'
  BY UnlostParts
<1> USE DEF SideUnlost
<1>0. losses = 0 /\ SideUnlost /\ EndUnlost
  <2>1. losses = 0
    BY DEF DoReader, DoReadOpen, DoReadResume, DoReadClose, DoReadPong, DoReadUnknown, DoReadRefusal, DoReadOld,
           DoReadAction, DoReadState, DoReadFrame, DoReadRange, DoFinish, Answers1, SameBounds
  <2> QED BY <2>1, UnlostParts
<1>1. CASE DoReadResume \/ DoReadUnknown
  BY <1>0, <1>1 DEF DoReadResume, DoReadUnknown
<1>2. CASE DoReadOpen
  BY <1>0, <1>2, Names DEF DoReadOpen, Answers1, Reads, SameProgram, SameWorld, EndUnlost
<1>3. CASE DoReadClose
  BY <1>0, <1>3 DEF DoReadClose, Answers1, Reads, SameProgram, SameWorld, EndUnlost
<1>4. CASE DoReadPong \/ DoReadRefusal \/ DoReadOld \/ DoReadAction \/ DoReadFrame
  <2>1. Reads /\ ready' = ready /\ (session_state' = session_state \/ session_state' = "active") /\ SameBounds
    BY <1>4 DEF DoReadPong, DoReadRefusal, DoReadOld, DoReadAction, DoReadFrame, Answers1, SameAgent
  <2>2. ~OpenUnderWay
    BY <1>4 DEF DoReadPong, DoReadRefusal, DoReadOld, DoReadAction, DoReadFrame, IsResult, IsError, IsStatus,
      OpenUnderWay
  <2>3. future' = "error" => future = "error"
    BY <1>4 DEF DoReadPong, DoReadRefusal, DoReadOld, DoReadAction, DoReadFrame, AnswersOrNot, Answers1
  <2> QED BY <1>0, <2>1, <2>2, <2>3 DEF Reads, SameProgram, SameWorld, EndUnlost
<1>5. CASE DoReadState
  <2>1. to_agent[1].state = "closed" => held = None
    BY <1>5, ReadsElements DEF DoReadState, Reads, IsStatus, Attached
  <2> QED BY <1>0, <1>5, <2>1 DEF DoReadState, Reads, SameProgram, SameWorld, EndUnlost, IsStatus, OpenUnderWay
<1>6. CASE DoReadRange
  <2>1. held = None \/ (ready # None /\ session_state # "closed")
    BY <1>0, <1>6 DEF DoReadRange, EndUnlost, OpenUnderWay
  <2>2. Longer(to_world, to_world', [method |-> "close"])
          => \E i \in DOMAIN to_world' : to_world'[i].method = "close"
    BY LongerElements
  <2>3. EndUnlost'
    BY <1>6, <2>1, <2>2 DEF DoReadRange, EndUnlost, SameWorld
  <2> QED BY <1>0, <1>6, <2>3 DEF DoReadRange, SameProgram
<1>7. CASE DoFinish
  BY <1>0, <1>7 DEF DoFinish, Falls, SameProgram, SameBounds, EndUnlost
<1> QED BY <1>1, <1>2, <1>3, <1>4, <1>5, <1>6, <1>7 DEF DoReader

\* The world takes it.
LEMMA WorldUnlost ==
  ASSUME Typed, Unlost, DoHandle \/ DoOther
  PROVE  Unlost'
<1> SUFFICES ASSUME losses' = 0 PROVE SideUnlost' /\ EndUnlost'
  BY UnlostParts
<1> USE DEF SideUnlost
<1>0. ~DoLose /\ losses = 0 /\ SideUnlost /\ EndUnlost
  <2>1. ~DoLose
    BY DEF DoLose, Typed
  <2>2. losses = 0
    BY <2>1
    DEF DoHandle, DoOther, DoHandleOpen, DoHandleResume, DoHandleUnknown, DoHandleSubmit, DoHandleRefuse,
        DoHandleCancel, DoHandleOther, DoHandleClose, DoAdvance, DoForget, DoTell, DoNothing, SameBounds
  <2> QED BY <2>1, <2>2, UnlostParts
<1>1. CASE DoHandleResume \/ DoHandleUnknown
  BY <1>0, <1>1 DEF DoHandleResume, DoHandleUnknown
<1>2. CASE DoHandleOpen
  <2>1. to_agent' # <<>>
    BY <1>2, Single DEF DoHandleOpen
  <2> QED BY <1>0, <1>2, <2>1 DEF DoHandleOpen, Takes, SameClient, SameProgram, SameAgent, EndUnlost, OpenUnderWay
<1>3. CASE DoHandleClose \/ DoForget
  BY <1>0, <1>3 DEF DoHandleClose, DoForget, Takes, SameClient, SameProgram, SameAgent, EndUnlost
<1>4. CASE DoHandleSubmit \/ DoHandleRefuse \/ DoHandleCancel \/ DoHandleOther \/ DoAdvance \/ DoTell \/ DoNothing
  <2>1. SameClient /\ held' = held
    BY <1>4 DEF DoHandleSubmit, DoHandleRefuse, DoHandleCancel, DoHandleOther, DoAdvance, DoTell, DoNothing,
      Takes, SameWorld
  <2>2. to_agent' = to_agent \/ \E m : Tells(m)
    BY <1>4 DEF DoHandleSubmit, DoHandleRefuse, DoHandleCancel, DoHandleOther, DoAdvance, DoTell, DoNothing
  <2>3. OpenUnderWay => OpenUnderWay'
    <3>1. ASSUME NEW m, Tells(m), to_agent # <<>> PROVE to_agent' # <<>> /\ to_agent'[1] = to_agent[1]
      <4>1. 1 \in DOMAIN to_agent
        BY <3>1, Indices DEF Typed
      <4>2. 1 \in DOMAIN to_agent' /\ to_agent'[1] = to_agent[1]
        BY <3>1, <4>1, TellsElements
      <4> QED BY <4>2, Single
    <3> QED BY <2>2, <3>1 DEF OpenUnderWay
  <2>4. ASSUME NEW i \in DOMAIN to_world, to_world[i].method = "close"
        PROVE  \E j \in DOMAIN to_world' : to_world'[j].method = "close"
    <3>1. CASE to_world' = to_world
      BY <2>4, <3>1
    <3>2. CASE \E method : Takes(method) /\ method # "close"
      <4>1. i = 1 \/ (i - 1 \in DOMAIN to_world' /\ to_world'[i - 1] = to_world[i])
        BY <3>2, TakesElements DEF Takes
      <4> QED BY <2>4, <3>2, <4>1 DEF Takes
    <3> QED BY <1>4, <3>1, <3>2
        DEF DoHandleSubmit, DoHandleRefuse, DoHandleCancel, DoHandleOther, DoAdvance, DoTell, DoNothing
  <2>5. "untold" \notin happened' => "untold" \notin happened
    BY <1>4
    DEF DoHandleSubmit, DoHandleRefuse, DoHandleCancel, DoHandleOther, DoAdvance, DoTell, DoNothing, SameBounds
  <2> QED BY <1>0, <2>1, <2>3, <2>4, <2>5 DEF EndUnlost, SameClient, SameProgram, SameAgent
<1> QED BY <1>0, <1>1, <1>2, <1>3, <1>4 DEF DoHandle, DoOther

-----------------------------------------------------------------------------
(* Nothing the demo does not ride out                                      *)

\* The clauses of Uneventful: the connection, the frames, the records.
CalmWire ==
  /\ conn # "ending" /\ \A i \in DOMAIN to_agent : to_agent[i].kind # "range"
  /\ conn = "down" => pc \in {"waiting", "connecting"} \union Ends
  /\ pc = "waiting" /\ conn = "down" => future = "error"
  /\ future = "error" => pc \in {"waiting", "connecting"} \union Ends
  /\ pc \in {"resuming", "live"} => live # "error"

CalmFrames ==
  /\ pc \notin {"opening", "sampling"} \union Ends => latest
  /\ pc = "sampling" /\ future = "done" => latest
  /\ attached /\ pc \in {"opening", "sampling"} => FrameDue

CalmRecords ==
  /\ pc \in (Serving \ {"sampling"}) \union {"connecting", "initializing", "resuming"} /\ future # "refused" =>
       actions[move] # None
  /\ pc # "crashed"

\* Together they are all of it, before a step and after.
LEMMA UneventfulParts ==
  /\ Uneventful <=> (Tame => CalmWire /\ CalmFrames /\ CalmRecords)
  /\ (Tame' => CalmWire' /\ CalmFrames' /\ CalmRecords') => Uneventful'
BY DEF Uneventful, CalmWire, CalmFrames, CalmRecords

\* The program finds its session, its frame and its record.
LEMMA ProgramUneventful ==
  ASSUME Typed, Attached, Held, Uneventful, DoProgram
  PROVE  Uneventful'
<1> SUFFICES ASSUME Tame' PROVE CalmWire' /\ CalmFrames' /\ CalmRecords'
  BY UneventfulParts
<1> USE DEF Retried
<1>0. CalmWire /\ CalmFrames /\ CalmRecords
  <2>1. happened' = happened
    BY DEF DoProgram, DoPing, DoSubmit, DoClose, DoCancel, DoResume, DoSettle, DoOpen, DoWait, DoWatch, DoAwait,
      DoStop,
           DoGiveUp, DoReconnect, DoConnect, Still, SameBounds
  <2> QED BY <2>1, UneventfulParts DEF Tame
<1>1. CASE DoPing \/ DoSubmit \/ DoClose \/ DoCancel \/ DoResume \/ DoSettle \/ DoOpen
  <2>1. Still /\ future \in {"done", "refused"} /\ pc \in Labels /\ pc # "connecting"
          /\ pc' \notin {"waiting", "connecting"} \union Ends
    BY <1>1 DEF DoPing, DoSubmit, DoClose, DoCancel, DoResume, DoSettle, DoOpen, Labels, Ends, Returned
  <2>2. conn = "up"
    BY <1>0, <2>1 DEF CalmWire, Typed, TypeOK, Labels, Ends
  <2>3. future' = "pending"
    BY <1>1, <2>2 DEF DoPing, DoSubmit, DoClose, DoCancel, DoResume, DoSettle, DoOpen, Called
  <2>4. pc' \in {"resuming", "live"} => live' = "pending"
    BY <1>1, <2>2 DEF DoPing, DoSubmit, DoClose, DoCancel, DoResume, DoSettle, DoOpen
  <2>5. CalmWire'
    BY <1>0, <2>1, <2>2, <2>3, <2>4 DEF CalmWire, Still
  <2>6. CalmFrames'
    <3>1. CASE DoPing
      BY <1>0, <2>3, <3>1 DEF CalmFrames, DoPing, FrameDue, Still, SameWorld
    <3>2. CASE DoOpen
      BY <1>0, <2>3, <3>2 DEF CalmFrames, DoOpen, Attached, Still, SameWorld
    <3>3. CASE DoSubmit \/ DoClose \/ DoCancel \/ DoResume \/ DoSettle
      <4>1. latest /\ latest' = latest /\ pc' \notin {"opening", "sampling"}
        BY <1>0, <3>3 DEF CalmFrames, DoSubmit, DoClose, DoCancel, DoResume, DoSettle, Still, Ends
      <4> QED BY <4>1 DEF CalmFrames
    <3> QED BY <1>1, <3>1, <3>2, <3>3
  <2>7. CalmRecords'
    <3>1. CASE DoSubmit
      <4>1. move + 1 \in Moves /\ actions'[move + 1] = "submitted" /\ move' = move + 1 /\ pc' = "moving"
        BY <3>1, Names DEF DoSubmit, Typed, TypeOK
      <4> QED BY <4>1, NoneIsOther DEF CalmRecords
    <3>2. CASE DoPing \/ DoClose \/ DoCancel \/ DoResume \/ DoSettle \/ DoOpen
      BY <1>0, <3>2 DEF CalmRecords, Serving, DoPing, DoClose, DoCancel, DoResume, DoSettle, DoOpen
    <3> QED BY <1>1, <3>1, <3>2
  <2> QED BY <2>5, <2>6, <2>7
<1>2. CASE DoWait \/ DoWatch \/ DoAwait
  <2>1. Still /\ future = "done" /\ pc \in Labels \ {"connecting", "opening", "sampling"}
          /\ pc' \in Labels \ {"connecting", "opening", "sampling"}
    BY <1>2 DEF DoWait, DoWatch, DoAwait, Labels
  <2>2. conn = "up"
    BY <1>0, <2>1 DEF CalmWire, Typed, TypeOK, Labels, Ends
  <2>3. future' # "error" /\ (pc' \in {"resuming", "live"} => live' # "error")
    BY <1>0, <1>2, <2>2 DEF DoWait, DoWatch, DoAwait, CalmWire
  <2>4. CalmWire'
    BY <1>0, <2>1, <2>2, <2>3 DEF CalmWire, Still
  <2>5. CalmFrames'
    BY <1>0, <2>1 DEF CalmFrames, Still, Labels, Ends
  <2>6. CalmRecords'
    BY <1>0, <1>2 DEF CalmRecords, DoWait, DoWatch, DoAwait
  <2> QED BY <2>4, <2>5, <2>6
<1>3. CASE DoStop
  <2>1. ~Crashes
    <3>1. ASSUME future = "done", pc \in {"sampling", "waiting", "stopping", "moving", "cancelling", "settling"}
          PROVE  latest /\ ready # None /\ (pc = "sampling" \/ actions[move] # None)
      <4>1. conn = "up"
        BY <1>0, <3>1 DEF CalmWire, Typed, TypeOK, Ends
      <4>2. ready # None
        BY <3>1, <4>1 DEF Held, Phase, Serving
      <4>3. latest
        BY <1>0, <3>1 DEF CalmFrames, Ends
      <4> QED BY <1>0, <3>1, <4>2, <4>3 DEF CalmRecords, Serving
    <3>2. ~(future = "error" /\ pc \in Labels \ {"waiting", "connecting"})
      BY <1>0 DEF CalmWire, Labels, Ends
    <3> QED BY <3>1, <3>2 DEF Crashes, Attached
  <2>2. pc' \in {"timedout", "done"} /\ Still
    BY <1>3, <2>1 DEF DoStop
  <2> QED BY <1>0, <2>2 DEF CalmWire, CalmFrames, CalmRecords, Still, Ends, Serving
<1>4. CASE DoGiveUp
  BY <1>0, <1>4 DEF DoGiveUp, CalmWire, CalmFrames, CalmRecords, Ends, Serving
<1>5. CASE DoReconnect
  BY <1>0, <1>5 DEF DoReconnect, CalmWire, CalmFrames, CalmRecords, Ends, Serving
<1>6. CASE DoConnect
  <2>1. future # "refused"
    BY <1>6 DEF DoConnect, Attached
  <2> QED BY <1>0, <1>6, <2>1 DEF DoConnect, CalmWire, CalmFrames, CalmRecords, Ends, Serving
<1> QED BY <1>1, <1>2, <1>3, <1>4, <1>5, <1>6 DEF DoProgram

\* The reader keeps them.
LEMMA ReaderUneventful ==
  ASSUME Typed, OneAnswer, Attached, Uneventful, DoReader
  PROVE  Uneventful'
<1> SUFFICES ASSUME Tame' PROVE CalmWire' /\ CalmFrames' /\ CalmRecords'
  BY UneventfulParts
<1>0. CalmWire /\ CalmFrames /\ CalmRecords
  <2>1. happened \subseteq happened'
    BY DEF DoReader, DoReadOpen, DoReadResume, DoReadClose, DoReadPong, DoReadUnknown, DoReadRefusal, DoReadOld,
           DoReadAction, DoReadState, DoReadFrame, DoReadRange, DoFinish, Answers1, SameBounds
  <2> QED BY <2>1, UneventfulParts DEF Tame
<1>1. Reads
  <2>1. ~DoReadRange /\ ~DoFinish
    BY <1>0, ReadsElements DEF CalmWire, DoReadRange, DoFinish
  <2> QED
    BY <2>1
    DEF DoReader, DoReadOpen, DoReadResume, DoReadClose, DoReadPong, DoReadUnknown, DoReadRefusal, DoReadOld,
        DoReadAction, DoReadState, DoReadFrame, Answers1
<1>2. /\ conn = "up" /\ conn' = "up" /\ SameProgram /\ attached' = attached
      /\ 1 \in DOMAIN to_agent
      /\ \A i \in DOMAIN to_agent' : i \in Nat /\ i >= 1 /\ i + 1 \in DOMAIN to_agent
           /\ to_agent'[i] = to_agent[i + 1]
      /\ \A i \in DOMAIN to_agent : i \in Nat
           /\ (i = 1 \/ (i - 1 \in DOMAIN to_agent' /\ to_agent'[i - 1] = to_agent[i]))
  BY <1>1, ReadsElements DEF Reads, Shorter, SameWorld
<1>3. /\ future' = future \/ future' \in {"done", "refused"}
      /\ live' = live \/ live' = "done"
  BY <1>1
  DEF DoReader, DoReadOpen, DoReadResume, DoReadClose, DoReadPong, DoReadUnknown, DoReadRefusal, DoReadOld,
      DoReadAction, DoReadState, DoReadFrame, DoReadRange, DoFinish, Answers1, AnswersOrNot, Reads
<1>4. CalmWire'
  BY <1>0, <1>2, <1>3 DEF CalmWire, SameProgram
<1>5. ASSUME NEW i \in DOMAIN to_agent, to_agent[i].kind = "result", to_agent[i].method = "open" PROVE i = 1
  BY <1>2, <1>5 DEF OneAnswer, AnswerTrue, Response

\* A frame that is due: it is there, or on its way.
<1>6. ASSUME FrameDue
      PROVE  FrameDue' \/ (latest' # latest /\ ~(to_agent[1].kind = "result" /\ to_agent[1].method = "open") /\ to_agent[1].kind # "frame")
  <2>1. \A j \in DOMAIN to_agent' : ~(to_agent'[j].kind = "result" /\ to_agent'[j].method = "open")
    BY <1>2, <1>5
  <2>2. CASE \E i \in DOMAIN to_agent : i # 1 /\ to_agent[i].kind = "frame" /\
               \A j \in DOMAIN to_agent : to_agent[j].kind = "result" /\ to_agent[j].method = "ping" => i < j
    <3>1. PICK i \in DOMAIN to_agent : i # 1 /\ to_agent[i].kind = "frame" /\
               \A j \in DOMAIN to_agent : to_agent[j].kind = "result" /\ to_agent[j].method = "ping" => i < j
      BY <2>2
    <3>2. /\ i - 1 \in DOMAIN to_agent' /\ to_agent'[i - 1].kind = "frame"
          /\ \A j \in DOMAIN to_agent' : to_agent'[j].kind = "result" /\ to_agent'[j].method = "ping" => i - 1 < j
      BY <1>2, <3>1
    <3> QED BY <3>2 DEF FrameDue
  <2>3. CASE to_agent[1].kind = "frame"
    <3>1. latest' = TRUE
      BY <1>1, <2>3
      DEF DoReader, DoReadOpen, DoReadResume, DoReadClose, DoReadPong, DoReadUnknown, DoReadRefusal, DoReadOld,
          DoReadAction, DoReadState, DoReadFrame, DoReadRange, DoFinish, Answers1, Response, IsResult, IsError,
            IsStatus, Reads
    <3> QED BY <2>1, <3>1 DEF FrameDue
  <2>4. CASE latest /\ \A j \in DOMAIN to_agent : ~(to_agent[j].kind = "result" /\ to_agent[j].method = "open")
    BY <1>2, <2>1, <2>3, <2>4 DEF FrameDue
  <2> QED BY <1>2, <1>6, <2>2, <2>3, <2>4 DEF FrameDue
<1>7. CASE DoReadOpen
  <2>1. FrameDue
    BY <1>0, <1>7 DEF CalmFrames, DoReadOpen
  <2>2. FrameDue'
    BY <1>6, <1>7, <2>1 DEF DoReadOpen, IsResult
  <2> QED BY <1>2, <1>4, <1>7, <2>2 DEF DoReadOpen, CalmFrames, CalmRecords, SameProgram, Serving, Ends
<1>8. CASE ~DoReadOpen
  <2>1. latest' = latest \/ to_agent[1].kind = "frame"
    BY <1>1, <1>8
    DEF DoReader, DoReadResume, DoReadClose, DoReadPong, DoReadUnknown, DoReadRefusal, DoReadOld,
        DoReadAction, DoReadState, DoReadFrame, DoReadRange, DoFinish, Reads
  <2>2. FrameDue => FrameDue'
    BY <1>6, <2>1
  <2>3. latest => latest'
    BY <1>1, <1>8
    DEF DoReader, DoReadResume, DoReadClose, DoReadPong, DoReadUnknown, DoReadRefusal, DoReadOld,
        DoReadAction, DoReadState, DoReadFrame, DoReadRange, DoFinish, Reads
  <2>4. pc = "sampling" /\ future' = "done" => latest'
    <3>1. ASSUME pc = "sampling", future # "done", future' = "done" PROVE latest'
      <4>1. DoReadPong /\ IsResult(to_agent[1], "ping")
        BY <1>1, <1>8, <3>1
        DEF DoReader, DoReadResume, DoReadClose, DoReadPong, DoReadUnknown, DoReadRefusal, DoReadOld,
            DoReadAction, DoReadState, DoReadFrame, DoReadRange, DoFinish, AnswersOrNot, Answers1, Reads
      <4>2. FrameDue
        BY <1>0, <1>2, <3>1 DEF CalmFrames, Attached, Serving
      <4>3. latest
        BY <1>2, <4>1, <4>2 DEF FrameDue, IsResult
      <4> QED BY <2>3, <4>3
    <3> QED BY <1>0, <2>3, <3>1 DEF CalmFrames
  <2>5. CalmFrames'
    BY <1>0, <1>2, <2>2, <2>3, <2>4 DEF CalmFrames, SameProgram
  <2>6. CalmRecords'
    <3>1. CASE DoReadUnknown \/ DoReadRefusal
      BY <1>0, <1>2, <3>1 DEF CalmRecords, DoReadUnknown, DoReadRefusal, Answers1, SameProgram
    <3>2. CASE DoReadAction
      <4>2. to_agent[1].about \in Moves /\ to_agent[1].state # None
        BY <1>2, <3>2, NoneIsOther DEF DoReadAction, Typed, MessageOK, StateOK, IsStatus, Running, Terminal
      <4>3. \A id \in Moves : actions[id] # None => actions'[id] # None
        BY <3>2, <4>2 DEF DoReadAction, Typed, TypeOK
      <4>4. pc \in (Serving \ {"sampling"}) \union {"connecting", "initializing", "resuming"} => move \in Moves
        BY Names DEF Serving, Typed, TypeOK, Ends
      <4>5. future' # "refused" => future # "refused"
        BY <3>2 DEF DoReadAction, AnswersOrNot, Answers1
      <4> QED BY <1>0, <1>2, <4>3, <4>4, <4>5 DEF CalmRecords, SameProgram
    <3>3. CASE DoReadResume \/ DoReadClose \/ DoReadPong \/ DoReadOld \/ DoReadState \/ DoReadFrame
      <4>1. actions' = actions /\ (future' # "refused" => future # "refused")
        BY <3>3 DEF DoReadResume, DoReadClose, DoReadPong, DoReadOld, DoReadState, DoReadFrame, AnswersOrNot,
          Answers1
      <4> QED BY <1>0, <1>2, <4>1 DEF CalmRecords, SameProgram
    <3> QED BY <1>1, <1>8, <3>1, <3>2, <3>3 DEF DoReader, DoReadRange, DoFinish, Reads
  <2> QED BY <1>4, <2>5, <2>6
<1> QED BY <1>7, <1>8

\* The world takes nothing back, and only that label loses connections.
LEMMA WorldUneventful ==
  ASSUME Typed, Uneventful, DoHandle \/ DoOther
  PROVE  Uneventful'
<1> SUFFICES ASSUME Tame' PROVE CalmWire' /\ CalmFrames' /\ CalmRecords'
  BY UneventfulParts
<1>0. CalmWire /\ CalmFrames /\ CalmRecords
  <2>1. happened \subseteq happened'
    BY DEF DoHandle, DoOther, DoHandleOpen, DoHandleResume, DoHandleUnknown, DoHandleSubmit, DoHandleRefuse,
        DoHandleCancel, DoHandleOther, DoHandleClose, DoLose, DoAdvance, DoForget, DoTell, DoNothing, SameBounds
  <2> QED BY <2>1, UneventfulParts DEF Tame
<1>1. CASE DoLose
  <2>1. pc = "waiting"
    BY <1>1 DEF DoLose, Tame
  <2> QED BY <1>0, <1>1, <2>1, NoneIsOther DEF DoLose, Falls, CalmWire, CalmFrames, CalmRecords, SameProgram,
        Ends, Serving
<1>2. ASSUME SameClient PROVE CalmRecords'
  BY <1>0, <1>2 DEF CalmRecords, SameClient, SameProgram

\* A message more: no frame goes, no ping comes before it.
<1>3. ASSUME SameClient, attached' = attached, NEW m, Tells(m), m.kind # "range",
               ~(m.kind = "result" /\ m.method = "open")
      PROVE  CalmWire' /\ CalmFrames'
  <2>1. CalmWire'
    BY <1>0, <1>3, TellsElements DEF CalmWire, SameClient, SameProgram
  <2>2. ASSUME FrameDue PROVE FrameDue'
    <3>1. CASE latest /\ \A i \in DOMAIN to_agent : ~(to_agent[i].kind = "result" /\ to_agent[i].method = "open")
      BY <1>3, <3>1, TellsElements DEF FrameDue, SameClient
    <3>2. CASE \E i \in DOMAIN to_agent : to_agent[i].kind = "frame" /\
                 \A j \in DOMAIN to_agent : to_agent[j].kind = "result" /\ to_agent[j].method = "ping" => i < j
      <4>1. PICK i \in DOMAIN to_agent : to_agent[i].kind = "frame" /\
                 \A j \in DOMAIN to_agent : to_agent[j].kind = "result" /\ to_agent[j].method = "ping" => i < j
        BY <3>2
      <4>2. i \in DOMAIN to_agent' /\ to_agent'[i].kind = "frame"
        BY <1>3, <4>1, TellsElements
      <4>3. \A j \in DOMAIN to_agent' : to_agent'[j].kind = "result" /\ to_agent'[j].method = "ping" => i < j
        BY <1>3, <4>1, TellsElements
      <4> QED BY <4>2, <4>3 DEF FrameDue
    <3> QED BY <2>2, <3>1, <3>2 DEF FrameDue
  <2>3. CalmFrames'
    BY <1>0, <1>3, <2>2 DEF CalmFrames, SameClient, SameProgram
  <2> QED BY <2>1, <2>3
<1>4. ASSUME SameClient, UNCHANGED <<attached, to_agent>> PROVE CalmWire' /\ CalmFrames'
  <2>1. FrameDue => FrameDue'
    BY <1>4 DEF FrameDue, SameClient
  <2> QED BY <1>0, <1>4, <2>1 DEF CalmWire, CalmFrames, SameClient, SameProgram
<1>5. CASE DoHandleOpen
  <2>1. /\ DOMAIN to_agent' = 1..3 /\ to_agent'[3] = [kind |-> "frame"]
        /\ to_agent'[1] = [kind |-> "result", method |-> "open", token |-> sessions + 1]
        /\ to_agent'[2] = Status(1, None, "ready")
    BY <1>5 DEF DoHandleOpen, Tame
  <2>2. FrameDue'
    BY <2>1 DEF FrameDue, Status
  <2>3. \A i \in DOMAIN to_agent' : to_agent'[i].kind # "range"
    BY <2>1 DEF Status
  <2> QED BY <1>0, <1>2, <1>5, <2>2, <2>3 DEF DoHandleOpen, CalmWire, CalmFrames, Takes, SameClient, SameProgram
<1>6. CASE DoHandleResume
  <2>1. \A i \in DOMAIN to_agent' : to_agent'[i].kind # "range"
    BY <1>6 DEF DoHandleResume, Status, Logged
  <2> QED BY <1>0, <1>2, <1>6, <2>1 DEF DoHandleResume, CalmWire, CalmFrames, Takes, SameClient, SameProgram
<1>7. CASE DoHandleUnknown \/ DoHandleSubmit \/ DoHandleRefuse \/ DoHandleCancel \/ DoHandleOther
  <2>1. SameClient /\ attached' = attached
    BY <1>7 DEF DoHandleUnknown, DoHandleSubmit, DoHandleRefuse, DoHandleCancel, DoHandleOther, Takes, SameWorld
  <2>2. PICK m : Tells(m) /\ m.kind # "range" /\ ~(m.kind = "result" /\ m.method = "open")
    <3>1. CASE DoHandleSubmit \/ DoHandleCancel
      BY <3>1 DEF DoHandleSubmit, DoHandleCancel, Replied, Status
    <3>2. CASE DoHandleUnknown \/ DoHandleRefuse \/ DoHandleOther
      BY <3>2 DEF DoHandleUnknown, DoHandleRefuse, DoHandleOther, Tells
    <3> QED BY <1>7, <3>1, <3>2
  <2> QED BY <1>2, <1>3, <2>1, <2>2
<1>8. CASE DoHandleClose
  <2>1. SameClient /\ attached' = FALSE
    BY <1>8 DEF DoHandleClose, Takes
  <2>2. \A i \in DOMAIN to_agent' : to_agent'[i].kind # "range"
    <3>1. CASE conn = "up"
      <4> DEFINE a == Status(Len(log) + 1, None, "closed")
                 b == [kind |-> "result", method |-> "close"]
      <4>1. PICK t : Longer(to_agent, t, a) /\ Longer(t, to_agent', b)
        BY <1>8, <3>1 DEF DoHandleClose
      <4>2. a.kind = "status"
        BY DEF Status
      <4> HIDE DEF a
      <4> QED BY <1>0, <4>1, <4>2, LongerElements DEF CalmWire
    <3> QED BY <1>0, <1>8, <3>1 DEF DoHandleClose, CalmWire
  <2> QED BY <1>0, <1>2, <2>1, <2>2 DEF CalmWire, CalmFrames, SameClient, SameProgram
<1>9. CASE DoForget \/ DoNothing \/ (DoAdvance /\ to_agent' = to_agent)
  BY <1>2, <1>4, <1>9 DEF DoForget, DoNothing, DoAdvance, SameWorld
<1>10. CASE DoTell \/ (DoAdvance /\ to_agent' # to_agent)
  <2>1. SameClient /\ attached' = attached
    BY <1>10 DEF DoTell, DoAdvance, SameWorld
  <2>2. PICK m : Tells(m) /\ m.kind # "range" /\ ~(m.kind = "result" /\ m.method = "open")
    <3>1. CASE DoTell
      BY <3>1 DEF DoTell, Tame
    <3>2. CASE DoAdvance /\ to_agent' # to_agent
      <4>1. PICK id \in Moves, state \in {"far"} \union Terminal : Tells(Status(Len(log) + 1, id, state))
        BY <3>2 DEF DoAdvance
      <4> QED BY <4>1 DEF Status
    <3> QED BY <1>10, <3>1, <3>2
  <2> QED BY <1>2, <1>3, <2>1, <2>2
<1> QED BY <1>1, <1>5, <1>6, <1>7, <1>8, <1>9, <1>10 DEF DoHandle, DoOther

-----------------------------------------------------------------------------
(* The replay of a resumption                                              *)

\* A resumption that is under way is the call that is awaited.
LEMMA ResumeAwaited ==
  ASSUME Asked, OneAnswer
  PROVE  /\ ResumeAsked => conn = "up" /\ pc = "resuming" /\ future = "pending" /\ to_agent = <<>>
         /\ conn = "up" /\ ResumeUnderWay => pc = "resuming" /\ future = "pending"
<1>1. ResumeAsked => conn = "up" /\ pc = "resuming" /\ future = "pending" /\ to_agent = <<>>
  BY Methods DEF ResumeAsked, Asked, Awaited, RequestTrue
<1>2. ASSUME conn = "up", NEW i \in DOMAIN to_agent, to_agent[i].kind = "result", to_agent[i].method = "resume"
      PROVE  pc = "resuming" /\ future = "pending"
  BY <1>2, Methods DEF OneAnswer, Response, AnswerTrue, Awaited
<1> QED BY <1>1, <1>2 DEF ResumeUnderWay

\* So it is after a step.
LEMMA ResumeAwaitedNext ==
  ASSUME Asked', OneAnswer'
  PROVE  /\ ResumeAsked' => conn' = "up" /\ pc' = "resuming" /\ future' = "pending"
         /\ conn' = "up" /\ ResumeUnderWay' => pc' = "resuming" /\ future' = "pending"
<1>1. ASSUME NEW i \in DOMAIN to_world', to_world'[i].method = "resume"
      PROVE  conn' = "up" /\ pc' = "resuming" /\ future' = "pending"
  <2>1. RequestTrue(to_world[i])' /\ (conn' = "up" => Awaited(to_world[i].method)')
    BY <1>1 DEF Asked
  <2>2. conn' = "up"
    BY <1>1, <2>1 DEF RequestTrue
  <2> QED BY <1>1, <2>1, <2>2, Methods DEF Awaited
<1>2. ASSUME conn' = "up", NEW i \in DOMAIN to_agent', to_agent'[i].kind = "result", to_agent'[i].method = "resume"
      PROVE  pc' = "resuming" /\ future' = "pending"
  <2>1. AnswerTrue(to_agent[i], i)'
    BY <1>2 DEF OneAnswer, Response
  <2> QED BY <1>2, <2>1, Methods DEF AnswerTrue, Awaited
<1> QED BY <1>1, <1>2 DEF ResumeAsked, ResumeUnderWay

\* What is read with a resumption under way is its result.
LEMMA ReadNotUnderWay ==
  ASSUME Typed, Asked, OneAnswer, Reads
  PROVE  ~ResumeUnderWay' /\ ~ResumeAsked'
<1>1. /\ to_world' = to_world /\ conn = "up" /\ 1 \in DOMAIN to_agent
      /\ \A i \in DOMAIN to_agent' : i \in Nat /\ i >= 1 /\ i + 1 \in DOMAIN to_agent
           /\ to_agent'[i] = to_agent[i + 1]
  BY ReadsElements DEF Reads
<1>2. ~ResumeAsked
  BY <1>1, ResumeAwaited, Single
<1>3. \A i \in DOMAIN to_agent : to_agent[i].kind = "result" /\ to_agent[i].method = "resume" => i = 1
  BY <1>1 DEF OneAnswer, Response, AnswerTrue
<1>4. ~ResumeAsked'
  BY <1>1, <1>2 DEF ResumeAsked
<1>5. ASSUME NEW i \in DOMAIN to_agent' PROVE ~(to_agent'[i].kind = "result" /\ to_agent'[i].method = "resume")
  BY <1>1, <1>3
<1> QED BY <1>4, <1>5 DEF ResumeUnderWay

\* What has happened has happened.
LEMMA KeptBefore ==
  ASSUME DoProgram \/ DoReader \/ DoHandle \/ DoOther, Kept'
  PROVE  Kept
<1>1. CASE DoProgram
  BY <1>1 DEF DoProgram, DoPing, DoSubmit, DoClose, DoCancel, DoResume, DoSettle, DoOpen, DoWait, DoWatch,
    DoAwait, DoStop,
           DoGiveUp, DoReconnect, DoConnect, Still, SameBounds, Kept
<1>2. CASE DoReader
  BY <1>2 DEF DoReader, DoReadOpen, DoReadResume, DoReadClose, DoReadPong, DoReadUnknown, DoReadRefusal, DoReadOld,
           DoReadAction, DoReadState, DoReadFrame, DoReadRange, DoFinish, Answers1, SameBounds, Kept
<1>3. CASE DoHandle \/ DoOther
  BY <1>3 DEF DoHandle, DoOther, DoHandleOpen, DoHandleResume, DoHandleUnknown, DoHandleSubmit, DoHandleRefuse,
        DoHandleCancel, DoHandleOther, DoHandleClose, DoLose, DoAdvance, DoForget, DoTell, DoNothing,
          SameBounds, Kept
<1> QED BY <1>1, <1>2, <1>3

\* The program goes on when there is nothing to replay.
LEMMA ProgramSide ==
  ASSUME Typed, Attached, SideReplaying, DoProgram
  PROVE  SideReplaying'
<1> USE DEF SideReplaying, Still, SameAgent, Called
<1>1. CASE DoPing \/ DoSubmit \/ DoClose \/ DoCancel \/ DoSettle \/ DoOpen
  BY <1>1, NoneIsOther DEF DoPing, DoSubmit, DoClose, DoCancel, DoSettle, DoOpen
<1>2. CASE DoResume
  BY <1>2 DEF DoResume
<1>3. CASE DoWait \/ DoWatch
  BY <1>3 DEF DoWait, DoWatch
<1>4. CASE DoAwait
  BY <1>4 DEF DoAwait
<1>5. CASE DoStop
  BY <1>5 DEF DoStop
<1>6. CASE DoGiveUp \/ DoReconnect
  BY <1>6, NoneIsOther DEF DoGiveUp, DoReconnect
<1>7. CASE DoConnect
  <2>1. session_state = "suspended" /\ live = None
    BY <1>7 DEF DoConnect, Attached, Typed, TypeOK, Ends
  <2> QED BY <1>7, <2>1, NoneIsOther DEF DoConnect
<1> QED BY <1>1, <1>2, <1>3, <1>4, <1>5, <1>6, <1>7 DEF DoProgram

\* A replay ends at its last status, or with the session.
LEMMA ReaderSide ==
  ASSUME Typed, Attached, SideReplaying, Opening, DoReader
  PROVE  SideReplaying'
<1> USE DEF SideReplaying
<1>0. last_status_seq \in Nat /\ replay_to \in {None} \union Nat /\ None \notin Nat
  BY Names DEF Typed, TypeOK

\* Before the session is resumed the world answers, and says no more.
<1>a. conn = "up" /\ pc = "initializing" => \A i \in DOMAIN to_agent : to_agent[i].kind \in {"result", "error"}
  BY DEF Attached, Ends
<1>1. CASE DoReadOpen
  BY <1>1 DEF DoReadOpen, Answers1, Reads, SameProgram
<1>2. CASE DoReadResume
  <2>1. to_agent[1].replay_to \in Nat
    BY <1>2, ReadsElements DEF DoReadResume, Answers1, Reads, IsResult, Typed, MessageOK
  <2> QED BY <1>0, <1>2, <2>1 DEF DoReadResume, Answers1, Reads, SameProgram
<1>3. CASE DoReadClose \/ DoReadUnknown \/ DoReadRefusal
  BY <1>3 DEF DoReadClose, DoReadUnknown, DoReadRefusal, Answers1, Reads, SameProgram, SameAgent
<1>4. CASE DoReadPong
  <2>1. 1 \in DOMAIN to_agent /\ \A i \in DOMAIN to_agent : i \in Nat /\ i >= 1
    BY <1>4, ReadsElements DEF DoReadPong, Answers1, Reads, Shorter
  <2>2. pc = "sampling" => last_status_seq >= 1
    <3>1. ASSUME pc = "sampling" PROVE FirstDue /\ IsResult(to_agent[1], "ping")
      BY <1>4, <3>1 DEF DoReadPong, Answers1, Reads, Opening, Attached, Serving
    <3> QED BY <2>1, <3>1 DEF FirstDue, IsResult
  <2> QED BY <1>4, <2>2 DEF DoReadPong, Answers1, Reads, SameProgram, SameAgent
<1>5. CASE DoReadOld
  BY <1>5 DEF DoReadOld, AnswersOrNot, Answers1, Reads, SameProgram, SameAgent
<1>6. CASE DoReadAction
  <2>1. /\ last_status_seq' = last_status_seq + 1 /\ DoneReplaying /\ to_agent[1].seq = last_status_seq + 1
        /\ session_state' = session_state /\ live' = live /\ conn' = conn /\ conn = "up" /\ SameProgram
        /\ future' \in {future, "done"}
    BY <1>6 DEF DoReadAction, AnswersOrNot, Answers1, Reads, New
  <2>2. replay_to' # None => replay_to' = replay_to /\ last_status_seq' < replay_to
    BY <1>0, <2>1 DEF DoneReplaying
  <2>3. replay_to = None => replay_to' = None
    BY <2>1 DEF DoneReplaying
  <2>4. pc = "resuming" /\ future' = "refused" => future = "refused"
    BY <2>1
  <2> QED BY <1>0, <2>1, <2>2, <2>3, <2>4 DEF SameProgram
<1>7. CASE DoReadState
  <2>1. /\ last_status_seq' = last_status_seq + 1 /\ DoneReplaying /\ to_agent[1].seq = last_status_seq + 1
        /\ conn' = conn /\ conn = "up" /\ SameProgram /\ to_agent[1].kind = "status"
        /\ future' \in {future, "done"} /\ live' \in {live, "done"}
    BY <1>7 DEF DoReadState, Reads, New, IsStatus
  <2>2. replay_to' # None => replay_to' = replay_to /\ last_status_seq' < replay_to
    BY <1>0, <2>1 DEF DoneReplaying
  <2>3. replay_to = None => replay_to' = None
    BY <2>1 DEF DoneReplaying
  <2>4. pc # "initializing"
    BY <1>7, <1>a, ReadsElements DEF DoReadState, Reads, IsStatus
  <2> QED BY <1>0, <2>1, <2>2, <2>3, <2>4 DEF SameProgram
<1>8. CASE DoReadFrame
  <2>1. pc # "initializing"
    BY <1>8, <1>a, ReadsElements DEF DoReadFrame, Reads
  <2> QED BY <1>8, <2>1 DEF DoReadFrame, Reads, SameProgram
<1>9. CASE DoReadRange
  <2>1. pc # "initializing"
    BY <1>9, <1>a, ReadsElements DEF DoReadRange
  <2> QED BY <1>9, <2>1 DEF DoReadRange, SameProgram
<1>10. CASE DoFinish
  BY <1>10 DEF DoFinish, Falls, SameProgram
<1> QED BY <1>1, <1>2, <1>3, <1>4, <1>5, <1>6, <1>7, <1>8, <1>9, <1>10 DEF DoReader

\* A loss ends what is awaited.
LEMMA WorldSide ==
  ASSUME SideReplaying, DoHandle \/ DoOther
  PROVE  SideReplaying'
<1>1. ASSUME SameClient PROVE SideReplaying'
  BY <1>1 DEF SideReplaying, SameClient, SameProgram, SameAgent
<1>2. CASE DoLose
  BY <1>2 DEF DoLose, Falls, SideReplaying, SameProgram
<1> QED BY <1>1, <1>2
    DEF DoHandle, DoOther, DoHandleOpen, DoHandleResume, DoHandleUnknown, DoHandleSubmit, DoHandleRefuse,
        DoHandleCancel, DoHandleOther, DoHandleClose, DoAdvance, DoForget, DoTell, DoNothing, Takes

-----------------------------------------------------------------------------
(* A session that opens says that it is ready                              *)

\* open_session goes on with a session that has said one thing, or nothing yet.
LEMMA ProgramOpening ==
  ASSUME Typed, Asked, OneAnswer, Asked', OneAnswer', Attached, SideReplaying, Opening, DoProgram
  PROVE  Opening'
<1>1. log' = log /\ (attached' = attached \/ ~attached')
  BY DEF DoProgram, DoPing, DoSubmit, DoClose, DoCancel, DoResume, DoSettle, DoOpen, DoWait, DoWatch, DoAwait,
    DoStop,
         DoGiveUp, DoReconnect, DoConnect, Still, SameWorld
<1>2. pc' \in {"opening", "sampling"} => \A k \in DOMAIN log : log[k].about = None => k = 1
  <2>1. CASE DoOpen
    <3>1. DOMAIN log = {}
      BY <2>1, Single DEF DoOpen, Attached, Typed
    <3> QED BY <3>1
  <2>2. CASE ~DoOpen /\ pc' \in {"opening", "sampling"}
    <3>1. pc \in {"opening", "sampling"}
      BY <2>2
      DEF DoProgram, DoPing, DoSubmit, DoClose, DoCancel, DoResume, DoSettle, DoWait, DoWatch, DoAwait, DoStop,
          DoGiveUp, DoReconnect, DoConnect
    <3> QED BY <3>1 DEF Opening
  <2> QED BY <2>1, <2>2
<1>3. attached' /\ conn' = "up" /\ pc' \in {"opening", "sampling"} => FirstDue'
  <2>1. CASE DoOpen
    BY <2>1 DEF DoOpen, Attached, Still, SameWorld
  <2>2. CASE DoPing
    <3>1. FirstDue => FirstDue'
      BY <2>2 DEF DoPing, Still, SameAgent, FirstDue
    <3> QED BY <2>2, <3>1 DEF DoPing, Still, SameWorld, Opening
  <2>3. CASE ~DoOpen /\ ~DoPing
    BY <2>3
    DEF DoProgram, DoSubmit, DoClose, DoCancel, DoResume, DoSettle, DoWait, DoWatch, DoAwait, DoStop,
        DoGiveUp, DoReconnect, DoConnect
  <2> QED BY <2>1, <2>2, <2>3
<1>4. conn' = "up" /\ ResumeUnderWay' => session_state' = "suspended" /\ live' # "done"
  <2>1. CASE DoResume
    BY <2>1 DEF DoResume, Still, SameAgent, SideReplaying
  <2>2. CASE ~DoResume
    <3>1. pc' # "resuming"
      BY <2>2
      DEF DoProgram, DoPing, DoSubmit, DoClose, DoCancel, DoSettle, DoOpen, DoWait, DoWatch, DoAwait, DoStop,
          DoGiveUp, DoReconnect, DoConnect
    <3> QED BY <3>1, ResumeAwaitedNext
  <2> QED BY <2>1, <2>2
<1> QED BY <1>1, <1>2, <1>3, <1>4 DEF Opening

\* The first status stays due until it is read.
LEMMA FirstRead ==
  ASSUME Typed, OneAnswer, FirstDue, DoReader, Reads,
         pc \in {"opening", "sampling"}
  PROVE  FirstDue'
<1>0. last_status_seq \in Nat
  BY DEF Typed, TypeOK
<1>1. /\ conn = "up" /\ 1 \in DOMAIN to_agent
      /\ \A i \in DOMAIN to_agent' : i \in Nat /\ i >= 1 /\ i + 1 \in DOMAIN to_agent
           /\ to_agent'[i] = to_agent[i + 1]
      /\ \A i \in DOMAIN to_agent : i \in Nat
           /\ (i = 1 \/ (i - 1 \in DOMAIN to_agent' /\ to_agent'[i - 1] = to_agent[i]))
  BY ReadsElements DEF Reads, Shorter
<1>2. \A i \in DOMAIN to_agent : to_agent[i].kind = "result" /\ to_agent[i].method = "open" => i = 1
  BY <1>1 DEF OneAnswer, AnswerTrue, Response
<1>3. \A i \in DOMAIN to_agent' : ~(to_agent'[i].kind = "result" /\ to_agent'[i].method = "open")
  BY <1>1, <1>2
<1>4. \/ last_status_seq' = last_status_seq
      \/ last_status_seq' = last_status_seq + 1
      \/ last_status_seq' = 0 /\ to_agent[1].kind = "result" /\ to_agent[1].method = "open"
  <2>1. ~DoReadUnknown /\ ~DoReadRange /\ ~DoFinish
    BY DEF DoReadUnknown, DoReadRange, DoFinish, Reads
  <2>2. CASE DoReadOpen \/ DoReadResume \/ DoReadClose \/ DoReadPong \/ DoReadRefusal \/ DoReadOld \/ DoReadFrame
    BY <2>2 DEF DoReadOpen, DoReadResume, DoReadClose, DoReadPong, DoReadRefusal, DoReadOld, DoReadFrame,
      SameAgent, IsResult
  <2>3. CASE DoReadAction \/ DoReadState
    BY <2>3 DEF DoReadAction, DoReadState, New
  <2> QED BY <2>1, <2>2, <2>3 DEF DoReader
<1>5. CASE last_status_seq >= 1 /\ \A i \in DOMAIN to_agent : ~(to_agent[i].kind = "result" /\ to_agent[i].method = "open")
  <2>1. last_status_seq' >= 1
    BY <1>0, <1>1, <1>4, <1>5
  <2> QED BY <1>3, <2>1 DEF FirstDue
<1>6. CASE \E i \in DOMAIN to_agent : to_agent[i].kind = "status" /\ to_agent[i].seq = 1
        /\ (last_status_seq = 0 \/ (to_agent[1].kind = "result" /\ to_agent[1].method = "open"))
        /\ \A j \in DOMAIN to_agent : to_agent[j].kind = "result" /\ to_agent[j].method = "ping" => i < j
  <2>0. PICK i \in DOMAIN to_agent : /\ to_agent[i].kind = "status" /\ to_agent[i].seq = 1
        /\ (last_status_seq = 0 \/ (to_agent[1].kind = "result" /\ to_agent[1].method = "open"))
        /\ \A j \in DOMAIN to_agent : to_agent[j].kind = "result" /\ to_agent[j].method = "ping" => i < j
    BY <1>6
  <2>1. CASE i = 1
    <3>1. last_status_seq = 0 /\ to_agent[1].kind = "status" /\ to_agent[1].seq = 1
      BY <2>0, <2>1
    <3>2. DoReadAction \/ DoReadState
      BY <3>1
      DEF DoReader, DoReadOpen, DoReadResume, DoReadClose, DoReadPong, DoReadUnknown, DoReadRefusal, DoReadOld,
          DoReadFrame, DoReadRange, DoFinish, Reads, New, Response, IsResult, IsError, IsStatus
    <3>3. last_status_seq' = 1
      BY <3>1, <3>2 DEF DoReadAction, DoReadState
    <3> QED BY <1>3, <3>3 DEF FirstDue
  <2>2. CASE i # 1
    <3>1. /\ i - 1 \in DOMAIN to_agent' /\ to_agent'[i - 1].kind = "status" /\ to_agent'[i - 1].seq = 1
          /\ \A j \in DOMAIN to_agent' : to_agent'[j].kind = "result" /\ to_agent'[j].method = "ping" => i - 1 < j
      BY <1>1, <2>0, <2>2
    <3>2. CASE to_agent[1].kind = "result" /\ to_agent[1].method = "open"
      <4>1. DoReadOpen
        BY <3>2
        DEF DoReader, DoReadResume, DoReadClose, DoReadPong, DoReadUnknown, DoReadRefusal, DoReadOld, DoReadAction,
            DoReadState, DoReadFrame, DoReadRange, DoFinish, Reads, IsResult, IsError, IsStatus
      <4>2. last_status_seq' = 0
        BY <4>1 DEF DoReadOpen
      <4> QED BY <3>1, <4>2 DEF FirstDue
    <3>3. CASE ~(to_agent[1].kind = "result" /\ to_agent[1].method = "open")
      <4>1. last_status_seq' = 0 \/ last_status_seq' = 1
        BY <1>4, <2>0, <3>3
      <4>2. CASE last_status_seq' = 0
        BY <3>1, <4>2 DEF FirstDue
      <4>3. CASE last_status_seq' = 1
        BY <1>3, <4>3 DEF FirstDue
      <4> QED BY <4>1, <4>2, <4>3
    <3> QED BY <3>2, <3>3
  <2> QED BY <2>1, <2>2
<1> QED BY <1>5, <1>6 DEF FirstDue

\* All that the reader does, but for the two ends of a connection, is to read a message.
LEMMA ReadsOrEnds ==
  ASSUME DoReader
  PROVE  \/ Reads
         \/ conn' # "up" /\ SameProgram /\ SameWorld
         \/ conn' # "up" /\ DoFinish
BY DEF DoReader, DoReadOpen, DoReadResume, DoReadClose, DoReadPong, DoReadUnknown, DoReadRefusal, DoReadOld,
       DoReadAction, DoReadState, DoReadFrame, DoReadRange, DoFinish, Falls, Answers1

\* The reader keeps to the order of what is said.
LEMMA ReaderOpening ==
  ASSUME Typed, Asked, OneAnswer, Opening, DoReader
  PROVE  Opening'
<1>1. CASE Reads
  <2>1. conn = "up" /\ SameProgram /\ log' = log /\ attached' = attached
    BY <1>1 DEF Reads, SameWorld
  <2> QED BY <1>1, <2>1, FirstRead, ReadNotUnderWay DEF Opening, SameProgram
<1>2. CASE conn' # "up" /\ log' = log /\ pc' = pc
  BY <1>2 DEF Opening
<1> QED BY <1>1, <1>2, ReadsOrEnds DEF DoFinish, Falls, SameProgram, SameWorld

\* The world resumes what it was asked to.
LEMMA WorldUnderWay ==
  ASSUME Typed, Asked, DoHandle \/ DoOther, conn' = "up", ResumeUnderWay'
  PROVE  ResumeUnderWay
<1>1. ASSUME NEW m, Tells(m), ~(m.kind = "result" /\ m.method = "resume"), to_world' = to_world
               \/ DOMAIN to_world' = {}
      PROVE  ResumeUnderWay
  BY <1>1, TellsElements DEF ResumeUnderWay, ResumeAsked
<1>2. ASSUME to_agent' = to_agent, to_world' = to_world \/ DOMAIN to_world' = {}
      PROVE  ResumeUnderWay
  BY <1>2 DEF ResumeUnderWay, ResumeAsked
<1>3. CASE DoHandleOpen
  BY <1>3 DEF DoHandleOpen, Asks, ResumeUnderWay, ResumeAsked, Status
<1>4. CASE DoHandleResume
  BY <1>4, TakesElements DEF DoHandleResume, Takes, ResumeUnderWay, ResumeAsked
<1>5. CASE DoHandleUnknown \/ DoHandleSubmit \/ DoHandleRefuse \/ DoHandleCancel \/ DoHandleOther
  <2>1. DOMAIN to_world' = {}
    BY <1>5
    DEF DoHandleUnknown, DoHandleSubmit, DoHandleRefuse, DoHandleCancel, DoHandleOther, Takes, SameClient, Asks
  <2>2. PICK m : Tells(m) /\ ~(m.kind = "result" /\ m.method = "resume")
    <3>1. CASE DoHandleSubmit \/ DoHandleCancel
      BY <3>1 DEF DoHandleSubmit, DoHandleCancel, Replied, Status
    <3>2. CASE DoHandleUnknown \/ DoHandleRefuse \/ DoHandleOther
      BY <3>2 DEF DoHandleUnknown, DoHandleRefuse, DoHandleOther, Tells
    <3> QED BY <1>5, <3>1, <3>2
  <2> QED BY <1>1, <2>1, <2>2
<1>6. CASE DoHandleClose
  <2>1. conn = "up" /\ DOMAIN to_world' = {}
    BY <1>6 DEF DoHandleClose, Takes, SameClient, Asks
  <2> DEFINE a == Status(Len(log) + 1, None, "closed")
             b == [kind |-> "result", method |-> "close"]
  <2>2. PICK t : Longer(to_agent, t, a) /\ Longer(t, to_agent', b)
    BY <1>6, <2>1 DEF DoHandleClose
  <2>3. a.kind = "status" /\ b.method = "close"
    BY DEF Status
  <2> HIDE DEF a, b
  <2>4. \A i \in DOMAIN to_agent' : to_agent'[i].kind = "result" /\ to_agent'[i].method = "resume" =>
           i \in DOMAIN to_agent /\ to_agent[i] = to_agent'[i]
    BY <2>2, <2>3, LongerElements
  <2> QED BY <2>1, <2>4 DEF ResumeUnderWay, ResumeAsked
<1>7. CASE DoAdvance \/ DoTell \/ DoNothing
  <2>1. to_world' = to_world
    BY <1>7 DEF DoAdvance, DoTell, DoNothing
  <2>2. to_agent' = to_agent \/ \E m : Tells(m) /\ ~(m.kind = "result" /\ m.method = "resume")
    <3>1. CASE DoAdvance
      BY <3>1 DEF DoAdvance, Status
    <3>2. CASE DoTell \/ DoNothing
      BY <3>2 DEF DoTell, DoNothing
    <3> QED BY <1>7, <3>1, <3>2
  <2> QED BY <1>1, <1>2, <2>1, <2>2
<1>8. CASE DoLose \/ DoForget
  BY <1>8 DEF DoLose, Falls, DoForget, SameClient
<1> QED BY <1>3, <1>4, <1>5, <1>6, <1>7, <1>8 DEF DoHandle, DoOther

\* A session that opens is said to be ready, before anything else.
LEMMA WorldOpening ==
  ASSUME Typed, Asked, OneAnswer, Opening, DoHandle \/ DoOther
  PROVE  Opening'

\* What is said of an action, or nothing.
<1>1. ASSUME SameProgram, NEW e, Longer(log, log', e), e.about # None \/ pc \notin {"opening", "sampling"}
      PROVE  pc' \in {"opening", "sampling"} => \A k \in DOMAIN log' : log'[k].about = None => k = 1
  BY <1>1, LongerElements DEF SameProgram, Opening
<1>2. ASSUME SameProgram, log' = log \/ DOMAIN log' \subseteq {1}
      PROVE  pc' \in {"opening", "sampling"} => \A k \in DOMAIN log' : log'[k].about = None => k = 1
  BY <1>2 DEF SameProgram, Opening
<1>3. pc' \in {"opening", "sampling"} => \A k \in DOMAIN log' : log'[k].about = None => k = 1
  <2>1. CASE DoHandleSubmit \/ DoHandleCancel \/ DoHandleResume
    BY <2>1, <1>1 DEF DoHandleSubmit, DoHandleCancel, DoHandleResume, Takes, SameClient, SameProgram
  <2>2. CASE DoAdvance
    <3>1. PICK id \in Moves, state \in {"far"} \union Terminal : Longer(log, log', Entry(id, state))
      BY <2>2 DEF DoAdvance
    <3>2. Entry(id, state).about # None
      BY Names DEF Entry
    <3> QED BY <1>1, <2>2, <3>1, <3>2 DEF DoAdvance, SameClient
  <2>3. CASE ~(DoHandleSubmit \/ DoHandleCancel \/ DoHandleResume \/ DoAdvance)
    <3>1. SameProgram /\ (log' = log \/ DOMAIN log' \subseteq {1})
      BY <2>3
      DEF DoHandle, DoOther, DoHandleOpen, DoHandleUnknown, DoHandleRefuse, DoHandleOther, DoHandleClose,
        DoLose, Falls,
          DoForget, DoTell, DoNothing, Takes, SameClient, SameWorld
    <3> QED BY <1>2, <3>1
  <2> QED BY <2>1, <2>2, <2>3

\* A message more: the first status comes as soon as before.
<1>4. ASSUME SameClient, FirstDue, NEW m, Tells(m), ~(m.kind = "result" /\ m.method = "open")
      PROVE  FirstDue'
  <2>1. CASE last_status_seq >= 1 /\ \A i \in DOMAIN to_agent : ~(to_agent[i].kind = "result" /\ to_agent[i].method = "open")
    BY <1>4, <2>1, TellsElements DEF FirstDue, SameClient, SameAgent
  <2>2. CASE \E i \in DOMAIN to_agent : to_agent[i].kind = "status" /\ to_agent[i].seq = 1
        /\ (last_status_seq = 0 \/ (to_agent[1].kind = "result" /\ to_agent[1].method = "open"))
        /\ \A j \in DOMAIN to_agent : to_agent[j].kind = "result" /\ to_agent[j].method = "ping" => i < j
    <3>0. PICK i \in DOMAIN to_agent : /\ to_agent[i].kind = "status" /\ to_agent[i].seq = 1
        /\ (last_status_seq = 0 \/ (to_agent[1].kind = "result" /\ to_agent[1].method = "open"))
        /\ \A j \in DOMAIN to_agent : to_agent[j].kind = "result" /\ to_agent[j].method = "ping" => i < j
      BY <2>2
    <3>1. 1 \in DOMAIN to_agent
      BY <3>0, Indices DEF Typed
    <3>2. i \in DOMAIN to_agent' /\ to_agent'[i] = to_agent[i] /\ to_agent'[1] = to_agent[1]
      BY <1>4, <3>0, <3>1, TellsElements
    <3>3. \A j \in DOMAIN to_agent' : to_agent'[j].kind = "result" /\ to_agent'[j].method = "ping" => i < j
      BY <1>4, <3>0, TellsElements
    <3> QED BY <1>4, <3>0, <3>2, <3>3 DEF FirstDue, SameClient, SameAgent
  <2> QED BY <1>4, <2>1, <2>2 DEF FirstDue
<1>5. ASSUME SameClient, FirstDue, to_agent' = to_agent PROVE FirstDue'
  BY <1>5 DEF FirstDue, SameClient, SameAgent
<1>6. attached' /\ conn' = "up" /\ pc' \in {"opening", "sampling"} => FirstDue'
  <2>1. CASE DoHandleOpen
    <3>1. /\ 2 \in DOMAIN to_agent' /\ to_agent'[2].kind = "status" /\ to_agent'[2].seq = 1
          /\ to_agent'[1].kind = "result" /\ to_agent'[1].method = "open"
          /\ \A j \in DOMAIN to_agent' : ~(to_agent'[j].kind = "result" /\ to_agent'[j].method = "ping")
      BY <2>1 DEF DoHandleOpen, Status
    <3> QED BY <3>1 DEF FirstDue
  <2>2. CASE DoHandleResume \/ DoHandleUnknown \/ DoHandleSubmit \/ DoHandleRefuse \/ DoHandleCancel
    BY <2>2 DEF DoHandleResume, DoHandleUnknown, DoHandleSubmit, DoHandleRefuse, DoHandleCancel, Takes,
      SameClient, SameProgram
  <2>3. CASE DoHandleClose \/ DoLose \/ DoForget
    BY <2>3 DEF DoHandleClose, DoLose, Falls, DoForget
  <2>4. CASE DoHandleOther \/ DoAdvance \/ DoTell \/ DoNothing
    <3>1. SameClient /\ attached' = attached
      BY <2>4 DEF DoHandleOther, DoAdvance, DoTell, DoNothing, Takes, SameWorld
    <3>2. to_agent' = to_agent \/ \E m : Tells(m) /\ ~(m.kind = "result" /\ m.method = "open")
      <4>1. CASE DoHandleOther
        BY <4>1 DEF DoHandleOther
      <4>2. CASE DoAdvance
        BY <4>2 DEF DoAdvance, Status
      <4>3. CASE DoTell \/ DoNothing
        BY <4>3 DEF DoTell, DoNothing
      <4> QED BY <2>4, <4>1, <4>2, <4>3
    <3> QED BY <1>4, <1>5, <3>1, <3>2 DEF Opening, SameClient, SameProgram
  <2> QED BY <2>1, <2>2, <2>3, <2>4 DEF DoHandle, DoOther
<1>7. conn' = "up" => SameClient
  BY DEF DoHandle, DoOther, DoHandleOpen, DoHandleResume, DoHandleUnknown, DoHandleSubmit, DoHandleRefuse,
        DoHandleCancel, DoHandleOther, DoHandleClose, DoLose, Falls, DoAdvance, DoForget, DoTell, DoNothing, Takes
<1>8. conn' = "up" /\ ResumeUnderWay' => ResumeUnderWay
  BY WorldUnderWay
<1> QED BY <1>3, <1>6, <1>7, <1>8 DEF Opening, SameClient, SameAgent

-----------------------------------------------------------------------------
(* The replay ends before the resumption is live                           *)

\* Where the client goes on with what it knows of its session.
Knowing == (Serving \ {"sampling", "live"}) \union {"connecting", "initializing"}

\* What the client knows of it is all that was said.
LEMMA KnowingSeen ==
  ASSUME KeptReplaying
  PROVE  pc \in Knowing \/ ResumeAsked \/ Back => (session_state # "closed" => Seen)
BY DEF KeptReplaying, Knowing

\* The program resumes what it knows, and goes on when the replay is over.
LEMMA ProgramKept ==
  ASSUME Typed, Asked, OneAnswer, Asked', OneAnswer', Attached, SideReplaying, Opening, KeptReplaying, DoProgram
  PROVE  KeptReplaying'
<1> USE KnowingSeen
<1>a. last_status_seq \in Nat /\ \A k \in DOMAIN log : k \in Nat
  BY Indices DEF Typed, TypeOK
<1>b. /\ ResumeAsked' => conn' = "up" /\ pc' = "resuming" /\ future' = "pending"
      /\ conn' = "up" /\ ResumeUnderWay' => pc' = "resuming" /\ future' = "pending"
  BY ResumeAwaitedNext

\* Where a session does not resume, there is nothing to replay, and where it goes on it is known.
<1>c. ASSUME pc' \notin {"resuming", "live"}, replay_to' = None,
             pc' \in Knowing /\ session_state' # "closed" => Seen'
      PROVE  KeptReplaying'
  BY <1>b, <1>c, Zenon DEF KeptReplaying, Resumption, Back, Knowing
<1>d. ASSUME UNCHANGED <<last_status_seq, log>>, Seen PROVE Seen'
  BY <1>d DEF Seen
<1>e. pc \notin {"resuming", "live"} \/ conn # "up" => replay_to = None
  BY DEF KeptReplaying, Resumption
<1>1. CASE DoPing \/ DoClose
  BY <1>1, <1>c, <1>e DEF DoPing, DoClose, Still, SameAgent, Knowing, Serving
<1>2. CASE DoOpen
  BY <1>2, <1>c DEF DoOpen, Still, SameAgent, Knowing, Serving, SideReplaying
<1>3. CASE DoSubmit
  <2>1. pc \notin {"resuming", "live"} /\ pc' = "moving" /\ replay_to' = replay_to /\ session_state' = session_state
        /\ UNCHANGED <<last_status_seq, log>>
    BY <1>3 DEF DoSubmit, Returned, Still, SameAgent, SameWorld
  <2>2. session_state # "closed" => Seen
    <3>1. CASE pc = "sampling"
      <4>1. session_state # "closed" => last_status_seq >= 1
        BY <1>3, <3>1 DEF DoSubmit, SideReplaying
      <4>2. \A k \in DOMAIN log : log[k].about = None => k = 1
        BY <3>1 DEF Opening
      <4> QED BY <1>a, <4>1, <4>2 DEF Seen
    <3>2. CASE pc # "sampling"
      BY <1>3, <3>2 DEF DoSubmit, Returned, Knowing, Serving
    <3> QED BY <3>1, <3>2
  <2> QED BY <1>c, <1>d, <1>e, <2>1, <2>2
<1>4. CASE DoCancel \/ DoWait \/ DoWatch
  <2>1. pc \in Knowing /\ pc \notin {"resuming", "live"} /\ pc' \notin {"resuming", "live"}
    BY <1>4 DEF DoCancel, DoWait, DoWatch, Knowing, Serving
  <2>2. UNCHANGED <<last_status_seq, log, session_state, replay_to>>
    BY <1>4 DEF DoCancel, DoWait, DoWatch, Still, SameAgent, SameWorld
  <2> QED BY <1>c, <1>d, <1>e, <2>1, <2>2
<1>5. CASE DoConnect
  <2>1. pc = "connecting" /\ pc' = "initializing" /\ UNCHANGED <<last_status_seq, log, session_state, replay_to>>
    BY <1>5 DEF DoConnect, SameAgent, SameWorld
  <2>2. pc \in Knowing /\ pc \notin {"resuming", "live"} /\ pc' \notin {"resuming", "live"}
    BY <2>1 DEF Knowing
  <2> QED BY <1>c, <1>d, <1>e, <2>1, <2>2
<1>6. CASE DoSettle
  <2>1. Back
    BY <1>6 DEF DoSettle, Back, Resumption
  <2>2. replay_to = None
    BY <1>e, <2>1 DEF KeptReplaying
  <2>3. pc' = "settling" /\ UNCHANGED <<last_status_seq, log, session_state, replay_to>>
    BY <1>6 DEF DoSettle, Still, SameAgent, SameWorld
  <2> QED BY <1>c, <1>d, <2>1, <2>2, <2>3
<1>7. CASE DoStop
  <2>1. pc' \in Ends /\ UNCHANGED <<last_status_seq, log, session_state, replay_to>>
    BY <1>7 DEF DoStop, Still, SameAgent, SameWorld, Ends
  <2>2. replay_to = None
    <3>1. pc \in {"resuming", "live"} => future = "error"
      BY <1>7 DEF DoStop, Crashes, Attached
    <3> QED BY <1>e, <3>1 DEF SideReplaying
  <2>3. pc' \notin {"resuming", "live"} /\ pc' \notin Knowing
    BY <2>1 DEF Ends, Knowing, Serving
  <2> QED BY <1>c, <2>1, <2>2, <2>3
<1>8. CASE DoGiveUp
  <2>1. conn # "up" /\ pc' = "ended" /\ replay_to' = replay_to
    BY <1>8 DEF DoGiveUp, SameAgent, SideReplaying
  <2> QED BY <1>c, <1>e, <2>1 DEF Knowing, Serving
<1>9. CASE DoReconnect
  <2>1. conn # "up" /\ pc' = "connecting" /\ UNCHANGED <<replay_to, last_status_seq, log>>
          /\ session_state # "closed"
    BY <1>9 DEF DoReconnect, SideReplaying
  <2>2. pc \in {"waiting", "initializing", "settling"}
    BY <1>9, <2>1 DEF DoReconnect, Retried, KeptReplaying, Resumption
  <2>3. Seen
    BY <2>1, <2>2 DEF Knowing, Serving
  <2> QED BY <1>c, <1>d, <1>e, <2>1, <2>3
<1>10. CASE DoResume
  <2>1. /\ pc = "initializing" /\ future = "done" /\ pc' = "resuming"
        /\ UNCHANGED <<last_status_seq, log, session_state, replay_to, conn>>
    BY <1>10 DEF DoResume, Still, SameAgent, SameWorld
  <2>2. conn = "up" /\ session_state = "suspended"
    BY <2>1 DEF SideReplaying
  <2>3. Seen /\ replay_to = None
    BY <1>e, <2>1, <2>2 DEF Knowing
  <2>4. \A j \in DOMAIN log : log[j].about = None => ~(j > last_status_seq)
    BY <1>a, <2>3 DEF Seen
  <2>5. Seen'
    BY <1>d, <2>1, <2>3
  <2> QED BY <2>1, <2>2, <2>3, <2>4, <2>5 DEF KeptReplaying
<1>11. CASE DoAwait
  <2>1. /\ pc = "resuming" /\ future = "done" /\ pc' = "live" /\ future' = live /\ live' = live
        /\ UNCHANGED <<last_status_seq, log, session_state, replay_to, conn>>
    BY <1>11 DEF DoAwait, Still, SameAgent, SameWorld
  <2>2. Resumption /\ Resumption' /\ (Back' => Back)
    BY <2>1 DEF Resumption, Back
  <2>3. ~ResumeAsked' /\ ~(conn' = "up" /\ ResumeUnderWay') /\ pc' \notin Knowing
    BY <1>b, <2>1 DEF Knowing, Serving
  <2>4. Back' /\ session_state' # "closed" => Seen'
    BY <1>d, <2>1, <2>2
  <2> QED BY <2>1, <2>2, <2>3, <2>4 DEF KeptReplaying, Knowing
<1> QED BY <1>1, <1>2, <1>3, <1>4, <1>5, <1>6, <1>7, <1>8, <1>9, <1>10, <1>11 DEF DoProgram

\* The program takes nothing from the connection.
LEMMA ProgramKeptWire ==
  ASSUME Typed, Attached, KeptWire, DoProgram
  PROVE  KeptWire'
<1>1. CASE DoConnect
  <2>1. DOMAIN to_agent' = {}
    BY <1>1, Single DEF DoConnect, Attached, Typed, TypeOK
  <2> QED BY <2>1 DEF KeptWire
<1>2. CASE DoReconnect
  BY <1>2 DEF DoReconnect, KeptWire
<1>3. CASE DoGiveUp
  BY <1>3 DEF DoGiveUp, SameAgent, KeptWire
<1>4. CASE Still
  BY <1>4 DEF Still, SameAgent, KeptWire
<1> QED BY <1>1, <1>2, <1>3, <1>4
    DEF DoProgram, DoPing, DoSubmit, DoClose, DoCancel, DoResume, DoSettle, DoOpen, DoWait, DoWatch, DoAwait, DoStop

\* What is read of the session that resumes: where the status is the one thing that the
\* session said since, all is seen.
LEMMA ReaderKept ==
  ASSUME Typed, Asked, OneAnswer, Asked', Attached, Held, StatusTrue, Opening, KeptReplaying, KeptWire, DoReader
  PROVE  KeptReplaying'
<1> USE KnowingSeen
<1>a. last_status_seq \in Nat /\ \A k \in DOMAIN log : k \in Nat
  BY Indices DEF Typed, TypeOK

\* A step that forgets nothing: the session is not called live, and the replay does not begin.
<1>b. ASSUME Reads, last_status_seq' >= last_status_seq, last_status_seq' \in Nat,
             session_state' # "closed" => session_state # "closed", Back' => Back,
             replay_to' \in {None, replay_to}
      PROVE  KeptReplaying'
  <2>1. UNCHANGED <<pc, conn, log>> /\ conn = "up"
    BY <1>b DEF Reads, SameProgram, SameWorld
  <2>2. ~ResumeUnderWay' /\ ~ResumeAsked'
    BY <1>b, ReadNotUnderWay
  <2>3. Seen => Seen'
    BY <1>a, <1>b, <2>1 DEF Seen
  <2>4. Resumption' <=> Resumption
    BY <2>1 DEF Resumption
  <2>5. replay_to = None => replay_to' = None
    BY <1>b
  <2>6. conn' = "up" /\ Resumption' => \A j, k \in DOMAIN log' :
          log'[j].about = None /\ log'[k].about = None /\ j > last_status_seq' /\ k > last_status_seq' => j = k
    BY <1>a, <1>b, <2>1, <2>4 DEF KeptReplaying
  <2>7. pc' \in Knowing \/ Back' => (session_state' # "closed" => Seen')
    BY <1>b, <2>1, <2>3
  <2>8. conn' = "up" /\ Back' => replay_to' = None
    BY <1>b, <2>1, <2>5 DEF KeptReplaying
  <2>9. replay_to' # None => Resumption' /\ conn' = "up"
    BY <2>1, <2>4, <2>5 DEF KeptReplaying
  <2> QED BY <2>1, <2>2, <2>6, <2>7, <2>8, <2>9 DEF KeptReplaying, Knowing

\* A session that is lost is not followed.
<1>c. ASSUME UNCHANGED <<pc, log>>, session_state' = "closed" \/ pc \notin Knowing, replay_to' = None,
             ~ResumeUnderWay', ~ResumeAsked',
             pc \in {"resuming", "live"} => session_state' = "closed" /\ (conn' = "up" => DOMAIN log = {})
      PROVE  KeptReplaying'
  BY <1>c DEF KeptReplaying, Resumption, Back, Knowing
<1>1. CASE DoReadOpen
  <2>1. pc = "opening" /\ Reads /\ replay_to' = None
    BY <1>1 DEF DoReadOpen, Answers1
  <2> QED BY <1>c, <2>1, ReadNotUnderWay DEF Reads, SameProgram, SameWorld, Knowing, Serving
<1>2. CASE DoReadResume
  <2>1. /\ pc = "resuming" /\ Reads /\ UNCHANGED <<session_state, last_status_seq, live>>
        /\ to_agent[1].kind = "result" /\ to_agent[1].method = "resume"
    BY <1>2 DEF DoReadResume, Answers1, IsResult
  <2>2. UNCHANGED <<pc, conn, log>> /\ conn = "up" /\ 1 \in DOMAIN to_agent
    BY <2>1, ReadsElements DEF Reads, SameProgram, SameWorld
  <2>3. session_state = "suspended" /\ live # "done"
    BY <2>1, <2>2 DEF ResumeUnderWay, Opening
  <2>4. ~Back' /\ Resumption' /\ Resumption
    BY <2>1, <2>2, <2>3 DEF Back, Resumption
  <2>5. ~ResumeUnderWay' /\ ~ResumeAsked'
    BY <2>1, ReadNotUnderWay
  <2>6. \A j, k \in DOMAIN log' :
          log'[j].about = None /\ log'[k].about = None /\ j > last_status_seq' /\ k > last_status_seq' => j = k
    BY <2>1, <2>2, <2>4 DEF KeptReplaying
  <2>7. pc' \notin Knowing
    BY <2>1, <2>2 DEF Knowing, Serving
  <2> QED BY <2>2, <2>4, <2>5, <2>6, <2>7 DEF KeptReplaying, Knowing
<1>3. CASE DoReadUnknown
  <2>1. pc = "resuming" /\ Reads /\ replay_to' = None /\ session_state' = "closed" /\ held = None
    BY <1>3 DEF DoReadUnknown, Answers1
  <2>2. DOMAIN log = {}
    BY <2>1, Single DEF Typed
  <2> QED BY <1>c, <2>1, <2>2, ReadNotUnderWay DEF Reads, SameProgram, SameWorld
<1>4. CASE DoReadClose
  <2>1. pc = "closing" /\ Reads /\ session_state' = "closed" /\ UNCHANGED <<last_status_seq, replay_to>>
    BY <1>4 DEF DoReadClose, Answers1
  <2>2. ~Back'
    BY <2>1 DEF Back, Resumption, Reads, SameProgram
  <2> QED BY <1>a, <1>b, <2>1, <2>2
<1>5. CASE DoReadPong \/ DoReadRefusal
  <2>1. pc \notin {"resuming", "live"} /\ Reads /\ SameAgent
    BY <1>5 DEF DoReadPong, DoReadRefusal, Answers1
  <2>2. ~Back'
    BY <2>1 DEF Back, Resumption, Reads, SameProgram
  <2> QED BY <1>a, <1>b, <2>1, <2>2 DEF SameAgent
<1>6. CASE DoReadOld
  <2>1. Reads /\ SameAgent /\ live' = live /\ (pc = "live" => future' = future)
    BY <1>6 DEF DoReadOld, AnswersOrNot, Answers1
  <2>2. Back' => Back
    BY <2>1 DEF Back, Resumption, Reads, SameProgram, SameAgent
  <2> QED BY <1>a, <1>b, <2>1, <2>2 DEF SameAgent
<1>7. CASE DoReadAction
  <2>1. /\ Reads /\ UNCHANGED <<session_state, live>> /\ (pc = "live" => future' = future)
        /\ last_status_seq' = last_status_seq + 1 /\ replay_to' \in {None, replay_to}
    BY <1>7 DEF DoReadAction, AnswersOrNot, Answers1, New, DoneReplaying
  <2>2. Back' => Back
    BY <2>1 DEF Back, Resumption, Reads, SameProgram
  <2> QED BY <1>a, <1>b, <2>1, <2>2
<1>8. CASE DoReadFrame
  <2>1. /\ Reads /\ UNCHANGED <<live, future, replay_to, last_status_seq>>
        /\ session_state' = IF session_state = "ready" THEN "active" ELSE session_state
    BY <1>8 DEF DoReadFrame
  <2>2. Back' => Back
    BY <2>1 DEF Back, Resumption, Reads, SameProgram
  <2> QED BY <1>a, <1>b, <2>1, <2>2
<1>9. CASE DoReadState
  <2> DEFINE m == to_agent[1]
  <2>1. /\ Reads /\ m.kind = "status" /\ m.about = None /\ m.seq = last_status_seq + 1
        /\ last_status_seq' = last_status_seq + 1 /\ replay_to' \in {None, replay_to}
        /\ DoneReplaying
    BY <1>9 DEF DoReadState, New, IsStatus, DoneReplaying
  <2>2. UNCHANGED <<pc, conn, log, held>> /\ conn = "up" /\ 1 \in DOMAIN to_agent
    BY <2>1, ReadsElements DEF Reads, SameProgram, SameWorld
  <2>3. replay_to' = None
    <3>1. replay_to # None => m.seq > replay_to
      BY <2>1, <2>2 DEF KeptWire
    <3>2. replay_to # None => m.seq >= replay_to
      <4>1. replay_to # None => replay_to \in Nat
        BY DEF Typed, TypeOK
      <4> QED BY <1>a, <2>1, <3>1, <4>1
    <3> QED BY <2>1, <3>2 DEF DoneReplaying
  <2>4. ~ResumeUnderWay' /\ ~ResumeAsked'
    BY <2>1, ReadNotUnderWay
  <2>5. Seen => Seen'
    BY <1>a, <2>1, <2>2 DEF Seen
  <2>6. Resumption => Seen'
    <3>1. CASE held = None
      <4>1. DOMAIN log = {}
        BY <3>1, Single DEF Typed
      <4> QED BY <2>2, <4>1 DEF Seen
    <3>2. CASE held # None
      <4>1. last_status_seq + 1 \in DOMAIN log /\ log[last_status_seq + 1].about = None
        BY <2>1, <2>2, <3>2 DEF StatusTrue
      <4>2. ASSUME Resumption, NEW k \in DOMAIN log, log[k].about = None, k > last_status_seq
            PROVE  k = last_status_seq + 1
        BY <1>a, <2>2, <4>1, <4>2 DEF KeptReplaying
      <4> QED BY <1>a, <2>1, <2>2, <4>2 DEF Seen
    <3> QED BY <3>1, <3>2
  <2>7. pc \in Knowing => Seen'
    <3>1. ASSUME pc \in Knowing PROVE session_state # "closed"
      BY <2>2, <3>1 DEF Held, Phase, Knowing
    <3> QED BY <2>5, <3>1
  <2>8. \A k \in DOMAIN log' : Resumption => ~(log'[k].about = None /\ k > last_status_seq')
    BY <1>a, <2>1, <2>2, <2>6 DEF Seen
  <2>9. Resumption' <=> Resumption
    BY <2>2 DEF Resumption
  <2> QED BY <2>2, <2>3, <2>4, <2>6, <2>7, <2>8, <2>9 DEF KeptReplaying, Knowing, Back
<1>10. CASE DoReadRange
  <2>1. conn' = "ending" /\ session_state' = "closed" /\ replay_to' = None /\ UNCHANGED <<pc, log>>
    BY <1>10 DEF DoReadRange, SameProgram, SameWorld
  <2>2. ~ResumeAsked'
    BY <2>1 DEF Asked, RequestTrue, ResumeAsked
  <2> QED BY <2>1, <2>2 DEF KeptReplaying, Knowing
<1>11. CASE DoFinish
  <2>1. /\ conn = "ending" /\ conn' = "down" /\ UNCHANGED <<pc, log, replay_to, last_status_seq>>
        /\ session_state' = IF session_state = "closed" THEN "closed" ELSE "suspended"
    BY <1>11 DEF DoFinish, Falls, SameProgram
  <2>2. ~ResumeAsked'
    BY <2>1 DEF Asked, RequestTrue, ResumeAsked
  <2>3. replay_to = None /\ (Resumption' => session_state' = "closed")
    BY <2>1 DEF KeptReplaying, Resumption
  <2>4. pc' \in Knowing => (session_state' # "closed" => Seen')
    BY <2>1 DEF Seen
  <2> QED BY <2>1, <2>2, <2>3, <2>4 DEF KeptReplaying, Knowing, Back
<1> QED BY <1>1, <1>2, <1>3, <1>4, <1>5, <1>6, <1>7, <1>8, <1>9, <1>10, <1>11 DEF DoReader

\* A replay that begins ends before the live state.
LEMMA ReaderKeptWire ==
  ASSUME Typed, Opening, KeptReplaying, KeptWire, DoReader
  PROVE  KeptWire'
<1>1. CASE Reads
  <2>1. /\ conn = "up" /\ 1 \in DOMAIN to_agent
        /\ \A i \in DOMAIN to_agent' : i + 1 \in DOMAIN to_agent /\ to_agent'[i] = to_agent[i + 1]
    BY <1>1, ReadsElements DEF Reads
  <2>2. \/ replay_to' \in {None, replay_to}
        \/ /\ replay_to' = to_agent[1].replay_to
           /\ to_agent[1].kind = "result" /\ to_agent[1].method = "resume"
    BY <1>1
    DEF DoReader, DoReadOpen, DoReadResume, DoReadClose, DoReadPong, DoReadUnknown, DoReadRefusal, DoReadOld,
        DoReadAction, DoReadState, DoReadFrame, DoReadRange, DoFinish, Reads, IsResult, SameAgent, DoneReplaying
  <2>3. \A i \in DOMAIN to_agent' : to_agent'[i].kind = "status" /\ to_agent'[i].about = None =>
          (replay_to' # None => to_agent'[i].seq > replay_to')
    BY <2>1, <2>2 DEF KeptWire
  <2>4. \A j \in DOMAIN to_agent' : to_agent'[j].kind = "result" /\ to_agent'[j].method = "resume" =>
          \A i \in DOMAIN to_agent' : to_agent'[i].kind = "status" /\ to_agent'[i].about = None =>
            to_agent'[i].seq > to_agent'[j].replay_to
    BY <2>1 DEF KeptWire
  <2> QED BY <2>3, <2>4 DEF KeptWire
<1>2. CASE conn' # "up"
  BY <1>2 DEF KeptWire
<1> QED BY <1>1, <1>2, ReadsOrEnds

\* What the world says of a session without a resumption is of its actions, or the last.
LEMMA WorldKept ==
  ASSUME Typed, Asked, OneAnswer, Asked', Opening, KeptReplaying, Kept', DoHandle \/ DoOther
  PROVE  KeptReplaying'
<1> USE KnowingSeen
<1>a. last_status_seq \in Nat /\ \A k \in DOMAIN log : k \in Nat
  BY Indices DEF Typed, TypeOK
<1>b. ASSUME SameClient, pc \in Knowing \union {"resuming", "live"}
               => \A k \in DOMAIN log' : log'[k].about = None => k \in DOMAIN log /\ log[k].about = None,
             ResumeAsked' => ResumeAsked
      PROVE  KeptReplaying'
  <2>1. UNCHANGED <<pc, conn, live, future, session_state, last_status_seq, replay_to>>
    BY <1>b DEF SameClient, SameAgent, SameProgram
  <2>2. (Back' <=> Back) /\ (Resumption' <=> Resumption)
    BY <2>1 DEF Back, Resumption
  <2>3. conn = "up" /\ ResumeUnderWay' => ResumeUnderWay
    BY <2>1, WorldUnderWay
  <2>4. ASSUME pc \in Knowing \union {"resuming", "live"}, Seen PROVE Seen'
    BY <1>b, <2>1, <2>4 DEF Seen
  <2>5. ResumeAsked => pc = "resuming"
    BY ResumeAwaited
  <2>6. pc \in Knowing \/ ResumeAsked' \/ Back' => (session_state' # "closed" => Seen')
    BY <1>b, <2>1, <2>2, <2>4, <2>5 DEF Back, Resumption
  <2>7. conn' = "up" /\ Resumption' => \A j, k \in DOMAIN log' :
          log'[j].about = None /\ log'[k].about = None /\ j > last_status_seq' /\ k > last_status_seq' => j = k
    BY <1>b, <2>1, <2>2 DEF KeptReplaying, Resumption
  <2> QED BY <2>1, <2>2, <2>3, <2>6, <2>7 DEF KeptReplaying, Knowing

\* An action, of which the world says more.
<1>c. ASSUME SameClient, NEW e, Longer(log, log', e), e.about # None, ResumeAsked' => ResumeAsked
      PROVE  KeptReplaying'
  BY <1>b, <1>c, LongerElements
<1>1. CASE DoHandleSubmit \/ DoHandleCancel
  <2>1. SameClient /\ \E e : Longer(log, log', e) /\ e.about # None
    <3>1. Entry(move, "executing").about = move /\ Entry(move, act[move]).about = move
      BY DEF Entry
    <3>2. move \in Moves /\ move # None
      BY <1>1, Names DEF DoHandleSubmit, DoHandleCancel
    <3> QED BY <1>1, <3>1, <3>2 DEF DoHandleSubmit, DoHandleCancel, Takes
  <2>2. ResumeAsked' => ResumeAsked
    BY <1>1, TakesElements DEF DoHandleSubmit, DoHandleCancel, Takes, ResumeAsked
  <2> QED BY <1>c, <2>1, <2>2
<1>2. CASE DoAdvance
  <2>1. PICK id \in Moves, state \in {"far"} \union Terminal : Longer(log, log', Entry(id, state))
    BY <1>2 DEF DoAdvance
  <2>2. Entry(id, state).about # None
    BY Names DEF Entry
  <2>3. SameClient /\ (ResumeAsked' => ResumeAsked)
    BY <1>2 DEF DoAdvance, ResumeAsked
  <2> QED BY <1>c, <2>1, <2>2, <2>3
<1>3. CASE DoHandleClose \/ DoForget
  <2>1. SameClient /\ DOMAIN log' = {}
    BY <1>3 DEF DoHandleClose, DoForget, Takes
  <2>2. ResumeAsked' => ResumeAsked
    BY <1>3, TakesElements DEF DoHandleClose, DoForget, Takes, ResumeAsked
  <2> QED BY <1>b, <2>1, <2>2
<1>4. CASE DoHandleUnknown \/ DoHandleRefuse \/ DoHandleOther
  <2>1. SameClient /\ log' = log
    BY <1>4 DEF DoHandleUnknown, DoHandleRefuse, DoHandleOther, Takes, SameWorld
  <2>2. ResumeAsked' => ResumeAsked
    BY <1>4, TakesElements DEF DoHandleUnknown, DoHandleRefuse, DoHandleOther, Takes, ResumeAsked
  <2> QED BY <1>b, <2>1, <2>2
<1>5. CASE DoTell \/ DoNothing
  BY <1>5, <1>b DEF DoTell, DoNothing, SameWorld, ResumeAsked
<1>6. CASE DoHandleOpen
  <2>1. SameClient /\ pc = "opening"
    BY <1>6 DEF DoHandleOpen, Takes
  <2>2. ResumeAsked' => ResumeAsked
    BY <1>6, TakesElements DEF DoHandleOpen, Takes, ResumeAsked
  <2>3. pc \notin Knowing
    BY <2>1 DEF Knowing, Serving
  <2> QED BY <1>b, <2>1, <2>2, <2>3
<1>7. CASE DoHandleResume
  <2>1. /\ UNCHANGED <<pc, conn, live, future, session_state, last_status_seq, replay_to>>
        /\ conn = "up" /\ pc = "resuming" /\ Longer(log, log', Entry(None, "active"))
    BY <1>7 DEF DoHandleResume, Takes, SameClient, SameAgent, SameProgram
  <2>2. ResumeAsked
    BY <1>7, TakesElements DEF DoHandleResume, Takes, ResumeAsked
  <2>3. DOMAIN to_world' = {}
    BY <1>7 DEF DoHandleResume, Asks
  <2>4. ResumeUnderWay /\ session_state = "suspended" /\ live # "done" /\ replay_to = None
    BY <2>1, <2>2 DEF ResumeUnderWay, Opening, KeptReplaying
  <2>5. Seen
    BY <2>2, <2>4
  <2>6. ~Back' /\ ~ResumeAsked'
    BY <2>1, <2>3, <2>4 DEF Back, ResumeAsked
  <2>7. \A k \in DOMAIN log' : log'[k].about = None /\ k > last_status_seq => k = Len(log) + 1
    BY <1>a, <2>1, <2>5, LongerElements DEF Seen
  <2>8. pc' \notin Knowing
    BY <2>1 DEF Knowing, Serving
  <2> QED BY <2>1, <2>4, <2>6, <2>7, <2>8 DEF KeptReplaying, Knowing
<1>8. CASE DoLose
  <2>1. /\ pc' = pc /\ conn' = "down" /\ UNCHANGED <<log, last_status_seq, replay_to>> /\ DOMAIN to_world' = {}
        /\ session_state' # "closed" => session_state # "closed"
    BY <1>8 DEF DoLose, Falls, SameProgram
  <2>2. pc \notin {"resuming", "live"}
    BY <1>8 DEF DoLose, Kept
  <2>3. Seen => Seen'
    BY <2>1 DEF Seen
  <2>4. replay_to = None
    BY <2>2 DEF KeptReplaying, Resumption
  <2> QED BY <2>1, <2>2, <2>3, <2>4 DEF KeptReplaying, Knowing, Back, Resumption, ResumeAsked
<1> QED BY <1>1, <1>2, <1>3, <1>4, <1>5, <1>6, <1>7, <1>8 DEF DoHandle, DoOther

\* A message more is of an action, or the last.
LEMMA WorldKeptWire ==
  ASSUME Typed, Asked, OneAnswer, Opening, KeptReplaying, KeptWire, DoHandle \/ DoOther
  PROVE  KeptWire'
<1>1. ASSUME SameClient, to_agent' = to_agent PROVE KeptWire'
  BY <1>1 DEF KeptWire, SameClient, SameAgent
<1>2. ASSUME SameClient, NEW m, Tells(m), m.kind # "status"
               \/ m.about # None, ~(m.kind = "result" /\ m.method = "resume")
      PROVE  KeptWire'
  <2>1. replay_to' = replay_to /\ conn' = conn
    BY <1>2 DEF SameClient, SameAgent
  <2>2. \A i \in DOMAIN to_agent' :
          \/ to_agent'[i].kind = "status" /\ to_agent'[i].about = None
          \/ to_agent'[i].kind = "result" /\ to_agent'[i].method = "resume"
          => i \in DOMAIN to_agent /\ to_agent'[i] = to_agent[i]
    BY <1>2, TellsElements
  <2> QED BY <2>1, <2>2 DEF KeptWire

\* Where nothing is replayed, and no resumption is under way.
<1>3. ASSUME replay_to' = None, \A i \in DOMAIN to_agent' : ~(to_agent'[i].kind = "result" /\ to_agent'[i].method = "resume")
      PROVE  KeptWire'
  BY <1>3 DEF KeptWire
<1>4. CASE DoHandleOpen
  <2>1. replay_to' = None
    BY <1>4 DEF DoHandleOpen, Takes, SameClient, SameAgent, KeptReplaying, Resumption
  <2>2. \A i \in DOMAIN to_agent' : ~(to_agent'[i].kind = "result" /\ to_agent'[i].method = "resume")
    BY <1>4 DEF DoHandleOpen, Status
  <2> QED BY <1>3, <2>1, <2>2
<1>5. CASE DoHandleClose
  <2>1. CASE conn = "up"
    <3>1. replay_to' = None
      BY <1>5, <2>1 DEF DoHandleClose, Takes, SameClient, SameAgent, KeptReplaying, Resumption
    <3> DEFINE a == Status(Len(log) + 1, None, "closed")
               b == [kind |-> "result", method |-> "close"]
    <3>2. PICK t : Longer(to_agent, t, a) /\ Longer(t, to_agent', b)
      BY <1>5, <2>1 DEF DoHandleClose
    <3>3. a.kind = "status" /\ b.method = "close"
      BY DEF Status
    <3>4. \A i \in DOMAIN to_agent : ~(to_agent[i].kind = "result" /\ to_agent[i].method = "resume")
      BY <1>5, <2>1 DEF DoHandleClose, Asks, Response
    <3> HIDE DEF a, b
    <3>5. \A i \in DOMAIN to_agent' : ~(to_agent'[i].kind = "result" /\ to_agent'[i].method = "resume")
      BY <3>2, <3>3, <3>4, LongerElements
    <3> QED BY <1>3, <3>1, <3>5
  <2>2. CASE conn # "up"
    BY <1>1, <1>5, <2>2 DEF DoHandleClose, Takes
  <2> QED BY <2>1, <2>2
<1>6. CASE DoHandleResume
  <2>1. /\ UNCHANGED <<replay_to, session_state>> /\ conn = "up" /\ Len(log) \in Nat
        /\ to_agent'[1] = [kind |-> "result", method |-> "resume", replay_to |-> Len(log)]
    BY <1>6, Indices DEF DoHandleResume, Takes, SameClient, SameAgent, Typed
  <2>2. ResumeAsked
    BY <1>6, TakesElements DEF DoHandleResume, Takes, ResumeAsked
  <2>3. session_state = "suspended" /\ replay_to = None
    BY <2>1, <2>2 DEF ResumeUnderWay, Opening, KeptReplaying
  <2>4. Seen
    BY <2>2, <2>3, KnowingSeen
  <2>5. last_status_seq \in Nat /\ \A k \in DOMAIN log : k \in Nat
    BY Indices DEF Typed, TypeOK
  <2>6. ASSUME NEW i \in DOMAIN to_agent', to_agent'[i].kind = "status", to_agent'[i].about = None
        PROVE  to_agent'[i].seq = Len(log) + 1
    <3>1. i # 1
      BY <2>1, <2>6
    <3>2. CASE to_agent'[i] = Status(Len(log) + 1, None, "active")
      BY <3>2 DEF Status
    <3>3. ASSUME NEW k \in DOMAIN log, k > last_status_seq, to_agent'[i] = Logged(k) PROVE FALSE
      <4>1. log[k].about = None
        BY <2>6, <3>3 DEF Logged, Status
      <4> QED BY <2>4, <2>5, <3>3, <4>1 DEF Seen
    <3> QED BY <1>6, <3>1, <3>2, <3>3 DEF DoHandleResume
  <2>7. ASSUME NEW j \in DOMAIN to_agent', to_agent'[j].kind = "result"
        PROVE  to_agent'[j].replay_to = Len(log)
    <3>1. CASE j = 1
      BY <2>1, <3>1
    <3>2. CASE j # 1
      <4>1. to_agent'[j].kind = "status"
        BY <1>6, <3>2 DEF DoHandleResume, Logged, Status
      <4> QED BY <2>7, <4>1
    <3> QED BY <3>1, <3>2
  <2> QED BY <2>1, <2>3, <2>6, <2>7 DEF KeptWire
<1>7. CASE DoHandleUnknown \/ DoHandleSubmit \/ DoHandleRefuse \/ DoHandleCancel \/ DoHandleOther
  <2>1. SameClient
    BY <1>7 DEF DoHandleUnknown, DoHandleSubmit, DoHandleRefuse, DoHandleCancel, DoHandleOther, Takes
  <2>2. PICK m : Tells(m) /\ (m.kind # "status" \/ m.about # None) /\ ~(m.kind = "result" /\ m.method = "resume")
    <3>1. CASE DoHandleSubmit \/ DoHandleCancel
      <4>1. move # None
        BY <3>1, Names DEF DoHandleSubmit, DoHandleCancel
      <4> QED BY <3>1, <4>1 DEF DoHandleSubmit, DoHandleCancel, Replied, Status
    <3>2. CASE DoHandleUnknown \/ DoHandleRefuse \/ DoHandleOther
      BY <3>2 DEF DoHandleUnknown, DoHandleRefuse, DoHandleOther, Tells
    <3> QED BY <1>7, <3>1, <3>2
  <2> QED BY <1>2, <2>1, <2>2
<1>8. CASE DoAdvance \/ DoTell \/ DoNothing
  <2>1. SameClient
    BY <1>8 DEF DoAdvance, DoTell, DoNothing
  <2>2. \/ to_agent' = to_agent
        \/ \E m : Tells(m) /\ (m.kind # "status" \/ m.about # None) /\ ~(m.kind = "result" /\ m.method = "resume")
    <3>1. CASE DoAdvance
      BY <3>1, Names DEF DoAdvance, Status
    <3>2. CASE DoTell \/ DoNothing
      BY <3>2 DEF DoTell, DoNothing
    <3> QED BY <1>8, <3>1, <3>2
  <2> QED BY <1>1, <1>2, <2>1, <2>2
<1>9. CASE DoLose \/ DoForget
  BY <1>1, <1>9 DEF DoLose, Falls, DoForget, KeptWire
<1> QED BY <1>4, <1>5, <1>6, <1>7, <1>8, <1>9 DEF DoHandle, DoOther

\* The parts of Replaying together.
LEMMA NextReplaying ==
  ASSUME Typed, Asked, OneAnswer, Asked', OneAnswer', Attached, Held, StatusTrue, Replaying,
         DoProgram \/ DoReader \/ DoHandle \/ DoOther
  PROVE  Replaying'
<1>1. SideReplaying /\ Opening /\ (Kept' => KeptReplaying /\ KeptWire)
  BY KeptBefore DEF Replaying
<1>2. SideReplaying'
  BY <1>1, ProgramSide, ReaderSide, WorldSide
<1>3. Opening'
  BY <1>1, ProgramOpening, ReaderOpening, WorldOpening
<1>4. Kept' => KeptReplaying' /\ KeptWire'
  BY <1>1, ProgramKept, ReaderKept, WorldKept, ProgramKeptWire, ReaderKeptWire, WorldKeptWire
<1> QED BY <1>2, <1>3, <1>4 DEF Replaying

-----------------------------------------------------------------------------
(* The theorems                                                            *)

\* What always holds of the demo, its client and the world.
Sound ==
  /\ Typed /\ Asked /\ OneAnswer /\ Attached /\ Held /\ Moved
  /\ LogTrue /\ StatusTrue /\ RecordTrue /\ Outcomes
  /\ Unlost /\ Uneventful /\ Replaying

\* The demo has initialized, and asks for a session.
LEMMA InitSound == Init => Sound
<1> SUFFICES ASSUME Init PROVE Sound
  OBVIOUS
<1> USE NoneIsOther
<1> DEFINE r == [method |-> "open"]
<1>1. /\ IsSeq(to_world) /\ DOMAIN to_world = {1} /\ to_world[1] = r
      /\ IsSeq(to_agent) /\ DOMAIN to_agent = {} /\ IsSeq(log) /\ DOMAIN log = {}
  BY Single DEF Init
<1>2. \A id \in Moves : act[id] = None /\ actions[id] = None /\ outcome[id] = None
  BY DEF Init
<1>3. Typed
  <2>1. RequestOK(to_world[1])
    BY <1>1 DEF RequestOK
  <2>2. /\ [id \in Moves |-> None] \in [Moves -> {None} \union States]
        /\ [id \in Moves |-> None] \in [Moves -> {None, "lost"} \union States]
        /\ [id \in Moves |-> None] \in [Moves -> {None, "gone"} \union Running]
    OBVIOUS
  <2>3. AgentTyped
    BY <2>2 DEF Init, AgentTyped
  <2>4. ProgramTyped
    BY <2>2, Names DEF Init, ProgramTyped, Labels
  <2>5. WorldTyped
    <3>1. act \in [Moves -> {None, "gone"} \union Running]
      BY <2>2 DEF Init
    <3>2. sessions \in 0..MaxSessions /\ losses \in Nat /\ held = None /\ attached = FALSE /\ log = <<>>
      BY Names DEF Init
    <3> QED BY <1>1, <3>1, <3>2 DEF WorldTyped
  <2>6. WireTyped
    BY <1>1, <2>1 DEF Init, WireTyped
  <2> QED BY <2>3, <2>4, <2>5, <2>6, TypedParts
<1>4. Asked
  BY <1>1, Methods DEF Init, Asked, Awaited, RequestTrue
<1>5. OneAnswer /\ StatusTrue /\ LogTrue
  BY <1>1 DEF OneAnswer, StatusTrue, LogTrue
<1>6. Attached
  BY <1>1 DEF Init, Attached, Serving
<1>7. Held
  BY DEF Init, Held, Phase, Serving
<1>8. Moved /\ Outcomes /\ RecordTrue
  BY <1>1, <1>2 DEF Init, Moved, Placed, Outcomes, RecordTrue, Terminal
<1>9. Unlost
  BY DEF Init, Unlost, EndedTogether
<1>10. Uneventful
  BY <1>1 DEF Init, Uneventful, Tame, Serving, Ends
<1>11. Replaying
  <2>1. ~ResumeUnderWay /\ ~ResumeAsked
    BY <1>1 DEF ResumeUnderWay, ResumeAsked
  <2> QED BY <1>1, <2>1
      DEF Init, Replaying, SideReplaying, Opening, KeptReplaying, KeptWire, Resumption, Back, Serving, Seen
<1> QED BY <1>3, <1>4, <1>5, <1>6, <1>7, <1>8, <1>9, <1>10, <1>11 DEF Sound

\* Every step preserves it.
LEMMA NextSound == Sound /\ [Next]_vars => Sound'
<1> SUFFICES ASSUME Sound, [Next]_vars PROVE Sound'
  OBVIOUS
<1>1. /\ Typed /\ Asked /\ OneAnswer /\ Attached /\ Held /\ Moved
      /\ LogTrue /\ StatusTrue /\ RecordTrue /\ Outcomes
      /\ Unlost /\ Uneventful /\ Replaying
  BY DEF Sound
<1>2. DoProgram \/ DoReader \/ DoHandle \/ DoOther
  BY <1>1, NextDoes
<1>3. Typed'
  BY <1>1, <1>2, ProgramTypes, ReaderTypes, WorldTypes
<1>4. Asked'
  BY <1>1, <1>2, ProgramAsked, ReaderAsked, WorldAsked
<1>5. OneAnswer'
  BY <1>1, <1>2, ProgramOneAnswer, ReaderOneAnswer, HandleOneAnswer, OtherOneAnswer
<1>6. Attached'
  BY <1>1, <1>2, ProgramAttached, ReaderAttached, WorldAttached
<1>7. Held'
  BY <1>1, <1>2, ProgramHeld, ReaderHeld, WorldHeld
<1>8. Moved'
  BY <1>1, <1>2, ProgramMoved, ReaderMoved, WorldMoved
<1>9. LogTrue' /\ StatusTrue'
  BY <1>1, <1>2, ClientTrue, WorldTrue DEF DoOther
<1>10. RecordTrue'
  BY <1>1, <1>2, ProgramRecordTrue, ReaderRecordTrue, WorldRecordTrue
<1>11. Outcomes'
  BY <1>1, <1>2, NextOutcomes
<1>12. Unlost'
  BY <1>1, <1>2, ProgramUnlost, ReaderUnlost, WorldUnlost
<1>13. Uneventful'
  BY <1>1, <1>2, ProgramUneventful, ReaderUneventful, WorldUneventful
<1>14. Replaying'
  BY <1>1, <1>2, <1>4, <1>5, NextReplaying
<1> QED BY <1>3, <1>4, <1>5, <1>6, <1>7, <1>8, <1>9, <1>10, <1>11, <1>12, <1>13, <1>14 DEF Sound

\* The world executes the move that the demo is at, and no other.
LEMMA OneMove ==
  ASSUME Moved
  PROVE  OneMoveAtATime
<1> DEFINE S == {id \in Moves : act[id] \in {"executing", "far"}}
<1>1. \A id \in S : id = move
  BY DEF Moved
<1>2. CASE S = {}
  BY <1>2, FS_EmptySet DEF OneMoveAtATime
<1>3. CASE S # {}
  <2>1. S = {move}
    BY <1>1, <1>3
  <2>2. Cardinality(S) = 1
    BY <2>1, FS_Singleton
  <2> QED BY <2>2 DEF OneMoveAtATime
<1> QED BY <1>2, <1>3

\* Outcomes are true, one move is executed at a time, and a session that the agent abandons is
\* over in the world as well, unless a connection was lost (demo.py:79-117, aio.py:301-323).
THEOREM RecoveryInvCorrect == Spec => []Inv
<1>1. Sound => Inv
  BY OneMove DEF Sound, Typed, Inv, OutcomeTrue, Outcomes, Unlost, EndedTogether
<1> QED BY <1>1, InitSound, NextSound, PTL DEF Spec

\* Any number of connections lost while a move is awaited never crash the demo (demo.py:79-130).
THEOREM NeverCrashesCorrect == Spec => []NeverCrashes
<1>1. Sound => NeverCrashes
  BY DEF Sound, NeverCrashes, Uneventful, Tame
<1> QED BY <1>1, InitSound, NextSound, PTL DEF Spec

\* When reconnect goes on, the replay of the session is over, unless an earlier resumption was
\* cut short (aio.py:141-157).
THEOREM ReconnectCompleteCorrect == Spec => []ReconnectComplete
<1>1. Sound => ReconnectComplete
  BY DEF Sound, ReconnectComplete, Replaying, Kept, KeptReplaying, Resumption
<1> QED BY <1>1, InitSound, NextSound, PTL DEF Spec

=============================================================================
