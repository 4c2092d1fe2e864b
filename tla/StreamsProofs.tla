----------------------------- MODULE StreamsProofs -----------------------------
(***************************************************************************)
(* Streams keeps its promises for every number of tasks, sessions and losses. *)
(***************************************************************************)
EXTENDS Streams, FiniteSetTheorems, TLAPS

States == {"unborn", "top", "connecting", "connected", "broken", "abandoning", "over"}

\* Where a task has a connection of its own.
Holding == {"connected", "broken", "abandoning"}

\* Tasks are started one after the other, for sessions that were opened.
Sane ==
  /\ TypeOK
  /\ sessions \in Nat /\ breaks \in Nat /\ {fresh, overlapped} \subseteq BOOLEAN
  /\ at \in [Tasks -> States]
  /\ session \in [Tasks -> {None} \union 1..MaxSessions]
  /\ \E n \in 0..MaxTasks : Started = 1..n

\* As long as no session was opened on the connection of another, a connection has one
\* task at most, and none before its session is attached; the task is the current one's.
OneTask ==
  ~overlapped =>
    /\ \A i, j \in Running : i = j
    /\ fresh \/ phase = "opened" => Running = {}
    /\ fresh => token = None \/ phase = "closed"
    /\ \A i \in Running :
         /\ token # None /\ at[i] # "top" => session[i] = token
         /\ at[i] \in Holding => stream_ws = i

\* What a connection carried is noted.
Noted == carried => streamed

IInv == Sane /\ OneTask /\ Noted /\ CommandReachesSession /\ CommandUsesStream

-----------------------------------------------------------------------------
(* Tasks are started in order                                              *)

\* A step that starts no task leaves those started as they are.
LEMMA NoneStarted ==
  ASSUME Sane, at' \in [Tasks -> States],
         \A i \in Tasks : at[i] = "unborn" <=> at'[i] = "unborn"
  PROVE  \E n \in 0..MaxTasks : Started' = 1..n
<1>1. Started' = Started
  BY DEF Started
<1> QED BY <1>1 DEF Sane

\* _attach_streams starts the next task, which was not there (aio.py:159-170).
LEMMA NextStarted ==
  ASSUME Sane, Started # Tasks
  PROVE  LET next == Cardinality(Started) + 1
         IN  /\ next \in Tasks /\ at[next] = "unborn"
             /\ at' = [at EXCEPT ![next] = "top"] =>
                  \E n \in 0..MaxTasks : Started' = 1..n
<1> DEFINE next == Cardinality(Started) + 1
<1>1. PICK n \in 0..MaxTasks : Started = 1..n
  BY DEF Sane
<1>2. n \in Nat /\ MaxTasks \in Nat
  BY StreamsAssumption
<1>3. Cardinality(1..n) = n
  BY <1>2, FS_Interval
<1>4. next = n + 1 /\ n < MaxTasks
  BY <1>1, <1>2, <1>3 DEF Tasks
<1>5. next \in Tasks /\ at[next] = "unborn"
  BY <1>1, <1>2, <1>4 DEF Tasks, Started
<1>6. ASSUME at' = [at EXCEPT ![next] = "top"] PROVE Started' = 1..(n + 1)
  <2> HIDE DEF next
  <2>1. Started' = Started \union {next}
    BY <1>5, <1>6 DEF Started, Sane, States
  <2> QED BY <1>1, <1>2, <1>4, <2>1
<1>7. n + 1 \in 0..MaxTasks
  BY <1>2, <1>4
<1> HIDE DEF next
<1>8. QED BY <1>5, <1>6, <1>7 DEF next

-----------------------------------------------------------------------------
(* The inductive invariant                                                 *)

\* Nothing is open (aio.py:72-90).
LEMMA InitIInv == Init => IInv
<1> SUFFICES ASSUME Init PROVE IInv
  OBVIOUS
<1> USE StreamsAssumption
<1>1. Started = {} /\ Running = {}
  BY DEF Init, Started, Running
<1>2. {} = 1..0 /\ 0 \in 0..MaxTasks
  OBVIOUS
<1>3. TypeOK
  <2>1. {control, streamed, carried} \subseteq BOOLEAN
    BY Zenon DEF Init
  <2> QED BY <2>1 DEF Init, TypeOK
<1>4. Sane
  BY <1>1, <1>2, <1>3 DEF Init, Sane, States
<1> QED BY <1>1, <1>4 DEF Init, IInv, OneTask, Noted, CommandReachesSession, CommandUsesStream

\* Every step keeps the types, and the order in which tasks start.
LEMMA NextSane == IInv /\ Next => Sane'
<1> SUFFICES ASSUME IInv, Next PROVE Sane'
  OBVIOUS
<1> USE StreamsAssumption
<1>1. Sane
  BY DEF IInv
<1>2. ASSUME NEW i \in Tasks,
             \/ Loop(i) \/ Establish(i) \/ Refused(i) \/ Break(i) \/ Broken(i)
             \/ Abandon(i) \/ FinishAbandon(i)
      PROVE  Sane'
  <2> USE <1>1, <1>2 DEF Loop, Establish, Refused, Break, Broken, Abandon, FinishAbandon, Finally
  <2>1. at' \in [Tasks -> States] /\ \A j \in Tasks : at[j] = "unborn" <=> at'[j] = "unborn"
    BY DEF Sane, States
  <2>2. \E n \in 0..MaxTasks : Started' = 1..n
    BY <1>1, <2>1, NoneStarted
  <2>3. session' \in [Tasks -> {None} \union 1..MaxSessions] /\ token' \in {None} \union 1..MaxSessions
    BY DEF Sane, TypeOK, app
  <2>4. stream_ws' \in {None} \union {j \in Tasks : at'[j] \in {"connected", "broken", "abandoning"}}
    BY DEF Sane, TypeOK, shared
  <2>5. {control', streamed', carried', fresh', overlapped'} \subseteq BOOLEAN
    BY DEF Sane, TypeOK, app, shared, opens
  <2>6. sessions' = sessions /\ breaks' \in Nat /\ breaks' <= MaxBreaks
    BY DEF Sane, TypeOK, counts
  <2>7. phase' \in {"closed", "opened", "attached"} /\ (token' = None) = (phase' = "closed")
    BY DEF Sane, TypeOK, app
  <2> QED BY <2>1, <2>2, <2>3, <2>4, <2>5, <2>6, <2>7 DEF Sane, TypeOK
<1>3. CASE Open
  <2>1. sessions + 1 \in 1..MaxSessions
    BY <1>1, <1>3 DEF Open, Sane
  <2>2. \E n \in 0..MaxTasks : Started' = 1..n
    BY <1>1, <1>3 DEF Open, Sane, Started
  <2>3. {fresh', overlapped'} \subseteq BOOLEAN
    BY <1>3, Zenon DEF Open
  <2> QED BY <1>1, <1>3, <2>1, <2>2, <2>3 DEF Open, Sane, TypeOK, shared
<1>4. CASE Attach
  <2>1. CASE UNCHANGED at
    BY <1>1, <1>4, <2>1, NoneStarted DEF Attach, Mark, Sane, TypeOK, opens, counts
  <2>2. CASE Started # Tasks /\ at' = [at EXCEPT ![Cardinality(Started) + 1] = "top"]
    <3> DEFINE next == Cardinality(Started) + 1
    <3>1. next \in Tasks /\ at[next] = "unborn" /\ \E n \in 0..MaxTasks : Started' = 1..n
      BY <1>1, <2>2, NextStarted
    <3> HIDE DEF next
    <3>2. at' = [at EXCEPT ![next] = "top"]
      BY <2>2 DEF next
    <3>3. at' \in [Tasks -> States]
      BY <1>1, <3>1, <3>2 DEF Sane, States
    <3> QED BY <1>1, <1>4, <3>1, <3>2, <3>3 DEF Attach, Mark, Sane, TypeOK, opens, counts
  <2> QED BY <1>4, <2>1, <2>2 DEF Attach
<1>5. CASE Close
  <2>1. \E n \in 0..MaxTasks : Started' = 1..n
    BY <1>1, <1>5 DEF Close, Sane, Started
  <2> QED BY <1>1, <1>5, <2>1 DEF Close, Sane, TypeOK, shared, opens, counts
<1>6. CASE LoseControl
  <2>1. {control', streamed', carried'} \subseteq BOOLEAN
    BY <1>1, <1>6, Zenon DEF LoseControl, Sane, TypeOK, shared
  <2>2. \E n \in 0..MaxTasks : Started' = 1..n
    BY <1>1, <1>6 DEF LoseControl, Sane, Started
  <2> QED BY <1>1, <1>6, <2>1, <2>2 DEF LoseControl, Sane, TypeOK, shared, opens
<1>7. CASE Reconnect
  <2>1. at' \in [Tasks -> States] /\ \A j \in Tasks : at[j] = "unborn" <=> at'[j] = "unborn"
    BY <1>1, <1>7 DEF Reconnect, Cancelled, Running, Sane, States
  <2>2. \E n \in 0..MaxTasks : Started' = 1..n
    BY <1>1, <2>1, NoneStarted
  <2> QED BY <1>1, <1>7, <2>1, <2>2 DEF Reconnect, Cancelled, Sane, TypeOK, counts
<1>8. CASE Command
  BY <1>1, <1>8 DEF Command, Sane, TypeOK, app, shared, Started, opens, counts
<1> QED BY <1>2, <1>3, <1>4, <1>5, <1>6, <1>7, <1>8 DEF Next

\* Every step keeps one task to a connection that had one session.
LEMMA NextOneTask == IInv /\ Next => OneTask'
<1> SUFFICES ASSUME IInv, Next, ~overlapped' PROVE OneTask'
  BY DEF OneTask
<1> USE StreamsAssumption
<1>1. Sane /\ Sane'
  BY NextSane DEF IInv
<1>2. ~overlapped
  BY <1>1 DEF Next, Loop, Establish, Refused, Break, Broken, Abandon, FinishAbandon, Open, Attach,
              Close, LoseControl, Reconnect, Command, opens, Sane
<1>3. /\ \A i, j \in Running : i = j
      /\ fresh \/ phase = "opened" => Running = {}
      /\ fresh => token = None \/ phase = "closed"
      /\ \A i \in Running : /\ token # None /\ at[i] # "top" => session[i] = token
                            /\ at[i] \in Holding => stream_ws = i
  BY <1>2 DEF IInv, OneTask
<1>4. ASSUME NEW i \in Tasks,
             Loop(i) \/ Establish(i) \/ Refused(i) \/ Break(i) \/ Broken(i)
      PROVE  OneTask'
  <2>1. i \in Running /\ Running' \subseteq Running /\ UNCHANGED <<phase, fresh, token>>
    BY <1>1, <1>4 DEF Loop, Establish, Refused, Break, Broken, Finally, Sane, Running, States, app, opens
  <2>2. i \in Running' /\ token # None /\ at'[i] # "top" => session'[i] = token
    BY <1>1, <1>3, <1>4, <2>1
       DEF Loop, Continue, Establish, Refused, Break, Broken, Finally, Sane, Running
  <2>3. at'[i] \in Holding => stream_ws' = i
    BY <1>1, <1>3, <1>4, <2>1
       DEF Loop, Establish, Refused, Break, Broken, Finally, Sane, Holding, shared
  <2> QED BY <1>3, <2>1, <2>2, <2>3 DEF OneTask
<1>5. ASSUME NEW i \in Tasks, Abandon(i) \/ FinishAbandon(i)
      PROVE  OneTask'
  <2>1. /\ i \in Running /\ Running' \subseteq Running /\ UNCHANGED fresh
        /\ at'[i] \in {"abandoning", "over"}
        /\ phase' = "opened" => phase = "opened"
    BY <1>1, <1>5 DEF Abandon, FinishAbandon, Finally, Sane, Running, States, opens
  <2>2. token' # None => session'[i] = token'
    BY <1>1, <1>3, <1>5, <2>1 DEF Abandon, FinishAbandon, TypeOK, Sane
  <2>3. at'[i] \in Holding => stream_ws' = i
    BY <1>1, <1>3, <1>5, <2>1 DEF Abandon, FinishAbandon, Finally, Holding, shared, Sane
  <2> QED BY <1>3, <2>1, <2>2, <2>3 DEF OneTask
<1>6. CASE Open
  BY <1>1, <1>3, <1>6 DEF Open, OneTask, Running
<1>7. CASE Attach
  <2>1. CASE UNCHANGED at
    BY <1>1, <1>3, <1>7, <2>1 DEF Attach, OneTask, Running, opens
  <2>2. CASE Started # Tasks /\ at' = [at EXCEPT ![Cardinality(Started) + 1] = "top"]
    <3> DEFINE next == Cardinality(Started) + 1
    <3>1. next \in Tasks
      BY <1>1, <2>2, NextStarted
    <3> HIDE DEF next
    <3>2. Running' = {next} /\ at'[next] = "top"
      BY <1>1, <1>3, <1>7, <2>2, <3>1 DEF Attach, Running, Sane, next
    <3>3. UNCHANGED <<token, fresh>> /\ phase' = "attached" /\ ~fresh
      BY <1>1, <1>3, <1>7 DEF Attach, opens, Sane, TypeOK
    <3> QED BY <3>2, <3>3 DEF OneTask, Holding
  <2> QED BY <1>7, <2>1, <2>2 DEF Attach
<1>8. CASE Close
  BY <1>1, <1>3, <1>8 DEF Close, OneTask, Running, shared, opens, Holding
<1>9. CASE LoseControl
  BY <1>1, <1>3, <1>9 DEF LoseControl, OneTask, Running, shared, opens, Holding
<1>10. CASE Reconnect
  <2>1. Running' = {}
    BY <1>1, <1>10 DEF Reconnect, Cancelled, Running, Sane, States
  <2> QED BY <1>10, <2>1 DEF Reconnect, OneTask
<1>11. CASE Command
  BY <1>3, <1>11 DEF Command, OneTask, Running, app, shared, opens, Holding
<1> QED BY <1>4, <1>5, <1>6, <1>7, <1>8, <1>9, <1>10, <1>11 DEF Next

\* Whatever a connection carried is noted until the next one is attached (aio.py:161, 184).
LEMMA NextNoted == IInv /\ Next => Noted'
BY DEF IInv, Noted, Next, Loop, Establish, Refused, Break, Broken, Abandon, FinishAbandon, Finally,
       Open, Attach, Mark, Close, LoseControl, Reconnect, Cancelled, Command, app, shared

\* command sends a setpoint to its session, and on its stream (aio.py:398-410).
LEMMA NextCommand == IInv /\ Next => CommandReachesSession' /\ CommandUsesStream'
<1> SUFFICES ASSUME IInv, Next PROVE CommandReachesSession' /\ CommandUsesStream'
  OBVIOUS
<1>1. Sane /\ Noted
  BY DEF IInv
<1>2. CASE Command
  <2>1. overlapped' = overlapped /\ command'.session = token
    BY <1>2 DEF Command, Setpoint, opens
  <2>2. CASE stream_ws = None
    <3>1. command' = IF streamed THEN Setpoint("ConnectionError", None) ELSE Setpoint("inline", token)
      BY <1>2, <2>2 DEF Command
    <3>2. command'.via # "stream" /\ (command'.via = "inline" => ~command'.carried)
      BY <3>1, <1>1 DEF Setpoint, Noted
    <3>3. command'.up => \E i \in Tasks : at[i] = "connected"
      BY <3>1 DEF Setpoint
    <3>4. ~overlapped => ~command'.up
      BY <1>1, <2>2, <3>3, StreamsAssumption DEF IInv, OneTask, Running, Holding, Tasks
    <3> QED BY <2>1, <3>2, <3>4 DEF CommandReachesSession, CommandUsesStream
  <2>3. CASE stream_ws # None
    <3>1. PICK i \in Tasks : stream_ws = i /\ at[i] \in Holding
      BY <1>1, <2>3 DEF Sane, TypeOK, Holding
    <3>2. command' = IF at[i] = "connected" THEN Setpoint("stream", session[i])
                     ELSE Setpoint("ConnectionClosed", None)
      BY <1>2, <2>3, <3>1 DEF Command
    <3>3. token # None /\ i \in Running
      BY <1>2, <3>1 DEF Command, Running, Holding
    <3>4. ~overlapped /\ at[i] = "connected" => session[i] = token
      BY <3>3 DEF IInv, OneTask
    <3>5. ~overlapped /\ command'.up => at[i] = "connected"
      <4> SUFFICES ASSUME ~overlapped, command'.up PROVE at[i] = "connected"
        OBVIOUS
      <4>1. PICK j \in Tasks : at[j] = "connected"
        BY <3>2 DEF Setpoint
      <4> QED BY <3>3, <4>1 DEF IInv, OneTask, Running
    <3>6. command'.via = "stream" => at[i] = "connected" /\ command'.to = session[i]
      BY <3>2 DEF Setpoint
    <3>7. at[i] = "connected" => command'.via = "stream"
      BY <3>2 DEF Setpoint
    <3>8. command'.via # "inline"
      BY <3>2 DEF Setpoint
    <3> QED BY <2>1, <3>4, <3>5, <3>6, <3>7, <3>8 DEF CommandReachesSession, CommandUsesStream
  <2> QED BY <2>2, <2>3
<1>3. CASE ~Command
  <2>1. command' = command /\ (overlapped => overlapped')
    BY <1>1, <1>3 DEF Next, Loop, Establish, Refused, Break, Broken, Abandon, FinishAbandon, Open,
                      Attach, Close, LoseControl, Reconnect, opens, Sane
  <2> QED BY <1>1, <2>1 DEF IInv, CommandReachesSession, CommandUsesStream, Sane
<1> QED BY <1>2, <1>3

\* Every step preserves the invariant.
LEMMA NextIInv == IInv /\ [Next]_vars => IInv'
<1>1. IInv /\ Next => IInv'
  BY NextSane, NextOneTask, NextNoted, NextCommand DEF IInv
<1>2. IInv /\ UNCHANGED vars => IInv'
  BY DEF vars, app, shared, opens, counts, IInv, Sane, TypeOK, Started, OneTask, Running, Noted,
         CommandReachesSession, CommandUsesStream
<1> QED BY <1>1, <1>2

\* A setpoint reaches the session it is for, on its stream connection if that is up, and never
\* inline once a stream connection carried the session (aio.py:398-410).
THEOREM InvCorrect == Spec => []Inv
<1>1. IInv => Inv
  BY DEF IInv, Sane, Inv
<1> QED BY <1>1, InitIInv, NextIInv, PTL DEF Spec

\* A session has one stream connection at a time (aio.py:159-205).
THEOREM OneStreamPerSessionCorrect == Spec => []OneStreamPerSession
<1>1. IInv => OneStreamPerSession
  <2> SUFFICES ASSUME IInv, token # None, ~overlapped
               PROVE  Cardinality({i \in Tasks : at[i] \in {"connecting", "connected"}
                                                   /\ session[i] = token}) <= 1
    BY DEF OneStreamPerSession
  <2> DEFINE S == {i \in Tasks : at[i] \in {"connecting", "connected"} /\ session[i] = token}
  <2>1. \A i, j \in S : i = j
    BY DEF IInv, OneTask, Running
  <2>2. CASE S = {}
    BY <2>2, FS_EmptySet
  <2>3. CASE S # {}
    <3>1. PICK i : S = {i}
      BY <2>1, <2>3
    <3> QED BY <3>1, FS_Singleton
  <2> QED BY <2>2, <2>3
<1> QED BY <1>1, InitIInv, NextIInv, PTL DEF Spec
=============================================================================
