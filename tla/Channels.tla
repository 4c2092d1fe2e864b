------------------------------- MODULE Channels -------------------------------
(***************************************************************************)
(* The observation frames of a streaming session: what ClientConnection     *)
(* (src/awp/client.py) makes of frames that reach it over two connections,   *)
(* the control connection ("inline") and the stream connection ("ws"), while *)
(* sessions, subscriptions and connections come and go.                     *)
(*                                                                         *)
(* A request is part of the step in which the world answers it: sending one  *)
(* changes nothing this module models, and nothing tells when it arrives.    *)
(***************************************************************************)
EXTENDS Integers, Sequences, SequencesExt, FiniteSets

CONSTANTS
  ChannelIds,        \* the channel_ids the world grants
  None,              \* Python's None
  Faults,            \* what else may happen, a subset of FaultKinds
  MaxSeq,            \* bound: the highest seq of a frame
  MaxSessions,       \* bound: sessions opened
  MaxSubscriptions,  \* bound: changes of the subscriptions
  MaxLosses          \* bound: losses of either connection

\* race: subscriptions change while the stream connection carries frames.
\* overlap: a session is opened while the stream connection of the last one still holds
\* frames of it.
FaultKinds == {"race", "overlap"}

ASSUME ChannelsAssumption ==
  /\ Faults \subseteq FaultKinds
  /\ {MaxSeq, MaxSessions, MaxSubscriptions, MaxLosses} \subseteq Nat
  /\ None \notin Nat

VARIABLES
  \* ClientConnection
  ready,          \* the session, or None
  names,          \* the channel_ids in _channel_names
  stats,          \* _channel_stats
  accused,        \* history: a frame made the client report a ProtocolViolation
  reported,       \* history: the frames and gaps of the windows reported
  got,            \* history: the frames that became a FrameReceived
  resumed,        \* history: how often the session was resumed
  \* the connections
  connected,      \* the control connection is up
  control,        \* what it holds for the agent
  streaming,      \* the agent's end of the stream connection is open
  stream,         \* the frames it holds
  \* the world
  session,        \* the session it holds, or None
  granted,        \* the channels of that session
  sent,           \* the seq of the last frame of a channel
  home,           \* what carries frames: "inline", "ws", or "down" without its stream
  dropped,        \* history: the highest seq that went down with a connection
  sessions, subscriptions, losses  \* what the bounds count

client == <<ready, names, stats, accused, reported, got, resumed>>
links  == <<connected, control, streaming, stream>>
world  == <<session, granted, sent, home, dropped>>
counts == <<sessions, subscriptions, losses>>
vars   == <<client, links, world, counts>>

-----------------------------------------------------------------------------
(* What the client keeps of a channel                                      *)

Bindings == {"inline", "ws"}

Stats == [frames : Nat, gaps : Nat, last_seq : (1..MaxSeq) \union {None}, binding : Bindings]

\* What has no statistics yet is told apart from what has.
ASSUME NoneAssumption == None \notin Stats

NewStats == [frames |-> 0, gaps |-> 0, last_seq |-> None, binding |-> "inline"]

Frame(channel, seq, resync) ==
  [kind |-> "frame", channel_id |-> channel, seq |-> seq, resync |-> resync, session |-> session]

StatsOf(channel) == IF stats[channel] = None THEN NewStats ELSE stats[channel]

\* Mutant: no frame is overtaken.
NotOvertaken(frame, binding) == FALSE

\* An older frame than the last, on the connection the channel moved from.
Overtaken(frame, binding) ==
  LET st == StatsOf(frame.channel_id)
  IN  st.last_seq # None /\ frame.seq <= st.last_seq /\ binding # st.binding

\* The frames missing before this one, unless it resynchronises the channel.
GapBefore(frame) ==
  LET last == StatsOf(frame.channel_id).last_seq
  IN  IF last = None \/ frame.seq <= last \/ frame.resync THEN 0 ELSE frame.seq - last - 1

-----------------------------------------------------------------------------
(* Frames                                                                  *)

\* _frame.
TakeFrame(frame, binding) ==
  LET channel == frame.channel_id
      st == StatsOf(channel)
      accepted == channel \in names /\ ~Overtaken(frame, binding)
      increasing == st.last_seq = None \/ frame.seq > st.last_seq
  IN  /\ accused' = (accused \/ channel \notin names \/ (accepted /\ ~increasing))
      /\ IF accepted
           THEN /\ stats' = [stats EXCEPT ![channel] =
                     [frames |-> st.frames + 1, gaps |-> st.gaps + GapBefore(frame),
                      last_seq |-> frame.seq, binding |-> binding]]
                /\ got' = [got EXCEPT ![channel] =
                     @ \union {[part |-> resumed, seq |-> frame.seq, resync |-> frame.resync]}]
           ELSE UNCHANGED <<stats, got>>

\* An obs.frame notification.
ReceiveInline ==
  /\ control # <<>> /\ Head(control).kind = "frame"
  /\ TakeFrame(Head(control), "inline")
  /\ control' = Tail(control)
  /\ UNCHANGED <<ready, names, reported, resumed, connected, streaming, stream, world, counts>>

\* A frame on the stream connection (receive_frame).
ReceiveStream ==
  /\ streaming /\ stream # <<>>
  /\ TakeFrame(Head(stream), "ws")
  /\ stream' = Tail(stream)
  /\ UNCHANGED <<ready, names, reported, resumed, connected, control, streaming, world, counts>>

\* Mutant: a fresh _ChannelStats.
WindowForgotten(st) == NewStats

\* report: the window is over, and the next one starts from the same last frame.
Windowed(st) == [st EXCEPT !.frames = 0, !.gaps = 0]

Report ==
  /\ ready # None
  /\ stats' = [c \in ChannelIds |-> IF stats[c] = None THEN None ELSE Windowed(stats[c])]
  /\ reported' = [c \in ChannelIds |->
       [frames |-> reported[c].frames + StatsOf(c).frames,
        gaps   |-> reported[c].gaps + StatsOf(c).gaps]]
  /\ UNCHANGED <<ready, names, accused, got, resumed, links, world, counts>>

-----------------------------------------------------------------------------
(* Responses                                                               *)

Take(kind) ==
  /\ control # <<>> /\ Head(control).kind = kind
  /\ control' = Tail(control)
  /\ UNCHANGED <<accused, connected, streaming, stream, world, counts>>

\* Mutant: the channels' statistics outlive the session.
KeepStats == UNCHANGED stats

ClearStats == stats' = [c \in ChannelIds |-> None]

\* _end_session: nothing is left of the session, the history included.
EndSession ==
  /\ ClearStats
  /\ reported' = [c \in ChannelIds |-> [frames |-> 0, gaps |-> 0]]
  /\ got' = [c \in ChannelIds |-> {}]
  /\ resumed' = 0

\* _result_session_open.
ReceiveOpenResult ==
  /\ Take("opened")
  /\ EndSession
  /\ ready' = Head(control).session
  /\ names' = Head(control).granted

\* A gap across a resumption is not loss.
Restarted(st) == [st EXCEPT !.last_seq = None]

\* _result_session_resume.
ReceiveResumeResult ==
  /\ Take("resumed")
  /\ ready' = Head(control).session
  /\ names' = Head(control).granted
  /\ stats' = [c \in ChannelIds |-> IF stats[c] = None THEN None ELSE Restarted(stats[c])]
  /\ resumed' = resumed + 1
  /\ UNCHANGED <<reported, got>>

\* AWP_SESSION_UNKNOWN answers a resumption (_session_lost).
ReceiveResumeError ==
  /\ Take("unknown")
  /\ EndSession
  /\ ready' = None /\ names' = {}

\* _result_obs_subscribe and _result_obs_unsubscribe.
ReceiveGrants ==
  /\ Take("grants")
  /\ names' = Head(control).granted
  /\ UNCHANGED <<ready, stats, reported, got, resumed>>

\* _closed, on the result of session.close or a session.state: the channels stay.
ReceiveClosed ==
  /\ Take("closed")
  /\ ready' = None
  /\ UNCHANGED <<names, stats, reported, got, resumed>>

-----------------------------------------------------------------------------
(* The world, and the connections                                          *)

Answer(message) == control' = Append(control, message)

\* A session of its own numbering, whose channels start inline.
OpenSession ==
  /\ connected /\ ready = None /\ session = None /\ sessions < MaxSessions
  /\ "overlap" \in Faults \/ stream = <<>>
  /\ sessions' = sessions + 1
  /\ session' = sessions'
  /\ \E channels \in SUBSET ChannelIds :
       /\ granted' = channels
       /\ Answer([kind |-> "opened", session |-> session', granted |-> channels])
  /\ sent' = [c \in ChannelIds |-> 0]
  /\ dropped' = [c \in ChannelIds |-> 0]
  /\ home' = "inline"
  /\ UNCHANGED <<client, connected, streaming, stream, subscriptions, losses>>

\* session.close, or the world ends the session itself; it puts no more frames on the
\* stream connection, and closes it.
CloseSession ==
  /\ connected /\ session # None
  /\ Answer([kind |-> "closed"])
  /\ session' = None /\ granted' = {} /\ home' = "inline"
  /\ UNCHANGED <<client, connected, streaming, stream, sent, dropped, counts>>

\* obs.subscribe and obs.unsubscribe.
ChangeSubscriptions ==
  /\ connected /\ session # None /\ ready = session
  /\ subscriptions < MaxSubscriptions
  /\ subscriptions' = subscriptions + 1
  /\ "race" \in Faults \/ (home = "inline" /\ stream = <<>>)
  /\ \E channels \in SUBSET ChannelIds :
       /\ granted' = channels
       /\ Answer([kind |-> "grants", granted |-> channels])
  /\ UNCHANGED <<client, connected, streaming, stream, session, sent, home, dropped, sessions, losses>>

\* A frame, after one the world shed or not, on what carries the channels.
SendFrame(channel) ==
  /\ connected /\ session # None /\ channel \in granted
  /\ \E seq \in (sent[channel] + 1)..(sent[channel] + 2), resync \in BOOLEAN :
       LET frame == Frame(channel, seq, resync)
       IN  /\ seq <= MaxSeq
           /\ sent' = [sent EXCEPT ![channel] = seq]
           /\ \/ home = "inline" /\ Answer(frame) /\ UNCHANGED stream
              \/ home = "ws" /\ stream' = Append(stream, frame) /\ UNCHANGED control
  /\ UNCHANGED <<client, connected, streaming, session, granted, home, dropped, counts>>

\* _stream: the agent opens the stream connection, and the channels move to it; without a
\* race, what it asked of the world is answered.
AttachStream ==
  /\ connected /\ ready # None /\ ready = session /\ ~streaming
  /\ "race" \in Faults \/ \A m \in Range(control) : m.kind = "frame"
  /\ streaming' = TRUE
  /\ home' = "ws"
  /\ UNCHANGED <<client, connected, control, stream, session, granted, sent, dropped, counts>>

\* The frames in flight on a link go down with it.
Drop(messages) ==
  dropped' = [c \in ChannelIds |->
    LET seqs == {m.seq : m \in {f \in Range(messages) :
                                  f.kind = "frame" /\ f.channel_id = c /\ f.session = session}}
    IN  CHOOSE n \in seqs \union {dropped[c]} : \A s \in seqs \union {dropped[c]} : s <= n]

\* The stream connection is lost, or the agent closes it because of a malformed frame;
\* until there is another, its channels are sent in neither direction.
LoseStream ==
  /\ streaming /\ losses < MaxLosses
  /\ losses' = losses + 1
  /\ streaming' = FALSE /\ stream' = <<>>
  /\ Drop(stream)
  /\ home' = IF home = "ws" THEN "down" ELSE home
  /\ UNCHANGED <<client, connected, control, session, granted, sent, sessions, subscriptions>>

\* The agent reads the end of the stream connection of a session that was closed.
StreamEnds ==
  /\ streaming /\ stream = <<>> /\ home # "ws"
  /\ streaming' = FALSE
  /\ UNCHANGED <<client, connected, control, stream, world, counts>>

\* Losing the control connection takes the stream connection with it.
LoseConnection ==
  /\ connected /\ losses < MaxLosses
  /\ losses' = losses + 1
  /\ connected' = FALSE /\ streaming' = FALSE
  /\ control' = <<>> /\ stream' = <<>>
  /\ Drop(control \o stream)
  /\ home' = "inline"
  /\ UNCHANGED <<client, session, granted, sent, sessions, subscriptions>>

\* AsyncClient.reconnect, or connect when there is nothing to resume; a world that no
\* longer holds the session, or holds one the agent never learnt of, forgets it.
Reconnect ==
  /\ ~connected /\ connected' = TRUE
  /\ \/ /\ ready # None /\ ready = session
        /\ Answer([kind |-> "resumed", session |-> session, granted |-> granted])
        /\ UNCHANGED <<session, granted>>
     \/ /\ ready # None
        /\ Answer([kind |-> "unknown"])
        /\ session' = None /\ granted' = {}
     \/ /\ ready = None
        /\ session' = None /\ granted' = {}
        /\ UNCHANGED control
  /\ UNCHANGED <<client, streaming, stream, sent, home, dropped, counts>>

-----------------------------------------------------------------------------
Init ==
  /\ ready = None /\ names = {} /\ stats = [c \in ChannelIds |-> None]
  /\ accused = FALSE
  /\ reported = [c \in ChannelIds |-> [frames |-> 0, gaps |-> 0]]
  /\ got = [c \in ChannelIds |-> {}] /\ resumed = 0
  /\ connected = TRUE /\ control = <<>> /\ streaming = FALSE /\ stream = <<>>
  /\ session = None /\ granted = {} /\ home = "inline"
  /\ sent = [c \in ChannelIds |-> 0] /\ dropped = [c \in ChannelIds |-> 0]
  /\ sessions = 0 /\ subscriptions = 0 /\ losses = 0

Next ==
  \/ ReceiveInline \/ ReceiveStream \/ Report
  \/ ReceiveOpenResult \/ ReceiveResumeResult \/ ReceiveResumeError
  \/ ReceiveGrants \/ ReceiveClosed
  \/ OpenSession \/ CloseSession \/ ChangeSubscriptions
  \/ \E channel \in ChannelIds : SendFrame(channel)
  \/ AttachStream \/ LoseStream \/ StreamEnds \/ LoseConnection \/ Reconnect

Spec == Init /\ [][Next]_vars

-----------------------------------------------------------------------------
(* Properties                                                              *)

\* What the client counts of a channel, and where the world is, within their types.
TypeOK ==
  /\ ready \in (1..MaxSessions) \union {None}
  /\ names \subseteq ChannelIds
  /\ stats \in [ChannelIds -> Stats \union {None}]
  /\ accused \in BOOLEAN
  /\ reported \in [ChannelIds -> [frames : Nat, gaps : Nat]]
  /\ \A c \in ChannelIds :
       got[c] \subseteq [part : 0..MaxLosses, seq : 1..MaxSeq, resync : BOOLEAN]
  /\ session \in (1..MaxSessions) \union {None}
  /\ granted \subseteq ChannelIds
  /\ sent \in [ChannelIds -> 0..MaxSeq] /\ dropped \in [ChannelIds -> 0..MaxSeq]
  /\ home \in {"inline", "ws", "down"}

\* A world that numbers the frames of a channel in order, and moves the channel from one
\* connection to the other at any moment, is accused of nothing (_frame: "not
\* increasing", "frame on ungranted channel").
NoFalseAccusation == ~accused

\* The frames of a channel between the first and the last of those received since the
\* session was opened or resumed that were not received, unless the next one received
\* resynchronised the channel.
Missing(c) ==
  {m \in [part : 0..resumed, seq : 1..MaxSeq] :
     LET here == {f \in got[c] : f.part = m.part}
         later == {f \in here : f.seq > m.seq}
     IN  /\ \E f \in here : f.seq < m.seq
         /\ ~ \E f \in here : f.seq = m.seq
         /\ \E f \in later : ~f.resync /\ \A g \in later : f.seq <= g.seq}

\* The windows of obs.report, and delivery() since the last of them, count every frame
\* received and every frame missing once, although a channel moves between connections
\* whose frames overtake each other, and windows end and sessions resume in between.
Accounting ==
  \A c \in ChannelIds :
    /\ reported[c].frames + StatsOf(c).frames = Cardinality(got[c])
    /\ reported[c].gaps + StatsOf(c).gaps = Cardinality(Missing(c))

\* The newest frame of a channel reaches the application, unless it is lost with a
\* connection: the rule that discards what was overtaken (_frame) hides none.
NewestDelivered ==
  connected /\ ready # None /\ ready = session /\ control = <<>> /\ stream = <<>> =>
    \A c \in names : sent[c] > dropped[c] => \E f \in got[c] : f.seq = sent[c]

\* The types, with the promise to a world that keeps to the rules: it is not accused.
Inv == TypeOK /\ NoFalseAccusation
=============================================================================
