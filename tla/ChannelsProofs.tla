---------------------------- MODULE ChannelsProofs ----------------------------
(***************************************************************************)
(* The frames of a session over two connections, for any number of channels,   *)
(* frames, sessions, changes and losses, where neither fault is there: nobody  *)
(* is accused, every frame is counted once, and the newest one is not lost.    *)
(***************************************************************************)
EXTENDS Channels, FiniteSetTheorems, WellFoundedInduction, TLAPS

\* Subscriptions change, and sessions are opened, only where no stream connection has frames.
Settled == Faults = {}

-----------------------------------------------------------------------------
(* The inductive invariant, in parts                                       *)

FrameSet ==
  [kind : {"frame"}, channel_id : ChannelIds, seq : 1..MaxSeq, resync : BOOLEAN, session : 1..MaxSessions]

MessageSet ==
  FrameSet \union [kind : {"opened", "resumed"}, session : 1..MaxSessions, granted : SUBSET ChannelIds]
           \union [kind : {"grants"}, granted : SUBSET ChannelIds]
           \union [kind : {"closed", "unknown"}]

IsFrame(m) == m.kind = "frame"
Opens(m)   == m.kind = "opened"
Grants(m)  == m.kind \in {"opened", "resumed", "grants"}

\* The channel's frames start again.
Restarts(m) == m.kind \in {"opened", "resumed"}

Typed ==
  /\ TypeOK /\ got = [c \in ChannelIds |-> got[c]]
  /\ connected \in BOOLEAN /\ streaming \in BOOLEAN /\ resumed \in Nat
  /\ control \in Seq(MessageSet) /\ stream \in Seq(FrameSet)
  /\ sessions \in 0..MaxSessions /\ losses \in 0..MaxLosses

\* A connection takes what it carried with it.
Down == ~connected => control = <<>> /\ stream = <<>> /\ home = "inline"

\* Sessions come one after the other; those under way are newer than the client's.
Numbered ==
  /\ session # None => session = sessions
  /\ ready # None => ready <= sessions
  /\ \A i \in DOMAIN control : Opens(control[i]) =>
       /\ control[i].session <= sessions
       /\ ready # None => ready < control[i].session
       /\ \A j \in DOMAIN control : i < j /\ Opens(control[j]) => control[i].session < control[j].session

\* A resumption comes first, and is of the client's session.
Resumes(i) == control[i].kind = "resumed"
Resuming ==
  /\ \A i \in DOMAIN control : Resumes(i) => i = 1 /\ control[i].session = ready
  /\ resumed + (IF \E i \in DOMAIN control : Resumes(i) THEN 1 ELSE 0) + (IF connected THEN 0 ELSE 1) <= losses

\* A session the world does not know is the only thing it says.
Unknowing ==
  \A i \in DOMAIN control : control[i].kind = "unknown" =>
    /\ \A j \in DOMAIN control : j = i
    /\ session = None /\ ready # None /\ stream = <<>> /\ home = "inline"

\* What is under way ends with what the world holds.
View ==
  connected /\ session # None =>
    /\ (\A i \in DOMAIN control : ~Opens(control[i])) => ready = session
    /\ \A i \in DOMAIN control : Opens(control[i]) /\ (\A j \in DOMAIN control : i < j => ~Opens(control[j])) =>
         control[i].session = session
    /\ \A i \in DOMAIN control : control[i].kind = "closed" => \E j \in DOMAIN control : i < j /\ Opens(control[j])
    /\ (\A i \in DOMAIN control : ~Grants(control[i])) => names = granted
    /\ \A i \in DOMAIN control : Grants(control[i]) /\ (\A j \in DOMAIN control : i < j => ~Grants(control[j])) =>
         control[i].granted = granted

\* Where the stream connection has frames, or will, nothing changes what is granted.
Streamed ==
  /\ stream # <<>> \/ home = "ws" => \A i \in DOMAIN control : control[i].kind \in {"frame", "closed"}
  /\ \A i \in DOMAIN stream : stream[i].channel_id \in names
  /\ home = "ws" => session # None

\* A frame is granted by what comes before it, or by what the client has.
GrantedBefore ==
  \A i \in DOMAIN control : IsFrame(control[i]) =>
    /\ (\A j \in DOMAIN control : j < i => ~Grants(control[j])) => control[i].channel_id \in names
    /\ \A j \in DOMAIN control :
         j < i /\ Grants(control[j]) /\ (\A k \in DOMAIN control : j < k /\ k < i => ~Grants(control[k])) =>
           control[i].channel_id \in control[j].granted

\* The last frame taken from a connection comes before f.
Beyond(st, f, binding) == st.last_seq # None /\ st.binding = binding => st.last_seq < f.seq

\* Frames on a connection are in order, and beyond the last one taken from it.
Ordered ==
  /\ \A i \in DOMAIN control : IsFrame(control[i]) =>
       /\ (\A j \in DOMAIN control : j < i => ~Restarts(control[j])) =>
            Beyond(StatsOf(control[i].channel_id), control[i], "inline")
       /\ \A j \in DOMAIN control :
            /\ i < j /\ IsFrame(control[j]) /\ control[j].channel_id = control[i].channel_id
            /\ \A k \in DOMAIN control : i < k /\ k < j => ~Opens(control[k])
            => control[i].seq < control[j].seq
  /\ \A i \in DOMAIN stream :
       /\ Beyond(StatsOf(stream[i].channel_id), stream[i], "ws")
       /\ \A j \in DOMAIN stream :
            i < j /\ stream[j].channel_id = stream[i].channel_id => stream[i].seq < stream[j].seq

\* The session the world holds can still reach the client.
Current == session # None /\ (connected \/ ready = session)

NoneOpens == \A i \in DOMAIN control : ~Opens(control[i])

\* A frame of the session the world holds.
OfSession(i) == IsFrame(control[i]) /\ \A j \in DOMAIN control : i < j => ~Opens(control[j])

\* No frame is beyond what the world sent in this session.
Below ==
  Current =>
    /\ NoneOpens => \A c \in ChannelIds : StatsOf(c).last_seq # None => StatsOf(c).last_seq <= sent[c]
    /\ \A i \in DOMAIN control : OfSession(i) =>
         control[i].seq <= sent[control[i].channel_id] /\ control[i].session = session
    /\ \A i \in DOMAIN stream : stream[i].seq <= sent[stream[i].channel_id] /\ stream[i].session = session

\* The newest frame of a channel is taken or under way, or went down with a connection.
Newest ==
  Current =>
    \A c \in ChannelIds : sent[c] > dropped[c] =>
      \/ NoneOpens /\ \E f \in got[c] : f.seq = sent[c]
      \/ \E i \in DOMAIN control : OfSession(i) /\ control[i].channel_id = c /\ control[i].seq = sent[c]
      \/ \E i \in DOMAIN stream : stream[i].channel_id = c /\ stream[i].seq = sent[c]

\* A number that is missing between the frames g.
Between(g, m) ==
  /\ \E f \in g : f.part = m.part /\ f.seq < m.seq
  /\ ~ \E f \in g : f.part = m.part /\ f.seq = m.seq
  /\ \E f \in g : /\ f.part = m.part /\ f.seq > m.seq /\ ~f.resync
                  /\ \A h \in g : h.part = m.part /\ h.seq > m.seq => f.seq <= h.seq

\* Missing, of the frames g taken in r resumptions.
MissingIn(g, r) == {m \in [part : 0..r, seq : 1..MaxSeq] : Between(g, m)}

\* The last frame taken of a channel is the highest since the last resumption.
Tops(g, r, last) ==
  /\ last # None => \E f \in g : f.part = r /\ f.seq = last
  /\ \A f \in g : f.part <= r /\ (f.part = r => last # None /\ f.seq <= last)

\* What is counted of a channel is what was taken of it, and what is missing.
Booked(st, g, window, r) ==
  /\ IsFiniteSet(g) /\ IsFiniteSet(MissingIn(g, r)) /\ Tops(g, r, st.last_seq)
  /\ window.frames + st.frames = Cardinality(g)
  /\ window.gaps + st.gaps = Cardinality(MissingIn(g, r))

Books == \A c \in ChannelIds : Booked(StatsOf(c), got[c], reported[c], resumed)

IInv ==
  /\ Typed /\ Down /\ Numbered /\ Resuming /\ Unknowing /\ View /\ Streamed /\ GrantedBefore
  /\ Ordered /\ Below /\ Newest /\ Books /\ NoFalseAccusation

-----------------------------------------------------------------------------
(* Sequences of messages                                                   *)

\* t is s with m behind it.
Added(s, t, m) ==
  /\ Len(s) \in Nat /\ DOMAIN s = 1..Len(s) /\ DOMAIN t = 1..(Len(s) + 1)
  /\ \A i \in DOMAIN s : i \in DOMAIN t /\ t[i] = s[i]
  /\ t[Len(s) + 1] = m

\* t is s without its first.
Shrunk(s, t) ==
  /\ Len(s) \in Nat \ {0} /\ DOMAIN s = 1..Len(s) /\ DOMAIN t = 1..(Len(s) - 1) /\ s[1] = Head(s)
  /\ \A i \in DOMAIN t : i + 1 \in DOMAIN s /\ t[i] = s[i + 1]
  /\ \A i \in DOMAIN s : i = 1 \/ (i - 1 \in DOMAIN t /\ t[i - 1] = s[i])

\* What is sent goes behind what is under way.
LEMMA Sent ==
  ASSUME NEW S, NEW s \in Seq(S), NEW m \in S
  PROVE  Append(s, m) \in Seq(S) /\ Added(s, Append(s, m), m)
<1>1. /\ Append(s, m) \in Seq(S) /\ Len(Append(s, m)) = Len(s) + 1
      /\ Len(s) \in Nat /\ DOMAIN s = 1..Len(s) /\ DOMAIN Append(s, m) = 1..(Len(s) + 1)
      /\ Append(s, m)[Len(s) + 1] = m
  OBVIOUS
<1>2. \A i \in 1..Len(s) : Append(s, m)[i] = s[i]
  OBVIOUS
<1> QED BY <1>1, <1>2 DEF Added

\* The first is taken, and the others remain.
LEMMA Taken ==
  ASSUME NEW S, NEW s \in Seq(S), s # <<>>
  PROVE  Tail(s) \in Seq(S) /\ Shrunk(s, Tail(s)) /\ Head(s) \in S
<1>1. /\ Len(s) \in Nat /\ DOMAIN s = 1..Len(s) /\ Len(s) > 0 /\ Head(s) = s[1] /\ Head(s) \in S
      /\ Tail(s) \in Seq(S) /\ Len(Tail(s)) = Len(s) - 1
  OBVIOUS
<1>2. \A i \in 1..(Len(s) - 1) : Tail(s)[i] = s[i + 1]
  OBVIOUS
<1>3. DOMAIN Tail(s) = 1..(Len(s) - 1)
  BY <1>1
<1> QED BY <1>1, <1>2, <1>3 DEF Shrunk

\* The members of a sequence.
LEMMA Members ==
  ASSUME NEW S, NEW s \in Seq(S)
  PROVE  /\ Len(s) \in Nat /\ DOMAIN s = 1..Len(s) /\ (\A i \in DOMAIN s : s[i] \in S)
         /\ s = <<>> <=> DOMAIN s = {}
OBVIOUS

\* What a message is.
LEMMA MessageIs ==
  ASSUME NEW m \in MessageSet
  PROVE  /\ m.kind \in {"frame", "opened", "resumed", "grants", "closed", "unknown"}
         /\ IsFrame(m) => m \in FrameSet
         /\ IsFrame(m) => ~Grants(m) /\ ~Restarts(m) /\ ~Opens(m)
         /\ Grants(m) => m.granted \in SUBSET ChannelIds
         /\ Restarts(m) => m.session \in 1..MaxSessions
         /\ Opens(m) => Restarts(m) /\ Grants(m)
         /\ Restarts(m) => Grants(m)
BY DEF MessageSet, FrameSet, IsFrame, Grants, Restarts, Opens

\* What the parts of the type say, each by itself.
LEMMA Parts ==
  ASSUME Typed
  PROVE  /\ \A i \in DOMAIN control : control[i] \in MessageSet /\ i \in Nat
         /\ \A i \in DOMAIN stream : stream[i] \in FrameSet /\ i \in Nat
         /\ control \in Seq(MessageSet) /\ stream \in Seq(FrameSet)
         /\ control = <<>> <=> DOMAIN control = {}
         /\ stream = <<>> <=> DOMAIN stream = {}
         /\ \A c \in ChannelIds : sent[c] \in 0..MaxSeq /\ dropped[c] \in 0..MaxSeq
         /\ \A c \in ChannelIds : StatsOf(c) \in Stats
         /\ {MaxSeq, MaxSessions, MaxSubscriptions, MaxLosses} \subseteq Nat /\ None \notin Nat
         /\ ready \in Nat \union {None} /\ session \in Nat \union {None} /\ sessions \in Nat
<1>1. control \in Seq(MessageSet) /\ stream \in Seq(FrameSet)
  BY DEF Typed
<1>2. \A c \in ChannelIds : StatsOf(c) \in Stats
  BY DEF Typed, TypeOK, StatsOf, NewStats, Stats, Bindings
<1>3. \A c \in ChannelIds : sent[c] \in 0..MaxSeq /\ dropped[c] \in 0..MaxSeq
  BY DEF Typed, TypeOK
<1>4. ready \in Nat \union {None} /\ session \in Nat \union {None} /\ sessions \in Nat
  BY ChannelsAssumption DEF Typed, TypeOK
<1> QED BY <1>1, <1>2, <1>3, <1>4, Members, ChannelsAssumption

-----------------------------------------------------------------------------
(* What is missing between the frames taken                                *)

\* What is missing of a channel is that.
LEMMA MissingIs == \A c : Missing(c) = MissingIn(got[c], resumed)
BY DEF Missing, MissingIn, Between

\* The numbers between two.
Hole(r, a, b) == {m \in [part : {r}, seq : 1..MaxSeq] : a < m.seq /\ m.seq < b}

TakenSet == [part : Nat, seq : 1..MaxSeq, resync : BOOLEAN]

\* A frame beyond the last leaves a hole before it, unless it resynchronises the channel.
LEMMA MissingGrows ==
  ASSUME NEW g \in SUBSET TakenSet, NEW x \in TakenSet, NEW last \in (1..MaxSeq) \union {None},
         Tops(g, x.part, last), last # None => last < x.seq, MaxSeq \in Nat, None \notin Nat
  PROVE  /\ last = None \/ x.resync => MissingIn(g \union {x}, x.part) = MissingIn(g, x.part)
         /\ ~(last = None \/ x.resync) =>
              /\ MissingIn(g \union {x}, x.part) = MissingIn(g, x.part) \union Hole(x.part, last, x.seq)
              /\ MissingIn(g, x.part) \intersect Hole(x.part, last, x.seq) = {}
         /\ x \notin g /\ Tops(g \union {x}, x.part, x.seq)
<1> DEFINE h == g \union {x}
           r == x.part
           n == x.seq
           b == x.resync
<1>1. x.part = r /\ x.seq = n /\ x.resync = b /\ n \in Nat /\ r \in Nat /\ b \in BOOLEAN /\ n \in 1..MaxSeq
      /\ (last # None => last < n) /\ Tops(g, r, last)
  BY DEF TakenSet
<1> HIDE DEF r, n, b
<1>2. \A f \in g : f.part \in Nat /\ f.seq \in Nat /\ f.resync \in BOOLEAN /\ (f.part = r => f.seq < n)
  BY <1>1 DEF TakenSet, Tops
<1>3. \A f : f \in h <=> f \in g \/ f = x
  OBVIOUS
<1> HIDE DEF h
<1>4. ASSUME NEW m \in [part : 0..r, seq : 1..MaxSeq], m.part # r
      PROVE  Between(h, m) <=> Between(g, m)
  BY <1>1, <1>3, <1>4 DEF Between
<1>5. ASSUME NEW m \in [part : 0..r, seq : 1..MaxSeq], m.part = r, last = None
      PROVE  ~Between(h, m) /\ ~Between(g, m)
  <2>1. \A f \in g : f.part # r
    BY <1>1, <1>5 DEF Tops
  <2> QED BY <1>1, <1>3, <1>5, <2>1 DEF Between
<1>6. ASSUME NEW m \in [part : 0..r, seq : 1..MaxSeq], m.part = r, last # None, m.seq <= last
      PROVE  Between(h, m) <=> Between(g, m)
  <2>1. PICK t \in g : t.part = r /\ t.seq = last
    BY <1>1, <1>6 DEF Tops
  <2>2. m.seq \in Nat /\ last \in Nat /\ last < n /\ m.seq < n
    BY <1>1, <1>6
  <2>3. CASE m.seq = last
    BY <1>3, <1>6, <2>1, <2>3 DEF Between
  <2>4. CASE m.seq < last
    BY <1>1, <1>2, <1>3, <1>6, <2>1, <2>2, <2>4 DEF Between
  <2> QED BY <1>6, <2>2, <2>3, <2>4
<1>7. ASSUME NEW m \in [part : 0..r, seq : 1..MaxSeq], m.part = r, last # None, m.seq > last
      PROVE  ~Between(g, m) /\ (Between(h, m) <=> ~b /\ m.seq < n)
  <2>1. PICK t \in g : t.part = r /\ t.seq = last
    BY <1>1, <1>7 DEF Tops
  <2>2. \A f \in g : f.part = r => f.seq \in Nat /\ f.seq < m.seq
    BY <1>1, <1>2, <1>7 DEF Tops
  <2>3. m.seq \in Nat /\ last \in Nat
    BY <1>7
  <2>4. ~Between(g, m)
    BY <1>7, <2>2, <2>3 DEF Between
  <2>5. CASE m.seq < n /\ ~b
    BY <1>1, <1>2, <1>3, <1>7, <2>1, <2>2, <2>3, <2>5 DEF Between
  <2>6. CASE ~(m.seq < n /\ ~b)
    BY <1>1, <1>2, <1>3, <1>7, <2>2, <2>3, <2>6 DEF Between
  <2> QED BY <2>4, <2>5, <2>6
<1>8. /\ last = None \/ b => MissingIn(h, r) = MissingIn(g, r)
      /\ ~(last = None \/ b) => MissingIn(h, r) = MissingIn(g, r) \union Hole(r, last, n)
  <2>1. ASSUME NEW m \in [part : 0..r, seq : 1..MaxSeq]
        PROVE  Between(h, m) <=> Between(g, m) \/ (last # None /\ ~b /\ m.part = r /\ last < m.seq /\ m.seq < n)
    <3>1. last # None => m.seq <= last \/ m.seq > last
      OBVIOUS
    <3> QED BY <1>4, <1>5, <1>6, <1>7, <3>1
  <2>2. ASSUME NEW m
        PROVE  m \in Hole(r, last, n) <=>
                 m \in [part : 0..r, seq : 1..MaxSeq] /\ m.part = r /\ last < m.seq /\ m.seq < n
    <3>1. r \in 0..r
      BY <1>1
    <3> QED BY <3>1 DEF Hole
  <2> QED BY <2>1, <2>2 DEF MissingIn
<1>9. last # None => MissingIn(g, r) \intersect Hole(r, last, n) = {}
  BY <1>7 DEF MissingIn, Hole
<1>10. x \notin g /\ Tops(h, r, n)
  <2>1. x \notin g
    BY <1>1, <1>2
  <2>2. \A f \in h : f.part <= r /\ (f.part = r => f.seq <= n)
    BY <1>1, <1>2, <1>3 DEF Tops
  <2> QED BY <1>1, <1>3, <2>1, <2>2 DEF Tops
<1> QED BY <1>8, <1>9, <1>10 DEF h, r, n, b

\* A hole has as many numbers as lie between its ends.
LEMMA HoleSize ==
  ASSUME NEW r \in Nat, NEW a \in 1..MaxSeq, NEW b \in 1..MaxSeq, a < b, MaxSeq \in Nat
  PROVE  IsFiniteSet(Hole(r, a, b)) /\ Cardinality(Hole(r, a, b)) = b - a - 1
<1> DEFINE S == (a + 1)..(b - 1)
           T == Hole(r, a, b)
           f == [k \in S |-> [part |-> r, seq |-> k]]
<1>1. IsFiniteSet(S) /\ Cardinality(S) = b - a - 1
  <2>1. a + 1 \in Int /\ b - 1 \in Int /\ (a + 1 > b - 1 => b - a - 1 = 0)
    OBVIOUS
  <2> QED BY <2>1, FS_Interval
<1>2. \A k \in S : f[k] \in T /\ f[k].seq = k
  BY DEF Hole
<1>3. \A m \in T : m.seq \in S /\ f[m.seq] = m
  BY DEF Hole
<1>4. f \in [S -> T]
  BY <1>2
<1> HIDE DEF f, S, T
<1>5. f \in Surjection(S, T) /\ f \in Injection(S, T)
  BY <1>2, <1>3, <1>4 DEF Surjection, Injection, IsInjective
<1> QED BY <1>1, <1>5, FS_Surjection DEF T

-----------------------------------------------------------------------------
(* The books of a channel                                                  *)

\* No session, no books.
LEMMA BookedNone == Booked(NewStats, {}, [frames |-> 0, gaps |-> 0], 0)
<1>1. MissingIn({}, 0) = {}
  BY DEF MissingIn, Between
<1>2. IsFiniteSet({}) /\ Cardinality({}) = 0
  BY FS_EmptySet
<1>3. Tops({}, 0, None)
  BY DEF Tops
<1> QED BY <1>1, <1>2, <1>3 DEF Booked, NewStats

\* A window is over: what was counted in it is reported.
LEMMA BookedReport ==
  ASSUME NEW st \in Stats, NEW g, NEW r, NEW w \in [frames : Nat, gaps : Nat], Booked(st, g, w, r)
  PROVE  Booked(Windowed(st), g, [frames |-> w.frames + st.frames, gaps |-> w.gaps + st.gaps], r)
<1>1. Windowed(st).frames = 0 /\ Windowed(st).gaps = 0 /\ Windowed(st).last_seq = st.last_seq
  BY DEF Windowed, Stats
<1>2. st.frames \in Nat /\ st.gaps \in Nat /\ w.frames \in Nat /\ w.gaps \in Nat
  BY DEF Stats
<1> QED BY <1>1, <1>2 DEF Booked

\* A resumption: what comes before the next frame is not missing.
LEMMA BookedResume ==
  ASSUME NEW st \in Stats, NEW g \in SUBSET TakenSet, NEW r \in Nat, NEW w, Booked(st, g, w, r)
  PROVE  Booked(Restarted(st), g, w, r + 1)
<1>1. Restarted(st).frames = st.frames /\ Restarted(st).gaps = st.gaps /\ Restarted(st).last_seq = None
  BY DEF Restarted, Stats
<1>2. \A f \in g : f.part <= r
  BY DEF Booked, Tops
<1>3. MissingIn(g, r + 1) = MissingIn(g, r)
  <2>1. ASSUME NEW m \in [part : 0..(r + 1), seq : 1..MaxSeq], Between(g, m) PROVE m.part \in 0..r
    BY <1>2, <2>1 DEF Between
  <2>2. [part : 0..r, seq : 1..MaxSeq] \subseteq [part : 0..(r + 1), seq : 1..MaxSeq]
    OBVIOUS
  <2>3. \A m \in [part : 0..(r + 1), seq : 1..MaxSeq] : m.part \in 0..r => m \in [part : 0..r, seq : 1..MaxSeq]
    OBVIOUS
  <2> QED BY <2>1, <2>2, <2>3 DEF MissingIn
<1>4. Tops(g, r + 1, None)
  <2>1. \A f \in g : f.part <= r + 1 /\ f.part # r + 1
    BY <1>2 DEF TakenSet
  <2> QED BY <2>1 DEF Tops
<1> QED BY <1>1, <1>3, <1>4 DEF Booked

\* A frame is counted, and what is missing before it.
LEMMA BookedFrame ==
  ASSUME NEW st \in Stats, NEW g \in SUBSET TakenSet, NEW r \in Nat,
         NEW w \in [frames : Nat, gaps : Nat], Booked(st, g, w, r),
         NEW n \in 1..MaxSeq, NEW b \in BOOLEAN, NEW binding, st.last_seq # None => st.last_seq < n,
         MaxSeq \in Nat, None \notin Nat
  PROVE  LET gap == IF st.last_seq = None \/ b THEN 0 ELSE n - st.last_seq - 1
         IN  Booked([frames |-> st.frames + 1, gaps |-> st.gaps + gap, last_seq |-> n, binding |-> binding],
                    g \union {[part |-> r, seq |-> n, resync |-> b]}, w, r)
<1> DEFINE gap == IF st.last_seq = None \/ b THEN 0 ELSE n - st.last_seq - 1
           x == [part |-> r, seq |-> n, resync |-> b]
           last == st.last_seq
           hole == IF last = None \/ b THEN {} ELSE Hole(r, last, n)
<1>1. last \in (1..MaxSeq) \union {None} /\ st.frames \in Nat /\ st.gaps \in Nat /\ w.frames \in Nat /\ w.gaps \in Nat
  BY DEF Stats
<1>2. Tops(g, r, last) /\ IsFiniteSet(g) /\ IsFiniteSet(MissingIn(g, r))
      /\ w.frames + st.frames = Cardinality(g) /\ w.gaps + st.gaps = Cardinality(MissingIn(g, r))
  BY DEF Booked
<1> HIDE DEF x
<1>3. /\ last = None \/ b => MissingIn(g \union {x}, r) = MissingIn(g, r)
      /\ ~(last = None \/ b) =>
           /\ MissingIn(g \union {x}, r) = MissingIn(g, r) \union Hole(r, last, n)
           /\ MissingIn(g, r) \intersect Hole(r, last, n) = {}
      /\ x \notin g /\ Tops(g \union {x}, r, n)
  <2>1. x.part = r /\ x.seq = n /\ x.resync = b /\ x \in TakenSet
    BY DEF x, TakenSet
  <2>2. (last # None => last < x.seq) /\ Tops(g, x.part, last)
    BY <1>2, <2>1
  <2> HIDE DEF last
  <2>3. /\ last = None \/ x.resync => MissingIn(g \union {x}, x.part) = MissingIn(g, x.part)
        /\ ~(last = None \/ x.resync) =>
              /\ MissingIn(g \union {x}, x.part) = MissingIn(g, x.part) \union Hole(x.part, last, x.seq)
              /\ MissingIn(g, x.part) \intersect Hole(x.part, last, x.seq) = {}
        /\ x \notin g /\ Tops(g \union {x}, x.part, x.seq)
    BY <1>1, <2>1, <2>2, MissingGrows
  <2> QED BY <2>1, <2>3
<1>4. IsFiniteSet(g \union {x}) /\ Cardinality(g \union {x}) = Cardinality(g) + 1
  BY <1>2, <1>3, FS_AddElement
<1>5. /\ IsFiniteSet(hole) /\ Cardinality(hole) = gap /\ MissingIn(g, r) \intersect hole = {} /\ gap \in Nat
      /\ MissingIn(g \union {x}, r) = MissingIn(g, r) \union hole
  <2>1. CASE last = None \/ b
    BY <1>3, <2>1, FS_EmptySet
  <2>2. CASE ~(last = None \/ b)
    <3>1. last \in 1..MaxSeq /\ last < n
      BY <1>1, <2>2
    <3>2. IsFiniteSet(Hole(r, last, n)) /\ Cardinality(Hole(r, last, n)) = n - last - 1
      BY <3>1, HoleSize
    <3>3. hole = Hole(r, last, n) /\ gap = n - last - 1
      BY <2>2
    <3> HIDE DEF hole, gap
    <3>4. gap \in Nat
      BY <3>1, <3>3
    <3> QED BY <1>3, <2>2, <3>2, <3>3, <3>4
  <2> QED BY <2>1, <2>2
<1> HIDE DEF hole, gap
<1>6. IsFiniteSet(MissingIn(g, r) \union hole)
      /\ Cardinality(MissingIn(g, r) \union hole) = Cardinality(MissingIn(g, r)) + gap
  <2> DEFINE M == MissingIn(g, r)
  <2>1. Cardinality(M \intersect hole) = 0
    BY <1>5, FS_EmptySet
  <2>2. Cardinality(M) \in Nat /\ IsFiniteSet(M) /\ IsFiniteSet(hole) /\ Cardinality(hole) = gap /\ gap \in Nat
    BY <1>2, <1>5, FS_CardinalityType
  <2> HIDE DEF M
  <2>3. IsFiniteSet(M \union hole)
        /\ Cardinality(M \union hole) = Cardinality(M) + Cardinality(hole) - Cardinality(M \intersect hole)
    BY <2>2, FS_Union
  <2> QED BY <2>1, <2>2, <2>3 DEF M
<1>7. (w.frames + st.frames) + 1 = w.frames + (st.frames + 1) /\ (w.gaps + st.gaps) + gap = w.gaps + (st.gaps + gap)
  BY <1>1, <1>5
<1> QED BY <1>1, <1>2, <1>3, <1>4, <1>5, <1>6, <1>7 DEF Booked, x, gap

-----------------------------------------------------------------------------
(* A frame is taken                                                        *)

\* What the client has of a channel is not touched.
Untouched(c) == StatsOf(c)' = StatsOf(c) /\ got'[c] = got[c]

\* A frame of a granted channel, in its order, is not a violation: it is hidden by a newer one
\* of the other connection, or it is counted.
LEMMA TakesFrame ==
  ASSUME Typed, Books, resumed <= MaxLosses, NEW f \in FrameSet, NEW b \in Bindings,
         f.channel_id \in names, Beyond(StatsOf(f.channel_id), f, b), TakeFrame(f, b),
         UNCHANGED <<reported, resumed>>
  PROVE  /\ accused' = accused
         /\ stats' \in [ChannelIds -> Stats \union {None}]
         /\ got' = [c \in ChannelIds |-> got'[c]]
         /\ \A c \in ChannelIds : got'[c] \subseteq [part : 0..MaxLosses, seq : 1..MaxSeq, resync : BOOLEAN]
         /\ \A c \in ChannelIds : c # f.channel_id => Untouched(c)
         /\ \/ /\ StatsOf(f.channel_id).last_seq # None /\ f.seq <= StatsOf(f.channel_id).last_seq
               /\ Untouched(f.channel_id)
            \/ /\ StatsOf(f.channel_id)'.last_seq = f.seq /\ StatsOf(f.channel_id)'.binding = b
               /\ got[f.channel_id] \subseteq got'[f.channel_id]
               /\ \E h \in got'[f.channel_id] : h.seq = f.seq
         /\ Books'
<1> DEFINE d == f.channel_id
           st == StatsOf(d)
           gap == IF st.last_seq = None \/ f.resync THEN 0 ELSE f.seq - st.last_seq - 1
           new == [frames |-> st.frames + 1, gaps |-> st.gaps + gap, last_seq |-> f.seq, binding |-> b]
           x == [part |-> resumed, seq |-> f.seq, resync |-> f.resync]
<1>1. /\ d \in ChannelIds /\ f.seq \in 1..MaxSeq /\ f.resync \in BOOLEAN
      /\ st \in Stats /\ MaxSeq \in Nat /\ MaxLosses \in Nat /\ None \notin Nat /\ resumed \in Nat
  BY Parts, ChannelsAssumption DEF FrameSet, Typed
<1>2. /\ stats \in [ChannelIds -> Stats \union {None}] /\ got = [c \in ChannelIds |-> got[c]]
      /\ \A c \in ChannelIds : got[c] \subseteq [part : 0..MaxLosses, seq : 1..MaxSeq, resync : BOOLEAN]
      /\ \A c \in ChannelIds : reported[c] \in [frames : Nat, gaps : Nat]
  BY DEF Typed, TypeOK
<1>3. st.last_seq \in (1..MaxSeq) \union {None} /\ st.frames \in Nat /\ st.gaps \in Nat
  BY <1>1 DEF Stats
<1>4. /\ accused' = (accused \/ d \notin names
                       \/ ((d \in names /\ ~Overtaken(f, b)) /\ ~(st.last_seq = None \/ f.seq > st.last_seq)))
      /\ IF d \in names /\ ~Overtaken(f, b)
           THEN /\ stats' = [stats EXCEPT ![d] = [frames |-> st.frames + 1, gaps |-> st.gaps + GapBefore(f),
                                                 last_seq |-> f.seq, binding |-> b]]
                /\ got' = [got EXCEPT ![d] = @ \union {x}]
           ELSE UNCHANGED <<stats, got>>
  BY DEF TakeFrame
<1>5. d \in names /\ accused \in BOOLEAN
  BY DEF Typed, TypeOK
<1>6. CASE Overtaken(f, b)
  <2>1. stats' = stats /\ got' = got /\ accused' = accused
    BY <1>6, <1>4, <1>5, Zenon
  <2>2. \A c \in ChannelIds : StatsOf(c)' = StatsOf(c)
    BY <2>1 DEF StatsOf
  <2>3. st.last_seq # None /\ f.seq <= st.last_seq
    BY <1>6 DEF Overtaken
  <2>4. Books'
    <3>1. ASSUME NEW c \in ChannelIds PROVE Booked(StatsOf(c)', got'[c], reported'[c], resumed')
      BY <2>1, <2>2 DEF Books
    <3> QED BY <3>1 DEF Books
  <2> QED BY <1>1, <1>2, <2>1, <2>2, <2>3, <2>4 DEF Untouched
<1>7. CASE ~Overtaken(f, b)
  <2>1. st.last_seq # None => st.last_seq < f.seq
    <3> HIDE DEF st
    <3>1. st.last_seq # None /\ ~(st.last_seq < f.seq) => f.seq <= st.last_seq
      BY <1>1, <1>3
    <3> QED BY <1>7, <3>1 DEF Overtaken, Beyond, st
  <2>2. GapBefore(f) = gap
    BY <1>1, <1>3, <2>1 DEF GapBefore
  <2>3. /\ accused' = accused
        /\ stats' = [stats EXCEPT ![d] = new] /\ got' = [got EXCEPT ![d] = @ \union {x}]
    <3>1. st.last_seq = None \/ f.seq > st.last_seq
      BY <1>1, <1>3, <2>1
    <3>2. accused' = accused
      BY <1>7, <1>4, <1>5, <3>1, Zenon
    <3>3. /\ stats' = [stats EXCEPT ![d] = [frames |-> st.frames + 1, gaps |-> st.gaps + GapBefore(f),
                                           last_seq |-> f.seq, binding |-> b]]
          /\ got' = [got EXCEPT ![d] = @ \union {x}]
      BY <1>7, <1>4, <1>5, Zenon
    <3> QED BY <2>2, <3>2, <3>3
  <2>4. gap \in Nat
    BY <1>1, <1>3, <2>1
  <2> HIDE DEF gap
  <2>5. new \in Stats /\ new.last_seq = f.seq /\ new.binding = b
    BY <1>1, <1>3, <2>4 DEF Stats
  <2>6. x \in [part : 0..MaxLosses, seq : 1..MaxSeq, resync : BOOLEAN] /\ x.seq = f.seq
    BY <1>1
  <2> HIDE DEF new, x
  <2>7. /\ stats' \in [ChannelIds -> Stats \union {None}] /\ stats'[d] = new
        /\ \A c \in ChannelIds : c # d => stats'[c] = stats[c]
    BY <1>1, <1>2, <2>3, <2>5
  <2>8. /\ got' = [c \in ChannelIds |-> got'[c]] /\ got'[d] = got[d] \union {x}
        /\ \A c \in ChannelIds : c # d => got'[c] = got[c]
    BY <1>1, <1>2, <2>3
  <2>9. StatsOf(d)' = new /\ \A c \in ChannelIds : c # d => StatsOf(c)' = StatsOf(c)
    <3>1. new # None
      BY <2>5, NoneAssumption
    <3> QED BY <2>7, <3>1 DEF StatsOf
  <2>10. \A c \in ChannelIds : got'[c] \subseteq [part : 0..MaxLosses, seq : 1..MaxSeq, resync : BOOLEAN]
    BY <1>2, <2>6, <2>8
  <2>11. Booked(new, got'[d], reported[d], resumed)
    <3>1. got[d] \in SUBSET TakenSet
      BY <1>1, <1>2 DEF TakenSet
    <3>2. reported[d] \in [frames : Nat, gaps : Nat] /\ Booked(st, got[d], reported[d], resumed)
      BY <1>1, <1>2 DEF Books
    <3> HIDE DEF st, d
    <3>3. Booked([frames |-> st.frames + 1,
                  gaps |-> st.gaps + (IF st.last_seq = None \/ f.resync THEN 0 ELSE f.seq - st.last_seq - 1),
                  last_seq |-> f.seq, binding |-> b],
                 got[d] \union {[part |-> resumed, seq |-> f.seq, resync |-> f.resync]}, reported[d], resumed)
      BY <1>1, <2>1, <3>1, <3>2, BookedFrame
    <3> QED BY <2>8, <3>3 DEF new, x, gap
  <2>12. Books'
    <3>1. ASSUME NEW c \in ChannelIds PROVE Booked(StatsOf(c)', got'[c], reported'[c], resumed')
      <4>1. CASE c = d
        BY <2>9, <2>11, <4>1
      <4>2. CASE c # d
        BY <2>8, <2>9, <4>2 DEF Books
      <4> QED BY <4>1, <4>2
    <3> QED BY <3>1 DEF Books
  <2>13. x \in got'[d] /\ got[d] \subseteq got'[d]
    BY <2>8
  <2> QED BY <1>1, <2>3, <2>5, <2>6, <2>7, <2>8, <2>9, <2>10, <2>12, <2>13 DEF Untouched
<1> QED BY <1>6, <1>7

-----------------------------------------------------------------------------
(* The world                                                               *)

\* The end of a stream connection that holds nothing.
LEMMA StreamEndsInv == ASSUME IInv, StreamEnds PROVE IInv'
<1> USE DEF StreamEnds, client, world, counts, IInv
<1>1. Typed'
  BY DEF Typed, TypeOK
<1>2. Down' /\ Numbered' /\ Unknowing' /\ View'
  BY DEF Down, Numbered, Unknowing, View, Opens, Grants
<1>3. Resuming' /\ Streamed' /\ GrantedBefore'
  BY DEF Resuming, Resumes, Streamed, GrantedBefore, IsFrame, Grants
<1>4. Ordered' /\ Below' /\ Newest' /\ Books' /\ NoFalseAccusation'
  BY DEF Ordered, Below, Newest, Books, NoFalseAccusation, StatsOf, Current, NoneOpens, OfSession
<1> QED BY <1>1, <1>2, <1>3, <1>4

\* The channels move to the stream connection: what is under way to the agent is frames.
LEMMA AttachStreamInv == ASSUME Settled, IInv, AttachStream PROVE IInv'
<1> USE DEF AttachStream, client, counts, IInv
<1>1. \A i \in DOMAIN control : control[i].kind = "frame"
  <2>1. "race" \notin Faults
    BY DEF Settled
  <2>2. \A i \in DOMAIN control : control[i] \in Range(control)
    BY DEF Range
  <2> QED BY <2>1, <2>2
<1>2. Typed' /\ Down'
  BY DEF Typed, TypeOK, Down
<1>3. Numbered' /\ View'
  BY DEF Numbered, View, Opens, Grants
<1>4. Unknowing' /\ Streamed'
  <2>1. control' = control
    OBVIOUS
  <2> QED BY <1>1, <2>1 DEF Unknowing, Streamed
<1>5. Resuming' /\ GrantedBefore'
  BY DEF Resuming, Resumes, GrantedBefore, IsFrame, Grants
<1>6. Ordered' /\ Below' /\ Newest' /\ Books' /\ NoFalseAccusation'
  BY DEF Ordered, Below, Newest, Books, NoFalseAccusation, StatsOf, Current, NoneOpens, OfSession
<1> QED BY <1>2, <1>3, <1>4, <1>5, <1>6

\* A session ends behind what is under way.
LEMMA CloseSessionInv == ASSUME IInv, CloseSession PROVE IInv'
<1> DEFINE m == [kind |-> "closed"]
<1>1. /\ connected /\ session # None /\ control' = Append(control, m)
      /\ session' = None /\ granted' = {} /\ home' = "inline"
      /\ UNCHANGED <<ready, names, stats, accused, reported, got, resumed>>
      /\ UNCHANGED <<connected, streaming, stream, sent, dropped, sessions, subscriptions, losses>>
  BY DEF CloseSession, Answer, client, counts
<1>2. Typed /\ Numbered /\ Resuming /\ Unknowing /\ View /\ Streamed /\ GrantedBefore
  BY DEF IInv
<1>3. /\ m \in MessageSet /\ m.kind = "closed"
      /\ ~IsFrame(m) /\ ~Opens(m) /\ ~Grants(m) /\ ~Restarts(m)
  BY DEF MessageSet, IsFrame, Opens, Grants, Restarts
<1> HIDE DEF m
<1>4. control' \in Seq(MessageSet) /\ Added(control, control', m)
  BY <1>1, <1>2, <1>3, Sent DEF Typed
<1>5. /\ Len(control) \in Nat
      /\ \A i \in DOMAIN control : i \in Nat /\ i \in DOMAIN control' /\ control'[i] = control[i]
      /\ \A i \in DOMAIN control' : i \in Nat /\ (i \in DOMAIN control \/ (i = Len(control) + 1 /\ control'[i] = m))
  BY <1>4 DEF Added
<1>6. Typed'
  BY <1>1, <1>2, <1>4 DEF Typed, TypeOK
<1>7. Down' /\ Numbered'
  BY <1>1, <1>2, <1>3, <1>5 DEF Down, Numbered
<1>8. Resuming'
  BY <1>1, <1>2, <1>3, <1>5 DEF Resuming, Resumes, Restarts
<1>9. Unknowing' /\ View'
  BY <1>1, <1>2, <1>3, <1>5 DEF Unknowing, View
<1>10. Streamed'
  BY <1>1, <1>2, <1>3, <1>5 DEF Streamed
<1>11. GrantedBefore'
  BY <1>1, <1>2, <1>3, <1>5 DEF GrantedBefore
<1>12. Ordered'
  <2>1. \A c : StatsOf(c)' = StatsOf(c)
    BY <1>1 DEF StatsOf
  <2> QED BY <1>1, <1>3, <1>5, <2>1 DEF IInv, Ordered
<1>13. Below' /\ Newest' /\ Books' /\ NoFalseAccusation'
  <2>1. \A c : StatsOf(c)' = StatsOf(c)
    BY <1>1 DEF StatsOf
  <2> QED BY <1>1, <2>1 DEF IInv, Below, Newest, Books, NoFalseAccusation, Current
<1> QED BY <1>6, <1>7, <1>8, <1>9, <1>10, <1>11, <1>12, <1>13 DEF IInv

\* While the client has the session the world holds, no other is opened.
LEMMA NoOther ==
  ASSUME Typed, Numbered, View, connected, session # None, ready = session
  PROVE  NoneOpens /\ \A i \in DOMAIN control : control[i].kind # "closed"
<1>1. \A i \in DOMAIN control : ~Opens(control[i])
  <2> SUFFICES ASSUME NEW i \in DOMAIN control, Opens(control[i]) PROVE FALSE
    OBVIOUS
  <2>1. control[i].session \in Nat /\ control[i].session <= sessions /\ ready < control[i].session /\ ready = sessions
    BY MessageIs, Parts DEF Numbered, Opens, Restarts
  <2> QED BY <2>1, Parts
<1> QED BY <1>1 DEF NoneOpens, View

\* A session is opened, whose channels have sent nothing.
LEMMA OpenSessionInv == ASSUME Settled, IInv, OpenSession PROVE IInv'
<1>1. /\ connected /\ ready = None /\ session = None /\ sessions < MaxSessions /\ stream = <<>>
      /\ sessions' = sessions + 1 /\ session' = sessions + 1 /\ home' = "inline"
      /\ sent' = [c \in ChannelIds |-> 0] /\ dropped' = [c \in ChannelIds |-> 0]
      /\ UNCHANGED <<ready, names, stats, accused, reported, got, resumed>>
      /\ UNCHANGED <<connected, streaming, stream, subscriptions, losses>>
  BY DEF OpenSession, Settled, client
<1>2. PICK channels \in SUBSET ChannelIds :
        /\ granted' = channels
        /\ control' = Append(control, [kind |-> "opened", session |-> sessions + 1, granted |-> channels])
  BY <1>1 DEF OpenSession, Answer
<1> DEFINE m == [kind |-> "opened", session |-> sessions + 1, granted |-> channels]
<1>3. Typed /\ Numbered /\ Resuming /\ Unknowing /\ View /\ Streamed /\ GrantedBefore
  BY DEF IInv
<1>4. sessions \in Nat /\ MaxSessions \in Nat /\ MaxSeq \in Nat /\ sessions + 1 \in 1..MaxSessions
  BY <1>1, <1>3, ChannelsAssumption DEF Typed
<1>5. /\ m \in MessageSet /\ m.kind = "opened" /\ m.session = sessions + 1 /\ m.granted = channels
      /\ ~IsFrame(m) /\ Opens(m) /\ Grants(m)
  BY <1>4 DEF MessageSet, IsFrame, Opens, Grants
<1> HIDE DEF m
<1>6. control' \in Seq(MessageSet) /\ Added(control, control', m)
  BY <1>2, <1>3, <1>5, Sent DEF Typed, m
<1>7. /\ Len(control) \in Nat /\ Len(control) + 1 \in DOMAIN control' /\ control'[Len(control) + 1] = m
      /\ \A i \in DOMAIN control : /\ i \in Nat /\ i \in DOMAIN control' /\ control'[i] = control[i]
                                   /\ i < Len(control) + 1
      /\ \A i \in DOMAIN control' : i \in Nat /\ (i \in DOMAIN control \/ (i = Len(control) + 1 /\ control'[i] = m))
  BY <1>6 DEF Added
<1>8. Typed'
  BY <1>1, <1>2, <1>3, <1>4, <1>6 DEF Typed, TypeOK
<1>9. Down'
  BY <1>1 DEF Down
<1>10. Numbered'
  <2>1. \A i \in DOMAIN control : Opens(control[i]) => control[i].session \in Nat /\ control[i].session <= sessions
    BY <1>3, MessageIs, Parts DEF Numbered, Opens, Restarts
  <2> QED BY <1>1, <1>3, <1>4, <1>5, <1>7, <2>1 DEF Numbered
<1>11. Resuming'
  BY <1>1, <1>3, <1>5, <1>7 DEF Resuming, Resumes
<1>12. Unknowing'
  BY <1>1, <1>3, <1>5, <1>7 DEF Unknowing
<1>13. View'
  <2>1. \A i \in DOMAIN control' : (\A j \in DOMAIN control' : i < j => ~Opens(control'[j])) => i = Len(control) + 1
    BY <1>5, <1>7
  <2>2. \A i \in DOMAIN control' : (\A j \in DOMAIN control' : i < j => ~Grants(control'[j])) => i = Len(control) + 1
    BY <1>5, <1>7
  <2>3. \A i \in DOMAIN control' : control'[i].kind = "closed" => i < Len(control) + 1
    BY <1>5, <1>7
  <2> QED BY <1>1, <1>2, <1>5, <1>7, <2>1, <2>2, <2>3 DEF View
<1>14. Streamed'
  BY <1>1, <1>3 DEF Streamed
<1>15. GrantedBefore'
  BY <1>1, <1>3, <1>5, <1>7 DEF GrantedBefore
<1>16. \A c : StatsOf(c)' = StatsOf(c)
  BY <1>1 DEF StatsOf
<1>17. Ordered'
  BY <1>1, <1>5, <1>7, <1>16 DEF IInv, Ordered
<1>18. ~NoneOpens' /\ \A i \in DOMAIN control' : ~OfSession(i)'
  BY <1>5, <1>7 DEF NoneOpens, OfSession
<1>19. Below'
  BY <1>1, <1>18, Parts, <1>3 DEF Below
<1>20. Newest'
  BY <1>1 DEF Newest
<1>21. Books' /\ NoFalseAccusation'
  BY <1>1, <1>16 DEF IInv, Books, NoFalseAccusation
<1> QED BY <1>8, <1>9, <1>10, <1>11, <1>12, <1>13, <1>14, <1>15, <1>17, <1>19, <1>20, <1>21 DEF IInv

\* The subscriptions change where the channels are sent inline.
LEMMA ChangeSubscriptionsInv == ASSUME Settled, IInv, ChangeSubscriptions PROVE IInv'
<1>1. /\ connected /\ session # None /\ ready = session /\ home = "inline" /\ stream = <<>>
      /\ UNCHANGED <<ready, names, stats, accused, reported, got, resumed>>
      /\ UNCHANGED <<connected, streaming, stream, session, sent, home, dropped, sessions, losses>>
  BY DEF ChangeSubscriptions, Settled, client
<1>2. PICK channels \in SUBSET ChannelIds :
        granted' = channels /\ control' = Append(control, [kind |-> "grants", granted |-> channels])
  BY DEF ChangeSubscriptions, Answer
<1> DEFINE m == [kind |-> "grants", granted |-> channels]
<1>3. Typed /\ Numbered /\ Resuming /\ Unknowing /\ View /\ Streamed /\ GrantedBefore
  BY DEF IInv
<1>4. /\ m \in MessageSet /\ m.kind = "grants" /\ m.granted = channels
      /\ ~IsFrame(m) /\ ~Opens(m) /\ Grants(m)
  BY DEF MessageSet, IsFrame, Opens, Grants
<1> HIDE DEF m
<1>5. control' \in Seq(MessageSet) /\ Added(control, control', m)
  BY <1>2, <1>3, <1>4, Sent DEF Typed, m
<1>6. /\ Len(control) \in Nat /\ Len(control) + 1 \in DOMAIN control' /\ control'[Len(control) + 1] = m
      /\ \A i \in DOMAIN control : /\ i \in Nat /\ i \in DOMAIN control' /\ control'[i] = control[i]
                                   /\ i < Len(control) + 1
      /\ \A i \in DOMAIN control' : i \in Nat /\ (i \in DOMAIN control \/ (i = Len(control) + 1 /\ control'[i] = m))
  BY <1>5 DEF Added
<1>7. NoneOpens /\ \A i \in DOMAIN control : control[i].kind # "closed"
  BY <1>1, <1>3, NoOther
<1>8. Typed'
  BY <1>1, <1>2, <1>3, <1>5 DEF Typed, TypeOK, ChangeSubscriptions
<1>9. Down'
  BY <1>1 DEF Down
<1>10. Numbered'
  BY <1>1, <1>3, <1>4, <1>6 DEF Numbered
<1>11. Resuming'
  BY <1>1, <1>3, <1>4, <1>6 DEF Resuming, Resumes
<1>12. Unknowing'
  BY <1>1, <1>3, <1>4, <1>6 DEF Unknowing
<1>13. View'
  <2>1. \A i \in DOMAIN control' : ~Opens(control'[i]) /\ control'[i].kind # "closed"
    BY <1>4, <1>6, <1>7 DEF NoneOpens
  <2>2. \A i \in DOMAIN control' : (\A j \in DOMAIN control' : i < j => ~Grants(control'[j])) => i = Len(control) + 1
    BY <1>4, <1>6
  <2> QED BY <1>1, <1>2, <1>4, <1>6, <2>1, <2>2 DEF View
<1>14. Streamed'
  BY <1>1, <1>3 DEF Streamed
<1>15. GrantedBefore'
  BY <1>1, <1>3, <1>4, <1>6 DEF GrantedBefore
<1>16. \A c : StatsOf(c)' = StatsOf(c)
  BY <1>1 DEF StatsOf
<1>17. Ordered'
  BY <1>1, <1>4, <1>6, <1>16 DEF IInv, Ordered
<1>18. NoneOpens' /\ \A i : i \in DOMAIN control' /\ OfSession(i)' <=> i \in DOMAIN control /\ OfSession(i)
  BY <1>4, <1>6, <1>7 DEF NoneOpens, OfSession
<1>19. Below' /\ Newest' /\ Books' /\ NoFalseAccusation'
  BY <1>1, <1>6, <1>7, <1>16, <1>18 DEF IInv, Below, Newest, Books, NoFalseAccusation, Current
<1> QED BY <1>8, <1>9, <1>10, <1>11, <1>12, <1>13, <1>14, <1>15, <1>17, <1>19 DEF IInv

\* The world sends a frame beyond those it sent, of a channel it granted.
SendsFrame(d, n, b) ==
  /\ connected /\ session # None /\ d \in ChannelIds /\ d \in granted
  /\ n \in 1..MaxSeq /\ sent[d] < n /\ b \in BOOLEAN
  /\ sent' = [sent EXCEPT ![d] = n]
  /\ UNCHANGED <<ready, names, stats, accused, reported, got, resumed>>
  /\ UNCHANGED <<connected, streaming, session, granted, home, dropped, sessions, subscriptions, losses>>

\* What holds of the client and of the world, whatever carries the frame.
LEMMA SendsKeeps ==
  ASSUME IInv, NEW d, NEW n, NEW b, SendsFrame(d, n, b)
  PROVE  /\ Frame(d, n, b) \in FrameSet /\ Frame(d, n, b) \in MessageSet
         /\ Frame(d, n, b).kind = "frame" /\ Frame(d, n, b).channel_id = d /\ Frame(d, n, b).seq = n
         /\ Frame(d, n, b).session = session
         /\ ~Opens(Frame(d, n, b)) /\ ~Grants(Frame(d, n, b)) /\ ~Restarts(Frame(d, n, b))
         /\ IsFrame(Frame(d, n, b))
         /\ (\A c : StatsOf(c)' = StatsOf(c)) /\ Books' /\ NoFalseAccusation'
         /\ sent' \in [ChannelIds -> 0..MaxSeq] /\ sent'[d] = n
         /\ \A c \in ChannelIds : c # d => sent'[c] = sent[c]
         /\ \A c \in ChannelIds : sent[c] \in Nat /\ sent'[c] \in Nat /\ sent[c] <= sent'[c]
         /\ \A i \in DOMAIN control : control[i].kind # "unknown"
         /\ NoneOpens /\ StatsOf(d).last_seq # None => StatsOf(d).last_seq < n
         /\ \A i \in DOMAIN control : OfSession(i) /\ control[i].channel_id = d => control[i].seq < n
         /\ \A i \in DOMAIN stream : stream[i].channel_id = d => stream[i].seq < n
<1>1. /\ d \in ChannelIds /\ n \in 1..MaxSeq /\ b \in BOOLEAN /\ session # None /\ connected /\ sent[d] < n
      /\ sent' = [sent EXCEPT ![d] = n] /\ MaxSeq \in Nat
      /\ UNCHANGED <<ready, names, stats, accused, reported, got, resumed>>
  BY ChannelsAssumption DEF SendsFrame
<1>2. Typed /\ Below /\ Unknowing /\ Books /\ NoFalseAccusation
  BY DEF IInv
<1>3. session \in 1..MaxSessions
  BY <1>1, <1>2 DEF Typed, TypeOK
<1>4. /\ Frame(d, n, b) \in FrameSet
      /\ Frame(d, n, b).kind = "frame" /\ Frame(d, n, b).channel_id = d /\ Frame(d, n, b).seq = n
      /\ Frame(d, n, b).session = session
  BY <1>1, <1>3 DEF Frame, FrameSet
<1>5. /\ Frame(d, n, b) \in MessageSet
      /\ ~Opens(Frame(d, n, b)) /\ ~Grants(Frame(d, n, b)) /\ ~Restarts(Frame(d, n, b)) /\ IsFrame(Frame(d, n, b))
  BY <1>4 DEF MessageSet, Opens, Grants, Restarts, IsFrame
<1>6. \A c : StatsOf(c)' = StatsOf(c)
  BY <1>1 DEF StatsOf
<1>7. Books' /\ NoFalseAccusation'
  BY <1>1, <1>2, <1>6 DEF Books, NoFalseAccusation
<1>8. /\ sent' \in [ChannelIds -> 0..MaxSeq] /\ sent'[d] = n
      /\ \A c \in ChannelIds : c # d => sent'[c] = sent[c]
      /\ \A c \in ChannelIds : sent[c] \in Nat /\ sent'[c] \in Nat /\ sent[c] <= sent'[c]
  <2>1. sent \in [ChannelIds -> 0..MaxSeq]
    BY <1>2 DEF Typed, TypeOK
  <2>2. n \in 0..MaxSeq
    BY <1>1
  <2>3. sent' \in [ChannelIds -> 0..MaxSeq] /\ sent'[d] = n /\ \A c \in ChannelIds : c # d => sent'[c] = sent[c]
    BY <1>1, <2>1, <2>2
  <2>4. \A c \in ChannelIds : sent[c] \in Nat /\ sent'[c] \in Nat
    BY <1>1, <2>1, <2>3
  <2>5. ASSUME NEW c \in ChannelIds PROVE sent[c] <= sent'[c]
    BY <1>1, <2>3, <2>4
  <2> QED BY <2>3, <2>4, <2>5
<1>9. \A i \in DOMAIN control : control[i].kind # "unknown"
  BY <1>1, <1>2 DEF Unknowing
<1>10. Current
  BY <1>1 DEF Current
<1>11. NoneOpens /\ StatsOf(d).last_seq # None => StatsOf(d).last_seq < n
  <2>1. StatsOf(d).last_seq # None => StatsOf(d).last_seq \in Nat
    BY <1>1, <1>2, Parts DEF Stats
  <2> QED BY <1>1, <1>2, <1>8, <1>10, <2>1 DEF Below
<1>12. \A i \in DOMAIN control : OfSession(i) /\ control[i].channel_id = d => control[i].seq < n
  <2>1. \A i \in DOMAIN control : OfSession(i) => control[i].seq \in Nat
    BY <1>1, <1>2, MessageIs, Parts DEF OfSession, FrameSet
  <2> QED BY <1>1, <1>2, <1>8, <1>10, <2>1 DEF Below
<1>13. \A i \in DOMAIN stream : stream[i].channel_id = d => stream[i].seq < n
  <2>1. \A i \in DOMAIN stream : stream[i].seq \in Nat
    BY <1>1, <1>2, Parts DEF FrameSet
  <2> QED BY <1>1, <1>2, <1>8, <1>10, <2>1 DEF Below
<1> QED BY <1>4, <1>5, <1>6, <1>7, <1>8, <1>9, <1>11, <1>12, <1>13

\* On the control connection.
LEMMA SendInline ==
  ASSUME IInv, NEW d, NEW n, NEW b, SendsFrame(d, n, b), home = "inline",
         control' = Append(control, Frame(d, n, b)), UNCHANGED stream
  PROVE  IInv'
<1> DEFINE m == Frame(d, n, b)
<1>1. /\ connected /\ session # None /\ home = "inline" /\ d \in ChannelIds /\ d \in granted
      /\ UNCHANGED <<ready, names, stats, accused, reported, got, resumed>>
      /\ UNCHANGED <<connected, streaming, stream, session, granted, home, dropped, sessions, subscriptions, losses>>
  BY DEF SendsFrame
<1>2. Typed /\ Numbered /\ Resuming /\ Unknowing /\ View /\ Streamed /\ GrantedBefore /\ Ordered /\ Below /\ Newest
  BY DEF IInv
<1>3. /\ m \in MessageSet /\ m.kind = "frame" /\ m.channel_id = d /\ m.seq = n /\ m.session = session
      /\ ~Opens(m) /\ ~Grants(m) /\ ~Restarts(m) /\ IsFrame(m)
      /\ \A c : StatsOf(c)' = StatsOf(c)
      /\ sent' \in [ChannelIds -> 0..MaxSeq] /\ sent'[d] = n
      /\ \A c \in ChannelIds : c # d => sent'[c] = sent[c]
      /\ \A c \in ChannelIds : sent[c] \in Nat /\ sent'[c] \in Nat /\ sent[c] <= sent'[c]
  BY SendsKeeps
<1>4. /\ \A i \in DOMAIN control : control[i].kind # "unknown"
      /\ NoneOpens /\ StatsOf(d).last_seq # None => StatsOf(d).last_seq < n
      /\ \A i \in DOMAIN control : OfSession(i) /\ control[i].channel_id = d => control[i].seq < n
      /\ Books' /\ NoFalseAccusation'
  BY SendsKeeps
<1>5. control' \in Seq(MessageSet) /\ Added(control, control', m)
  BY <1>2, <1>3, Sent DEF Typed
<1> HIDE DEF m
<1>6. /\ Len(control) \in Nat /\ Len(control) + 1 \in DOMAIN control' /\ control'[Len(control) + 1] = m
      /\ \A i \in DOMAIN control : /\ i \in Nat /\ i \in DOMAIN control' /\ control'[i] = control[i]
                                   /\ i < Len(control) + 1
      /\ \A i \in DOMAIN control' : i \in Nat /\ (i \in DOMAIN control \/ (i = Len(control) + 1 /\ control'[i] = m))
  BY <1>5 DEF Added
<1>7. Typed' /\ Down'
  BY <1>1, <1>2, <1>3, <1>5 DEF Typed, TypeOK, Down
<1>8. Numbered'
  BY <1>1, <1>2, <1>3, <1>6 DEF Numbered
<1>9. Resuming'
  BY <1>1, <1>2, <1>3, <1>6 DEF Resuming, Resumes
<1>10. Unknowing'
  BY <1>3, <1>4, <1>6 DEF Unknowing
<1>11. View'
  BY <1>1, <1>2, <1>3, <1>6 DEF View
<1>12. Streamed'
  BY <1>1, <1>2, <1>3, <1>6 DEF Streamed
<1>13. GrantedBefore'
  <2>1. ASSUME NEW i \in DOMAIN control', IsFrame(control'[i]), \A j \in DOMAIN control' : j < i => ~Grants(control'[j])
        PROVE  control'[i].channel_id \in names'
    <3>1. CASE i \in DOMAIN control
      BY <1>1, <1>2, <1>6, <2>1, <3>1 DEF GrantedBefore
    <3>2. CASE i = Len(control) + 1 /\ control'[i] = m
      BY <1>1, <1>2, <1>3, <1>6, <2>1, <3>2 DEF View
    <3> QED BY <1>6, <3>1, <3>2
  <2>2. ASSUME NEW i \in DOMAIN control', IsFrame(control'[i]), NEW j \in DOMAIN control', j < i, Grants(control'[j]),
               \A k \in DOMAIN control' : j < k /\ k < i => ~Grants(control'[k])
        PROVE  control'[i].channel_id \in control'[j].granted
    <3>1. j \in DOMAIN control /\ control'[j] = control[j]
      BY <1>3, <1>6, <2>2
    <3>2. CASE i \in DOMAIN control
      BY <1>2, <1>6, <2>2, <3>1, <3>2 DEF GrantedBefore
    <3>3. CASE i = Len(control) + 1 /\ control'[i] = m
      <4>1. \A k \in DOMAIN control : j < k => ~Grants(control[k])
        BY <1>6, <2>2, <3>3
      <4> QED BY <1>1, <1>2, <1>3, <2>2, <3>1, <3>3, <4>1 DEF View
    <3> QED BY <1>6, <3>2, <3>3
  <2> QED BY <2>1, <2>2 DEF GrantedBefore
<1>14. Ordered'
  <2>1. ASSUME NEW i \in DOMAIN control', IsFrame(control'[i]), \A j \in DOMAIN control' : j < i => ~Restarts(control'[j])
        PROVE  Beyond(StatsOf(control[i].channel_id), control[i], "inline")'
    <3>1. CASE i \in DOMAIN control
      BY <1>2, <1>3, <1>6, <2>1, <3>1 DEF Ordered
    <3>2. CASE i = Len(control) + 1 /\ control'[i] = m
      <4>1. NoneOpens
        BY <1>6, <2>1, <3>2 DEF NoneOpens, Opens, Restarts
      <4> QED BY <1>3, <1>4, <3>2, <4>1 DEF Beyond
    <3> QED BY <1>6, <3>1, <3>2
  <2>2. ASSUME NEW i \in DOMAIN control', IsFrame(control'[i]), NEW j \in DOMAIN control', i < j, IsFrame(control'[j]),
               control'[j].channel_id = control'[i].channel_id,
               \A k \in DOMAIN control' : i < k /\ k < j => ~Opens(control'[k])
        PROVE  control'[i].seq < control'[j].seq
    <3>1. CASE j \in DOMAIN control
      <4>1. i \in DOMAIN control
        BY <1>6, <2>2, <3>1
      <4> QED BY <1>2, <1>6, <2>2, <3>1, <4>1 DEF Ordered
    <3>2. CASE j = Len(control) + 1 /\ control'[j] = m
      <4>1. i \in DOMAIN control /\ control'[i] = control[i]
        BY <1>6, <2>2, <3>2
      <4>2. OfSession(i)
        BY <1>6, <2>2, <3>2, <4>1 DEF OfSession
      <4> QED BY <1>3, <1>4, <2>2, <3>2, <4>1, <4>2
    <3> QED BY <1>6, <3>1, <3>2
  <2>3. (\A i \in DOMAIN stream :
           /\ Beyond(StatsOf(stream[i].channel_id), stream[i], "ws")
           /\ \A j \in DOMAIN stream :
                i < j /\ stream[j].channel_id = stream[i].channel_id => stream[i].seq < stream[j].seq)'
    BY <1>1, <1>2, <1>3 DEF Ordered
  <2> QED BY <2>1, <2>2, <2>3 DEF Ordered
<1>15. /\ NoneOpens' <=> NoneOpens
       /\ \A i \in DOMAIN control : OfSession(i)' <=> OfSession(i)
       /\ \A i : i = Len(control) + 1 => OfSession(i)'
  BY <1>3, <1>6 DEF NoneOpens, OfSession
<1>16. Current' /\ Current
  BY <1>1 DEF Current
<1>17. Below'
  <2>1. NoneOpens => \A c \in ChannelIds : StatsOf(c).last_seq # None => StatsOf(c).last_seq <= sent'[c]
    <3>1. \A c \in ChannelIds : StatsOf(c).last_seq # None => StatsOf(c).last_seq \in Nat
      BY <1>2, Parts DEF Stats
    <3> QED BY <1>2, <1>3, <1>16, <3>1 DEF Below
  <2>2. ASSUME NEW i \in DOMAIN control', OfSession(i)'
        PROVE  control'[i].seq <= sent'[control'[i].channel_id] /\ control'[i].session = session'
    <3>1. CASE i \in DOMAIN control
      <4>1. OfSession(i) /\ control'[i] = control[i] /\ control[i] \in FrameSet /\ MaxSeq \in Nat
        BY <1>2, <1>6, <1>15, <2>2, <3>1, MessageIs, Parts DEF OfSession
      <4>2. control[i].seq \in Nat /\ control[i].channel_id \in ChannelIds
        BY <4>1 DEF FrameSet
      <4>3. control[i].seq <= sent[control[i].channel_id] /\ control[i].session = session
        BY <1>2, <1>16, <3>1, <4>1 DEF Below
      <4> QED BY <1>1, <1>3, <4>1, <4>2, <4>3
    <3>2. CASE i = Len(control) + 1 /\ control'[i] = m
      BY <1>1, <1>3, <3>2
    <3> QED BY <1>6, <3>1, <3>2
  <2>3. ASSUME NEW i \in DOMAIN stream
        PROVE  stream[i].seq <= sent'[stream[i].channel_id] /\ stream[i].session = session
    <3>1. stream[i] \in FrameSet /\ MaxSeq \in Nat
      BY <1>2, Parts
    <3>2. stream[i].seq \in Nat /\ stream[i].channel_id \in ChannelIds
      BY <3>1 DEF FrameSet
    <3>3. stream[i].seq <= sent[stream[i].channel_id] /\ stream[i].session = session
      BY <1>2, <1>16 DEF Below
    <3> QED BY <1>3, <3>2, <3>3
  <2> QED BY <1>1, <1>3, <1>15, <2>1, <2>2, <2>3 DEF Below
<1>18. Newest'
  <2> SUFFICES ASSUME NEW c \in ChannelIds, sent'[c] > dropped'[c]
      PROVE \/ NoneOpens' /\ \E f \in got'[c] : f.seq = sent'[c]
            \/ \E i \in DOMAIN control' : OfSession(i)' /\ control'[i].channel_id = c /\ control'[i].seq = sent'[c]
            \/ \E i \in DOMAIN stream' : stream'[i].channel_id = c /\ stream'[i].seq = sent'[c]
    BY DEF Newest
  <2>1. CASE c = d
    BY <1>3, <1>6, <1>15, <2>1
  <2>2. CASE c # d
    <3>1. sent'[c] = sent[c] /\ sent[c] > dropped[c]
      BY <1>1, <1>3, <2>2
    <3> QED BY <1>1, <1>2, <1>6, <1>15, <1>16, <3>1 DEF Newest
  <2> QED BY <2>1, <2>2
<1> QED BY <1>4, <1>7, <1>8, <1>9, <1>10, <1>11, <1>12, <1>13, <1>14, <1>17, <1>18 DEF IInv

\* On the stream connection, whose session the client has.
LEMMA SendStream ==
  ASSUME IInv, NEW d, NEW n, NEW b, SendsFrame(d, n, b), home = "ws",
         stream' = Append(stream, Frame(d, n, b)), UNCHANGED control
  PROVE  IInv'
<1> DEFINE m == Frame(d, n, b)
<1>1. /\ connected /\ session # None /\ home = "ws" /\ d \in ChannelIds /\ d \in granted
      /\ UNCHANGED <<ready, names, stats, accused, reported, got, resumed>>
      /\ UNCHANGED <<connected, streaming, control, session, granted, home, dropped, sessions, subscriptions, losses>>
  BY DEF SendsFrame
<1>2. Typed /\ Numbered /\ Resuming /\ Unknowing /\ View /\ Streamed /\ GrantedBefore /\ Ordered /\ Below /\ Newest
  BY DEF IInv
<1>3. /\ m \in FrameSet /\ m.channel_id = d /\ m.seq = n /\ m.session = session
      /\ \A c : StatsOf(c)' = StatsOf(c)
      /\ sent' \in [ChannelIds -> 0..MaxSeq] /\ sent'[d] = n
      /\ \A c \in ChannelIds : c # d => sent'[c] = sent[c]
      /\ \A c \in ChannelIds : sent[c] \in Nat /\ sent'[c] \in Nat /\ sent[c] <= sent'[c]
  BY SendsKeeps
<1>4. /\ \A i \in DOMAIN control : control[i].kind # "unknown"
      /\ NoneOpens /\ StatsOf(d).last_seq # None => StatsOf(d).last_seq < n
      /\ \A i \in DOMAIN stream : stream[i].channel_id = d => stream[i].seq < n
      /\ Books' /\ NoFalseAccusation'
  BY SendsKeeps
<1>5. stream' \in Seq(FrameSet) /\ Added(stream, stream', m)
  BY <1>2, <1>3, Sent DEF Typed
<1> HIDE DEF m
<1>6. /\ Len(stream) \in Nat /\ Len(stream) + 1 \in DOMAIN stream' /\ stream'[Len(stream) + 1] = m
      /\ \A i \in DOMAIN stream : /\ i \in Nat /\ i \in DOMAIN stream' /\ stream'[i] = stream[i]
                                  /\ i < Len(stream) + 1
      /\ \A i \in DOMAIN stream' : i \in Nat /\ (i \in DOMAIN stream \/ (i = Len(stream) + 1 /\ stream'[i] = m))
  BY <1>5 DEF Added
<1>7. \A i \in DOMAIN control : control[i].kind = "frame" \/ control[i].kind = "closed"
  BY <1>1, <1>2 DEF Streamed
<1>8. NoneOpens /\ d \in names
  BY <1>1, <1>2, <1>7 DEF NoneOpens, Opens, Grants, View
<1>9. Typed' /\ Down'
  BY <1>1, <1>2, <1>3, <1>5 DEF Typed, TypeOK, Down
<1>10. Numbered' /\ View'
  BY <1>1, <1>2 DEF Numbered, View, Opens, Grants
<1>11. Resuming' /\ GrantedBefore'
  BY <1>1, <1>2 DEF Resuming, Resumes, GrantedBefore, IsFrame, Grants
<1>12. Unknowing'
  BY <1>1, <1>4 DEF Unknowing
<1>13. Streamed'
  BY <1>1, <1>2, <1>3, <1>6, <1>7, <1>8 DEF Streamed
<1>14. Ordered'
  <2>1. (\A i \in DOMAIN control : IsFrame(control[i]) =>
          /\ (\A j \in DOMAIN control : j < i => ~Restarts(control[j])) =>
               Beyond(StatsOf(control[i].channel_id), control[i], "inline")
          /\ \A j \in DOMAIN control :
               /\ i < j /\ IsFrame(control[j]) /\ control[j].channel_id = control[i].channel_id
               /\ \A k \in DOMAIN control : i < k /\ k < j => ~Opens(control[k])
               => control[i].seq < control[j].seq)'
    BY <1>1, <1>2, <1>3 DEF Ordered, Opens, Restarts
  <2>2. ASSUME NEW i \in DOMAIN stream'
        PROVE  Beyond(StatsOf(stream[i].channel_id), stream[i], "ws")'
    <3>1. CASE i \in DOMAIN stream
      BY <1>2, <1>3, <1>6, <2>2, <3>1 DEF Ordered
    <3>2. CASE i = Len(stream) + 1 /\ stream'[i] = m
      BY <1>3, <1>4, <1>8, <3>2 DEF Beyond
    <3> QED BY <1>6, <3>1, <3>2
  <2>3. ASSUME NEW i \in DOMAIN stream', NEW j \in DOMAIN stream', i < j, stream'[j].channel_id = stream'[i].channel_id
        PROVE  stream'[i].seq < stream'[j].seq
    <3>1. i \in DOMAIN stream /\ stream'[i] = stream[i]
      BY <1>6, <2>3
    <3>2. CASE j \in DOMAIN stream
      BY <1>2, <1>6, <2>3, <3>1, <3>2 DEF Ordered
    <3>3. CASE j = Len(stream) + 1 /\ stream'[j] = m
      BY <1>3, <1>4, <2>3, <3>1, <3>3
    <3> QED BY <1>6, <3>2, <3>3
  <2> QED BY <2>1, <2>2, <2>3 DEF Ordered
<1>15. /\ NoneOpens' <=> NoneOpens
       /\ \A i : OfSession(i)' <=> OfSession(i)
  BY <1>1 DEF NoneOpens, OfSession
<1>16. Current' /\ Current
  BY <1>1 DEF Current
<1>17. Below'
  <2>1. \A c \in ChannelIds : StatsOf(c).last_seq # None => StatsOf(c).last_seq <= sent'[c]
    <3>1. \A c \in ChannelIds : StatsOf(c).last_seq # None => StatsOf(c).last_seq \in Nat
      BY <1>2, Parts DEF Stats
    <3> QED BY <1>2, <1>3, <1>8, <1>16, <3>1 DEF Below
  <2>2. ASSUME NEW i \in DOMAIN control, OfSession(i)
        PROVE  control[i].seq <= sent'[control[i].channel_id] /\ control[i].session = session
    <3>1. control[i] \in FrameSet /\ MaxSeq \in Nat
      BY <1>2, <2>2, MessageIs, Parts DEF OfSession
    <3>2. control[i].seq \in Nat /\ control[i].channel_id \in ChannelIds
      BY <3>1 DEF FrameSet
    <3>3. control[i].seq <= sent[control[i].channel_id] /\ control[i].session = session
      BY <1>2, <1>16, <2>2 DEF Below
    <3> QED BY <1>3, <3>2, <3>3
  <2>3. ASSUME NEW i \in DOMAIN stream'
        PROVE  stream'[i].seq <= sent'[stream'[i].channel_id] /\ stream'[i].session = session
    <3>1. CASE i \in DOMAIN stream
      <4>1. stream[i] \in FrameSet /\ MaxSeq \in Nat /\ stream'[i] = stream[i]
        BY <1>2, <1>6, <3>1, Parts
      <4>2. stream[i].seq \in Nat /\ stream[i].channel_id \in ChannelIds
        BY <4>1 DEF FrameSet
      <4>3. stream[i].seq <= sent[stream[i].channel_id] /\ stream[i].session = session
        BY <1>2, <1>16, <3>1 DEF Below
      <4> QED BY <1>3, <4>1, <4>2, <4>3
    <3>2. CASE i = Len(stream) + 1 /\ stream'[i] = m
      BY <1>1, <1>3, <3>2
    <3> QED BY <1>6, <3>1, <3>2
  <2> QED BY <1>1, <1>3, <1>15, <2>1, <2>2, <2>3 DEF Below
<1>18. Newest'
  <2> SUFFICES ASSUME NEW c \in ChannelIds, sent'[c] > dropped'[c]
      PROVE \/ NoneOpens' /\ \E f \in got'[c] : f.seq = sent'[c]
            \/ \E i \in DOMAIN control' : OfSession(i)' /\ control'[i].channel_id = c /\ control'[i].seq = sent'[c]
            \/ \E i \in DOMAIN stream' : stream'[i].channel_id = c /\ stream'[i].seq = sent'[c]
    BY DEF Newest
  <2>1. CASE c = d
    BY <1>3, <1>6, <2>1
  <2>2. CASE c # d
    <3>1. sent'[c] = sent[c] /\ sent[c] > dropped[c]
      BY <1>1, <1>3, <2>2
    <3>2. CASE NoneOpens /\ \E f \in got[c] : f.seq = sent[c]
      BY <1>1, <1>15, <3>1, <3>2
    <3>3. CASE \E i \in DOMAIN control : OfSession(i) /\ control[i].channel_id = c /\ control[i].seq = sent[c]
      BY <1>1, <1>15, <3>1, <3>3
    <3>4. CASE \E i \in DOMAIN stream : stream[i].channel_id = c /\ stream[i].seq = sent[c]
      BY <1>6, <3>1, <3>4
    <3> QED BY <1>2, <1>16, <3>1, <3>2, <3>3, <3>4 DEF Newest
  <2> QED BY <2>1, <2>2
<1> QED BY <1>4, <1>9, <1>10, <1>11, <1>12, <1>13, <1>14, <1>17, <1>18 DEF IInv

\* A frame is sent on what carries its channel.
LEMMA SendFrameInv == ASSUME IInv, NEW d \in ChannelIds, SendFrame(d) PROVE IInv'
<1>1. PICK n \in (sent[d] + 1)..(sent[d] + 2), b \in BOOLEAN :
        /\ n <= MaxSeq
        /\ sent' = [sent EXCEPT ![d] = n]
        /\ \/ home = "inline" /\ Answer(Frame(d, n, b)) /\ UNCHANGED stream
           \/ home = "ws" /\ stream' = Append(stream, Frame(d, n, b)) /\ UNCHANGED control
  BY DEF SendFrame
<1>2. sent[d] \in Nat /\ MaxSeq \in Nat
  BY ChannelsAssumption DEF IInv, Typed, TypeOK
<1>3. n \in 1..MaxSeq /\ sent[d] < n
  BY <1>1, <1>2
<1>4. SendsFrame(d, n, b)
  BY <1>1, <1>3 DEF SendFrame, SendsFrame, client, counts
<1> QED BY <1>1, <1>4, SendInline, SendStream DEF Answer

-----------------------------------------------------------------------------
(* The client                                                              *)

\* A window ends: nothing but its counts changes.
LEMMA ReportInv == ASSUME IInv, Report PROVE IInv'
<1>1. /\ stats' = [c \in ChannelIds |-> IF stats[c] = None THEN None ELSE Windowed(stats[c])]
      /\ reported' = [c \in ChannelIds |->
           [frames |-> reported[c].frames + StatsOf(c).frames, gaps |-> reported[c].gaps + StatsOf(c).gaps]]
      /\ UNCHANGED <<ready, names, accused, got, resumed, connected, control, streaming, stream>>
      /\ UNCHANGED <<session, granted, sent, home, dropped, sessions, subscriptions, losses>>
  BY DEF Report, links, world, counts
<1>2. Typed /\ Numbered /\ Resuming /\ Unknowing /\ View /\ Streamed /\ GrantedBefore /\ Ordered /\ Below /\ Newest
      /\ Books /\ Down /\ NoFalseAccusation
  BY DEF IInv
<1>3. /\ stats \in [ChannelIds -> Stats \union {None}]
      /\ \A c \in ChannelIds : reported[c] \in [frames : Nat, gaps : Nat]
      /\ \A c \in ChannelIds : StatsOf(c) \in Stats
  BY <1>2, Parts DEF Typed, TypeOK
<1>4. \A st \in Stats : Windowed(st) \in Stats /\ Windowed(st).last_seq = st.last_seq /\ Windowed(st).binding = st.binding
  BY DEF Windowed, Stats
<1>5. Windowed(NewStats) = NewStats
  <2>1. NewStats \in Stats /\ NewStats.frames = 0 /\ NewStats.gaps = 0
    BY DEF NewStats, Stats, Bindings
  <2>2. \A st \in Stats : st.frames = 0 /\ st.gaps = 0 => Windowed(st) = st
    BY DEF Windowed, Stats
  <2> QED BY <2>1, <2>2
<1>6. \A c \in ChannelIds : StatsOf(c)' = Windowed(StatsOf(c))
  <2> SUFFICES ASSUME NEW c \in ChannelIds PROVE StatsOf(c)' = Windowed(StatsOf(c))
    OBVIOUS
  <2>1. CASE stats[c] = None
    BY <1>1, <1>5, <2>1 DEF StatsOf
  <2>2. CASE stats[c] # None
    <3>1. Windowed(stats[c]) # None
      BY <1>3, <1>4, <2>2, NoneAssumption
    <3> QED BY <1>1, <2>2, <3>1 DEF StatsOf
  <2> QED BY <2>1, <2>2
<1>7. \A c \in ChannelIds : StatsOf(c)'.last_seq = StatsOf(c).last_seq /\ StatsOf(c)'.binding = StatsOf(c).binding
  BY <1>3, <1>4, <1>6
<1>8. Typed'
  <2>1. stats' \in [ChannelIds -> Stats \union {None}]
    BY <1>1, <1>3, <1>4
  <2>2. reported' \in [ChannelIds -> [frames : Nat, gaps : Nat]]
    BY <1>1, <1>3 DEF Stats
  <2> QED BY <1>1, <1>2, <2>1, <2>2 DEF Typed, TypeOK
<1>9. Down' /\ Numbered' /\ Unknowing' /\ View'
  BY <1>1, <1>2 DEF Down, Numbered, Unknowing, View, Opens, Grants
<1>10. Resuming' /\ Streamed' /\ GrantedBefore'
  BY <1>1, <1>2 DEF Resuming, Resumes, Streamed, GrantedBefore, IsFrame, Grants
<1>11. Ordered'
  <2>1. (\A i \in DOMAIN control : IsFrame(control[i]) =>
          /\ (\A j \in DOMAIN control : j < i => ~Restarts(control[j])) =>
               Beyond(StatsOf(control[i].channel_id), control[i], "inline")
          /\ \A j \in DOMAIN control :
               /\ i < j /\ IsFrame(control[j]) /\ control[j].channel_id = control[i].channel_id
               /\ \A k \in DOMAIN control : i < k /\ k < j => ~Opens(control[k])
               => control[i].seq < control[j].seq)'
    <3>1. \A i \in DOMAIN control : IsFrame(control[i]) => control[i].channel_id \in ChannelIds
      BY <1>2, MessageIs, Parts DEF FrameSet
    <3> QED BY <1>1, <1>2, <1>7, <3>1 DEF Ordered, Beyond, IsFrame, Restarts, Opens
  <2>2. (\A i \in DOMAIN stream :
           /\ Beyond(StatsOf(stream[i].channel_id), stream[i], "ws")
           /\ \A j \in DOMAIN stream :
                i < j /\ stream[j].channel_id = stream[i].channel_id => stream[i].seq < stream[j].seq)'
    <3>1. \A i \in DOMAIN stream : stream[i].channel_id \in ChannelIds
      BY <1>2, Parts DEF FrameSet
    <3> QED BY <1>1, <1>2, <1>7, <3>1 DEF Ordered, Beyond
  <2> QED BY <2>1, <2>2 DEF Ordered
<1>12. Below' /\ Newest' /\ NoFalseAccusation'
  BY <1>1, <1>2, <1>7 DEF Below, Newest, NoFalseAccusation, Current, NoneOpens, OfSession
<1>13. Books'
  <2> SUFFICES ASSUME NEW c \in ChannelIds PROVE Booked(StatsOf(c), got[c], reported[c], resumed)'
    BY DEF Books
  <2>1. Booked(StatsOf(c), got[c], reported[c], resumed)
    BY <1>2 DEF Books
  <2>2. Booked(Windowed(StatsOf(c)), got[c],
               [frames |-> reported[c].frames + StatsOf(c).frames, gaps |-> reported[c].gaps + StatsOf(c).gaps], resumed)
    BY <1>3, <2>1, BookedReport
  <2> QED BY <1>1, <1>6, <2>2
<1> QED BY <1>8, <1>9, <1>10, <1>11, <1>12, <1>13 DEF IInv

\* A message is taken from the control connection.
Receives ==
  /\ control # <<>> /\ control' = Tail(control)
  /\ UNCHANGED <<connected, streaming, stream, session, granted, sent, home, dropped>>
  /\ UNCHANGED <<sessions, subscriptions, losses>>

\* The one taken, and what remains.
LEMMA Receiving ==
  ASSUME Typed, Down, Receives
  PROVE  /\ connected /\ control' \in Seq(MessageSet) /\ Head(control) \in MessageSet
         /\ 1 \in DOMAIN control /\ control[1] = Head(control)
         /\ \A i \in DOMAIN control' : i \in Nat /\ i > 0 /\ i + 1 \in Nat /\ i + 1 \in DOMAIN control /\ control'[i] = control[i + 1]
         /\ \A i \in DOMAIN control : i \in Nat /\ i > 0 /\ (i > 1 => i - 1 \in DOMAIN control' /\ control'[i - 1] = control[i])
<1>1. control \in Seq(MessageSet) /\ control # <<>> /\ control' = Tail(control) /\ connected
  BY DEF Typed, Down, Receives
<1>2. control' \in Seq(MessageSet) /\ Shrunk(control, control') /\ Head(control) \in MessageSet
  BY <1>1, Taken
<1> QED BY <1>1, <1>2 DEF Shrunk

\* What remains of the frames of the world's session.
LEMMA Remaining ==
  ASSUME Typed, Down, Receives
  PROVE  /\ NoneOpens <=> NoneOpens' /\ ~Opens(Head(control))
         /\ \A i \in DOMAIN control' : OfSession(i)' <=> OfSession(i + 1)
         /\ \A i \in DOMAIN control : OfSession(i) /\ i > 1 => OfSession(i - 1)'
<1>1. /\ 1 \in DOMAIN control /\ control[1] = Head(control)
      /\ \A i \in DOMAIN control' : i \in Nat /\ i > 0 /\ i + 1 \in Nat /\ i + 1 \in DOMAIN control /\ control'[i] = control[i + 1]
      /\ \A i \in DOMAIN control : i \in Nat /\ i > 0 /\ (i > 1 => i - 1 \in DOMAIN control' /\ control'[i - 1] = control[i])
  BY Receiving
<1>2. NoneOpens <=> NoneOpens' /\ ~Opens(Head(control))
  <2>1. ASSUME NoneOpens PROVE NoneOpens' /\ ~Opens(Head(control))
    BY <1>1, <2>1 DEF NoneOpens
  <2>2. ASSUME NoneOpens', ~Opens(Head(control)), NEW i \in DOMAIN control PROVE ~Opens(control[i])
    <3>1. i = 1 \/ (i > 1 /\ i - 1 \in DOMAIN control' /\ control'[i - 1] = control[i])
      BY <1>1
    <3> QED BY <1>1, <2>2, <3>1 DEF NoneOpens
  <2> QED BY <2>1, <2>2 DEF NoneOpens
<1>3. ASSUME NEW i \in DOMAIN control'
      PROVE  OfSession(i)' <=> OfSession(i + 1)
  <2>1. i + 1 \in DOMAIN control /\ control'[i] = control[i + 1] /\ i \in Nat
    BY <1>1
  <2>2. ASSUME \A j \in DOMAIN control : i + 1 < j => ~Opens(control[j]), NEW j \in DOMAIN control', i < j
        PROVE  ~Opens(control'[j])
    <3>1. j \in Nat /\ j + 1 \in DOMAIN control /\ control'[j] = control[j + 1]
      BY <1>1
    <3> QED BY <2>1, <2>2, <3>1
  <2>3. ASSUME \A j \in DOMAIN control' : i < j => ~Opens(control'[j]), NEW j \in DOMAIN control, i + 1 < j
        PROVE  ~Opens(control[j])
    <3>1. j \in Nat /\ j - 1 \in DOMAIN control' /\ control'[j - 1] = control[j]
      BY <1>1, <2>1, <2>3
    <3> QED BY <2>1, <2>3, <3>1
  <2> QED BY <2>1, <2>2, <2>3 DEF OfSession
<1>4. \A i \in DOMAIN control : i > 1 => i - 1 \in DOMAIN control' /\ (i - 1) + 1 = i
  BY <1>1
<1> QED BY <1>2, <1>3, <1>4

\* What taking a message makes of the session the client has, and of its channels.
Follows ==
  /\ Receives /\ Head(control).kind # "unknown"
  /\ Opens(Head(control)) => ready' = Head(control).session
  /\ Head(control).kind = "closed" => ready' = None
  /\ ~Opens(Head(control)) /\ Head(control).kind # "closed" => ready' = ready
  /\ Grants(Head(control)) => names' = Head(control).granted
  /\ ~Grants(Head(control)) => names' = names

\* The frames on the control connection are in order.
InOrder ==
  \A i \in DOMAIN control : IsFrame(control[i]) =>
    \A j \in DOMAIN control :
      /\ i < j /\ IsFrame(control[j]) /\ control[j].channel_id = control[i].channel_id
      /\ \A k \in DOMAIN control : i < k /\ k < j => ~Opens(control[k])
      => control[i].seq < control[j].seq

\* The parts of the invariant that say what the messages under way do to the client.
LEMMA FollowsKeeps ==
  ASSUME IInv, Follows
  PROVE  Numbered' /\ Unknowing' /\ View' /\ Streamed' /\ GrantedBefore' /\ InOrder'
<1>1. /\ Typed /\ Down /\ Numbered /\ Unknowing /\ View /\ Streamed /\ GrantedBefore /\ Ordered /\ Receives
      /\ UNCHANGED <<connected, stream, session, granted, home, sessions>>
  BY DEF IInv, Follows, Receives
<1>2. /\ connected /\ Head(control) \in MessageSet
      /\ 1 \in DOMAIN control /\ control[1] = Head(control)
      /\ \A i \in DOMAIN control' : i \in Nat /\ i > 0 /\ i + 1 \in Nat /\ i + 1 \in DOMAIN control /\ control'[i] = control[i + 1]
      /\ \A i \in DOMAIN control : i \in Nat /\ i > 0 /\ (i > 1 => i - 1 \in DOMAIN control' /\ control'[i - 1] = control[i])
  BY <1>1, Receiving
<1>3. NoneOpens <=> NoneOpens' /\ ~Opens(Head(control))
  BY <1>1, Remaining
<1>4. Numbered'
  <2>1. session' # None => session' = sessions'
    BY <1>1 DEF Numbered
  <2>2. ready' # None => ready' <= sessions'
    BY <1>1, <1>2 DEF Numbered, Follows
  <2>3. ASSUME NEW i \in DOMAIN control', Opens(control'[i])
        PROVE  /\ control'[i].session <= sessions' /\ (ready' # None => ready' < control'[i].session)
               /\ \A j \in DOMAIN control' : i < j /\ Opens(control'[j]) => control'[i].session < control'[j].session
    <3>1. i \in Nat /\ 1 < i + 1 /\ i + 1 \in DOMAIN control /\ control'[i] = control[i + 1] /\ Opens(control[i + 1])
      BY <1>2, <2>3
    <3>2. /\ control[i + 1].session <= sessions
          /\ ready # None => ready < control[i + 1].session
          /\ \A j \in DOMAIN control : i + 1 < j /\ Opens(control[j]) => control[i + 1].session < control[j].session
      BY <1>1, <3>1 DEF Numbered
    <3>3. Opens(Head(control)) => Head(control).session < control[i + 1].session
      BY <1>1, <1>2, <3>1 DEF Numbered
    <3>4. ready' # None => ready' < control[i + 1].session
      BY <3>2, <3>3 DEF Follows
    <3>5. \A j \in DOMAIN control' : i < j => i + 1 < j + 1 /\ j + 1 \in DOMAIN control /\ control'[j] = control[j + 1]
      BY <1>2, <3>1
    <3> QED BY <1>1, <3>1, <3>2, <3>4, <3>5
  <2> QED BY <2>1, <2>2, <2>3 DEF Numbered
<1>5. Unknowing'
  <2>1. ASSUME NEW i \in DOMAIN control', control'[i].kind = "unknown" PROVE FALSE
    <3>1. i + 1 \in DOMAIN control /\ control[i + 1].kind = "unknown" /\ 1 # i + 1
      BY <1>2, <2>1
    <3> QED BY <1>1, <1>2, <3>1 DEF Unknowing
  <2> QED BY <2>1 DEF Unknowing
<1>6. View'
  <2> SUFFICES ASSUME session # None
      PROVE /\ (\A i \in DOMAIN control' : ~Opens(control'[i])) => ready' = session
            /\ \A i \in DOMAIN control' :
                 Opens(control'[i]) /\ (\A j \in DOMAIN control' : i < j => ~Opens(control'[j])) => control'[i].session = session
            /\ \A i \in DOMAIN control' :
                 control'[i].kind = "closed" => \E j \in DOMAIN control' : i < j /\ Opens(control'[j])
            /\ (\A i \in DOMAIN control' : ~Grants(control'[i])) => names' = granted
            /\ \A i \in DOMAIN control' :
                 Grants(control'[i]) /\ (\A j \in DOMAIN control' : i < j => ~Grants(control'[j])) => control'[i].granted = granted
    BY <1>1 DEF View
  <2>1. /\ (\A i \in DOMAIN control : ~Opens(control[i])) => ready = session
        /\ \A i \in DOMAIN control : Opens(control[i]) /\ (\A j \in DOMAIN control : i < j => ~Opens(control[j])) =>
             control[i].session = session
        /\ \A i \in DOMAIN control : control[i].kind = "closed" => \E j \in DOMAIN control : i < j /\ Opens(control[j])
        /\ (\A i \in DOMAIN control : ~Grants(control[i])) => names = granted
        /\ \A i \in DOMAIN control : Grants(control[i]) /\ (\A j \in DOMAIN control : i < j => ~Grants(control[j])) =>
             control[i].granted = granted
    BY <1>1, <1>2 DEF View
  <2>2. ASSUME \A i \in DOMAIN control' : ~Opens(control'[i])
        PROVE  ready' = session
    <3>1. \A j \in DOMAIN control : 1 < j => ~Opens(control[j])
      BY <1>2, <2>2
    <3>2. CASE Opens(Head(control))
      BY <1>2, <2>1, <3>1, <3>2 DEF Follows
    <3>3. CASE ~Opens(Head(control))
      <4>1. \A j \in DOMAIN control : ~Opens(control[j])
        <5> SUFFICES ASSUME NEW j \in DOMAIN control PROVE ~Opens(control[j])
          OBVIOUS
        <5>1. j = 1 \/ 1 < j
          BY <1>2
        <5> QED BY <1>2, <3>1, <3>3, <5>1
      <4>2. Head(control).kind # "closed"
        BY <1>2, <2>1, <4>1
      <4> QED BY <2>1, <3>3, <4>1, <4>2 DEF Follows
    <3> QED BY <3>2, <3>3
  <2>3. ASSUME NEW i \in DOMAIN control', Opens(control'[i]), \A j \in DOMAIN control' : i < j => ~Opens(control'[j])
        PROVE  control'[i].session = session
    <3>1. i \in Nat /\ i + 1 \in DOMAIN control /\ control'[i] = control[i + 1]
      BY <1>2
    <3>2. ASSUME NEW j \in DOMAIN control, i + 1 < j PROVE ~Opens(control[j])
      <4>1. j - 1 \in DOMAIN control' /\ i < j - 1 /\ control'[j - 1] = control[j]
        BY <1>2, <3>1, <3>2
      <4> QED BY <2>3, <4>1
    <3> QED BY <2>1, <2>3, <3>1, <3>2
  <2>4. ASSUME NEW i \in DOMAIN control', control'[i].kind = "closed"
        PROVE  \E j \in DOMAIN control' : i < j /\ Opens(control'[j])
    <3>1. i \in Nat /\ i + 1 \in DOMAIN control /\ control[i + 1].kind = "closed"
      BY <1>2, <2>4
    <3>2. PICK j \in DOMAIN control : i + 1 < j /\ Opens(control[j])
      BY <2>1, <3>1
    <3>3. j - 1 \in DOMAIN control' /\ i < j - 1 /\ control'[j - 1] = control[j]
      BY <1>2, <3>1, <3>2
    <3> QED BY <3>2, <3>3
  <2>5. ASSUME \A i \in DOMAIN control' : ~Grants(control'[i])
        PROVE  names' = granted
    <3>1. \A j \in DOMAIN control : 1 < j => ~Grants(control[j])
      BY <1>2, <2>5
    <3>2. CASE Grants(Head(control))
      BY <1>2, <2>1, <3>1, <3>2 DEF Follows
    <3>3. CASE ~Grants(Head(control))
      <4>1. \A j \in DOMAIN control : ~Grants(control[j])
        <5> SUFFICES ASSUME NEW j \in DOMAIN control PROVE ~Grants(control[j])
          OBVIOUS
        <5>1. j = 1 \/ 1 < j
          BY <1>2
        <5> QED BY <1>2, <3>1, <3>3, <5>1
      <4> QED BY <2>1, <3>3, <4>1 DEF Follows
    <3> QED BY <3>2, <3>3
  <2>6. ASSUME NEW i \in DOMAIN control', Grants(control'[i]), \A j \in DOMAIN control' : i < j => ~Grants(control'[j])
        PROVE  control'[i].granted = granted
    <3>1. i \in Nat /\ i + 1 \in DOMAIN control /\ control'[i] = control[i + 1]
      BY <1>2
    <3>2. ASSUME NEW j \in DOMAIN control, i + 1 < j PROVE ~Grants(control[j])
      <4>1. j - 1 \in DOMAIN control' /\ i < j - 1 /\ control'[j - 1] = control[j]
        BY <1>2, <3>1, <3>2
      <4> QED BY <2>6, <4>1
    <3> QED BY <2>1, <2>6, <3>1, <3>2
  <2> QED BY <2>2, <2>3, <2>4, <2>5, <2>6
<1>7. Streamed'
  <2>1. stream # <<>> \/ home = "ws" => Head(control).kind \in {"frame", "closed"}
    BY <1>1, <1>2 DEF Streamed
  <2>2. stream # <<>> => names' = names
    BY <2>1 DEF Follows, Grants
  <2>3. \A i \in DOMAIN stream : stream # <<>>
    OBVIOUS
  <2>4. stream # <<>> \/ home = "ws" => \A i \in DOMAIN control' : control'[i].kind \in {"frame", "closed"}
    BY <1>1, <1>2 DEF Streamed
  <2> QED BY <1>1, <2>2, <2>3, <2>4 DEF Streamed
<1>8. GrantedBefore'
  <2>1. ASSUME NEW i \in DOMAIN control', IsFrame(control'[i]), \A j \in DOMAIN control' : j < i => ~Grants(control'[j])
        PROVE  control'[i].channel_id \in names'
    <3>1. i \in Nat /\ 1 < i + 1 /\ i + 1 \in DOMAIN control /\ control'[i] = control[i + 1]
      BY <1>2
    <3>2. ASSUME NEW j \in DOMAIN control, 1 < j, j < i + 1 PROVE ~Grants(control[j])
      <4>1. j - 1 \in DOMAIN control' /\ j - 1 < i /\ control'[j - 1] = control[j]
        BY <1>2, <3>1, <3>2
      <4> QED BY <2>1, <4>1
    <3>3. CASE Grants(Head(control))
      BY <1>1, <1>2, <2>1, <3>1, <3>2, <3>3 DEF GrantedBefore, Follows
    <3>4. CASE ~Grants(Head(control))
      <4>1. \A j \in DOMAIN control : j < i + 1 => ~Grants(control[j])
        <5> SUFFICES ASSUME NEW j \in DOMAIN control, j < i + 1 PROVE ~Grants(control[j])
          OBVIOUS
        <5>1. j = 1 \/ 1 < j
          BY <1>2
        <5> QED BY <1>2, <3>2, <3>4, <5>1
      <4> QED BY <1>1, <2>1, <3>1, <3>4, <4>1 DEF GrantedBefore, Follows
    <3> QED BY <3>3, <3>4
  <2>2. ASSUME NEW i \in DOMAIN control', IsFrame(control'[i]), NEW j \in DOMAIN control', j < i, Grants(control'[j]),
               \A k \in DOMAIN control' : j < k /\ k < i => ~Grants(control'[k])
        PROVE  control'[i].channel_id \in control'[j].granted
    <3>1. /\ i \in Nat /\ i + 1 \in DOMAIN control /\ control'[i] = control[i + 1]
          /\ j \in Nat /\ j + 1 \in DOMAIN control /\ control'[j] = control[j + 1] /\ j + 1 < i + 1
      BY <1>2, <2>2
    <3>2. ASSUME NEW k \in DOMAIN control, j + 1 < k, k < i + 1 PROVE ~Grants(control[k])
      <4>1. k - 1 \in DOMAIN control' /\ j < k - 1 /\ k - 1 < i /\ control'[k - 1] = control[k]
        BY <1>2, <3>1, <3>2
      <4> QED BY <2>2, <4>1
    <3> QED BY <1>1, <2>2, <3>1, <3>2 DEF GrantedBefore
  <2> QED BY <2>1, <2>2 DEF GrantedBefore
<1>9. InOrder'
  <2> SUFFICES ASSUME NEW i \in DOMAIN control', IsFrame(control'[i]), NEW j \in DOMAIN control', i < j,
               IsFrame(control'[j]), control'[j].channel_id = control'[i].channel_id,
               \A k \in DOMAIN control' : i < k /\ k < j => ~Opens(control'[k])
      PROVE  control'[i].seq < control'[j].seq
    BY DEF InOrder
  <2>1. /\ i \in Nat /\ i + 1 \in DOMAIN control /\ control'[i] = control[i + 1]
        /\ j \in Nat /\ j + 1 \in DOMAIN control /\ control'[j] = control[j + 1] /\ i + 1 < j + 1
    BY <1>2
  <2>2. ASSUME NEW k \in DOMAIN control, i + 1 < k, k < j + 1 PROVE ~Opens(control[k])
    <3>1. k - 1 \in DOMAIN control' /\ i < k - 1 /\ k - 1 < j /\ control'[k - 1] = control[k]
      BY <1>2, <2>1, <2>2
    <3> QED BY <3>1
  <2> QED BY <1>1, <2>1, <2>2 DEF Ordered
<1> QED BY <1>4, <1>5, <1>6, <1>7, <1>8, <1>9

\* A message that is no frame: the channels start again, or are as they were.
LEMMA OtherKeeps ==
  ASSUME IInv, Follows, ~IsFrame(Head(control)), UNCHANGED accused,
         \/ \A c \in ChannelIds : StatsOf(c)'.last_seq = None
         \/ ~Restarts(Head(control)) /\ UNCHANGED stats,
         Opens(Head(control)) \/ UNCHANGED got,
         resumed' \in Nat, resumed' <= resumed + (IF Head(control).kind = "resumed" THEN 1 ELSE 0)
  PROVE  Down' /\ Resuming' /\ Ordered' /\ Below' /\ Newest' /\ NoFalseAccusation'
<1>1. /\ Typed /\ Down /\ Numbered /\ Resuming /\ Ordered /\ Below /\ Newest /\ Receives /\ NoFalseAccusation
      /\ UNCHANGED <<connected, stream, session, granted, sent, home, dropped, sessions, subscriptions, losses>>
  BY DEF IInv, Follows, Receives
<1>2. /\ connected /\ Head(control) \in MessageSet
      /\ 1 \in DOMAIN control /\ control[1] = Head(control)
      /\ \A i \in DOMAIN control' : i \in Nat /\ i > 0 /\ i + 1 \in Nat /\ i + 1 \in DOMAIN control /\ control'[i] = control[i + 1]
      /\ \A i \in DOMAIN control : i \in Nat /\ i > 0 /\ (i > 1 => i - 1 \in DOMAIN control' /\ control'[i - 1] = control[i])
  BY <1>1, Receiving
<1>3. /\ NoneOpens <=> NoneOpens' /\ ~Opens(Head(control))
      /\ \A i \in DOMAIN control' : OfSession(i)' <=> OfSession(i + 1)
      /\ \A i \in DOMAIN control : OfSession(i) /\ i > 1 => OfSession(i - 1)'
  BY <1>1, Remaining
<1>4. Down' /\ NoFalseAccusation'
  BY <1>1, <1>2 DEF Down, NoFalseAccusation
<1>5. Resuming'
  <2>1. \A i \in DOMAIN control' : control'[i].kind # "resumed"
    <3> SUFFICES ASSUME NEW i \in DOMAIN control', control'[i].kind = "resumed" PROVE FALSE
      OBVIOUS
    <3>1. i + 1 \in DOMAIN control /\ Resumes(i + 1) /\ i + 1 # 1
      BY <1>2 DEF Resumes
    <3> QED BY <1>1, <3>1 DEF Resuming
  <2>2. resumed + (IF Head(control).kind = "resumed" THEN 1 ELSE 0) <= losses
    <3>1. Head(control).kind = "resumed" => \E i \in DOMAIN control : Resumes(i)
      BY <1>2 DEF Resumes
    <3>2. resumed \in Nat /\ losses \in Nat
      BY <1>1, ChannelsAssumption DEF Typed
    <3> QED BY <1>1, <1>2, <3>1, <3>2 DEF Resuming
  <2>3. resumed \in Nat /\ losses \in Nat /\ losses' = losses /\ connected'
    BY <1>1, <1>2, ChannelsAssumption DEF Typed
  <2>4. resumed' <= losses
    BY <2>2, <2>3
  <2>5. (\A i \in DOMAIN control : ~Resumes(i))'
    BY <2>1 DEF Resumes
  <2>6. \A n \in Nat : n + 0 + 0 = n
    OBVIOUS
  <2> QED BY <2>3, <2>4, <2>5, <2>6 DEF Resuming
<1>6. (\A i \in DOMAIN stream :
           /\ Beyond(StatsOf(stream[i].channel_id), stream[i], "ws")
           /\ \A j \in DOMAIN stream :
                i < j /\ stream[j].channel_id = stream[i].channel_id => stream[i].seq < stream[j].seq)'
  <2>1. \A i \in DOMAIN stream : stream[i].channel_id \in ChannelIds
    BY <1>1, Parts DEF FrameSet
  <2>2. CASE \A c \in ChannelIds : StatsOf(c)'.last_seq = None
    BY <1>1, <2>1, <2>2 DEF Ordered, Beyond
  <2>3. CASE UNCHANGED stats
    BY <1>1, <2>3 DEF Ordered, StatsOf
  <2> QED BY <2>2, <2>3
<1>7. ASSUME NEW i \in DOMAIN control', IsFrame(control'[i]), \A j \in DOMAIN control' : j < i => ~Restarts(control'[j])
      PROVE  Beyond(StatsOf(control[i].channel_id), control[i], "inline")'
  <2>1. /\ i \in Nat /\ i + 1 \in DOMAIN control /\ control'[i] = control[i + 1]
        /\ control'[i].channel_id \in ChannelIds
    <3>1. i \in Nat /\ i + 1 \in DOMAIN control /\ control'[i] = control[i + 1]
      BY <1>2
    <3>2. control[i + 1] \in FrameSet
      BY <1>1, <1>7, <3>1, MessageIs, Parts
    <3> QED BY <3>1, <3>2 DEF FrameSet
  <2>2. CASE \A c \in ChannelIds : StatsOf(c)'.last_seq = None
    BY <2>1, <2>2 DEF Beyond
  <2>3. CASE ~Restarts(Head(control)) /\ UNCHANGED stats
    <3>1. ASSUME NEW j \in DOMAIN control, j < i + 1 PROVE ~Restarts(control[j])
      <4>1. j = 1 \/ (j - 1 \in DOMAIN control' /\ j - 1 < i /\ control'[j - 1] = control[j])
        BY <1>2, <2>1, <3>1
      <4> QED BY <1>2, <1>7, <2>3, <4>1
    <3>2. Beyond(StatsOf(control[i + 1].channel_id), control[i + 1], "inline")
      BY <1>1, <1>7, <2>1, <3>1 DEF Ordered
    <3> QED BY <2>1, <2>3, <3>2 DEF StatsOf
  <2> QED BY <2>2, <2>3
<1>8. Ordered'
  <2>1. InOrder'
    BY FollowsKeeps
  <2> QED BY <1>6, <1>7, <2>1 DEF Ordered, InOrder
<1>9. Current' <=> Current
  BY <1>1, <1>2 DEF Current
<1>10. Below'
  <2> SUFFICES ASSUME Current
      PROVE /\ NoneOpens' => \A c \in ChannelIds : StatsOf(c)'.last_seq # None => StatsOf(c)'.last_seq <= sent[c]
            /\ \A i \in DOMAIN control' : OfSession(i)' =>
                 control'[i].seq <= sent[control'[i].channel_id] /\ control'[i].session = session
            /\ \A i \in DOMAIN stream : stream[i].seq <= sent[stream[i].channel_id] /\ stream[i].session = session
    BY <1>1, <1>9 DEF Below
  <2>1. CASE \A c \in ChannelIds : StatsOf(c)'.last_seq = None
    BY <1>1, <1>2, <1>3, <2>1 DEF Below
  <2>2. CASE ~Restarts(Head(control)) /\ UNCHANGED stats
    <3>1. ~Opens(Head(control)) /\ \A c \in ChannelIds : StatsOf(c)' = StatsOf(c)
      BY <2>2 DEF Opens, Restarts, StatsOf
    <3> QED BY <1>1, <1>2, <1>3, <3>1 DEF Below
  <2> QED BY <2>1, <2>2
<1>11. Newest'
  <2> SUFFICES ASSUME Current, NEW c \in ChannelIds, sent[c] > dropped[c]
      PROVE \/ NoneOpens' /\ \E f \in got'[c] : f.seq = sent[c]
            \/ \E i \in DOMAIN control' : OfSession(i)' /\ control'[i].channel_id = c /\ control'[i].seq = sent[c]
            \/ \E i \in DOMAIN stream : stream[i].channel_id = c /\ stream[i].seq = sent[c]
    BY <1>1, <1>9 DEF Newest
  <2>1. CASE NoneOpens /\ \E f \in got[c] : f.seq = sent[c]
    BY <1>3, <2>1
  <2>2. CASE \E i \in DOMAIN control : OfSession(i) /\ control[i].channel_id = c /\ control[i].seq = sent[c]
    <3>1. PICK i \in DOMAIN control : OfSession(i) /\ control[i].channel_id = c /\ control[i].seq = sent[c]
      BY <2>2
    <3>2. i # 1
      BY <1>2, <3>1 DEF OfSession
    <3>3. i > 1 /\ i - 1 \in DOMAIN control' /\ control'[i - 1] = control[i]
      BY <1>2, <3>1, <3>2
    <3> QED BY <1>3, <3>1, <3>3
  <2> QED BY <1>1, <2>1, <2>2 DEF Newest
<1> QED BY <1>4, <1>5, <1>8, <1>10, <1>11

\* Nothing is left of a session.
LEMMA EndSessionBooks ==
  ASSUME Typed, EndSession
  PROVE  /\ Books' /\ \A c \in ChannelIds : StatsOf(c)' = NewStats
         /\ stats' \in [ChannelIds -> Stats \union {None}] /\ reported' \in [ChannelIds -> [frames : Nat, gaps : Nat]]
         /\ got' = [c \in ChannelIds |-> got'[c]] /\ \A c \in ChannelIds : got'[c] = {}
         /\ resumed' = 0 /\ NewStats.last_seq = None
<1>1. /\ stats' = [c \in ChannelIds |-> None] /\ got' = [c \in ChannelIds |-> {}] /\ resumed' = 0
      /\ reported' = [c \in ChannelIds |-> [frames |-> 0, gaps |-> 0]]
  BY DEF EndSession, ClearStats
<1>2. \A c \in ChannelIds : StatsOf(c)' = NewStats
  BY <1>1 DEF StatsOf
<1>3. Books'
  BY <1>1, <1>2, BookedNone DEF Books
<1> QED BY <1>1, <1>2, <1>3 DEF NewStats

\* A session is opened: nothing is left of the last one.
LEMMA ReceiveOpenResultInv == ASSUME IInv, ReceiveOpenResult PROVE IInv'
<1>1. /\ control # <<>> /\ Head(control).kind = "opened" /\ control' = Tail(control) /\ EndSession
      /\ ready' = Head(control).session /\ names' = Head(control).granted
      /\ UNCHANGED <<accused, connected, streaming, stream, session, granted, sent, home, dropped>>
      /\ UNCHANGED <<sessions, subscriptions, losses>>
  BY DEF ReceiveOpenResult, Take, world, counts
<1>2. Typed /\ Down /\ Receives
  BY <1>1 DEF IInv, Receives
<1>3. Opens(Head(control)) /\ Grants(Head(control)) /\ ~IsFrame(Head(control)) /\ Restarts(Head(control))
  BY <1>1 DEF Opens, Grants, IsFrame, Restarts
<1>4. Follows
  BY <1>1, <1>2, <1>3 DEF Follows
<1>5. /\ Books' /\ \A c \in ChannelIds : StatsOf(c)' = NewStats
      /\ stats' \in [ChannelIds -> Stats \union {None}] /\ reported' \in [ChannelIds -> [frames : Nat, gaps : Nat]]
      /\ got' = [c \in ChannelIds |-> got'[c]] /\ \A c \in ChannelIds : got'[c] = {}
      /\ resumed' = 0 /\ NewStats.last_seq = None
  BY <1>1, <1>2, EndSessionBooks
<1>6. Numbered' /\ Unknowing' /\ View' /\ Streamed' /\ GrantedBefore'
  BY <1>4, FollowsKeeps
<1>7. Down' /\ Resuming' /\ Ordered' /\ Below' /\ Newest' /\ NoFalseAccusation'
  <2>1. \A c \in ChannelIds : StatsOf(c)'.last_seq = None
    BY <1>5
  <2>2. resumed' \in Nat /\ resumed' <= resumed + (IF Head(control).kind = "resumed" THEN 1 ELSE 0)
    BY <1>2, <1>5 DEF Typed
  <2> QED BY <1>1, <1>3, <1>4, <2>1, <2>2, OtherKeeps
<1>8. Typed'
  <2>1. Head(control).session \in 1..MaxSessions /\ Head(control).granted \in SUBSET ChannelIds /\ control' \in Seq(MessageSet)
    BY <1>2, <1>3, Receiving, MessageIs
  <2> QED BY <1>1, <1>2, <1>5, <2>1 DEF Typed, TypeOK
<1> QED BY <1>5, <1>6, <1>7, <1>8 DEF IInv

\* The session is resumed: the channels start again, and their books go on.
LEMMA ReceiveResumeResultInv == ASSUME IInv, ReceiveResumeResult PROVE IInv'
<1>1. /\ control # <<>> /\ Head(control).kind = "resumed" /\ control' = Tail(control)
      /\ ready' = Head(control).session /\ names' = Head(control).granted
      /\ stats' = [c \in ChannelIds |-> IF stats[c] = None THEN None ELSE Restarted(stats[c])]
      /\ resumed' = resumed + 1
      /\ UNCHANGED <<accused, reported, got, connected, streaming, stream, session, granted, sent, home, dropped>>
      /\ UNCHANGED <<sessions, subscriptions, losses>>
  BY DEF ReceiveResumeResult, Take, world, counts
<1>2. Typed /\ Down /\ Receives /\ Resuming /\ Books
  BY <1>1 DEF IInv, Receives
<1>3. ~Opens(Head(control)) /\ Grants(Head(control)) /\ ~IsFrame(Head(control)) /\ Restarts(Head(control))
  BY <1>1 DEF Opens, Grants, IsFrame, Restarts
<1>4. ready' = ready
  <2>1. 1 \in DOMAIN control /\ control[1] = Head(control)
    BY <1>2, Receiving
  <2> QED BY <1>1, <1>2, <2>1 DEF Resuming, Resumes
<1>5. Follows
  BY <1>1, <1>2, <1>3, <1>4 DEF Follows
<1>6. /\ stats \in [ChannelIds -> Stats \union {None}] /\ resumed \in Nat
      /\ \A c \in ChannelIds : StatsOf(c) \in Stats
      /\ \A c \in ChannelIds : got[c] \in SUBSET TakenSet
  <2>1. MaxLosses \in Nat /\ resumed \in Nat /\ \A c \in ChannelIds : StatsOf(c) \in Stats
    BY <1>2, Parts, ChannelsAssumption DEF Typed
  <2>2. stats \in [ChannelIds -> Stats \union {None}]
    BY <1>2 DEF Typed, TypeOK
  <2>3. \A c \in ChannelIds : got[c] \subseteq [part : 0..MaxLosses, seq : 1..MaxSeq, resync : BOOLEAN]
    BY <1>2 DEF Typed, TypeOK
  <2>4. \A c \in ChannelIds : got[c] \in SUBSET TakenSet
    BY <2>1, <2>3 DEF TakenSet
  <2> QED BY <2>1, <2>2, <2>4
<1>7. \A st \in Stats : Restarted(st) \in Stats /\ Restarted(st).last_seq = None
  BY DEF Restarted, Stats
<1>8. NewStats \in Stats /\ Restarted(NewStats) = NewStats
  <2>1. NewStats \in Stats /\ NewStats.last_seq = None
    BY DEF NewStats, Stats, Bindings
  <2>2. \A st \in Stats : st.last_seq = None => Restarted(st) = st
    BY DEF Restarted, Stats
  <2> QED BY <2>1, <2>2
<1>9. \A c \in ChannelIds : StatsOf(c)' = Restarted(StatsOf(c))
  <2> SUFFICES ASSUME NEW c \in ChannelIds PROVE StatsOf(c)' = Restarted(StatsOf(c))
    OBVIOUS
  <2>1. CASE stats[c] = None
    BY <1>1, <1>8, <2>1 DEF StatsOf
  <2>2. CASE stats[c] # None
    <3>1. Restarted(stats[c]) # None
      BY <1>6, <1>7, <2>2, NoneAssumption
    <3> QED BY <1>1, <2>2, <3>1 DEF StatsOf
  <2> QED BY <2>1, <2>2
<1>10. Numbered' /\ Unknowing' /\ View' /\ Streamed' /\ GrantedBefore'
  BY <1>5, FollowsKeeps
<1>11. Down' /\ Resuming' /\ Ordered' /\ Below' /\ Newest' /\ NoFalseAccusation'
  <2>1. \A c \in ChannelIds : StatsOf(c)'.last_seq = None
    BY <1>6, <1>7, <1>9
  <2>2. resumed' \in Nat /\ resumed' <= resumed + (IF Head(control).kind = "resumed" THEN 1 ELSE 0)
    BY <1>1, <1>6
  <2> QED BY <1>1, <1>3, <1>5, <2>1, <2>2, OtherKeeps
<1>12. Typed'
  <2>1. Head(control).session \in 1..MaxSessions /\ Head(control).granted \in SUBSET ChannelIds /\ control' \in Seq(MessageSet)
    BY <1>2, <1>3, Receiving, MessageIs
  <2>2. stats' \in [ChannelIds -> Stats \union {None}]
    BY <1>1, <1>6, <1>7
  <2>3. resumed' \in Nat
    BY <1>1, <1>6
  <2> QED BY <1>1, <1>2, <2>1, <2>2, <2>3 DEF Typed, TypeOK
<1>13. Books'
  <2> SUFFICES ASSUME NEW c \in ChannelIds PROVE Booked(StatsOf(c), got[c], reported[c], resumed)'
    BY DEF Books
  <2>1. Booked(StatsOf(c), got[c], reported[c], resumed) /\ StatsOf(c) \in Stats /\ got[c] \in SUBSET TakenSet
    BY <1>2, <1>6 DEF Books
  <2>2. Booked(Restarted(StatsOf(c)), got[c], reported[c], resumed + 1)
    BY <1>6, <2>1, BookedResume
  <2> QED BY <1>1, <1>9, <2>2
<1> QED BY <1>10, <1>11, <1>12, <1>13 DEF IInv

\* The world does not know the session: nothing is left of it, and nothing is under way.
LEMMA ReceiveResumeErrorInv == ASSUME IInv, ReceiveResumeError PROVE IInv'
<1>1. /\ control # <<>> /\ Head(control).kind = "unknown" /\ control' = Tail(control) /\ EndSession
      /\ ready' = None /\ names' = {}
      /\ UNCHANGED <<accused, connected, streaming, stream, session, granted, sent, home, dropped>>
      /\ UNCHANGED <<sessions, subscriptions, losses>>
  BY DEF ReceiveResumeError, Take, world, counts
<1>2. Typed /\ Down /\ Receives /\ Unknowing /\ NoFalseAccusation /\ Numbered
  BY <1>1 DEF IInv, Receives
<1>3. /\ connected /\ control' \in Seq(MessageSet) /\ 1 \in DOMAIN control /\ control[1] = Head(control)
      /\ \A i \in DOMAIN control' : i \in Nat /\ i > 0 /\ i + 1 \in Nat /\ i + 1 \in DOMAIN control
  BY <1>2, Receiving
<1>4. session = None /\ stream = <<>> /\ home = "inline" /\ \A j \in DOMAIN control : j = 1
  BY <1>1, <1>2, <1>3 DEF Unknowing
<1>5. DOMAIN control' = {}
  <2> SUFFICES ASSUME NEW i \in DOMAIN control' PROVE FALSE
    OBVIOUS
  <2>1. i + 1 \in DOMAIN control /\ i + 1 # 1
    BY <1>3
  <2> QED BY <1>4, <2>1
<1>6. /\ Books'
      /\ stats' \in [ChannelIds -> Stats \union {None}] /\ reported' \in [ChannelIds -> [frames : Nat, gaps : Nat]]
      /\ got' = [c \in ChannelIds |-> got'[c]] /\ \A c \in ChannelIds : got'[c] = {}
      /\ resumed' = 0
  BY <1>1, <1>2, EndSessionBooks
<1>7. Typed'
  BY <1>1, <1>2, <1>3, <1>6 DEF Typed, TypeOK
<1>8. Down' /\ Numbered' /\ Unknowing' /\ View' /\ Streamed' /\ GrantedBefore'
  BY <1>1, <1>3, <1>4, <1>5 DEF Down, Numbered, Unknowing, View, Streamed, GrantedBefore
<1>9. Resuming'
  <2>1. losses' \in Nat /\ resumed' = 0 /\ connected'
    BY <1>1, <1>2, <1>3, <1>6, ChannelsAssumption DEF Typed
  <2>2. (\A i \in DOMAIN control : ~Resumes(i))' /\ resumed' + 0 + 0 <= losses'
    BY <1>5, <2>1
  <2> QED BY <2>1, <2>2 DEF Resuming
<1>10. Ordered' /\ Below' /\ Newest' /\ NoFalseAccusation'
  BY <1>1, <1>2, <1>4, <1>5 DEF Ordered, Below, Newest, NoFalseAccusation, Current
<1> QED BY <1>6, <1>7, <1>8, <1>9, <1>10 DEF IInv

\* The channels change.
LEMMA ReceiveGrantsInv == ASSUME IInv, ReceiveGrants PROVE IInv'
<1>1. /\ control # <<>> /\ Head(control).kind = "grants" /\ control' = Tail(control)
      /\ names' = Head(control).granted
      /\ UNCHANGED <<ready, stats, reported, got, resumed>>
      /\ UNCHANGED <<accused, connected, streaming, stream, session, granted, sent, home, dropped>>
      /\ UNCHANGED <<sessions, subscriptions, losses>>
  BY DEF ReceiveGrants, Take, world, counts
<1>2. Typed /\ Down /\ Receives /\ Books
  BY <1>1 DEF IInv, Receives
<1>3. ~Opens(Head(control)) /\ Grants(Head(control)) /\ ~IsFrame(Head(control)) /\ ~Restarts(Head(control))
  BY <1>1 DEF Opens, Grants, IsFrame, Restarts
<1>4. Follows
  BY <1>1, <1>2, <1>3 DEF Follows
<1>5. Numbered' /\ Unknowing' /\ View' /\ Streamed' /\ GrantedBefore'
  BY <1>4, FollowsKeeps
<1>6. Down' /\ Resuming' /\ Ordered' /\ Below' /\ Newest' /\ NoFalseAccusation'
  <2>1. resumed' \in Nat /\ resumed' <= resumed + (IF Head(control).kind = "resumed" THEN 1 ELSE 0)
    BY <1>1, <1>2 DEF Typed
  <2> QED BY <1>1, <1>3, <1>4, <2>1, OtherKeeps
<1>7. Typed'
  <2>1. Head(control).granted \in SUBSET ChannelIds /\ control' \in Seq(MessageSet)
    BY <1>2, <1>3, Receiving, MessageIs
  <2> QED BY <1>1, <1>2, <2>1 DEF Typed, TypeOK
<1>8. Books'
  BY <1>1, <1>2 DEF Books, StatsOf
<1> QED BY <1>5, <1>6, <1>7, <1>8 DEF IInv

\* The session is closed: the channels stay.
LEMMA ReceiveClosedInv == ASSUME IInv, ReceiveClosed PROVE IInv'
<1>1. /\ control # <<>> /\ Head(control).kind = "closed" /\ control' = Tail(control)
      /\ ready' = None
      /\ UNCHANGED <<names, stats, reported, got, resumed>>
      /\ UNCHANGED <<accused, connected, streaming, stream, session, granted, sent, home, dropped>>
      /\ UNCHANGED <<sessions, subscriptions, losses>>
  BY DEF ReceiveClosed, Take, world, counts
<1>2. Typed /\ Down /\ Receives /\ Books
  BY <1>1 DEF IInv, Receives
<1>3. ~Opens(Head(control)) /\ ~Grants(Head(control)) /\ ~IsFrame(Head(control)) /\ ~Restarts(Head(control))
  BY <1>1 DEF Opens, Grants, IsFrame, Restarts
<1>4. Follows
  BY <1>1, <1>2, <1>3 DEF Follows
<1>5. Numbered' /\ Unknowing' /\ View' /\ Streamed' /\ GrantedBefore'
  BY <1>4, FollowsKeeps
<1>6. Down' /\ Resuming' /\ Ordered' /\ Below' /\ Newest' /\ NoFalseAccusation'
  <2>1. resumed' \in Nat /\ resumed' <= resumed + (IF Head(control).kind = "resumed" THEN 1 ELSE 0)
    BY <1>1, <1>2 DEF Typed
  <2> QED BY <1>1, <1>3, <1>4, <2>1, OtherKeeps
<1>7. Typed'
  <2>1. control' \in Seq(MessageSet)
    BY <1>2, Receiving
  <2> QED BY <1>1, <1>2, <2>1 DEF Typed, TypeOK
<1>8. Books'
  BY <1>1, <1>2 DEF Books, StatsOf
<1> QED BY <1>5, <1>6, <1>7, <1>8 DEF IInv

-----------------------------------------------------------------------------
(* Frames taken                                                            *)

\* Resumptions are bounded by losses.
LEMMA ResumedBound == ASSUME Typed, Resuming PROVE resumed <= MaxLosses
<1>1. resumed \in Nat /\ losses \in 0..MaxLosses /\ MaxLosses \in Nat
  BY ChannelsAssumption DEF Typed
<1>2. resumed + (IF \E i \in DOMAIN control : Resumes(i) THEN 1 ELSE 0) + (IF connected THEN 0 ELSE 1) <= losses
  BY DEF Resuming
<1> DEFINE p == IF \E i \in DOMAIN control : Resumes(i) THEN 1 ELSE 0
           q == IF connected THEN 0 ELSE 1
<1>3. p \in Nat /\ q \in Nat /\ resumed + p + q <= losses
  BY <1>2
<1> HIDE DEF p, q
<1> QED BY <1>1, <1>3

\* A frame in its order on the control connection is no violation.
LEMMA ReceiveInlineInv == ASSUME IInv, ReceiveInline PROVE IInv'
<1>0. PICK f : f = Head(control)
  OBVIOUS
<1> DEFINE d == f.channel_id
<1>1. /\ control # <<>> /\ f.kind = "frame" /\ TakeFrame(f, "inline") /\ control' = Tail(control)
      /\ UNCHANGED <<ready, names, reported, resumed, connected, streaming, stream>>
      /\ UNCHANGED <<session, granted, sent, home, dropped, sessions, subscriptions, losses>>
  BY <1>0 DEF ReceiveInline, world, counts
<1>2. /\ Typed /\ Down /\ Receives /\ Resuming /\ Books /\ GrantedBefore /\ Ordered /\ Below /\ Newest
      /\ NoFalseAccusation
  BY <1>1 DEF IInv, Receives
<1>3. ~Opens(f) /\ ~Grants(f) /\ IsFrame(f) /\ ~Restarts(f)
  BY <1>1 DEF Opens, Grants, IsFrame, Restarts
<1>4. /\ connected /\ control' \in Seq(MessageSet) /\ f \in MessageSet
      /\ 1 \in DOMAIN control /\ control[1] = f
      /\ \A i \in DOMAIN control' : i \in Nat /\ i > 0 /\ i + 1 \in Nat /\ i + 1 \in DOMAIN control /\ control'[i] = control[i + 1]
      /\ \A i \in DOMAIN control : i \in Nat /\ i > 0 /\ (i > 1 => i - 1 \in DOMAIN control' /\ control'[i - 1] = control[i])
  BY <1>0, <1>2, Receiving
<1>5. /\ NoneOpens <=> NoneOpens' /\ ~Opens(f)
      /\ \A i \in DOMAIN control' : OfSession(i)' <=> OfSession(i + 1)
      /\ \A i \in DOMAIN control : OfSession(i) /\ i > 1 => OfSession(i - 1)'
  BY <1>0, <1>2, Remaining
<1>6. f \in FrameSet
  BY <1>3, <1>4, MessageIs
<1>7. d \in ChannelIds /\ f.seq \in Nat
  BY <1>6, ChannelsAssumption DEF FrameSet
<1>8. d \in names
  BY <1>2, <1>3, <1>4 DEF GrantedBefore
<1>9. Beyond(StatsOf(d), f, "inline")
  BY <1>2, <1>3, <1>4 DEF Ordered
<1>10. /\ accused' = accused
       /\ stats' \in [ChannelIds -> Stats \union {None}]
       /\ got' = [c \in ChannelIds |-> got'[c]]
       /\ \A c \in ChannelIds : got'[c] \subseteq [part : 0..MaxLosses, seq : 1..MaxSeq, resync : BOOLEAN]
       /\ \A c \in ChannelIds : c # d => Untouched(c)
       /\ \/ /\ StatsOf(d).last_seq # None /\ f.seq <= StatsOf(d).last_seq
             /\ Untouched(d)
          \/ /\ StatsOf(d)'.last_seq = f.seq /\ StatsOf(d)'.binding = "inline"
             /\ got[d] \subseteq got'[d]
             /\ \E h \in got'[d] : h.seq = f.seq
       /\ Books'
  <2>1. resumed <= MaxLosses /\ "inline" \in Bindings /\ UNCHANGED <<reported, resumed>>
    BY <1>1, <1>2, ResumedBound DEF Bindings
  <2> QED BY <1>1, <1>2, <1>6, <1>8, <1>9, <2>1, TakesFrame
<1>11. Follows
  BY <1>0, <1>1, <1>2, <1>3 DEF Follows
<1>12. Numbered' /\ Unknowing' /\ View' /\ Streamed' /\ GrantedBefore' /\ InOrder'
  BY <1>11, FollowsKeeps
<1>13. Typed' /\ Down' /\ NoFalseAccusation'
  BY <1>1, <1>2, <1>4, <1>10 DEF Typed, TypeOK, Down, NoFalseAccusation
<1>14. Resuming'
  <2>1. \A i \in DOMAIN control : ~Resumes(i)
    BY <1>1, <1>2, <1>4 DEF Resuming, Resumes
  <2>2. (\A i \in DOMAIN control : ~Resumes(i))'
    BY <1>4, <2>1 DEF Resumes
  <2> QED BY <1>1, <1>2, <2>1, <2>2 DEF Resuming
<1>15. ASSUME NEW i \in DOMAIN control', IsFrame(control'[i]), \A j \in DOMAIN control' : j < i => ~Restarts(control'[j])
       PROVE  Beyond(StatsOf(control[i].channel_id), control[i], "inline")'
  <2>1. /\ i \in Nat /\ 1 < i + 1 /\ i + 1 \in DOMAIN control /\ control'[i] = control[i + 1]
        /\ control'[i].channel_id \in ChannelIds
    <3>1. i \in Nat /\ 1 < i + 1 /\ i + 1 \in DOMAIN control /\ control'[i] = control[i + 1]
      BY <1>4
    <3>2. control[i + 1] \in FrameSet
      BY <1>2, <1>15, <3>1, MessageIs, Parts
    <3> QED BY <3>1, <3>2 DEF FrameSet
  <2>2. ASSUME NEW j \in DOMAIN control, j < i + 1 PROVE ~Restarts(control[j])
    <3>1. j = 1 \/ (j - 1 \in DOMAIN control' /\ j - 1 < i /\ control'[j - 1] = control[j])
      BY <1>4, <2>1, <2>2
    <3> QED BY <1>3, <1>4, <1>15, <3>1
  <2>3. Beyond(StatsOf(control[i + 1].channel_id), control[i + 1], "inline")
    BY <1>2, <1>15, <2>1, <2>2 DEF Ordered
  <2> PICK c \in ChannelIds : c = control'[i].channel_id
    BY <2>1
  <2>4. CASE Untouched(c)
    BY <2>1, <2>3, <2>4 DEF Untouched, Beyond
  <2>5. CASE ~Untouched(c)
    <3>1. control'[i].channel_id = d /\ StatsOf(d)'.last_seq = f.seq
      BY <1>10, <2>1, <2>5
    <3>2. \A k \in DOMAIN control : 1 < k /\ k < i + 1 => ~Opens(control[k])
      BY <2>2 DEF Opens, Restarts
    <3>3. f.seq < control[i + 1].seq
      BY <1>2, <1>3, <1>4, <1>15, <2>1, <3>1, <3>2 DEF Ordered
    <3> QED BY <2>1, <3>1, <3>3 DEF Beyond
  <2> QED BY <2>4, <2>5
<1>16. (\A i \in DOMAIN stream :
           /\ Beyond(StatsOf(stream[i].channel_id), stream[i], "ws")
           /\ \A j \in DOMAIN stream :
                i < j /\ stream[j].channel_id = stream[i].channel_id => stream[i].seq < stream[j].seq)'
  <2>1. ASSUME NEW i \in DOMAIN stream PROVE Beyond(StatsOf(stream[i].channel_id), stream[i], "ws")'
    <3>1. Beyond(StatsOf(stream[i].channel_id), stream[i], "ws") /\ stream[i].channel_id \in ChannelIds
      BY <1>2, Parts DEF Ordered, FrameSet
    <3> PICK c \in ChannelIds : c = stream[i].channel_id
      BY <3>1
    <3>2. CASE Untouched(c)
      BY <1>1, <3>1, <3>2 DEF Untouched, Beyond
    <3>3. CASE ~Untouched(c)
      <4>1. stream[i].channel_id = d /\ StatsOf(d)'.binding = "inline"
        BY <1>10, <3>1, <3>3
      <4> QED BY <1>1, <4>1 DEF Beyond
    <3> QED BY <3>2, <3>3
  <2> QED BY <1>1, <1>2, <2>1 DEF Ordered
<1>17. Ordered'
  BY <1>12, <1>15, <1>16 DEF Ordered, InOrder
<1>18. Current' <=> Current
  BY <1>1 DEF Current
<1>19. NoneOpens => OfSession(1)
  BY <1>3, <1>4 DEF NoneOpens, OfSession
<1>20. Below'
  <2> SUFFICES ASSUME Current
      PROVE /\ NoneOpens' => \A c \in ChannelIds : StatsOf(c)'.last_seq # None => StatsOf(c)'.last_seq <= sent[c]
            /\ \A i \in DOMAIN control' : OfSession(i)' =>
                 control'[i].seq <= sent[control'[i].channel_id] /\ control'[i].session = session
            /\ \A i \in DOMAIN stream : stream[i].seq <= sent[stream[i].channel_id] /\ stream[i].session = session
    BY <1>1, <1>18 DEF Below
  <2>1. ASSUME NoneOpens', NEW c \in ChannelIds, StatsOf(c)'.last_seq # None
        PROVE  StatsOf(c)'.last_seq <= sent[c]
    <3>1. NoneOpens /\ f.seq <= sent[d]
      BY <1>2, <1>3, <1>4, <1>5, <1>19, <2>1 DEF Below
    <3>2. CASE Untouched(c)
      BY <1>2, <2>1, <3>1, <3>2 DEF Below, Untouched
    <3>3. CASE ~Untouched(c)
      BY <1>10, <3>1, <3>3
    <3> QED BY <3>2, <3>3
  <2> QED BY <1>2, <1>4, <1>5, <2>1 DEF Below
<1>21. Newest'
  <2> SUFFICES ASSUME Current, NEW c \in ChannelIds, sent[c] > dropped[c]
      PROVE \/ NoneOpens' /\ \E h \in got'[c] : h.seq = sent[c]
            \/ \E i \in DOMAIN control' : OfSession(i)' /\ control'[i].channel_id = c /\ control'[i].seq = sent[c]
            \/ \E i \in DOMAIN stream : stream[i].channel_id = c /\ stream[i].seq = sent[c]
    BY <1>1, <1>18 DEF Newest
  <2>1. got[c] \subseteq got'[c]
    BY <1>10 DEF Untouched
  <2>2. CASE NoneOpens /\ \E h \in got[c] : h.seq = sent[c]
    BY <1>5, <2>1, <2>2
  <2>3. CASE \E i \in DOMAIN control : OfSession(i) /\ control[i].channel_id = c /\ control[i].seq = sent[c]
    <3>1. PICK i \in DOMAIN control : OfSession(i) /\ control[i].channel_id = c /\ control[i].seq = sent[c]
      BY <2>3
    <3>2. CASE i > 1
      <4>1. i - 1 \in DOMAIN control' /\ control'[i - 1] = control[i]
        BY <1>4, <3>2
      <4> QED BY <1>5, <3>1, <3>2, <4>1
    <3>3. CASE i = 1
      <4>1. c = d /\ f.seq = sent[c] /\ OfSession(1)
        BY <1>4, <3>1, <3>3
      <4>2. NoneOpens
        <5> SUFFICES ASSUME NEW j \in DOMAIN control PROVE ~Opens(control[j])
          BY DEF NoneOpens
        <5>1. j = 1 \/ 1 < j
          BY <1>4
        <5> QED BY <1>3, <1>4, <4>1, <5>1 DEF OfSession
      <4>3. \E h \in got'[c] : h.seq = sent[c]
        <5>1. CASE \E h \in got'[d] : h.seq = f.seq
          BY <4>1, <5>1
        <5>2. CASE StatsOf(d).last_seq # None /\ f.seq <= StatsOf(d).last_seq
          <6>1. StatsOf(d).last_seq <= sent[d] /\ StatsOf(d).last_seq \in Nat
            <7>1. StatsOf(d) \in Stats /\ MaxSeq \in Nat
              BY <1>2, <1>7, Parts
            <7>2. StatsOf(d).last_seq \in Nat
              BY <5>2, <7>1 DEF Stats
            <7>3. StatsOf(d).last_seq <= sent[d]
              BY <1>2, <1>7, <4>2, <5>2 DEF Below
            <7> QED BY <7>2, <7>3
          <6>2. StatsOf(d).last_seq = sent[d]
            BY <1>7, <4>1, <5>2, <6>1
          <6>3. \E h \in got[d] : h.seq = StatsOf(d).last_seq
            BY <1>2, <1>7, <5>2 DEF Books, Booked, Tops
          <6> QED BY <2>1, <4>1, <6>2, <6>3
        <5> QED BY <1>10, <5>1, <5>2
      <4> QED BY <1>3, <1>5, <4>2, <4>3
    <3> QED BY <1>4, <3>2, <3>3
  <2> QED BY <1>2, <2>2, <2>3 DEF Newest
<1> QED BY <1>10, <1>12, <1>13, <1>14, <1>17, <1>20, <1>21 DEF IInv

\* Nor is one in its order on the stream connection.
LEMMA ReceiveStreamInv == ASSUME IInv, ReceiveStream PROVE IInv'
<1>0. PICK f : f = Head(stream)
  OBVIOUS
<1> DEFINE d == f.channel_id
<1>1. /\ stream # <<>> /\ TakeFrame(f, "ws") /\ stream' = Tail(stream)
      /\ UNCHANGED <<ready, names, reported, resumed, connected, control, streaming>>
      /\ UNCHANGED <<session, granted, sent, home, dropped, sessions, subscriptions, losses>>
  BY <1>0 DEF ReceiveStream, world, counts
<1>2. /\ Typed /\ Down /\ Numbered /\ Resuming /\ Unknowing /\ View /\ Streamed /\ GrantedBefore
      /\ Ordered /\ Below /\ Newest /\ Books /\ NoFalseAccusation
  BY DEF IInv
<1>3. stream' \in Seq(FrameSet) /\ Shrunk(stream, stream') /\ f \in FrameSet
  BY <1>0, <1>1, <1>2, Taken DEF Typed
<1>4. /\ 1 \in DOMAIN stream /\ stream[1] = f
      /\ \A i \in DOMAIN stream' : i \in Nat /\ i > 0 /\ i + 1 \in Nat /\ i + 1 \in DOMAIN stream /\ stream'[i] = stream[i + 1]
      /\ \A i \in DOMAIN stream : i \in Nat /\ i > 0 /\ (i > 1 => i - 1 \in DOMAIN stream' /\ stream'[i - 1] = stream[i])
  BY <1>0, <1>3 DEF Shrunk
<1>5. NoneOpens
  BY <1>1, <1>2 DEF NoneOpens, Opens, Streamed
<1>6. /\ NoneOpens' /\ \A i : OfSession(i)' <=> OfSession(i)
      /\ Current' <=> Current
  BY <1>1, <1>5 DEF NoneOpens, OfSession, Current
<1>7. d \in ChannelIds /\ f.seq \in Nat
  BY <1>3, ChannelsAssumption DEF FrameSet
<1>8. d \in names /\ Beyond(StatsOf(d), f, "ws")
  BY <1>2, <1>4 DEF Streamed, Ordered
<1>9. /\ accused' = accused
      /\ stats' \in [ChannelIds -> Stats \union {None}]
      /\ got' = [c \in ChannelIds |-> got'[c]]
      /\ \A c \in ChannelIds : got'[c] \subseteq [part : 0..MaxLosses, seq : 1..MaxSeq, resync : BOOLEAN]
      /\ \A c \in ChannelIds : c # d => Untouched(c)
      /\ \/ /\ StatsOf(d).last_seq # None /\ f.seq <= StatsOf(d).last_seq
            /\ Untouched(d)
         \/ /\ StatsOf(d)'.last_seq = f.seq /\ StatsOf(d)'.binding = "ws"
            /\ got[d] \subseteq got'[d]
            /\ \E h \in got'[d] : h.seq = f.seq
      /\ Books'
  <2>1. resumed <= MaxLosses /\ "ws" \in Bindings /\ UNCHANGED <<reported, resumed>>
    BY <1>1, <1>2, ResumedBound DEF Bindings
  <2> QED BY <1>1, <1>2, <1>3, <1>8, <2>1, TakesFrame
<1>10. Typed' /\ Down' /\ NoFalseAccusation'
  BY <1>1, <1>2, <1>3, <1>9 DEF Typed, TypeOK, Down, NoFalseAccusation
<1>11. Numbered' /\ View'
  BY <1>1, <1>2 DEF Numbered, View, Opens, Grants
<1>12. Resuming' /\ GrantedBefore'
  BY <1>1, <1>2 DEF Resuming, Resumes, GrantedBefore, IsFrame, Grants
<1>13. Unknowing' /\ Streamed'
  BY <1>1, <1>2, <1>4 DEF Unknowing, Streamed
<1>14. Ordered'
  <2>1. ASSUME NEW i \in DOMAIN control, IsFrame(control[i]), \A j \in DOMAIN control : j < i => ~Restarts(control[j])
        PROVE  Beyond(StatsOf(control[i].channel_id), control[i], "inline")'
    <3>1. Beyond(StatsOf(control[i].channel_id), control[i], "inline") /\ control[i].channel_id \in ChannelIds
      BY <1>2, <2>1, MessageIs, Parts DEF Ordered, FrameSet
    <3> PICK c \in ChannelIds : c = control[i].channel_id
      BY <3>1
    <3>2. CASE Untouched(c)
      BY <1>1, <3>1, <3>2 DEF Untouched, Beyond
    <3>3. CASE ~Untouched(c)
      <4>1. c = d /\ StatsOf(c)'.binding = "ws"
        BY <1>9, <3>3
      <4> QED BY <1>1, <4>1 DEF Beyond
    <3> QED BY <3>2, <3>3
  <2>2. (\A i \in DOMAIN control : IsFrame(control[i]) =>
          /\ (\A j \in DOMAIN control : j < i => ~Restarts(control[j])) =>
               Beyond(StatsOf(control[i].channel_id), control[i], "inline")
          /\ \A j \in DOMAIN control :
               /\ i < j /\ IsFrame(control[j]) /\ control[j].channel_id = control[i].channel_id
               /\ \A k \in DOMAIN control : i < k /\ k < j => ~Opens(control[k])
               => control[i].seq < control[j].seq)'
    BY <1>1, <1>2, <2>1 DEF Ordered, Opens, Restarts, IsFrame
  <2>3. ASSUME NEW i \in DOMAIN stream'
        PROVE  Beyond(StatsOf(stream[i].channel_id), stream[i], "ws")'
    <3>1. /\ i \in Nat /\ 1 < i + 1 /\ i + 1 \in DOMAIN stream /\ stream'[i] = stream[i + 1]
          /\ stream[i + 1].channel_id \in ChannelIds
          /\ Beyond(StatsOf(stream[i + 1].channel_id), stream[i + 1], "ws")
      BY <1>2, <1>4, Parts DEF Ordered, FrameSet
    <3> PICK c \in ChannelIds : c = stream[i + 1].channel_id
      BY <3>1
    <3>2. CASE Untouched(c)
      BY <3>1, <3>2 DEF Untouched, Beyond
    <3>3. CASE ~Untouched(c)
      <4>1. c = d /\ StatsOf(c)'.last_seq = f.seq
        BY <1>9, <3>3
      <4>2. f.seq < stream[i + 1].seq
        BY <1>2, <1>4, <3>1, <4>1 DEF Ordered
      <4> QED BY <3>1, <4>1, <4>2 DEF Beyond
    <3> QED BY <3>2, <3>3
  <2>4. ASSUME NEW i \in DOMAIN stream', NEW j \in DOMAIN stream', i < j, stream'[j].channel_id = stream'[i].channel_id
        PROVE  stream'[i].seq < stream'[j].seq
    <3>1. /\ i + 1 \in DOMAIN stream /\ stream'[i] = stream[i + 1]
          /\ j + 1 \in DOMAIN stream /\ stream'[j] = stream[j + 1] /\ i + 1 < j + 1
      BY <1>4, <2>4
    <3> QED BY <1>2, <2>4, <3>1 DEF Ordered
  <2> QED BY <2>2, <2>3, <2>4 DEF Ordered
<1>15. Below'
  <2> SUFFICES ASSUME Current
      PROVE /\ \A c \in ChannelIds : StatsOf(c)'.last_seq # None => StatsOf(c)'.last_seq <= sent[c]
            /\ \A i \in DOMAIN control : OfSession(i) =>
                 control[i].seq <= sent[control[i].channel_id] /\ control[i].session = session
            /\ \A i \in DOMAIN stream' : stream'[i].seq <= sent[stream'[i].channel_id] /\ stream'[i].session = session
    BY <1>1, <1>6 DEF Below
  <2>1. ASSUME NEW c \in ChannelIds, StatsOf(c)'.last_seq # None
        PROVE  StatsOf(c)'.last_seq <= sent[c]
    <3>1. f.seq <= sent[d]
      BY <1>2, <1>4 DEF Below
    <3>2. CASE Untouched(c)
      BY <1>2, <1>5, <2>1, <3>2 DEF Below, Untouched
    <3>3. CASE ~Untouched(c)
      BY <1>9, <3>1, <3>3
    <3> QED BY <3>2, <3>3
  <2> QED BY <1>2, <1>4, <2>1 DEF Below
<1>16. Newest'
  <2> SUFFICES ASSUME Current, NEW c \in ChannelIds, sent[c] > dropped[c]
      PROVE \/ \E h \in got'[c] : h.seq = sent[c]
            \/ \E i \in DOMAIN control : OfSession(i) /\ control[i].channel_id = c /\ control[i].seq = sent[c]
            \/ \E i \in DOMAIN stream' : stream'[i].channel_id = c /\ stream'[i].seq = sent[c]
    BY <1>1, <1>6 DEF Newest
  <2>1. got[c] \subseteq got'[c]
    BY <1>9 DEF Untouched
  <2>2. CASE \E h \in got[c] : h.seq = sent[c]
    BY <2>1, <2>2
  <2>3. CASE \E i \in DOMAIN stream : stream[i].channel_id = c /\ stream[i].seq = sent[c]
    <3>1. PICK i \in DOMAIN stream : stream[i].channel_id = c /\ stream[i].seq = sent[c]
      BY <2>3
    <3>2. CASE i > 1
      BY <1>4, <3>1, <3>2
    <3>3. CASE i = 1
      <4>1. c = d /\ f.seq = sent[c]
        BY <1>4, <3>1, <3>3
      <4>2. CASE \E h \in got'[d] : h.seq = f.seq
        BY <4>1, <4>2
      <4>3. CASE StatsOf(d).last_seq # None /\ f.seq <= StatsOf(d).last_seq
        <5>1. StatsOf(d).last_seq <= sent[d] /\ StatsOf(d).last_seq \in Nat
          <6>1. StatsOf(d) \in Stats /\ MaxSeq \in Nat
            BY <1>2, <1>7, Parts
          <6>2. StatsOf(d).last_seq \in Nat
            BY <4>3, <6>1 DEF Stats
          <6>3. StatsOf(d).last_seq <= sent[d]
            BY <1>2, <1>5, <1>7, <4>3 DEF Below
          <6> QED BY <6>2, <6>3
        <5>2. StatsOf(d).last_seq = sent[d]
          BY <1>7, <4>1, <4>3, <5>1
        <5>3. \E h \in got[d] : h.seq = StatsOf(d).last_seq
          BY <1>2, <1>7, <4>3 DEF Books, Booked, Tops
        <5> QED BY <2>1, <4>1, <5>2, <5>3
      <4> QED BY <1>9, <4>2, <4>3
    <3> QED BY <1>4, <3>2, <3>3
  <2> QED BY <1>2, <2>2, <2>3 DEF Newest
<1> QED BY <1>9, <1>10, <1>11, <1>12, <1>13, <1>14, <1>15, <1>16 DEF IInv

-----------------------------------------------------------------------------
(* Connections                                                             *)

\* No sequence of numbers goes down for ever.
LEMMA Descending == IsWellFoundedOn({ss \in Nat \X Nat : ss[1] < ss[2]}, Nat)
BY NatLessThanWellFounded DEF OpToRel

\* A bounded set of numbers has a highest.
LEMMA HighestOf ==
  ASSUME NEW S, NEW m \in Nat, S \subseteq 0..m, S # {}
  PROVE  \E n \in S : \A s \in S : s <= n
<1> DEFINE R == {ss \in Nat \X Nat : ss[1] < ss[2]}
           T == {k \in Nat : m - k \in S}
<1>1. T \subseteq Nat /\ T # {}
  <2>1. PICK s : s \in S
    OBVIOUS
  <2>2. m - s \in Nat /\ m - (m - s) = s
    BY <2>1
  <2> QED BY <2>1, <2>2
<1>2. IsWellFoundedOn(R, Nat)
  BY Descending
<1> HIDE DEF R, T
<1>3. PICK k \in T : \A j \in T : <<j, k>> \notin R
  BY <1>1, <1>2, WFMin
<1>4. \A j \in T : ~(j < k)
  <2>1. \A j \in T : j \in Nat /\ k \in Nat
    BY <1>1
  <2>2. \A j, l \in Nat : j < l => <<j, l>> \in R
    BY DEF R
  <2> QED BY <1>3, <2>1, <2>2
<1>5. k \in Nat /\ m - k \in S
  BY DEF T
<1>6. ASSUME NEW s \in S PROVE s <= m - k
  <2>1. s \in Nat /\ s <= m /\ m - s \in Nat /\ m - (m - s) = s
    OBVIOUS
  <2>2. m - s \in T
    BY <2>1 DEF T
  <2> QED BY <1>4, <1>5, <2>1, <2>2
<1> QED BY <1>5, <1>6

\* What went down of a channel is the highest of what did before and of the frames that do now.
LEMMA Drops ==
  ASSUME Typed, NEW messages, \A m \in Range(messages) : m.kind = "frame" => m \in FrameSet, Drop(messages)
  PROVE  /\ dropped' \in [ChannelIds -> 0..MaxSeq]
         /\ \A c \in ChannelIds : dropped[c] <= dropped'[c]
         /\ \A m \in Range(messages) :
              m.kind = "frame" /\ m.session = session => m.seq <= dropped'[m.channel_id]
<1> DEFINE seqs(c) == {m.seq : m \in {f \in Range(messages) :
                                        f.kind = "frame" /\ f.channel_id = c /\ f.session = session}}
           all(c) == seqs(c) \union {dropped[c]}
           top(c) == CHOOSE n \in all(c) : \A s \in all(c) : s <= n
<1>1. dropped' = [c \in ChannelIds |-> top(c)]
  BY DEF Drop
<1>2. MaxSeq \in Nat /\ \A c \in ChannelIds : dropped[c] \in 0..MaxSeq
  BY Parts
<1>3. ASSUME NEW c \in ChannelIds
      PROVE  top(c) \in 0..MaxSeq /\ \A s \in all(c) : s <= top(c)
  <2>1. all(c) \subseteq 0..MaxSeq /\ all(c) # {}
    <3>1. seqs(c) \subseteq 0..MaxSeq
      BY <1>2 DEF FrameSet
    <3> QED BY <1>2, <3>1
  <2> HIDE DEF all
  <2>2. \E n \in all(c) : \A s \in all(c) : s <= n
    BY <1>2, <2>1, HighestOf
  <2>3. top(c) \in all(c) /\ \A s \in all(c) : s <= top(c)
    BY <2>2
  <2> QED BY <2>1, <2>3
<1>4. \A c \in ChannelIds : dropped[c] \in all(c)
  OBVIOUS
<1>5. \A m \in Range(messages) : m.kind = "frame" /\ m.session = session =>
        m.channel_id \in ChannelIds /\ m.seq \in all(m.channel_id)
  BY DEF FrameSet
<1> HIDE DEF top, all
<1> QED BY <1>1, <1>3, <1>4, <1>5

\* The stream connection is lost: its channels are sent in neither direction.
LEMMA LoseStreamInv == ASSUME IInv, LoseStream PROVE IInv'
<1>1. /\ losses < MaxLosses /\ losses' = losses + 1 /\ streaming' = FALSE /\ stream' = <<>> /\ Drop(stream)
      /\ home' = (IF home = "ws" THEN "down" ELSE home)
      /\ UNCHANGED <<ready, names, stats, accused, reported, got, resumed, connected, control>>
      /\ UNCHANGED <<session, granted, sent, sessions, subscriptions>>
  BY DEF LoseStream, client
<1>2. /\ Typed /\ Down /\ Numbered /\ Resuming /\ Unknowing /\ View /\ Streamed /\ GrantedBefore
      /\ Ordered /\ Below /\ Newest /\ Books /\ NoFalseAccusation
  BY DEF IInv
<1>3. /\ dropped' \in [ChannelIds -> 0..MaxSeq]
      /\ \A c \in ChannelIds : dropped[c] <= dropped'[c]
      /\ \A i \in DOMAIN stream : stream[i].session = session => stream[i].seq <= dropped'[stream[i].channel_id]
  <2>1. \A i \in DOMAIN stream : stream[i] \in Range(stream) /\ stream[i] \in FrameSet /\ stream[i].kind = "frame"
    BY <1>2, Parts DEF Range, FrameSet
  <2>2. \A m \in Range(stream) : m \in FrameSet
    BY <1>2, Parts DEF Range
  <2>3. /\ dropped' \in [ChannelIds -> 0..MaxSeq]
        /\ \A c \in ChannelIds : dropped[c] <= dropped'[c]
        /\ \A m \in Range(stream) : m.kind = "frame" /\ m.session = session => m.seq <= dropped'[m.channel_id]
    BY <1>1, <1>2, <2>2, Drops
  <2> QED BY <2>1, <2>3
<1>4. stream' \in Seq(FrameSet) /\ DOMAIN stream' = {}
  BY <1>1
<1>5. losses \in Nat /\ MaxLosses \in Nat /\ losses' \in 0..MaxLosses
  BY <1>1, <1>2, ChannelsAssumption DEF Typed
<1>6. Typed'
  BY <1>1, <1>2, <1>3, <1>4, <1>5 DEF Typed, TypeOK
<1>7. Down' /\ Numbered' /\ View'
  BY <1>1, <1>2 DEF Down, Numbered, View, Opens, Grants
<1>8. Resuming'
  <2> DEFINE pending == IF \E i \in DOMAIN control : Resumes(i) THEN 1 ELSE 0
             down == IF connected THEN 0 ELSE 1
  <2>1. pending' = pending /\ down' = down
    BY <1>1 DEF Resumes
  <2>2. resumed \in Nat /\ pending \in Nat /\ down \in Nat /\ resumed + pending + down <= losses
    BY <1>2 DEF Typed, Resuming
  <2> HIDE DEF pending, down
  <2>3. resumed' + pending' + down' <= losses'
    BY <1>1, <1>5, <2>1, <2>2
  <2>4. (\A i \in DOMAIN control : Resumes(i) => i = 1 /\ control[i].session = ready)'
    BY <1>1, <1>2 DEF Resuming, Resumes
  <2> QED BY <2>3, <2>4 DEF Resuming, pending, down
<1>9. Unknowing' /\ Streamed' /\ GrantedBefore'
  BY <1>1, <1>2, <1>4 DEF Unknowing, Streamed, GrantedBefore, IsFrame, Grants
<1>10. /\ \A c : StatsOf(c)' = StatsOf(c)
       /\ NoneOpens' <=> NoneOpens
       /\ \A i : OfSession(i)' <=> OfSession(i)
       /\ Current' <=> Current
  BY <1>1 DEF StatsOf, NoneOpens, OfSession, Current
<1>11. Ordered' /\ Below' /\ Books' /\ NoFalseAccusation'
  BY <1>1, <1>2, <1>4, <1>10 DEF Ordered, Below, Books, NoFalseAccusation, IsFrame, Restarts, Opens
<1>12. Newest'
  <2> SUFFICES ASSUME Current, NEW c \in ChannelIds, sent[c] > dropped'[c]
      PROVE \/ NoneOpens /\ \E f \in got[c] : f.seq = sent[c]
            \/ \E i \in DOMAIN control : OfSession(i) /\ control[i].channel_id = c /\ control[i].seq = sent[c]
    BY <1>1, <1>10 DEF Newest
  <2>1. sent[c] \in Nat /\ dropped[c] \in Nat /\ dropped'[c] \in Nat /\ dropped[c] <= dropped'[c]
    BY <1>2, <1>3, ChannelsAssumption, Parts
  <2>2. sent[c] > dropped[c]
    BY <2>1
  <2>3. ASSUME NEW i \in DOMAIN stream, stream[i].channel_id = c PROVE stream[i].seq # sent[c]
    <3>1. stream[i].seq <= dropped'[c]
      BY <1>2, <1>3, <2>3 DEF Below
    <3> QED BY <2>1, <3>1
  <2> QED BY <1>2, <2>2, <2>3 DEF Newest
<1> QED BY <1>6, <1>7, <1>8, <1>9, <1>11, <1>12 DEF IInv

\* The control connection is lost, and the stream connection with it.
LEMMA LoseConnectionInv == ASSUME IInv, LoseConnection PROVE IInv'
<1>1. /\ connected /\ losses < MaxLosses /\ losses' = losses + 1 /\ connected' = FALSE /\ streaming' = FALSE
      /\ control' = <<>> /\ stream' = <<>> /\ Drop(control \o stream) /\ home' = "inline"
      /\ UNCHANGED <<ready, names, stats, accused, reported, got, resumed>>
      /\ UNCHANGED <<session, granted, sent, sessions, subscriptions>>
  BY DEF LoseConnection, client
<1>2. /\ Typed /\ Down /\ Numbered /\ Resuming /\ Unknowing /\ View /\ Streamed /\ GrantedBefore
      /\ Ordered /\ Below /\ Newest /\ Books /\ NoFalseAccusation
  BY DEF IInv
<1>3. /\ \A m \in Range(control \o stream) : m.kind = "frame" => m \in FrameSet
      /\ \A i \in DOMAIN control : control[i] \in Range(control \o stream)
      /\ \A i \in DOMAIN stream : stream[i] \in Range(control \o stream)
  <2>1. control \in Seq(MessageSet) /\ stream \in Seq(MessageSet)
    BY <1>2 DEF Typed, MessageSet
  <2>2. /\ Len(control) \in Nat /\ DOMAIN control = 1..Len(control)
        /\ Len(stream) \in Nat /\ DOMAIN stream = 1..Len(stream)
        /\ DOMAIN (control \o stream) = 1..(Len(control) + Len(stream))
    BY <2>1
  <2>3. \A i \in 1..Len(control) : (control \o stream)[i] = control[i] /\ i \in DOMAIN (control \o stream)
    BY <2>1, <2>2
  <2>4. \A i \in 1..Len(stream) : /\ (control \o stream)[Len(control) + i] = stream[i]
                                  /\ Len(control) + i \in DOMAIN (control \o stream)
    BY <2>1, <2>2
  <2>5. \A i \in DOMAIN (control \o stream) : (control \o stream)[i] \in MessageSet
    BY <2>1
  <2>6. \A m \in MessageSet : m.kind = "frame" => m \in FrameSet
    BY MessageIs DEF IsFrame
  <2> QED BY <2>2, <2>3, <2>4, <2>5, <2>6 DEF Range
<1>4. /\ dropped' \in [ChannelIds -> 0..MaxSeq]
      /\ \A c \in ChannelIds : dropped[c] <= dropped'[c]
      /\ \A m \in Range(control \o stream) : m.kind = "frame" /\ m.session = session => m.seq <= dropped'[m.channel_id]
  BY <1>1, <1>2, <1>3, Drops
<1>5. control' \in Seq(MessageSet) /\ stream' \in Seq(FrameSet) /\ DOMAIN control' = {} /\ DOMAIN stream' = {}
  BY <1>1
<1>6. losses \in Nat /\ MaxLosses \in Nat /\ losses' \in 0..MaxLosses
  BY <1>1, <1>2, ChannelsAssumption DEF Typed
<1>7. Typed'
  BY <1>1, <1>2, <1>4, <1>5, <1>6 DEF Typed, TypeOK
<1>8. Down' /\ Numbered' /\ Unknowing' /\ View' /\ Streamed' /\ GrantedBefore' /\ Ordered' /\ NoFalseAccusation'
  BY <1>1, <1>2, <1>5 DEF Down, Numbered, Unknowing, View, Streamed, GrantedBefore, Ordered, NoFalseAccusation
<1>9. Resuming'
  <2> DEFINE pending == IF \E i \in DOMAIN control : Resumes(i) THEN 1 ELSE 0
  <2>1. resumed \in Nat /\ resumed <= losses
    <3>1. resumed \in Nat /\ pending \in Nat /\ resumed + pending + 0 <= losses
      BY <1>1, <1>2 DEF Typed, Resuming
    <3> HIDE DEF pending
    <3> QED BY <1>6, <3>1
  <2>2. (\A i \in DOMAIN control : ~Resumes(i))' /\ ~connected'
    BY <1>1, <1>5
  <2>3. resumed' + 0 + 1 <= losses'
    BY <1>1, <1>6, <2>1
  <2> QED BY <2>2, <2>3 DEF Resuming
<1>10. /\ \A c : StatsOf(c)' = StatsOf(c)
       /\ NoneOpens' /\ (Current' => Current /\ NoneOpens)
  <2>1. Current' => session # None /\ ready = session /\ Current
    BY <1>1 DEF Current
  <2>2. Current' => NoneOpens
    BY <1>1, <1>2, <2>1, NoOther
  <2> QED BY <1>1, <1>5, <2>1, <2>2 DEF StatsOf, NoneOpens
<1>11. Below' /\ Books'
  BY <1>1, <1>2, <1>5, <1>10 DEF Below, Books
<1>12. Newest'
  <2> SUFFICES ASSUME Current', NEW c \in ChannelIds, sent[c] > dropped'[c]
      PROVE \E f \in got[c] : f.seq = sent[c]
    BY <1>1, <1>10 DEF Newest
  <2>1. sent[c] \in Nat /\ dropped[c] \in Nat /\ dropped'[c] \in Nat /\ dropped[c] <= dropped'[c]
    BY <1>2, <1>4, ChannelsAssumption, Parts
  <2>2. sent[c] > dropped[c] /\ Current
    BY <1>10, <2>1
  <2>3. ASSUME NEW i \in DOMAIN stream, stream[i].channel_id = c PROVE stream[i].seq # sent[c]
    <3>1. stream[i].session = session /\ stream[i].kind = "frame"
      BY <1>2, <2>2, Parts DEF Below, FrameSet
    <3>2. stream[i].seq <= dropped'[c]
      BY <1>3, <1>4, <2>3, <3>1
    <3> QED BY <2>1, <3>2
  <2>4. ASSUME NEW i \in DOMAIN control, OfSession(i), control[i].channel_id = c PROVE control[i].seq # sent[c]
    <3>1. control[i].session = session /\ control[i].kind = "frame"
      BY <1>2, <2>2, <2>4 DEF Below, OfSession, IsFrame
    <3>2. control[i].seq <= dropped'[c]
      BY <1>3, <1>4, <2>4, <3>1
    <3> QED BY <2>1, <3>2
  <2> QED BY <1>2, <2>2, <2>3, <2>4 DEF Newest
<1> QED BY <1>7, <1>8, <1>9, <1>11, <1>12 DEF IInv

\* A connection again: to resume the session, or to hear that there is none.
LEMMA ReconnectInv == ASSUME IInv, Reconnect PROVE IInv'
<1>1. /\ ~connected /\ connected' = TRUE
      /\ UNCHANGED <<ready, names, stats, accused, reported, got, resumed>>
      /\ UNCHANGED <<streaming, stream, sent, home, dropped, sessions, subscriptions, losses>>
  BY DEF Reconnect, client, counts
<1>2. /\ Typed /\ Down /\ Numbered /\ Resuming /\ Unknowing /\ View /\ Streamed /\ GrantedBefore
      /\ Ordered /\ Below /\ Newest /\ Books /\ NoFalseAccusation
  BY DEF IInv
<1>3. control = <<>> /\ stream = <<>> /\ home = "inline" /\ DOMAIN control = {} /\ DOMAIN stream = {}
  BY <1>1, <1>2 DEF Down
<1>4. \A c : StatsOf(c)' = StatsOf(c)
  BY <1>1 DEF StatsOf
<1>5. Books' /\ NoFalseAccusation' /\ Down'
  BY <1>1, <1>2, <1>4 DEF Books, NoFalseAccusation, Down
<1>6. resumed \in Nat /\ losses \in Nat /\ resumed + 0 + 1 <= losses
  BY <1>1, <1>2, <1>3, ChannelsAssumption DEF Typed, Resuming
<1>7. CASE /\ ready # None /\ ready = session
           /\ Answer([kind |-> "resumed", session |-> session, granted |-> granted])
           /\ UNCHANGED <<session, granted>>
  <2> DEFINE m == [kind |-> "resumed", session |-> session, granted |-> granted]
  <2>1. session \in 1..MaxSessions /\ granted \in SUBSET ChannelIds
    BY <1>2, <1>7 DEF Typed, TypeOK
  <2>2. /\ m \in MessageSet /\ m.kind = "resumed" /\ m.session = session /\ m.granted = granted
        /\ ~IsFrame(m) /\ ~Opens(m) /\ Grants(m)
    BY <2>1 DEF MessageSet, IsFrame, Opens, Grants
  <2>3. control' = <<m>>
    BY <1>3, <1>7 DEF Answer
  <2> HIDE DEF m
  <2>4. control' \in Seq(MessageSet) /\ DOMAIN control' = {1} /\ control'[1] = m
    BY <2>2, <2>3
  <2>5. Typed'
    BY <1>1, <1>2, <1>7, <2>4 DEF Typed, TypeOK
  <2>6. Numbered' /\ Unknowing'
    BY <1>1, <1>2, <1>7, <2>2, <2>4 DEF Numbered, Unknowing
  <2>7. Resuming'
    <3>1. (\A i \in DOMAIN control : Resumes(i) => i = 1 /\ control[i].session = ready)'
      BY <1>1, <1>7, <2>2, <2>4
    <3>2. (\E i \in DOMAIN control : Resumes(i))' /\ resumed' + 1 + 0 <= losses'
      <4>1. (\E i \in DOMAIN control : Resumes(i))'
        BY <2>2, <2>4 DEF Resumes
      <4> QED BY <1>1, <1>6, <4>1
    <3> QED BY <1>1, <3>1, <3>2 DEF Resuming
  <2>8. View' /\ Streamed' /\ GrantedBefore'
    BY <1>1, <1>3, <1>7, <2>2, <2>4 DEF View, Streamed, GrantedBefore
  <2>9. Ordered'
    BY <1>1, <1>3, <2>2, <2>4 DEF Ordered
  <2>10. Current /\ NoneOpens' /\ NoneOpens /\ \A i \in DOMAIN control' : ~OfSession(i)'
    BY <1>1, <1>3, <1>7, <2>2, <2>4 DEF Current, NoneOpens, OfSession
  <2>11. Below' /\ Newest'
    BY <1>1, <1>2, <1>3, <1>4, <1>7, <2>10 DEF Below, Newest
  <2> QED BY <1>5, <2>5, <2>6, <2>7, <2>8, <2>9, <2>11 DEF IInv
<1>8. ASSUME session' = None, granted' = {}, control' \in Seq(MessageSet),
             \A i \in DOMAIN control' : control'[i].kind = "unknown",
             \A i, j \in DOMAIN control' : i = j,
             DOMAIN control' # {} => ready # None
      PROVE  IInv'
  <2>1. \A i \in DOMAIN control' : ~IsFrame(control'[i]) /\ ~Opens(control'[i])
    BY <1>8 DEF IsFrame, Opens
  <2>2. Typed'
    BY <1>1, <1>2, <1>8 DEF Typed, TypeOK
  <2>3. Numbered' /\ Unknowing' /\ View' /\ Streamed' /\ GrantedBefore'
    BY <1>1, <1>2, <1>3, <1>8, <2>1 DEF Numbered, Unknowing, View, Streamed, GrantedBefore
  <2>4. Resuming'
    <3>1. (\A i \in DOMAIN control : ~Resumes(i))'
      BY <1>8 DEF Resumes
    <3>2. resumed' + 0 + 0 <= losses'
      BY <1>1, <1>6
    <3> QED BY <1>1, <3>1, <3>2 DEF Resuming
  <2>5. Ordered' /\ Below' /\ Newest'
    BY <1>1, <1>3, <1>8, <2>1 DEF Ordered, Below, Newest, Current
  <2> QED BY <1>5, <2>2, <2>3, <2>4, <2>5 DEF IInv
<1>9. CASE ready # None /\ Answer([kind |-> "unknown"]) /\ session' = None /\ granted' = {}
  <2>1. control' = <<[kind |-> "unknown"]>> /\ [kind |-> "unknown"] \in MessageSet
    BY <1>3, <1>9 DEF Answer, MessageSet
  <2>2. control' \in Seq(MessageSet) /\ DOMAIN control' = {1} /\ control'[1].kind = "unknown"
    BY <2>1
  <2> QED BY <1>8, <1>9, <2>2
<1>10. CASE ready = None /\ session' = None /\ granted' = {} /\ UNCHANGED control
  <2>1. control' \in Seq(MessageSet) /\ DOMAIN control' = {}
    BY <1>2, <1>3, <1>10 DEF Typed
  <2> QED BY <1>8, <1>10, <2>1
<1> QED BY <1>7, <1>9, <1>10 DEF Reconnect

-----------------------------------------------------------------------------
(* The invariant, and what it says                                         *)

\* Where the client starts.
LEMMA InitInv == Init => IInv
<1> SUFFICES ASSUME Init PROVE IInv
  OBVIOUS
<1>1. /\ ready = None /\ names = {} /\ stats = [c \in ChannelIds |-> None] /\ accused = FALSE
      /\ reported = [c \in ChannelIds |-> [frames |-> 0, gaps |-> 0]] /\ got = [c \in ChannelIds |-> {}] /\ resumed = 0
      /\ connected = TRUE /\ control = <<>> /\ streaming = FALSE /\ stream = <<>>
      /\ session = None /\ granted = {} /\ home = "inline"
      /\ sent = [c \in ChannelIds |-> 0] /\ dropped = [c \in ChannelIds |-> 0] /\ sessions = 0 /\ losses = 0
  BY DEF Init
<1>2. /\ MaxSeq \in Nat /\ MaxSessions \in Nat /\ MaxLosses \in Nat /\ None \notin Nat
      /\ DOMAIN control = {} /\ DOMAIN stream = {}
      /\ control \in Seq(MessageSet) /\ stream \in Seq(FrameSet)
  BY <1>1, ChannelsAssumption
<1>3. Typed
  <2>1. stats \in [ChannelIds -> Stats \union {None}] /\ reported \in [ChannelIds -> [frames : Nat, gaps : Nat]]
        /\ sent \in [ChannelIds -> 0..MaxSeq] /\ dropped \in [ChannelIds -> 0..MaxSeq]
    BY <1>1, <1>2
  <2>2. got = [c \in ChannelIds |-> got[c]] /\ \A c \in ChannelIds : got[c] = {}
    BY <1>1
  <2>3. resumed \in Nat /\ sessions \in 0..MaxSessions /\ losses \in 0..MaxLosses
    BY <1>1, <1>2
  <2>4. accused \in BOOLEAN /\ connected \in BOOLEAN /\ streaming \in BOOLEAN
    BY <1>1
  <2> QED BY <1>1, <1>2, <2>1, <2>2, <2>3, <2>4 DEF Typed, TypeOK
<1>4. Down /\ Numbered /\ Unknowing /\ View /\ Streamed /\ GrantedBefore /\ Ordered /\ NoFalseAccusation
  BY <1>1, <1>2 DEF Down, Numbered, Unknowing, View, Streamed, GrantedBefore, Ordered, NoFalseAccusation
<1>5. Resuming
  <2>1. ~ \E i \in DOMAIN control : Resumes(i)
    BY <1>2
  <2> QED BY <1>1, <2>1 DEF Resuming
<1>6. Below /\ Newest
  BY <1>1 DEF Below, Newest, Current
<1>7. Books
  BY <1>1, BookedNone DEF Books, StatsOf
<1> QED BY <1>3, <1>4, <1>5, <1>6, <1>7 DEF IInv

\* Every step of the client, of the world and of the connections keeps it.
LEMMA NextInv == Settled /\ IInv /\ [Next]_vars => IInv'
<1> SUFFICES ASSUME Settled, IInv, [Next]_vars PROVE IInv'
  OBVIOUS
<1>1. CASE ReceiveInline
  BY <1>1, ReceiveInlineInv
<1>2. CASE ReceiveStream
  BY <1>2, ReceiveStreamInv
<1>3. CASE Report
  BY <1>3, ReportInv
<1>4. CASE ReceiveOpenResult
  BY <1>4, ReceiveOpenResultInv
<1>5. CASE ReceiveResumeResult
  BY <1>5, ReceiveResumeResultInv
<1>6. CASE ReceiveResumeError
  BY <1>6, ReceiveResumeErrorInv
<1>7. CASE ReceiveGrants
  BY <1>7, ReceiveGrantsInv
<1>8. CASE ReceiveClosed
  BY <1>8, ReceiveClosedInv
<1>9. CASE OpenSession
  BY <1>9, OpenSessionInv
<1>10. CASE CloseSession
  BY <1>10, CloseSessionInv
<1>11. CASE ChangeSubscriptions
  BY <1>11, ChangeSubscriptionsInv
<1>12. CASE \E channel \in ChannelIds : SendFrame(channel)
  BY <1>12, SendFrameInv
<1>13. CASE AttachStream
  BY <1>13, AttachStreamInv
<1>14. CASE LoseStream
  BY <1>14, LoseStreamInv
<1>15. CASE StreamEnds
  BY <1>15, StreamEndsInv
<1>16. CASE LoseConnection
  BY <1>16, LoseConnectionInv
<1>17. CASE Reconnect
  BY <1>17, ReconnectInv
<1>18. CASE UNCHANGED vars
  <2>1. /\ UNCHANGED <<ready, names, stats, accused, reported, got, resumed, connected, control, streaming, stream>>
        /\ UNCHANGED <<session, granted, sent, home, dropped, sessions, subscriptions, losses>>
    BY <1>18 DEF vars, client, links, world, counts
  <2>2. Typed' /\ Down' /\ Numbered' /\ Resuming' /\ Unknowing' /\ View'
    BY <2>1 DEF IInv, Typed, TypeOK, Down, Numbered, Resuming, Resumes, Unknowing, View, Opens, Grants
  <2>3. Streamed' /\ GrantedBefore' /\ Ordered' /\ Below' /\ Newest' /\ Books' /\ NoFalseAccusation'
    BY <2>1 DEF IInv, Streamed, GrantedBefore, Ordered, Below, Newest, Books, NoFalseAccusation,
                StatsOf, Current, NoneOpens, OfSession, IsFrame, Grants
  <2> QED BY <2>2, <2>3 DEF IInv
<1> QED BY <1>1, <1>2, <1>3, <1>4, <1>5, <1>6, <1>7, <1>8, <1>9, <1>10, <1>11, <1>12, <1>13, <1>14,
           <1>15, <1>16, <1>17, <1>18 DEF Next

\* What is counted is what was taken, and what is missing of it.
LEMMA BooksBalance == IInv => Accounting
<1> SUFFICES ASSUME IInv, NEW c \in ChannelIds
    PROVE /\ reported[c].frames + StatsOf(c).frames = Cardinality(got[c])
          /\ reported[c].gaps + StatsOf(c).gaps = Cardinality(Missing(c))
  BY DEF Accounting
<1>1. Booked(StatsOf(c), got[c], reported[c], resumed)
  BY DEF IInv, Books
<1>2. Missing(c) = MissingIn(got[c], resumed)
  BY MissingIs
<1> QED BY <1>1, <1>2 DEF Booked

\* Where nothing is under way, the newest frame was taken.
LEMMA NewestTaken == IInv => NewestDelivered
<1> SUFFICES ASSUME IInv, connected, ready # None, ready = session, control = <<>>, stream = <<>>,
                    NEW c \in names, sent[c] > dropped[c]
    PROVE \E f \in got[c] : f.seq = sent[c]
  BY DEF NewestDelivered
<1>1. c \in ChannelIds /\ DOMAIN control = {} /\ DOMAIN stream = {} /\ Current
  BY DEF IInv, Typed, TypeOK, Current
<1> QED BY <1>1 DEF IInv, Newest

\* Without either fault, a world that numbers its frames is accused of nothing, whatever moves
\* between the connections, and what the client counts has its type (_frame).
THEOREM InvCorrect == ASSUME Settled PROVE Spec => []Inv
<1>1. IInv => Inv
  BY DEF IInv, Inv, Typed
<1>2. Settled
  OBVIOUS
<1> QED BY <1>1, <1>2, InitInv, NextInv, PTL DEF Spec

\* Without either fault, the windows and the last counts account for every frame taken, and
\* every one missing, once (report, delivery).
THEOREM AccountingCorrect == ASSUME Settled PROVE Spec => []Accounting
<1>1. Settled
  OBVIOUS
<1> QED BY <1>1, BooksBalance, InitInv, NextInv, PTL DEF Spec

\* Without either fault, the newest frame of a channel is delivered unless it went down with a
\* connection: one that is overtaken is never the newest (_frame).
THEOREM NewestDeliveredCorrect == ASSUME Settled PROVE Spec => []NewestDelivered
<1>1. Settled
  OBVIOUS
<1> QED BY <1>1, NewestTaken, InitInv, NextInv, PTL DEF Spec
=============================================================================
