---------------------------- MODULE LockstepProofs ----------------------------
(***************************************************************************)
(* An agent in lockstep, for any number of channels, ticks, resets, losses and *)
(* advances of other sessions: it is refused for a cause only, its advances do *)
(* not time out with their frames there, and what is held once one goes on is  *)
(* of its tick and epoch, although the reader reads on in between.            *)
(***************************************************************************)
EXTENDS Lockstep, FiniteSetTheorems, TLAPS

-----------------------------------------------------------------------------
(* The inductive invariant, in parts                                       *)

FrameSet(binding) ==
  [method : {"obs.frame"}, channel : Channels, binding : {binding}, seq : Nat, tick : Ticks, epoch : Nat]

AnswerSet ==
  [method : {"world.tick", "error", "world.reset", "session.resume"}, tick : Ticks, epoch : Nat]

\* A tick or a reset is asked for where there is one left.
RequestSet == [method : {"world.tick", "world.reset"}, tick : Ticks \ {MaxTick}]

IsFrame(m) == m.method = "obs.frame"
EndsAdvance(m) == m.method \in {"world.tick", "error"}

\* The result of advance has come, with its tick.
Told == {"answered", "waiting", "resolved"}

Typed ==
  /\ tick \in Ticks /\ wtick \in Ticks /\ {epoch, seq, others, losses} \subseteq Nat
  /\ {up, live, onStream, mismatched, overlapped} \subseteq BOOLEAN
  /\ held \in [Channels -> FrameSet("inline") \union FrameSet("ws")]
  /\ call \in [at : {"idle", "calling", "answered", "waiting", "resolved"},
               tick : Ticks \union {None}, epoch : Nat \union {None}]
  /\ call.at \in Told => call.tick \in Ticks /\ call.epoch \in Nat
  /\ requests \subseteq RequestSet
  /\ control \in Seq(FrameSet("inline") \union AnswerSet) /\ stream \in Seq(FrameSet("ws"))

\* A connection takes what it carried with it, and the waiter.
Down ==
  ~up => /\ ~live /\ requests = {} /\ control = <<>> /\ stream = <<>>
         /\ call.at \in {"idle", "answered", "resolved"}

\* The first message of a connection resumes the session.
Resuming ==
  /\ live => \A i \in DOMAIN control : control[i].method # "session.resume"
  /\ up /\ ~live =>
       /\ requests = {} /\ stream = <<>> /\ call.at = "idle"
       /\ control # <<>> /\ control[1].method = "session.resume"
       /\ \A i \in DOMAIN control : i # 1 => IsFrame(control[i])
       /\ \A c \in Channels : held[c].seq < seq

\* One tick is asked for at a time.
OneAdvance ==
  /\ \A r \in requests : r.method = "world.tick" =>
       /\ call.at = "calling"
       /\ \A s \in requests : s.method = "world.tick" => s = r
       /\ \A i \in DOMAIN control : ~EndsAdvance(control[i])
  /\ \A i \in DOMAIN control : EndsAdvance(control[i]) =>
       /\ call.at = "calling"
       /\ \A j \in DOMAIN control : EndsAdvance(control[j]) => j = i

\* Advances and resets that meet are noted.
Apart == call.at # "idle" /\ Resetting => overlapped

\* The last answer under way tells the world's tick; if there is none, the client knows it.
LastTells ==
  others = 0 /\ up =>
    /\ \A i \in DOMAIN control :
         ~IsFrame(control[i]) /\ (\A j \in DOMAIN control : j > i => IsFrame(control[j])) =>
           control[i].tick = wtick
    /\ (\A i \in DOMAIN control : IsFrame(control[i])) => tick = wtick

\* So what it asks for is the next.
AskedInTime ==
  others = 0 /\ ~overlapped => \A r \in requests : r.method = "world.tick" => r.tick = wtick

\* The frames on a connection are in order, and beyond the last one taken from it.
InOrder(frames, binding, h, s) ==
  \A i \in DOMAIN frames : IsFrame(frames[i]) =>
    /\ 0 < frames[i].seq /\ frames[i].seq <= s
    /\ h[frames[i].channel].binding = binding => h[frames[i].channel].seq < frames[i].seq
    /\ \A j \in DOMAIN frames :
         i < j /\ IsFrame(frames[j]) /\ frames[j].channel = frames[i].channel =>
           frames[i].seq < frames[j].seq

Ordered == InOrder(control, "inline", held, seq) /\ InOrder(stream, "ws", held, seq)

\* The newest frame of a channel is held or under way, and of the world's tick.
IsNewest(m, c, s) == IsFrame(m) /\ m.channel = c /\ m.seq = s

Carries(frames, c, s) == \E i \in DOMAIN frames : IsNewest(frames[i], c, s)

OfTick(frames, c, s, t) == \A i \in DOMAIN frames : IsNewest(frames[i], c, s) => frames[i].tick = t

Shown(h, s, q, r, t) ==
  \A c \in Channels :
    /\ h[c].seq = s \/ Carries(q, c, s) \/ Carries(r, c, s)
    /\ h[c].seq = s => h[c].tick = t
    /\ OfTick(q, c, s, t) /\ OfTick(r, c, s, t)

Newest ==
  /\ \A c \in Channels : held[c].seq <= seq
  /\ up => Shown(held, seq, control, stream, wtick)

\* advance waits for a frame of the world's tick.
Waits ==
  /\ call.at = "waiting" => ~HoldsTick(held, call.tick)
  /\ others = 0 /\ ~overlapped /\ call.at \in Told => call.tick = wtick

IInv ==
  /\ Typed /\ Down /\ Resuming /\ OneAdvance /\ Apart /\ LastTells /\ AskedInTime
  /\ Ordered /\ Newest /\ Waits
  /\ RefusedForCause /\ AdvanceNotStuck

-----------------------------------------------------------------------------
(* Sequences of messages                                                   *)

Inline == FrameSet("inline") \union AnswerSet

\* t is s with ms behind it.
Grown(s, t, ms) ==
  /\ DOMAIN s = 1..Len(s) /\ DOMAIN t = 1..Len(t) /\ DOMAIN ms = 1..Len(ms)
  /\ {Len(s), Len(t), Len(ms)} \subseteq Nat /\ Len(t) = Len(s) + Len(ms)
  /\ \A i \in DOMAIN s : i \in DOMAIN t /\ t[i] = s[i]
  /\ \A i \in DOMAIN ms : Len(s) + i \in DOMAIN t /\ t[Len(s) + i] = ms[i]
  /\ \A i \in DOMAIN t : i \in DOMAIN s \/ (i - Len(s) \in DOMAIN ms /\ t[i] = ms[i - Len(s)])

\* t is s without its first.
Shrunk(s, t) ==
  /\ DOMAIN s = 1..Len(s) /\ DOMAIN t = 1..Len(t)
  /\ {Len(s), Len(t)} \subseteq Nat /\ Len(s) = Len(t) + 1 /\ 1 \in DOMAIN s /\ s[1] = Head(s)
  /\ \A i \in DOMAIN t : i + 1 \in DOMAIN s /\ t[i] = s[i + 1]
  /\ \A i \in DOMAIN s : i = 1 \/ (i - 1 \in DOMAIN t /\ t[i - 1] = s[i])

\* What is sent goes behind what is under way.
LEMMA Joined ==
  ASSUME NEW S, NEW s \in Seq(S), NEW ms \in Seq(S)
  PROVE  s \o ms \in Seq(S) /\ Grown(s, s \o ms, ms)
<1>1. /\ s \o ms \in Seq(S) /\ Len(s \o ms) = Len(s) + Len(ms)
      /\ Len(s) \in Nat /\ Len(ms) \in Nat /\ DOMAIN s = 1..Len(s) /\ DOMAIN ms = 1..Len(ms)
      /\ Len(s \o ms) \in Nat /\ DOMAIN (s \o ms) = 1..Len(s \o ms)
  OBVIOUS
<1>2. \A i \in 1..(Len(s) + Len(ms)) : (s \o ms)[i] = IF i <= Len(s) THEN s[i] ELSE ms[i - Len(s)]
  OBVIOUS
<1> QED BY <1>1, <1>2 DEF Grown

\* One message, too.
LEMMA Sent ==
  ASSUME NEW S, NEW s \in Seq(S), NEW m \in S
  PROVE  Append(s, m) \in Seq(S) /\ Grown(s, Append(s, m), <<m>>)
<1>1. /\ Append(s, m) \in Seq(S) /\ Len(Append(s, m)) = Len(s) + 1
      /\ Len(s) \in Nat /\ DOMAIN s = 1..Len(s) /\ DOMAIN Append(s, m) = 1..Len(Append(s, m))
      /\ Append(s, m)[Len(s) + 1] = m
  OBVIOUS
<1>2. \A i \in 1..Len(s) : Append(s, m)[i] = s[i]
  OBVIOUS
<1>3. Len(<<m>>) = 1 /\ DOMAIN <<m>> = 1..1 /\ <<m>>[1] = m
  OBVIOUS
<1> QED BY <1>1, <1>2, <1>3 DEF Grown

\* Nothing may be sent.
LEMMA Unsent ==
  ASSUME NEW S, NEW s \in Seq(S)
  PROVE  Grown(s, s, <<>>)
<1>1. Len(s) \in Nat /\ DOMAIN s = 1..Len(s)
  OBVIOUS
<1>2. Len(<<>>) = 0 /\ DOMAIN <<>> = 1..0
  OBVIOUS
<1> QED BY <1>1, <1>2 DEF Grown

\* The first is taken, and the others remain.
LEMMA Taken ==
  ASSUME NEW S, NEW s \in Seq(S), s # <<>>
  PROVE  Tail(s) \in Seq(S) /\ Shrunk(s, Tail(s)) /\ Head(s) \in S
<1>1. /\ Len(s) \in Nat /\ DOMAIN s = 1..Len(s) /\ Len(s) > 0 /\ Head(s) = s[1] /\ Head(s) \in S
      /\ Tail(s) \in Seq(S) /\ Len(Tail(s)) = Len(s) - 1
  OBVIOUS
<1>2. \A i \in 1..(Len(s) - 1) : Tail(s)[i] = s[i + 1]
  OBVIOUS
<1>3. DOMAIN Tail(s) = 1..Len(Tail(s)) /\ Len(Tail(s)) \in Nat
  BY <1>1
<1> QED BY <1>1, <1>2, <1>3 DEF Shrunk

\* The members of a sequence.
LEMMA Members ==
  ASSUME NEW S, NEW s \in Seq(S)
  PROVE  Len(s) \in Nat /\ DOMAIN s = 1..Len(s) /\ \A i \in DOMAIN s : s[i] \in S
OBVIOUS

-----------------------------------------------------------------------------
(* The frames of a tick                                                    *)

\* Whatever is chosen to have the frames of a tick in some order, each channel has one.
LEMMA EachChannelOnce ==
  LET order == SetToSeq(Channels)
  IN  /\ order \in Seq(Channels)
      /\ \A i, j \in DOMAIN order : order[i] = order[j] => i = j
      /\ \A c \in Channels : \E i \in DOMAIN order : order[i] = c
<1> DEFINE n == Cardinality(Channels)
           order == SetToSeq(Channels)
<1>1. IsFiniteSet(Channels) /\ n \in Nat /\ ExistsBijection(1..n, Channels)
  BY LockstepAssumption, FS_CardinalityType
<1>2. \E f \in [1..n -> Channels] : IsInjective(f)
  BY <1>1 DEF ExistsBijection, Bijection, Injection
<1>3. order \in [1..n -> Channels] /\ IsInjective(order)
  BY <1>2 DEF SetToSeq
<1> HIDE DEF order
<1>4. order \in Injection(1..n, Channels)
  BY <1>3 DEF Injection
<1>5. Cardinality(1..n) = n
  BY <1>1, FS_Interval
<1>6. order \in Surjection(1..n, Channels)
  BY <1>1, <1>4, <1>5, FS_Injection
<1>7. order \in Seq(Channels) /\ DOMAIN order = 1..n
  BY <1>1, <1>3
<1> QED BY <1>3, <1>6, <1>7 DEF IsInjective, Surjection, order

\* All frames of a batch are of the same tick, with the next seq, one of each channel.
Batch(fs, binding, s, t, e) ==
  /\ fs \in Seq(FrameSet(binding))
  /\ \A i \in DOMAIN fs : fs[i].seq = s /\ fs[i].tick = t /\ fs[i].epoch = e
  /\ \A i, j \in DOMAIN fs : fs[i].channel = fs[j].channel => i = j
  /\ \A c \in Channels : \E i \in DOMAIN fs : fs[i].channel = c

\* What the world publishes is one.
LEMMA FramesAreBatch ==
  ASSUME seq' \in Nat, NEW binding, NEW t \in Ticks, NEW e \in Nat
  PROVE  Batch(Frames(binding, t, e), binding, seq', t, e)
<1> DEFINE order == SetToSeq(Channels)
           fs == Frames(binding, t, e)
<1>1. /\ order \in Seq(Channels)
      /\ \A i, j \in DOMAIN order : order[i] = order[j] => i = j
      /\ \A c \in Channels : \E i \in DOMAIN order : order[i] = c
  BY EachChannelOnce
<1>2. fs = [i \in DOMAIN order |-> FrameOf(order[i], binding, t, e)]
  BY DEF Frames
<1> HIDE DEF order, fs
<1>3. Len(order) \in Nat /\ DOMAIN order = 1..Len(order) /\ \A i \in DOMAIN order : order[i] \in Channels
  BY <1>1, Members
<1>4. DOMAIN fs = 1..Len(order) /\ \A i \in DOMAIN fs : fs[i] = FrameOf(order[i], binding, t, e)
  BY <1>2, <1>3
<1>5. \A i \in DOMAIN fs : fs[i] \in FrameSet(binding)
  BY <1>3, <1>4 DEF FrameOf, FrameSet
<1>6. fs \in [1..Len(order) -> FrameSet(binding)]
  BY <1>2, <1>3, <1>4, <1>5
<1>7. fs \in Seq(FrameSet(binding))
  BY <1>3, <1>6
<1>8. \A i \in DOMAIN fs : /\ fs[i].channel = order[i] /\ fs[i].seq = seq'
                           /\ fs[i].tick = t /\ fs[i].epoch = e
  BY <1>4 DEF FrameOf
<1> QED BY <1>1, <1>3, <1>4, <1>7, <1>8 DEF Batch, fs

-----------------------------------------------------------------------------
(* The order of the frames, and the newest of them                         *)

BothFrames == FrameSet("inline") \union FrameSet("ws")

\* What a link carries may be a batch and messages that are none.
Sends(ms, s, t) ==
  /\ \A i \in DOMAIN ms : IsFrame(ms[i]) => ms[i].seq = s /\ ms[i].tick = t
  /\ \A i, j \in DOMAIN ms :
       IsFrame(ms[i]) /\ IsFrame(ms[j]) /\ ms[i].channel = ms[j].channel => i = j

\* The frames of the next seq go behind those before them.
LEMMA OrderGrows ==
  ASSUME NEW h, NEW s \in Nat, NEW q, NEW p, NEW ms, NEW t, NEW b,
         Grown(q, p, ms), Sends(ms, s + 1, t), InOrder(q, b, h, s),
         \A i \in DOMAIN q : IsFrame(q[i]) => q[i].seq \in Nat,
         \A i \in DOMAIN ms : IsFrame(ms[i]) => h[ms[i].channel].seq \in Nat /\ h[ms[i].channel].seq <= s
  PROVE  InOrder(p, b, h, s + 1)
<1> SUFFICES ASSUME NEW i \in DOMAIN p, IsFrame(p[i])
             PROVE  /\ 0 < p[i].seq /\ p[i].seq <= s + 1
                    /\ h[p[i].channel].binding = b => h[p[i].channel].seq < p[i].seq
                    /\ \A j \in DOMAIN p :
                         i < j /\ IsFrame(p[j]) /\ p[j].channel = p[i].channel => p[i].seq < p[j].seq
  BY DEF InOrder
<1>1. CASE i \in DOMAIN q
  <2>1. /\ p[i] = q[i] /\ 0 < p[i].seq /\ p[i].seq <= s /\ p[i].seq \in Nat
        /\ h[p[i].channel].binding = b => h[p[i].channel].seq < p[i].seq
    BY <1>1 DEF Grown, InOrder
  <2>2. ASSUME NEW j \in DOMAIN p, i < j, IsFrame(p[j]), p[j].channel = p[i].channel
        PROVE  p[i].seq < p[j].seq
    <3>1. CASE j \in DOMAIN q
      <4>1. p[j] = q[j]
        BY <3>1 DEF Grown
      <4> QED BY <1>1, <2>1, <2>2, <3>1, <4>1 DEF InOrder
    <3>2. CASE j - Len(q) \in DOMAIN ms /\ p[j] = ms[j - Len(q)]
      <4>1. p[j].seq = s + 1
        BY <2>2, <3>2 DEF Sends
      <4> QED BY <2>1, <4>1
    <3> QED BY <3>1, <3>2 DEF Grown
  <2> QED BY <2>1, <2>2
<1>2. CASE i - Len(q) \in DOMAIN ms /\ p[i] = ms[i - Len(q)] /\ i \notin DOMAIN q
  <2>1. p[i].seq = s + 1 /\ h[p[i].channel].seq \in Nat /\ h[p[i].channel].seq <= s
    BY <1>2 DEF Sends
  <2>2. ASSUME NEW j \in DOMAIN p, i < j, IsFrame(p[j]), p[j].channel = p[i].channel
        PROVE  FALSE
    <3>1. i \in Nat /\ j \in Nat /\ Len(q) \in Nat /\ i > Len(q) /\ j \notin DOMAIN q
      BY <1>2, <2>2 DEF Grown
    <3>2. j - Len(q) \in DOMAIN ms /\ p[j] = ms[j - Len(q)]
      BY <3>1 DEF Grown
    <3>3. j - Len(q) = i - Len(q)
      BY <1>2, <2>2, <3>2 DEF Sends
    <3> QED BY <2>2, <3>1, <3>3
  <2> QED BY <2>1, <2>2
<1> QED BY <1>1, <1>2 DEF Grown

\* The batch shows every channel.
LEMMA BatchShows ==
  ASSUME NEW h, NEW s \in Nat, NEW q, NEW p, NEW r, NEW o, NEW ms, NEW ns, NEW t, NEW b, NEW d,
         Grown(q, p, ms), Grown(r, o, ns), Sends(ms, s + 1, t), Sends(ns, s + 1, t),
         InOrder(q, b, h, s), InOrder(r, d, h, s),
         \A i \in DOMAIN q : IsFrame(q[i]) => q[i].seq \in Nat,
         \A i \in DOMAIN r : IsFrame(r[i]) => r[i].seq \in Nat,
         \A c \in Channels : h[c].seq \in Nat /\ h[c].seq <= s,
         \A c \in Channels : \/ \E i \in DOMAIN ms : IsFrame(ms[i]) /\ ms[i].channel = c
                             \/ \E i \in DOMAIN ns : IsFrame(ns[i]) /\ ns[i].channel = c
  PROVE  Shown(h, s + 1, p, o, t)
<1>1. ASSUME NEW q1, NEW p1, NEW ms1, NEW b1, Grown(q1, p1, ms1), Sends(ms1, s + 1, t),
             InOrder(q1, b1, h, s), \A i \in DOMAIN q1 : IsFrame(q1[i]) => q1[i].seq \in Nat,
             NEW c
      PROVE  /\ OfTick(p1, c, s + 1, t)
             /\ (\E i \in DOMAIN ms1 : IsFrame(ms1[i]) /\ ms1[i].channel = c) => Carries(p1, c, s + 1)
  <2>1. ASSUME NEW i \in DOMAIN p1, IsNewest(p1[i], c, s + 1)
        PROVE  p1[i].tick = t
    <3>1. CASE i \in DOMAIN q1
      <4>1. p1[i] = q1[i] /\ IsFrame(q1[i]) /\ q1[i].seq = s + 1
        BY <1>1, <2>1, <3>1 DEF Grown, IsNewest
      <4>2. q1[i].seq <= s
        BY <1>1, <3>1, <4>1 DEF InOrder
      <4> QED BY <4>1, <4>2
    <3>2. CASE i - Len(q1) \in DOMAIN ms1 /\ p1[i] = ms1[i - Len(q1)]
      BY <1>1, <2>1, <3>2 DEF Sends, IsNewest
    <3> QED BY <1>1, <3>1, <3>2 DEF Grown
  <2>2. ASSUME NEW i \in DOMAIN ms1, IsFrame(ms1[i]), ms1[i].channel = c
        PROVE  Carries(p1, c, s + 1)
    <3>1. Len(q1) + i \in DOMAIN p1 /\ p1[Len(q1) + i] = ms1[i] /\ ms1[i].seq = s + 1
      BY <1>1, <2>2 DEF Grown, Sends
    <3> QED BY <2>2, <3>1 DEF Carries, IsNewest
  <2> QED BY <2>1, <2>2 DEF OfTick
<1> SUFFICES ASSUME NEW c \in Channels
             PROVE  /\ Carries(p, c, s + 1) \/ Carries(o, c, s + 1)
                    /\ h[c].seq # s + 1 /\ OfTick(p, c, s + 1, t) /\ OfTick(o, c, s + 1, t)
  BY DEF Shown
<1>2. OfTick(p, c, s + 1, t) /\ ((\E i \in DOMAIN ms : IsFrame(ms[i]) /\ ms[i].channel = c) => Carries(p, c, s + 1))
  BY <1>1
<1>3. OfTick(o, c, s + 1, t) /\ ((\E i \in DOMAIN ns : IsFrame(ns[i]) /\ ns[i].channel = c) => Carries(o, c, s + 1))
  BY <1>1
<1>4. h[c].seq # s + 1
  OBVIOUS
<1> QED BY <1>2, <1>3, <1>4

\* A message taken that is no frame changes nothing of this.
LEMMA OrderTaken ==
  ASSUME NEW h, NEW s, NEW q, NEW p, NEW b, Shrunk(q, p), InOrder(q, b, h, s)
  PROVE  InOrder(p, b, h, s)
<1> SUFFICES ASSUME NEW i \in DOMAIN p, IsFrame(p[i])
             PROVE  /\ 0 < p[i].seq /\ p[i].seq <= s
                    /\ h[p[i].channel].binding = b => h[p[i].channel].seq < p[i].seq
                    /\ \A j \in DOMAIN p :
                         i < j /\ IsFrame(p[j]) /\ p[j].channel = p[i].channel => p[i].seq < p[j].seq
  BY DEF InOrder
<1>1. i \in Nat /\ i + 1 \in DOMAIN q /\ p[i] = q[i + 1]
  BY DEF Shrunk
<1>2. ASSUME NEW j \in DOMAIN p, i < j, IsFrame(p[j]), p[j].channel = p[i].channel
      PROVE  p[i].seq < p[j].seq
  <2>1. j \in Nat /\ j + 1 \in DOMAIN q /\ p[j] = q[j + 1] /\ i + 1 < j + 1
    BY <1>1, <1>2 DEF Shrunk
  <2> QED BY <1>1, <1>2, <2>1 DEF InOrder
<1> QED BY <1>1, <1>2 DEF InOrder

\* What is under way but for the first is still.
LEMMA CarriesTaken ==
  ASSUME NEW q, NEW p, Shrunk(q, p), NEW c, NEW s
  PROVE  /\ Carries(q, c, s) => IsNewest(q[1], c, s) \/ Carries(p, c, s)
         /\ \A t : OfTick(q, c, s, t) => OfTick(p, c, s, t)
<1>1. ASSUME NEW i \in DOMAIN q, IsNewest(q[i], c, s), i # 1
      PROVE  Carries(p, c, s)
  BY <1>1 DEF Shrunk, Carries
<1>2. ASSUME NEW t, OfTick(q, c, s, t), NEW i \in DOMAIN p, IsNewest(p[i], c, s)
      PROVE  p[i].tick = t
  BY <1>2 DEF Shrunk, OfTick
<1> QED BY <1>1, <1>2 DEF Carries, OfTick

\* A frame is taken, or it was overtaken; q is the connection it comes on.
After(f, h) ==
  IF f.seq <= h[f.channel].seq /\ f.binding # h[f.channel].binding THEN h ELSE [h EXCEPT ![f.channel] = f]

\* Then the newest of each channel is held or under way, as before.
LEMMA FrameTaken ==
  ASSUME NEW h \in [Channels -> BothFrames], NEW s \in Nat, NEW q, NEW p, NEW r, NEW b, NEW d, b # d,
         Shrunk(q, p), q[1] \in FrameSet(b),
         InOrder(q, b, h, s), InOrder(r, d, h, s), \A c \in Channels : h[c].seq <= s,
         \A i \in DOMAIN q : IsFrame(q[i]) => q[i].channel \in Channels,
         \A i \in DOMAIN r : IsFrame(r[i]) => r[i].channel \in Channels,
         FrameSet(b) \subseteq BothFrames
  PROVE  /\ After(q[1], h) \in [Channels -> BothFrames]
         /\ InOrder(p, b, After(q[1], h), s) /\ InOrder(r, d, After(q[1], h), s)
         /\ \A c \in Channels : After(q[1], h)[c].seq <= s
         /\ \A t : Shown(h, s, q, r, t) => Shown(After(q[1], h), s, p, r, t)
<1> DEFINE f == q[1]
           g == After(f, h)
<1>1. IsFrame(f) /\ f.channel \in Channels /\ f.binding = b /\ f.seq \in Nat /\ f \in BothFrames
  BY DEF IsFrame, FrameSet
<1>2. 1 \in DOMAIN q /\ f.seq <= s /\ (h[f.channel].binding = b => h[f.channel].seq < f.seq)
  BY <1>1 DEF Shrunk, InOrder
<1>3. /\ f.seq <= h[f.channel].seq /\ h[f.channel].binding # b => g = h
      /\ ~(f.seq <= h[f.channel].seq /\ h[f.channel].binding # b) => g = [h EXCEPT ![f.channel] = f]
  BY <1>1 DEF After
<1>4. g \in [Channels -> BothFrames] /\ \A c \in Channels : c # f.channel => g[c] = h[c]
  BY <1>1, <1>3
<1>5. \/ g[f.channel] = h[f.channel] /\ f.seq <= h[f.channel].seq
      \/ g[f.channel] = f /\ h[f.channel].seq < f.seq
      \/ g[f.channel] = f /\ h[f.channel].binding = b
  <2>1. h[f.channel].seq \in Nat
    BY <1>1 DEF BothFrames, FrameSet
  <2>2. f.seq <= h[f.channel].seq \/ h[f.channel].seq < f.seq
    BY <1>1, <2>1
  <2>3. [h EXCEPT ![f.channel] = f][f.channel] = f
    BY <1>1
  <2> QED BY <1>3, <2>2, <2>3
<1> HIDE DEF g
<1>6. \/ g[f.channel] = h[f.channel] /\ f.seq <= h[f.channel].seq
      \/ g[f.channel] = f /\ h[f.channel].seq < f.seq
  BY <1>2, <1>5
<1>7. \A c \in Channels : g[c].seq <= s
  BY <1>2, <1>4, <1>6
<1>8. InOrder(p, b, g, s)
  <2>1. InOrder(p, b, h, s)
    BY OrderTaken
  <2>2. ASSUME NEW i \in DOMAIN p, IsFrame(p[i]), p[i].channel = f.channel, g[f.channel] = f
        PROVE  f.seq < p[i].seq
    <3>1. i \in Nat /\ i + 1 \in DOMAIN q /\ p[i] = q[i + 1] /\ i \in 1..Len(p) /\ Len(p) \in Nat
      BY DEF Shrunk
    <3>2. 1 < i + 1
      BY <3>1
    <3> QED BY <1>1, <1>2, <2>2, <3>1, <3>2 DEF InOrder
  <2>3. ASSUME NEW i \in DOMAIN p, IsFrame(p[i])
        PROVE  p[i].channel \in Channels
    <3>1. i + 1 \in DOMAIN q /\ p[i] = q[i + 1]
      BY DEF Shrunk
    <3> QED BY <2>3, <3>1
  <2>4. ASSUME NEW i \in DOMAIN p, IsFrame(p[i]), g[p[i].channel].binding = b
        PROVE  g[p[i].channel].seq < p[i].seq
    <3>1. CASE p[i].channel = f.channel /\ g[f.channel] = f
      BY <2>2, <2>4, <3>1
    <3>2. CASE g[p[i].channel] = h[p[i].channel]
      BY <2>1, <2>4, <3>2 DEF InOrder
    <3> QED BY <1>4, <1>6, <2>3, <2>4, <3>1, <3>2
  <2> QED BY <2>1, <2>4 DEF InOrder
<1>9. InOrder(r, d, g, s)
  <2>1. ASSUME NEW i \in DOMAIN r, IsFrame(r[i]), g[r[i].channel].binding = d
        PROVE  g[r[i].channel].seq < r[i].seq
    <3>1. g[r[i].channel] = h[r[i].channel]
      BY <1>1, <1>4, <1>6, <2>1
    <3> QED BY <2>1, <3>1 DEF InOrder
  <2> QED BY <2>1 DEF InOrder
<1>10. ASSUME NEW t, Shown(h, s, q, r, t) PROVE Shown(g, s, p, r, t)
  <2> SUFFICES ASSUME NEW c \in Channels
               PROVE  /\ g[c].seq = s \/ Carries(p, c, s) \/ Carries(r, c, s)
                      /\ g[c].seq = s => g[c].tick = t
                      /\ OfTick(p, c, s, t) /\ OfTick(r, c, s, t)
    BY DEF Shown
  <2>1. /\ h[c].seq = s \/ Carries(q, c, s) \/ Carries(r, c, s)
        /\ h[c].seq = s => h[c].tick = t
        /\ OfTick(q, c, s, t) /\ OfTick(r, c, s, t)
    BY <1>10 DEF Shown
  <2>2. /\ Carries(q, c, s) => IsNewest(f, c, s) \/ Carries(p, c, s)
        /\ OfTick(p, c, s, t)
    BY <2>1, CarriesTaken
  <2>3. h[c].seq \in Nat /\ h[c].seq <= s
    BY DEF BothFrames, FrameSet
  <2>4. CASE c # f.channel
    <3>1. g[c] = h[c] /\ ~IsNewest(f, c, s)
      BY <1>4, <2>4 DEF IsNewest
    <3> QED BY <2>1, <2>2, <3>1
  <2>5. CASE c = f.channel
    <3>1. f.seq = s => f.tick = t
      BY <1>1, <1>2, <2>1, <2>5 DEF OfTick, IsNewest
    <3>2. IsNewest(f, c, s) => g[c].seq = s
      BY <1>6, <2>3, <2>5 DEF IsNewest
    <3>3. h[c].seq = s => g[c].seq = s
      BY <1>1, <1>2, <1>6, <2>3, <2>5
    <3>4. g[c].seq = s => g[c].tick = t
      BY <1>6, <2>1, <2>5, <3>1
    <3> QED BY <2>1, <2>2, <3>2, <3>3, <3>4
  <2> QED BY <2>4, <2>5
<1> QED BY <1>4, <1>7, <1>8, <1>9, <1>10 DEF g

-----------------------------------------------------------------------------
(* What the world publishes                                                *)

\* Behind what is sent, more may be.
LEMMA GrownTwice ==
  ASSUME NEW q, NEW p, NEW o, NEW fs, NEW a, NEW ms,
         Grown(q, p, fs), Grown(p, o, a), Grown(fs, ms, a)
  PROVE  Grown(q, o, ms)
<1>1. /\ {Len(q), Len(p), Len(o), Len(fs), Len(a), Len(ms)} \subseteq Nat
      /\ Len(p) = Len(q) + Len(fs) /\ Len(o) = Len(p) + Len(a) /\ Len(ms) = Len(fs) + Len(a)
      /\ DOMAIN q = 1..Len(q) /\ DOMAIN p = 1..Len(p) /\ DOMAIN o = 1..Len(o)
      /\ DOMAIN fs = 1..Len(fs) /\ DOMAIN a = 1..Len(a) /\ DOMAIN ms = 1..Len(ms)
  BY DEF Grown
<1>2. \A i \in DOMAIN q : i \in DOMAIN o /\ o[i] = q[i]
  BY DEF Grown
<1>3. ASSUME NEW i \in DOMAIN ms
      PROVE  Len(q) + i \in DOMAIN o /\ o[Len(q) + i] = ms[i]
  <2>1. CASE i \in DOMAIN fs
    <3>1. ms[i] = fs[i] /\ Len(q) + i \in DOMAIN p /\ p[Len(q) + i] = fs[i]
      BY <2>1 DEF Grown
    <3> QED BY <3>1 DEF Grown
  <2>2. CASE i - Len(fs) \in DOMAIN a /\ ms[i] = a[i - Len(fs)]
    <3>1. Len(p) + (i - Len(fs)) \in DOMAIN o /\ o[Len(p) + (i - Len(fs))] = a[i - Len(fs)]
      BY <2>2 DEF Grown
    <3>2. Len(p) + (i - Len(fs)) = Len(q) + i
      BY <1>1
    <3> QED BY <2>2, <3>1, <3>2
  <2> QED BY <2>1, <2>2 DEF Grown
<1>4. ASSUME NEW i \in DOMAIN o, i \notin DOMAIN q
      PROVE  i - Len(q) \in DOMAIN ms /\ o[i] = ms[i - Len(q)]
  <2>1. i - Len(q) \in DOMAIN ms
    BY <1>1, <1>4
  <2>2. Len(q) + (i - Len(q)) = i
    BY <1>1, <1>4
  <2> QED BY <1>3, <2>1, <2>2
<1> QED BY <1>1, <1>2, <1>3, <1>4 DEF Grown

Reply(answer, e) ==
  \/ answer = <<>>
  \/ \E m \in AnswerSet : answer = <<m>> /\ m.epoch = e

\* Control takes ms and the stream ns: between them a batch, and the answer behind it.
Published(ms, ns, answer, t, e) ==
  /\ control' \in Seq(Inline) /\ stream' \in Seq(FrameSet("ws"))
  /\ Grown(control, control', ms) /\ Grown(stream, stream', ns)
  /\ Sends(ms, seq + 1, t) /\ Sends(ns, seq + 1, t)
  /\ \A i \in DOMAIN ms : ms[i].epoch = e
  /\ \A i \in DOMAIN ms : IsFrame(ms[i]) => ms[i].channel \in Channels
  /\ \A i \in DOMAIN ns : ns[i].epoch = e /\ IsFrame(ns[i]) /\ ns[i].channel \in Channels
  /\ \A c \in Channels : \/ \E i \in DOMAIN ms : IsFrame(ms[i]) /\ ms[i].channel = c
                         \/ \E i \in DOMAIN ns : IsFrame(ns[i]) /\ ns[i].channel = c
  /\ \A i \in DOMAIN ms : ~IsFrame(ms[i]) => i = Len(ms) /\ answer = <<ms[i]>>
  /\ answer # <<>> => Len(ms) \in DOMAIN ms /\ answer = <<ms[Len(ms)]>>
  /\ ~(onStream /\ live) => stream' = stream

\* A batch is frames, one of each channel, and sends them.
LEMMA BatchSends ==
  ASSUME NEW fs, NEW b, NEW s, NEW t, NEW e, Batch(fs, b, s, t, e)
  PROVE  /\ Sends(fs, s, t)
         /\ \A i \in DOMAIN fs : fs[i].epoch = e /\ IsFrame(fs[i]) /\ fs[i].channel \in Channels
         /\ \A c \in Channels : \E i \in DOMAIN fs : IsFrame(fs[i]) /\ fs[i].channel = c
<1>1. \A i \in DOMAIN fs : fs[i] \in FrameSet(b)
  BY Members DEF Batch
<1>2. \A i \in DOMAIN fs : IsFrame(fs[i]) /\ fs[i].channel \in Channels
  BY <1>1 DEF FrameSet, IsFrame
<1> QED BY <1>2 DEF Batch, Sends

\* An answer is no frame.
LEMMA ReplyIs ==
  ASSUME NEW answer, NEW e, Reply(answer, e)
  PROVE  /\ answer \in Seq(AnswerSet) /\ DOMAIN answer = 1..Len(answer) /\ Len(answer) \in 0..1
         /\ \A i \in DOMAIN answer : i = 1 /\ ~IsFrame(answer[i]) /\ answer[i].epoch = e /\ answer = <<answer[i]>>
         /\ answer # <<>> => Len(answer) = 1 /\ answer = <<answer[1]>> /\ 1 \in DOMAIN answer
<1>1. CASE answer = <<>>
  BY <1>1
<1>2. ASSUME NEW m \in AnswerSet, answer = <<m>>, m.epoch = e
      PROVE  /\ answer \in Seq(AnswerSet) /\ DOMAIN answer = 1..1 /\ Len(answer) = 1
             /\ answer[1] = m /\ ~IsFrame(m)
  BY <1>2 DEF AnswerSet, IsFrame
<1> QED BY <1>1, <1>2 DEF Reply

\* Publish does that.
LEMMA PublishSends ==
  ASSUME Typed, NEW answer, NEW t \in Ticks, NEW e \in Nat, Reply(answer, e), Publish(answer, t, e)
  PROVE  seq' = seq + 1 /\ \E ms, ns : Published(ms, ns, answer, t, e)
<1>1. seq \in Nat /\ seq' = seq + 1 /\ seq' \in Nat
  BY DEF Typed, Publish
<1>2. control \in Seq(Inline) /\ stream \in Seq(FrameSet("ws"))
  BY DEF Typed, Inline
<1>3. answer \in Seq(Inline)
  BY ReplyIs DEF Inline
<1>4. CASE onStream /\ live
  <2>1. stream' = stream \o Frames("ws", t, e) /\ control' = control \o answer
    BY <1>4 DEF Publish
  <2>2. Batch(Frames("ws", t, e), "ws", seq + 1, t, e)
    BY <1>1, FramesAreBatch
  <2>3. PICK fs : fs = Frames("ws", t, e) /\ Batch(fs, "ws", seq + 1, t, e) /\ stream' = stream \o fs
    BY <2>1, <2>2
  <2>4. stream' \in Seq(FrameSet("ws")) /\ Grown(stream, stream', fs)
    BY <1>2, <2>3, Joined DEF Batch
  <2>5. control' \in Seq(Inline) /\ Grown(control, control', answer)
    BY <1>2, <1>3, <2>1, Joined
  <2>6. Sends(answer, seq + 1, t) /\ \A i \in DOMAIN answer : ~IsFrame(answer[i])
    BY ReplyIs DEF Sends
  <2>7. /\ Sends(fs, seq + 1, t)
        /\ \A i \in DOMAIN fs : fs[i].epoch = e /\ IsFrame(fs[i]) /\ fs[i].channel \in Channels
        /\ \A c \in Channels : \E i \in DOMAIN fs : IsFrame(fs[i]) /\ fs[i].channel = c
    BY <2>3, BatchSends
  <2>8. /\ \A i \in DOMAIN answer : answer[i].epoch = e /\ i = Len(answer) /\ answer = <<answer[i]>>
        /\ answer # <<>> => Len(answer) \in DOMAIN answer /\ answer = <<answer[Len(answer)]>>
    BY ReplyIs
  <2>9. Published(answer, fs, answer, t, e)
    BY <1>4, <2>4, <2>5, <2>6, <2>7, <2>8 DEF Published
  <2> QED BY <1>1, <2>9
<1>5. CASE ~(onStream /\ live)
  <2>1. control' = (control \o Frames("inline", t, e)) \o answer /\ stream' = stream
    BY <1>5 DEF Publish
  <2>2. Batch(Frames("inline", t, e), "inline", seq + 1, t, e)
    BY <1>1, FramesAreBatch
  <2>3. PICK fs : Batch(fs, "inline", seq + 1, t, e) /\ control' = (control \o fs) \o answer
    BY <2>1, <2>2
  <2> DEFINE ms == fs \o answer
  <2>4. fs \in Seq(Inline)
    BY <2>3 DEF Batch, Inline
  <2>5. control \o fs \in Seq(Inline) /\ Grown(control, control \o fs, fs)
    BY <1>2, <2>4, Joined
  <2>6. control' \in Seq(Inline) /\ Grown(control \o fs, control', answer)
    BY <1>3, <2>3, <2>5, Joined
  <2>7. ms \in Seq(Inline) /\ Grown(fs, ms, answer)
    BY <1>3, <2>4, Joined
  <2> HIDE DEF ms
  <2>8. Grown(control, control', ms)
    BY <2>5, <2>6, <2>7, GrownTwice
  <2>9. stream' \in Seq(FrameSet("ws")) /\ Grown(stream, stream', <<>>) /\ Sends(<<>>, seq + 1, t)
    BY <1>2, <2>1, Unsent DEF Sends
  <2>10. /\ Sends(fs, seq + 1, t)
         /\ \A i \in DOMAIN fs : fs[i].epoch = e /\ IsFrame(fs[i]) /\ fs[i].channel \in Channels
         /\ \A c \in Channels : \E i \in DOMAIN fs : IsFrame(fs[i]) /\ fs[i].channel = c
    BY <2>3, BatchSends
  <2>11. \A i \in DOMAIN ms : \/ i \in DOMAIN fs /\ ms[i] = fs[i]
                              \/ i = Len(ms) /\ i \notin DOMAIN fs /\ ~IsFrame(ms[i]) /\ ms[i].epoch = e /\ answer = <<ms[i]>>
    <3> SUFFICES ASSUME NEW i \in DOMAIN ms, i \notin DOMAIN fs
                 PROVE  i = Len(ms) /\ ~IsFrame(ms[i]) /\ ms[i].epoch = e /\ answer = <<ms[i]>>
      BY <2>7 DEF Grown
    <3>1. i - Len(fs) \in DOMAIN answer /\ ms[i] = answer[i - Len(fs)]
      BY <2>7 DEF Grown
    <3>2. i - Len(fs) = 1 /\ ~IsFrame(ms[i]) /\ ms[i].epoch = e /\ answer = <<ms[i]>> /\ Len(answer) = 1
      BY <3>1, ReplyIs
    <3>3. i = Len(ms)
      BY <2>7, <3>2 DEF Grown
    <3> QED BY <3>2, <3>3
  <2>12. answer # <<>> => Len(ms) \in DOMAIN ms /\ answer = <<ms[Len(ms)]>>
    <3> SUFFICES ASSUME answer # <<>> PROVE Len(ms) \in DOMAIN ms /\ answer = <<ms[Len(ms)]>>
      OBVIOUS
    <3>1. Len(answer) = 1 /\ answer = <<answer[1]>> /\ 1 \in DOMAIN answer
      BY ReplyIs
    <3>2. Len(fs) + 1 \in DOMAIN ms /\ ms[Len(fs) + 1] = answer[1] /\ Len(ms) = Len(fs) + 1
      BY <2>7, <3>1 DEF Grown
    <3> QED BY <3>1, <3>2
  <2>13. Sends(ms, seq + 1, t)
    BY <2>10, <2>11 DEF Sends
  <2>14. \A c \in Channels : \E i \in DOMAIN ms : IsFrame(ms[i]) /\ ms[i].channel = c
    BY <2>7, <2>10 DEF Grown
  <2>15. /\ \A i \in DOMAIN ms : ms[i].epoch = e
         /\ \A i \in DOMAIN ms : IsFrame(ms[i]) => ms[i].channel \in Channels
         /\ \A i \in DOMAIN ms : ~IsFrame(ms[i]) => i = Len(ms) /\ answer = <<ms[i]>>
    BY <2>10, <2>11
  <2>16. Published(ms, <<>>, answer, t, e)
    BY <2>1, <2>6, <2>8, <2>9, <2>12, <2>13, <2>14, <2>15 DEF Published
  <2> QED BY <1>1, <2>16
<1> QED BY <1>4, <1>5

-----------------------------------------------------------------------------
(* The steps of the agent                                                  *)

\* The types of the parts.
LEMMA Parts ==
  ASSUME Typed
  PROVE  /\ held \in [Channels -> BothFrames] /\ seq \in Nat
         /\ control \in Seq(Inline) /\ stream \in Seq(FrameSet("ws"))
         /\ \A i \in DOMAIN control : control[i] \in Inline
         /\ \A i \in DOMAIN stream : stream[i] \in FrameSet("ws") /\ IsFrame(stream[i])
         /\ \A c \in Channels : held[c].seq \in Nat
<1>1. /\ held \in [Channels -> BothFrames] /\ seq \in Nat
      /\ control \in Seq(Inline) /\ stream \in Seq(FrameSet("ws"))
  BY DEF Typed, BothFrames, Inline
<1>2. \A i \in DOMAIN control : control[i] \in Inline
  BY <1>1, Members
<1>3. \A i \in DOMAIN stream : stream[i] \in FrameSet("ws") /\ IsFrame(stream[i])
  <2>1. \A i \in DOMAIN stream : stream[i] \in FrameSet("ws")
    BY <1>1, Members
  <2> QED BY <2>1 DEF FrameSet, IsFrame
<1>4. \A c \in Channels : held[c].seq \in Nat
  BY <1>1 DEF BothFrames, FrameSet
<1> QED BY <1>1, <1>2, <1>3, <1>4

\* A message on the control connection is a frame or an answer.
LEMMA MessageIs ==
  ASSUME NEW m \in Inline
  PROVE  IF IsFrame(m) THEN m \in FrameSet("inline") /\ m.channel \in Channels ELSE m \in AnswerSet
BY DEF Inline, FrameSet, AnswerSet, IsFrame

\* Init: nothing is under way, and nothing has happened.
LEMMA InitIInv == Init => IInv
<1> SUFFICES ASSUME Init PROVE IInv
  OBVIOUS
<1> USE DEF Init
<1>1. \A c \in Channels : held[c] \in FrameSet("inline") /\ held[c].seq = 1 /\ held[c].tick = 0 /\ held[c].epoch = 0
  BY LockstepAssumption DEF FrameSet, Ticks
<1>2. control = <<>> /\ stream = <<>> /\ DOMAIN control = {} /\ DOMAIN stream = {} /\ ~Resetting
  BY DEF Resetting, Range
<1>3. Typed
  <2>1. held \in [Channels -> FrameSet("inline") \union FrameSet("ws")]
    BY <1>1
  <2>2. call \in [at : {"idle", "calling", "answered", "waiting", "resolved"},
                 tick : Ticks \union {None}, epoch : Nat \union {None}] /\ call.at = "idle"
    BY DEF Idle
  <2>3. 0 \in Ticks
    BY LockstepAssumption DEF Ticks
  <2>4. control \in Seq(FrameSet("inline") \union AnswerSet) /\ stream \in Seq(FrameSet("ws"))
    OBVIOUS
  <2>5. tick \in Ticks /\ wtick \in Ticks /\ {epoch, seq, others, losses} \subseteq Nat
    BY <2>3
  <2>6. {up, live, onStream, mismatched, overlapped} \subseteq BOOLEAN /\ requests \subseteq RequestSet
    OBVIOUS
  <2> QED BY <2>1, <2>2, <2>4, <2>5, <2>6 DEF Typed, Told
<1>4. Down /\ Resuming /\ OneAdvance /\ Apart /\ LastTells /\ AskedInTime
  BY <1>2 DEF Down, Resuming, OneAdvance, Apart, LastTells, AskedInTime
<1>5. Ordered /\ Newest
  BY <1>1, <1>2 DEF Ordered, InOrder, Newest, Shown, OfTick, Carries
<1>6. Waits /\ RefusedForCause /\ AdvanceNotStuck
  BY LockstepAssumption DEF Waits, Idle, RefusedForCause, AdvanceNotStuck, Told
<1> QED BY <1>3, <1>4, <1>5, <1>6 DEF IInv

\* What is under way and what is shown is as it was.
Untouched == UNCHANGED <<held, seq, control, stream, up, wtick>>

\* Then the frames are as they were.
LEMMA FramesUntouched ==
  ASSUME Ordered, Newest, Untouched
  PROVE  Ordered' /\ Newest'
BY DEF Untouched, Ordered, Newest

\* The agent asks for the next tick: no other request is under way, and it knows the tick.
LEMMA AdvanceIInv == IInv /\ Advance => IInv'
<1> SUFFICES ASSUME IInv, Advance PROVE IInv'
  OBVIOUS
<1> USE DEF IInv
<1>1. /\ up /\ live /\ call = Idle /\ tick < MaxTick /\ \A r \in requests : r.method # "world.tick"
      /\ overlapped' = (overlapped \/ Resetting)
      /\ call' = [Idle EXCEPT !.at = "calling"]
      /\ UNCHANGED <<tick, held, returned, up, live, control, stream, wtick, epoch, seq, onStream, mismatched, others, losses>>
  BY DEF Advance, Overlap
<1>2. PICK r : r = [method |-> "world.tick", tick |-> tick] /\ requests' = requests \union {r}
  BY DEF Advance
<1>3. call.at = "idle" /\ call'.at = "calling" /\ call' \in [at : {"idle", "calling", "answered", "waiting", "resolved"},
                                                       tick : Ticks \union {None}, epoch : Nat \union {None}]
  BY <1>1 DEF Idle
<1>4. r \in RequestSet /\ r.method = "world.tick" /\ r.tick = tick
  BY <1>1, <1>2 DEF RequestSet, Typed, Ticks
<1>5. overlapped' \in BOOLEAN /\ (overlapped => overlapped')
  BY <1>1 DEF Typed
<1>6. Typed'
  BY <1>1, <1>2, <1>3, <1>4, <1>5 DEF Typed, Told
<1>7. Down' /\ Resuming'
  BY <1>1 DEF Down, Resuming
<1>8. OneAdvance'
  <2>1. \A i \in DOMAIN control : ~EndsAdvance(control[i])
    BY <1>3 DEF OneAdvance
  <2> QED BY <1>1, <1>2, <1>3, <2>1 DEF OneAdvance
<1>9. Resetting' <=> Resetting
  BY <1>1, <1>2, <1>4 DEF Resetting
<1>10. Apart'
  BY <1>1, <1>9 DEF Apart
<1>11. LastTells'
  BY <1>1 DEF LastTells
<1>12. AskedInTime'
  <2> SUFFICES ASSUME others = 0, ~overlapped' PROVE tick = wtick
    BY <1>1, <1>2, <1>4 DEF AskedInTime
  <2>1. ~Resetting
    BY <1>1
  <2>2. ASSUME NEW i \in DOMAIN control PROVE IsFrame(control[i])
    <3>1. control[i].method # "session.resume" /\ ~EndsAdvance(control[i])
      BY <1>1, <1>3 DEF Resuming, OneAdvance
    <3>2. control[i].method # "world.reset"
      BY <2>1 DEF Resetting, Range
    <3>3. control[i] \in Inline
      BY Parts
    <3> QED BY <3>1, <3>2, <3>3, MessageIs DEF AnswerSet, EndsAdvance
  <2> QED BY <1>1, <2>2 DEF LastTells
<1>13. Ordered' /\ Newest'
  BY <1>1, FramesUntouched DEF Untouched
<1>14. Waits' /\ RefusedForCause' /\ AdvanceNotStuck'
  BY <1>1, <1>3, <1>5 DEF Waits, RefusedForCause, AdvanceNotStuck, Told
<1> QED BY <1>6, <1>7, <1>8, <1>10, <1>11, <1>12, <1>13, <1>14

\* A reset is asked for: if an advance is under way, that is noted.
LEMMA ResetIInv == IInv /\ Reset => IInv'
<1> SUFFICES ASSUME IInv, Reset PROVE IInv'
  OBVIOUS
<1> USE DEF IInv
<1>1. /\ up /\ live /\ ~Resetting
      /\ overlapped' = (overlapped \/ call # Idle)
      /\ UNCHANGED <<tick, held, call, returned, up, live, control, stream, wtick, epoch, seq, onStream, mismatched, others, losses>>
  BY DEF Reset, Overlap, client
<1>2. PICK t \in Ticks \ {MaxTick} : requests' = requests \union {[method |-> "world.reset", tick |-> t]}
  BY DEF Reset
<1>3. PICK r \in RequestSet : requests' = requests \union {r} /\ r.method = "world.reset"
  <2> DEFINE m == [method |-> "world.reset", tick |-> t]
  <2>1. m \in RequestSet /\ m.method = "world.reset"
    BY DEF RequestSet
  <2> QED BY <1>2, <2>1
<1>4. overlapped' \in BOOLEAN /\ (overlapped => overlapped')
  BY <1>1 DEF Typed
<1>5. Typed'
  BY <1>1, <1>3, <1>4 DEF Typed
<1>6. Down' /\ Resuming'
  BY <1>1 DEF Down, Resuming
<1>7. OneAdvance'
  BY <1>1, <1>3 DEF OneAdvance
<1>8. Apart'
  <2>1. call.at # "idle" => call # Idle
    BY DEF Idle
  <2> QED BY <1>1, <2>1 DEF Apart
<1>9. LastTells' /\ AskedInTime'
  BY <1>1, <1>3, <1>4 DEF LastTells, AskedInTime
<1>10. Ordered' /\ Newest'
  BY <1>1, FramesUntouched DEF Untouched
<1>11. Waits' /\ RefusedForCause' /\ AdvanceNotStuck'
  BY <1>1, <1>4 DEF Waits, RefusedForCause, AdvanceNotStuck
<1> QED BY <1>5, <1>6, <1>7, <1>8, <1>9, <1>10, <1>11

\* advance is resumed with its answer: it returns with what is held, or waits.
LEMMA CheckIInv == IInv /\ Check => IInv'
<1> SUFFICES ASSUME IInv, Check PROVE IInv'
  OBVIOUS
<1> USE DEF IInv
<1>1. /\ call.at = "answered"
      /\ UNCHANGED <<tick, held, up, live, requests, control, stream, wtick, epoch, seq, onStream, mismatched, overlapped, others, losses>>
  BY DEF Check, link, world
<1>2. \/ HoldsTick(held, call.tick) /\ returned' = [tick |-> call.tick, epoch |-> call.epoch, held |-> held] /\ call' = Idle
      \/ ~HoldsTick(held, call.tick) /\ returned' = returned /\ up /\ call' = [call EXCEPT !.at = "waiting"]
      \/ returned' = returned /\ ~up /\ call' = Idle
  BY DEF Check, Complete
<1>3. /\ call' \in [at : {"idle", "calling", "answered", "waiting", "resolved"},
               tick : Ticks \union {None}, epoch : Nat \union {None}]
      /\ \/ call'.at = "idle"
         \/ call'.at = "waiting" /\ call'.tick = call.tick /\ call'.epoch = call.epoch /\ up /\ ~HoldsTick(held, call.tick)
  BY <1>1, <1>2 DEF Typed, Idle
<1>4. Typed'
  BY <1>1, <1>3 DEF Typed, Told
<1>5. Down' /\ Resuming'
  BY <1>1, <1>3 DEF Down, Resuming
<1>6. OneAdvance'
  <2>1. (\A r \in requests : r.method # "world.tick") /\ \A i \in DOMAIN control : ~EndsAdvance(control[i])
    BY <1>1 DEF OneAdvance
  <2> QED BY <1>1, <2>1 DEF OneAdvance
<1>7. Apart'
  BY <1>1 DEF Apart, Resetting
<1>8. LastTells' /\ AskedInTime'
  BY <1>1 DEF LastTells, AskedInTime
<1>9. Ordered' /\ Newest'
  BY <1>1, FramesUntouched DEF Untouched
<1>10. Waits' /\ RefusedForCause'
  BY <1>1, <1>3 DEF Waits, RefusedForCause, Told
<1>11. AdvanceNotStuck'
  <2>1. call.tick # None
    BY <1>1, LockstepAssumption DEF Typed, Ticks, Told
  <2> QED BY <1>1, <1>2, <2>1 DEF AdvanceNotStuck
<1> QED BY <1>4, <1>5, <1>6, <1>7, <1>8, <1>9, <1>10, <1>11

\* advance returns: it is over.
LEMMA ReturnIInv == IInv /\ Return => IInv'
<1> SUFFICES ASSUME IInv, Return PROVE IInv'
  OBVIOUS
<1> USE DEF IInv
<1>1. /\ call.at = "resolved" /\ call' = Idle
      /\ returned' = [tick |-> call.tick, epoch |-> call.epoch, held |-> held]
      /\ UNCHANGED <<tick, held, up, live, requests, control, stream, wtick, epoch, seq, onStream, mismatched, overlapped, others, losses>>
  BY DEF Return, Complete, link, world
<1>2. /\ call'.at = "idle"
      /\ call' \in [at : {"idle", "calling", "answered", "waiting", "resolved"},
                    tick : Ticks \union {None}, epoch : Nat \union {None}]
  BY <1>1 DEF Idle
<1>3. Typed'
  BY <1>1, <1>2 DEF Typed, Told
<1>4. Down' /\ Resuming' /\ LastTells' /\ AskedInTime'
  BY <1>1, <1>2 DEF Down, Resuming, LastTells, AskedInTime
<1>5. OneAdvance' /\ Apart'
  BY <1>1, <1>2 DEF OneAdvance, Apart
<1>6. Ordered' /\ Newest'
  BY <1>1, FramesUntouched DEF Untouched
<1>7. Waits' /\ RefusedForCause'
  BY <1>1, <1>2 DEF Waits, Told, RefusedForCause
<1>8. AdvanceNotStuck'
  <2>1. call.tick # None
    BY <1>1, LockstepAssumption DEF Typed, Told, Ticks
  <2> QED BY <1>1, <2>1 DEF AdvanceNotStuck
<1> QED BY <1>3, <1>4, <1>5, <1>6, <1>7, <1>8

\* The waiter looks at what is held: it is resolved, or it goes on to wait.
Resolves ==
  /\ returned' = returned
  /\ \/ call.at = "waiting" /\ HoldsTick(held', call.tick) /\ call' = [call EXCEPT !.at = "resolved"]
     \/ call' = call /\ (call.at = "waiting" => ~HoldsTick(held', call.tick))

\* What a frame does to the client.
LEMMA FrameDoes ==
  ASSUME IInv, NEW f, NEW b \in {"inline", "ws"}, f \in FrameSet(b), Frame(f)
  PROVE  held' = After(f, held) /\ held' \in [Channels -> BothFrames] /\ Resolves
<1> USE DEF IInv
<1>1. held' = After(f, held)
  BY DEF Frame, After, Overtaken
<1>2. held \in [Channels -> BothFrames] /\ f \in BothFrames /\ f.channel \in Channels
  <2>1. f \in BothFrames /\ f.channel \in Channels
    BY DEF BothFrames, FrameSet
  <2> QED BY <2>1, Parts
<1>3. held' \in [Channels -> BothFrames]
  BY <1>1, <1>2 DEF After
<1>4. Resolves
  BY DEF Frame, Dispatch, Resolves
<1> QED BY <1>1, <1>3, <1>4

\* What a frame leaves of the invariant but for the order and the connections.
LEMMA FrameCall ==
  ASSUME IInv, Resolves, UNCHANGED <<up, wtick, epoch, overlapped, mismatched, others>>
  PROVE  /\ call' \in [at : {"idle", "calling", "answered", "waiting", "resolved"},
                       tick : Ticks \union {None}, epoch : Nat \union {None}]
         /\ call'.at \in Told => call'.tick \in Ticks /\ call'.epoch \in Nat
         /\ call'.at = "idle" <=> call.at = "idle"
         /\ call.at \in {"idle", "calling"} => call' = call
         /\ Waits' /\ RefusedForCause' /\ AdvanceNotStuck'
<1> USE DEF IInv
<1>1. RefusedForCause' /\ AdvanceNotStuck'
  BY DEF Resolves, RefusedForCause, AdvanceNotStuck
<1>2. CASE call.at = "waiting" /\ HoldsTick(held', call.tick) /\ call' = [call EXCEPT !.at = "resolved"]
  <2>1. /\ call'.at = "resolved" /\ call'.tick = call.tick /\ call'.epoch = call.epoch
        /\ call' \in [at : {"idle", "calling", "answered", "waiting", "resolved"},
                      tick : Ticks \union {None}, epoch : Nat \union {None}]
    BY <1>2 DEF Typed
  <2>2. call.tick \in Ticks /\ call.epoch \in Nat /\ call.at \in Told
    BY <1>2 DEF Typed, Told
  <2>3. Waits'
    BY <2>1, <2>2 DEF Waits
  <2> QED BY <1>1, <1>2, <2>1, <2>2, <2>3
<1>3. CASE call' = call /\ (call.at = "waiting" => ~HoldsTick(held', call.tick))
  <2>1. Waits'
    BY <1>3 DEF Waits
  <2> QED BY <1>1, <1>3, <2>1 DEF Typed
<1> QED BY <1>2, <1>3 DEF Resolves

\* A frame on the stream connection.
LEMMA ReadStreamIInv == IInv /\ ReadStream => IInv'
<1> SUFFICES ASSUME IInv, ReadStream PROVE IInv'
  OBVIOUS
<1> USE DEF IInv
<1> DEFINE f == Head(stream)
<1>1. /\ stream # <<>> /\ stream' = Tail(stream) /\ Frame(f)
      /\ UNCHANGED <<tick, up, live, requests, control, wtick, epoch, seq, onStream, mismatched, overlapped, others, losses>>
  BY DEF ReadStream, world
<1>2. /\ stream' \in Seq(FrameSet("ws")) /\ Shrunk(stream, stream') /\ f \in FrameSet("ws")
      /\ f = stream[1] /\ 1 \in DOMAIN stream /\ up /\ live
  <2>1. stream' \in Seq(FrameSet("ws")) /\ Shrunk(stream, stream') /\ f \in FrameSet("ws")
    BY <1>1, Parts, Taken
  <2>2. up /\ live
    BY <1>1 DEF Down, Resuming, Typed
  <2> QED BY <2>1, <2>2 DEF Shrunk
<1> HIDE DEF f
<1>3. held' = After(f, held) /\ held' \in [Channels -> BothFrames] /\ Resolves
  BY <1>1, <1>2, FrameDoes
<1>4. /\ call' \in [at : {"idle", "calling", "answered", "waiting", "resolved"},
                    tick : Ticks \union {None}, epoch : Nat \union {None}]
      /\ call'.at \in Told => call'.tick \in Ticks /\ call'.epoch \in Nat
      /\ call'.at = "idle" <=> call.at = "idle"
      /\ call.at \in {"idle", "calling"} => call' = call
      /\ Waits' /\ RefusedForCause' /\ AdvanceNotStuck'
  BY <1>1, <1>3, FrameCall
<1>5. Typed'
  BY <1>1, <1>2, <1>3, <1>4 DEF Typed, BothFrames, Resolves
<1>6. Down' /\ Resuming'
  BY <1>1, <1>2 DEF Down, Resuming
<1>7. OneAdvance' /\ Apart'
  <2>1. call'.at # "idle" => call.at # "idle"
    BY <1>4
  <2>2. Resetting' <=> Resetting
    BY <1>1 DEF Resetting
  <2> QED BY <1>1, <1>4, <2>1, <2>2 DEF OneAdvance, Apart
<1>8. LastTells' /\ AskedInTime'
  BY <1>1 DEF LastTells, AskedInTime
<1>9. /\ InOrder(stream', "ws", held', seq) /\ InOrder(control, "inline", held', seq)
      /\ \A c \in Channels : held'[c].seq <= seq
      /\ \A t : Shown(held, seq, stream, control, t) => Shown(held', seq, stream', control, t)
  <2>1. \A i \in DOMAIN control : IsFrame(control[i]) => control[i].channel \in Channels
    BY Parts, MessageIs
  <2>2. \A i \in DOMAIN stream : stream[i].channel \in Channels
    BY Parts DEF FrameSet
  <2>3. held \in [Channels -> BothFrames] /\ seq \in Nat /\ FrameSet("ws") \subseteq BothFrames
    BY Parts DEF BothFrames
  <2> QED BY <1>2, <1>3, <2>1, <2>2, <2>3, FrameTaken DEF Ordered, Newest
<1>10. Ordered' /\ Newest'
  <2>1. \A h, s, q, r, t : Shown(h, s, q, r, t) <=> Shown(h, s, r, q, t)
    BY DEF Shown
  <2>2. Shown(held, seq, stream, control, wtick)
    BY <1>2, <2>1 DEF Newest
  <2>3. Shown(held', seq, control, stream', wtick)
    BY <1>9, <2>1, <2>2
  <2> QED BY <1>1, <1>9, <2>3 DEF Ordered, Newest
<1> QED BY <1>4, <1>5, <1>6, <1>7, <1>8, <1>10

\* Of the messages on the control connection, one is taken.
TookControl == control' \in Seq(Inline) /\ Shrunk(control, control') /\ control[1] = Head(control)

\* The rest of the connection is as it was.
LEMMA ReadControlTakes ==
  ASSUME IInv, ReadControl
  PROVE  /\ up /\ TookControl /\ Head(control) \in Inline
         /\ UNCHANGED <<up, requests, stream, wtick, epoch, seq, onStream, mismatched, overlapped, others, losses>>
         /\ \A i \in DOMAIN control' : control'[i] \in Inline
<1> USE DEF IInv
<1>1. up /\ control # <<>> /\ control' = Tail(control)
      /\ UNCHANGED <<up, requests, stream, wtick, epoch, seq, onStream, mismatched, overlapped, others, losses>>
  BY DEF ReadControl, world
<1>2. control' \in Seq(Inline) /\ Shrunk(control, control') /\ Head(control) \in Inline
  BY <1>1, Parts, Taken
<1>3. control[1] = Head(control)
  BY <1>2 DEF Shrunk
<1>4. \A i \in DOMAIN control' : control'[i] \in Inline
  BY <1>2, Members
<1> QED BY <1>1, <1>2, <1>3, <1>4 DEF TookControl

\* What is left ends no more advances than before; no reset comes of it.
LEMMA TookKeeps ==
  ASSUME IInv, TookControl, UNCHANGED requests
  PROVE  /\ Resetting' => Resetting
         /\ \A r \in requests : r.method = "world.tick" =>
              \A i \in DOMAIN control' : ~EndsAdvance(control'[i])
         /\ \A i \in DOMAIN control' : EndsAdvance(control'[i]) =>
              \A j \in DOMAIN control' : EndsAdvance(control'[j]) => j = i
<1> USE DEF IInv, TookControl
<1>1. \A i \in DOMAIN control' : i + 1 \in DOMAIN control /\ control'[i] = control[i + 1] /\ i \in Nat
  BY DEF Shrunk
<1>2. Resetting' => Resetting
  <2>1. \A m \in Range(control') : m \in Range(control)
    BY <1>1 DEF Range
  <2> QED BY <2>1 DEF Resetting
<1>3. ASSUME NEW r \in requests, r.method = "world.tick", NEW i \in DOMAIN control'
      PROVE  ~EndsAdvance(control'[i])
  BY <1>1, <1>3 DEF OneAdvance
<1>4. ASSUME NEW i \in DOMAIN control', EndsAdvance(control'[i]), NEW j \in DOMAIN control', EndsAdvance(control'[j])
      PROVE  j = i
  <2>1. j + 1 = i + 1
    BY <1>1, <1>4 DEF OneAdvance
  <2> QED BY <1>1, <2>1
<1> QED BY <1>2, <1>3, <1>4

\* An inline frame.
LEMMA ReadFrameIInv ==
  ASSUME IInv, ReadControl, IsFrame(Head(control)), Frame(Head(control)), UNCHANGED <<tick, live>>
  PROVE  IInv'
<1> USE DEF IInv
<1> DEFINE f == Head(control)
<1>1. /\ up /\ TookControl /\ f \in FrameSet("inline") /\ 1 \in DOMAIN control /\ f = control[1]
      /\ UNCHANGED <<tick, up, live, requests, stream, wtick, epoch, seq, onStream, mismatched, overlapped, others, losses>>
  <2>1. f \in FrameSet("inline")
    BY ReadControlTakes, MessageIs
  <2> QED BY <2>1, ReadControlTakes DEF TookControl, Shrunk
<1>2. live
  BY <1>1 DEF Resuming, IsFrame, Typed
<1> HIDE DEF f
<1>3. held' = After(f, held) /\ held' \in [Channels -> BothFrames] /\ Resolves
  BY <1>1, FrameDoes DEF f
<1>4. /\ call' \in [at : {"idle", "calling", "answered", "waiting", "resolved"},
                    tick : Ticks \union {None}, epoch : Nat \union {None}]
      /\ call'.at \in Told => call'.tick \in Ticks /\ call'.epoch \in Nat
      /\ call'.at = "idle" <=> call.at = "idle"
      /\ call.at \in {"idle", "calling"} => call' = call
      /\ Waits' /\ RefusedForCause' /\ AdvanceNotStuck'
  BY <1>1, <1>3, FrameCall
<1>5. Typed'
  BY <1>1, <1>3, <1>4 DEF Typed, BothFrames, TookControl, Inline, Resolves
<1>6. /\ \A i \in DOMAIN control' : i + 1 \in DOMAIN control /\ control'[i] = control[i + 1] /\ i \in Nat
      /\ \A i \in DOMAIN control : i = 1 \/ (i - 1 \in DOMAIN control' /\ control'[i - 1] = control[i] /\ i \in Nat)
  BY <1>1 DEF TookControl, Shrunk
<1>7. Down' /\ Resuming'
  BY <1>1, <1>2, <1>6 DEF Down, Resuming
<1>8. OneAdvance' /\ Apart'
  <2>1. call'.at # "idle" => call.at # "idle"
    BY <1>4
  <2>2. \A i \in DOMAIN control' : EndsAdvance(control'[i]) => call.at = "calling"
    BY <1>6 DEF OneAdvance
  <2> QED BY <1>1, <1>4, <2>1, <2>2, TookKeeps DEF OneAdvance, Apart
<1>9. LastTells'
  <2> SUFFICES ASSUME others = 0
               PROVE  /\ \A i \in DOMAIN control' :
                           ~IsFrame(control'[i]) /\ (\A j \in DOMAIN control' : j > i => IsFrame(control'[j])) =>
                             control'[i].tick = wtick
                      /\ (\A i \in DOMAIN control' : IsFrame(control'[i])) => tick = wtick
    BY <1>1 DEF LastTells
  <2>1. ASSUME NEW i \in DOMAIN control', ~IsFrame(control'[i]), \A j \in DOMAIN control' : j > i => IsFrame(control'[j])
        PROVE  control'[i].tick = wtick
    <3>1. ASSUME NEW j \in DOMAIN control, j > i + 1 PROVE IsFrame(control[j])
      <4>1. j # 1
        BY <1>6, <3>1
      <4>2. j - 1 \in DOMAIN control' /\ control'[j - 1] = control[j] /\ j - 1 > i
        BY <1>6, <3>1, <4>1
      <4> QED BY <2>1, <4>2
    <3> QED BY <1>1, <1>6, <2>1, <3>1 DEF LastTells
  <2>2. ASSUME \A i \in DOMAIN control' : IsFrame(control'[i]) PROVE tick = wtick
    <3>1. \A i \in DOMAIN control : IsFrame(control[i])
      BY <1>1, <1>6, <2>2 DEF f
    <3> QED BY <1>1, <3>1 DEF LastTells
  <2> QED BY <2>1, <2>2
<1>10. AskedInTime'
  BY <1>1 DEF AskedInTime
<1>11. /\ InOrder(control', "inline", held', seq) /\ InOrder(stream, "ws", held', seq)
       /\ \A c \in Channels : held'[c].seq <= seq
       /\ \A t : Shown(held, seq, control, stream, t) => Shown(held', seq, control', stream, t)
  <2>1. \A i \in DOMAIN control : IsFrame(control[i]) => control[i].channel \in Channels
    BY Parts, MessageIs
  <2>2. \A i \in DOMAIN stream : stream[i].channel \in Channels
    BY Parts DEF FrameSet
  <2>3. held \in [Channels -> BothFrames] /\ seq \in Nat /\ FrameSet("inline") \subseteq BothFrames
    BY Parts DEF BothFrames
  <2> QED BY <1>1, <1>3, <2>1, <2>2, <2>3, FrameTaken DEF Ordered, Newest, TookControl
<1>12. Ordered' /\ Newest'
  BY <1>1, <1>11 DEF Ordered, Newest
<1> QED BY <1>4, <1>5, <1>7, <1>8, <1>9, <1>10, <1>12

\* What the answers have in common: the client takes the tick of the one it reads, which is the
\* world's if no other is under way.
LEMMA AnswerTells ==
  ASSUME IInv, TookControl, up, ~IsFrame(Head(control)), tick' = Head(control).tick,
         UNCHANGED <<up, wtick, others>>
  PROVE  /\ LastTells' /\ tick' \in Ticks
         /\ others = 0 /\ (\A i \in DOMAIN control' : IsFrame(control'[i])) => Head(control).tick = wtick
<1> USE DEF IInv
<1>1. /\ \A i \in DOMAIN control' : i + 1 \in DOMAIN control /\ control'[i] = control[i + 1] /\ i \in Nat
      /\ \A i \in DOMAIN control : i = 1 \/ (i - 1 \in DOMAIN control' /\ control'[i - 1] = control[i] /\ i \in Nat)
      /\ 1 \in DOMAIN control /\ control[1] = Head(control)
  BY DEF TookControl, Shrunk
<1>2. tick' \in Ticks
  <2>1. Head(control) \in Inline
    BY <1>1, Parts
  <2> QED BY <2>1, MessageIs DEF AnswerSet
<1>3. others = 0 /\ (\A i \in DOMAIN control' : IsFrame(control'[i])) => Head(control).tick = wtick
  <2> SUFFICES ASSUME others = 0, \A i \in DOMAIN control' : IsFrame(control'[i]) PROVE Head(control).tick = wtick
    OBVIOUS
  <2>1. \A j \in DOMAIN control : j > 1 => IsFrame(control[j])
    BY <1>1
  <2> QED BY <1>1, <2>1 DEF LastTells
<1>4. ASSUME others = 0, NEW i \in DOMAIN control', ~IsFrame(control'[i]),
             \A j \in DOMAIN control' : j > i => IsFrame(control'[j])
      PROVE  control'[i].tick = wtick
  <2>1. ASSUME NEW j \in DOMAIN control, j > i + 1 PROVE IsFrame(control[j])
    <3>1. j # 1
      BY <1>1, <2>1
    <3>2. j - 1 \in DOMAIN control' /\ control'[j - 1] = control[j] /\ j - 1 > i
      BY <1>1, <2>1, <3>1
    <3> QED BY <1>4, <3>2
  <2> QED BY <1>1, <1>4, <2>1 DEF LastTells
<1>5. LastTells'
  BY <1>3, <1>4 DEF LastTells
<1> QED BY <1>2, <1>3, <1>5

\* And no frame is touched, unless the session is resumed.
LEMMA AnswerFrames ==
  ASSUME IInv, TookControl, ~IsFrame(Head(control)), UNCHANGED <<held, up, seq, stream, wtick>>
  PROVE  Ordered' /\ Newest'
<1> USE DEF IInv
<1>1. Shrunk(control, control') /\ control[1] = Head(control)
  BY DEF TookControl
<1>2. InOrder(control', "inline", held, seq)
  BY <1>1, OrderTaken DEF Ordered
<1>3. ASSUME NEW c PROVE /\ Carries(control, c, seq) => Carries(control', c, seq)
                         /\ OfTick(control, c, seq, wtick) => OfTick(control', c, seq, wtick)
  BY <1>1, CarriesTaken DEF IsNewest
<1>4. Shown(held, seq, control, stream, wtick) => Shown(held, seq, control', stream, wtick)
  BY <1>3 DEF Shown
<1> QED BY <1>2, <1>4 DEF Ordered, Newest

\* The answer to advance, or its refusal: nothing else was asked, unless a reset was.
LEMMA ReadAnswerIInv ==
  ASSUME IInv, ReadControl, EndsAdvance(Head(control)), tick' = Head(control).tick,
         \/ call' = Idle
         \/ call' = [at |-> "answered", tick |-> Head(control).tick, epoch |-> Head(control).epoch],
         UNCHANGED <<held, returned, live>>
  PROVE  IInv'
<1> USE DEF IInv
<1> DEFINE m == Head(control)
<1>1. /\ up /\ TookControl /\ ~IsFrame(m) /\ m \in AnswerSet /\ 1 \in DOMAIN control /\ m = control[1]
      /\ UNCHANGED <<up, requests, stream, wtick, epoch, seq, onStream, mismatched, overlapped, others, losses>>
  <2>1. ~IsFrame(m)
    BY DEF EndsAdvance, IsFrame
  <2> QED BY <2>1, ReadControlTakes, MessageIs DEF TookControl, Shrunk
<1>2. /\ call.at = "calling" /\ live /\ (\A r \in requests : r.method # "world.tick")
      /\ \A i \in DOMAIN control : EndsAdvance(control[i]) => i = 1
  <2>1. call.at = "calling" /\ \A i \in DOMAIN control : EndsAdvance(control[i]) => i = 1
    BY <1>1 DEF OneAdvance
  <2> QED BY <1>1, <2>1 DEF OneAdvance, Resuming, Typed
<1>3. /\ \A i \in DOMAIN control' : i + 1 \in DOMAIN control /\ control'[i] = control[i + 1] /\ i \in Nat /\ i + 1 # 1
  BY <1>1 DEF TookControl, Shrunk
<1>4. \A i \in DOMAIN control' : ~EndsAdvance(control'[i])
  BY <1>2, <1>3
<1>5. LastTells' /\ tick' \in Ticks
      /\ (others = 0 /\ (\A i \in DOMAIN control' : IsFrame(control'[i])) => m.tick = wtick)
  BY <1>1, AnswerTells
<1>6. Resetting' => Resetting
  BY <1>1, TookKeeps
<1>7. others = 0 /\ ~overlapped => m.tick = wtick
  <2> SUFFICES ASSUME others = 0, ~overlapped, NEW i \in DOMAIN control' PROVE IsFrame(control'[i])
    BY <1>5
  <2>1. control'[i] \in Inline
    BY <1>1, ReadControlTakes
  <2>2. control'[i].method # "session.resume"
    BY <1>2, <1>3 DEF Resuming
  <2>3. control'[i].method # "world.reset"
    <3>1. control'[i] \in Range(control)
      BY <1>3 DEF Range
    <3>2. ~Resetting
      BY <1>2 DEF Apart
    <3> QED BY <3>1, <3>2 DEF Resetting
  <2> QED BY <1>4, <2>1, <2>2, <2>3, MessageIs DEF AnswerSet, EndsAdvance
<1>8. m.tick \in Ticks /\ m.epoch \in Nat
  BY <1>1 DEF AnswerSet
<1> HIDE DEF m
<1>9. /\ call' \in [at : {"idle", "calling", "answered", "waiting", "resolved"},
                    tick : Ticks \union {None}, epoch : Nat \union {None}]
      /\ \/ call'.at = "idle"
         \/ call'.at = "answered" /\ call'.tick = m.tick /\ call'.epoch = m.epoch
  BY <1>8 DEF Idle, m
<1>10. Typed'
  BY <1>1, <1>5, <1>8, <1>9 DEF Typed, TookControl, Inline, Told
<1>11. Down' /\ Resuming'
  BY <1>1, <1>2, <1>3 DEF Down, Resuming
<1>12. OneAdvance'
  BY <1>1, <1>2, <1>4 DEF OneAdvance
<1>13. Apart' /\ AskedInTime'
  BY <1>1, <1>2, <1>6 DEF Apart, AskedInTime
<1>14. Ordered' /\ Newest'
  BY <1>1, AnswerFrames DEF m
<1>15. Waits' /\ RefusedForCause' /\ AdvanceNotStuck'
  BY <1>1, <1>7, <1>9 DEF Waits, RefusedForCause, AdvanceNotStuck, Told
<1> QED BY <1>5, <1>10, <1>11, <1>12, <1>13, <1>14, <1>15

\* The result of a reset: the client is at its tick.
LEMMA ReadResetIInv ==
  ASSUME IInv, ReadControl, Head(control).method = "world.reset", tick' = Head(control).tick,
         UNCHANGED <<held, call, returned, live>>
  PROVE  IInv'
<1> USE DEF IInv
<1> DEFINE m == Head(control)
<1>1. /\ up /\ TookControl /\ ~IsFrame(m) /\ 1 \in DOMAIN control /\ m = control[1]
      /\ UNCHANGED <<up, requests, stream, wtick, epoch, seq, onStream, mismatched, overlapped, others, losses>>
  <2>1. ~IsFrame(m)
    BY DEF IsFrame
  <2> QED BY <2>1, ReadControlTakes DEF TookControl, Shrunk
<1>2. live
  BY <1>1 DEF Resuming, Typed
<1>3. \A i \in DOMAIN control' : i + 1 \in DOMAIN control /\ control'[i] = control[i + 1] /\ i \in Nat
  BY <1>1 DEF TookControl, Shrunk
<1>4. LastTells' /\ tick' \in Ticks
  BY <1>1, AnswerTells
<1>5. Typed'
  BY <1>1, <1>4 DEF Typed, TookControl, Inline
<1>6. Down' /\ Resuming'
  BY <1>1, <1>2, <1>3 DEF Down, Resuming
<1>7. OneAdvance' /\ Apart' /\ AskedInTime'
  <2>1. \A i \in DOMAIN control' : EndsAdvance(control'[i]) => call.at = "calling"
    BY <1>3 DEF OneAdvance
  <2> QED BY <1>1, <2>1, TookKeeps DEF OneAdvance, Apart, AskedInTime
<1>8. Ordered' /\ Newest'
  BY <1>1, AnswerFrames
<1>9. Waits' /\ RefusedForCause' /\ AdvanceNotStuck'
  BY <1>1 DEF Waits, RefusedForCause, AdvanceNotStuck
<1> QED BY <1>4, <1>5, <1>6, <1>7, <1>8, <1>9

\* The result of a resumption: the channels start again, behind it come their frames.
LEMMA ReadResumeIInv ==
  ASSUME IInv, ReadControl, Head(control).method = "session.resume", tick' = Head(control).tick,
         live' = TRUE, held' = [c \in Channels |-> [held[c] EXCEPT !.seq = 0]],
         UNCHANGED <<call, returned>>
  PROVE  IInv'
<1> USE DEF IInv
<1> DEFINE m == Head(control)
<1>1. /\ up /\ TookControl /\ ~IsFrame(m) /\ 1 \in DOMAIN control /\ m = control[1]
      /\ UNCHANGED <<up, requests, stream, wtick, epoch, seq, onStream, mismatched, overlapped, others, losses>>
  <2>1. ~IsFrame(m)
    BY DEF IsFrame
  <2> QED BY <2>1, ReadControlTakes DEF TookControl, Shrunk
<1>2. /\ ~live /\ requests = {} /\ stream = <<>> /\ call.at = "idle"
      /\ \A i \in DOMAIN control : i # 1 => IsFrame(control[i])
      /\ \A c \in Channels : held[c].seq < seq
  BY <1>1 DEF Resuming, Typed
<1>3. \A i \in DOMAIN control' : i + 1 \in DOMAIN control /\ control'[i] = control[i + 1] /\ i \in Nat /\ i + 1 # 1
  BY <1>1 DEF TookControl, Shrunk
<1>4. \A i \in DOMAIN control' : IsFrame(control'[i]) /\ ~EndsAdvance(control'[i])
  BY <1>2, <1>3 DEF IsFrame, EndsAdvance
<1>5. LastTells' /\ tick' \in Ticks
  BY <1>1, AnswerTells
<1>6. /\ held' \in [Channels -> FrameSet("inline") \union FrameSet("ws")]
      /\ \A c \in Channels : /\ held'[c].seq = 0 /\ held'[c].tick = held[c].tick
                             /\ held'[c].epoch = held[c].epoch /\ held'[c].binding = held[c].binding
  <2>1. \A c \in Channels : held[c] \in FrameSet("inline") \/ held[c] \in FrameSet("ws")
    BY DEF Typed
  <2>2. \A c \in Channels : held'[c] = [held[c] EXCEPT !.seq = 0]
    OBVIOUS
  <2>3. \A c \in Channels : /\ held'[c] \in FrameSet("inline") \/ held'[c] \in FrameSet("ws")
                            /\ held'[c].seq = 0 /\ held'[c].tick = held[c].tick
                            /\ held'[c].epoch = held[c].epoch /\ held'[c].binding = held[c].binding
    BY <2>1, <2>2 DEF FrameSet
  <2> QED BY <2>3
<1>7. Typed'
  BY <1>1, <1>5, <1>6 DEF Typed, TookControl, Inline
<1>8. Down' /\ Resuming'
  BY <1>1, <1>4 DEF Down, Resuming, IsFrame
<1>9. OneAdvance' /\ Apart' /\ AskedInTime'
  BY <1>1, <1>2, <1>4 DEF OneAdvance, Apart, AskedInTime
<1>10. Ordered'
  <2>1. InOrder(control', "inline", held, seq)
    BY <1>1, OrderTaken DEF Ordered, TookControl
  <2>2. ASSUME NEW i \in DOMAIN control', IsFrame(control'[i])
        PROVE  held'[control'[i].channel].seq < control'[i].seq
    <3>1. control'[i].channel \in Channels
      BY <1>1, <2>2, ReadControlTakes, MessageIs
    <3>2. 0 < control'[i].seq
      BY <2>1, <2>2 DEF InOrder
    <3> QED BY <1>6, <3>1, <3>2
  <2>3. InOrder(control', "inline", held', seq)
    BY <2>1, <2>2 DEF InOrder
  <2>4. InOrder(stream', "ws", held', seq)
    BY <1>1, <1>2 DEF InOrder
  <2> QED BY <1>1, <2>3, <2>4 DEF Ordered
<1>11. Newest'
  <2>1. seq \in Nat /\ (\A c \in Channels : held[c].seq \in Nat) /\ Shown(held, seq, control, stream, wtick)
    BY <1>1, Parts DEF Newest
  <2>2. ASSUME NEW c \in Channels
        PROVE  /\ held'[c].seq <= seq /\ held'[c].seq # seq
               /\ Carries(control', c, seq)
               /\ OfTick(control', c, seq, wtick) /\ OfTick(stream, c, seq, wtick)
    <3>1. held'[c].seq = 0 /\ seq > 0 /\ held[c].seq # seq
      BY <1>2, <1>6, <2>1
    <3>2. ~Carries(stream, c, seq)
      BY <1>2 DEF Carries
    <3>3. Carries(control, c, seq) /\ OfTick(control, c, seq, wtick) /\ OfTick(stream, c, seq, wtick)
      BY <2>1, <3>1, <3>2 DEF Shown
    <3>4. Carries(control', c, seq) /\ OfTick(control', c, seq, wtick)
      BY <1>1, <3>3, CarriesTaken DEF TookControl, IsNewest
    <3> QED BY <2>1, <3>1, <3>3, <3>4
  <2> QED BY <1>1, <2>2 DEF Newest, Shown
<1>12. Waits' /\ RefusedForCause' /\ AdvanceNotStuck'
  BY <1>1, <1>2 DEF Waits, RefusedForCause, AdvanceNotStuck
<1> QED BY <1>5, <1>7, <1>8, <1>9, <1>10, <1>11, <1>12

\* Whatever the client reads on the control connection.
LEMMA ReadControlIInv == IInv /\ ReadControl => IInv'
<1> SUFFICES ASSUME IInv, ReadControl PROVE IInv'
  OBVIOUS
<1>1. CASE IsFrame(Head(control)) /\ Frame(Head(control)) /\ UNCHANGED <<tick, live>>
  BY <1>1, ReadFrameIInv
<1>2. CASE Head(control).method = "world.tick" /\ Answered(Head(control)) /\ UNCHANGED <<held, returned, live>>
  BY <1>2, ReadAnswerIInv DEF Answered, EndsAdvance
<1>3. CASE /\ Head(control).method = "error"
           /\ tick' = RefusedTick(Head(control)) /\ call' = Idle /\ UNCHANGED <<held, returned, live>>
  BY <1>3, ReadAnswerIInv DEF RefusedTick, EndsAdvance
<1>4. CASE /\ Head(control).method = "world.reset"
           /\ tick' = ResultTick(Head(control)) /\ UNCHANGED <<held, call, returned, live>>
  BY <1>4, ReadResetIInv DEF ResultTick
<1>5. CASE /\ Head(control).method = "session.resume"
           /\ tick' = ResultTick(Head(control)) /\ live' = TRUE
           /\ held' = [c \in Channels |-> [held[c] EXCEPT !.seq = 0]]
           /\ UNCHANGED <<call, returned>>
  BY <1>5, ReadResumeIInv DEF ResultTick
<1> QED BY <1>1, <1>2, <1>3, <1>4, <1>5 DEF ReadControl, IsFrame

\* The connection is lost, with the waiter, but not with an answer that was there already.
LEMMA LoseIInv == IInv /\ Lose => IInv'
<1> SUFFICES ASSUME IInv, Lose PROVE IInv'
  OBVIOUS
<1> USE DEF IInv
<1>1. /\ losses' = losses + 1 /\ up' = FALSE /\ live' = FALSE
      /\ requests' = {} /\ control' = <<>> /\ stream' = <<>>
      /\ UNCHANGED <<tick, held, returned, wtick, epoch, seq, onStream, mismatched, overlapped, others>>
  BY DEF Lose, Asked, world
<1>2. (call' = call /\ call.at \in {"answered", "resolved"}) \/ call' = Idle
  BY DEF Lose
<1>3. /\ call' \in [at : {"idle", "calling", "answered", "waiting", "resolved"},
                    tick : Ticks \union {None}, epoch : Nat \union {None}]
      /\ call'.at = "idle" \/ (call'.at \in {"answered", "resolved"} /\ call' = call)
  BY <1>2 DEF Idle, Typed
<1>4. DOMAIN control' = {} /\ DOMAIN stream' = {} /\ ~Resetting'
  BY <1>1 DEF Resetting, Range
<1>5. Typed'
  <2>1. losses' \in Nat
    BY <1>1 DEF Typed
  <2>2. {up', live'} \subseteq BOOLEAN /\ requests' \subseteq RequestSet
    BY <1>1
  <2>3. control' \in Seq(FrameSet("inline") \union AnswerSet) /\ stream' \in Seq(FrameSet("ws"))
    BY <1>1
  <2>4. call'.at \in Told => call'.tick \in Ticks /\ call'.epoch \in Nat
    BY <1>3 DEF Typed, Told
  <2> QED BY <1>1, <1>3, <2>1, <2>2, <2>3, <2>4 DEF Typed
<1>6. Down' /\ Resuming' /\ OneAdvance' /\ Apart' /\ LastTells' /\ AskedInTime'
  BY <1>1, <1>3, <1>4 DEF Down, Resuming, OneAdvance, Apart, LastTells, AskedInTime
<1>7. Ordered' /\ Newest'
  BY <1>1, <1>4 DEF Ordered, InOrder, Newest
<1>8. Waits' /\ RefusedForCause' /\ AdvanceNotStuck'
  BY <1>1, <1>3 DEF Waits, RefusedForCause, AdvanceNotStuck, Told
<1> QED BY <1>5, <1>6, <1>7, <1>8

\* The timeout: with nothing under way, every channel shows the world's tick, so there is
\* nothing to wait for unless another session or a reset moved the world.
LEMMA TimeOutIInv == IInv /\ TimeOut => IInv'
<1> SUFFICES ASSUME IInv, TimeOut PROVE IInv'
  OBVIOUS
<1> USE DEF IInv
<1>1. /\ call.at = "waiting" /\ control = <<>> /\ stream = <<>> /\ call' = Idle
      /\ returned' = [tick |-> None, epoch |-> None, held |-> held]
      /\ UNCHANGED <<tick, held, up, live, requests, control, stream, wtick, epoch, seq, onStream, mismatched, overlapped, others, losses>>
  BY DEF TimeOut, link, world
<1>2. /\ call'.at = "idle"
      /\ call' \in [at : {"idle", "calling", "answered", "waiting", "resolved"},
                    tick : Ticks \union {None}, epoch : Nat \union {None}]
  BY <1>1 DEF Idle
<1>3. up
  BY <1>1 DEF Down
<1>4. ~(others = 0 /\ ~overlapped)
  <2> SUFFICES ASSUME others = 0, ~overlapped PROVE FALSE
    OBVIOUS
  <2>1. call.tick = wtick /\ ~HoldsTick(held, call.tick)
    BY <1>1, <1>3 DEF Waits, Told
  <2>2. ASSUME NEW c \in Channels PROVE held[c].tick = wtick
    <3>1. ~Carries(control, c, seq) /\ ~Carries(stream, c, seq)
      BY <1>1 DEF Carries
    <3> QED BY <1>3, <3>1 DEF Newest, Shown
  <2> QED BY <2>1, <2>2 DEF HoldsTick
<1>5. Typed'
  BY <1>1, <1>2 DEF Typed, Told
<1>6. Down' /\ Resuming' /\ LastTells' /\ AskedInTime'
  BY <1>1, <1>2 DEF Down, Resuming, LastTells, AskedInTime
<1>7. OneAdvance' /\ Apart'
  BY <1>1, <1>2 DEF OneAdvance, Apart
<1>8. Ordered' /\ Newest'
  BY <1>1, FramesUntouched DEF Untouched
<1>9. Waits' /\ RefusedForCause' /\ AdvanceNotStuck'
  BY <1>1, <1>2, <1>4 DEF Waits, RefusedForCause, AdvanceNotStuck
<1> QED BY <1>5, <1>6, <1>7, <1>8, <1>9

-----------------------------------------------------------------------------
(* The steps of the world                                                  *)

\* What the frames of a tick, and the answer behind them, do to the connections.
LEMMA PublishedAdds ==
  ASSUME Typed, NEW ms, NEW ns, NEW answer, NEW t, NEW e, Published(ms, ns, answer, t, e), Reply(answer, e)
  PROVE  /\ DOMAIN control' = 1..Len(control') /\ Len(control') \in Nat
         /\ \A i \in DOMAIN control : i \in DOMAIN control' /\ control'[i] = control[i] /\ i \in Nat
         /\ \A i \in DOMAIN control' :
              \/ i \in DOMAIN control /\ control'[i] = control[i]
              \/ i \notin DOMAIN control /\ IsFrame(control'[i]) /\ control'[i].epoch = e
              \/ /\ i \notin DOMAIN control /\ i = Len(control')
                 /\ ~IsFrame(control'[i]) /\ control'[i].epoch = e /\ answer = <<control'[i]>>
         /\ answer # <<>> => Len(control') \in DOMAIN control' \ DOMAIN control /\ answer = <<control'[Len(control')]>>
         /\ \A i \in DOMAIN stream' :
              (i \in DOMAIN stream /\ stream'[i] = stream[i]) \/ stream'[i].epoch = e
<1>1. Grown(control, control', ms) /\ Grown(stream, stream', ns)
  BY DEF Published
<1>2. DOMAIN control' = 1..Len(control') /\ Len(control') \in Nat
      /\ (\A i \in DOMAIN control : i \in DOMAIN control' /\ control'[i] = control[i] /\ i \in Nat)
      /\ DOMAIN control = 1..Len(control) /\ Len(control) \in Nat
  BY <1>1 DEF Grown
<1>3. ASSUME NEW i \in DOMAIN control', i \notin DOMAIN control
      PROVE  \/ IsFrame(control'[i]) /\ control'[i].epoch = e
             \/ /\ i = Len(control') /\ ~IsFrame(control'[i])
                /\ control'[i].epoch = e /\ answer = <<control'[i]>>
  <2>1. PICK k \in DOMAIN ms : k = i - Len(control) /\ control'[i] = ms[k]
    BY <1>1, <1>3 DEF Grown
  <2>2. ms[k].epoch = e /\ (~IsFrame(ms[k]) => k = Len(ms) /\ answer = <<ms[k]>>)
    BY DEF Published
  <2>3. k = Len(ms) => i = Len(control')
    BY <1>1, <2>1 DEF Grown
  <2> QED BY <2>1, <2>2, <2>3
<1>4. answer # <<>> => Len(control') \in DOMAIN control' \ DOMAIN control /\ answer = <<control'[Len(control')]>>
  <2> SUFFICES ASSUME answer # <<>>
               PROVE  Len(control') \in DOMAIN control' \ DOMAIN control /\ answer = <<control'[Len(control')]>>
    OBVIOUS
  <2>1. Len(ms) \in DOMAIN ms /\ answer = <<ms[Len(ms)]>>
    BY DEF Published
  <2>2. /\ Len(control) + Len(ms) = Len(control') /\ Len(ms) \in Nat /\ Len(ms) > 0
        /\ control'[Len(control) + Len(ms)] = ms[Len(ms)] /\ Len(control) + Len(ms) \in DOMAIN control'
    BY <1>1, <2>1 DEF Grown
  <2> QED BY <1>2, <2>1, <2>2
<1>5. \A i \in DOMAIN stream' : (i \in DOMAIN stream /\ stream'[i] = stream[i]) \/ stream'[i].epoch = e
  <2>1. \A i \in DOMAIN ns : ns[i].epoch = e
    BY DEF Published
  <2> QED BY <1>1, <2>1 DEF Grown
<1> QED BY <1>2, <1>3, <1>4, <1>5

\* The frames of a new tick are the newest of all channels.
LEMMA PublishedFrames ==
  ASSUME IInv, NEW ms, NEW ns, NEW answer, NEW t, NEW e, Published(ms, ns, answer, t, e),
         seq' = seq + 1, wtick' = t, held' = held
  PROVE  Ordered' /\ Newest'
<1> USE DEF IInv
<1>1. /\ Grown(control, control', ms) /\ Grown(stream, stream', ns)
      /\ Sends(ms, seq + 1, t) /\ Sends(ns, seq + 1, t)
  BY DEF Published
<1>2. /\ seq \in Nat /\ (\A c \in Channels : held[c].seq \in Nat /\ held[c].seq <= seq)
      /\ \A i \in DOMAIN control : IsFrame(control[i]) => control[i].seq \in Nat
      /\ \A i \in DOMAIN stream : IsFrame(stream[i]) => stream[i].seq \in Nat
  <2>1. \A i \in DOMAIN control : IsFrame(control[i]) => control[i].seq \in Nat
    BY Parts, MessageIs DEF FrameSet
  <2>2. \A i \in DOMAIN stream : stream[i].seq \in Nat
    BY Parts DEF FrameSet
  <2> QED BY <2>1, <2>2, Parts DEF Newest
<1>3. /\ \A i \in DOMAIN ms : IsFrame(ms[i]) => ms[i].channel \in Channels
      /\ \A i \in DOMAIN ns : IsFrame(ns[i]) => ns[i].channel \in Channels
  BY DEF Published
<1>4. InOrder(control', "inline", held, seq + 1)
  BY <1>1, <1>2, <1>3, OrderGrows DEF Ordered
<1>5. InOrder(stream', "ws", held, seq + 1)
  BY <1>1, <1>2, <1>3, OrderGrows DEF Ordered
<1>6. Shown(held, seq + 1, control', stream', t)
  <2>1. \A c \in Channels : \/ \E i \in DOMAIN ms : IsFrame(ms[i]) /\ ms[i].channel = c
                            \/ \E i \in DOMAIN ns : IsFrame(ns[i]) /\ ns[i].channel = c
    BY DEF Published
  <2> QED BY <1>1, <1>2, <2>1, BatchShows DEF Ordered
<1>7. \A c \in Channels : held[c].seq <= seq + 1
  BY <1>2
<1> QED BY <1>4, <1>5, <1>6, <1>7 DEF Ordered, Newest

\* The world takes a tick that is asked for.
LEMMA TickTakenIInv ==
  ASSUME IInv, up, NEW r \in requests, r.method = "world.tick", requests' = requests \ {r},
         r.tick = wtick, wtick' = wtick + 1, UNCHANGED mismatched,
         Publish(<<Message("world.tick", wtick', epoch)>>, wtick', epoch),
         UNCHANGED <<client, up, live, epoch, onStream, overlapped, others, losses>>
  PROVE  IInv'
<1> USE DEF IInv
<1> DEFINE m == Message("world.tick", wtick', epoch)
           answer == <<m>>
<1>1. UNCHANGED <<tick, held, call, returned, up, live, epoch, onStream, mismatched, overlapped, others, losses>>
  BY DEF client
<1>2. wtick' \in Ticks /\ epoch \in Nat /\ call.at = "calling" /\ live
  <2>1. r \in RequestSet /\ epoch \in Nat /\ wtick \in Ticks
    BY DEF Typed
  <2>2. wtick' \in Ticks
    BY <2>1, LockstepAssumption DEF RequestSet, Ticks
  <2>3. call.at = "calling" /\ live
    BY DEF OneAdvance, Resuming, Typed
  <2> QED BY <2>1, <2>2, <2>3
<1>3. m \in AnswerSet /\ m.epoch = epoch /\ m.tick = wtick' /\ m.method = "world.tick"
  BY <1>2 DEF AnswerSet, Message
<1>4. Reply(answer, epoch)
  BY <1>3 DEF Reply
<1>5. seq' = seq + 1 /\ \E ms, ns : Published(ms, ns, answer, wtick', epoch)
  BY <1>2, <1>4, PublishSends
<1> HIDE DEF m
<1>6. PICK ms, ns : Published(ms, ns, answer, wtick', epoch)
  BY <1>5
<1>7. /\ DOMAIN control' = 1..Len(control') /\ Len(control') \in Nat
      /\ \A i \in DOMAIN control' :
           \/ i \in DOMAIN control /\ control'[i] = control[i]
           \/ i \notin DOMAIN control /\ IsFrame(control'[i])
           \/ i \notin DOMAIN control /\ i = Len(control') /\ control'[i] = m
      /\ Len(control') \in DOMAIN control' /\ control'[Len(control')] = m
  <2>1. answer # <<>> /\ \A x : answer = <<x>> => x = m
    OBVIOUS
  <2> QED BY <1>4, <1>6, <2>1, PublishedAdds
<1>8. Typed'
  <2>1. control' \in Seq(Inline) /\ stream' \in Seq(FrameSet("ws")) /\ seq' \in Nat
    BY <1>5, <1>6 DEF Published, Typed
  <2> QED BY <1>1, <1>2, <2>1 DEF Typed, Inline
<1>9. Down' /\ Resuming'
  <2>1. \A i \in DOMAIN control' : control'[i].method # "session.resume"
    BY <1>2, <1>3, <1>7 DEF Resuming, IsFrame
  <2> QED BY <1>1, <1>2, <2>1 DEF Down, Resuming
<1>10. OneAdvance'
  <2>1. \A s \in requests' : s.method # "world.tick"
    BY DEF OneAdvance
  <2>2. \A i \in DOMAIN control' : EndsAdvance(control'[i]) => i = Len(control')
    BY <1>7 DEF OneAdvance, EndsAdvance, IsFrame
  <2> QED BY <1>1, <1>2, <2>1, <2>2 DEF OneAdvance
<1>11. Resetting' => Resetting
  <2>1. ASSUME NEW i \in DOMAIN control', control'[i].method = "world.reset"
        PROVE  control'[i] \in Range(control)
    BY <1>3, <1>7, <2>1 DEF IsFrame, Range
  <2> QED BY <2>1 DEF Resetting, Range
<1>12. Apart'
  BY <1>1, <1>11 DEF Apart
<1>13. LastTells'
  <2>1. ~IsFrame(control'[Len(control')])
    BY <1>3, <1>7 DEF IsFrame
  <2>2. ASSUME NEW i \in DOMAIN control', \A j \in DOMAIN control' : j > i => IsFrame(control'[j])
        PROVE  i = Len(control')
    BY <1>7, <2>1, <2>2
  <2> QED BY <1>3, <1>7, <2>1, <2>2 DEF LastTells
<1>14. AskedInTime'
  BY <1>1 DEF OneAdvance, AskedInTime
<1>15. Ordered' /\ Newest'
  BY <1>1, <1>5, <1>6, PublishedFrames
<1>16. Waits' /\ RefusedForCause' /\ AdvanceNotStuck'
  BY <1>1, <1>2 DEF Waits, RefusedForCause, AdvanceNotStuck, Told
<1> QED BY <1>8, <1>9, <1>10, <1>12, <1>13, <1>14, <1>15, <1>16

\* It refuses one of another tick, which only another session or a reset can cause.
LEMMA TickRefusedIInv ==
  ASSUME IInv, up, NEW r \in requests, r.method = "world.tick", requests' = requests \ {r},
         r.tick # wtick, control' = Append(control, Message("error", wtick, epoch)),
         mismatched' = TRUE, UNCHANGED <<wtick, seq, stream>>,
         UNCHANGED <<client, up, live, epoch, onStream, overlapped, others, losses>>
  PROVE  IInv'
<1> USE DEF IInv
<1> DEFINE m == Message("error", wtick, epoch)
<1>1. UNCHANGED <<tick, held, call, returned, up, live, epoch, seq, wtick, stream, onStream, overlapped, others, losses>>
  BY DEF client
<1>2. call.at = "calling" /\ live
  BY DEF OneAdvance, Resuming, Typed
<1>3. m \in AnswerSet /\ m.epoch = epoch /\ m.tick = wtick /\ m.method = "error" /\ m \in Inline /\ ~IsFrame(m)
  <2>1. m \in AnswerSet /\ m.epoch = epoch /\ m.tick = wtick /\ m.method = "error"
    BY DEF AnswerSet, Message, Typed
  <2> QED BY <2>1 DEF Inline, IsFrame
<1> HIDE DEF m
<1>4. control' \in Seq(Inline) /\ Grown(control, control', <<m>>)
  BY <1>3, Parts, Sent DEF m
<1>5. /\ DOMAIN control' = 1..(Len(control) + 1) /\ DOMAIN control = 1..Len(control) /\ Len(control) \in Nat
      /\ \A i \in DOMAIN control : i \in DOMAIN control' /\ control'[i] = control[i]
      /\ \A i \in DOMAIN control' : i \in DOMAIN control \/ i = Len(control) + 1
      /\ control'[Len(control) + 1] = m /\ Len(control) + 1 \in DOMAIN control'
  <2>1. Len(<<m>>) = 1 /\ <<m>>[1] = m /\ DOMAIN <<m>> = 1..1
    OBVIOUS
  <2> QED BY <1>4, <2>1 DEF Grown
<1>6. Typed'
  BY <1>1, <1>4 DEF Typed, Inline
<1>7. Down' /\ Resuming'
  <2>1. \A i \in DOMAIN control' : control'[i].method # "session.resume"
    BY <1>2, <1>3, <1>5 DEF Resuming
  <2> QED BY <1>1, <1>2, <2>1 DEF Down, Resuming
<1>8. OneAdvance'
  <2>1. \A s \in requests' : s.method # "world.tick"
    BY DEF OneAdvance
  <2>2. \A i \in DOMAIN control' : EndsAdvance(control'[i]) => i = Len(control) + 1
    BY <1>5 DEF OneAdvance
  <2> QED BY <1>1, <1>2, <2>1, <2>2 DEF OneAdvance
<1>9. Resetting' => Resetting
  <2>1. ASSUME NEW i \in DOMAIN control', control'[i].method = "world.reset"
        PROVE  control'[i] \in Range(control)
    BY <1>3, <1>5, <2>1 DEF Range
  <2> QED BY <2>1 DEF Resetting, Range
<1>10. Apart' /\ AskedInTime'
  BY <1>1, <1>9 DEF Apart, AskedInTime
<1>11. LastTells'
  <2>1. ASSUME NEW i \in DOMAIN control', \A j \in DOMAIN control' : j > i => IsFrame(control'[j])
        PROVE  i = Len(control) + 1
    BY <1>3, <1>5, <2>1
  <2> QED BY <1>1, <1>3, <1>5, <2>1 DEF LastTells
<1>12. Ordered'
  <2>1. InOrder(control', "inline", held, seq)
    BY <1>3, <1>5 DEF Ordered, InOrder
  <2> QED BY <1>1, <2>1 DEF Ordered
<1>13. Newest'
  <2>1. ASSUME NEW c, Carries(control, c, seq) PROVE Carries(control', c, seq)
    BY <1>5, <2>1 DEF Carries
  <2>2. ASSUME NEW c, OfTick(control, c, seq, wtick) PROVE OfTick(control', c, seq, wtick)
    BY <1>3, <1>5, <2>2 DEF OfTick, IsNewest
  <2>3. Shown(held, seq, control, stream, wtick) => Shown(held, seq, control', stream, wtick)
    BY <2>1, <2>2 DEF Shown
  <2> QED BY <1>1, <2>3 DEF Newest
<1>14. Waits' /\ AdvanceNotStuck'
  BY <1>1, <1>2 DEF Waits, AdvanceNotStuck
<1>15. RefusedForCause'
  <2>1. others > 0 \/ overlapped
    BY DEF AskedInTime, Typed
  <2> QED BY <1>1, <2>1 DEF RefusedForCause
<1> QED BY <1>6, <1>7, <1>8, <1>10, <1>11, <1>12, <1>13, <1>14, <1>15


\* The world answers a tick.
LEMMA HandleTickIInv == IInv /\ HandleTick => IInv'
<1> SUFFICES ASSUME IInv, HandleTick PROVE IInv'
  OBVIOUS
<1>1. PICK r \in requests :
        /\ r.method = "world.tick" /\ requests' = requests \ {r}
        /\ IF r.tick = wtick
             THEN /\ wtick' = wtick + 1 /\ UNCHANGED mismatched
                  /\ Publish(<<Message("world.tick", wtick', epoch)>>, wtick', epoch)
             ELSE /\ control' = Append(control, Message("error", wtick, epoch))
                  /\ mismatched' = TRUE /\ UNCHANGED <<wtick, seq, stream>>
  BY DEF HandleTick
<1>2. up /\ UNCHANGED <<client, up, live, epoch, onStream, overlapped, others, losses>>
  BY DEF HandleTick
<1>3. CASE r.tick = wtick
  BY <1>1, <1>2, <1>3, TickTakenIInv
<1>4. CASE r.tick # wtick
  BY <1>1, <1>2, <1>4, TickRefusedIInv
<1> QED BY <1>3, <1>4

\* The world is reset: a new epoch, at the tick asked for.  An advance under way is noted.
LEMMA HandleResetIInv == IInv /\ HandleReset => IInv'
<1> SUFFICES ASSUME IInv, HandleReset PROVE IInv'
  OBVIOUS
<1> USE DEF IInv
<1>1. PICK r \in requests :
        /\ r.method = "world.reset" /\ requests' = requests \ {r}
        /\ wtick' = r.tick /\ epoch' = epoch + 1
        /\ Publish(<<Message("world.reset", r.tick, epoch')>>, r.tick, epoch')
  BY DEF HandleReset
<1>2. up /\ UNCHANGED <<tick, held, call, returned, up, live, onStream, mismatched, overlapped, others, losses>>
  BY DEF HandleReset, client
<1> DEFINE m == Message("world.reset", r.tick, epoch')
           answer == <<m>>
<1>3. r.tick \in Ticks /\ epoch' \in Nat /\ epoch' # 0 /\ live
  <2>1. r \in RequestSet /\ epoch \in Nat
    BY DEF Typed
  <2>2. live
    BY <1>2 DEF Resuming, Typed
  <2> QED BY <1>1, <2>1, <2>2 DEF RequestSet
<1>4. m \in AnswerSet /\ m.epoch = epoch' /\ m.tick = wtick' /\ m.method = "world.reset"
  BY <1>1, <1>3 DEF AnswerSet, Message
<1>5. Reply(answer, epoch')
  BY <1>4 DEF Reply
<1>6. seq' = seq + 1 /\ \E ms, ns : Published(ms, ns, answer, wtick', epoch')
  BY <1>1, <1>3, <1>5, PublishSends
<1> HIDE DEF m
<1>7. PICK ms, ns : Published(ms, ns, answer, wtick', epoch')
  BY <1>6
<1>8. /\ DOMAIN control' = 1..Len(control') /\ Len(control') \in Nat
      /\ \A i \in DOMAIN control' :
           \/ i \in DOMAIN control /\ control'[i] = control[i]
           \/ i \notin DOMAIN control /\ IsFrame(control'[i])
           \/ i \notin DOMAIN control /\ i = Len(control') /\ control'[i] = m
      /\ Len(control') \in DOMAIN control' /\ control'[Len(control')] = m
  <2>1. answer # <<>> /\ \A x : answer = <<x>> => x = m
    OBVIOUS
  <2> QED BY <1>5, <1>7, <2>1, PublishedAdds
<1>9. Resetting /\ (call.at # "idle" => overlapped)
  BY <1>1 DEF Resetting, Apart
<1>10. Typed'
  <2>1. control' \in Seq(Inline) /\ stream' \in Seq(FrameSet("ws")) /\ seq' \in Nat
    BY <1>6, <1>7 DEF Published, Typed
  <2> QED BY <1>1, <1>2, <1>3, <2>1 DEF Typed, Inline
<1>11. Down' /\ Resuming'
  <2>1. \A i \in DOMAIN control' : control'[i].method # "session.resume"
    BY <1>3, <1>4, <1>8 DEF Resuming, IsFrame
  <2> QED BY <1>2, <1>3, <2>1 DEF Down, Resuming
<1>12. OneAdvance'
  <2>1. \A i \in DOMAIN control' : EndsAdvance(control'[i]) => i \in DOMAIN control /\ control'[i] = control[i]
    BY <1>4, <1>8 DEF EndsAdvance, IsFrame
  <2> QED BY <1>1, <1>2, <2>1 DEF OneAdvance
<1>13. Apart'
  BY <1>2, <1>9 DEF Apart
<1>14. LastTells'
  <2>1. ~IsFrame(control'[Len(control')])
    BY <1>4, <1>8 DEF IsFrame
  <2>2. ASSUME NEW i \in DOMAIN control', \A j \in DOMAIN control' : j > i => IsFrame(control'[j])
        PROVE  i = Len(control')
    BY <1>8, <2>1, <2>2
  <2> QED BY <1>4, <1>8, <2>1, <2>2 DEF LastTells
<1>15. AskedInTime'
  <2>1. \A s \in requests' : s.method = "world.tick" => overlapped
    BY <1>1, <1>9 DEF OneAdvance
  <2> QED BY <1>2, <2>1 DEF AskedInTime
<1>16. Ordered' /\ Newest'
  BY <1>2, <1>6, <1>7, PublishedFrames
<1>17. Waits' /\ RefusedForCause' /\ AdvanceNotStuck'
  BY <1>2, <1>9 DEF Waits, RefusedForCause, AdvanceNotStuck, Told
<1> QED BY <1>10, <1>11, <1>12, <1>13, <1>14, <1>15, <1>16, <1>17

\* Another session advances the world: this one, if it is connected, gets the frames.
LEMMA OtherIInv == IInv /\ Other => IInv'
<1> SUFFICES ASSUME IInv, Other PROVE IInv'
  OBVIOUS
<1> USE DEF IInv
<1>1. /\ others' = others + 1 /\ wtick' = wtick + 1 /\ wtick < MaxTick
      /\ UNCHANGED <<tick, held, call, returned, up, live, requests, epoch, onStream, mismatched, overlapped, losses>>
  BY DEF Other, client
<1>2. others' \in Nat /\ others' > 0 /\ wtick' \in Ticks /\ epoch \in Nat
  BY <1>1, LockstepAssumption DEF Typed, Ticks
<1>3. /\ LastTells' /\ AskedInTime' /\ RefusedForCause' /\ AdvanceNotStuck' /\ Waits'
  BY <1>1, <1>2 DEF LastTells, AskedInTime, RefusedForCause, AdvanceNotStuck, Waits
<1>4. CASE ~up
  <2>1. UNCHANGED <<seq, control, stream>>
    BY <1>4 DEF Other
  <2>2. Typed'
    BY <1>1, <1>2, <2>1 DEF Typed
  <2>3. Down' /\ Resuming' /\ OneAdvance'
    BY <1>1, <2>1 DEF Down, Resuming, OneAdvance
  <2>4. Apart'
    BY <1>1, <2>1 DEF Apart, Resetting
  <2>5. Ordered' /\ Newest'
    BY <1>1, <1>4, <2>1 DEF Ordered, Newest
  <2> QED BY <1>3, <2>2, <2>3, <2>4, <2>5
<1>5. CASE up
  <2>1. Publish(<<>>, wtick', epoch) /\ Reply(<<>>, epoch)
    BY <1>5 DEF Other, Reply
  <2>2. seq' = seq + 1 /\ \E ms, ns : Published(ms, ns, <<>>, wtick', epoch)
    BY <1>2, <2>1, PublishSends
  <2>3. PICK ms, ns : Published(ms, ns, <<>>, wtick', epoch)
    BY <2>2
  <2>4. /\ \A i \in DOMAIN control : i \in DOMAIN control' /\ control'[i] = control[i] /\ i \in Nat
        /\ \A i \in DOMAIN control' :
             \/ i \in DOMAIN control /\ control'[i] = control[i]
             \/ i \notin DOMAIN control /\ IsFrame(control'[i])
    <3>1. \A x : <<>> # <<x>>
      OBVIOUS
    <3> QED BY <2>1, <2>3, <3>1, PublishedAdds
  <2>5. Typed'
    <3>1. control' \in Seq(Inline) /\ stream' \in Seq(FrameSet("ws")) /\ seq' \in Nat
      BY <2>2, <2>3 DEF Published, Typed
    <3> QED BY <1>1, <1>2, <3>1 DEF Typed, Inline
  <2>6. Down'
    BY <1>1, <1>5 DEF Down
  <2>7. Resuming'
    <3>1. live => \A i \in DOMAIN control' : control'[i].method # "session.resume"
      BY <2>4 DEF Resuming, IsFrame
    <3>2. ASSUME ~live
          PROVE  /\ control' # <<>> /\ control'[1].method = "session.resume"
                 /\ \A i \in DOMAIN control' : i # 1 => IsFrame(control'[i])
                 /\ stream' = <<>> /\ \A c \in Channels : held[c].seq < seq'
      <4>1. /\ control # <<>> /\ control[1].method = "session.resume" /\ stream = <<>>
            /\ \A i \in DOMAIN control : i # 1 => IsFrame(control[i])
            /\ \A c \in Channels : held[c].seq < seq
        BY <1>5, <3>2 DEF Resuming
      <4>2. 1 \in DOMAIN control
        BY <4>1, Parts
      <4>3. 1 \in DOMAIN control' /\ control'[1] = control[1]
        BY <2>4, <4>2
      <4>4. control' # <<>>
        BY <4>3
      <4>5. stream' = <<>>
        BY <2>3, <3>2, <4>1 DEF Published
      <4>6. \A c \in Channels : held[c].seq < seq'
        BY <2>2, <4>1, Parts
      <4> QED BY <2>4, <4>1, <4>3, <4>4, <4>5, <4>6
    <3> QED BY <1>1, <3>1, <3>2 DEF Resuming
  <2>8. OneAdvance'
    <3>1. \A i \in DOMAIN control' : EndsAdvance(control'[i]) => i \in DOMAIN control /\ control'[i] = control[i]
      BY <2>4 DEF EndsAdvance, IsFrame
    <3> QED BY <1>1, <3>1 DEF OneAdvance
  <2>9. Apart'
    <3>1. ASSUME NEW i \in DOMAIN control', control'[i].method = "world.reset"
          PROVE  control'[i] \in Range(control)
      BY <2>4, <3>1 DEF IsFrame, Range
    <3>2. Resetting' => Resetting
      BY <1>1, <3>1 DEF Resetting, Range
    <3> QED BY <1>1, <3>2 DEF Apart
  <2>10. Ordered' /\ Newest'
    BY <1>1, <2>2, <2>3, PublishedFrames
  <2> QED BY <1>3, <2>5, <2>6, <2>7, <2>8, <2>9, <2>10
<1> QED BY <1>4, <1>5

\* A new connection: the session is resumed, with the frames of all channels behind it.
LEMMA ReconnectIInv == IInv /\ Reconnect => IInv'
<1> SUFFICES ASSUME IInv, Reconnect PROVE IInv'
  OBVIOUS
<1> USE DEF IInv
<1> DEFINE m == Message("session.resume", wtick, epoch)
<1>1. /\ ~up /\ up' /\ call = Idle /\ seq' = seq + 1
      /\ control' = <<m>> \o Frames("inline", wtick, epoch)
      /\ UNCHANGED <<tick, held, call, returned, live, requests, stream, wtick, epoch, onStream, mismatched, overlapped, others, losses>>
  BY DEF Reconnect, client
<1>2. /\ ~live /\ requests = {} /\ control = <<>> /\ stream = <<>> /\ call.at = "idle"
      /\ seq \in Nat /\ seq' \in Nat /\ wtick \in Ticks /\ epoch \in Nat
  BY <1>1 DEF Down, Idle, Typed
<1>3. m \in AnswerSet /\ m.epoch = epoch /\ m.tick = wtick /\ m.method = "session.resume" /\ m \in Inline /\ ~IsFrame(m)
  <2>1. m \in AnswerSet /\ m.epoch = epoch /\ m.tick = wtick /\ m.method = "session.resume"
    BY <1>2 DEF AnswerSet, Message
  <2> QED BY <2>1 DEF Inline, IsFrame
<1> HIDE DEF m
<1>4. PICK fs : Batch(fs, "inline", seq + 1, wtick, epoch) /\ control' = <<m>> \o fs
  <2>1. Batch(Frames("inline", wtick, epoch), "inline", seq + 1, wtick, epoch)
    BY <1>1, <1>2, FramesAreBatch
  <2> QED BY <1>1, <2>1
<1>5. fs \in Seq(Inline) /\ <<m>> \in Seq(Inline)
  BY <1>3, <1>4 DEF Batch, Inline
<1>6. control' \in Seq(Inline) /\ Grown(<<m>>, control', fs)
  BY <1>4, <1>5, Joined
<1>7. /\ \A i \in DOMAIN fs : IsFrame(fs[i]) /\ fs[i].channel \in Channels /\ fs[i].epoch = epoch
      /\ Sends(fs, seq + 1, wtick)
      /\ \A c \in Channels : \E i \in DOMAIN fs : IsFrame(fs[i]) /\ fs[i].channel = c
  BY <1>4, BatchSends
<1>8. /\ DOMAIN control' = 1..Len(control') /\ Len(control') \in Nat
      /\ 1 \in DOMAIN control' /\ control'[1] = m
      /\ \A i \in DOMAIN control' : i # 1 => i - 1 \in DOMAIN fs /\ control'[i] = fs[i - 1]
      /\ \A i \in DOMAIN fs : i + 1 \in DOMAIN control' /\ control'[i + 1] = fs[i] /\ i \in Nat
  <2>1. Len(<<m>>) = 1 /\ DOMAIN <<m>> = 1..1 /\ <<m>>[1] = m
    OBVIOUS
  <2> QED BY <1>6, <2>1 DEF Grown
<1>9. /\ \A i \in DOMAIN control' : i # 1 => IsFrame(control'[i])
      /\ \A i \in DOMAIN control' : IsFrame(control'[i]) => i # 1 /\ control'[i].channel \in Channels
      /\ \A i \in DOMAIN control' : control'[i].epoch = epoch
  BY <1>3, <1>7, <1>8
<1>10. Sends(control', seq + 1, wtick)
  <2>1. \A i \in DOMAIN control' : IsFrame(control'[i]) => control'[i].seq = seq + 1 /\ control'[i].tick = wtick
    BY <1>7, <1>8, <1>9 DEF Sends
  <2>2. ASSUME NEW i \in DOMAIN control', NEW j \in DOMAIN control',
               IsFrame(control'[i]), IsFrame(control'[j]), control'[i].channel = control'[j].channel
        PROVE  i = j
    <3>1. i # 1 /\ j # 1 /\ i \in Nat /\ j \in Nat
      BY <1>8, <1>9, <2>2
    <3>2. i - 1 = j - 1
      BY <1>7, <1>8, <2>2, <3>1 DEF Sends
    <3> QED BY <3>1, <3>2
  <2> QED BY <2>1, <2>2 DEF Sends
<1>11. \A c \in Channels : \E i \in DOMAIN control' : IsFrame(control'[i]) /\ control'[i].channel = c
  BY <1>7, <1>8
<1>12. Typed'
  BY <1>1, <1>2, <1>6 DEF Typed, Inline
<1>13. \A c \in Channels : held[c].seq \in Nat /\ held[c].seq <= seq
  BY Parts DEF Newest
<1>14. Down' /\ Resuming'
  <2>1. control' # <<>>
    BY <1>8
  <2>2. \A c \in Channels : held[c].seq < seq'
    BY <1>1, <1>2, <1>13
  <2> QED BY <1>1, <1>2, <1>3, <1>8, <1>9, <2>1, <2>2 DEF Down, Resuming
<1>15. OneAdvance' /\ Apart' /\ AskedInTime'
  <2>1. \A i \in DOMAIN control' : ~EndsAdvance(control'[i])
    BY <1>3, <1>8, <1>9 DEF EndsAdvance, IsFrame
  <2> QED BY <1>1, <1>2, <2>1 DEF OneAdvance, Apart, AskedInTime
<1>16. LastTells'
  <2>1. ~IsFrame(control'[1]) /\ control'[1].tick = wtick /\ 1 \in DOMAIN control'
    BY <1>3, <1>8
  <2>2. \A i \in DOMAIN control' : ~IsFrame(control'[i]) => i = 1
    BY <1>9
  <2> QED BY <1>1, <2>1, <2>2 DEF LastTells
<1>17. Ordered' /\ Newest'
  <2>1. Grown(<<>>, control', control') /\ Grown(<<>>, <<>>, <<>>)
    <3>1. Len(<<>>) = 0 /\ DOMAIN <<>> = {}
      OBVIOUS
    <3>2. \A i \in DOMAIN control' : i - 0 = i /\ 0 + i = i
      BY <1>8
    <3> QED BY <1>8, <3>1, <3>2 DEF Grown
  <2>2. Sends(<<>>, seq + 1, wtick) /\ InOrder(<<>>, "inline", held, seq) /\ InOrder(<<>>, "ws", held, seq)
    BY DEF Sends, InOrder
  <2>3. InOrder(control', "inline", held, seq + 1)
    <3>1. /\ \A i \in DOMAIN <<>> : IsFrame(<<>>[i]) => <<>>[i].seq \in Nat
          /\ \A i \in DOMAIN control' : IsFrame(control'[i]) =>
               held[control'[i].channel].seq \in Nat /\ held[control'[i].channel].seq <= seq
      BY <1>9, <1>13
    <3> QED BY SMTT(20), <1>2, <1>10, <2>1, <2>2, <3>1, OrderGrows
  <2>4. InOrder(<<>>, "ws", held, seq + 1)
    BY DEF InOrder
  <2>5. Shown(held, seq + 1, control', <<>>, wtick)
    <3>1. \A c \in Channels : Carries(control', c, seq + 1) /\ held[c].seq # seq + 1
      BY <1>2, <1>10, <1>11, <1>13 DEF Sends, Carries, IsNewest
    <3>2. \A c : OfTick(control', c, seq + 1, wtick) /\ OfTick(<<>>, c, seq + 1, wtick)
      BY <1>10 DEF Sends, OfTick, IsNewest
    <3> QED BY <3>1, <3>2 DEF Shown
  <2>6. \A c \in Channels : held[c].seq <= seq + 1
    BY <1>2, <1>13
  <2> QED BY <1>1, <1>2, <2>3, <2>4, <2>5, <2>6 DEF Ordered, Newest
<1>18. Waits' /\ RefusedForCause' /\ AdvanceNotStuck'
  BY <1>1, <1>2 DEF Waits, RefusedForCause, AdvanceNotStuck
<1> QED BY <1>12, <1>14, <1>15, <1>16, <1>17, <1>18

-----------------------------------------------------------------------------
(* What is held goes on: a second invariant, over the first                *)

\* One frame, or moment, is not later than another: the epoch counts before the tick.
NotLater(f, g) == f.epoch < g.epoch \/ (f.epoch = g.epoch /\ f.tick <= g.tick)

Now == [epoch |-> epoch, tick |-> wtick]

Flying == {m \in Range(control) : IsFrame(m)} \union Range(stream)

\* The frames of a channel are in the order of what they show, the one held included; none is
\* ahead of the world.
Onward ==
  /\ \A c \in Channels : NotLater(held[c], Now)
  /\ \A g \in Flying :
       /\ NotLater(g, Now)
       /\ held[g.channel].seq < g.seq \/ ~live => NotLater(held[g.channel], g)
       /\ \A f \in Flying : f.channel = g.channel /\ f.seq < g.seq => NotLater(f, g)

\* No reset comes between an advance and its result, but for one that was noted.
InEpoch ==
  ~overlapped =>
    /\ \A i \in DOMAIN control : EndsAdvance(control[i]) => control[i].epoch = epoch
    /\ call.at \in Told => call.epoch = epoch

\* There may be no other connection than this one.
OneLink == ~onStream => stream = <<>> /\ \A c \in Channels : held[c].binding = "inline"

\* Then a frame of the epoch comes before the result, on every channel.
Covered ==
  ~onStream /\ ~overlapped =>
    /\ \A i \in DOMAIN control : control[i].method = "world.tick" => \A c \in Channels :
         \/ held[c].epoch = epoch
         \/ \E j \in DOMAIN control :
              j < i /\ IsFrame(control[j]) /\ control[j].channel = c /\ control[j].epoch = epoch
    /\ call.at \in Told => \A c \in Channels : held[c].epoch = epoch

\* What resolved the waiter is not taken back before advance goes on.
Resolved ==
  call.at = "resolved" /\ ~overlapped /\ (onStream => call.epoch = 0) =>
    \A c \in Channels : held[c].tick >= call.tick

ReturnsTick == returned.tick # None => returned.tick \in Ticks

JInv ==
  /\ Onward /\ InEpoch /\ OneLink /\ Covered /\ Resolved
  /\ ReturnsTick /\ AdvanceComplete

\* The frames under way and held, by their types and the order they come in.
LEMMA FlyingIs ==
  ASSUME IInv
  PROVE  /\ \A g \in Flying :
              /\ IsFrame(g) /\ g \in BothFrames /\ g.channel \in Channels
              /\ g.seq \in Nat /\ g.tick \in Nat /\ g.epoch \in Nat /\ g.seq <= seq
              /\ held[g.channel].binding = g.binding => held[g.channel].seq < g.seq
         /\ \A c \in Channels : /\ held[c].seq \in Nat /\ held[c].tick \in Nat /\ held[c].epoch \in Nat
                                /\ held[c].seq <= seq
         /\ seq \in Nat /\ epoch \in Nat /\ wtick \in Nat
         /\ \A i \in DOMAIN control : IsFrame(control[i]) => control[i] \in Flying
         /\ \A i \in DOMAIN stream : stream[i] \in Flying
<1> USE DEF IInv
<1>1. Ticks \subseteq Nat
  BY LockstepAssumption DEF Ticks
<1>2. \A g \in BothFrames : g.channel \in Channels /\ g.seq \in Nat /\ g.tick \in Nat /\ g.epoch \in Nat
  BY <1>1 DEF BothFrames, FrameSet
<1>3. ASSUME NEW i \in DOMAIN control, IsFrame(control[i])
      PROVE  /\ control[i] \in BothFrames /\ control[i].seq <= seq
             /\ held[control[i].channel].binding = control[i].binding =>
                  held[control[i].channel].seq < control[i].seq
  <2>1. control[i] \in FrameSet("inline")
    BY <1>3, Parts, MessageIs
  <2>2. control[i].binding = "inline" /\ control[i] \in BothFrames
    BY <2>1 DEF FrameSet, BothFrames
  <2> QED BY <1>3, <2>2 DEF Ordered, InOrder
<1>4. ASSUME NEW i \in DOMAIN stream
      PROVE  /\ IsFrame(stream[i]) /\ stream[i] \in BothFrames /\ stream[i].seq <= seq
             /\ held[stream[i].channel].binding = stream[i].binding =>
                  held[stream[i].channel].seq < stream[i].seq
  <2>1. stream[i] \in FrameSet("ws") /\ IsFrame(stream[i])
    BY Parts
  <2>2. stream[i].binding = "ws" /\ stream[i] \in BothFrames
    BY <2>1 DEF FrameSet, BothFrames
  <2> QED BY <2>1, <2>2 DEF Ordered, InOrder
<1>5. \A c \in Channels : held[c] \in BothFrames /\ held[c].seq <= seq
  BY Parts DEF Newest
<1>6. seq \in Nat /\ epoch \in Nat /\ wtick \in Nat
  BY <1>1 DEF Typed
<1>7. ASSUME NEW g \in Flying
      PROVE  /\ IsFrame(g) /\ g \in BothFrames /\ g.seq <= seq
             /\ held[g.channel].binding = g.binding => held[g.channel].seq < g.seq
  BY <1>3, <1>4 DEF Flying, Range
<1>8. /\ \A i \in DOMAIN control : IsFrame(control[i]) => control[i] \in Flying
      /\ \A i \in DOMAIN stream : stream[i] \in Flying
  BY DEF Flying, Range
<1> QED BY <1>2, <1>5, <1>6, <1>7, <1>8

\* The world goes on and sends frames of then; nothing else changes the order.
LEMMA OnwardGrows ==
  ASSUME IInv, Onward, held' = held, epoch' \in Nat, wtick' \in Nat, NotLater(Now, Now'),
         live' = live \/ Flying' = {},
         \A g \in Flying' : g \in Flying \/ (/\ g.channel \in Channels /\ g.seq = seq + 1
                                             /\ g.epoch = epoch' /\ g.tick = wtick')
  PROVE  Onward'
<1>1. /\ \A g \in Flying : g.channel \in Channels /\ g.seq \in Nat /\ g.tick \in Nat /\ g.epoch \in Nat /\ g.seq <= seq
      /\ \A c \in Channels : held[c].seq \in Nat /\ held[c].tick \in Nat /\ held[c].epoch \in Nat /\ held[c].seq <= seq
      /\ seq \in Nat /\ epoch \in Nat /\ wtick \in Nat
  BY FlyingIs
<1>2. epoch < epoch' \/ (epoch = epoch' /\ wtick <= wtick')
  BY DEF NotLater, Now
<1>3. ASSUME NEW f, f.epoch \in Nat, f.tick \in Nat, NotLater(f, Now)
      PROVE  NotLater(f, Now')
  <2>1. f.epoch < epoch \/ (f.epoch = epoch /\ f.tick <= wtick)
    BY <1>3 DEF NotLater, Now
  <2>2. f.epoch < epoch' \/ (f.epoch = epoch' /\ f.tick <= wtick')
    BY <1>1, <1>2, <1>3, <2>1
  <2> QED BY <2>2 DEF NotLater, Now
<1>4. \A c \in Channels : NotLater(held'[c], Now')
  BY <1>1, <1>3 DEF Onward
<1>5. ASSUME NEW g \in Flying', g \notin Flying
      PROVE  /\ NotLater(g, Now') /\ \A f : NotLater(f, Now') => NotLater(f, g)
             /\ g.seq = seq + 1 /\ g.channel \in Channels
  BY <1>1, <1>5 DEF NotLater, Now
<1>6. \A g \in Flying' : NotLater(g, Now')
  BY <1>1, <1>3, <1>5 DEF Onward
<1>7. ASSUME NEW g \in Flying', held'[g.channel].seq < g.seq \/ ~live'
      PROVE  NotLater(held'[g.channel], g)
  BY <1>4, <1>5, <1>7 DEF Onward
<1>8. ASSUME NEW g \in Flying', NEW f \in Flying', f.channel = g.channel, f.seq < g.seq
      PROVE  NotLater(f, g)
  <2>1. CASE g \notin Flying
    BY <1>5, <1>6, <2>1
  <2>2. CASE g \in Flying
    <3>1. f \in Flying
      BY <1>1, <1>5, <1>8, <2>2
    <3> QED BY <1>8, <2>2, <3>1 DEF Onward
  <2> QED BY <2>1, <2>2
<1> QED BY <1>4, <1>6, <1>7, <1>8 DEF Onward

\* A frame is taken only if it is not from before what is held.
LEMMA OnwardFrame ==
  ASSUME IInv, Onward, live, NEW f \in Flying, held' = After(f, held), Flying' \subseteq Flying,
         UNCHANGED <<epoch, wtick, live>>
  PROVE  /\ Onward'
         /\ \A c \in Channels : NotLater(held[c], held'[c]) /\ held'[c] \in {held[c], f}
         /\ held[f.channel].binding = f.binding => held'[f.channel] = f
<1> DEFINE c == f.channel
<1>1. /\ IsFrame(f) /\ c \in Channels /\ f.seq \in Nat /\ held[c].seq \in Nat
      /\ held[c].binding = f.binding => held[c].seq < f.seq
  BY FlyingIs
<1>2. held \in [Channels -> BothFrames]
  BY Parts DEF IInv
<1>3. (f.seq <= held[c].seq /\ f.binding # held[c].binding) \/ held[c].seq < f.seq
  BY <1>1
<1>4. /\ \A d \in Channels : d # c => held'[d] = held[d]
      /\ held'[c] = held[c] \/ (held'[c] = f /\ held[c].seq < f.seq)
      /\ held[c].binding = f.binding => held'[c] = f
  BY <1>1, <1>2, <1>3 DEF After
<1>5. held[c].seq < f.seq => NotLater(held[c], f)
  BY DEF Onward
<1>6. \A d \in Channels : held'[d] \in {held[d], f}
  BY <1>4
<1>7. \A d \in Channels : NotLater(held[d], held'[d])
  <2>1. \A d \in Channels : NotLater(held[d], held[d])
    BY FlyingIs DEF NotLater
  <2> QED BY <1>1, <1>4, <1>5, <2>1
<1>8. \A d \in Channels : NotLater(held'[d], Now)
  BY <1>4 DEF Onward
<1>9. ASSUME NEW g \in Flying, held'[g.channel].seq < g.seq
      PROVE  NotLater(held'[g.channel], g)
  <2>1. CASE held'[g.channel] = held[g.channel]
    BY <1>9, <2>1 DEF Onward
  <2>2. CASE g.channel = c /\ held'[c] = f
    BY <1>9, <2>2 DEF Onward
  <2> QED BY <1>4, <2>1, <2>2, FlyingIs
<1>10. Onward'
  <2>1. Now' = Now
    BY DEF Now
  <2> QED BY <1>8, <1>9, <2>1 DEF Onward
<1> QED BY <1>4, <1>6, <1>7, <1>10

\* The history of an advance that returned stays, whatever other sessions do then.
LEMMA HistoryKept ==
  ASSUME ReturnsTick, AdvanceComplete, returned' = returned \/ returned'.tick = None,
         overlapped => overlapped', onStream' = onStream, others' = others \/ others' # 0
  PROVE  ReturnsTick' /\ AdvanceComplete'
<1>1. Ticks \subseteq Int
  BY LockstepAssumption DEF Ticks
<1>2. CASE returned'.tick = None
  BY <1>2 DEF ReturnsTick, AdvanceComplete
<1>3. CASE returned' = returned /\ returned.tick # None
  <2>1. ReturnsTick' /\ returned.tick \in Int
    BY <1>1, <1>3 DEF ReturnsTick
  <2>2. \A t : t = returned.tick => t >= returned.tick
    BY <2>1
  <2>3. AdvanceComplete'
    BY <1>3, <2>2 DEF AdvanceComplete
  <2> QED BY <2>1, <2>3
<1> QED BY <1>2, <1>3

\* With its result there, what advance holds is of the epoch of the result.
LEMMA EpochHeld ==
  ASSUME IInv, JInv, call.at \in Told, ~overlapped, onStream => call.epoch = 0
  PROVE  call.epoch = epoch /\ \A c \in Channels : held[c].epoch = epoch
<1>1. call.epoch = epoch
  BY DEF JInv, InEpoch
<1>2. CASE ~onStream
  BY <1>1, <1>2 DEF JInv, Covered
<1>3. CASE onStream
  <2>1. epoch = 0 /\ \A c \in Channels : held[c].epoch \in Nat
    BY <1>1, <1>3, FlyingIs
  <2>2. \A c \in Channels : held[c].epoch < epoch \/ held[c].epoch = epoch
    BY DEF JInv, Onward, NotLater, Now
  <2> QED BY <1>1, <2>1, <2>2
<1>4. onStream \in BOOLEAN
  BY DEF IInv, Typed
<1> QED BY <1>2, <1>3, <1>4

\* A message that stays on the control connection has the frames before it that it had.
Stays(i) ==
  \E k \in DOMAIN control :
    /\ control'[i] = control[k]
    /\ \A j \in DOMAIN control : j < k /\ IsFrame(control[j]) =>
         \E l \in DOMAIN control' : l < i /\ control'[l] = control[j]

\* advance has had its result, or it is the one that is read.
ToldBefore ==
  \/ call.at \in Told /\ call'.epoch = call.epoch
  \/ control # <<>> /\ Head(control).method = "world.tick" /\ call'.epoch = Head(control).epoch

\* Steps that leave what is held, and send no frames.
LEMMA KeptJInv ==
  ASSUME IInv, JInv, Onward', UNCHANGED <<held, epoch, onStream>>,
         returned' = returned \/ returned'.tick = None, others' = others \/ others' # 0,
         overlapped => overlapped', stream' = stream \/ stream' = <<>>,
         \A i \in DOMAIN control' :
           Stays(i) \/ (control'[i].method \in {"error", "session.resume", "obs.frame"} /\ control'[i].epoch = epoch),
         call'.at \in Told => ToldBefore, call'.at = "resolved" => call' = call
  PROVE  JInv'
<1> USE DEF JInv
<1>1. control # <<>> => 1 \in DOMAIN control /\ control[1] = Head(control) /\ \A j \in DOMAIN control : ~(j < 1)
  <2>1. control \in Seq(Inline)
    BY Parts DEF IInv
  <2> QED BY <2>1
<1>2. InEpoch'
  <2> SUFFICES ASSUME ~overlapped'
               PROVE  /\ \A i \in DOMAIN control' : EndsAdvance(control'[i]) => control'[i].epoch = epoch
                      /\ call'.at \in Told => call'.epoch = epoch
    BY DEF InEpoch
  <2>1. /\ \A i \in DOMAIN control : EndsAdvance(control[i]) => control[i].epoch = epoch
        /\ call.at \in Told => call.epoch = epoch
    BY DEF InEpoch
  <2>2. \A i \in DOMAIN control' : EndsAdvance(control'[i]) => control'[i].epoch = epoch
    BY <2>1 DEF Stays
  <2>3. call'.at \in Told => call'.epoch = epoch
    BY <1>1, <2>1 DEF ToldBefore, EndsAdvance
  <2> QED BY <2>2, <2>3
<1>3. OneLink'
  BY DEF OneLink
<1>4. Covered'
  <2> SUFFICES ASSUME ~onStream, ~overlapped'
               PROVE  /\ \A i \in DOMAIN control' : control'[i].method = "world.tick" => \A c \in Channels :
                           \/ held[c].epoch = epoch
                           \/ \E j \in DOMAIN control' : /\ j < i /\ IsFrame(control'[j])
                                                         /\ control'[j].channel = c /\ control'[j].epoch = epoch
                      /\ call'.at \in Told => \A c \in Channels : held[c].epoch = epoch
    BY DEF Covered
  <2>1. /\ \A i \in DOMAIN control : control[i].method = "world.tick" => \A c \in Channels :
             \/ held[c].epoch = epoch
             \/ \E j \in DOMAIN control :
                  j < i /\ IsFrame(control[j]) /\ control[j].channel = c /\ control[j].epoch = epoch
        /\ call.at \in Told => \A c \in Channels : held[c].epoch = epoch
    BY DEF Covered
  <2>2. ASSUME NEW i \in DOMAIN control', control'[i].method = "world.tick", NEW c \in Channels, held[c].epoch # epoch
        PROVE  \E j \in DOMAIN control' : /\ j < i /\ IsFrame(control'[j])
                                          /\ control'[j].channel = c /\ control'[j].epoch = epoch
    <3>1. PICK k \in DOMAIN control :
            /\ control'[i] = control[k]
            /\ \A j \in DOMAIN control : j < k /\ IsFrame(control[j]) =>
                 \E l \in DOMAIN control' : l < i /\ control'[l] = control[j]
      BY <2>2 DEF Stays
    <3>2. PICK j \in DOMAIN control :
            j < k /\ IsFrame(control[j]) /\ control[j].channel = c /\ control[j].epoch = epoch
      BY <2>1, <2>2, <3>1
    <3>3. PICK l \in DOMAIN control' : l < i /\ control'[l] = control[j]
      BY <3>1, <3>2
    <3> QED BY <3>2, <3>3
  <2>3. call'.at \in Told => \A c \in Channels : held[c].epoch = epoch
    BY <1>1, <2>1 DEF ToldBefore
  <2> QED BY <2>2, <2>3
<1>5. Resolved'
  BY DEF Resolved
<1>6. ReturnsTick' /\ AdvanceComplete'
  BY HistoryKept
<1> QED BY <1>2, <1>3, <1>4, <1>5, <1>6

\* What is as it was stays.
LEMMA AllStay ==
  ASSUME control' = control
  PROVE  (\A i \in DOMAIN control' : Stays(i)) /\ (stream' = stream => Flying' = Flying)
BY DEF Stays, Flying

\* If the message that is read is no frame, the others stay.
LEMMA TookStays ==
  ASSUME IInv, TookControl, ~IsFrame(Head(control))
  PROVE  (\A i \in DOMAIN control' : Stays(i)) /\ (stream' = stream => Flying' \subseteq Flying)
<1>1. /\ \A i \in DOMAIN control' : i + 1 \in DOMAIN control /\ control'[i] = control[i + 1] /\ i \in Nat
      /\ \A i \in DOMAIN control : i = 1 \/ (i - 1 \in DOMAIN control' /\ control'[i - 1] = control[i] /\ i \in Nat)
      /\ control[1] = Head(control)
  BY DEF TookControl, Shrunk
<1>2. ASSUME NEW i \in DOMAIN control' PROVE Stays(i)
  <2>1. ASSUME NEW j \in DOMAIN control, j < i + 1, IsFrame(control[j])
        PROVE  \E l \in DOMAIN control' : l < i /\ control'[l] = control[j]
    <3>1. j # 1
      BY <1>1, <2>1
    <3>2. j - 1 \in DOMAIN control' /\ control'[j - 1] = control[j] /\ j \in Nat /\ i \in Nat
      BY <1>1, <3>1
    <3>3. j - 1 < i
      BY <2>1, <3>2
    <3> QED BY <3>2, <3>3
  <2> QED BY <1>1, <2>1 DEF Stays
<1>3. stream' = stream => Flying' \subseteq Flying
  BY <1>1 DEF Flying, Range
<1> QED BY <1>2, <1>3

\* An advance or a reset is asked for; the timeout: nothing comes or goes.
LEMMA AskJInv == IInv /\ JInv /\ (Advance \/ Reset \/ TimeOut) => JInv'
<1> SUFFICES ASSUME IInv, JInv, Advance \/ Reset \/ TimeOut PROVE JInv'
  OBVIOUS
<1>1. /\ UNCHANGED <<held, live, control, stream, wtick, epoch, onStream, others>>
      /\ returned' = returned \/ returned'.tick = None
      /\ overlapped => overlapped'
      /\ call'.at \in {"calling", "idle"} \/ call' = call
  <2>1. CASE Advance
    BY <2>1 DEF Advance, Overlap, Idle
  <2>2. CASE Reset
    BY <2>2 DEF Reset, Overlap, client
  <2>3. CASE TimeOut
    BY <2>3 DEF TimeOut, Idle, link, world
  <2> QED BY <2>1, <2>2, <2>3
<1>2. Onward'
  <2>1. Flying' = Flying /\ Now' = Now
    BY <1>1, AllStay DEF Now
  <2> QED BY <1>1, <2>1 DEF JInv, Onward
<1>3. (call'.at \in Told => ToldBefore) /\ (call'.at = "resolved" => call' = call)
  BY <1>1 DEF Told, ToldBefore
<1>4. \A i \in DOMAIN control' : Stays(i)
  BY <1>1, AllStay
<1> QED BY <1>1, <1>2, <1>3, <1>4, KeptJInv

\* An answer is read that is not a resumption's.
LEMMA ReadAnswerJInv ==
  ASSUME IInv, JInv, ReadControl, ~IsFrame(Head(control)), Head(control).method # "session.resume"
  PROVE  JInv'
<1> DEFINE m == Head(control)
<1>1. /\ TookControl /\ control # <<>> /\ UNCHANGED <<stream, wtick, epoch, onStream, overlapped, others>>
  BY ReadControlTakes DEF ReadControl
<1>2. /\ UNCHANGED <<held, live, returned>>
      /\ \/ call' = Idle
         \/ call' = call
         \/ m.method = "world.tick" /\ call'.at = "answered" /\ call'.epoch = m.epoch
  BY DEF ReadControl, IsFrame, Answered
<1>3. (\A i \in DOMAIN control' : Stays(i)) /\ Flying' \subseteq Flying
  BY <1>1, TookStays
<1>4. Onward'
  <2>1. Now' = Now
    BY <1>1 DEF Now
  <2> QED BY <1>2, <1>3, <2>1 DEF JInv, Onward
<1>5. (call'.at \in Told => ToldBefore) /\ (call'.at = "resolved" => call' = call)
  <2>1. Idle.at = "idle"
    BY DEF Idle
  <2> QED BY <1>1, <1>2, <2>1 DEF Told, ToldBefore
<1> QED BY <1>1, <1>2, <1>3, <1>4, <1>5, KeptJInv

\* The connection is lost, with the frames on it.
LEMMA LoseJInv == IInv /\ JInv /\ Lose => JInv'
<1> SUFFICES ASSUME IInv, JInv, Lose PROVE JInv'
  OBVIOUS
<1>1. /\ UNCHANGED <<held, returned, wtick, epoch, onStream, overlapped, others>>
      /\ control' = <<>> /\ stream' = <<>>
      /\ call' = call \/ call'.at = "idle"
  BY DEF Lose, Idle, world
<1>2. DOMAIN control' = {} /\ Flying' = {}
  BY <1>1 DEF Flying, Range
<1>3. Onward'
  <2>1. Now' = Now
    BY <1>1 DEF Now
  <2> QED BY <1>1, <1>2, <2>1 DEF JInv, Onward
<1>4. (call'.at \in Told => ToldBefore) /\ (call'.at = "resolved" => call' = call)
  BY <1>1 DEF Told, ToldBefore
<1> QED BY <1>1, <1>2, <1>3, <1>4, KeptJInv

\* A message stays, behind the frames it was behind but for f.
StaysBut(f, i) ==
  \E k \in DOMAIN control :
    /\ control'[i] = control[k]
    /\ \A j \in DOMAIN control : j < k /\ IsFrame(control[j]) =>
         control[j] = f \/ \E l \in DOMAIN control' : l < i /\ control'[l] = control[j]

\* A frame is read on one of the connections: what is held goes on, and stays in its epoch.
LEMMA FrameJInv ==
  ASSUME IInv, JInv, live, NEW f \in Flying, held' = After(f, held), Resolves, Flying' \subseteq Flying,
         \A i \in DOMAIN control' : StaysBut(f, i), stream = <<>> => stream' = <<>>,
         UNCHANGED <<epoch, wtick, live, onStream, overlapped, others>>
  PROVE  JInv'
<1> USE DEF JInv
<1>1. /\ Onward'
      /\ \A c \in Channels : NotLater(held[c], held'[c]) /\ held'[c] \in {held[c], f}
      /\ held[f.channel].binding = f.binding => held'[f.channel] = f
  BY OnwardFrame
<1>2. /\ f.channel \in Channels /\ epoch \in Nat
      /\ \A c \in Channels : /\ held[c].tick \in Nat /\ held[c].epoch \in Nat
                             /\ held'[c].tick \in Nat /\ held'[c].epoch \in Nat
  BY <1>1, FlyingIs
<1>3. ASSUME NEW c \in Channels, held[c].epoch = epoch
      PROVE  held'[c].epoch = epoch /\ held[c].tick <= held'[c].tick
  <2>1. held'[c].epoch < epoch \/ held'[c].epoch = epoch
    BY <1>1 DEF Onward, NotLater, Now
  <2>2. held[c].epoch < held'[c].epoch \/ (held[c].epoch = held'[c].epoch /\ held[c].tick <= held'[c].tick)
    BY <1>1 DEF NotLater
  <2> QED BY <1>2, <1>3, <2>1, <2>2
<1>4. /\ call'.at \in Told => call.at \in Told /\ call'.epoch = call.epoch /\ call'.tick = call.tick
      /\ call'.at = "resolved" => HoldsTick(held', call.tick) \/ call' = call
      /\ returned' = returned
  <2>1. call \in [at : {"idle", "calling", "answered", "waiting", "resolved"},
                  tick : Ticks \union {None}, epoch : Nat \union {None}]
    BY DEF IInv, Typed
  <2> QED BY <2>1 DEF Resolves, Told
<1>5. InEpoch'
  <2>1. ~overlapped => /\ \A i \in DOMAIN control : EndsAdvance(control[i]) => control[i].epoch = epoch
                       /\ call.at \in Told => call.epoch = epoch
    BY DEF InEpoch
  <2>2. \A i \in DOMAIN control' : \E k \in DOMAIN control : control'[i] = control[k]
    BY DEF StaysBut
  <2> QED BY <1>4, <2>1, <2>2 DEF InEpoch
<1>6. ~onStream => /\ stream' = <<>> /\ f.binding = "inline"
                   /\ \A c \in Channels : held[c].binding = "inline"
  <2> SUFFICES ASSUME ~onStream
               PROVE  stream' = <<>> /\ f.binding = "inline" /\ \A c \in Channels : held[c].binding = "inline"
    OBVIOUS
  <2>1. stream = <<>> /\ \A c \in Channels : held[c].binding = "inline"
    BY DEF OneLink
  <2>2. PICK i \in DOMAIN control : f = control[i] /\ IsFrame(f)
    BY <2>1 DEF Flying, Range
  <2>3. f \in FrameSet("inline")
    BY <2>2, Parts, MessageIs DEF IInv
  <2> QED BY <2>1, <2>3 DEF FrameSet
<1>7. OneLink'
  BY <1>1, <1>6 DEF OneLink
<1>8. Covered'
  <2> SUFFICES ASSUME ~onStream, ~overlapped
               PROVE  /\ \A i \in DOMAIN control' : control'[i].method = "world.tick" => \A c \in Channels :
                           \/ held'[c].epoch = epoch
                           \/ \E j \in DOMAIN control' : /\ j < i /\ IsFrame(control'[j])
                                                         /\ control'[j].channel = c /\ control'[j].epoch = epoch
                      /\ call'.at \in Told => \A c \in Channels : held'[c].epoch = epoch
    BY DEF Covered
  <2>1. /\ \A i \in DOMAIN control : control[i].method = "world.tick" => \A c \in Channels :
             \/ held[c].epoch = epoch
             \/ \E j \in DOMAIN control :
                  j < i /\ IsFrame(control[j]) /\ control[j].channel = c /\ control[j].epoch = epoch
        /\ call.at \in Told => \A c \in Channels : held[c].epoch = epoch
    BY DEF Covered
  <2>2. held'[f.channel] = f
    BY <1>1, <1>2, <1>6
  <2>3. ASSUME NEW i \in DOMAIN control', control'[i].method = "world.tick", NEW c \in Channels, held'[c].epoch # epoch
        PROVE  \E j \in DOMAIN control' : /\ j < i /\ IsFrame(control'[j])
                                          /\ control'[j].channel = c /\ control'[j].epoch = epoch
    <3>1. PICK k \in DOMAIN control :
            /\ control'[i] = control[k]
            /\ \A j \in DOMAIN control : j < k /\ IsFrame(control[j]) =>
                 control[j] = f \/ \E l \in DOMAIN control' : l < i /\ control'[l] = control[j]
      BY DEF StaysBut
    <3>2. PICK j \in DOMAIN control :
            j < k /\ IsFrame(control[j]) /\ control[j].channel = c /\ control[j].epoch = epoch
      BY <1>3, <2>1, <2>3, <3>1
    <3>3. control[j] # f
      BY <2>2, <2>3, <3>2
    <3>4. PICK l \in DOMAIN control' : l < i /\ control'[l] = control[j]
      BY <3>1, <3>2, <3>3
    <3> QED BY <3>2, <3>4
  <2>4. call'.at \in Told => \A c \in Channels : held'[c].epoch = epoch
    BY <1>3, <1>4, <2>1
  <2> QED BY <2>3, <2>4
<1>9. Resolved'
  <2> SUFFICES ASSUME call'.at = "resolved", ~overlapped, onStream => call'.epoch = 0, NEW c \in Channels
               PROVE  held'[c].tick >= call'.tick
    BY DEF Resolved
  <2>1. call.at \in Told /\ call'.tick = call.tick /\ call'.epoch = call.epoch
    BY <1>4 DEF Told
  <2>2. call.tick \in Nat
    BY <2>1, LockstepAssumption DEF IInv, Typed, Ticks
  <2>3. CASE HoldsTick(held', call.tick)
    BY <1>2, <2>1, <2>3 DEF HoldsTick
  <2>4. CASE call' = call
    <3>1. held[c].epoch = epoch
      BY <2>1, EpochHeld
    <3>2. held[c].tick >= call.tick
      BY <2>1, <2>4 DEF Resolved
    <3> QED BY <1>2, <1>3, <2>1, <2>2, <3>1, <3>2
  <2> QED BY <1>4, <2>3, <2>4
<1>10. ReturnsTick' /\ AdvanceComplete'
  BY <1>4, HistoryKept
<1> QED BY <1>1, <1>5, <1>7, <1>8, <1>9, <1>10

\* A frame on the stream connection.
LEMMA ReadStreamJInv == IInv /\ JInv /\ ReadStream => JInv'
<1> SUFFICES ASSUME IInv, JInv, ReadStream PROVE JInv'
  OBVIOUS
<1> DEFINE f == Head(stream)
<1>1. /\ stream # <<>> /\ stream' = Tail(stream) /\ Frame(f)
      /\ UNCHANGED <<live, control, wtick, epoch, onStream, overlapped, others>>
  BY DEF ReadStream, world
<1>2. /\ f \in FrameSet("ws") /\ f = stream[1] /\ 1 \in DOMAIN stream /\ live
      /\ \A i \in DOMAIN stream' : i + 1 \in DOMAIN stream /\ stream'[i] = stream[i + 1]
  <2>1. Shrunk(stream, stream') /\ f \in FrameSet("ws")
    BY <1>1, Parts, Taken DEF IInv
  <2>2. live
    BY <1>1 DEF IInv, Down, Resuming, Typed
  <2> QED BY <2>1, <2>2 DEF Shrunk
<1>3. f \in Flying
  BY <1>2, FlyingIs
<1> HIDE DEF f
<1>4. held' = After(f, held) /\ Resolves
  BY <1>1, <1>2, FrameDoes
<1>5. Flying' \subseteq Flying
  BY <1>1, <1>2 DEF Flying, Range
<1>6. \A i \in DOMAIN control' : StaysBut(f, i)
  BY <1>1 DEF StaysBut
<1> QED BY <1>1, <1>2, <1>3, <1>4, <1>5, <1>6, FrameJInv

\* An inline frame.
LEMMA ReadFrameJInv ==
  ASSUME IInv, JInv, ReadControl, IsFrame(Head(control))
  PROVE  JInv'
<1> DEFINE f == Head(control)
<1>1. /\ up /\ TookControl /\ f \in FrameSet("inline") /\ 1 \in DOMAIN control /\ f = control[1] /\ Frame(f)
      /\ UNCHANGED <<live, stream, wtick, epoch, onStream, overlapped, others>>
  <2>1. f \in FrameSet("inline")
    BY ReadControlTakes, MessageIs
  <2>2. Frame(f) /\ UNCHANGED live
    BY DEF ReadControl, IsFrame
  <2> QED BY <2>1, <2>2, ReadControlTakes DEF TookControl, Shrunk
<1>2. live
  BY <1>1 DEF IInv, Resuming, IsFrame, Typed
<1>3. f \in Flying
  BY <1>1, FlyingIs
<1> HIDE DEF f
<1>4. held' = After(f, held) /\ Resolves
  BY <1>1, FrameDoes
<1>5. /\ \A i \in DOMAIN control' : i + 1 \in DOMAIN control /\ control'[i] = control[i + 1] /\ i \in Nat
      /\ \A i \in DOMAIN control : i = 1 \/ (i - 1 \in DOMAIN control' /\ control'[i - 1] = control[i] /\ i \in Nat)
  BY <1>1 DEF TookControl, Shrunk
<1>6. Flying' \subseteq Flying
  BY <1>1, <1>5 DEF Flying, Range
<1>7. ASSUME NEW i \in DOMAIN control' PROVE StaysBut(f, i)
  <2>1. ASSUME NEW j \in DOMAIN control, j < i + 1, control[j] # f
        PROVE  \E l \in DOMAIN control' : l < i /\ control'[l] = control[j]
    <3>1. j - 1 \in DOMAIN control' /\ control'[j - 1] = control[j] /\ j \in Nat /\ i \in Nat
      BY <1>1, <1>5, <2>1
    <3>2. j - 1 < i
      BY <2>1, <3>1
    <3> QED BY <3>1, <3>2
  <2> QED BY <1>5, <2>1 DEF StaysBut
<1> QED BY <1>1, <1>2, <1>3, <1>4, <1>6, <1>7, FrameJInv

\* The result of a resumption: whatever comes behind it is not from before what is held.
LEMMA ReadResumeJInv ==
  ASSUME IInv, JInv, ReadControl, Head(control).method = "session.resume"
  PROVE  JInv'
<1> USE DEF JInv
<1> DEFINE m == Head(control)
<1>1. /\ up /\ TookControl /\ ~IsFrame(m) /\ 1 \in DOMAIN control /\ m = control[1] /\ live'
      /\ held' = [c \in Channels |-> [held[c] EXCEPT !.seq = 0]]
      /\ UNCHANGED <<call, returned, stream, wtick, epoch, onStream, overlapped, others>>
  <2>1. ~IsFrame(m) /\ live' /\ held' = [c \in Channels |-> [held[c] EXCEPT !.seq = 0]] /\ UNCHANGED <<call, returned>>
    BY DEF ReadControl, IsFrame
  <2> QED BY <2>1, ReadControlTakes DEF TookControl, Shrunk
<1>2. ~live /\ stream = <<>> /\ call.at = "idle" /\ \A i \in DOMAIN control : i # 1 => IsFrame(control[i])
  BY <1>1 DEF IInv, Resuming, Typed
<1>3. \A i \in DOMAIN control' : i + 1 \in DOMAIN control /\ control'[i] = control[i + 1] /\ i \in Nat /\ i + 1 # 1
  BY <1>1 DEF TookControl, Shrunk
<1>4. \A i \in DOMAIN control' : ~EndsAdvance(control'[i])
  BY <1>2, <1>3 DEF IsFrame, EndsAdvance
<1>5. \A c \in Channels : /\ held'[c].tick = held[c].tick /\ held'[c].epoch = held[c].epoch
                          /\ held'[c].binding = held[c].binding
  <2>1. \A c \in Channels : held[c] \in BothFrames
    BY Parts DEF IInv
  <2>2. \A c \in Channels : held'[c] = [held[c] EXCEPT !.seq = 0]
    BY <1>1
  <2> QED BY <2>1, <2>2 DEF BothFrames, FrameSet
<1>6. Onward'
  <2>1. Flying' \subseteq Flying /\ Now' = Now
    BY <1>1, TookStays DEF Now
  <2>2. \A g \in Flying : g.channel \in Channels
    BY FlyingIs
  <2>3. \A c \in Channels : \A g : NotLater(held[c], g) => NotLater(held'[c], g)
    BY <1>5 DEF NotLater
  <2>4. \A g \in Flying : NotLater(held[g.channel], g)
    BY <1>2 DEF Onward
  <2> QED BY <2>1, <2>2, <2>3, <2>4 DEF Onward
<1>7. InEpoch' /\ Covered' /\ Resolved'
  BY <1>1, <1>2, <1>4 DEF InEpoch, Covered, Resolved, EndsAdvance, Told
<1>8. OneLink'
  BY <1>1, <1>5 DEF OneLink
<1>9. ReturnsTick' /\ AdvanceComplete'
  BY <1>1, HistoryKept
<1> QED BY <1>6, <1>7, <1>8, <1>9

\* advance goes on, once its result has come or once its frames have.
LEMMA GoOnJInv == IInv /\ JInv /\ (Check \/ Return) => JInv'
<1> SUFFICES ASSUME IInv, JInv, Check \/ Return PROVE JInv'
  OBVIOUS
<1> USE DEF JInv
<1>1. /\ UNCHANGED <<held, live, control, stream, wtick, epoch, onStream, overlapped, others>>
      /\ call.at \in Told /\ call.at \in {"answered", "resolved"}
      /\ call'.at = "idle" \/ (call'.at = "waiting" /\ call'.epoch = call.epoch)
      /\ \/ returned' = returned
         \/ /\ returned' = [tick |-> call.tick, epoch |-> call.epoch, held |-> held]
            /\ call.at = "resolved" \/ HoldsTick(held, call.tick)
  <2>1. CASE Check
    BY <2>1 DEF Check, Complete, Idle, Told, link, world, IInv, Typed
  <2>2. CASE Return
    BY <2>2 DEF Return, Complete, Idle, Told, link, world
  <2> QED BY <2>1, <2>2
<1>2. Onward'
  <2>1. Flying' = Flying /\ Now' = Now
    BY <1>1, AllStay DEF Now
  <2> QED BY <1>1, <2>1 DEF Onward
<1>3. InEpoch' /\ OneLink' /\ Covered' /\ Resolved'
  BY <1>1 DEF InEpoch, OneLink, Covered, Resolved, Told
<1>4. CASE returned' = returned
  BY <1>1, <1>2, <1>3, <1>4, HistoryKept
<1>5. CASE /\ returned' = [tick |-> call.tick, epoch |-> call.epoch, held |-> held]
           /\ call.at = "resolved" \/ HoldsTick(held, call.tick)
  <2>1. call.tick \in Ticks /\ call.tick \in Nat
    BY <1>1, LockstepAssumption DEF IInv, Typed, Ticks
  <2>2. ReturnsTick'
    BY <1>5, <2>1 DEF ReturnsTick
  <2>3. ASSUME ~overlapped, onStream => call.epoch = 0, NEW c \in Channels
        PROVE  /\ held[c].epoch = call.epoch
               /\ IF others = 0 THEN held[c].tick = call.tick ELSE held[c].tick >= call.tick
    <3>1. call.epoch = epoch /\ held[c].epoch = epoch
      BY <1>1, <2>3, EpochHeld
    <3>2. held[c].tick >= call.tick
      BY <1>5, <2>1, <2>3 DEF Resolved, HoldsTick
    <3>3. others = 0 => call.tick = wtick
      BY <1>1, <2>3 DEF IInv, Waits
    <3>4. held[c].tick <= wtick
      <4>1. NotLater(held[c], Now) /\ held[c].epoch \in Nat /\ epoch \in Nat
        BY FlyingIs DEF Onward
      <4> QED BY <3>1, <4>1 DEF NotLater, Now
    <3>5. held[c].tick \in Nat
      BY FlyingIs
    <3> QED BY <2>1, <3>1, <3>2, <3>3, <3>4, <3>5
  <2>4. AdvanceComplete'
    <3>1. returned'.tick = call.tick /\ returned'.epoch = call.epoch /\ returned'.held = held
      BY <1>5
    <3> QED BY <1>1, <2>3, <3>1 DEF AdvanceComplete
  <2> QED BY <1>2, <1>3, <2>2, <2>4
<1> QED BY <1>1, <1>4, <1>5

\* What is published is of the next seq and of the tick and the epoch the world is at.
LEMMA PublishedFlies ==
  ASSUME NEW ms, NEW ns, NEW answer, NEW t, NEW e, Published(ms, ns, answer, t, e)
  PROVE  \A g \in Flying' : g \in Flying \/ (g.channel \in Channels /\ g.seq = seq + 1 /\ g.epoch = e /\ g.tick = t)
<1>1. Grown(control, control', ms) /\ Grown(stream, stream', ns)
  BY DEF Published
<1>2. /\ \A i \in DOMAIN ms : IsFrame(ms[i]) =>
           ms[i].channel \in Channels /\ ms[i].seq = seq + 1 /\ ms[i].epoch = e /\ ms[i].tick = t
      /\ \A i \in DOMAIN ns : ns[i].channel \in Channels /\ ns[i].seq = seq + 1 /\ ns[i].epoch = e /\ ns[i].tick = t
  BY DEF Published, Sends
<1>3. ASSUME NEW i \in DOMAIN control', IsFrame(control'[i]), control'[i] \notin Flying
      PROVE  \E k \in DOMAIN ms : control'[i] = ms[k]
  BY <1>1, <1>3 DEF Grown, Flying, Range
<1>4. ASSUME NEW i \in DOMAIN stream', stream'[i] \notin Flying
      PROVE  \E k \in DOMAIN ns : stream'[i] = ns[k]
  BY <1>1, <1>4 DEF Grown, Flying, Range
<1> QED BY <1>2, <1>3, <1>4 DEF Flying, Range

\* The frames of a tick, and its result behind them.
LEMMA PublishedJInv ==
  ASSUME IInv, JInv, NEW ms, NEW ns, NEW answer, Published(ms, ns, answer, wtick', epoch'), Reply(answer, epoch'),
         epoch' \in Nat, wtick' \in Nat, NotLater(Now, Now'), epoch' = epoch \/ overlapped \/ call.at = "idle",
         UNCHANGED <<held, call, returned, live, onStream, overlapped>>, others' = others \/ others' # 0
  PROVE  JInv'
<1> USE DEF JInv
<1>1. /\ \A i \in DOMAIN control : i \in DOMAIN control' /\ control'[i] = control[i] /\ i \in Nat
      /\ \A i \in DOMAIN control' :
           \/ i \in DOMAIN control /\ control'[i] = control[i]
           \/ i \notin DOMAIN control /\ control'[i].epoch = epoch'
      /\ \A i \in DOMAIN control' : i \in DOMAIN control \/ IsFrame(control'[i]) \/ i = Len(control')
  BY PublishedAdds DEF IInv
<1>2. Onward'
  BY PublishedFlies, OnwardGrows
<1>3. (\E i \in DOMAIN control : EndsAdvance(control[i])) => call.at = "calling"
  BY DEF IInv, OneAdvance
<1>4. InEpoch'
  BY <1>1, <1>3 DEF InEpoch, Told
<1>5. ~onStream => stream' = <<>> /\ DOMAIN ns = {}
  <2> SUFFICES ASSUME ~onStream PROVE stream' = <<>> /\ DOMAIN ns = {}
    OBVIOUS
  <2>1. stream = <<>> /\ stream' = <<>> /\ Len(<<>>) = 0
    BY DEF OneLink, Published
  <2>2. Len(ns) = 0 /\ DOMAIN ns = 1..Len(ns)
    BY <2>1 DEF Published, Grown
  <2> QED BY <2>1, <2>2
<1>6. OneLink'
  BY <1>5 DEF OneLink
<1>7. Covered'
  <2> SUFFICES ASSUME ~onStream, ~overlapped
               PROVE  /\ \A i \in DOMAIN control' : control'[i].method = "world.tick" => \A c \in Channels :
                           \/ held[c].epoch = epoch'
                           \/ \E j \in DOMAIN control' : /\ j < i /\ IsFrame(control'[j])
                                                         /\ control'[j].channel = c /\ control'[j].epoch = epoch'
                      /\ call.at \in Told => \A c \in Channels : held[c].epoch = epoch'
    BY DEF Covered
  <2>1. /\ \A i \in DOMAIN control : control[i].method = "world.tick" => \A c \in Channels :
             \/ held[c].epoch = epoch
             \/ \E j \in DOMAIN control :
                  j < i /\ IsFrame(control[j]) /\ control[j].channel = c /\ control[j].epoch = epoch
        /\ call.at \in Told => \A c \in Channels : held[c].epoch = epoch
    BY DEF Covered
  <2>2. call.at \in Told => \A c \in Channels : held[c].epoch = epoch'
    BY <2>1 DEF Told
  <2>3. ASSUME NEW i \in DOMAIN control', control'[i].method = "world.tick", NEW c \in Channels, held[c].epoch # epoch'
        PROVE  \E j \in DOMAIN control' : /\ j < i /\ IsFrame(control'[j])
                                          /\ control'[j].channel = c /\ control'[j].epoch = epoch'
    <3>1. CASE i \in DOMAIN control
      <4>1. control[i] = control'[i] /\ epoch' = epoch
        BY <1>1, <1>3, <2>3, <3>1 DEF EndsAdvance
      <4>2. PICK j \in DOMAIN control :
              j < i /\ IsFrame(control[j]) /\ control[j].channel = c /\ control[j].epoch = epoch
        BY <2>1, <2>3, <3>1, <4>1
      <4> QED BY <1>1, <4>1, <4>2
    <3>2. CASE i \notin DOMAIN control
      <4>1. i = Len(control') /\ ~IsFrame(control'[i])
        BY <1>1, <2>3, <3>2 DEF IsFrame
      <4>2. PICK k \in DOMAIN ms : IsFrame(ms[k]) /\ ms[k].channel = c
        BY <1>5 DEF Published
      <4>3. ms[k].epoch = epoch' /\ Grown(control, control', ms)
        BY DEF Published
      <4>4. /\ Len(control) + k \in DOMAIN control' /\ control'[Len(control) + k] = ms[k]
            /\ DOMAIN control' = 1..Len(control') /\ Len(control') \in Nat
            /\ Len(control) \in Nat /\ k \in Nat
        BY <4>3 DEF Grown
      <4>5. Len(control) + k # i
        BY <4>1, <4>2, <4>4
      <4>6. Len(control) + k < i
        BY <4>1, <4>4, <4>5
      <4> QED BY <4>2, <4>3, <4>4, <4>6
    <3> QED BY <3>1, <3>2
  <2> QED BY <2>2, <2>3
<1>8. Resolved'
  BY DEF Resolved
<1>9. ReturnsTick' /\ AdvanceComplete'
  BY HistoryKept
<1> QED BY <1>2, <1>4, <1>6, <1>7, <1>8, <1>9

\* The world answers a tick: the next, or a refusal.
LEMMA HandleTickJInv == IInv /\ JInv /\ HandleTick => JInv'
<1> SUFFICES ASSUME IInv, JInv, HandleTick PROVE JInv'
  OBVIOUS
<1>1. PICK r \in requests :
        /\ r.method = "world.tick" /\ requests' = requests \ {r}
        /\ IF r.tick = wtick
             THEN /\ wtick' = wtick + 1 /\ UNCHANGED mismatched
                  /\ Publish(<<Message("world.tick", wtick', epoch)>>, wtick', epoch)
             ELSE /\ control' = Append(control, Message("error", wtick, epoch))
                  /\ mismatched' = TRUE /\ UNCHANGED <<wtick, seq, stream>>
  BY DEF HandleTick
<1>2. UNCHANGED <<held, call, returned, live, epoch, onStream, overlapped, others>>
  BY DEF HandleTick, client
<1>3. CASE r.tick = wtick
  <2> DEFINE m == Message("world.tick", wtick', epoch)
  <2>1. wtick' = wtick + 1 /\ wtick' \in Ticks /\ wtick' \in Nat /\ epoch \in Nat /\ wtick \in Nat
    <3>1. r \in RequestSet /\ wtick \in Ticks /\ epoch \in Nat
      BY DEF IInv, Typed
    <3> QED BY <1>1, <1>3, <3>1, LockstepAssumption DEF RequestSet, Ticks
  <2>2. Publish(<<m>>, wtick', epoch)
    BY <1>1, <1>3
  <2>3. Reply(<<m>>, epoch)
    <3>1. m \in AnswerSet /\ m.epoch = epoch
      BY <2>1 DEF AnswerSet, Message
    <3> QED BY <3>1 DEF Reply
  <2> HIDE DEF m
  <2>4. PICK ms, ns : Published(ms, ns, <<m>>, wtick', epoch)
    BY <2>1, <2>2, <2>3, PublishSends DEF IInv
  <2>5. NotLater(Now, Now')
    BY <1>2, <2>1 DEF NotLater, Now
  <2> QED BY <1>2, <2>1, <2>3, <2>4, <2>5, PublishedJInv
<1>4. CASE r.tick # wtick
  <2> DEFINE m == Message("error", wtick, epoch)
  <2>1. control' = Append(control, m) /\ UNCHANGED <<wtick, stream>>
    BY <1>1, <1>4
  <2>2. m.method = "error" /\ m.epoch = epoch /\ ~IsFrame(m)
    BY DEF Message, IsFrame
  <2> HIDE DEF m
  <2>3. /\ \A i \in DOMAIN control : i \in DOMAIN control' /\ control'[i] = control[i]
        /\ \A i \in DOMAIN control' : (i \in DOMAIN control /\ control'[i] = control[i]) \/ control'[i] = m
    <3>1. control \in Seq(Inline)
      BY Parts DEF IInv
    <3> QED BY <2>1, <3>1
  <2>4. Flying' = Flying /\ Now' = Now
    BY <1>2, <2>1, <2>2, <2>3 DEF Flying, Range, Now
  <2>5. Onward'
    BY <1>2, <2>4 DEF JInv, Onward
  <2>6. \A i \in DOMAIN control' : Stays(i) \/ (control'[i].method = "error" /\ control'[i].epoch = epoch)
    BY <2>2, <2>3 DEF Stays
  <2>7. call'.at \in Told => ToldBefore
    BY <1>2 DEF ToldBefore
  <2> QED BY <1>2, <2>1, <2>5, <2>6, <2>7, KeptJInv
<1> QED BY <1>3, <1>4

\* The world is reset: no advance is under way, unless that is noted.
LEMMA HandleResetJInv == IInv /\ JInv /\ HandleReset => JInv'
<1> SUFFICES ASSUME IInv, JInv, HandleReset PROVE JInv'
  OBVIOUS
<1>1. PICK r \in requests :
        /\ r.method = "world.reset" /\ requests' = requests \ {r}
        /\ wtick' = r.tick /\ epoch' = epoch + 1
        /\ Publish(<<Message("world.reset", r.tick, epoch')>>, r.tick, epoch')
  BY DEF HandleReset
<1>2. UNCHANGED <<held, call, returned, live, onStream, overlapped, others>>
  BY DEF HandleReset, client
<1> DEFINE m == Message("world.reset", wtick', epoch')
<1>3. wtick' \in Ticks /\ wtick' \in Nat /\ epoch \in Nat /\ epoch' \in Nat /\ wtick \in Nat
  <2>1. r \in RequestSet /\ wtick \in Ticks /\ epoch \in Nat
    BY DEF IInv, Typed
  <2> QED BY <1>1, <2>1, LockstepAssumption DEF RequestSet, Ticks
<1>4. Publish(<<m>>, wtick', epoch')
  BY <1>1
<1>5. Reply(<<m>>, epoch')
  <2>1. m \in AnswerSet /\ m.epoch = epoch'
    BY <1>3 DEF AnswerSet, Message
  <2> QED BY <2>1 DEF Reply
<1> HIDE DEF m
<1>6. PICK ms, ns : Published(ms, ns, <<m>>, wtick', epoch')
  BY <1>3, <1>4, <1>5, PublishSends DEF IInv
<1>7. NotLater(Now, Now')
  BY <1>1, <1>3 DEF NotLater, Now
<1>8. overlapped \/ call.at = "idle"
  BY <1>1 DEF IInv, Apart, Resetting
<1> QED BY <1>2, <1>3, <1>5, <1>6, <1>7, <1>8, PublishedJInv

\* Another session advances the world.
LEMMA OtherJInv == IInv /\ JInv /\ Other => JInv'
<1> SUFFICES ASSUME IInv, JInv, Other PROVE JInv'
  OBVIOUS
<1>1. /\ others' = others + 1 /\ wtick' = wtick + 1 /\ wtick < MaxTick
      /\ UNCHANGED <<held, call, returned, live, epoch, onStream, overlapped>>
  BY DEF Other, client
<1>2. others' # 0 /\ wtick' \in Ticks /\ wtick' \in Nat /\ wtick \in Nat /\ epoch \in Nat
  BY <1>1, LockstepAssumption DEF IInv, Typed, Ticks
<1>3. NotLater(Now, Now')
  BY <1>1, <1>2 DEF NotLater, Now
<1>4. CASE ~up
  <2>1. UNCHANGED <<control, stream>>
    BY <1>4 DEF Other
  <2>2. Onward'
    BY <1>1, <1>2, <1>3, <2>1, AllStay, OnwardGrows DEF JInv
  <2>3. (call'.at \in Told => ToldBefore) /\ \A i \in DOMAIN control' : Stays(i)
    BY <1>1, <2>1, AllStay DEF ToldBefore
  <2> QED BY <1>1, <1>2, <2>1, <2>2, <2>3, KeptJInv
<1>5. CASE up
  <2>1. Publish(<<>>, wtick', epoch) /\ Reply(<<>>, epoch)
    BY <1>5 DEF Other, Reply
  <2>2. PICK ms, ns : Published(ms, ns, <<>>, wtick', epoch)
    BY <1>2, <2>1, PublishSends DEF IInv
  <2> QED BY <1>1, <1>2, <1>3, <2>1, <2>2, PublishedJInv
<1> QED BY <1>4, <1>5

\* A new connection, with the frames of all channels as the world is.
LEMMA ReconnectJInv == IInv /\ JInv /\ Reconnect => JInv'
<1> SUFFICES ASSUME IInv, JInv, Reconnect PROVE JInv'
  OBVIOUS
<1> DEFINE m == Message("session.resume", wtick, epoch)
<1>1. /\ call = Idle /\ seq' = seq + 1 /\ control' = <<m>> \o Frames("inline", wtick, epoch)
      /\ UNCHANGED <<held, call, returned, live, stream, wtick, epoch, onStream, overlapped, others>>
  BY DEF Reconnect, client
<1>2. stream = <<>> /\ seq \in Nat /\ seq' \in Nat /\ wtick \in Ticks /\ wtick \in Nat /\ epoch \in Nat /\ call.at = "idle"
  <2>1. stream = <<>> /\ call.at = "idle"
    BY <1>1 DEF Reconnect, IInv, Down, Idle
  <2> QED BY <1>1, <2>1, LockstepAssumption DEF IInv, Typed, Ticks
<1>3. m \in AnswerSet /\ m.method = "session.resume" /\ m.epoch = epoch
  BY <1>2 DEF AnswerSet, Message
<1> HIDE DEF m
<1>4. PICK fs : Batch(fs, "inline", seq + 1, wtick, epoch) /\ control' = <<m>> \o fs
  <2>1. Batch(Frames("inline", wtick, epoch), "inline", seq + 1, wtick, epoch)
    BY <1>1, <1>2, FramesAreBatch
  <2> QED BY <1>1, <2>1
<1>5. /\ Sends(fs, seq + 1, wtick)
      /\ \A i \in DOMAIN fs : fs[i].epoch = epoch /\ IsFrame(fs[i]) /\ fs[i].channel \in Channels
  BY <1>4, BatchSends
<1>6. \A i \in DOMAIN control' : control'[i] = m \/ \E k \in DOMAIN fs : control'[i] = fs[k]
  <2>1. fs \in Seq(Inline) /\ <<m>> \in Seq(Inline)
    BY <1>3, <1>4 DEF Batch, Inline
  <2>2. Grown(<<m>>, control', fs)
    BY <1>4, <2>1, Joined
  <2>3. Len(<<m>>) = 1 /\ DOMAIN <<m>> = 1..1 /\ <<m>>[1] = m
    OBVIOUS
  <2> QED BY <2>2, <2>3 DEF Grown
<1>7. \A g \in Flying' : g.channel \in Channels /\ g.seq = seq + 1 /\ g.epoch = epoch /\ g.tick = wtick
  <2>1. \A i \in DOMAIN control' : IsFrame(control'[i]) => \E k \in DOMAIN fs : control'[i] = fs[k]
    BY <1>3, <1>6 DEF IsFrame
  <2>2. \A i \in DOMAIN control' : IsFrame(control'[i]) =>
          control'[i].channel \in Channels /\ control'[i].seq = seq + 1 /\ control'[i].epoch = epoch /\ control'[i].tick = wtick
    BY <1>5, <2>1 DEF Sends
  <2>3. DOMAIN stream' = {}
    BY <1>1, <1>2
  <2> QED BY <2>2, <2>3 DEF Flying, Range
<1>8. Onward'
  <2>1. NotLater(Now, Now')
    BY <1>1, <1>2 DEF NotLater, Now
  <2> QED BY <1>1, <1>2, <1>7, <2>1, OnwardGrows DEF JInv
<1>9. \A i \in DOMAIN control' : control'[i].method \in {"session.resume", "obs.frame"} /\ control'[i].epoch = epoch
  BY <1>3, <1>5, <1>6 DEF IsFrame
<1>10. (call'.at \in Told => ToldBefore) /\ (call'.at = "resolved" => call' = call)
  BY <1>1, <1>2 DEF Told
<1> QED BY <1>1, <1>8, <1>9, <1>10, KeptJInv

\* At the start, what is held is what the world shows.
LEMMA InitJInv == Init => JInv
<1> SUFFICES ASSUME Init PROVE JInv
  OBVIOUS
<1> USE DEF Init
<1>1. Flying = {} /\ DOMAIN control = {}
  BY DEF Flying, Range
<1>2. Onward
  BY <1>1 DEF Onward, NotLater, Now
<1>3. InEpoch /\ OneLink /\ Covered /\ Resolved
  BY <1>1 DEF InEpoch, OneLink, Covered, Resolved, Idle, Told
<1>4. ReturnsTick /\ AdvanceComplete
  BY LockstepAssumption DEF ReturnsTick, AdvanceComplete, Ticks
<1> QED BY <1>2, <1>3, <1>4 DEF JInv

\* Every step keeps it.
LEMMA NextJInv == IInv /\ JInv /\ [Next]_vars => JInv'
<1> SUFFICES ASSUME IInv, JInv, [Next]_vars PROVE JInv'
  OBVIOUS
<1>1. CASE UNCHANGED vars
  BY <1>1 DEF vars, client, link, world, JInv, Onward, Flying, Now, InEpoch, OneLink, Covered, Resolved,
              ReturnsTick, AdvanceComplete
<1>2. CASE Advance \/ Reset \/ TimeOut \/ Check \/ Return \/ Lose
  BY <1>2, AskJInv, GoOnJInv, LoseJInv
<1>3. CASE ReadControl \/ ReadStream
  BY <1>3, ReadStreamJInv, ReadFrameJInv, ReadResumeJInv, ReadAnswerJInv
<1>4. CASE HandleTick \/ HandleReset \/ Other \/ Reconnect
  BY <1>4, HandleTickJInv, HandleResetJInv, OtherJInv, ReconnectJInv
<1> QED BY <1>1, <1>2, <1>3, <1>4 DEF Next

-----------------------------------------------------------------------------
(* The theorems                                                            *)

\* Every step keeps the invariant.
LEMMA NextIInv == IInv /\ [Next]_vars => IInv'
<1> SUFFICES ASSUME IInv, [Next]_vars PROVE IInv'
  OBVIOUS
<1>1. CASE UNCHANGED vars
  BY <1>1 DEF vars, client, link, world, IInv, Typed, Down, Resuming, OneAdvance, Apart, Resetting, LastTells,
              AskedInTime, Ordered, Newest, Waits, RefusedForCause, AdvanceNotStuck
<1>2. CASE Advance \/ Reset \/ Check \/ Return
  BY <1>2, AdvanceIInv, ResetIInv, CheckIInv, ReturnIInv
<1>3. CASE ReadControl \/ ReadStream \/ Lose \/ TimeOut
  BY <1>3, ReadControlIInv, ReadStreamIInv, LoseIInv, TimeOutIInv
<1>4. CASE HandleTick \/ HandleReset \/ Other \/ Reconnect
  BY <1>4, HandleTickIInv, HandleResetIInv, OtherIInv, ReconnectIInv
<1> QED BY <1>1, <1>2, <1>3, <1>4 DEF Next

\* The invariant holds for any number of channels, ticks, resets, losses and other sessions.
THEOREM IInvCorrect == Spec => []IInv
<1> QED BY InitIInv, NextIInv, PTL DEF Spec

\* The client and the world count the same ticks: they agree whenever nothing is under way,
\* and an advance is refused only when another session or a reset meanwhile moved the world.
THEOREM InvCorrect == Spec => []Inv
<1>1. IInv => Inv
  <2> SUFFICES ASSUME IInv PROVE Inv
    OBVIOUS
  <2> USE DEF IInv
  <2>1. TypeOK
    BY DEF TypeOK, Typed, Down, OneAdvance, RequestSet
  <2>2. TickAgrees
    BY DEF TickAgrees, LastTells, Down
  <2> QED BY <2>1, <2>2 DEF Inv
<1> QED BY <1>1, IInvCorrect, PTL

\* What is held once advance goes on is of its tick and of its epoch: no frame from before a
\* reset, and nothing that came while it waited to go on, took it back.
THEOREM AdvanceCompleteCorrect == Spec => []AdvanceComplete
<1>1. Init => IInv /\ JInv
  BY InitIInv, InitJInv
<1>2. IInv /\ JInv /\ [Next]_vars => (IInv /\ JInv)'
  BY NextIInv, NextJInv
<1>3. IInv /\ JInv => AdvanceComplete
  BY DEF JInv
<1> QED BY <1>1, <1>2, <1>3, PTL DEF Spec

\* advance does not time out with all frames there, unless another session or a reset moved
\* the world under it.
THEOREM AdvanceNotStuckCorrect == Spec => []AdvanceNotStuck
<1>1. IInv => AdvanceNotStuck
  BY DEF IInv
<1> QED BY <1>1, IInvCorrect, PTL

=============================================================================
