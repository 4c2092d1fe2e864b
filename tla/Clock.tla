-------------------------------- MODULE Clock --------------------------------
(***************************************************************************)
(* The clock estimator (src/awp/clock.py): the offset of the session clock   *)
(* from the agent's, measured by pings whose two ways may take any time, of  *)
(* a clock that drifts from one exchange to the next.                       *)
(***************************************************************************)
EXTENDS Integers, Sequences

CONSTANTS
  Window,    \* exchanges the estimator keeps
  Delays,    \* how long a message, or the world's answering, may take
  Origins,   \* agent-clock readings a ping may be sent at
  Offsets    \* true offsets of a session clock

ASSUME ClockAssumption ==
  /\ Window \in Nat \ {0}
  /\ Delays \subseteq Nat
  /\ Origins \subseteq Int
  /\ Offsets \subseteq Int

VARIABLES
  samples,   \* ClockEstimator._samples: the newest is the last
  offset     \* external: the session clock less the agent clock

vars == <<samples, offset>>

ClockSample == [offset_ns : Int, rtt_ns : Nat]

-----------------------------------------------------------------------------
(* Mutants                                                                 *)

\* The world's processing time counts as delay of the way out.
SampleIgnoringTransmit(origin, receive, transmit, destination) ==
  LET rtt == (destination - origin) - (transmit - receive)
  IN  [offset_ns |-> receive - origin, rtt_ns |-> IF rtt < 0 THEN 0 ELSE rtt]

-----------------------------------------------------------------------------
(* The operations                                                          *)

\* sample: \div rounds down, as // does.
Sample(origin, receive, transmit, destination) ==
  LET rtt == (destination - origin) - (transmit - receive)
  IN  [offset_ns |-> ((receive - origin) + (transmit - destination)) \div 2,
       rtt_ns    |-> IF rtt < 0 THEN 0 ELSE rtt]

\* add, to a deque of bounded length.
Add(s) ==
  samples' = IF Len(samples) < Window THEN Append(samples, s) ELSE Append(Tail(samples), s)

\* best: the first of the samples with the least round trip.
Best ==
  samples[CHOOSE i \in 1..Len(samples) :
            /\ \A j \in 1..Len(samples) : samples[i].rtt_ns <= samples[j].rtt_ns
            /\ \A j \in 1..(i - 1) : samples[i].rtt_ns < samples[j].rtt_ns]

\* A ping, and its pong: out and back are the delays of the two ways, and the pong is
\* stamped on a clock that is ahead of the agent's by true.
Measure(true) ==
  \E origin \in Origins, out \in Delays, busy \in Delays, back \in Delays :
    LET receive == origin + out + true
        transmit == receive + busy
        destination == origin + out + busy + back
    IN  Add(Sample(origin, receive, transmit, destination))

\* Between two exchanges the session clock drifts by at most one.
Exchange ==
  /\ offset' \in (offset - 1)..(offset + 1)
  /\ offset' \in Offsets
  /\ Measure(offset')

\* A new session has a clock of its own, and a new estimator.
NewSession ==
  /\ samples' = <<>>
  /\ offset' \in Offsets

Init == samples = <<>> /\ offset \in Offsets

Next == Exchange \/ NewSession

Spec == Init /\ [][Next]_vars

-----------------------------------------------------------------------------
(* Properties                                                              *)

\* The window holds at most Window samples with nonnegative round trips.
TypeOK ==
  /\ samples \in Seq(ClockSample)
  /\ Len(samples) <= Window
  /\ offset \in Int

Abs(n) == IF n < 0 THEN -n ELSE n

\* Twice the error of a sample is at most its round trip, the rounding of // and the
\* drift since.
Within(s, drift) == 2 * Abs(s.offset_ns - offset) <= s.rtt_ns + 1 + 2 * drift

\* Each sample is as good as its round trip and its age allow.
SamplesWithin ==
  \A i \in 1..Len(samples) : Within(samples[i], Len(samples) - i)

\* The offset the client maps times through (to_session, to_agent) is off by no more
\* than half the round trip that error_bound_ns reports, rounded up, and the drift over
\* the window: asymmetric delays cost no more, and no sample outlives the window.
BestWithin == samples # <<>> => Within(Best, Window - 1)

\* No sample kept promises less error than the one the client uses.
BestIsLeast ==
  \A i \in 1..Len(samples) : Best.rtt_ns <= samples[i].rtt_ns
=============================================================================
