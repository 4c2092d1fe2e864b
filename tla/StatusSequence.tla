---------------------------- MODULE StatusSequence ----------------------------
(***************************************************************************)
(* The status_seq bookkeeping of ClientConnection (src/awp/client.py): which *)
(* of a session's numbered statuses were processed, what the agent          *)
(* acknowledges, and when the replay after a resumption is over.            *)
(*                                                                         *)
(* The environment is left unconstrained: a status may come in any order,   *)
(* any number of times or not at all, whether as a notification or as the   *)
(* result of a request.                                                     *)
(***************************************************************************)
EXTENDS Naturals

CONSTANTS
  MaxSeq,   \* the highest status_seq a session assigns
  NoReplay  \* None, where replay_to has it

ASSUME MaxSeqAssumption == MaxSeq \in Nat
ASSUME NoReplayAssumption == NoReplay \notin Nat

VARIABLES
  last_status_seq,  \* the ack point
  seen_above,       \* status_seqs processed beyond a gap
  replay_to,        \* where the replay under way ends, or NoReplay
  processed,        \* history: status_seqs whose effects took place
  acked             \* history: the highest last_status_seq sent to the world

vars == <<last_status_seq, seen_above, replay_to, processed, acked>>

Seqs == 1..MaxSeq

\* The bookkeeping holds numbers of statuses the session assigns.
TypeOK ==
  /\ last_status_seq \in 0..MaxSeq
  /\ seen_above \subseteq Seqs
  /\ replay_to \in (0..MaxSeq) \union {NoReplay}
  /\ processed \subseteq Seqs
  /\ acked \in 0..MaxSeq

Init ==
  /\ last_status_seq = 0
  /\ seen_above = {}
  /\ replay_to = NoReplay
  /\ processed = {}
  /\ acked = 0

-----------------------------------------------------------------------------
(* Mutants, for the runs that show each property can be broken.            *)

FreshWithoutSeen(seq) == seq > last_status_seq

GapAcknowledged(seq) ==
  /\ seq # last_status_seq + 1
  /\ last_status_seq' = seq
  /\ UNCHANGED seen_above

InOrderWithoutAbsorbing(seq) ==
  /\ seq = last_status_seq + 1
  /\ last_status_seq' = seq
  /\ UNCHANGED seen_above

FinishReplayOffByOne ==
  replay_to' = IF replay_to # NoReplay /\ last_status_seq' + 1 >= replay_to
                 THEN NoReplay ELSE replay_to

AcknowledgeNext ==
  /\ acked' = last_status_seq + 1
  /\ UNCHANGED <<last_status_seq, seen_above, replay_to, processed>>

-----------------------------------------------------------------------------
(* _sequence                                                               *)

\* A status_seq not yet processed; any other is a redelivery.
Fresh(seq) == seq > last_status_seq /\ seq \notin seen_above

\* A status beyond the next one is processed, but the ack point stays below the gap.
Gap(seq) ==
  /\ seq # last_status_seq + 1
  /\ seen_above' = seen_above \union {seq}
  /\ UNCHANGED last_status_seq

\* The next status moves the ack point over everything processed beyond it.
InOrder(seq) ==
  /\ seq = last_status_seq + 1
  /\ \E n \in seq..MaxSeq :
       /\ (seq + 1)..n \subseteq seen_above
       /\ n + 1 \notin seen_above
       /\ last_status_seq' = n
       /\ seen_above' = seen_above \ ((seq + 1)..n)

Sequence(seq) ==
  /\ Fresh(seq)
  /\ Gap(seq) \/ InOrder(seq)
  /\ processed' = processed \union {seq}

\* _finish_replay, which a handler runs after _sequence.
FinishReplay ==
  replay_to' = IF replay_to # NoReplay /\ last_status_seq' >= replay_to
                 THEN NoReplay ELSE replay_to

-----------------------------------------------------------------------------
(* The handlers, as far as they touch the sequence                         *)

\* A status whose number is new is processed.
Process(seq) ==
  /\ Sequence(seq)
  /\ FinishReplay
  /\ UNCHANGED acked

\* A redelivered notification changes nothing but runs _finish_replay.
Redeliver(seq) ==
  /\ ~Fresh(seq)
  /\ UNCHANGED <<last_status_seq, seen_above, processed, acked>>
  /\ FinishReplay

\* The result of session.resume starts a replay, unless nothing is missing.
ReplayTarget(target) ==
  IF target # NoReplay /\ target <= last_status_seq THEN NoReplay ELSE target

ResumeResult(target) ==
  /\ replay_to' = ReplayTarget(target)
  /\ UNCHANGED <<last_status_seq, seen_above, processed, acked>>

\* A ping or a session.resume request carries the ack point.
Acknowledge ==
  /\ acked' = last_status_seq
  /\ UNCHANGED <<last_status_seq, seen_above, replay_to, processed>>

\* _end_session: a new session, or the loss of this one.
EndSession ==
  /\ last_status_seq' = 0
  /\ seen_above' = {}
  /\ replay_to' = NoReplay
  /\ processed' = {}
  /\ acked' = 0

Next ==
  \/ \E seq \in Seqs : Process(seq)
  \/ \E seq \in 0..MaxSeq : Redeliver(seq)
  \/ \E target \in (0..MaxSeq) \union {NoReplay} : ResumeResult(target)
  \/ Acknowledge
  \/ EndSession

Spec == Init /\ [][Next]_vars

-----------------------------------------------------------------------------
(* Properties                                                              *)

\* last_status_seq is the ack point of client.py:205: every status up to it was
\* processed, and it is the highest number of which that is true.
AckPoint ==
  /\ 1..last_status_seq \subseteq processed
  /\ last_status_seq + 1 \notin processed

\* A status takes effect if and only if it did not take effect before, however the
\* statuses were reordered, repeated and lost (the dedup of _sequence).
ExactlyOnce == \A seq \in Seqs : Fresh(seq) <=> seq \notin processed

\* The world may discard what the agent acknowledged (ping, session.resume): none
\* of it is still to be processed.
AckedIsProcessed == 1..acked \subseteq processed

\* `replaying` holds only while a status of the replay is missing: an agent that
\* waits for ReplayCompleted waits for something still to come.
ReplayIsMissingSome == replay_to # NoReplay => ~(1..replay_to \subseteq processed)

\* A status ends the replay (ReplayCompleted) only if none of it is missing any more.
ReplayEndsComplete ==
  [][\A seq \in 0..MaxSeq :
       (Process(seq) \/ Redeliver(seq)) /\ replay_to # NoReplay /\ replay_to' = NoReplay
         => 1..replay_to \subseteq processed']_vars
=============================================================================
