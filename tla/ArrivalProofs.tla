---------------------------- MODULE ArrivalProofs ----------------------------
(***************************************************************************)
(* What a world sends, message by message, frame by frame and status after   *)
(* status.  The properties of StatusSequence hold for every MaxSeq, so for    *)
(* every number of statuses and whatever the order, repetition and loss;     *)
(* those of Inbound for every number of requests and every length of frames. *)
(*                                                                         *)
(* The two share no definition: each theorem is of the specification that    *)
(* it names.                                                               *)
(***************************************************************************)
EXTENDS StatusSequence, Inbound, SequenceTheorems, TLAPS

-----------------------------------------------------------------------------
(* Statuses in sequence                                                    *)

\* What was processed is everything up to the ack point, and the statuses beyond the
\* gap after it; nothing beyond the ack point was acknowledged, and a replay under way
\* has not reached its end.
ProcessedSplit ==
  /\ processed = (1..last_status_seq) \union seen_above
  /\ \A s \in seen_above : s > last_status_seq + 1

AckBehind == acked <= last_status_seq

ReplayAhead == replay_to # NoReplay => last_status_seq < replay_to

\* The inductive invariant.
IInv == TypeOK /\ ProcessedSplit /\ AckBehind /\ ReplayAhead

-----------------------------------------------------------------------------
(* What a step does to the ack point                                       *)

\* Processing a new status keeps the split of processed, and moves the ack point forward
\* only (client.py:794-810).
LEMMA SequenceSplits ==
  ASSUME TypeOK, ProcessedSplit, NEW seq \in Seqs, Sequence(seq)
  PROVE  /\ last_status_seq' \in last_status_seq..MaxSeq
         /\ seen_above' \subseteq Seqs
         /\ processed' \subseteq Seqs
         /\ ProcessedSplit'
<1> USE MaxSeqAssumption, NoReplayAssumption DEF TypeOK, Seqs
<1>1. CASE Gap(seq)
  <2>1. seq > last_status_seq + 1
    BY <1>1 DEF Gap, Sequence, Fresh
  <2>2. last_status_seq' = last_status_seq /\ seen_above' = seen_above \union {seq}
    BY <1>1 DEF Gap
  <2>3. processed' = processed \union {seq}
    BY DEF Sequence
  <2> QED BY <2>1, <2>2, <2>3 DEF ProcessedSplit
<1>2. CASE InOrder(seq)
  <2>1. PICK n \in seq..MaxSeq :
          /\ (seq + 1)..n \subseteq seen_above
          /\ n + 1 \notin seen_above
          /\ last_status_seq' = n
          /\ seen_above' = seen_above \ ((seq + 1)..n)
    BY <1>2 DEF InOrder
  <2>2. seq = last_status_seq + 1 /\ processed' = processed \union {seq}
    BY <1>2 DEF InOrder, Sequence
  <2>3. processed' = (1..n) \union seen_above'
    BY <2>1, <2>2 DEF ProcessedSplit
  <2>4. \A s \in seen_above' : s > n + 1
    BY <2>1, <2>2 DEF ProcessedSplit
  <2> QED BY <2>1, <2>2, <2>3, <2>4 DEF ProcessedSplit
<1> QED BY <1>1, <1>2 DEF Sequence

\* _finish_replay leaves a replay that is under way short of its end (client.py:812-815).
LEMMA FinishReplayAhead ==
  ASSUME TypeOK, last_status_seq' \in 0..MaxSeq, FinishReplay
  PROVE  replay_to' \in (0..MaxSeq) \union {NoReplay} /\ ReplayAhead'
BY MaxSeqAssumption, NoReplayAssumption DEF TypeOK, FinishReplay, ReplayAhead

-----------------------------------------------------------------------------
(* The inductive invariant                                                 *)

\* A new connection satisfies it (client.py:205-213).
LEMMA InitIInv == Init => IInv
BY MaxSeqAssumption
   DEF Init, IInv, TypeOK, ProcessedSplit, AckBehind, ReplayAhead

\* Every operation preserves it, one step per operation.
LEMMA NextIInv == IInv /\ [Next]_vars => IInv'
<1> SUFFICES ASSUME IInv, [Next]_vars PROVE IInv'
  OBVIOUS
<1> USE MaxSeqAssumption, NoReplayAssumption
<1>1. ASSUME NEW seq \in Seqs, Process(seq) PROVE IInv'
  <2>1. Sequence(seq) /\ FinishReplay /\ acked' = acked
    BY <1>1 DEF Process
  <2>2. /\ last_status_seq' \in last_status_seq..MaxSeq
        /\ seen_above' \subseteq Seqs
        /\ processed' \subseteq Seqs
        /\ ProcessedSplit'
    BY <2>1, SequenceSplits DEF IInv
  <2>3. last_status_seq' \in 0..MaxSeq
    BY <2>2 DEF IInv, TypeOK
  <2>4. replay_to' \in (0..MaxSeq) \union {NoReplay} /\ ReplayAhead'
    BY <2>1, <2>3, FinishReplayAhead DEF IInv
  <2>5. AckBehind'
    BY <2>1, <2>2 DEF IInv, AckBehind, TypeOK
  <2> QED BY <2>1, <2>2, <2>3, <2>4, <2>5 DEF IInv, TypeOK
<1>2. ASSUME NEW seq \in 0..MaxSeq, Redeliver(seq) PROVE IInv'
  <2>1. FinishReplay /\ UNCHANGED <<last_status_seq, seen_above, processed, acked>>
    BY <1>2 DEF Redeliver
  <2>2. replay_to' \in (0..MaxSeq) \union {NoReplay} /\ ReplayAhead'
    BY <2>1, FinishReplayAhead DEF IInv, TypeOK
  <2> QED BY <2>1, <2>2 DEF IInv, TypeOK, ProcessedSplit, AckBehind
<1>3. ASSUME NEW target \in (0..MaxSeq) \union {NoReplay}, ResumeResult(target) PROVE IInv'
  BY <1>3 DEF ResumeResult, ReplayTarget, IInv, TypeOK, ProcessedSplit, AckBehind, ReplayAhead
<1>4. CASE Acknowledge
  BY <1>4 DEF Acknowledge, IInv, TypeOK, ProcessedSplit, AckBehind, ReplayAhead
<1>5. CASE EndSession
  BY <1>5 DEF EndSession, IInv, TypeOK, ProcessedSplit, AckBehind, ReplayAhead
<1>6. CASE UNCHANGED vars
  BY <1>6 DEF vars, IInv, TypeOK, ProcessedSplit, AckBehind, ReplayAhead
<1> QED BY <1>1, <1>2, <1>3, <1>4, <1>5, <1>6 DEF Next

\* The inductive invariant holds throughout: the properties below follow from it.
THEOREM Invariant == Spec => []IInv
BY InitIInv, NextIInv, PTL DEF Spec

-----------------------------------------------------------------------------
(* The properties                                                          *)

\* The bookkeeping keeps its types (client.py:205, 212-213).
THEOREM TypeCorrect == Spec => []TypeOK
<1>1. IInv => TypeOK
  BY DEF IInv
<1> QED BY <1>1, Invariant, PTL

\* The ack point is the end of what was processed without a gap (client.py:205).
THEOREM AckPointCorrect == Spec => []AckPoint
<1>1. IInv => AckPoint
  BY MaxSeqAssumption DEF IInv, AckPoint, ProcessedSplit, TypeOK, Seqs
<1> QED BY <1>1, Invariant, PTL

\* A status is new to _sequence exactly if it was not processed (client.py:800).
THEOREM ExactlyOnceCorrect == Spec => []ExactlyOnce
<1>1. IInv => ExactlyOnce
  BY MaxSeqAssumption DEF IInv, ExactlyOnce, Fresh, ProcessedSplit, TypeOK, Seqs
<1> QED BY <1>1, Invariant, PTL

\* What the client ever acknowledged, it processed (client.py:373, 518).
THEOREM AckedIsProcessedCorrect == Spec => []AckedIsProcessed
<1>1. IInv => AckedIsProcessed
  BY MaxSeqAssumption DEF IInv, AckedIsProcessed, AckBehind, ProcessedSplit, TypeOK, Seqs
<1> QED BY <1>1, Invariant, PTL

\* A replay under way has something left to deliver (client.py:677-679, 812-815).
THEOREM ReplayIsMissingSomeCorrect == Spec => []ReplayIsMissingSome
<1>1. IInv => ReplayIsMissingSome
  <2> SUFFICES ASSUME IInv, replay_to # NoReplay PROVE last_status_seq + 1 \in 1..replay_to /\
                                                   last_status_seq + 1 \notin processed
    BY DEF ReplayIsMissingSome
  <2> QED BY MaxSeqAssumption, NoReplayAssumption
          DEF IInv, ReplayAhead, ProcessedSplit, TypeOK, Seqs
<1> QED BY <1>1, Invariant, PTL

\* A status ends a replay only once all of it is processed (client.py:812-815).
THEOREM ReplayEndsCompleteCorrect == Spec => ReplayEndsComplete
<1>1. ASSUME IInv, IInv', NEW seq \in 0..MaxSeq, Process(seq) \/ Redeliver(seq),
             replay_to # NoReplay, replay_to' = NoReplay
      PROVE  1..replay_to \subseteq processed'
  <2>1. FinishReplay
    BY <1>1 DEF Process, Redeliver
  <2>2. last_status_seq' >= replay_to
    BY <1>1, <2>1 DEF FinishReplay
  <2> QED BY <1>1, <2>2, MaxSeqAssumption, NoReplayAssumption
          DEF IInv, TypeOK, ProcessedSplit
<1>2. IInv /\ IInv' /\ [Next]_vars
        => [\A seq \in 0..MaxSeq :
              (Process(seq) \/ Redeliver(seq)) /\ replay_to # NoReplay /\ replay_to' = NoReplay
                => 1..replay_to \subseteq processed']_vars
  BY <1>1
<1> QED BY <1>2, Invariant, PTL DEF Spec, ReplayEndsComplete
-----------------------------------------------------------------------------
(* The control connection                                                  *)

\* Both ends of a request, by its id.
Tables ==
  /\ pending = [id \in Ids |-> pending[id]]
  /\ outcome = [id \in Ids |-> outcome[id]]

\* A request that waits, or is to come, has no event yet.
Unheard == \A id \in Ids : pending[id] # None \/ id >= next_id => outcome[id] = None

ControlInv == Tables /\ Unheard /\ ControlTypeOK /\ ErrorAsMade /\ NoCallerForgotten

\* from_dict gives back what to_dict was given (errors.py): the object data carries detail,
\* retryability and the rest, and is left out only where all three are the defaults.
LEMMA ErrorSurvives ==
  ASSUME NEW e \in Sent
  PROVE  /\ FromDict(ToDict(e)) = e
         /\ Constructible(ToDict(e))
         /\ e # None /\ e # Success
<1>1. e = Error(e.code, e.detail, e.retryable, e.data)
  BY DEF Sent, AwpError, Error
<1>2. e.code \in Int /\ e.data \cap {"code", "message"} = {}
  BY DEF Sent, AwpError, Error
<1>3. ~HasData(e) => e.detail = None /\ e.retryable = FALSE /\ e.data = {}
  <2>1. AwpError(-32601, None) = Error(-32601, None, FALSE, {})
    BY DEF AwpError, RETRYABLE
  <2>2. ~HasData(e) => e = AwpError(-32601, None)
    BY FrameCodecAssumption DEF Sent, AwpError, Error, HasData, JSONRPC
  <2> QED BY <2>1, <2>2 DEF Error
<1>4. e # None /\ e # Success
  BY <1>1, ErrorAssumption DEF Error, Success
<1>5. CASE HasData(e)
  <2>1. ToDict(e) = [code |-> e.code, data |-> [retryable |-> e.retryable, detail |-> e.detail, rest |-> e.data]]
    BY <1>5 DEF ToDict
  <2>2. ToDict(e).data # None
    BY <1>5, ErrorAssumption
  <2>3. /\ ToDict(e).code = e.code /\ ToDict(e).data.detail = e.detail
        /\ ToDict(e).data.retryable = e.retryable /\ ToDict(e).data.rest = e.data
    BY <2>1
  <2>4. FromDict(ToDict(e)) = e
    BY <1>1, <2>2, <2>3, Zenon DEF FromDict
  <2> QED BY <1>2, <1>4, <2>3, <2>4, FrameCodecAssumption DEF Constructible
<1>6. CASE ~HasData(e)
  <2>1. ToDict(e) = [code |-> e.code, data |-> None]
    BY <1>6 DEF ToDict
  <2>2. ToDict(e).code = e.code /\ ToDict(e).data = None
    BY <2>1
  <2>3. FromDict(ToDict(e)) = e
    BY <1>1, <1>3, <1>6, <2>2, Zenon DEF FromDict
  <2> QED BY <1>2, <1>4, <2>2, <2>3, FrameCodecAssumption DEF Constructible
<1> QED BY <1>5, <1>6

\* A message has the members that it was made with.
LEMMA MessageFields ==
  ASSUME NEW c, NEW i, NEW p, NEW r, NEW e, NEW m,
         m \in {Message(c, i, p, r, e), Wide(Message(c, i, p, r, e)),
                [Message(c, i, p, r, e) EXCEPT !.json = FALSE], [Message(c, i, p, r, e) EXCEPT !.version = FALSE]}
  PROVE  m.method = c /\ m.id = i /\ m.params = p /\ m.result = r /\ m.error = e
<1>1. CASE m = Message(c, i, p, r, e)
  BY <1>1 DEF Message
<1>2. CASE m = Wide(Message(c, i, p, r, e))
  BY <1>2, Zenon DEF Message, Wide
<1>3. CASE m = [Message(c, i, p, r, e) EXCEPT !.json = FALSE]
  BY <1>3, Zenon DEF Message
<1>4. CASE m = [Message(c, i, p, r, e) EXCEPT !.version = FALSE]
  BY <1>4, Zenon DEF Message
<1> QED BY <1>1, <1>2, <1>3, <1>4

\* An error that cannot be constructed, params that are a list and a response without an id are
\* what decode lets pass; any other error is one that was made.
LEMMA Shapes ==
  ASSUME NEW m \in Arriving
  PROVE  /\ m.error # None /\ Constructible(m.error) => \E e \in Sent : m.error = ToDict(e)
         /\ m.error # None /\ ~Constructible(m.error) => m \in Unchecked
         /\ m.params = "list" => m \in Unchecked
         /\ m.id = None /\ is_response(m) => m \in Unchecked
<1> USE DEF AnswerTo, MethodCall
<1>1. CASE m \in Responses
  <2>1. CASE \E i \in Ids \union {0, Text}, r \in {"valid", "invalid", "unsupported"} :
               m \in {AnswerTo(i, r, None), Wide(AnswerTo(i, r, None))}
    <3>1. PICK i \in Ids \union {0, Text}, r \in {"valid", "invalid", "unsupported"} :
            m \in {AnswerTo(i, r, None), Wide(AnswerTo(i, r, None))}
      BY <2>1
    <3>2. m.id = i /\ m.params = "absent" /\ m.error = None
      BY <3>1, MessageFields
    <3> QED BY <3>2, FrameCodecAssumption DEF Ids, Text
  <2>2. CASE \E i \in Ids \union {0}, e \in Sent : m = AnswerTo(i, "absent", ToDict(e))
    <3>1. PICK i \in Ids \union {0}, e \in Sent : m = AnswerTo(i, "absent", ToDict(e))
      BY <2>2
    <3>2. m.error = ToDict(e) /\ m.id = i /\ m.params = "absent"
      BY <3>1, MessageFields
    <3>3. i # None
      BY FrameCodecAssumption DEF Ids
    <3> QED BY <3>2, <3>3, ErrorSurvives
  <2> QED BY <1>1, <2>1, <2>2 DEF Responses
<1>2. CASE m \in Calls
  <2>1. PICK c \in {"ping", "session.state", "other"}, i \in {None, Text}, p \in {"absent", "valid", "invalid"} :
          m \in {MethodCall(c, i, p), Wide(MethodCall(c, i, p))}
    BY <1>2 DEF Calls
  <2>2. m.method = c /\ m.params = p /\ m.error = None
    BY <2>1, MessageFields
  <2> QED BY <2>2 DEF is_response
<1>3. CASE m \in InlineFrames
  <2>1. PICK f : m = InlineFrame(f)
    BY <1>3 DEF InlineFrames
  <2>2. m.method = "obs.frame" /\ m.params = "valid" /\ m.error = None
    BY <2>1, Zenon DEF InlineFrame, Message
  <2> QED BY <2>2 DEF is_response
<1>4. CASE m \in Nonsense
  <2>1. \E c \in {"absent", "ping", "nonstring"}, i \in {None, 1} :
          m \in {Message(c, i, "absent", "absent", None), Wide(Message(c, i, "absent", "absent", None)),
                 [Message(c, i, "absent", "absent", None) EXCEPT !.json = FALSE],
                 [Message(c, i, "absent", "absent", None) EXCEPT !.version = FALSE]}
    BY <1>4 DEF Nonsense
  <2>2. m.params = "absent" /\ m.result = "absent" /\ m.error = None
    BY <2>1, MessageFields
  <2> QED BY <2>2 DEF is_response
<1>5. CASE m \in Unchecked
  <2>1. CASE m = AnswerTo(1, "absent", [code |-> None, data |-> None])
    <3>1. m.error.code = None
      BY <2>1 DEF Message
    <3> QED BY <1>5, <3>1 DEF Constructible
  <2>2. CASE m = AnswerTo(1, "absent", [code |-> 2005, data |-> [retryable |-> FALSE, detail |-> None, rest |-> {"code"}]])
    <3>1. m.error.data = [retryable |-> FALSE, detail |-> None, rest |-> {"code"}]
      BY <2>2 DEF Message
    <3> QED BY <1>5, <3>1, ErrorAssumption DEF Constructible
  <2>3. CASE m.error = None
    BY <1>5, <2>3
  <2> QED BY <1>5, <2>1, <2>2, <2>3, MessageFields DEF Unchecked, Message
<1> QED BY <1>1, <1>2, <1>3, <1>4, <1>5 DEF Arriving
\* Reading a message: a request that is answered leaves _pending with the event of its caller,
\* unless the reader fails (client.py).
LEMMA ReadKeeps ==
  ASSUME ControlInv, Read
  PROVE  ControlInv'
<1> USE FrameCodecAssumption, MessagesAssumption DEF ControlInv, Tables, Unheard, ControlTypeOK, ErrorAsMade, NoCallerForgotten, Ids
<1>1. PICK m \in Arriving :
        /\ last' = m
        /\ \/ Rejected(m) /\ Nothing
           \/ /\ OutOfRange(m)
              /\ reader' = "ended" /\ session' = "closed" /\ reply' = None /\ reported' = FALSE
              /\ UNCHANGED <<pending, outcome>>
           \/ /\ ~Rejected(m) /\ ~OutOfRange(m)
              /\ \/ is_response(m) /\ OnResponse(m)
                 \/ is_request(m) /\ WorldRequest(m)
                 \/ is_notification(m) /\ OnNotification(m)
  BY DEF Read
<1>2. next_id' = next_id /\ reader = "reading"
  BY DEF Read
<1>3. ASSUME UNCHANGED <<pending, outcome, session, reader>>, reported' \in BOOLEAN PROVE ControlInv'
  BY <1>2, <1>3
<1>4. ASSUME UNCHANGED <<pending, outcome, session>>, m \in Unchecked, Exception PROVE ControlInv'
  BY <1>1, <1>2, <1>4 DEF Exception
<1>5. CASE Violation \/ Nothing
  BY <1>3, <1>5 DEF Nothing, Violation
<1>6. CASE OutOfRange(m) /\ reader' = "ended" /\ session' = "closed" /\ reported' = FALSE /\ UNCHANGED <<pending, outcome>>
  BY <1>2, <1>6
<1>7. CASE is_response(m) /\ OnResponse(m)
  <2>1. CASE m.id = None
    BY <1>4, <1>7, <2>1, Shapes DEF OnResponse
  <2>2. CASE m.id \in Ids /\ pending[m.id] # None /\ Response(m, m.id)
    <3> DEFINE id == m.id
    <3>1. ASSUME NEW event, Answered(id, event), event # None, event \notin {Success} => event \in Sent,
                 session' \in {session, "live"}, reader' = reader, reported' \in BOOLEAN
          PROVE  ControlInv'
      <4>1. /\ pending' = [pending EXCEPT ![id] = None] /\ outcome' = [outcome EXCEPT ![id] = event]
            /\ next_id' = next_id /\ reader' = "reading" /\ id \in Ids
        BY <1>2, <2>2, <3>1 DEF Answered
      <4>2. Tables' /\ ControlTypeOK'
        BY <3>1, <4>1
      <4>3. ErrorAsMade'
        BY <3>1, <4>1
      <4>4. \A other \in 1..next_id - 1 : pending'[other] = None => outcome'[other] # None
        <5>1. TAKE other \in 1..next_id - 1
        <5>2. CASE other = id
          BY <3>1, <4>1, <5>2
        <5>3. CASE other # id
          <6>1. other \in Ids /\ pending'[other] = pending[other] /\ outcome'[other] = outcome[other]
            BY <4>1, <5>3
          <6>2. pending[other] = None => outcome[other] # None
            BY <1>2
          <6> QED BY <6>1, <6>2
        <5> QED BY <5>2, <5>3
      <4>5. NoCallerForgotten'
        BY <4>1, <4>4
      <4>6. ASSUME NEW other \in Ids, pending'[other] # None \/ other >= next_id PROVE outcome'[other] = None
        <5>1. id < next_id
          BY <1>2, <2>2
        <5>2. other # id
          BY <4>1, <4>6, <5>1
        <5>3. pending'[other] = pending[other] /\ outcome'[other] = outcome[other]
          BY <4>1, <5>2
        <5>4. pending[other] # None \/ other >= next_id => outcome[other] = None
          BY <1>2
        <5> QED BY <4>6, <5>3, <5>4
      <4> QED BY <4>1, <4>2, <4>3, <4>5, <4>6
    <3>2. CASE m.error # None /\ Constructible(m.error)
      <4>1. PICK e \in Sent : m.error = ToDict(e)
        BY <3>2, Shapes
      <4>2. FromDict(m.error) = e /\ e # None
        BY <4>1, ErrorSurvives
      <4> QED BY <2>2, <3>1, <3>2, <4>2 DEF Response
    <3>3. CASE m.error # None /\ ~Constructible(m.error)
      BY <1>1, <1>2, <2>2, <3>3, Shapes DEF Response, Exception
    <3>4. CASE m.error = None /\ Unusable(m) /\ pending[id] = "initialize"
      BY <1>1, <1>2, <2>2, <3>4 DEF Response, Exception
    <3>5. CASE m.error = None /\ ~(Unusable(m) /\ pending[id] = "initialize")
      <4>1. Answered(id, Success) /\ session' \in {session, "live"} /\ reader' = reader /\ reported' \in BOOLEAN
        BY <2>2, <3>5 DEF Response, EventOf, Invalid
      <4> QED BY <3>1, <4>1
    <3> QED BY <3>2, <3>3, <3>4, <3>5
  <2> QED BY <1>5, <1>7, <2>1, <2>2 DEF OnResponse
<1>8. CASE is_request(m) /\ WorldRequest(m)
  <2>1. CASE m.params = "list" /\ Exception /\ UNCHANGED <<pending, outcome, session>>
    BY <1>4, <2>1, Shapes
  <2>2. CASE UNCHANGED <<pending, outcome, session, reader>> /\ reported' = FALSE
    BY <1>3, <2>2
  <2>3. \/ m.params = "list" /\ Exception /\ UNCHANGED <<pending, outcome, session>>
        \/ UNCHANGED <<pending, outcome, session, reader>> /\ reported' = FALSE
    BY <1>8 DEF WorldRequest
  <2> QED BY <2>1, <2>2, <2>3
<1>9. CASE is_notification(m) /\ OnNotification(m)
  <2>1. CASE session' = "closed" /\ reported' = FALSE /\ UNCHANGED <<pending, outcome, reader>>
    BY <1>2, <2>1
  <2> QED BY <1>5, <1>9, <2>1 DEF OnNotification
<1> QED BY <1>1, <1>5, <1>6, <1>7, <1>8, <1>9

\* A request waits for its answer under an id of its own.
LEMMA RequestKeeps ==
  ASSUME ControlInv, Request
  PROVE  ControlInv'
<1> USE FrameCodecAssumption, MessagesAssumption DEF ControlInv
<1>1. PICK method \in Methods : pending' = [pending EXCEPT ![next_id] = method]
  BY DEF Request
<1>2. next_id \in Ids /\ next_id' = next_id + 1 /\ UNCHANGED <<outcome, session, reader, last, reported>>
  BY DEF Request
<1>3. Tables'
  BY <1>1, <1>2 DEF Tables
<1>4. \A id \in Ids : pending[id] \in Methods \union {None} /\ (id >= next_id => pending[id] = None)
  BY DEF ControlTypeOK
<1>5. next_id \in 1..MaxRequests /\ next_id' \in 1..MaxRequests + 1
  BY <1>2 DEF Ids
<1>6. \A id \in Ids : pending'[id] \in Methods \union {None}
  BY <1>1, <1>2, <1>4 DEF Tables
<1>7. \A id \in Ids : id >= next_id' => pending'[id] = None
  BY <1>1, <1>2, <1>4, <1>5 DEF Tables, Ids
<1>8. ControlTypeOK'
  BY <1>2, <1>5, <1>6, <1>7 DEF ControlTypeOK
<1>9. ErrorAsMade'
  BY <1>2 DEF ErrorAsMade
<1>10. ASSUME NEW id \in 1..next_id' - 1, pending'[id] = None
       PROVE  outcome[id] # None \/ reader = "failed"
  <2>1. CASE id = next_id
    BY <1>1, <1>2, <1>10, <2>1 DEF Tables
  <2>2. CASE id # next_id
    <3>1. id \in 1..next_id - 1 /\ pending[id] = None
      BY <1>1, <1>2, <1>5, <1>10, <2>2 DEF Tables, Ids
    <3> QED BY <3>1 DEF NoCallerForgotten
  <2> QED BY <2>1, <2>2
<1>11. NoCallerForgotten'
  <2>1. reader' = "reading"
    BY <1>2 DEF Request
  <2> QED BY <1>2, <1>10, <2>1 DEF NoCallerForgotten
<1>12. Unheard'
  BY <1>1, <1>2, <1>5 DEF Unheard, Tables, Ids
<1> QED BY <1>3, <1>8, <1>9, <1>11, <1>12

\* A stream connection changes the session, and ends a reader that has not failed.
LEMMA StreamKeeps ==
  ASSUME ControlInv, UNCHANGED <<pending, outcome, last, reported, next_id>>,
         session' \in {session, "closed"}, reader' = reader \/ (reader = "reading" /\ reader' = "ended")
  PROVE  ControlInv'
<1>1. Tables' /\ Unheard' /\ ControlTypeOK'
  BY DEF ControlInv, Tables, Unheard, ControlTypeOK
<1>2. ErrorAsMade'
  BY DEF ControlInv, ErrorAsMade
<1>3. NoCallerForgotten'
  <2>1. reader' = "failed" => reader = "failed"
    OBVIOUS
  <2>2. reader = "failed" => reader' = "failed"
    OBVIOUS
  <2> QED BY <2>1, <2>2 DEF ControlInv, NoCallerForgotten
<1> QED BY <1>1, <1>2, <1>3 DEF ControlInv

\* A step of either connection keeps what the control connection has.
LEMMA ControlStep ==
  ASSUME ControlInv, [ConnectionsNext]_connections
  PROVE  ControlInv'
<1>1. CASE ReadControl
  BY <1>1, ReadKeeps DEF ReadControl
<1>2. CASE Call
  BY <1>2, RequestKeeps DEF Call
<1>3. CASE Connect \/ Receive \/ UNCHANGED connections
  BY <1>3, StreamKeeps DEF Connect, Receive, connections, control
<1>4. CASE DecodeFrame
  BY <1>4, StreamKeeps DEF DecodeFrame, RangeAbandons
<1>5. CASE FinishEnding
  BY <1>5, StreamKeeps DEF FinishEnding
<1> QED BY <1>1, <1>2, <1>3, <1>4, <1>5 DEF ConnectionsNext

\* A connection begins without requests (client.py).
LEMMA ControlStart == ASSUME ConnectionsInit PROVE ControlInv
<1>1. Tables /\ Unheard
  BY DEF ConnectionsInit, ControlInit, Tables, Unheard
<1>2. ControlTypeOK
  <2>1. \A id \in Ids : pending[id] = None
    BY DEF ConnectionsInit, ControlInit
  <2>2. next_id \in 1..MaxRequests + 1 /\ reported = FALSE /\ session \in {"none", "live", "closed"} /\ reader = "reading"
    BY MessagesAssumption DEF ConnectionsInit, ControlInit
  <2> QED BY <2>1, <2>2 DEF ControlTypeOK
<1>3. ErrorAsMade /\ NoCallerForgotten
  BY DEF ConnectionsInit, ControlInit, ErrorAsMade, NoCallerForgotten
<1> QED BY <1>1, <1>2, <1>3 DEF ControlInv

-----------------------------------------------------------------------------
(* decode                                                                  *)

\* What decode is given: bytes, and the fields of fixed places.
DataOK(d) ==
  /\ d.bytes \in Seq(Byte) /\ d.payload_len \in Nat /\ d.seq \in Int
  /\ d.ext_len \in Nat \union {None}

\* The value of the extension that starts at p.
ValueAt(p) == Number(data.bytes[p + 1], data.bytes[p + 3])

\* V has the starts of the extensions before offset, each of which ends where the next one starts.
Chain(V) ==
  /\ V \subseteq 0..offset - 1 /\ (offset > 0 => 0 \in V)
  /\ \A p \in V :
       /\ p + 2 <= offset /\ p + 2 + data.bytes[p + 2] \in V \union {offset}
       /\ \A q \in V : ~(p < q /\ q < p + 2 + data.bytes[p + 2])

\* No other chain reaches the end: the starts of a frame are those of V, and then offset.
Unique(V) ==
  \A P \in Starts(data) : {p \in P : p < offset} = V /\ (offset < End => offset \in P)

\* The locals of the loop have the extensions of V, and none of them was refused.
Taken(V) ==
  /\ seen = {data.bytes[p + 1] : p \in V}
  /\ \A p \in V : \A q \in V \ {p} : data.bytes[q + 1] # data.bytes[p + 1]
  /\ \A p \in V : data.bytes[p + 1] \in DOMAIN Absent =>
       /\ data.bytes[p + 2] = RegisteredLen
       /\ ext[data.bytes[p + 1]] = ValueAt(p)
       /\ ~Exceeds(data.bytes[p + 1], ValueAt(p))

Locals ==
  /\ seen \subseteq Byte
  /\ ext \in [DOMAIN Absent -> Int \union {None}]
  /\ \A kind \in DOMAIN Absent : kind \notin seen => ext[kind] = None
  /\ Len(vendor) = IF Vendor \in seen THEN 1 ELSE 0

DecodeInv ==
  data # None =>
    /\ DataOK(data)
    /\ vendor \in Seq({<<Vendor, b>> : b \in Seq(Byte)})
    /\ Locals
    /\ BadHead \/ ~Extended => offset = 0 /\ seen = {}
    /\ ~BadHead /\ Extended => offset \in 0..End /\ \E V : Chain(V) /\ Unique(V) /\ Taken(V)

\* Where the extensions end, their part is within the bytes.
LEMMA EndOfPart ==
  ASSUME DataOK(data), ~BadHead, Extended
  PROVE  End = data.ext_len /\ End \in Nat /\ End <= Len(data.bytes) /\ Len(data.bytes) \in Nat
<1>1. Len(data.bytes) \in Nat
  BY DEF DataOK
<1>2. data.ext_len # None /\ ~(End > Len(data.bytes))
  BY DEF BadHead
<1>3. End = data.ext_len /\ End \in Nat
  BY <1>2 DEF End, DataOK
<1> QED BY <1>1, <1>2, <1>3

\* The registered types, the scale of bytes and the type of the vendor.
LEMMA Registered == DOMAIN Absent = {1, 2} /\ Vendor = 3 /\ Byte = 0..3
BY DEF Absent, EXT_TICK, EXT_TS_SIM_NS, Vendor, Byte

\* A step that leaves the locals of the loop alone keeps what they have.
LEMMA DecodeUnchanged ==
  ASSUME DecodeInv, data' = data, offset' = offset, seen' = seen, ext' = ext, vendor' = vendor
  PROVE  DecodeInv'
<1>1. (BadHead' <=> BadHead) /\ (Extended' <=> Extended) /\ End' = End
  BY DEF BadHead, Extended, End
<1>2. ASSUME NEW V, Chain(V), Unique(V), Taken(V)
      PROVE  Chain(V)' /\ Unique(V)' /\ Taken(V)'
  <2>1. Chain(V)'
    BY <1>2 DEF Chain
  <2>2. Unique(V)'
    BY <1>1, <1>2 DEF Unique
  <2>3. Taken(V)'
    BY <1>2 DEF Taken, ValueAt
  <2> QED BY <2>1, <2>2, <2>3
<1>3. Locals => Locals'
  BY DEF Locals
<1> QED BY <1>1, <1>2, <1>3 DEF DecodeInv

\* The numbers of extensions are integers.
LEMMA Numbers ==
  ASSUME NEW kind, NEW byte \in Byte
  PROVE  Number(kind, byte) \in Int /\ Number(kind, byte) # None
<1>1. Signed(byte) \in Int /\ byte \in Int
  BY DEF Signed, Byte
<1> QED BY <1>1, FrameCodecAssumption DEF Number

\* What a frame has at the offset: an extension that ends within its part.
LEMMA NextStart ==
  ASSUME DataOK(data), ~BadHead, Extended, offset \in 0..End, offset < End,
         NEW V, Chain(V), Unique(V), NEW P \in Starts(data)
  PROVE  /\ V \subseteq P /\ offset \in P
         /\ offset + 2 <= End
         /\ data.bytes[offset + 2] \in Byte
         /\ offset + 2 + data.bytes[offset + 2] \in P \union {End}
         /\ offset + 2 + data.bytes[offset + 2] <= End
         /\ {p \in P : p < offset + 2 + data.bytes[offset + 2]} = V \union {offset}
<1> DEFINE next == offset + 2 + data.bytes[offset + 2]
<1>1. End = data.ext_len /\ End \in Nat /\ End <= Len(data.bytes) /\ Len(data.bytes) \in Nat
  BY EndOfPart
<1>2. V = {p \in P : p < offset} /\ offset \in P
  BY DEF Unique
<1>3. P \subseteq 0..End - 1
  BY <1>1 DEF Starts
<1>4. offset + 2 <= End /\ next \in P \union {End} /\ \A q \in P : ~(offset < q /\ q < next)
  BY <1>1, <1>2 DEF Starts
<1>5. data.bytes[offset + 2] \in Byte
  BY <1>1, <1>4 DEF DataOK
<1>6. next \in Nat /\ next > offset /\ next <= End
  <2>1. PICK n \in 0..3 : n = data.bytes[offset + 2]
    BY <1>5 DEF Byte
  <2>2. offset + 2 + n \in (0..End - 1) \union {End}
    BY <1>3, <1>4, <2>1
  <2>3. offset + 2 + n \in Nat /\ offset + 2 + n > offset /\ offset + 2 + n <= End
    BY <1>1, <2>2
  <2> QED BY <2>1, <2>3
<1>7. {p \in P : p < next} = V \union {offset}
  <2>1. ASSUME NEW p \in P PROVE p < next <=> p < offset \/ p = offset
    BY <1>3, <1>4, <1>6
  <2> QED BY <1>2, <2>1
<1> QED BY <1>2, <1>4, <1>5, <1>6, <1>7

\* A frame has an extension at the offset that nothing is wrong with.
LEMMA FrameHasNext ==
  ASSUME DataOK(data), ~BadHead, Extended, offset \in 0..End, offset < End,
         NEW V, Chain(V), Unique(V), Taken(V), WellFormed(data)
  PROVE  /\ offset + 2 <= End
         /\ ~TooLong(data.bytes[offset + 2])
         /\ ~Repeated(data.bytes[offset + 1])
         /\ ~WrongLength(data.bytes[offset + 1], data.bytes[offset + 2])
         /\ InRange(data) /\ data.bytes[offset + 1] \in DOMAIN Absent =>
              ~Exceeds(data.bytes[offset + 1], ValueAt(offset))
<1>1. PICK P \in Starts(data) : \A p \in P :
        /\ data.bytes[p + 1] \in DOMAIN Absent => data.bytes[p + 2] = RegisteredLen
        /\ \A q \in P \ {p} : data.bytes[q + 1] # data.bytes[p + 1]
  BY DEF WellFormed, Extended
<1>2. /\ V \subseteq P /\ offset \in P
      /\ offset + 2 <= End
      /\ offset + 2 + data.bytes[offset + 2] <= End
  BY NextStart
<1>3. ~TooLong(data.bytes[offset + 2])
  <2>1. data.bytes[offset + 2] \in Byte /\ End \in Nat
    BY NextStart, EndOfPart
  <2> QED BY <1>2, <2>1 DEF TooLong, Byte
<1>4. ~Repeated(data.bytes[offset + 1])
  <2>1. \A p \in V : p # offset
    BY DEF Chain
  <2>2. \A p \in V : data.bytes[p + 1] # data.bytes[offset + 1]
    BY <1>1, <1>2, <2>1
  <2> QED BY <2>2 DEF Repeated, Taken
<1>5. ~WrongLength(data.bytes[offset + 1], data.bytes[offset + 2])
  BY <1>1, <1>2 DEF WrongLength
<1>6. ASSUME InRange(data), data.bytes[offset + 1] \in DOMAIN Absent
      PROVE  ~Exceeds(data.bytes[offset + 1], ValueAt(offset))
  <2>1. offset \in UNION Starts(data)
    BY <1>2
  <2>2. CASE data.bytes[offset + 1] = EXT_TICK
    <3>1. data.bytes[offset + 3] \in Values(data, EXT_TICK)
      BY <2>1, <2>2 DEF Values, Extended
    <3>2. data.bytes[offset + 3] <= MaxSafe
      BY <1>6, <3>1 DEF InRange
    <3>3. ValueAt(offset) = data.bytes[offset + 3]
      BY <2>2 DEF ValueAt, Number, EXT_TICK, EXT_TS_SIM_NS
    <3>4. data.bytes[offset + 3] \in Byte
      <4>1. data.bytes[offset + 2] = 1 /\ End \in Nat /\ End <= Len(data.bytes) /\ data.bytes \in Seq(Byte)
        BY <1>6, <1>5, EndOfPart DEF WrongLength, RegisteredLen, DataOK
      <4> QED BY <1>2, <4>1
    <3> QED BY <2>2, <3>2, <3>3, <3>4 DEF Exceeds, EXT_TICK, EXT_TS_SIM_NS, MaxSafe, Byte
  <2>3. CASE data.bytes[offset + 1] = EXT_TS_SIM_NS
    <3>1. Signed(data.bytes[offset + 3]) \in Values(data, EXT_TS_SIM_NS)
      BY <2>1, <2>3 DEF Values, Extended, EXT_TICK, EXT_TS_SIM_NS
    <3>2. -MaxSafe <= Signed(data.bytes[offset + 3]) /\ Signed(data.bytes[offset + 3]) <= MaxSafe
      BY <1>6, <3>1 DEF InRange
    <3>3. ValueAt(offset) = Signed(data.bytes[offset + 3])
      BY <2>3 DEF ValueAt, Number
    <3>4. Signed(data.bytes[offset + 3]) \in Int
      <4>1. data.bytes[offset + 2] = 1 /\ End \in Nat /\ End <= Len(data.bytes) /\ data.bytes \in Seq(Byte)
        BY <1>6, <1>5, EndOfPart DEF WrongLength, RegisteredLen, DataOK
      <4>2. data.bytes[offset + 3] \in Byte
        BY <1>2, <4>1
      <4> QED BY <4>2 DEF Signed, Byte
    <3> QED BY <3>2, <3>3, <3>4 DEF Exceeds, MaxSafe
  <2> QED BY <1>6, <2>2, <2>3 DEF Absent
<1> QED BY <1>2, <1>3, <1>4, <1>5, <1>6

\* What the loop refuses is no frame, or has an integer out of range.
LEMMA ExtensionRefuses ==
  ASSUME DecodeInv, data # None, Extension, result' # None
  PROVE  AcceptsFrames' /\ DecodeInv'
<1> DEFINE kind == data.bytes[offset + 1]
           length == data.bytes[offset + 2]
<1>1. /\ DataOK(data) /\ ~BadHead /\ Extended /\ offset \in 0..End /\ offset < End
      /\ result = None
  BY DEF DecodeInv, Extension
<1>2. PICK V : Chain(V) /\ Unique(V) /\ Taken(V)
  BY <1>1 DEF DecodeInv
<1>3. \/ offset + 2 > End /\ Return(MALFORMED)
      \/ /\ offset + 2 <= End
         /\ \/ TooLong(length) \/ Repeated(kind) \/ WrongLength(kind, length)
         /\ Return(MALFORMED)
      \/ kind \in DOMAIN Absent /\ Exceeds(kind, ValueAt(offset)) /\ Return(INTEGER_RANGE)
  BY <1>1 DEF Extension, ValueAt
<1>4. UNCHANGED <<data, sent, offset, seen, ext, vendor>> /\ result' \in {MALFORMED, INTEGER_RANGE}
  BY <1>3 DEF Return
<1>5. result' = MALFORMED => ~WellFormed(data)
  <2>1. MALFORMED # INTEGER_RANGE
    BY DEF MALFORMED, INTEGER_RANGE
  <2>2. SUFFICES ASSUME result' = MALFORMED, WellFormed(data) PROVE FALSE
    OBVIOUS
  <2>3. offset + 2 > End \/ TooLong(length) \/ Repeated(kind) \/ WrongLength(kind, length)
    BY <1>3, <2>1, <2>2 DEF Return
  <2>4. offset + 2 <= End /\ End \in Nat
    BY <1>1, <1>2, <2>2, FrameHasNext, EndOfPart
  <2> QED BY <1>1, <1>2, <2>2, <2>3, <2>4, FrameHasNext
<1>6. result' = INTEGER_RANGE => ~(WellFormed(data) /\ InRange(data))
  <2>1. MALFORMED # INTEGER_RANGE
    BY DEF MALFORMED, INTEGER_RANGE
  <2>2. SUFFICES ASSUME result' = INTEGER_RANGE, WellFormed(data), InRange(data) PROVE FALSE
    OBVIOUS
  <2>3. kind \in DOMAIN Absent /\ Exceeds(kind, ValueAt(offset))
    BY <1>3, <2>1, <2>2 DEF Return
  <2> QED BY <1>1, <1>2, <2>2, <2>3, FrameHasNext
<1>7. AcceptsFrames'
  BY <1>4, <1>5, <1>6 DEF AcceptsFrames, Accepted
<1>8. DecodeInv'
  BY <1>4, DecodeUnchanged
<1> QED BY <1>7, <1>8

\* What the loop takes is the next extension of the chain.
LEMMA ExtensionTakes ==
  ASSUME DecodeInv, data # None, Extension, result' = None
  PROVE  DecodeInv'
<1> DEFINE kind == data.bytes[offset + 1]
           length == data.bytes[offset + 2]
           next == offset + 2 + length
<1>1. /\ DataOK(data) /\ ~BadHead /\ Extended /\ offset \in 0..End /\ offset < End
      /\ Locals /\ vendor \in Seq({<<Vendor, b>> : b \in Seq(Byte)})
  BY DEF DecodeInv, Extension
<1>2. PICK V : Chain(V) /\ Unique(V) /\ Taken(V)
  BY <1>1 DEF DecodeInv
<1>3. None \notin {MALFORMED, INTEGER_RANGE}
  BY FrameCodecAssumption
<1>4. /\ offset + 2 <= End /\ ~TooLong(length) /\ ~Repeated(kind) /\ ~WrongLength(kind, length)
      /\ kind \in DOMAIN Absent => ~Exceeds(kind, ValueAt(offset))
      /\ offset' = next /\ seen' = seen \union {kind}
      /\ ext' = IF kind \in DOMAIN Absent THEN [ext EXCEPT ![kind] = ValueAt(offset)] ELSE ext
      /\ vendor' = IF kind # Vendor THEN vendor
                   ELSE Append(vendor, <<kind, SubSeq(data.bytes, offset + 3, offset + 2 + length)>>)
      /\ UNCHANGED <<data, sent, result>>
  BY <1>1, <1>3 DEF Extension, Return, ValueAt
<1>5. End \in Nat /\ End <= Len(data.bytes) /\ Len(data.bytes) \in Nat /\ End = data.ext_len /\ data.bytes \in Seq(Byte)
  BY <1>1, EndOfPart DEF DataOK
<1>6. kind \in Byte /\ length \in Byte /\ next \in 0..End /\ next >= offset + 2 /\ offset \in Nat
  <2>1. kind \in Byte /\ length \in Byte
    BY <1>1, <1>4, <1>5
  <2>2. length \in 0..3 /\ offset \in Nat /\ offset + 2 <= End
    BY <1>1, <1>4, <1>5, <2>1 DEF Byte
  <2>3. ~(next > End)
    BY <1>4 DEF TooLong
  <2>4. PICK n \in 0..3 : n = length
    BY <2>2
  <2>5. offset + 2 + n \in 0..End /\ offset + 2 + n >= offset + 2
    BY <1>5, <2>2, <2>3, <2>4
  <2> QED BY <2>1, <2>2, <2>4, <2>5
<1>7. DataOK(data)' /\ (~BadHead)' /\ Extended' /\ offset' \in 0..End' /\ End' = End
  BY <1>1, <1>4, <1>6 DEF DataOK, BadHead, Extended, End
<1>8. kind \in DOMAIN Absent => data.bytes[offset + 3] \in Byte /\ ValueAt(offset) \in Int
  <2>1. SUFFICES ASSUME kind \in DOMAIN Absent PROVE data.bytes[offset + 3] \in Byte
    BY Numbers DEF ValueAt
  <2>2. length = 1
    BY <1>4, <2>1 DEF WrongLength, RegisteredLen
  <2> QED BY <1>1, <1>5, <1>6, <2>2
<1>9. Locals'
  <2>1. seen' \subseteq Byte
    BY <1>1, <1>4, <1>6 DEF Locals
  <2>2. ext' \in [DOMAIN Absent -> Int \union {None}]
    BY <1>1, <1>4, <1>8 DEF Locals
  <2>3. \A k \in DOMAIN Absent : k \notin seen' => ext'[k] = None
    BY <1>1, <1>4 DEF Locals
  <2>4. Len(vendor') = IF Vendor \in seen' THEN 1 ELSE 0
    <3>1. CASE kind # Vendor
      BY <1>1, <1>4, <3>1 DEF Locals
    <3>2. CASE kind = Vendor
      <4>1. Len(vendor) = 0 /\ Vendor \in seen'
        BY <1>1, <1>4, <3>2 DEF Locals, Repeated
      <4>2. Len(vendor') = Len(vendor) + 1
        BY <1>1, <1>4, <3>2, AppendProperties
      <4> QED BY <4>1, <4>2
    <3> QED BY <3>1, <3>2
  <2> QED BY <2>1, <2>2, <2>3, <2>4 DEF Locals
<1>10. vendor' \in Seq({<<Vendor, b>> : b \in Seq(Byte)})
  <2>1. CASE kind # Vendor
    BY <1>1, <1>4, <2>1
  <2>2. CASE kind = Vendor
    <3>1. SubSeq(data.bytes, offset + 3, offset + 2 + length) \in Seq(Byte)
      <4>1. \A i \in (offset + 3)..(offset + 2 + length) : data.bytes[i] \in Byte
        BY <1>5, <1>6 DEF Byte
      <4> QED BY <1>5, <1>6, <4>1 DEF Byte
    <3> QED BY <1>1, <1>4, <2>2, <3>1, AppendProperties
  <2> QED BY <2>1, <2>2
<1>w. PICK W : W = V \union {offset}
  OBVIOUS
<1>11. Chain(W)'
  <2>1. W \subseteq 0..next - 1 /\ 0 \in W
    <3>1. \A p \in V : p \in 0..next - 1
      BY <1>2, <1>6 DEF Chain
    <3>2. offset \in 0..next - 1
      BY <1>6
    <3>3. offset = 0 \/ 0 \in V
      BY <1>2, <1>6 DEF Chain
    <3> QED BY <1>w, <3>1, <3>2, <3>3
  <2>2. \A p \in V : p < offset /\ p + 2 <= next /\ p + 2 + data.bytes[p + 2] \in W
    BY <1>w, <1>2, <1>6 DEF Chain
  <2>3. \A p \in V : data.bytes[p + 2] \in Byte /\ p \in Nat
    BY <1>2, <1>5, <1>6 DEF Chain
  <2>4. \A p \in V : \A q \in W : ~(p < q /\ q < p + 2 + data.bytes[p + 2])
    BY <1>w, <1>2, <1>6, <2>2, <2>3 DEF Chain, Byte
  <2>5. \A q \in W : ~(offset < q /\ q < next)
    BY <1>w, <1>6, <2>2, <2>3
  <2>6. \A p \in W : /\ p + 2 <= next /\ p + 2 + data.bytes[p + 2] \in W \union {next}
                     /\ \A q \in W : ~(p < q /\ q < p + 2 + data.bytes[p + 2])
    BY <1>w, <1>6, <2>2, <2>4, <2>5
  <2> QED BY <1>4, <2>1, <2>6 DEF Chain
<1>12. Unique(W)'
  <2>1. ASSUME NEW P \in Starts(data) PROVE {p \in P : p < next} = W /\ (next < End => next \in P)
    BY <1>w, <1>1, <1>2, <1>6, NextStart
  <2> QED BY <1>4, <1>7, <2>1 DEF Unique
<1>13. Taken(W)'
  <2>1. seen' = {data.bytes[p + 1] : p \in W}
    BY <1>w, <1>2, <1>4 DEF Taken
  <2>2. \A p \in V : p # offset /\ data.bytes[p + 1] # kind
    BY <1>2, <1>4, <1>6 DEF Taken, Chain, Repeated
  <2>3. \A p \in W : \A q \in W \ {p} : data.bytes[q + 1] # data.bytes[p + 1]
    BY <1>w, <1>2, <2>2 DEF Taken
  <2>4. ASSUME NEW p \in W, data.bytes[p + 1] \in DOMAIN Absent
        PROVE  /\ data.bytes[p + 2] = RegisteredLen
               /\ ext'[data.bytes[p + 1]] = ValueAt(p)
               /\ ~Exceeds(data.bytes[p + 1], ValueAt(p))
    <3>1. CASE p = offset
      BY <1>1, <1>4, <2>4, <3>1 DEF WrongLength, Locals
    <3>2. CASE p \in V
      BY <1>1, <1>2, <1>4, <2>2, <2>4, <3>2 DEF Taken, Locals
    <3> QED BY <1>w, <3>1, <3>2
  <2> QED BY <1>4, <2>1, <2>3, <2>4 DEF Taken, ValueAt
<1> QED BY <1>7, <1>9, <1>10, <1>11, <1>12, <1>13 DEF DecodeInv

\* The elements of a sequence from its end.
LEMMA ReverseAt ==
  ASSUME NEW S, NEW s \in Seq(S)
  PROVE  Reverse(s) \in Seq(S) /\ Len(Reverse(s)) = Len(s) /\ \A i \in 1..Len(s) : Reverse(s)[i] = s[(Len(s) - i) + 1]
<1>1. \A i \in 1..Len(s) : s[(Len(s) - i) + 1] \in S
  OBVIOUS
<1> QED BY <1>1 DEF Reverse

\* The rest of a sequence is a suffix of it.
LEMMA Suffix ==
  ASSUME NEW S, NEW s \in Seq(S), NEW k \in 0..Len(s)
  PROVE  IsSuffix(SubSeq(s, k + 1, Len(s)), s) /\ Len(SubSeq(s, k + 1, Len(s))) = Len(s) - k
<1> DEFINE t == SubSeq(s, k + 1, Len(s))
<1>1. t \in Seq(S) /\ Len(t) = Len(s) - k /\ Len(s) \in Nat /\ \A i \in 1..Len(t) : t[i] = s[k + i]
  OBVIOUS
<1> HIDE DEF t
<1>2. /\ Reverse(t) \in Seq(S) /\ Len(Reverse(t)) = Len(t)
      /\ \A i \in 1..Len(t) : Reverse(t)[i] = t[(Len(t) - i) + 1]
  BY <1>1, ReverseAt
<1>3. /\ Reverse(s) \in Seq(S) /\ Len(Reverse(s)) = Len(s)
      /\ \A i \in 1..Len(s) : Reverse(s)[i] = s[(Len(s) - i) + 1]
  BY ReverseAt
<1>4. ASSUME NEW i \in 1..Len(t) PROVE Reverse(t)[i] = Reverse(s)[i]
  <2>1. (Len(t) - i) + 1 \in 1..Len(t) /\ k + ((Len(t) - i) + 1) = (Len(s) - i) + 1 /\ i \in 1..Len(s)
    BY <1>1
  <2> QED BY <1>1, <1>2, <1>3, <2>1
<1>5. SubSeq(Reverse(t), 1, Len(t)) = SubSeq(Reverse(s), 1, Len(t))
  BY <1>1, <1>2, <1>3, <1>4
<1>6. IsSuffix(t, s)
  BY <1>1, <1>2, <1>3, <1>5 DEF IsSuffix, IsPrefix
<1> QED BY <1>1, <1>6 DEF t

\* At the end of its part, the extensions of a frame are those that were taken.
LEMMA WholeChain ==
  ASSUME DataOK(data), ~BadHead, Extended, offset = End, NEW V, Chain(V), Unique(V)
  PROVE  V \in Starts(data) /\ UNION Starts(data) = V
<1>1. End = data.ext_len /\ End \in Nat
  BY EndOfPart
<1>2. V \in Starts(data)
  BY <1>1 DEF Chain, Starts
<1>3. \A P \in Starts(data) : P = V
  <2>1. ASSUME NEW P \in Starts(data) PROVE P = V
    <3>1. P \subseteq 0..End - 1
      BY <1>1 DEF Starts
    <3>2. {p \in P : p < offset} = P
      <4>1. ASSUME NEW p \in P PROVE p < offset
        BY <1>1, <3>1
      <4> QED BY <4>1
    <3> QED BY <3>2 DEF Unique
  <2> QED BY <2>1
<1> QED BY <1>2, <1>3

\* Then the values of a registered extension are what the local has.
LEMMA TakenValues ==
  ASSUME DecodeInv, data # None, ~BadHead, ~(Extended /\ offset < End), NEW kind \in DOMAIN Absent
  PROVE  /\ Values(data, kind) = IF ext[kind] = None THEN {} ELSE {ext[kind]}
         /\ \A v \in Values(data, kind) : ~Exceeds(kind, v) /\ v \in Int
<1> USE DEF DecodeInv
<1>1. CASE ~Extended
  <2>1. ext[kind] = None
    BY <1>1 DEF Locals
  <2> QED BY <1>1, <2>1 DEF Values, Extended
<1>2. CASE Extended
  <2>1. PICK V : Chain(V) /\ Unique(V) /\ Taken(V)
    BY <1>2
  <2>2. offset = End /\ End \in Nat
    BY <1>2, EndOfPart
  <2>3. UNION Starts(data) = V
    BY <1>2, <2>1, <2>2, WholeChain
  <2>4. Values(data, kind) = {ValueAt(p) : p \in {q \in V : data.bytes[q + 1] = kind}}
    <3>1. CASE kind = EXT_TICK
      <4>1. \A p : data.bytes[p + 1] = kind => ValueAt(p) = data.bytes[p + 3]
        BY <3>1 DEF ValueAt, Number, EXT_TICK, EXT_TS_SIM_NS
      <4> QED BY <1>2, <2>3, <3>1, <4>1 DEF Values, Extended
    <3>2. CASE kind = EXT_TS_SIM_NS
      BY <1>2, <2>3, <3>2 DEF Values, Extended, ValueAt, Number, EXT_TICK, EXT_TS_SIM_NS
    <3> QED BY <3>1, <3>2 DEF Absent
  <2>5. CASE kind \in seen
    <3>1. PICK p \in V : data.bytes[p + 1] = kind
      BY <2>1, <2>5 DEF Taken
    <3>2. {q \in V : data.bytes[q + 1] = kind} = {p}
      BY <2>1, <3>1 DEF Taken
    <3>3. ext[kind] = ValueAt(p) /\ ~Exceeds(kind, ValueAt(p)) /\ data.bytes[p + 2] = 1
      BY <2>1, <3>1 DEF Taken, RegisteredLen
    <3>4. data.bytes[p + 3] \in Byte
      <4>1. p + 3 \in 1..End
        <5>1. V \subseteq 0..offset - 1 /\ p + 2 + data.bytes[p + 2] \in V \union {offset}
          BY <2>1, <3>1 DEF Chain
        <5>2. p + 2 + 1 \in V \union {End} /\ p \in 0..End - 1
          BY <2>2, <3>1, <3>3, <5>1
        <5> QED BY <2>2, <5>1, <5>2
      <4>2. End <= Len(data.bytes) /\ data.bytes \in Seq(Byte)
        BY <1>2, EndOfPart DEF DataOK
      <4> QED BY <2>2, <4>1, <4>2
    <3>5. ValueAt(p) \in Int /\ ValueAt(p) # None
      BY <3>4, Numbers DEF ValueAt
    <3> QED BY <2>4, <3>2, <3>3, <3>5
  <2>6. CASE kind \notin seen
    BY <2>1, <2>4, <2>6 DEF Taken, Locals
  <2> QED BY <2>5, <2>6
<1> QED BY <1>1, <1>2

\* A frame that is taken to its end is well formed up to its payload, and in range up to its seq.
LEMMA TakenFrame ==
  ASSUME DecodeInv, data # None, ~BadHead, ~(Extended /\ offset < End)
  PROVE  /\ WellFormed(data) <=> ~WrongEnd
         /\ InRange(data) <=> data.seq <= MaxSafe
         /\ offset \in 0..Len(data.bytes)
<1>1. DataOK(data) /\ Len(data.bytes) \in Nat
  BY DEF DecodeInv, DataOK
<1>2. InRange(data) <=> data.seq <= MaxSafe
  <2>1. EXT_TICK \in DOMAIN Absent /\ EXT_TS_SIM_NS \in DOMAIN Absent
    BY DEF Absent
  <2>2. \A v \in Values(data, EXT_TICK) : v <= MaxSafe
    BY <2>1, TakenValues DEF Exceeds, MaxSafe
  <2>3. \A v \in Values(data, EXT_TS_SIM_NS) : -MaxSafe <= v /\ v <= MaxSafe
    BY <2>1, TakenValues DEF Exceeds, MaxSafe
  <2> QED BY <2>2, <2>3 DEF InRange
<1>3. "RESYNC" \in data.flags => "KEYFRAME" \in data.flags
  BY DEF BadHead
<1>4. CASE ~Extended
  <2>1. offset = 0
    BY <1>4 DEF DecodeInv
  <2> QED BY <1>1, <1>2, <1>3, <1>4, <2>1 DEF WellFormed, WrongEnd, Extended, DataOK
<1>5. CASE Extended
  <2>1. PICK V : Chain(V) /\ Unique(V) /\ Taken(V)
    BY <1>5 DEF DecodeInv
  <2>2. offset = End /\ End = data.ext_len /\ End \in Nat /\ End <= Len(data.bytes)
    BY <1>1, <1>5, EndOfPart DEF DecodeInv
  <2>3. V \in Starts(data)
    BY <1>1, <1>5, <2>1, <2>2, WholeChain
  <2>4. data.ext_len # None
    BY <1>5 DEF BadHead
  <2>5. \A p \in V : /\ data.bytes[p + 1] \in DOMAIN Absent => data.bytes[p + 2] = RegisteredLen
                     /\ \A q \in V \ {p} : data.bytes[q + 1] # data.bytes[p + 1]
    BY <2>1 DEF Taken
  <2>6. WellFormed(data) <=> Len(data.bytes) = data.ext_len + data.payload_len
    BY <1>3, <1>5, <2>3, <2>4, <2>5 DEF WellFormed, Extended
  <2> QED BY <1>1, <1>2, <2>2, <2>6 DEF WrongEnd, DataOK
<1> QED BY <1>4, <1>5

\* What the end of decode accepts is a frame, and what it refuses is none.
LEMMA FinishSettles ==
  ASSUME DecodeInv, data # None, Finish
  PROVE  DecodeInv' /\ AcceptsFrames'
<1> DEFINE frame == Frame(data.flags, data.seq, ext, vendor, SubSeq(data.bytes, offset + 1, Len(data.bytes)))
<1>1. UNCHANGED <<data, sent, offset, seen, ext, vendor>>
  BY DEF Finish, Return
<1>2. DecodeInv'
  BY <1>1, DecodeUnchanged
<1>3. MALFORMED # INTEGER_RANGE /\ frame \notin {MALFORMED, INTEGER_RANGE}
  BY DEF MALFORMED, INTEGER_RANGE, Frame
<1>m. ASSUME result' = MALFORMED, ~WellFormed(data) PROVE AcceptsFrames'
  BY <1>1, <1>3, <1>m DEF AcceptsFrames, Accepted
<1>r. ASSUME result' = INTEGER_RANGE, ~InRange(data) PROVE AcceptsFrames'
  BY <1>1, <1>3, <1>r DEF AcceptsFrames, Accepted
<1> HIDE DEF frame
<1>4. CASE BadHead /\ result' = MALFORMED
  <2>1. ~WellFormed(data)
    <3>1. CASE "RESYNC" \in data.flags /\ "KEYFRAME" \notin data.flags
      BY <3>1 DEF WellFormed
    <3>2. CASE Extended /\ data.ext_len = None
      BY <3>2 DEF WellFormed, Extended
    <3>3. CASE Extended /\ data.ext_len # None /\ End > Len(data.bytes)
      <4>1. End = data.ext_len /\ data.ext_len \in Nat /\ data.payload_len \in Nat /\ Len(data.bytes) \in Nat
        BY <3>3 DEF End, DecodeInv, DataOK
      <4> QED BY <3>3, <4>1 DEF WellFormed, Extended
    <3> QED BY <1>4, <3>1, <3>2, <3>3 DEF BadHead
  <2> QED BY <1>2, <1>m, <1>4, <2>1
<1>5. CASE ~BadHead /\ ~(Extended /\ offset < End) /\ WrongEnd /\ result' = MALFORMED
  <2>1. ~WellFormed(data)
    BY <1>5, TakenFrame
  <2> QED BY <1>2, <1>m, <1>5, <2>1
<1>6. CASE ~BadHead /\ ~(Extended /\ offset < End) /\ ~WrongEnd /\ data.seq > MaxSafe /\ result' = INTEGER_RANGE
  <2>1. ~InRange(data)
    BY <1>6, TakenFrame DEF DecodeInv, DataOK, MaxSafe
  <2> QED BY <1>2, <1>r, <1>6, <2>1
<1>7. CASE ~BadHead /\ ~(Extended /\ offset < End) /\ ~WrongEnd /\ ~(data.seq > MaxSafe) /\ result' = frame
  <2>1. WellFormed(data) /\ InRange(data) /\ offset \in 0..Len(data.bytes)
    BY <1>7, TakenFrame DEF DecodeInv, DataOK, MaxSafe
  <2>2. \A kind \in DOMAIN Absent : Values(data, kind) = IF ext[kind] = None THEN {} ELSE {ext[kind]}
    BY <1>7, TakenValues
  <2>3. frame.ext = ext /\ frame.payload = SubSeq(data.bytes, offset + 1, Len(data.bytes))
    BY DEF Frame, frame
  <2>4. data.bytes \in Seq(Byte) /\ data.payload_len = Len(data.bytes) - offset
    <3>1. DataOK(data)
      BY DEF DecodeInv
    <3> QED BY <1>7, <2>1, <3>1 DEF DataOK, WrongEnd
  <2>5. Len(frame.payload) = data.payload_len /\ IsSuffix(frame.payload, data.bytes)
    BY <2>1, <2>3, <2>4, Suffix
  <2>6. \A kind \in DOMAIN Absent : Values(data, kind) = IF frame.ext[kind] = None THEN {} ELSE {frame.ext[kind]}
    BY <2>2, <2>3
  <2>7. AcceptsFrames'
    BY <1>1, <1>3, <1>7, <2>1, <2>5, <2>6 DEF AcceptsFrames, Accepted
  <2> QED BY <1>2, <2>7
<1> QED BY <1>2, <1>4, <1>5, <1>6, <1>7 DEF Finish, Return, frame

-----------------------------------------------------------------------------
(* What decode is called for                                               *)

LEMMA FlattenOne ==
  ASSUME NEW s
  PROVE  FlattenSeq(<<s>>) = s /\ FlattenSeq(<<>>) = <<>>
<1>1. FlattenSeq(<<>>) = <<>>
  BY DEF FlattenSeq
<1> DEFINE seqs == <<s>>
           flat(f) == [i \in 1..Len(seqs) |-> IF i = 1 THEN seqs[i] ELSE f[i - 1] \o seqs[i]]
           flatten == CHOOSE f : f = flat(f)
<1>2. Len(seqs) = 1 /\ 1..Len(seqs) = {1}
  OBVIOUS
<1>3. FlattenSeq(seqs) = flatten[1]
  BY <1>2 DEF FlattenSeq
<1>4. flat([i \in {1} |-> s]) = [i \in {1} |-> s]
  BY <1>2
<1>5. flatten = flat(flatten)
  <2> HIDE DEF flat
  <2> QED BY <1>4
<1>6. flatten[1] = s
  <2> HIDE DEF flatten
  <2>1. flatten[1] = flat(flatten)[1]
    BY <1>5
  <2>2. flat(flatten)[1] = s
    BY <1>2
  <2> QED BY <2>1, <2>2
<1> QED BY <1>1, <1>3, <1>6

\* Strings are sequences of bytes.
LEMMA StringsAreSeqs ==
  ASSUME NEW n \in Nat, NEW b \in Strings(n)
  PROVE  b \in Seq(Byte) /\ Len(b) \in 0..n
<1>1. PICK k \in 0..n : b \in [1..k -> Byte]
  BY DEF Strings
<1> QED BY <1>1

\* A frame that is sent, as its set has it.
LEMMA SentForm ==
  ASSUME NEW f \in Sendable
  PROVE  \E g, t, s, v, p :
           /\ g \in FlagSets /\ t \in {None, 0, 1} /\ s \in {None, -1, 0, 1}
           /\ v \in {<<>>} \union {<< <<Vendor, b>> >> : b \in Strings(2)} /\ p \in Strings(MaxSent)
           /\ "RESYNC" \in g => "KEYFRAME" \in g
           /\ f = Frame(g, 1, Extensions(t, s), v, p)
BY DEF Sendable

\* A frame that is sent, by its parts.
LEMMA SentParts ==
  ASSUME NEW f \in Sendable
  PROVE  /\ f = [flags |-> f.flags, seq |-> 1, ext |-> f.ext, vendor |-> f.vendor, payload |-> f.payload]
         /\ "HAS_EXTENSIONS" \notin f.flags /\ ("RESYNC" \in f.flags => "KEYFRAME" \in f.flags)
         /\ f.seq = 1 /\ f.ext = [k \in DOMAIN Absent |-> f.ext[k]]
         /\ f.ext[EXT_TICK] \in {None, 0, 1} /\ f.ext[EXT_TS_SIM_NS] \in {None, -1, 0, 1}
         /\ f.vendor = <<>> \/ \E b \in Strings(2) : f.vendor = << <<Vendor, b>> >>
         /\ f.payload \in Strings(MaxSent)
<1>1. PICK g \in FlagSets, t \in {None, 0, 1}, s \in {None, -1, 0, 1},
           v \in {<<>>} \union {<< <<Vendor, b>> >> : b \in Strings(2)}, p \in Strings(MaxSent) :
        /\ "RESYNC" \in g => "KEYFRAME" \in g
        /\ f = Frame(g, 1, Extensions(t, s), v, p)
  BY SentForm
<1>2. g \ {"HAS_EXTENSIONS"} = g /\ "HAS_EXTENSIONS" \notin g
  BY DEF FlagSets
<1>3. f = [flags |-> g, seq |-> 1, ext |-> Extensions(t, s), vendor |-> v, payload |-> p]
  BY <1>1, <1>2 DEF Frame
<1>4. f.flags = g /\ f.seq = 1 /\ f.vendor = v /\ f.payload = p /\ f.ext = Extensions(t, s)
  BY <1>3
<1>5. f.ext[EXT_TICK] = t /\ f.ext[EXT_TS_SIM_NS] = s
  BY <1>4 DEF Extensions, Absent, EXT_TICK, EXT_TS_SIM_NS
<1>6. f.ext = [k \in DOMAIN Absent |-> f.ext[k]]
  BY <1>4 DEF Extensions
<1> QED BY <1>1, <1>2, <1>3, <1>4, <1>5, <1>6

\* Where its extensions end.
TickEnd(f) == IF f.ext[EXT_TICK] = None THEN 0 ELSE 3
SimEnd(f) == TickEnd(f) + (IF f.ext[EXT_TS_SIM_NS] = None THEN 0 ELSE 3)
VendorEnd(f) == SimEnd(f) + (IF f.vendor = <<>> THEN 0 ELSE 2 + Len(f.vendor[1][2]))

\* What encode writes for a registered extension: nothing, or three bytes.
LEMMA EntryAt ==
  ASSUME NEW kind \in Byte, NEW value \in {None, -1, 0, 1}
  PROVE  /\ value = None => Entry(kind, value) = <<>>
         /\ value # None => Entry(kind, value) = <<kind, 1, value % 4>> /\ value % 4 \in Byte
         /\ Entry(kind, value) \in Seq(Byte)
<1>1. CASE value = None
  BY <1>1 DEF Entry
<1>2. CASE value # None
  <2>1. value % 4 \in Byte
    BY <1>2 DEF Byte
  <2> QED BY <1>2, <2>1 DEF Entry, RegisteredLen, Byte
<1> QED BY <1>1, <1>2

\* The elements of a concatenation.
LEMMA Two ==
  ASSUME NEW a \in Seq(Byte), NEW b \in Seq(Byte)
  PROVE  /\ a \o b \in Seq(Byte) /\ Len(a \o b) = Len(a) + Len(b)
         /\ (\A i \in 1..Len(a) : (a \o b)[i] = a[i]) /\ (\A i \in 1..Len(b) : (a \o b)[Len(a) + i] = b[i])
OBVIOUS

\* The elements of three, and of a payload after them.
LEMMA Three ==
  ASSUME NEW a \in Seq(Byte), NEW b \in Seq(Byte), NEW c \in Seq(Byte), NEW d \in Seq(Byte),
         NEW ab, ab = a \o b, NEW abc, abc = ab \o c, NEW w, w = abc \o d
  PROVE  /\ abc \in Seq(Byte) /\ Len(abc) = Len(a) + Len(b) + Len(c)
         /\ w \in Seq(Byte) /\ Len(w) = Len(a) + Len(b) + Len(c) + Len(d)
         /\ \A i \in 1..Len(a) : w[i] = a[i]
         /\ \A i \in 1..Len(b) : w[Len(a) + i] = b[i]
         /\ \A i \in 1..Len(c) : w[Len(a) + Len(b) + i] = c[i]
         /\ \A i \in 1..Len(d) : w[Len(a) + Len(b) + Len(c) + i] = d[i]
<1>1. /\ ab \in Seq(Byte) /\ Len(ab) = Len(a) + Len(b)
      /\ (\A i \in 1..Len(a) : ab[i] = a[i]) /\ (\A i \in 1..Len(b) : ab[Len(a) + i] = b[i])
  BY Two
<1>2. /\ abc \in Seq(Byte) /\ Len(abc) = Len(ab) + Len(c)
      /\ (\A i \in 1..Len(ab) : abc[i] = ab[i]) /\ (\A i \in 1..Len(c) : abc[Len(ab) + i] = c[i])
  BY <1>1, Two
<1>3. /\ w \in Seq(Byte) /\ Len(w) = Len(abc) + Len(d)
      /\ (\A i \in 1..Len(abc) : w[i] = abc[i]) /\ (\A i \in 1..Len(d) : w[Len(abc) + i] = d[i])
  BY <1>2, Two
<1>4. Len(a) \in Nat /\ Len(b) \in Nat /\ Len(c) \in Nat /\ Len(d) \in Nat /\ Len(ab) \in Nat /\ Len(abc) = Len(a) + Len(b) + Len(c)
  BY <1>1, <1>2
<1>5. \A i \in 1..Len(a) : w[i] = a[i]
  <2>1. ASSUME NEW i \in 1..Len(a) PROVE w[i] = a[i]
    <3>1. i \in 1..Len(ab) /\ i \in 1..Len(abc)
      BY <1>1, <1>4
    <3> QED BY <1>1, <1>2, <1>3, <3>1
  <2> QED BY <2>1
<1>6. \A i \in 1..Len(b) : w[Len(a) + i] = b[i]
  <2>1. ASSUME NEW i \in 1..Len(b) PROVE w[Len(a) + i] = b[i]
    <3>1. Len(a) + i \in 1..Len(ab) /\ Len(a) + i \in 1..Len(abc) /\ ab[Len(a) + i] = b[i]
      BY <1>1, <1>4
    <3> QED BY <1>2, <1>3, <3>1
  <2> QED BY <2>1
<1>7. \A i \in 1..Len(c) : w[Len(a) + Len(b) + i] = c[i]
  <2>1. ASSUME NEW i \in 1..Len(c) PROVE w[Len(a) + Len(b) + i] = c[i]
    <3>1. Len(ab) + i \in 1..Len(abc) /\ abc[Len(ab) + i] = c[i] /\ Len(ab) + i = Len(a) + Len(b) + i
      BY <1>1, <1>2, <1>4
    <3>2. w[Len(ab) + i] = abc[Len(ab) + i]
      BY <1>3, <3>1
    <3> QED BY <3>1, <3>2
  <2> QED BY <2>1
<1>8. \A i \in 1..Len(d) : w[Len(a) + Len(b) + Len(c) + i] = d[i]
  BY <1>3, <1>4
<1> QED BY <1>1, <1>2, <1>3, <1>4, <1>5, <1>6, <1>7, <1>8

\* The extension of a vendor, if the frame has one.
VendorEntry(f) == IF f.vendor = <<>> THEN <<>> ELSE <<Vendor, Len(f.vendor[1][2])>> \o f.vendor[1][2]

\* encode writes the extensions one after the other, a vendor's last.
LEMMA EntriesByPart ==
  ASSUME NEW f \in Sendable
  PROVE  /\ Entries(f) = Entry(EXT_TICK, f.ext[EXT_TICK]) \o Entry(EXT_TS_SIM_NS, f.ext[EXT_TS_SIM_NS]) \o VendorEntry(f)
         /\ VendorEntry(f) \in Seq(Byte)
         /\ Len(VendorEntry(f)) = VendorEnd(f) - SimEnd(f)
         /\ f.vendor # <<>> =>
              /\ f.vendor = << <<Vendor, f.vendor[1][2]>> >>
              /\ f.vendor[1][2] \in Seq(Byte) /\ Len(f.vendor[1][2]) \in 0..2
              /\ VendorEntry(f)[1] = Vendor /\ VendorEntry(f)[2] = Len(f.vendor[1][2])
              /\ \A i \in 1..Len(f.vendor[1][2]) : VendorEntry(f)[2 + i] = f.vendor[1][2][i]
<1> DEFINE entry == [i \in DOMAIN f.vendor |-> <<f.vendor[i][1], Len(f.vendor[i][2])>> \o f.vendor[i][2]]
<1>1. SimEnd(f) \in Nat
  BY DEF SimEnd, TickEnd
<1>2. CASE f.vendor = <<>>
  <2>1. entry = <<>>
    BY <1>2
  <2>2. FlattenSeq(entry) = VendorEntry(f)
    BY <1>2, <2>1, FlattenOne DEF VendorEntry
  <2>3. VendorEntry(f) = <<>> /\ VendorEnd(f) = SimEnd(f)
    BY <1>1, <1>2 DEF VendorEntry, VendorEnd
  <2> QED BY <1>1, <1>2, <2>2, <2>3 DEF Entries
<1>3. CASE f.vendor # <<>>
  <2>1. PICK b \in Strings(2) : f.vendor = << <<Vendor, b>> >>
    BY <1>3, SentParts
  <2>2. b \in Seq(Byte) /\ Len(b) \in 0..2 /\ f.vendor[1][2] = b
    <3>1. b \in Seq(Byte) /\ Len(b) \in 0..2
      BY StringsAreSeqs
    <3>2. f.vendor[1] = <<Vendor, b>>
      BY <2>1
    <3> QED BY <3>1, <3>2
  <2>3. VendorEntry(f) = <<Vendor, Len(b)>> \o b
    BY <1>3, <2>2 DEF VendorEntry
  <2>4. entry = << <<Vendor, Len(b)>> \o b >>
    BY <2>1
  <2>5. FlattenSeq(entry) = VendorEntry(f)
    BY <2>3, <2>4, FlattenOne
  <2>6. <<Vendor, Len(b)>> \in Seq(Byte)
    BY <2>2 DEF Vendor, Byte
  <2>7. /\ VendorEntry(f) \in Seq(Byte) /\ Len(VendorEntry(f)) = 2 + Len(b)
        /\ VendorEntry(f)[1] = Vendor /\ VendorEntry(f)[2] = Len(b)
        /\ \A i \in 1..Len(b) : VendorEntry(f)[2 + i] = b[i]
    BY <2>2, <2>3, <2>6, Two
  <2>8. VendorEnd(f) - SimEnd(f) = 2 + Len(b)
    BY <1>1, <1>3, <2>2 DEF VendorEnd
  <2>9. Entries(f) = Entry(EXT_TICK, f.ext[EXT_TICK]) \o Entry(EXT_TS_SIM_NS, f.ext[EXT_TS_SIM_NS]) \o VendorEntry(f)
    BY <2>5 DEF Entries
  <2> QED BY <2>1, <2>2, <2>7, <2>8, <2>9
<1> QED BY <1>2, <1>3

\* What encode writes: each extension in its place, and the payload after them.
LEMMA Layout ==
  ASSUME NEW f \in Sendable, NEW d, d = Encode(f)
  PROVE  /\ DataOK(d) /\ d.seq = 1 /\ d.flags \ {"HAS_EXTENSIONS"} = f.flags
         /\ d.flags \ {"HAS_EXTENSIONS"} \in SUBSET d.flags
         /\ "HAS_EXTENSIONS" \in d.flags <=> VendorEnd(f) > 0
         /\ VendorEnd(f) > 0 => d.ext_len = VendorEnd(f)
         /\ VendorEnd(f) = 0 => d.ext_len = None
         /\ d.payload_len = Len(f.payload) /\ Len(d.bytes) = VendorEnd(f) + Len(f.payload)
         /\ f.ext[EXT_TICK] # None =>
              d.bytes[1] = EXT_TICK /\ d.bytes[2] = 1 /\ d.bytes[3] = f.ext[EXT_TICK] % 4
         /\ f.ext[EXT_TS_SIM_NS] # None =>
              /\ d.bytes[TickEnd(f) + 1] = EXT_TS_SIM_NS /\ d.bytes[TickEnd(f) + 2] = 1
              /\ d.bytes[TickEnd(f) + 3] = f.ext[EXT_TS_SIM_NS] % 4
         /\ f.vendor # <<>> =>
              /\ d.bytes[SimEnd(f) + 1] = Vendor /\ d.bytes[SimEnd(f) + 2] = Len(f.vendor[1][2])
              /\ \A i \in 1..Len(f.vendor[1][2]) : d.bytes[SimEnd(f) + 2 + i] = f.vendor[1][2][i]
         /\ \A i \in 1..Len(f.payload) : d.bytes[VendorEnd(f) + i] = f.payload[i]
<1>1. PICK a, b, c, p, ab, abc, w :
                        /\ a = Entry(EXT_TICK, f.ext[EXT_TICK]) /\ b = Entry(EXT_TS_SIM_NS, f.ext[EXT_TS_SIM_NS])
                        /\ c = VendorEntry(f) /\ p = f.payload
                        /\ ab = a \o b /\ abc = ab \o c /\ w = abc \o p
  OBVIOUS
<1> DEFINE tick == f.ext[EXT_TICK]
           sim == f.ext[EXT_TS_SIM_NS]
<1>e. EXT_TICK \in Byte /\ EXT_TS_SIM_NS \in Byte /\ tick \in {None, -1, 0, 1} /\ sim \in {None, -1, 0, 1}
  <2>1. EXT_TICK \in Byte /\ EXT_TS_SIM_NS \in Byte
    BY DEF Byte, EXT_TICK, EXT_TS_SIM_NS
  <2>2. tick \in {None, 0, 1} /\ sim \in {None, -1, 0, 1}
    BY SentParts
  <2> QED BY <2>1, <2>2
<1>4. /\ tick = None => a = <<>>
      /\ tick # None => a = <<EXT_TICK, 1, tick % 4>> /\ tick % 4 \in Byte
      /\ a \in Seq(Byte)
  BY <1>1, <1>e, EntryAt
<1>4b. /\ sim = None => b = <<>>
       /\ sim # None => b = <<EXT_TS_SIM_NS, 1, sim % 4>> /\ sim % 4 \in Byte
       /\ b \in Seq(Byte)
  BY <1>1, <1>e, EntryAt
<1>2. a \in Seq(Byte) /\ b \in Seq(Byte) /\ c \in Seq(Byte) /\ p \in Seq(Byte)
  <2>1. c \in Seq(Byte)
    BY <1>1, EntriesByPart
  <2>2. p \in Seq(Byte)
    BY <1>1, SentParts, StringsAreSeqs, FrameCodecAssumption
  <2> QED BY <1>4, <1>4b, <2>1, <2>2
<1>3. /\ abc \in Seq(Byte) /\ Len(abc) = Len(a) + Len(b) + Len(c)
      /\ w \in Seq(Byte) /\ Len(w) = Len(a) + Len(b) + Len(c) + Len(p)
      /\ \A i \in 1..Len(a) : w[i] = a[i]
      /\ \A i \in 1..Len(b) : w[Len(a) + i] = b[i]
      /\ \A i \in 1..Len(c) : w[Len(a) + Len(b) + i] = c[i]
      /\ \A i \in 1..Len(p) : w[Len(a) + Len(b) + Len(c) + i] = p[i]
  <2>1. ab = a \o b /\ abc = ab \o c /\ w = abc \o p
    BY <1>1
  <2> QED BY <1>2, <2>1, Three
<1>a. Len(a) = TickEnd(f) /\ (tick # None => Len(a) = 3 /\ a[1] = EXT_TICK /\ a[2] = 1 /\ a[3] = tick % 4)
  <2>1. CASE tick = None
    BY <1>4, <2>1 DEF TickEnd
  <2>2. CASE tick # None
    BY <1>4, <2>2 DEF TickEnd
  <2> QED BY <2>1, <2>2
<1>b. Len(a) + Len(b) = SimEnd(f) /\ (sim # None => Len(b) = 3 /\ b[1] = EXT_TS_SIM_NS /\ b[2] = 1 /\ b[3] = sim % 4)
  <2>1. Len(a) \in Nat
    BY <1>2
  <2>2. CASE sim = None
    BY <1>4b, <1>a, <2>1, <2>2 DEF SimEnd
  <2>3. CASE sim # None
    <3>1. Len(b) = 3 /\ b[1] = EXT_TS_SIM_NS /\ b[2] = 1 /\ b[3] = sim % 4
      BY <1>4b, <2>3
    <3>2. SimEnd(f) = TickEnd(f) + 3
      BY <2>3 DEF SimEnd
    <3> QED BY <1>a, <2>1, <3>1, <3>2
  <2> QED BY <2>2, <2>3
<1>5. TickEnd(f) \in Nat /\ SimEnd(f) \in Nat
  BY <1>2, <1>a, <1>b
<1>6. Len(c) = VendorEnd(f) - SimEnd(f) /\ Len(c) \in Nat /\ Len(p) \in Nat /\ VendorEnd(f) \in Nat
  <2>1. VendorEnd(f) \in Int
    BY <1>5, EntriesByPart DEF VendorEnd
  <2> QED BY <1>1, <1>2, <1>5, <2>1, EntriesByPart
<1>7. Len(a) + Len(b) + Len(c) = VendorEnd(f)
  BY <1>b, <1>5, <1>6
<1>8. Entries(f) = abc
  BY <1>1, EntriesByPart
<1>9. Entries(f) = <<>> <=> VendorEnd(f) = 0
  BY <1>3, <1>7, <1>8
<1>10. d.flags = Flags(f, Entries(f)) /\ d.seq = f.seq /\ d.payload_len = Len(f.payload)
       /\ d.ext_len = (IF Entries(f) = <<>> THEN None ELSE Len(Entries(f))) /\ d.bytes = w
  BY <1>1, <1>8 DEF Encode
<1>11. f.seq = 1 /\ "HAS_EXTENSIONS" \notin f.flags
  BY SentParts
<1>12. d.ext_len = IF VendorEnd(f) = 0 THEN None ELSE VendorEnd(f)
  BY <1>3, <1>7, <1>8, <1>9, <1>10
<1>13. DataOK(d)
  BY <1>3, <1>6, <1>10, <1>11, <1>12 DEF DataOK
<1>14. /\ d.flags \ {"HAS_EXTENSIONS"} = f.flags /\ d.flags \ {"HAS_EXTENSIONS"} \in SUBSET d.flags
       /\ "HAS_EXTENSIONS" \in d.flags <=> VendorEnd(f) > 0
  BY <1>6, <1>9, <1>10, <1>11 DEF Flags
<1>15. f.ext[EXT_TICK] # None => w[1] = EXT_TICK /\ w[2] = 1 /\ w[3] = f.ext[EXT_TICK] % 4
  BY <1>3, <1>a
<1>16. f.ext[EXT_TS_SIM_NS] # None =>
         /\ w[TickEnd(f) + 1] = EXT_TS_SIM_NS /\ w[TickEnd(f) + 2] = 1
         /\ w[TickEnd(f) + 3] = f.ext[EXT_TS_SIM_NS] % 4
  <2>1. SUFFICES ASSUME sim # None
                 PROVE  w[TickEnd(f) + 1] = EXT_TS_SIM_NS /\ w[TickEnd(f) + 2] = 1 /\ w[TickEnd(f) + 3] = sim % 4
    OBVIOUS
  <2>2. b[1] = EXT_TS_SIM_NS /\ b[2] = 1 /\ b[3] = sim % 4 /\ 1 \in 1..Len(b) /\ 2 \in 1..Len(b) /\ 3 \in 1..Len(b)
    BY <1>b, <2>1
  <2>3. w[TickEnd(f) + 1] = b[1] /\ w[TickEnd(f) + 2] = b[2] /\ w[TickEnd(f) + 3] = b[3]
    BY <1>3, <1>a, <2>2
  <2> QED BY <2>2, <2>3
<1>17. f.vendor # <<>> =>
         /\ w[SimEnd(f) + 1] = Vendor /\ w[SimEnd(f) + 2] = Len(f.vendor[1][2])
         /\ \A i \in 1..Len(f.vendor[1][2]) : w[SimEnd(f) + 2 + i] = f.vendor[1][2][i]
  <2>1. SUFFICES ASSUME f.vendor # <<>> 
                 PROVE  /\ w[SimEnd(f) + 1] = Vendor /\ w[SimEnd(f) + 2] = Len(f.vendor[1][2])
                        /\ \A i \in 1..Len(f.vendor[1][2]) : w[SimEnd(f) + 2 + i] = f.vendor[1][2][i]
    OBVIOUS
  <2>2. PICK x : x = f.vendor[1][2]
    OBVIOUS
  <2>3. VendorEnd(f) = SimEnd(f) + (2 + Len(x)) /\ Len(x) \in Nat
    BY <2>1, <2>2, EntriesByPart DEF VendorEnd
  <2>4. Len(c) = 2 + Len(x)
    BY <1>5, <1>6, <2>3
  <2>5. \A i \in 1..Len(c) : w[SimEnd(f) + i] = c[i]
    BY <1>3, <1>b, <1>5
  <2>6. c[1] = Vendor /\ c[2] = Len(x) /\ \A i \in 1..Len(x) : c[2 + i] = x[i]
    BY <1>1, <2>1, <2>2, EntriesByPart
  <2>7. ASSUME NEW i \in 1..Len(x) PROVE w[SimEnd(f) + 2 + i] = x[i]
    <3>1. 2 + i \in 1..Len(c) /\ SimEnd(f) + 2 + i = SimEnd(f) + (2 + i)
      BY <1>5, <2>3, <2>4
    <3> QED BY <2>5, <2>6, <3>1
  <2>8. w[SimEnd(f) + 1] = Vendor /\ w[SimEnd(f) + 2] = Len(x)
    BY <2>3, <2>4, <2>5, <2>6
  <2> QED BY <2>2, <2>7, <2>8
<1>18. Len(w) = VendorEnd(f) + Len(f.payload) /\ \A i \in 1..Len(f.payload) : w[VendorEnd(f) + i] = f.payload[i]
  <2>1. p = f.payload
    BY <1>1
  <2>2. Len(w) = VendorEnd(f) + Len(p) /\ \A i \in 1..Len(p) : w[VendorEnd(f) + i] = p[i]
    <3>1. PICK n : n = Len(a) + Len(b) + Len(c)
      OBVIOUS
    <3>2. Len(w) = n + Len(p) /\ \A i \in 1..Len(p) : w[n + i] = p[i]
      BY <1>3, <3>1
    <3> QED BY <1>7, <3>1, <3>2
  <2> QED BY <2>1, <2>2
<1>19. d.seq = 1 /\ (VendorEnd(f) > 0 => d.ext_len = VendorEnd(f)) /\ (VendorEnd(f) = 0 => d.ext_len = None)
  BY <1>6, <1>10, <1>11, <1>12
<1> QED BY <1>10, <1>13, <1>14, <1>15, <1>16, <1>17, <1>18, <1>19

\* Decoding what was encoded, the loop is between two extensions of the frame, with those before.
Trip ==
  sent # None =>
    /\ sent \in Sendable /\ data = Encode(sent)
    /\ offset \in {0, TickEnd(sent), SimEnd(sent), VendorEnd(sent)}
    /\ offset < TickEnd(sent) => EXT_TICK \notin seen
    /\ offset < SimEnd(sent) => EXT_TS_SIM_NS \notin seen
    /\ offset < VendorEnd(sent) => Vendor \notin seen
    /\ ext[EXT_TICK] = IF offset < TickEnd(sent) THEN None ELSE sent.ext[EXT_TICK]
    /\ ext[EXT_TS_SIM_NS] = IF offset < SimEnd(sent) THEN None ELSE sent.ext[EXT_TS_SIM_NS]
    /\ vendor = IF offset < VendorEnd(sent) THEN <<>> ELSE sent.vendor
    /\ result # None => result = sent

\* The parts follow one another; those that a frame lacks are empty.
LEMMA Ends ==
  ASSUME NEW f \in Sendable
  PROVE  /\ TickEnd(f) \in Nat /\ SimEnd(f) \in Nat /\ VendorEnd(f) \in Nat
         /\ f.ext[EXT_TICK] = None => TickEnd(f) = 0
         /\ f.ext[EXT_TICK] # None => TickEnd(f) = 3
         /\ f.ext[EXT_TS_SIM_NS] = None => SimEnd(f) = TickEnd(f)
         /\ f.ext[EXT_TS_SIM_NS] # None => SimEnd(f) = TickEnd(f) + 3
         /\ TickEnd(f) <= SimEnd(f) /\ SimEnd(f) <= VendorEnd(f)
         /\ f.vendor = <<>> => VendorEnd(f) = SimEnd(f)
         /\ f.vendor # <<>> => VendorEnd(f) = SimEnd(f) + (2 + Len(f.vendor[1][2])) /\ Len(f.vendor[1][2]) \in Nat
<1>1. TickEnd(f) \in Nat /\ SimEnd(f) \in Nat
  BY DEF TickEnd, SimEnd
<1>2. f.vendor # <<>> => VendorEnd(f) = SimEnd(f) + (2 + Len(f.vendor[1][2])) /\ Len(f.vendor[1][2]) \in Nat
  BY EntriesByPart DEF VendorEnd
<1>3. f.vendor = <<>> => VendorEnd(f) = SimEnd(f)
  BY <1>1 DEF VendorEnd
<1>4. VendorEnd(f) \in Nat /\ SimEnd(f) <= VendorEnd(f)
  <2>1. CASE f.vendor = <<>>
    BY <1>1, <1>3, <2>1
  <2>2. CASE f.vendor # <<>>
    <3>1. PICK n \in Nat : VendorEnd(f) = SimEnd(f) + (2 + n)
      BY <1>2, <2>2
    <3> QED BY <1>1, <3>1
  <2> QED BY <2>1, <2>2
<1>5. (f.ext[EXT_TICK] = None => TickEnd(f) = 0) /\ (f.ext[EXT_TICK] # None => TickEnd(f) = 3)
  BY DEF TickEnd
<1>6. /\ f.ext[EXT_TS_SIM_NS] = None => SimEnd(f) = TickEnd(f)
      /\ f.ext[EXT_TS_SIM_NS] # None => SimEnd(f) = TickEnd(f) + 3
      /\ TickEnd(f) <= SimEnd(f)
  BY <1>1 DEF SimEnd
<1> QED BY <1>1, <1>2, <1>3, <1>4, <1>5, <1>6

\* An encoded frame has no error in its fixed part.
LEMMA SentHead ==
  ASSUME sent \in Sendable, data = Encode(sent)
  PROVE  /\ ~BadHead /\ (Extended <=> VendorEnd(sent) > 0)
         /\ End = VendorEnd(sent)
         /\ data.bytes \in Seq(Byte) /\ Len(data.bytes) = VendorEnd(sent) + Len(sent.payload)
         /\ sent.payload \in Seq(Byte)
<1>1. /\ DataOK(data) /\ data.flags \ {"HAS_EXTENSIONS"} = sent.flags
      /\ "HAS_EXTENSIONS" \in data.flags <=> VendorEnd(sent) > 0
      /\ VendorEnd(sent) > 0 => data.ext_len = VendorEnd(sent)
      /\ VendorEnd(sent) = 0 => data.ext_len = None
      /\ Len(data.bytes) = VendorEnd(sent) + Len(sent.payload)
  BY Layout
<1>2. VendorEnd(sent) \in Nat /\ "RESYNC" \in sent.flags => "KEYFRAME" \in sent.flags
  BY Ends, SentParts
<1>3. sent.payload \in Seq(Byte) /\ Len(sent.payload) \in Nat
  <2>1. sent.payload \in Strings(MaxSent)
    BY SentParts
  <2> QED BY <2>1, StringsAreSeqs, FrameCodecAssumption
<1>4. VendorEnd(sent) \in Nat
  BY Ends
<1>5. data.ext_len # None => VendorEnd(sent) > 0
  BY <1>1, <1>4
<1>6. End = VendorEnd(sent)
  BY <1>1, <1>4, <1>5, FrameCodecAssumption DEF End
<1>7. ~BadHead
  BY <1>1, <1>2, <1>3, <1>4, <1>6, SentParts, FrameCodecAssumption DEF BadHead, Extended
<1> QED BY <1>1, <1>3, <1>6, <1>7 DEF Extended, DataOK

\* An extension with nothing wrong is taken, a registered one and one of a vendor.
LEMMA Takes ==
  ASSUME Extension, offset \in Nat, End \in Nat, NEW kind \in {EXT_TICK, EXT_TS_SIM_NS}, NEW value \in {-1, 0, 1},
         data.bytes[offset + 1] = kind, data.bytes[offset + 2] = 1, Number(kind, data.bytes[offset + 3]) = value,
         offset + 3 <= End, kind \notin seen
  PROVE  /\ offset' = offset + 3 /\ seen' = seen \union {kind}
         /\ ext' = [ext EXCEPT ![kind] = value] /\ vendor' = vendor
         /\ data' = data /\ sent' = sent /\ result' = result
<1>1. kind \in DOMAIN Absent /\ kind # Vendor
  BY DEF Absent, EXT_TICK, EXT_TS_SIM_NS, Vendor
<1>2. ~(offset + 2 > End) /\ ~TooLong(1) /\ ~Repeated(kind) /\ ~WrongLength(kind, 1)
  BY DEF TooLong, Repeated, WrongLength, RegisteredLen
<1>3. ~(kind \in DOMAIN Absent /\ Exceeds(kind, value))
  BY DEF Exceeds, MaxSafe
<1>4. offset' = offset + 2 + 1
  BY <1>1, <1>2, <1>3 DEF Extension
<1> QED BY <1>1, <1>2, <1>3, <1>4 DEF Extension

\* The extension of a vendor is taken with its bytes.
LEMMA TakesVendor ==
  ASSUME Extension, offset \in Nat, End \in Nat, NEW length \in Nat, NEW x,
         data.bytes[offset + 1] = Vendor, data.bytes[offset + 2] = length,
         SubSeq(data.bytes, offset + 3, offset + 2 + length) = x,
         offset + 2 + length <= End, Vendor \notin seen
  PROVE  /\ offset' = offset + 2 + length /\ seen' = seen \union {Vendor} /\ ext' = ext
         /\ vendor' = Append(vendor, <<Vendor, x>>)
         /\ data' = data /\ sent' = sent /\ result' = result
<1>1. Vendor \notin DOMAIN Absent
  BY DEF Absent, EXT_TICK, EXT_TS_SIM_NS, Vendor
<1>2. ~(offset + 2 > End) /\ ~TooLong(length) /\ ~Repeated(Vendor) /\ ~WrongLength(Vendor, length)
  BY <1>1 DEF TooLong, Repeated, WrongLength
<1> QED BY <1>1, <1>2 DEF Extension

\* A part of a sequence is the sequence that it has the elements of.
LEMMA PartIs ==
  ASSUME NEW s \in Seq(Byte), NEW x \in Seq(Byte), NEW n \in Nat, n + Len(x) <= Len(s),
         \A i \in 1..Len(x) : s[n + i] = x[i]
  PROVE  SubSeq(s, n + 1, n + Len(x)) = x
<1>1. Len(x) \in Nat /\ Len(s) \in Nat
  OBVIOUS
<1>2. PICK y : y = SubSeq(s, n + 1, n + Len(x))
  OBVIOUS
<1>3. y = [i \in 1..Len(x) |-> s[n + i]]
  BY <1>1, <1>2
<1>4. x = [i \in 1..Len(x) |-> x[i]]
  OBVIOUS
<1> QED BY <1>2, <1>3, <1>4

\* A step of the loop takes the next extension of the frame.
LEMMA TripExtension ==
  ASSUME DecodeInv, data # None, Trip, sent # None, Extension
  PROVE  Trip'
<1>0. PICK f, a, b, e, tick, sim :
        /\ f = sent /\ a = TickEnd(f) /\ b = SimEnd(f) /\ e = VendorEnd(f)
        /\ tick = f.ext[EXT_TICK] /\ sim = f.ext[EXT_TS_SIM_NS]
  OBVIOUS
<1>1. /\ f \in Sendable /\ data = Encode(f) /\ offset \in {0, a, b, e}
      /\ (offset < a => EXT_TICK \notin seen) /\ (offset < b => EXT_TS_SIM_NS \notin seen) /\ (offset < e => Vendor \notin seen)
      /\ ext[EXT_TICK] = (IF offset < a THEN None ELSE tick)
      /\ ext[EXT_TS_SIM_NS] = (IF offset < b THEN None ELSE sim)
      /\ vendor = (IF offset < e THEN <<>> ELSE f.vendor)
  BY <1>0 DEF Trip
<1>2. /\ a \in Nat /\ b \in Nat /\ e \in Nat /\ a <= b /\ b <= e
      /\ (tick = None => a = 0) /\ (tick # None => a = 3)
      /\ (sim = None => b = a) /\ (sim # None => b = a + 3)
      /\ (f.vendor = <<>> => e = b)
      /\ (f.vendor # <<>> => e = b + (2 + Len(f.vendor[1][2])) /\ Len(f.vendor[1][2]) \in Nat)
  BY <1>0, <1>1, Ends
<1>3. tick \in {None, 0, 1} /\ sim \in {None, -1, 0, 1}
  BY <1>0, <1>1, SentParts
<1>4. End = e /\ offset < e /\ offset \in Nat /\ result = None /\ End \in Nat
  BY <1>0, <1>1, <1>2, SentHead DEF Extension
<1>5. /\ tick # None => data.bytes[1] = EXT_TICK /\ data.bytes[2] = 1 /\ data.bytes[3] = tick % 4
      /\ sim # None => data.bytes[a + 1] = EXT_TS_SIM_NS /\ data.bytes[a + 2] = 1 /\ data.bytes[a + 3] = sim % 4
  BY <1>0, <1>1, Layout
<1>6. /\ ext \in [{EXT_TICK, EXT_TS_SIM_NS} -> Int \union {None}]
      /\ EXT_TICK # EXT_TS_SIM_NS /\ Vendor # EXT_TICK /\ Vendor # EXT_TS_SIM_NS
  BY DEF DecodeInv, Locals, Absent, EXT_TICK, EXT_TS_SIM_NS, Vendor
<1>10. ASSUME /\ data' = data /\ sent' = sent /\ result' = result
              /\ offset' \in {0, a, b, e}
              /\ (offset' < a => EXT_TICK \notin seen') /\ (offset' < b => EXT_TS_SIM_NS \notin seen')
              /\ (offset' < e => Vendor \notin seen')
              /\ ext'[EXT_TICK] = (IF offset' < a THEN None ELSE tick)
              /\ ext'[EXT_TS_SIM_NS] = (IF offset' < b THEN None ELSE sim)
              /\ vendor' = (IF offset' < e THEN <<>> ELSE f.vendor)
       PROVE  Trip'
  BY <1>0, <1>1, <1>4, <1>10 DEF Trip
<1>7. CASE offset < a
  <2>1. tick \in {0, 1} /\ a = 3 /\ offset = 0 /\ a <= b /\ b <= e
    BY <1>1, <1>2, <1>3, <1>7
  <2>2. data.bytes[offset + 1] = EXT_TICK /\ data.bytes[offset + 2] = 1 /\ Number(EXT_TICK, data.bytes[offset + 3]) = tick
    <3>1. data.bytes[1] = EXT_TICK /\ data.bytes[2] = 1 /\ data.bytes[3] = tick
      BY <1>3, <1>5, <2>1, FrameCodecAssumption
    <3> QED BY <2>1, <3>1 DEF Number, EXT_TICK, EXT_TS_SIM_NS
  <2>3. /\ offset' = offset + 3 /\ seen' = seen \union {EXT_TICK} /\ ext' = [ext EXCEPT ![EXT_TICK] = tick]
        /\ vendor' = vendor /\ data' = data /\ sent' = sent /\ result' = result
    <3>1. EXT_TICK \notin seen /\ offset + 3 <= End /\ tick \in {-1, 0, 1} /\ EXT_TICK \in {EXT_TICK, EXT_TS_SIM_NS}
      BY <1>1, <1>2, <1>4, <1>7, <2>1
    <3> QED BY <1>4, <2>2, <3>1, Takes
  <2>4. ext'[EXT_TICK] = tick /\ ext'[EXT_TS_SIM_NS] = ext[EXT_TS_SIM_NS]
    BY <1>6, <2>3
  <2>5. offset < b /\ offset < e
    BY <1>2, <2>1
  <2>6. ext[EXT_TS_SIM_NS] = None /\ EXT_TS_SIM_NS \notin seen /\ Vendor \notin seen /\ vendor = <<>>
    BY <1>1, <2>5
  <2>7. EXT_TS_SIM_NS \notin seen' /\ Vendor \notin seen'
    BY <1>6, <2>3, <2>6
  <2>8. offset' = a
    BY <2>1, <2>3
  <2>9. None = (IF a < b THEN None ELSE sim)
    BY <1>2
  <2>10. <<>> = (IF a < e THEN <<>> ELSE f.vendor)
    BY <1>2
  <2> QED BY <1>2, <1>10, <2>3, <2>4, <2>6, <2>7, <2>8, <2>9, <2>10
<1>8. CASE a <= offset /\ offset < b
  <2>1. sim \in {-1, 0, 1} /\ b = a + 3 /\ offset = a /\ b <= e
    <3>1. offset = a
      BY <1>1, <1>2, <1>4, <1>8
    <3> QED BY <1>2, <1>3, <1>8, <3>1
  <2>2. data.bytes[offset + 1] = EXT_TS_SIM_NS /\ data.bytes[offset + 2] = 1 /\ Number(EXT_TS_SIM_NS, data.bytes[offset + 3]) = sim
    <3>1. /\ data.bytes[offset + 1] = EXT_TS_SIM_NS /\ data.bytes[offset + 2] = 1
          /\ data.bytes[offset + 3] = sim % 4
      BY <1>5, <2>1, FrameCodecAssumption
    <3>2. Signed(sim % 4) = sim
      BY <2>1 DEF Signed
    <3> QED BY <3>1, <3>2 DEF Number
  <2>3. /\ offset' = offset + 3 /\ seen' = seen \union {EXT_TS_SIM_NS} /\ ext' = [ext EXCEPT ![EXT_TS_SIM_NS] = sim]
        /\ vendor' = vendor /\ data' = data /\ sent' = sent /\ result' = result
    <3>1. EXT_TS_SIM_NS \notin seen /\ offset + 3 <= End /\ EXT_TS_SIM_NS \in {EXT_TICK, EXT_TS_SIM_NS}
      BY <1>1, <1>2, <1>4, <1>8, <2>1
    <3> QED BY <1>4, <2>1, <2>2, <3>1, Takes
  <2>4. ext'[EXT_TS_SIM_NS] = sim /\ ext'[EXT_TICK] = ext[EXT_TICK]
    BY <1>6, <2>3
  <2>5. offset < e /\ ~(offset < a)
    BY <1>2, <1>4, <2>1
  <2>6. ext[EXT_TICK] = tick /\ Vendor \notin seen /\ vendor = <<>>
    BY <1>1, <2>5
  <2>7. Vendor \notin seen'
    BY <1>6, <2>3, <2>6
  <2>8. offset' = b /\ ~(b < a) /\ ~(b < b)
    BY <1>2, <2>1, <2>3
  <2>9. <<>> = (IF b < e THEN <<>> ELSE f.vendor)
    BY <1>2
  <2> QED BY <1>10, <2>3, <2>4, <2>6, <2>7, <2>8, <2>9
<1>9. CASE b <= offset
  <2>1. PICK x : x = f.vendor[1][2]
    OBVIOUS
  <2>2. f.vendor # <<>> /\ offset = b /\ e = b + (2 + Len(x)) /\ Len(x) \in Nat /\ a <= b
    BY <1>1, <1>2, <1>4, <1>9, <2>1
  <2>3. /\ data.bytes[b + 1] = Vendor /\ data.bytes[b + 2] = Len(x)
        /\ \A i \in 1..Len(x) : data.bytes[b + 2 + i] = x[i]
    <3>1. f.vendor # <<>> =>
            /\ data.bytes[SimEnd(f) + 1] = Vendor /\ data.bytes[SimEnd(f) + 2] = Len(f.vendor[1][2])
            /\ \A i \in 1..Len(f.vendor[1][2]) : data.bytes[SimEnd(f) + 2 + i] = f.vendor[1][2][i]
      BY <1>1, Layout
    <3> QED BY <1>0, <2>1, <2>2, <3>1
  <2>4. x \in Seq(Byte) /\ f.vendor = << <<Vendor, x>> >>
    BY <1>1, <2>1, <2>2, EntriesByPart
  <2>5. SubSeq(data.bytes, b + 3, b + 2 + Len(x)) = x
    <3>1. data.bytes \in Seq(Byte) /\ b + 2 + Len(x) <= Len(data.bytes)
      <4>1. data.bytes \in Seq(Byte) /\ Len(data.bytes) = e + Len(f.payload) /\ f.payload \in Seq(Byte)
        BY <1>0, <1>1, SentHead
      <4>2. PICK n \in Nat : Len(data.bytes) = e + n
        BY <4>1
      <4>3. PICK m \in Nat : m = Len(x) /\ e = b + (2 + m)
        BY <2>2
      <4>4. b + 2 + m <= e + n
        BY <1>2, <4>2, <4>3
      <4> QED BY <4>1, <4>2, <4>3, <4>4
    <3>2. SubSeq(data.bytes, (b + 2) + 1, (b + 2) + Len(x)) = x
      <4>1. PICK n \in Nat : n = b + 2
        BY <1>2
      <4>2. PICK s \in Seq(Byte) : s = data.bytes
        BY <3>1
      <4>3. n + Len(x) <= Len(s) /\ \A i \in 1..Len(x) : s[n + i] = x[i]
        BY <2>3, <3>1, <4>1, <4>2
      <4>4. SubSeq(s, n + 1, n + Len(x)) = x
        BY <2>4, <4>3, PartIs
      <4> QED BY <4>1, <4>2, <4>4
    <3> QED BY <1>2, <2>2, <3>2
  <2>6. /\ offset' = offset + 2 + Len(x) /\ seen' = seen \union {Vendor} /\ ext' = ext
        /\ vendor' = Append(vendor, <<Vendor, x>>) /\ data' = data /\ sent' = sent /\ result' = result
    <3>1. Vendor \notin seen /\ offset + 2 + Len(x) <= End
      BY <1>1, <1>2, <1>4, <2>2
    <3>2. data.bytes[offset + 1] = Vendor /\ data.bytes[offset + 2] = Len(x)
          /\ SubSeq(data.bytes, offset + 3, offset + 2 + Len(x)) = x
      BY <2>2, <2>3, <2>5
    <3> QED BY <1>4, <2>2, <3>1, <3>2, TakesVendor
  <2>7. vendor' = f.vendor
    BY <1>1, <1>4, <2>4, <2>6
  <2>8. offset' = e /\ ~(e < a) /\ ~(e < b) /\ ~(e < e)
    BY <1>2, <2>2, <2>6
  <2>9. ext[EXT_TICK] = tick /\ ext[EXT_TS_SIM_NS] = sim
    BY <1>1, <1>2, <1>9, <2>2
  <2> QED BY <1>10, <2>6, <2>7, <2>8, <2>9
<1> QED BY <1>1, <1>2, <1>4, <1>7, <1>8, <1>9

\* At the end, the frame is the one that was encoded.
LEMMA TripFinish ==
  ASSUME DecodeInv, data # None, Trip, sent # None, Finish
  PROVE  Trip'
<1>0. PICK f, a, b, e : f = sent /\ a = TickEnd(f) /\ b = SimEnd(f) /\ e = VendorEnd(f)
  OBVIOUS
<1>1. /\ f \in Sendable /\ data = Encode(f) /\ offset \in {0, a, b, e}
      /\ ext[EXT_TICK] = (IF offset < a THEN None ELSE f.ext[EXT_TICK])
      /\ ext[EXT_TS_SIM_NS] = (IF offset < b THEN None ELSE f.ext[EXT_TS_SIM_NS])
      /\ vendor = (IF offset < e THEN <<>> ELSE f.vendor)
  BY <1>0 DEF Trip
<1>2. a \in Nat /\ b \in Nat /\ e \in Nat /\ a <= b /\ b <= e
  BY <1>0, <1>1, Ends
<1>3. /\ ~BadHead /\ (Extended <=> e > 0) /\ End = e
      /\ data.bytes \in Seq(Byte) /\ f.payload \in Seq(Byte)
      /\ Len(data.bytes) = e + Len(f.payload)
  BY <1>0, <1>1, SentHead
<1>4. offset = e
  BY <1>1, <1>2, <1>3 DEF Finish
<1>5. /\ data.flags \ {"HAS_EXTENSIONS"} = f.flags /\ data.seq = 1 /\ data.payload_len = Len(f.payload)
      /\ \A i \in 1..Len(f.payload) : data.bytes[e + i] = f.payload[i]
  BY <1>0, <1>1, Layout
<1>6. ext = f.ext /\ vendor = f.vendor
  <2>1. ext[EXT_TICK] = f.ext[EXT_TICK] /\ ext[EXT_TS_SIM_NS] = f.ext[EXT_TS_SIM_NS] /\ vendor = f.vendor
    BY <1>1, <1>2, <1>4
  <2>2. DOMAIN Absent = {EXT_TICK, EXT_TS_SIM_NS}
    BY DEF Absent
  <2>3. ext = [k \in DOMAIN Absent |-> ext[k]]
    BY DEF DecodeInv, Locals
  <2>4. f.ext = [k \in DOMAIN Absent |-> f.ext[k]]
    BY <1>1, SentParts
  <2> QED BY <2>1, <2>2, <2>3, <2>4
<1>7. SubSeq(data.bytes, offset + 1, Len(data.bytes)) = f.payload
  <2>1. PICK s \in Seq(Byte), x \in Seq(Byte) : s = data.bytes /\ x = f.payload
    BY <1>3
  <2>2. Len(s) = e + Len(x) /\ \A i \in 1..Len(x) : s[e + i] = x[i]
    BY <1>3, <1>5, <2>1
  <2>3. SubSeq(s, e + 1, e + Len(x)) = x
    BY <1>2, <2>2, PartIs
  <2> QED BY <1>4, <2>1, <2>2, <2>3
<1>8. ~WrongEnd /\ ~(data.seq > MaxSafe)
  BY <1>3, <1>4, <1>5 DEF WrongEnd, MaxSafe
<1>9. /\ data' = data /\ sent' = sent /\ offset' = offset /\ seen' = seen /\ ext' = ext /\ vendor' = vendor
      /\ result' = Frame(data.flags, data.seq, ext, vendor, SubSeq(data.bytes, offset + 1, Len(data.bytes)))
  BY <1>3, <1>8 DEF Finish, Return
<1>10. result' = [flags |-> f.flags, seq |-> 1, ext |-> f.ext, vendor |-> f.vendor, payload |-> f.payload]
  BY <1>5, <1>6, <1>7, <1>9 DEF Frame
<1>11. result' = f
  BY <1>1, <1>10, SentParts
<1> QED BY <1>0, <1>9, <1>11 DEF Trip

-----------------------------------------------------------------------------
(* The beginning                                                           *)

LEMMA Given ==
  ASSUME NEW d \in Anything \union Typical
  PROVE  DataOK(d)
<1>1. CASE d \in Typical
  BY <1>1 DEF Typical, DataOK, Byte
<1>2. CASE d \in Anything
  <2>1. \/ \E f, s, p, b : s \in {1, 2} /\ p \in 0..MaxPayload /\ b \in Strings(2)
             /\ d = [flags |-> f, seq |-> s, payload_len |-> p, ext_len |-> None, bytes |-> b]
        \/ \E p, e, b : p \in 0..MaxPayload /\ e \in 0..MaxBytes /\ b \in Strings(MaxBytes)
             /\ d = [flags |-> {"KEYFRAME", "HAS_EXTENSIONS"}, seq |-> 1, payload_len |-> p, ext_len |-> e, bytes |-> b]
    BY <1>2 DEF Anything
  <2>2. MaxPayload \in Nat /\ MaxBytes \in Nat
    BY FrameCodecAssumption
  <2>3. CASE \E f, s, p, b : s \in {1, 2} /\ p \in 0..MaxPayload /\ b \in Strings(2)
               /\ d = [flags |-> f, seq |-> s, payload_len |-> p, ext_len |-> None, bytes |-> b]
    <3>1. PICK f, s, p, b : s \in {1, 2} /\ p \in 0..MaxPayload /\ b \in Strings(2)
               /\ d = [flags |-> f, seq |-> s, payload_len |-> p, ext_len |-> None, bytes |-> b]
      BY <2>3
    <3>2. b \in Seq(Byte)
      BY <3>1, StringsAreSeqs
    <3> QED BY <2>2, <3>1, <3>2 DEF DataOK
  <2>4. CASE \E p, e, b : p \in 0..MaxPayload /\ e \in 0..MaxBytes /\ b \in Strings(MaxBytes)
               /\ d = [flags |-> {"KEYFRAME", "HAS_EXTENSIONS"}, seq |-> 1, payload_len |-> p, ext_len |-> e, bytes |-> b]
    <3>1. PICK p, e, b : p \in 0..MaxPayload /\ e \in 0..MaxBytes /\ b \in Strings(MaxBytes)
               /\ d = [flags |-> {"KEYFRAME", "HAS_EXTENSIONS"}, seq |-> 1, payload_len |-> p, ext_len |-> e, bytes |-> b]
      BY <2>4
    <3>2. b \in Seq(Byte)
      BY <2>2, <3>1, StringsAreSeqs
    <3> QED BY <2>2, <3>1, <3>2 DEF DataOK
  <2> QED BY <2>1, <2>3, <2>4
<1> QED BY <1>1, <1>2

\* Before the first extension nothing is taken.
LEMMA Begins ==
  ASSUME offset' = 0, seen' = {}, ext' = Absent, vendor' = <<>>, result' = None,
         data' = None \/ DataOK(data'),
         sent' # None => sent' \in Sendable /\ data' = Encode(sent')
  PROVE  DecodeInv' /\ AcceptsFrames' /\ Trip'
<1>1. AcceptsFrames'
  BY FrameCodecAssumption DEF AcceptsFrames, Accepted
<1>2. ASSUME data' # None PROVE DecodeInv'
  <2>1. DataOK(data') /\ data'.ext_len \in Nat \union {None}
    BY <1>2 DEF DataOK
  <2>2. vendor' \in Seq({<<Vendor, b>> : b \in Seq(Byte)})
    OBVIOUS
  <2>3. Locals'
    <3>1. ext' \in [DOMAIN Absent -> Int \union {None}] /\ \A kind \in DOMAIN Absent : ext'[kind] = None
      BY DEF Absent
    <3> QED BY <3>1 DEF Locals
  <2>4. ASSUME ~BadHead', Extended' PROVE offset' \in 0..End' /\ \E V : Chain(V)' /\ Unique(V)' /\ Taken(V)'
    <3>1. data'.ext_len # None
      BY <2>4 DEF BadHead
    <3>2. End' = data'.ext_len /\ End' \in Nat
      BY <2>1, <3>1 DEF End
    <3>3. Chain({})'
      BY DEF Chain
    <3>4. Unique({})'
      <4>1. ASSUME NEW P \in Starts(data')
            PROVE  {p \in P : p < 0} = {} /\ (0 < End' => 0 \in P)
        <5>1. PICK d : d = data'
          OBVIOUS
        <5>2. P \in SUBSET (0..d.ext_len - 1) /\ (d.ext_len > 0 => 0 \in P)
          BY <5>1 DEF Starts
        <5>3. P \subseteq 0..End' - 1 /\ (0 < End' => 0 \in P)
          BY <3>2, <5>1, <5>2
        <5>4. ASSUME NEW p \in P PROVE ~(p < 0)
          BY <3>2, <5>3
        <5> QED BY <5>3, <5>4
      <4> QED BY <4>1 DEF Unique
    <3>5. Taken({})'
      BY DEF Taken
    <3> QED BY <3>2, <3>3, <3>4, <3>5
  <2> QED BY <2>1, <2>2, <2>3, <2>4 DEF DecodeInv
<1>3. DecodeInv'
  <2>1. CASE data' = None
    BY <2>1 DEF DecodeInv
  <2> QED BY <1>2, <2>1
<1>4. ASSUME NEW f, f = sent', f # None PROVE Trip'
  <2>1. f \in Sendable /\ data' = Encode(f)
    BY <1>4
  <2>2. /\ TickEnd(f) \in Nat /\ SimEnd(f) \in Nat /\ VendorEnd(f) \in Nat
        /\ ~(0 < TickEnd(f)) => f.ext[EXT_TICK] = None
        /\ ~(0 < SimEnd(f)) => f.ext[EXT_TS_SIM_NS] = None
    BY <2>1, Ends
  <2>3. ~(0 < VendorEnd(f)) => f.vendor = <<>>
    <3>1. ASSUME f.vendor # <<>> PROVE 0 < VendorEnd(f)
      <4>1. PICK n \in Nat : VendorEnd(f) = SimEnd(f) + (2 + n)
        BY <2>1, <3>1, Ends
      <4> QED BY <2>2, <4>1
    <3> QED BY <3>1
  <2>4. ext'[EXT_TICK] = None /\ ext'[EXT_TS_SIM_NS] = None
    BY DEF Absent
  <2> QED BY <1>4, <2>1, <2>2, <2>3, <2>4 DEF Trip
<1>5. Trip'
  BY <1>4 DEF Trip
<1> QED BY <1>1, <1>3, <1>5

-----------------------------------------------------------------------------
(* Every step                                                              *)

CodecInv == DecodeInv /\ AcceptsFrames /\ Trip

\* Between two frames nothing is decoded.
LEMMA Forgets == ASSUME Forget PROVE CodecInv'
<1>1. data' = None /\ sent' = None /\ offset' = 0 /\ seen' = {} /\ ext' = Absent /\ vendor' = <<>> /\ result' = None
  BY DEF Forget, Begin
<1> QED BY <1>1, Begins DEF CodecInv

\* A frame that arrives is bytes, of which nothing is decoded yet.
LEMMA Receives == ASSUME Receive PROVE CodecInv'
<1>1. PICK d, f : Begin(d, f) /\ DataOK(d) /\ (f # None => f \in Sendable /\ d = Encode(f))
  <2>1. CASE \E d \in Typical \union Anything : Begin(d, None)
    BY <2>1, Given
  <2>2. CASE \E f \in Sendable : Begin(Encode(f), f)
    BY <2>2, Layout
  <2> QED BY <2>1, <2>2 DEF Receive
<1>2. /\ offset' = 0 /\ seen' = {} /\ ext' = Absent /\ vendor' = <<>> /\ result' = None
      /\ DataOK(data') /\ (sent' # None => sent' \in Sendable /\ data' = Encode(sent'))
  BY <1>1 DEF Begin
<1> QED BY <1>2, Begins DEF CodecInv

\* A step of decode: of its loop, or after it.
LEMMA Decodes == ASSUME CodecInv, Decode PROVE CodecInv'
<1>1. DecodeInv /\ Trip /\ data # None /\ result = None
  BY DEF CodecInv, Decode, Decoding
<1>2. CASE Extension
  <2>1. DecodeInv' /\ AcceptsFrames'
    <3>1. CASE result' # None
      BY <1>1, <1>2, <3>1, ExtensionRefuses
    <3>2. CASE result' = None
      <4>1. AcceptsFrames'
        BY <3>2, FrameCodecAssumption DEF AcceptsFrames, Accepted
      <4> QED BY <1>1, <1>2, <3>2, <4>1, ExtensionTakes
    <3> QED BY <3>1, <3>2
  <2>2. Trip'
    <3>1. CASE sent = None
      <4>1. sent' = None
        BY <1>2, <3>1 DEF Extension, Return
      <4> QED BY <4>1 DEF Trip
    <3>2. CASE sent # None
      BY <1>1, <1>2, <3>2, TripExtension
    <3> QED BY <3>1, <3>2
  <2> QED BY <2>1, <2>2 DEF CodecInv
<1>3. CASE Finish
  <2>1. DecodeInv' /\ AcceptsFrames'
    BY <1>1, <1>3, FinishSettles
  <2>2. Trip'
    <3>1. CASE sent = None
      <4>1. sent' = None
        BY <1>3, <3>1 DEF Finish, Return
      <4> QED BY <4>1 DEF Trip
    <3>2. CASE sent # None
      BY <1>1, <1>3, <3>2, TripFinish
    <3> QED BY <3>1, <3>2
  <2> QED BY <2>1, <2>2 DEF CodecInv
<1> QED BY <1>2, <1>3 DEF Decode

\* A step of either connection keeps what decode has.
LEMMA CodecStep ==
  ASSUME CodecInv, [ConnectionsNext]_connections
  PROVE  CodecInv'
<1>1. CASE ReadControl \/ Call \/ Connect
  BY <1>1, Forgets DEF ReadControl, Call, Connect
<1>2. CASE Receive
  BY <1>2, Receives
<1>3. CASE DecodeFrame
  BY <1>3, Decodes DEF DecodeFrame
<1>4. CASE FinishEnding \/ UNCHANGED connections
  <2>1. /\ data' = data /\ sent' = sent /\ offset' = offset /\ seen' = seen /\ ext' = ext
        /\ vendor' = vendor /\ result' = result
    BY <1>4 DEF FinishEnding, connections, codec
  <2>2. DecodeInv'
    BY <2>1, DecodeUnchanged DEF CodecInv
  <2>3. AcceptsFrames'
    BY <2>1 DEF CodecInv, AcceptsFrames, Accepted
  <2>4. Trip'
    BY <2>1 DEF CodecInv, Trip
  <2> QED BY <2>2, <2>3, <2>4 DEF CodecInv
<1> QED BY <1>1, <1>2, <1>3, <1>4 DEF ConnectionsNext

\* Nothing is decoded in the beginning.
LEMMA CodecStart == ASSUME ConnectionsInit PROVE CodecInv
<1>1. data = None /\ sent = None /\ result = None
  BY DEF ConnectionsInit, Undecoded
<1> QED BY <1>1, FrameCodecAssumption DEF CodecInv, DecodeInv, AcceptsFrames, Accepted, Trip

\* The types of decode follow.
LEMMA CodecTypes == ASSUME CodecInv PROVE CodecTypeOK
<1>1. SUFFICES ASSUME data # None
               PROVE  /\ offset \in 0..Len(data.bytes) /\ (Extended => offset <= End \/ BadHead)
                      /\ seen \subseteq Byte /\ Len(vendor) <= 1
  BY DEF CodecTypeOK
<1>2. DataOK(data) /\ Locals
  BY <1>1 DEF CodecInv, DecodeInv
<1>3. Len(data.bytes) \in Nat
  BY <1>2 DEF DataOK
<1>4. CASE BadHead \/ ~Extended
  BY <1>1, <1>2, <1>3, <1>4 DEF CodecInv, DecodeInv, Locals
<1>5. CASE ~BadHead /\ Extended
  <2>1. offset \in 0..End
    BY <1>1, <1>5 DEF CodecInv, DecodeInv
  <2>2. End \in Nat /\ End <= Len(data.bytes)
    BY <1>2, <1>5, EndOfPart
  <2> QED BY <1>2, <1>3, <2>1, <2>2 DEF Locals
<1> QED BY <1>4, <1>5

\* A record without its vendor's extensions.
LEMMA WithoutVendor ==
  ASSUME NEW g, NEW n, NEW x, NEW v, NEW q, NEW r, r = [flags |-> g, seq |-> n, ext |-> x, vendor |-> v, payload |-> q],
         NEW w, NEW z, z = [r EXCEPT !.vendor = w]
  PROVE  z = [flags |-> g, seq |-> n, ext |-> x, vendor |-> w, payload |-> q]
<1>1. DOMAIN r = {"flags", "seq", "ext", "vendor", "payload"}
  OBVIOUS
<1>2. z = [k \in DOMAIN r |-> IF k = "vendor" THEN w ELSE r[k]]
  BY Zenon
<1>3. DOMAIN z = {"flags", "seq", "ext", "vendor", "payload"}
  BY <1>1, <1>2
<1>4. z.flags = g /\ z.seq = n /\ z.ext = x /\ z.vendor = w /\ z.payload = q
  <2>1. r.flags = g /\ r.seq = n /\ r.ext = x /\ r.payload = q
    OBVIOUS
  <2>2. "flags" # "vendor" /\ "seq" # "vendor" /\ "ext" # "vendor" /\ "payload" # "vendor"
    OBVIOUS
  <2> QED BY <1>1, <1>2, <2>1, <2>2
<1>5. z = [flags |-> z.flags, seq |-> z.seq, ext |-> z.ext, vendor |-> z.vendor, payload |-> z.payload]
  BY <1>2, <1>3, Zenon
<1> QED BY <1>4, <1>5

\* The inline form has all of a frame that the world and the client send, but for a vendor's
\* extensions.
LEMMA InlineTrip ==
  ASSUME NEW f \in Sendable
  PROVE  FromInline(ToInline(f)) = [f EXCEPT !.vendor = <<>>]
<1>1. /\ f = [flags |-> f.flags, seq |-> 1, ext |-> f.ext, vendor |-> f.vendor, payload |-> f.payload]
      /\ "HAS_EXTENSIONS" \notin f.flags /\ ("RESYNC" \in f.flags => "KEYFRAME" \in f.flags)
      /\ f.seq = 1 /\ f.ext = [k \in DOMAIN Absent |-> f.ext[k]]
  BY SentParts
<1>2. PICK p : p = ToInline(f)
  OBVIOUS
<1>3. p.flags = f.flags /\ p.seq = 1 /\ p.payload_b64 = f.payload /\ p.ext = f.ext
  BY <1>1, <1>2 DEF ToInline, Inline
<1>4. FromInline(p) = Frame(p.flags, p.seq, p.ext, <<>>, p.payload_b64)
  BY <1>1, <1>3 DEF FromInline
<1>5. FromInline(p) = [flags |-> f.flags, seq |-> 1, ext |-> f.ext, vendor |-> <<>>, payload |-> f.payload]
  BY <1>1, <1>3, <1>4 DEF Frame
<1>6. [f EXCEPT !.vendor = <<>>] = [flags |-> f.flags, seq |-> 1, ext |-> f.ext, vendor |-> <<>>, payload |-> f.payload]
  <2>1. PICK g, x, v, q : /\ g = f.flags /\ x = f.ext /\ v = f.vendor /\ q = f.payload
                          /\ f = [flags |-> g, seq |-> 1, ext |-> x, vendor |-> v, payload |-> q]
    BY <1>1
  <2>2. PICK z, w : w = <<>> /\ z = [f EXCEPT !.vendor = w]
    OBVIOUS
  <2>3. z = [flags |-> g, seq |-> 1, ext |-> x, vendor |-> w, payload |-> q]
    BY <2>1, <2>2, WithoutVendor
  <2> QED BY <2>1, <2>2, <2>3
<1> QED BY <1>2, <1>5, <1>6

\* What was sent is what arrives.
LEMMA Returns == ASSUME CodecInv PROVE RoundTrip
<1>1. CASE sent = None
  BY <1>1 DEF RoundTrip
<1>2. CASE sent # None
  <2>1. sent \in Sendable /\ (result # None => result = sent)
    BY <1>2 DEF CodecInv, Trip
  <2>2. FromInline(ToInline(sent)) = [sent EXCEPT !.vendor = <<>>]
    BY <2>1, InlineTrip
  <2> QED BY <2>1, <2>2 DEF RoundTrip
<1> QED BY <1>1, <1>2

-----------------------------------------------------------------------------
(* The theorems                                                            *)

ArrivalInv == ControlInv /\ CodecInv

\* The inductive invariant holds throughout: the four properties below follow from it.
LEMMA ArrivalInvariant == ConnectionsSpec => []ArrivalInv
<1>1. ConnectionsInit => ArrivalInv
  BY ControlStart, CodecStart DEF ArrivalInv
<1>2. ArrivalInv /\ [ConnectionsNext]_connections => ArrivalInv'
  BY ControlStep, CodecStep DEF ArrivalInv
<1> QED BY <1>1, <1>2, PTL DEF ConnectionsSpec

\* Types of both connections; and an error arrives as it was made (errors.py, to_dict and from_dict).
THEOREM InboundInv == ConnectionsSpec => []Inv
<1>1. ArrivalInv => Inv
  BY CodecTypes DEF ArrivalInv, ControlInv, Inv
<1> QED BY <1>1, ArrivalInvariant, PTL

\* decode accepts what is a frame, the whole of it, and refuses the rest with the error that is
\* due: a malformed frame or an integer out of range (frames.py, decode).
THEOREM FramesAccepted == ConnectionsSpec => []AcceptsFrames
<1>1. ArrivalInv => AcceptsFrames
  BY DEF ArrivalInv, CodecInv
<1> QED BY <1>1, ArrivalInvariant, PTL

\* decode gives back what encode was given, and so does the inline form but for the extensions
\* of vendors (frames.py, encode and inline).
THEOREM FramesReturn == ConnectionsSpec => []RoundTrip
<1>1. ArrivalInv => RoundTrip
  BY Returns DEF ArrivalInv
<1> QED BY <1>1, ArrivalInvariant, PTL

\* No request leaves _pending without an event unless the reader fails; and it fails for nothing
\* but what receive cannot take and for an answer with an unusable manifest, whose request is the
\* one that nobody hears of (client.py, _on_response and _result_initialize).
THEOREM CallersRemembered == ConnectionsSpec => []NoCallerForgotten
<1>1. ArrivalInv => NoCallerForgotten
  BY DEF ArrivalInv, ControlInv
<1> QED BY <1>1, ArrivalInvariant, PTL
=============================================================================
