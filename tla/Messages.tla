------------------------------- MODULE Messages -------------------------------
(***************************************************************************)
(* What a message on the control connection does, whatever it looks like:     *)
(* jsonrpc.decode, ClientConnection.receive up to its handlers, the errors it *)
(* carries (src/awp/jsonrpc.py, client.py, errors.py), and the reader of      *)
(* AsyncClient, which drops it, processes it, ends the session or fails.     *)
(*                                                                         *)
(* A message is a record of what these look at; a member that is not there is *)
(* "absent", or None.  That a schema decides about a result or about params is all     *)
(* there is of schema validation, but for the version that a manifest selects: *)
(* a schema admits any, the client has its own.                            *)
(***************************************************************************)
EXTENDS FrameCodec

CONSTANT MaxRequests   \* bound: requests of the client

VARIABLES
  pending,   \* per id, the method, or None
  outcome,   \* history: the event each request ended with
  session,   \* "none", "live" (suspended or not) or "closed"
  reader,    \* "reading", "ended" (an integer out of range) or "failed" (an exception)
  last,      \* history: the last message
  reply,     \* history: what it was answered
  reported,  \* history: it was reported as a violation
  next_id

control == <<pending, outcome, session, reader, last, reply, reported, next_id>>

Ids     == 1..MaxRequests
Text    == -1  \* an id that is no integer
\* One whose result is the manifest of the world, as of world.manifest too, one that opens
\* a session, and any other.
Methods == {"initialize", "session.open", "ping"}
Success == [response |-> TRUE]

ASSUME MessagesAssumption ==
  /\ MaxRequests \in Nat
  /\ None \notin Methods /\ None # Success

-----------------------------------------------------------------------------
(* Errors                                                                  *)

JSONRPC == {-32700, -32601}
RETRYABLE == {3002}

Error(code, detail, retryable, more) ==
  [code |-> code, detail |-> detail, retryable |-> retryable, data |-> more]

\* AwpError: unless the caller says, the code decides whether it is retryable.
AwpError(code, detail) ==
  IF code \in RETRYABLE THEN Error(code, detail, TRUE, {}) ELSE Error(code, detail, FALSE, {})

\* Mutant: data only with a detail.
HasDataDetail(err) == err.detail # None

HasData(err) == err.code \notin JSONRPC \/ err.detail # None \/ err.data # {}

ToDict(err) ==
  [code |-> err.code,
   data |-> IF HasData(err) THEN [retryable |-> err.retryable, detail |-> err.detail, rest |-> err.data]
            ELSE None]

FromDict(dict) ==
  IF dict.data = None THEN Error(dict.code, None, FALSE, {})
  ELSE Error(dict.code, dict.data.detail, dict.data.retryable, dict.data.rest)

\* from_dict passes the members of data on as keyword arguments.
Constructible(dict) ==
  dict.code # None /\ (dict.data # None => dict.data.rest \cap {"code", "message"} = {})

-----------------------------------------------------------------------------
(* What may arrive                                                         *)

Sent == {AwpError(-32601, None), AwpError(-32601, "detail"), AwpError(3002, None), AwpError(2005, "detail"),
         Error(3009, None, FALSE, {"tick"}), Error(4002, None, TRUE, {})}

\* None is neither an error nor its data.
ASSUME ErrorAssumption ==
  /\ None \notin Sent /\ \A e \in Sent : HasData(e) => ToDict(e).data # None
  /\ None # [retryable |-> FALSE, detail |-> None, rest |-> {"code"}]

Message(method, id, params, res, err) ==
  [json |-> TRUE, version |-> TRUE, method |-> method, id |-> id, params |-> params,
   result |-> res, error |-> err, frame |-> None, wide |-> FALSE]

MethodCall(method, id, params) == Message(method, id, params, "absent", None)
AnswerTo(id, res, err) == Message("absent", id, "absent", res, err)
Wide(m) == [m EXCEPT !.wide = TRUE]

\* A result is valid, also "unsupported": with a version that is not of the client.
Responses ==
  {AnswerTo(i, r, None) : i \in Ids \union {0}, r \in {"valid", "invalid", "unsupported"}}
  \union {Wide(AnswerTo(i, "valid", None)) : i \in Ids \union {0}}
  \union {AnswerTo(i, "absent", ToDict(e)) : i \in Ids \union {0}, e \in Sent}
  \union {AnswerTo(Text, "valid", None)}

Calls ==
  {MethodCall(m, i, p) :
     m \in {"ping", "session.state", "other"}, i \in {None, Text}, p \in {"absent", "valid", "invalid"}}
  \union {Wide(MethodCall(m, i, "valid")) : m \in {"ping", "session.state", "other"}, i \in {None, Text}}

\* obs.frame, whose params are a frame or, with an odd combination of flags, none.
InlineFrame(flags) ==
  [MethodCall("obs.frame", None, "valid") EXCEPT !.frame = ToInline(Frame(flags, 1, Absent, <<>>, <<>>))]
InlineFrames == {InlineFrame(f) : f \in FlagSets}

\* Not JSON, or no JSON-RPC 2.0 object, or neither of its three.
Nonsense ==
  {[AnswerTo(None, "absent", None) EXCEPT !.json = FALSE], [MethodCall("ping", None, "absent") EXCEPT !.version = FALSE],
   AnswerTo(None, "absent", None), MethodCall("nonstring", None, "absent"), Wide(AnswerTo(1, "absent", None))}

\* What decode lets pass and receive cannot take: no id, an error without a code, one whose data
\* have a member named like an argument of AwpError, and params that are a list.  JSON-RPC has
\* the last two.
Unchecked ==
  {AnswerTo(None, "valid", None),
   AnswerTo(1, "absent", [code |-> None, data |-> None]),
   AnswerTo(1, "absent", [code |-> 2005, data |-> [retryable |-> FALSE, detail |-> None, rest |-> {"code"}]]),
   MethodCall("ping", Text, "list")}

Arriving == Responses \union Calls \union InlineFrames \union Nonsense \union Unchecked

-----------------------------------------------------------------------------
(* decode                                                                  *)

is_request(m)      == m.method # "absent" /\ m.id # None
is_notification(m) == m.method # "absent" /\ m.id = None
is_response(m)     == m.method = "absent" /\ (m.result # "absent" \/ m.error # None)

Rejected(m) ==
  \/ ~m.json \/ ~m.version
  \/ ~(is_request(m) \/ is_notification(m) \/ is_response(m))
  \/ m.method = "nonstring"

\* The range is checked in what is a message otherwise.
OutOfRange(m) == ~Rejected(m) /\ m.wide

-----------------------------------------------------------------------------
(* receive                                                                 *)

Nothing == reply' = None /\ reported' = FALSE /\ UNCHANGED <<pending, outcome, session, reader>>
Violation == reply' = None /\ reported' = TRUE /\ UNCHANGED <<pending, outcome, session, reader>>
Exception == reader' = "failed" /\ reply' = None /\ reported' = FALSE

\* _on_world_request: a ping is answered, and whatever else refused.
WorldRequest(m) ==
  \/ /\ m.method = "ping" /\ m.params = "list"
     /\ Exception /\ UNCHANGED <<pending, outcome, session>>
  \/ /\ ~(m.method = "ping" /\ m.params = "list")
     /\ reply' = [id |-> m.id,
                  error |-> IF m.method = "ping" THEN None ELSE ToDict(AwpError(-32601, "detail"))]
     /\ reported' = FALSE /\ UNCHANGED <<pending, outcome, session, reader>>

Invalid(m) == m.result = "invalid"

\* _result_initialize raises too.
Unusable(m) == Invalid(m) \/ m.result = "unsupported"

Applies(m, method) == method = "session.open" /\ ~Invalid(m)

\* Mutant: a result that does not validate is only reported.
EventIfValid(m) == IF Invalid(m) THEN None ELSE Success

\* The caller gets the result even then.
EventOf(m) == Success

Answered(id, event) ==
  /\ pending' = [pending EXCEPT ![id] = None]
  /\ outcome' = [outcome EXCEPT ![id] = event]

\* _on_response, once its request is found.
Response(m, id) ==
  LET method == pending[id]
  IN  \/ /\ m.error # None /\ Constructible(m.error)
         /\ Answered(id, FromDict(m.error))
         /\ reply' = None /\ reported' = FALSE /\ UNCHANGED <<session, reader>>
      \/ /\ m.error # None /\ ~Constructible(m.error)
         /\ pending' = [pending EXCEPT ![id] = None]
         /\ Exception /\ UNCHANGED <<outcome, session>>
      \/ /\ m.error = None /\ Unusable(m) /\ method = "initialize"
         /\ pending' = [pending EXCEPT ![id] = None]
         /\ Exception /\ UNCHANGED <<outcome, session>>
      \/ /\ m.error = None /\ ~(Unusable(m) /\ method = "initialize")
         /\ Answered(id, EventOf(m))
         /\ session' = IF Applies(m, method) THEN "live" ELSE session
         /\ reply' = None /\ reported' = Invalid(m) /\ UNCHANGED reader

OnResponse(m) ==
  \/ m.id = None /\ Exception /\ UNCHANGED <<pending, outcome, session>>
  \/ m.id # None /\ (IF m.id \in Ids /\ pending[m.id] # None THEN Response(m, m.id) ELSE Violation)

OnNotification(m) ==
  \/ m.method = "session.state" /\ m.params # "valid" /\ Violation
  \/ /\ m.method = "session.state" /\ m.params = "valid"
     /\ session' = "closed" /\ reply' = None /\ reported' = FALSE
     /\ UNCHANGED <<pending, outcome, reader>>
  \/ m.method = "obs.frame" /\ (IF FromInline(m.frame) = MALFORMED THEN Violation ELSE Nothing)
  \/ m.method \notin {"session.state", "obs.frame"} /\ Nothing

\* One message through the reader.
Read ==
  /\ reader = "reading"
  /\ \E m \in Arriving :
       /\ last' = m
       /\ \/ Rejected(m) /\ Nothing
          \/ /\ OutOfRange(m)
             /\ reader' = "ended" /\ session' = "closed" /\ reply' = None /\ reported' = FALSE
             /\ UNCHANGED <<pending, outcome>>
          \/ /\ ~Rejected(m) /\ ~OutOfRange(m)
             /\ \/ is_response(m) /\ OnResponse(m)
                \/ is_request(m) /\ WorldRequest(m)
                \/ is_notification(m) /\ OnNotification(m)
  /\ UNCHANGED next_id

Request ==
  /\ reader = "reading" /\ next_id \in Ids
  /\ \E method \in Methods : pending' = [pending EXCEPT ![next_id] = method]
  /\ next_id' = next_id + 1
  /\ UNCHANGED <<outcome, session, reader, last, reply, reported>>

-----------------------------------------------------------------------------
\* Connected, with a session that was resumed or none.
ControlInit ==
  /\ pending = [id \in Ids |-> None] /\ outcome = [id \in Ids |-> None]
  /\ session \in {"none", "live"} /\ reader = "reading"
  /\ last = None /\ reply = None /\ reported = FALSE /\ next_id = 1

-----------------------------------------------------------------------------
(* Properties                                                              *)

\* Types; an id that was not given has no request.
ControlTypeOK ==
  /\ \A id \in Ids : pending[id] \in Methods \union {None} /\ (id >= next_id => pending[id] = None)
  /\ session \in {"none", "live", "closed"} /\ reader \in {"reading", "ended", "failed"}
  /\ reported \in BOOLEAN /\ next_id \in 1..MaxRequests + 1

\* Whatever the answer to a request looks like, its caller hears of it, or the reader fails and
\* the connection is closed: no request leaves _pending without an event.  And the reader fails
\* for nothing but what receive cannot take, and a manifest that is invalid or of another
\* version, which only the request for it is answered with: an invalid result of any other
\* request is reported, and its caller gets it.
NoCallerForgotten ==
  /\ \A id \in 1..next_id - 1 : pending[id] = None => outcome[id] # None \/ reader = "failed"
  /\ reader = "failed" =>
       \/ last \in Unchecked
       \/ Unusable(last) /\ last.id \in Ids /\ pending[last.id] = None /\ outcome[last.id] = None

\* An error arrives as it was made.
ErrorAsMade ==
  \A id \in Ids : outcome[id] \notin {None, Success} => outcome[id] \in Sent
=============================================================================
