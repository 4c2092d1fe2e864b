------------------------------- MODULE Inbound -------------------------------
(***************************************************************************)
(* All that a world can send: messages on the control connection, whose       *)
(* reader is in Messages, and frames on a stream connection, decoded as in    *)
(* FrameCodec by the _stream task of AsyncClient (src/awp/aio.py), which      *)
(* drops a malformed frame with its connection and ends the session for an    *)
(* integer out of range, while the reader goes on: a result that it processes  *)
(* until the control connection is closed makes a session live again, which    *)
(* Session shows.                                                          *)
(*                                                                         *)
(* decode runs to its end without a suspension, and its frame is remembered    *)
(* until the next message only.                                            *)
(***************************************************************************)
EXTENDS Messages

VARIABLE stream  \* the stream connection: "down", "up", or "ending" the control connection

connections == <<codec, control, stream>>

-----------------------------------------------------------------------------
(* The control connection                                                  *)

ReadControl == ~Decoding /\ Read /\ Forget /\ UNCHANGED stream

Call == ~Decoding /\ Request /\ Forget /\ UNCHANGED stream

-----------------------------------------------------------------------------
(* The stream connection                                                   *)

Connect ==
  /\ ~Decoding /\ stream = "down" /\ session = "live" /\ reader = "reading"
  /\ stream' = "up" /\ Forget
  /\ UNCHANGED control

\* A frame, one of another length and one with a seq out of range.
Typical ==
  {[flags |-> {"KEYFRAME"}, seq |-> sp[1], payload_len |-> sp[2], ext_len |-> None, bytes |-> <<3>>] :
     sp \in {<<1, 1>>, <<1, 0>>, <<2, 1>>}}

\* Bound: any frame comes as the first of a session only, and a few at any time.
Thorough == last = None /\ next_id = 1 /\ data = None

Receive ==
  /\ ~Decoding /\ stream = "up"
  /\ \/ \E d \in Typical : Begin(d, None)
     \/ Thorough /\ \E d \in Anything : Begin(d, None)
     \/ Thorough /\ \E f \in Sendable : Begin(Encode(f), f)
  /\ UNCHANGED <<control, stream>>

\* _integer_range: abandon, and then the flush and the close are awaited.
RangeAbandons == stream' = "ending" /\ session' = "closed"

\* A step of decode, and what _stream does with its result.
DecodeFrame ==
  /\ Decode
  /\ \/ result' = MALFORMED /\ stream' = "down" /\ UNCHANGED session
     \/ result' = INTEGER_RANGE /\ RangeAbandons
     \/ result' \notin {MALFORMED, INTEGER_RANGE} /\ UNCHANGED <<stream, session>>
  /\ UNCHANGED <<pending, outcome, reader, last, reply, reported, next_id>>

\* The control connection is closed.
FinishEnding ==
  /\ stream = "ending"
  /\ stream' = "down" /\ reader' = (IF reader = "reading" THEN "ended" ELSE reader)
  /\ UNCHANGED <<codec, pending, outcome, session, last, reply, reported, next_id>>

-----------------------------------------------------------------------------
ConnectionsInit ==
  /\ data = None /\ sent = None /\ Undecoded
  /\ ControlInit
  /\ stream = IF session = "live" THEN "up" ELSE "down"

ConnectionsNext == ReadControl \/ Call \/ Connect \/ Receive \/ DecodeFrame \/ FinishEnding

ConnectionsSpec == ConnectionsInit /\ [][ConnectionsNext]_connections

-----------------------------------------------------------------------------
(* Properties                                                              *)

\* The types of both connections, with the errors that callers get as the world made them:
\* detail, retryability and the other data share one object on the wire.
Inv == CodecTypeOK /\ ControlTypeOK /\ ErrorAsMade
=============================================================================
