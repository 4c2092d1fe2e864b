----------------------------- MODULE FrameCodec -----------------------------
(***************************************************************************)
(* The frame envelope (src/awp/frames.py): decode, a loop over the bytes of a *)
(* frame that anyone may have written, against what a frame is; encode, and   *)
(* the inline form.                                                         *)
(*                                                                         *)
(* Bytes and widths are scaled: a byte is 0..3, registered extensions have a  *)
(* value of one byte instead of eight, and 2^53 - 1 is 1.  Of the extensions  *)
(* there are tick, unsigned (ts_send_ns is like it), ts_sim_ns, signed, one   *)
(* of a vendor, and a type that is reserved.  The fields of fixed places are  *)
(* a record; ext_len is there or not.  Inbound has the connection that the    *)
(* frames come on.                                                         *)
(***************************************************************************)
EXTENDS Integers, Sequences, FiniteSets, SequencesExt

CONSTANTS
  None,
  MaxBytes,     \* bound: bytes after the header and ext_len
  MaxPayload,   \* bound: what payload_len says
  MaxSent       \* bound: bytes of the payload of a frame that is sent

\* Type 0 is reserved.
Byte == 0..3

EXT_TICK == 1
EXT_TS_SIM_NS == 2
Vendor == 3

RegisteredLen == 1
MaxSafe == 1

Signed(byte) == IF byte >= 2 THEN byte - 4 ELSE byte

VARIABLES
  data,    \* what is decoded, a header with ext_len and the bytes after it, or None
  sent,    \* the frame it encodes, if it was encoded
  offset,  \* of the next extension
  seen, ext, vendor,  \* the locals of the loop
  result   \* None, an error or the frame

codec == <<data, sent, offset, seen, ext, vendor, result>>

MALFORMED     == [error |-> "MALFORMED"]
INTEGER_RANGE == [error |-> "INTEGER_RANGE"]

ASSUME FrameCodecAssumption ==
  /\ {MaxBytes, MaxPayload, MaxSent} \subseteq Nat
  /\ None \notin Int /\ None \notin {MALFORMED, INTEGER_RANGE}

Absent == [kind \in {EXT_TICK, EXT_TS_SIM_NS} |-> None]

Frame(flags, seq, extensions, vendors, payload) ==
  [flags |-> flags \ {"HAS_EXTENSIONS"}, seq |-> seq, ext |-> extensions, vendor |-> vendors, payload |-> payload]

-----------------------------------------------------------------------------
(* encode and the inline form                                              *)

Entry(kind, value) == IF value = None THEN <<>> ELSE <<kind, RegisteredLen, value % 4>>

Flags(frame, entries) == IF entries = <<>> THEN frame.flags ELSE frame.flags \union {"HAS_EXTENSIONS"}

\* Mutant: a vendor's extensions are left out.
EntriesRegistered(frame) ==
  Entry(EXT_TICK, frame.ext[EXT_TICK]) \o Entry(EXT_TS_SIM_NS, frame.ext[EXT_TS_SIM_NS])

Entries(frame) ==
  Entry(EXT_TICK, frame.ext[EXT_TICK]) \o Entry(EXT_TS_SIM_NS, frame.ext[EXT_TS_SIM_NS])
    \o FlattenSeq([i \in DOMAIN frame.vendor |-> <<frame.vendor[i][1], Len(frame.vendor[i][2])>> \o frame.vendor[i][2]])

Encode(frame) ==
  LET entries == Entries(frame)
  IN  [flags |-> Flags(frame, entries), seq |-> frame.seq, payload_len |-> Len(frame.payload),
       ext_len |-> IF entries = <<>> THEN None ELSE Len(entries),
       bytes |-> entries \o frame.payload]

\* What the inline form has of an extension.
Inline(value) == value

ToInline(frame) ==
  [flags |-> frame.flags, seq |-> frame.seq, payload_b64 |-> frame.payload,
   ext |-> [kind \in DOMAIN Absent |-> Inline(frame.ext[kind])]]

FromInline(params) ==
  IF "RESYNC" \in params.flags /\ "KEYFRAME" \notin params.flags THEN MALFORMED
  ELSE Frame(params.flags, params.seq, params.ext, <<>>, params.payload_b64)

-----------------------------------------------------------------------------
(* decode                                                                  *)

\* ext_len is of the bytes that there are.
End == IF data.ext_len = None THEN 0 ELSE data.ext_len

Extended == "HAS_EXTENSIONS" \in data.flags

Return(r) == result' = r /\ UNCHANGED <<data, sent, offset, seen, ext, vendor>>

\* The checks before the loop; a frame without its header, with another magic number or
\* version is refused in the same way, and left out.
BadHead ==
  \/ "RESYNC" \in data.flags /\ "KEYFRAME" \notin data.flags
  \/ Extended /\ (data.ext_len = None \/ End > Len(data.bytes))

TooLong(length) == offset + 2 + length > End

\* Mutant: only what is registered is looked at.
RepeatedRegistered(kind) == kind \in seen /\ kind \in DOMAIN Absent

Repeated(kind) == kind \in seen

WrongLength(kind, length) == kind \in DOMAIN Absent /\ length # RegisteredLen

Exceeds(kind, value) == value > MaxSafe \/ (kind = EXT_TS_SIM_NS /\ value < -MaxSafe)

Number(kind, byte) == IF kind = EXT_TS_SIM_NS THEN Signed(byte) ELSE byte

\* One extension.
Extension ==
  /\ result = None /\ ~BadHead /\ Extended /\ offset < End
  /\ \/ offset + 2 > End /\ Return(MALFORMED)
     \/ /\ offset + 2 <= End
        /\ LET kind   == data.bytes[offset + 1]
               length == data.bytes[offset + 2]
               value  == Number(kind, data.bytes[offset + 3])
           IN  IF TooLong(length) \/ Repeated(kind) \/ WrongLength(kind, length)
                 THEN Return(MALFORMED)
               ELSE IF kind \in DOMAIN Absent /\ Exceeds(kind, value) THEN Return(INTEGER_RANGE)
               ELSE /\ offset' = offset + 2 + length
                    /\ seen' = seen \union {kind}
                    /\ ext' = IF kind \in DOMAIN Absent THEN [ext EXCEPT ![kind] = value] ELSE ext
                    /\ vendor' = IF kind # Vendor THEN vendor
                                 ELSE Append(vendor, <<kind, SubSeq(data.bytes, offset + 3, offset + 2 + length)>>)
                    /\ UNCHANGED <<data, sent, result>>

\* The payload is the rest, to the byte.
WrongEnd == offset + data.payload_len # Len(data.bytes)

Finish ==
  /\ result = None
  /\ \/ BadHead /\ Return(MALFORMED)
     \/ /\ ~BadHead /\ ~(Extended /\ offset < End)
        /\ IF WrongEnd THEN Return(MALFORMED)
           ELSE IF data.seq > MaxSafe THEN Return(INTEGER_RANGE)
           ELSE Return(Frame(data.flags, data.seq, ext, vendor, SubSeq(data.bytes, offset + 1, Len(data.bytes))))

-----------------------------------------------------------------------------
(* What a frame is                                                         *)

FlagSets == SUBSET {"KEYFRAME", "RESYNC"}
Strings(n) == UNION {[1..k -> Byte] : k \in 0..n}

\* Anyone's bytes, few of them where no extension is looked at.
Anything ==
  {[flags |-> f, seq |-> s, payload_len |-> p, ext_len |-> None, bytes |-> b] :
     f \in FlagSets \union {{"HAS_EXTENSIONS"}}, s \in {1, 2}, p \in 0..MaxPayload, b \in Strings(2)}
  \union
  {[flags |-> {"KEYFRAME", "HAS_EXTENSIONS"}, seq |-> 1, payload_len |-> p, ext_len |-> e, bytes |-> b] :
     p \in 0..MaxPayload, e \in 0..MaxBytes, b \in Strings(MaxBytes)}

Extensions(tick, ts_sim_ns) == [kind \in DOMAIN Absent |-> IF kind = EXT_TICK THEN tick ELSE ts_sim_ns]

\* What the world and the client send.
Sendable ==
  {Frame(f, 1, Extensions(t, s), v, p) :
     f \in {g \in FlagSets : "RESYNC" \in g => "KEYFRAME" \in g},
     t \in {None, 0, 1}, s \in {None, -1, 0, 1},
     v \in {<<>>} \union {<< <<Vendor, b>> >> : b \in Strings(2)}, p \in Strings(MaxSent)}

\* The places where extensions start, if the extensions fill their part of the frame: each
\* one ends where the next one starts.
Starts(d) ==
  {P \in SUBSET (0..d.ext_len - 1) :
     /\ d.ext_len > 0 => 0 \in P
     /\ \A p \in P :
          /\ p + 2 <= d.ext_len
          /\ LET next == p + 2 + d.bytes[p + 2]
             IN  next \in P \union {d.ext_len} /\ \A q \in P : ~(p < q /\ q < next)}

WellFormed(d) ==
  /\ "RESYNC" \in d.flags => "KEYFRAME" \in d.flags
  /\ IF "HAS_EXTENSIONS" \notin d.flags THEN Len(d.bytes) = d.payload_len
     ELSE /\ d.ext_len # None /\ Len(d.bytes) = d.ext_len + d.payload_len
          /\ \E P \in Starts(d) : \A p \in P :
               /\ d.bytes[p + 1] \in DOMAIN Absent => d.bytes[p + 2] = RegisteredLen
               /\ \A q \in P \ {p} : d.bytes[q + 1] # d.bytes[p + 1]

\* The values of the registered extensions of a frame that is well formed.
Values(d, kind) ==
  IF "HAS_EXTENSIONS" \notin d.flags THEN {}
  ELSE {IF kind = EXT_TICK THEN d.bytes[p + 3] ELSE Signed(d.bytes[p + 3]) : p \in {q \in UNION Starts(d) : d.bytes[q + 1] = kind}}

InRange(d) ==
  /\ d.seq <= MaxSafe
  /\ \A v \in Values(d, EXT_TICK) : v <= MaxSafe
  /\ \A v \in Values(d, EXT_TS_SIM_NS) : -MaxSafe <= v /\ v <= MaxSafe

-----------------------------------------------------------------------------
Undecoded == offset = 0 /\ seen = {} /\ ext = Absent /\ vendor = <<>> /\ result = None

\* decode is called for bytes, which encode a frame or not; afterwards they are forgotten.
Begin(bytes, frame) ==
  /\ data' = bytes /\ sent' = frame
  /\ offset' = 0 /\ seen' = {} /\ ext' = Absent /\ vendor' = <<>> /\ result' = None

Forget == Begin(None, None)

Decoding == data # None /\ result = None

Decode == Decoding /\ (Extension \/ Finish)

-----------------------------------------------------------------------------
(* Properties                                                              *)

Accepted == data # None /\ result \notin {None, MALFORMED, INTEGER_RANGE}

\* Types; no extension is taken beyond its part of the frame.
CodecTypeOK ==
  data # None =>
    /\ offset \in 0..Len(data.bytes) /\ (Extended => offset <= End \/ BadHead)
    /\ seen \subseteq Byte /\ Len(vendor) <= 1

\* What is accepted is a frame, and the whole of it: with every extension that it has, every
\* integer in range, and the payload the rest. What is refused is none: the stream connection
\* is closed for a malformed frame and the session ended for an integer.
AcceptsFrames ==
  /\ Accepted =>
       /\ WellFormed(data) /\ InRange(data)
       /\ \A kind \in DOMAIN Absent :
            Values(data, kind) = IF result.ext[kind] = None THEN {} ELSE {result.ext[kind]}
       /\ Len(result.payload) = data.payload_len /\ IsSuffix(result.payload, data.bytes)
  /\ result = MALFORMED => ~WellFormed(data)
  /\ result = INTEGER_RANGE => ~(WellFormed(data) /\ InRange(data))

\* A frame arrives as it was sent; and inline as well, but for the extensions of vendors.
RoundTrip ==
  sent # None =>
    /\ result # None => result = sent
    /\ FromInline(ToInline(sent)) = [sent EXCEPT !.vendor = <<>>]
=============================================================================
