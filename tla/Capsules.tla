------------------------------ MODULE Capsules ------------------------------
(***************************************************************************)
(* The capsule decoder (maskman-protocol capsule/decoder.rs, varint.rs,    *)
(* datagram.rs) fed by the stream of a CONNECT-UDP request, as             *)
(* drive_proxy_stream() of request.rs feeds it: the bytes of the stream    *)
(* come in chunks of any size, each is pushed whole, then the capsules it  *)
(* completed are forwarded one by one.                                     *)
(*                                                                         *)
(* A byte is a number below 256.  The limits are those of the code, scaled *)
(* down.  `offered` is what was handed to the session's queue, which may   *)
(* drop it (UdpProxy).                                                     *)
(***************************************************************************)
EXTENDS Naturals, Sequences, SequencesExt, FiniteSets

CONSTANTS
    Streams,        \* what a client may send, to be cut off at any point
    ValueLimit,     \* MAX_CAPSULE_VALUE_BYTES
    UdpMaximum,     \* 65527, the most a UDP payload may have
    MaxPayload      \* proxy.udp.max_payload_bytes

(* validate.rs: the configuration allows no more than UDP does.              *)
ASSUME CapsuleLimits ==
    /\ Streams \subseteq Seq(0..255)
    /\ ValueLimit \in Nat /\ UdpMaximum \in Nat /\ MaxPayload \in 0..UdpMaximum

VARIABLES
    stream,         \* the bytes the client sends
    position,       \* how many of them have been decoded
    chunk,          \* how many of the current chunk are left
    decoder,        \* Decoder.state
    events,         \* what push() returns, as far as it is not forwarded
    returned,       \* every event of the stream so far
    offered,        \* every payload handed to try_send()
    outcome         \* "open", "finished" or the error that ended the stream

capsuleVars == <<stream, position, chunk, decoder, events, returned, offered, outcome>>

Known == 0..3       \* DATAGRAM, ADDRESS_ASSIGN, ADDRESS_REQUEST, ROUTE_ADVERTISEMENT

(* 1 << (first >> 6) *)
VarintLength(first) == <<1, 2, 4, 8>>[first \div 64 + 1]

(* Bytes as one number; the first two bits are those of the length.          *)
Number(bytes) ==
    LET digits == [bytes EXCEPT ![1] = @ % 64]
        value[k \in 0..Len(bytes)] == IF k = 0 THEN 0 ELSE value[k - 1] * 256 + digits[k]
    IN value[Len(bytes)]

(* varint::decode(): none when the bytes do not hold a whole number. *)
Decodes(bytes) == bytes # <<>> /\ Len(bytes) >= VarintLength(bytes[1])
Decode(bytes) ==
    LET length == VarintLength(bytes[1])
    IN [length |-> length, value |-> Number(SubSeq(bytes, 1, length))]
Beyond(bytes, length) == SubSeq(bytes, length + 1, Len(bytes))

Header(bytes) == [state |-> "header", bytes |-> bytes]
Empty == Header(<<>>)

(* ValueState::new(): the disposition of a value of this type and length. *)
Value(type, length) ==
    [state |-> "value", type |-> type, length |-> length, remaining |-> length, buffer |-> <<>>,
     disposition |-> IF type \notin Known THEN "unknown"
                     ELSE IF length > ValueLimit THEN "oversized" ELSE "buffer"]

(* finish_value(): the event of a value that is whole. *)
Event(value) ==
    IF value.disposition = "buffer"
    THEN [kind |-> "capsule", type |-> value.type, value |-> value.buffer]
    ELSE [kind |-> value.disposition, type |-> value.type, length |-> value.length]

CapsulesInit ==
    /\ stream \in Streams
    /\ position = 0 /\ chunk = 0
    /\ decoder = Empty
    /\ events = <<>> /\ returned = <<>> /\ offered = <<>>
    /\ outcome = "open"

Idle == outcome = "open" /\ chunk = 0 /\ events = <<>>

(* recv_data() returns some bytes of the stream. *)
Receive ==
    /\ Idle
    /\ chunk' \in 1..(Len(stream) - position)
    /\ UNCHANGED <<stream, position, decoder, events, returned, offered, outcome>>

Return(event) == events' = Append(events, event) /\ returned' = Append(returned, event)

(* Mutant: a capsule without a value waits for the next byte. *)
MutantHeaderDone(value) == decoder' = value /\ UNCHANGED <<events, returned>>

(* The header is whole; finish_empty_value() when no value follows. *)
HeaderDone(value) ==
    IF value.remaining = 0
    THEN decoder' = Empty /\ Return(Event(value))
    ELSE decoder' = value /\ UNCHANGED <<events, returned>>

(* One byte of a header, and complete(). *)
HeaderByte ==
    LET bytes == Append(decoder.bytes, stream[position + 1])
        type  == Decode(bytes)
        rest  == Beyond(bytes, type.length)
    IN /\ chunk > 0 /\ decoder.state = "header"
       /\ position' = position + 1 /\ chunk' = chunk - 1
       /\ IF Decodes(bytes) /\ Decodes(rest)
          THEN HeaderDone(Value(type.value, Decode(rest).value))
          ELSE decoder' = Header(bytes) /\ UNCHANGED <<events, returned>>
       /\ UNCHANGED <<stream, offered, outcome>>

(* As much of the value as the chunk has. *)
ValueBytes ==
    /\ chunk > 0 /\ decoder.state = "value"
    /\ LET consumed == IF decoder.remaining < chunk THEN decoder.remaining ELSE chunk
           input    == SubSeq(stream, position + 1, position + consumed)
           value    == [decoder EXCEPT !.remaining = @ - consumed,
                                       !.buffer = IF decoder.disposition = "buffer"
                                                  THEN @ \o input ELSE @]
       IN /\ position' = position + consumed /\ chunk' = chunk - consumed
          /\ IF value.remaining = 0
             THEN decoder' = Empty /\ Return(Event(value))
             ELSE decoder' = value /\ UNCHANGED <<events, returned>>
    /\ UNCHANGED <<stream, offered, outcome>>

IsDatagram(event) == event.kind = "capsule" /\ event.type = 0

(* forward_capsule(), of what one push() returned. *)
Forward ==
    /\ outcome = "open" /\ chunk = 0 /\ events # <<>>
    /\ events' = Tail(events)
    /\ LET event   == Head(events)
           context == Decode(event.value)
           payload == Beyond(event.value, context.length)
       IN CASE ~IsDatagram(event) -> UNCHANGED <<offered, outcome>>
            [] IsDatagram(event) /\ ~Decodes(event.value) ->
                  outcome' = "truncated" /\ UNCHANGED offered
            [] IsDatagram(event) /\ Decodes(event.value) ->
                  IF context.value = 0 /\ Len(payload) > UdpMaximum
                  THEN outcome' = "too large" /\ UNCHANGED offered
                  ELSE /\ UNCHANGED outcome
                       /\ offered' = IF context.value = 0 /\ Len(payload) <= MaxPayload
                                     THEN Append(offered, payload) ELSE offered
    /\ UNCHANGED <<stream, position, chunk, decoder, returned>>

(* The client finishes its side, wherever it is; finish(). *)
StreamEnds ==
    /\ Idle
    /\ outcome' = IF decoder = Empty THEN "finished" ELSE "truncated"
    /\ UNCHANGED <<stream, position, chunk, decoder, events, returned, offered>>

CapsulesNext == Receive \/ HeaderByte \/ ValueBytes \/ Forward \/ StreamEnds

----------------------------------------------------------------------------
(* The grammar of a stream: a capsule is a type, a length and that many      *)
(* bytes.                                                                    *)
AfterType(bytes) == Beyond(bytes, Decode(bytes).length)
HeaderIsWhole(bytes) == Decodes(bytes) /\ Decodes(AfterType(bytes))
TypeOf(bytes) == Decode(bytes).value
LengthOf(bytes) == Decode(AfterType(bytes)).value
Body(bytes) == Beyond(AfterType(bytes), Decode(AfterType(bytes)).length)
IsCapsule(bytes) == HeaderIsWhole(bytes) /\ Len(Body(bytes)) = LengthOf(bytes)

EventOf(bytes) ==
    LET skipped(kind) == [kind |-> kind, type |-> TypeOf(bytes), length |-> LengthOf(bytes)]
    IN IF TypeOf(bytes) \notin Known THEN skipped("unknown")
       ELSE IF LengthOf(bytes) > ValueLimit THEN skipped("oversized")
       ELSE [kind |-> "capsule", type |-> TypeOf(bytes), value |-> Body(bytes)]

(* The events of the capsules that are whole in the first n bytes, and where *)
(* the last of them ends.                                                    *)
WholeIn(bytes) ==
    LET whole[n \in 0..Len(bytes)] ==
            LET rest == SubSeq(bytes, whole[n - 1].ends + 1, n)
            IN IF n = 0 THEN [events |-> <<>>, ends |-> 0]
               ELSE IF IsCapsule(rest)
               THEN [events |-> Append(whole[n - 1].events, EventOf(rest)), ends |-> n]
               ELSE whole[n - 1]
    IN whole

(* The payloads the first k capsules carry for context 0, as far as the      *)
(* session takes them.                                                       *)
Carried(event) == Beyond(event.value, Decode(event.value).length)
Carries(event) ==
    /\ IsDatagram(event) /\ Decodes(event.value)
    /\ Decode(event.value).value = 0 /\ Len(Carried(event)) <= MaxPayload

PayloadsOf(capsules) ==
    LET payloads[k \in 0..Len(capsules)] ==
            IF k = 0 THEN <<>>
            ELSE IF Carries(capsules[k]) THEN Append(payloads[k - 1], Carried(capsules[k]))
            ELSE payloads[k - 1]
    IN payloads

(* However the stream is cut into chunks, the decoder has returned exactly   *)
(* the capsules that are whole in what it has read, in order, and the        *)
(* session was offered exactly the payloads of those forwarded; the stream   *)
(* ends well only between two capsules, and the header's sixteen bytes are   *)
(* never full when the next one comes (capsule/decoder.rs, request.rs).      *)
StreamDecodedAsWhole ==
    LET whole     == WholeIn(stream)[position]
        forwarded == Len(returned) - Len(events)
    IN /\ returned = whole.events
       /\ offered = PayloadsOf(whole.events)[forwarded]
       /\ outcome = "finished" => whole.ends = position /\ forwarded = Len(whole.events)
       /\ outcome = "truncated" /\ events = <<>> =>
              \/ whole.ends < position
              \/ \E i \in DOMAIN returned : IsDatagram(returned[i]) /\ ~Decodes(returned[i].value)
       /\ decoder.state = "header" => Len(decoder.bytes) < 16
       /\ decoder.state = "value" => /\ decoder.remaining > 0
                                     /\ Len(decoder.buffer) <= ValueLimit
=============================================================================
