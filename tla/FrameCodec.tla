----------------------------- MODULE FrameCodec -----------------------------
(***************************************************************************)
(* Framing (rukkit-protocol, codec.rs): an encoder, a byte                 *)
(* stream that arrives in pieces of any size, and a decoder.  Both ends    *)
(* turn compression and encryption on at the packet that announces it.     *)
(* zlib and AES are external: zlib maps every body to a stream that ends   *)
(* where it says and gives back that body alone, and the cipher mixes each *)
(* byte with the cipher byte before it.                                    *)
(***************************************************************************)
EXTENDS Varint

CONSTANTS
    MaxFrame,         \* MAX_FRAME_LEN
    Threshold,        \* the negotiated compression threshold
    Bodies,           \* packet bodies, as sequences of bytes
    Zip,              \* external: the zlib stream of each body
    SetCompression,   \* the packet that announces compression
    EncryptionReply,  \* the packet that announces encryption
    Secret,           \* external: the cipher's initial register
    Malformed,        \* byte strings no encoder writes, compression off
    MalformedZip,     \* the same, compression on
    MaxPackets        \* bound: packets in a behaviour

Begins(bytes, front) == Len(front) <= Len(bytes) /\ SubSeq(bytes, 1, Len(front)) = front

ASSUME FrameCodecAssumption ==
    /\ MaxFrame \in 1 .. 2^(Width - 1) - 1
    /\ Threshold \in Nat
    /\ \A p \in Bodies : p \in Seq(Byte) /\ Zip[p] \in Seq(Byte)
    \* A body is no longer than a length can say, in the code 2 GiB.
    /\ \A p \in Bodies : Len(p) + 1 < 2^(Width - 1)
    \* "`packet` must already contain the VarInt packet id": where everything is
    \* compressed an empty body would be written as one that is not.
    /\ Threshold = 0 => <<>> \notin Bodies
    \* A zlib stream tells where it ends: none is the beginning of another.
    /\ \A p, q \in Bodies : Begins(Zip[p], Zip[q]) => p = q
    /\ {SetCompression, EncryptionReply} \subseteq Bodies
    /\ Secret \in Byte

VARIABLES
    sent, delivered,   \* packets handed to the encoder, and out of the decoder
    stream,            \* bytes on their way
    buffer,            \* Decoder.buffer
    encoder, decoder,  \* each end's compression switch and cipher register
    done,              \* the sender writes no more: "no", "refused" or "malformed"
    fault              \* the decoder has returned an error

vars == <<sent, delivered, stream, buffer, encoder, decoder, done, fault>>

Clear == -1   \* no cipher: outside Byte

-----------------------------------------------------------------------------
(* The cipher: each end's register follows the bytes on the wire.          *)

Enciphered(bytes, register) ==
    LET code[n \in 0 .. Len(bytes)] ==
            IF n = 0 THEN register ELSE (bytes[n] + code[n - 1]) % (2 * Base)
    IN  IF register = Clear THEN bytes ELSE [n \in 1 .. Len(bytes) |-> code[n]]

Deciphered(bytes, register) ==
    IF register = Clear THEN bytes
    ELSE [n \in 1 .. Len(bytes) |->
             (bytes[n] - (IF n = 1 THEN register ELSE bytes[n - 1])) % (2 * Base)]

\* The register after `wire` has gone by.
After(wire, register) ==
    IF register = Clear \/ wire = <<>> THEN register ELSE wire[Len(wire)]

-----------------------------------------------------------------------------
(* Encoder::encode.                                                        *)

Zipped(p) == WriteVarint(Len(p)) \o Zip[p]

\* The frame of a body; the encoder checks its size in two of the three cases.
Frame(p) ==
    CASE ~encoder.compressing -> WriteVarint(Len(p)) \o p
      [] encoder.compressing /\ Len(p) < Threshold ->
             WriteVarint(1 + Len(p)) \o WriteVarint(0) \o p
      [] encoder.compressing /\ Len(p) >= Threshold ->
             WriteVarint(VarintLen(Len(p)) + Len(Zip[p])) \o Zipped(p)

Refused(p) ==
    \/ ~encoder.compressing /\ Len(p) > MaxFrame
    \/ /\ encoder.compressing /\ Len(p) >= Threshold
       /\ VarintLen(Len(p)) + Len(Zip[p]) > MaxFrame

Transmit(bytes) == stream' = stream \o Enciphered(bytes, encoder.register)

\* The sender waits for the other end to have read its encryption reply.
Waiting == encoder.register # Clear /\ decoder.register = Clear

\* Mutated: the switch is thrown before the packet that announces it.
EncodeSwitchedEarly(p) ==
    /\ done = "no" /\ Len(sent) < MaxPackets /\ ~Waiting
    /\ p = SetCompression => ~encoder.compressing
    /\ p = EncryptionReply => encoder.register = Clear
    /\ ~Refused(p)
    /\ stream' = stream \o Enciphered(
                     IF p = SetCompression THEN WriteVarint(1 + Len(p)) \o WriteVarint(0) \o p
                     ELSE Frame(p), encoder.register)
    /\ sent' = Append(sent, p)
    /\ LET wire == Enciphered(Frame(p), encoder.register)
       IN  encoder' = [compressing |-> encoder.compressing \/ p = SetCompression,
                       register    |-> IF p = EncryptionReply THEN Secret
                                       ELSE After(wire, encoder.register)]
    /\ UNCHANGED <<delivered, buffer, decoder, done, fault>>

\* A packet is written and, if it announces a switch, the switch is thrown.
Encode(p) ==
    /\ done = "no" /\ Len(sent) < MaxPackets /\ ~Waiting
    /\ p = SetCompression => ~encoder.compressing
    /\ p = EncryptionReply => encoder.register = Clear
    /\ ~Refused(p)
    /\ Transmit(Frame(p))
    /\ sent' = Append(sent, p)
    /\ LET wire == Enciphered(Frame(p), encoder.register)
       IN  encoder' = [compressing |-> encoder.compressing \/ p = SetCompression,
                       register    |-> IF p = EncryptionReply THEN Secret
                                       ELSE After(wire, encoder.register)]
    /\ UNCHANGED <<delivered, buffer, decoder, done, fault>>

\* FrameTooLarge: nothing is written, and the sender gives up.
EncodeFails(p) ==
    /\ done = "no" /\ Refused(p) /\ ~Waiting
    /\ done' = "refused"
    /\ UNCHANGED <<sent, delivered, stream, buffer, encoder, decoder, fault>>

\* A peer that breaks the protocol.
EncodeMalformed(bytes) ==
    /\ done = "no" /\ ~Waiting
    /\ Transmit(bytes)
    /\ done' = "malformed"
    /\ UNCHANGED <<sent, delivered, buffer, encoder, decoder, fault>>

-----------------------------------------------------------------------------
(* Decoder::decode.                                                        *)

NoPacket == <<-1>>   \* no body is this

Answer(kind, body, used) == [kind |-> kind, body |-> body, used |-> used]

More == Answer("more", NoPacket, 0)
Fails == Answer("error", NoPacket, 0)

\* decompress_exact: the stream must be of a body of exactly the declared size.  It
\* stops at the stream's end, whatever bytes of the frame are behind that.
Inflated(bytes, size) ==
    IF \E p \in Bodies : Begins(bytes, Zip[p]) /\ Len(p) = size
    THEN Answer("packet", CHOOSE p \in Bodies : Begins(bytes, Zip[p]), 0)
    ELSE Fails

\* A whole frame, compression on.
Opened(frame) ==
    LET size == ReadVarint(frame)
        body == SubSeq(frame, size.used + 1, Len(frame))
    IN  CASE size.kind # "ok" -> Fails
          [] size.kind = "ok" /\ size.value = 0 -> Answer("packet", body, 0)
          [] size.kind = "ok" /\ size.value < Threshold /\ size.value # 0 -> Fails
          [] size.kind = "ok" /\ size.value > MaxFrame -> Fails
          [] size.kind = "ok" /\ size.value \in Threshold .. MaxFrame /\ size.value # 0 ->
                 Inflated(body, size.value)

\* Mutated: the size of a frame is checked once the frame is there.
DecodedLate(bytes, compressing) ==
    LET header == ReadVarint(bytes)
        total == header.used + header.value
    IN  CASE header.kind = "eof" -> More
          [] header.kind = "too_long" -> Fails
          [] header.kind = "ok" /\ header.value < 0 -> Fails
          [] header.kind = "ok" /\ header.value >= 0 /\ Len(bytes) < total -> More
          [] header.kind = "ok" /\ header.value >= 0 /\ Len(bytes) >= total ->
                 LET frame == SubSeq(bytes, header.used + 1, total)
                     inner == Opened(frame)
                 IN  IF header.value > MaxFrame THEN Fails
                     ELSE IF compressing THEN [inner EXCEPT !.used = total]
                     ELSE Answer("packet", frame, total)

\* What decode answers to a buffer, and how many bytes it takes from it.
Decoded(bytes, compressing) ==
    LET header == ReadVarint(bytes)
        total == header.used + header.value
    IN  CASE header.kind = "eof" -> More
          [] header.kind = "too_long" -> Fails
          [] header.kind = "ok" /\ ~ header.value \in 0 .. MaxFrame -> Fails
          [] header.kind = "ok" /\ header.value \in 0 .. MaxFrame /\ Len(bytes) < total -> More
          [] header.kind = "ok" /\ header.value \in 0 .. MaxFrame /\ Len(bytes) >= total ->
                 LET frame == SubSeq(bytes, header.used + 1, total)
                     inner == Opened(frame)
                 IN  IF compressing THEN [inner EXCEPT !.used = total]
                     ELSE Answer("packet", frame, total)

\* What the environment sends that breaks the protocol does so for the decoder
\* too: none of it, or of what comes before, is a packet.
ASSUME MalformedAssumption ==
    /\ \A bytes \in Malformed :
          /\ bytes \in Seq(Byte)
          /\ \A n \in 0 .. Len(bytes) : Decoded(SubSeq(bytes, 1, n), FALSE).kind # "packet"
    /\ \A bytes \in MalformedZip :
          /\ bytes \in Seq(Byte)
          /\ \A n \in 0 .. Len(bytes) : Decoded(SubSeq(bytes, 1, n), TRUE).kind # "packet"

\* The answer to what is buffered now.
Answered == Decoded(buffer, decoder.compressing)

Decode ==
    LET answer == Answered
    IN  /\ ~fault /\ answer.kind = "packet"
        /\ delivered' = Append(delivered, answer.body)
        /\ buffer' = SubSeq(buffer, answer.used + 1, Len(buffer))
        /\ decoder' = [compressing |-> decoder.compressing \/ answer.body = SetCompression,
                       register    |-> IF answer.body = EncryptionReply THEN Secret
                                       ELSE decoder.register]
        /\ UNCHANGED <<sent, stream, encoder, done, fault>>

DecodeFails ==
    /\ ~fault /\ Answered.kind = "error"
    /\ fault' = TRUE
    /\ UNCHANGED <<sent, delivered, stream, buffer, encoder, decoder, done>>

\* Mutated: the cipher's register does not move on.
FeedRestarting(n) ==
    /\ ~fault /\ Answered.kind = "more"
    /\ LET piece == SubSeq(stream, 1, n)
       IN  /\ buffer' = buffer \o Deciphered(piece, decoder.register)
           /\ decoder' = decoder
    /\ stream' = SubSeq(stream, n + 1, Len(stream))
    /\ UNCHANGED <<sent, delivered, encoder, done, fault>>

\* Decoder::feed, with the bytes of one read: read_packet reads only when decode
\* has asked for more.
Feed(n) ==
    /\ ~fault /\ Answered.kind = "more"
    /\ LET piece == SubSeq(stream, 1, n)
       IN  /\ buffer' = buffer \o Deciphered(piece, decoder.register)
           /\ decoder' = [decoder EXCEPT !.register = After(piece, decoder.register)]
    /\ stream' = SubSeq(stream, n + 1, Len(stream))
    /\ UNCHANGED <<sent, delivered, encoder, done, fault>>

-----------------------------------------------------------------------------

Init ==
    /\ sent = <<>> /\ delivered = <<>> /\ stream = <<>> /\ buffer = <<>>
    /\ encoder = [compressing |-> FALSE, register |-> Clear]
    /\ decoder = encoder
    /\ done = "no"
    /\ fault = FALSE

Sender ==
    \/ \E p \in Bodies : Encode(p) \/ EncodeFails(p)
    \/ \E bytes \in IF encoder.compressing THEN MalformedZip ELSE Malformed : EncodeMalformed(bytes)

Receiver ==
    \/ Decode \/ DecodeFails
    \/ \E n \in 1 .. Len(stream) : Feed(n)

Next == Sender \/ Receiver

\* The receiving task decodes what it has and reads what has arrived.
Spec == Init /\ [][Next]_vars /\ WF_vars(Receiver)

-----------------------------------------------------------------------------
(* Properties.                                                             *)

Ends == [compressing : BOOLEAN, register : Byte \cup {Clear}]

TypeOK ==
    /\ sent \in Seq(Bodies) /\ delivered \in Seq(Bodies)
    /\ stream \in Seq(Byte) /\ buffer \in Seq(Byte)
    /\ encoder \in Ends /\ decoder \in Ends
    /\ done \in {"no", "refused", "malformed"}
    /\ fault \in BOOLEAN

\* varint.rs: what is written is as long as varint_len says, within the bytes a
\* reader accepts, and read back as it was, negative values included, whatever
\* comes after it; a part of it is never taken for a number.
VarintExact ==
    \A v \in Unsigned :
        LET bytes == WriteVarint(v)
        IN  /\ Len(bytes) = VarintLen(v) /\ Len(bytes) <= MaxVarintBytes
            /\ ReadVarint(bytes \o buffer) = [kind |-> "ok", value |-> Signed(v), used |-> Len(bytes)]
            /\ \A n \in 0 .. Len(bytes) - 1 : ReadVarint(SubSeq(bytes, 1, n)) = Incomplete

Queue == INSTANCE PacketQueue

\* However the stream is cut into reads, and across both switches, the decoder
\* gives out the packets the encoder took, whole and in order.
Fifo == Queue!Spec

\* The decoder fails only on what breaks the protocol, or on a packet beyond the
\* frame limit that the encoder let pass: compressed to less, or below a
\* threshold that is itself beyond the limit, where one byte more is written.
FaultsExplained ==
    fault =>
        \/ done = "malformed"
        \/ \E n \in DOMAIN sent :
              \/ Len(sent[n]) > MaxFrame
              \/ Len(sent[n]) = MaxFrame /\ MaxFrame < Threshold

\* codec.rs, MAX_FRAME_LEN: "Hard cap on a single frame".  A decoder that asks
\* for more bytes holds less than one whole frame of the largest size: what it
\* buffers for a peer is bounded.
BufferBounded == Answered.kind = "more" => Len(buffer) < MaxVarintBytes + MaxFrame

\* Every packet written is delivered, and malformed bytes are refused: the
\* decoder never waits for bytes that are not coming.
Drains == [](Len(sent) > 0 \/ done = "malformed" =>
                 <>(fault \/ (delivered = sent /\ done # "malformed")))
=============================================================================
