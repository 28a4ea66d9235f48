------------------------------- MODULE Wire -------------------------------
(***************************************************************************)
(* The formats of securecnet's wire: what each write_* function puts into  *)
(* a buffer and what each read_* function takes out of one.  Writer and    *)
(* reader of a format are two separate functions of the code, and two      *)
(* separate definitions here.  A buffer is a sequence of bytes; a byte     *)
(* takes Base values instead of 256 and the fixed arrays (keys, nonces,    *)
(* MACs, addresses) are short, but every integer keeps its width in bytes. *)
(*                                                                         *)
(* A writer that checks its arguments has a Writable condition; a reader   *)
(* is a chain of ReadX steps over a cursor [ok, rest, out]: the bytes not  *)
(* yet read and the fields read so far.  A step that finds too few bytes,  *)
(* and a Check that is refused, make the cursor Failed for good.           *)
(***************************************************************************)
EXTENDS Integers, SequencesExt

CONSTANTS Base,           \* values of a byte
          KeyBytes,       \* KeyExchangePublicKeyBytes
          NonceBytes,     \* ClientNonceBytes, ServerNonceBytes
          MacBytes,       \* RetryTokenMacBytes, ResumptionTokenMacBytes, TranscriptMacBytes
          AddressBytes,   \* bytes of a NAT hint's address, those of an IPv6 address
          AddressBytes4,  \* the ones an IPv4 address uses
          AeadTagBytes,
          MaxPacketBytes,
          Magic,
          ProtocolVersion

----------------------------------------------------------------------------
(* Sizes.                                                                  *)

U8Max == Base - 1
U16Max == Base ^ 2 - 1
PacketHeaderBytes == 28
FragmentHeaderBytes == 24
MaxPayloadBytes == MaxPacketBytes - PacketHeaderBytes
MaxEncryptedPlaintextBytes == MaxPayloadBytes - AeadTagBytes
MaxMessageBytes == MaxEncryptedPlaintextBytes - 4
EnvelopeOneShort == MaxMessageBytes - 7  \* a message id counted as 7 bytes
MaxReliableMessageBytes == MaxMessageBytes - 8
MaxOrderedMessageBytes == MaxReliableMessageBytes - 8
MaxSequencedMessageBytes == MaxMessageBytes - 8
MaxFragmentDataBytes == MaxOrderedMessageBytes - FragmentHeaderBytes
StreamHeaderBytes == 5
max_stream_frame_payload == MaxOrderedMessageBytes - StreamHeaderBytes

ASSUME SizeAssumption ==
    /\ Base \in Nat /\ Base > 6
    /\ MaxFragmentDataBytes > 0 /\ MaxMessageBytes <= U16Max
    /\ AddressBytes4 < AddressBytes

Channels == {"Unreliable", "Reliable", "ReliableOrdered", "SequencedUnreliable",
             "Control"}
ChannelNumber == [Unreliable |-> 0, Reliable |-> 1, ReliableOrdered |-> 2,
                  SequencedUnreliable |-> 3, Control |-> 4]
ChannelOf(n) == CHOOSE c \in Channels : ChannelNumber[c] = n
channel_is_reliable(c) == c \in {"Reliable", "ReliableOrdered"}

AckType == 1
FragmentType == 2

max_inline_payload_size(c) ==
    CASE c = "Reliable" -> MaxReliableMessageBytes
      [] c = "ReliableOrdered" -> MaxOrderedMessageBytes
      [] c = "SequencedUnreliable" -> MaxSequencedMessageBytes
      [] OTHER -> MaxMessageBytes

----------------------------------------------------------------------------
(* ByteWriter and ByteReader: big-endian integers of w bytes, and bytes.   *)

(* The other byte order.                                                   *)
LittleEndian(n, w) == [i \in 1..w |-> (n \div Base ^ (i - 1)) % Base]

U(n, w) == [i \in 1..w |-> (n \div Base ^ (w - i)) % Base]

Number(bytes) == FoldLeft(LAMBDA n, b : n * Base + b, 0, bytes)

Start(bytes) == [ok |-> TRUE, rest |-> bytes, out |-> <<>>]
Failed == [ok |-> FALSE, rest |-> <<>>, out |-> <<>>]

ReadBytes(r, field, n) ==
    IF r.ok /\ Len(r.rest) >= n
    THEN [ok |-> TRUE, rest |-> SubSeq(r.rest, n + 1, Len(r.rest)),
          out |-> r.out @@ (field :> SubSeq(r.rest, 1, n))]
    ELSE Failed

ReadU(r, field, w) ==
    IF r.ok /\ Len(r.rest) >= w
    THEN [ok |-> TRUE, rest |-> SubSeq(r.rest, w + 1, Len(r.rest)),
          out |-> r.out @@ (field :> Number(SubSeq(r.rest, 1, w)))]
    ELSE Failed

Check(r, Holds(_)) == IF r.ok /\ Holds(r.out) THEN r ELSE Failed

(* remaining() = 0.                                                        *)
Ended(r) == IF r.ok /\ r.rest = <<>> THEN r ELSE Failed

(* peek_ptr() and skip() over all that remains.                            *)
ReadRest(r, field) == ReadBytes(r, field, Len(r.rest))

(* A length of w bytes and that many bytes.                                *)
ReadSized(r, field, w) ==
    IF r.ok /\ Len(r.rest) >= w
    THEN ReadBytes([r EXCEPT !.rest = SubSeq(@, w + 1, Len(@))], field,
                   Number(SubSeq(r.rest, 1, w)))
    ELSE Failed

Sized(bytes, w) == U(Len(bytes), w) \o bytes

(* A field that is a number on the wire and a name in the program.         *)
Named(r, field, Name(_)) ==
    IF r.ok THEN [r EXCEPT !.out = (field :> Name(r.out[field])) @@ @] ELSE r

(* A flag byte, and the value after it when the flag is 1.  A flag above 1 *)
(* is refused.  Absent is the empty record.                                *)
Absent == <<>>

Optional(v, Encode(_)) == IF v = Absent THEN U(0, 1) ELSE U(1, 1) \o Encode(v)

ReadOptional(r, field, Read(_)) ==
    IF ~r.ok \/ r.rest = <<>> \/ Head(r.rest) > 1 THEN Failed
    ELSE IF Head(r.rest) = 0
         THEN [r EXCEPT !.rest = Tail(@), !.out = @ @@ (field :> Absent)]
         ELSE LET token == Read(Start(Tail(r.rest)))
              IN  IF token.ok
                  THEN [token EXCEPT !.out = r.out @@ (field :> token.out)]
                  ELSE Failed

----------------------------------------------------------------------------
(* packet.cpp: the header and the payload of a datagram.  pack_packet      *)
(* accepts any version, parse_packet only its own.                         *)

validate_packet_header(h) ==
    /\ h.magic = Magic
    /\ h.kind <= 4
    /\ h.flags <= 1
    /\ Len(h.payload) <= MaxPayloadBytes

write_packet_header(h) ==
    U(h.magic, 4) \o U(h.version, 2) \o U(h.kind, 1) \o U(h.flags, 1)
        \o U(h.conn_id, 8) \o U(h.seq, 8) \o U(Len(h.payload), 4)

pack_packet(h) == write_packet_header(h) \o h.payload

read_packet_header(r) ==
    ReadU(ReadU(ReadU(ReadU(ReadU(ReadU(r, "magic", 4), "version", 2),
                            "kind", 1), "flags", 1), "conn_id", 8), "seq", 8)

parse_packet(bytes) ==
    Check(Ended(ReadSized(read_packet_header(Start(bytes)), "payload", 4)),
          LAMBDA h : validate_packet_header(h) /\ h.version = ProtocolVersion)

----------------------------------------------------------------------------
(* message.hpp: the frames in a Message packet, one after the other.       *)

MessageWritable(m) == m.channel \in Channels /\ Len(m.data) <= MaxMessageBytes

write_message(m) ==
    U(ChannelNumber[m.channel], 1) \o U(m.type, 1) \o Sized(m.data, 2)

read_message(r) ==
    LET frame == ReadSized(ReadU(ReadU(r, "channel", 1), "type", 1), "data", 2)
    IN  Named(Check(frame, LAMBDA m : m.channel <= 4), "channel", ChannelOf)

(* The receiver's loop: frames until the end of the payload.               *)
RECURSIVE ReadMessages(_, _)
ReadMessages(bytes, frames) ==
    IF bytes = <<>> THEN [ok |-> TRUE, rest |-> <<>>, out |-> frames]
    ELSE LET next == read_message(Start(bytes))
         IN  IF next.ok THEN ReadMessages(next.rest, Append(frames, next.out))
             ELSE Failed

----------------------------------------------------------------------------
(* protocol.hpp: tokens, handshake messages, the close frame.              *)

write_retry_token(t) == U(t.issued_at_ms, 8) \o t.mac

read_retry_token(r) == ReadBytes(ReadU(r, "issued_at_ms", 8), "mac", MacBytes)

write_resumption_token(t) ==
    U(t.issued_at_ms, 8) \o U(t.expires_at_ms, 8) \o U(t.ticket_id, 8) \o t.mac

read_resumption_token(r) ==
    Check(ReadBytes(ReadU(ReadU(ReadU(r, "issued_at_ms", 8), "expires_at_ms", 8),
                          "ticket_id", 8), "mac", MacBytes),
          LAMBDA t : t.ticket_id # 0 /\ t.expires_at_ms > t.issued_at_ms)

(* The type byte in front of a handshake message.                          *)
ReadType(bytes, type) ==
    IF bytes # <<>> /\ Head(bytes) = type THEN Start(Tail(bytes)) ELSE Failed

write_client_hello(h) ==
    U(1, 1) \o h.client_public_key \o h.client_nonce
        \o Optional(h.retry_token, write_retry_token)
        \o Optional(h.resumption_token, write_resumption_token)

(* A reader that leaves bytes unread.                                      *)
ClientHelloUnended(bytes) ==
    LET keys == ReadBytes(ReadBytes(ReadType(bytes, 1), "client_public_key", KeyBytes),
                          "client_nonce", NonceBytes)
    IN  ReadOptional(ReadOptional(keys, "retry_token", read_retry_token),
                     "resumption_token", read_resumption_token)

read_client_hello(bytes) ==
    LET keys == ReadBytes(ReadBytes(ReadType(bytes, 1), "client_public_key", KeyBytes),
                          "client_nonce", NonceBytes)
    IN  Ended(ReadOptional(ReadOptional(keys, "retry_token", read_retry_token),
                           "resumption_token", read_resumption_token))

write_retry(t) == U(2, 1) \o write_retry_token(t)

read_retry(bytes) == Ended(read_retry_token(ReadType(bytes, 2)))

write_server_hello(h) ==
    U(3, 1) \o U(h.server_conn_id, 8) \o h.server_public_key \o h.server_nonce
        \o h.transcript_mac \o Optional(h.resumption_token, write_resumption_token)

read_server_hello(bytes) ==
    LET keys == ReadBytes(ReadBytes(ReadU(ReadType(bytes, 3), "server_conn_id", 8),
                                    "server_public_key", KeyBytes),
                          "server_nonce", NonceBytes)
        hello == ReadOptional(ReadBytes(keys, "transcript_mac", MacBytes),
                              "resumption_token", read_resumption_token)
    IN  Ended(Check(hello, LAMBDA h : h.server_conn_id # 0))

(* A transcript that leaves out what the server offers for resumption.     *)
TranscriptWithoutOffer(h, s) ==
    U(ProtocolVersion, 2) \o h.client_public_key \o h.client_nonce
        \o Optional(h.retry_token, write_retry_token)
        \o Optional(h.resumption_token, write_resumption_token)
        \o U(s.server_conn_id, 8) \o s.server_public_key \o s.server_nonce

(* What the transcript MAC of the ServerHello is computed over, by the     *)
(* server from the hello it read and by the client from the one it sent.   *)
build_transcript_mac_input(h, s) ==
    U(ProtocolVersion, 2) \o h.client_public_key \o h.client_nonce
        \o Optional(h.retry_token, write_retry_token)
        \o Optional(h.resumption_token, write_resumption_token)
        \o U(s.server_conn_id, 8) \o s.server_public_key \o s.server_nonce
        \o Optional(s.resumption_token, write_resumption_token)

(* The reasons are numbered from 0, Normal, to 13, Backpressure.           *)
close_reason_valid(reason) == reason \in 0..13

write_close_frame(c) == U(c.reason, 2)

read_close_frame(bytes) ==
    Check(Ended(ReadU(Start(bytes), "reason", 2)),
          LAMBDA c : close_reason_valid(c.reason))

----------------------------------------------------------------------------
(* reliability.hpp: the envelopes and the acknowledgement.                 *)

ReliableWritable(p) == p.message_id # 0 /\ Len(p.data) <= MaxReliableMessageBytes
OrderedWritable(p) ==
    p.delivery_sequence # 0 /\ Len(p.data) <= MaxOrderedMessageBytes
SequencedWritable(p) ==
    p.delivery_sequence # 0 /\ Len(p.data) <= MaxSequencedMessageBytes

write_reliable_payload(p) == U(p.message_id, 8) \o p.data
write_ordered_payload(p) == U(p.delivery_sequence, 8) \o p.data
write_sequenced_payload(p) == U(p.delivery_sequence, 8) \o p.data

read_reliable_payload(bytes) ==
    Check(ReadRest(ReadU(Start(bytes), "message_id", 8), "data"),
          LAMBDA p : p.message_id # 0 /\ Len(p.data) <= U16Max)

read_ordered_payload(bytes) ==
    Check(ReadRest(ReadU(Start(bytes), "delivery_sequence", 8), "data"),
          LAMBDA p : p.delivery_sequence # 0 /\ Len(p.data) <= U16Max)

read_sequenced_payload(bytes) ==
    Check(ReadRest(ReadU(Start(bytes), "delivery_sequence", 8), "data"),
          LAMBDA p : p.delivery_sequence # 0 /\ Len(p.data) <= U16Max)

AckWritable(a) == channel_is_reliable(a.channel) /\ a.message_id # 0

write_reliable_ack(a) == U(ChannelNumber[a.channel], 1) \o U(a.message_id, 8)

read_reliable_ack(bytes) ==
    LET ack == ReadU(ReadU(Start(bytes), "channel", 1), "message_id", 8)
    IN  Named(Check(Ended(ack), LAMBDA a : a.channel \in {1, 2} /\ a.message_id # 0),
              "channel", ChannelOf)

----------------------------------------------------------------------------
(* fragmentation.hpp: one fragment of a message.                           *)

fragment_count_for_length(n) ==
    (n + MaxFragmentDataBytes - 1) \div MaxFragmentDataBytes

fragment_size_for_index(n, i) ==
    IF i >= fragment_count_for_length(n) THEN 0
    ELSE Min({n - i * MaxFragmentDataBytes, MaxFragmentDataBytes})

FragmentWritable(f) ==
    /\ f.message_id # 0 /\ f.original_length # 0
    /\ f.channel \in Channels \ {"Control"}
    /\ f.fragment_count = fragment_count_for_length(f.original_length)
    /\ f.fragment_index < f.fragment_count
    /\ Len(f.data) = fragment_size_for_index(f.original_length, f.fragment_index)

write_fragment_payload(f) ==
    U(f.message_id, 8) \o U(f.delivery_sequence, 8) \o U(ChannelNumber[f.channel], 1)
        \o U(f.type, 1) \o U(f.fragment_index, 2) \o U(f.fragment_count, 2)
        \o U(f.original_length, 2) \o f.data

read_fragment_payload(bytes) ==
    LET ids == ReadU(ReadU(ReadU(ReadU(Start(bytes), "message_id", 8),
                     "delivery_sequence", 8), "channel", 1), "type", 1)
        place == ReadU(ReadU(ReadU(ids, "fragment_index", 2), "fragment_count", 2),
                       "original_length", 2)
    IN  Named(Check(ReadRest(place, "data"),
                LAMBDA f :
                    /\ f.message_id # 0 /\ f.channel <= 3
                    /\ f.original_length # 0
                    /\ f.fragment_index < f.fragment_count
                    /\ f.fragment_count = fragment_count_for_length(f.original_length)
                    /\ Len(f.data) = fragment_size_for_index(f.original_length,
                                                             f.fragment_index)),
              "channel", ChannelOf)

----------------------------------------------------------------------------
(* stream.hpp, nat.hpp, request_reply.hpp, codec.hpp.                      *)

StreamFrameWritable(f) ==
    f.stream_id # 0 /\ Len(f.data) <= max_stream_frame_payload

write_stream_frame(f) == U(f.stream_id, 2) \o U(f.flags, 1) \o Sized(f.data, 2)

read_stream_frame(bytes) ==
    Check(Ended(ReadSized(ReadU(ReadU(Start(bytes), "stream_id", 2), "flags", 1),
                          "data", 2)), StreamFrameWritable)

FamilyNumber == [IPv4 |-> 4, IPv6 |-> 6]

NatHintWritable(h) == h.port # 0 /\ h.family \in {"IPv4", "IPv6"}

write_nat_peer_hint(h) ==
    U(FamilyNumber[h.family], 1) \o U(h.port, 2) \o h.address

read_nat_peer_hint(bytes) ==
    LET hint == ReadBytes(ReadU(ReadU(Start(bytes), "family", 1), "port", 2),
                          "address", AddressBytes)
    IN  Named(Check(Ended(hint), LAMBDA h : h.family \in {4, 6} /\ h.port # 0),
              "family", LAMBDA n : IF n = 4 THEN "IPv4" ELSE "IPv6")

(* An endpoint is its family, its port and as many address bytes as the    *)
(* family has; the hint pads an IPv4 address with zeros.                   *)
make_nat_peer_hint(e) ==
    [e EXCEPT !.address = [i \in 1..AddressBytes |->
                              IF i \in DOMAIN e.address THEN e.address[i] ELSE 0]]

endpoint_from_nat_peer_hint(h) ==
    [h EXCEPT !.address =
        SubSeq(@, 1, IF h.family = "IPv4" THEN AddressBytes4 ELSE AddressBytes)]

NatPunchWritable(p) == p.token # 0 /\ p.issued_at_ms # 0

write_nat_punch_frame(p) == U(p.token, 8) \o U(p.issued_at_ms, 8)

read_nat_punch_frame(bytes) ==
    Check(Ended(ReadU(ReadU(Start(bytes), "token", 8), "issued_at_ms", 8)),
          NatPunchWritable)

(* Kinds: 1 Request, 2 Response, 3 Error.                                  *)
RequestWritable(q) ==
    q.kind \in 1..3 /\ q.request_id # 0 /\ Len(q.data) <= U16Max

make_request_reply_frame(q) ==
    U(1, 1) \o U(q.kind, 1) \o U(q.request_id, 8) \o U(q.type, 1) \o Sized(q.data, 2)

read_request_reply_frame(bytes) ==
    Check(Ended(ReadSized(ReadU(ReadU(ReadU(ReadType(bytes, 1), "kind", 1),
                                      "request_id", 8), "type", 1), "data", 2)),
          RequestWritable)

(* BinaryWriter and BinaryReader, as an application uses them: a signed    *)
(* 16-bit integer, cast to unsigned and back, and a counted string.        *)
RecordWritable(a) == Len(a.text) <= U16Max

WriteRecord(a) == U(a.number % (U16Max + 1), 2) \o Sized(a.text, 2)

ReadRecord(bytes) ==
    Ended(ReadSized(Named(ReadU(Start(bytes), "number", 2), "number",
                          LAMBDA n : IF n > U16Max \div 2 THEN n - U16Max - 1 ELSE n),
                    "text", 2))

----------------------------------------------------------------------------
(* An application message or a fragment all the way down to the datagram:  *)
(* the envelope of its channel, the message frame, the AEAD's tag (the     *)
(* encryption itself is the identity here), the packet.                    *)

Envelope(v) ==
    CASE v.channel = "Reliable" ->
            write_reliable_payload([message_id |-> v.message_id, data |-> v.data])
      [] v.channel = "ReliableOrdered" ->
            write_reliable_payload(
                [message_id |-> v.message_id, data |-> write_ordered_payload(v)])
      [] v.channel = "SequencedUnreliable" -> write_sequenced_payload(v)
      [] OTHER -> v.data

EnvelopeWritable(v) ==
    CASE v.channel = "Reliable" -> ReliableWritable(v)
      [] v.channel = "ReliableOrdered" ->
            /\ OrderedWritable(v)
            /\ ReliableWritable([v EXCEPT !.data = write_ordered_payload(v)])
      [] v.channel = "SequencedUnreliable" -> SequencedWritable(v)
      [] OTHER -> TRUE

Frame(v) == [channel |-> v.channel, type |-> v.type, data |-> Envelope(v)]

(* send_fragmented: a fragment of a reliable message is a reliable message *)
(* itself, the others go out on the Control channel.                       *)
FragmentFrame(f) ==
    IF channel_is_reliable(f.channel)
    THEN [channel |-> f.channel, type |-> FragmentType,
          data |-> write_reliable_payload(
                     [message_id |-> f.message_id, data |-> write_fragment_payload(f)])]
    ELSE [channel |-> "Control", type |-> FragmentType,
          data |-> write_fragment_payload(f)]

Seal(bytes) == bytes \o [i \in 1..AeadTagBytes |-> 0]
Open(bytes) == SubSeq(bytes, 1, Len(bytes) - AeadTagBytes)

Packet(frame) ==
    [magic |-> Magic, version |-> ProtocolVersion, kind |-> 2, flags |-> 1,
     conn_id |-> 1, seq |-> 1, payload |-> Seal(write_message(frame))]

DatagramWritable(frame) ==
    MessageWritable(frame) /\ validate_packet_header(Packet(frame))

(* dispatch_message_frame, up to the hand-over: the message as the         *)
(* application gets it, or the fragment as the reassembler gets it.        *)
Handed(frame, data) == [channel |-> frame.channel, type |-> frame.type, data |-> data]

Dispatch(frame) ==
    LET envelope == IF channel_is_reliable(frame.channel)
                    THEN read_reliable_payload(frame.data) ELSE Start(frame.data)
        inner == IF channel_is_reliable(frame.channel) /\ envelope.ok
                 THEN envelope.out.data ELSE frame.data
        fragment == read_fragment_payload(inner)
        sequenced == IF frame.channel = "ReliableOrdered"
                     THEN read_ordered_payload(inner) ELSE read_sequenced_payload(inner)
    IN  CASE ~envelope.ok -> Failed
          [] frame.channel = "Control" ->
                IF frame.type = FragmentType THEN fragment
                ELSE IF frame.type = AckType THEN read_reliable_ack(frame.data) ELSE Failed
          [] channel_is_reliable(frame.channel) /\ frame.type = FragmentType
                                                /\ fragment.ok -> fragment
          [] frame.channel \in {"ReliableOrdered", "SequencedUnreliable"} ->
                IF sequenced.ok
                THEN [sequenced EXCEPT !.out = Handed(frame, sequenced.out.data)]
                ELSE Failed
          [] OTHER -> [Start(<<>>) EXCEPT !.out = Handed(frame, inner)]

Receive(bytes) ==
    LET packet == parse_packet(bytes)
        frames == ReadMessages(Open(packet.out.payload), <<>>)
    IN  IF packet.ok /\ frames.ok THEN Dispatch(frames.out[1]) ELSE Failed
============================================================================
