--------------------------- MODULE FormatTransfer ---------------------------
(***************************************************************************)
(* One value written by one end, carried as bytes, and read by the other.  *)
(* A datagram that is not encrypted can arrive cut short, with a byte too  *)
(* many or with one byte changed.                                          *)
(***************************************************************************)
EXTENDS Wire

CONSTANTS Values,        \* format -> the values an end tries to write
          AlteredBytes,  \* what a changed or an added byte may become
          Hello, Answer  \* a ClientHello and a ServerHello of one handshake

Handshakes == {"ClientHello", "Retry", "ServerHello"}
Datagrams == {"Datagram", "FragmentDatagram"}
Formats == Handshakes \cup Datagrams \cup
    {"Packet", "Messages", "Close", "Reliable", "Ordered", "Sequenced", "Ack",
     "Fragment", "StreamFrame", "NatHint", "NatPunch", "Request", "Record"}

VARIABLES phase,   \* "idle", "written", "refused", "altered", "read"
          format,  \* the format of the value
          value,
          wire,    \* the bytes under way
          got      \* what the reader returned

formatVars == <<phase, format, value, wire, got>>

Writable(f, v) ==
    CASE f = "Packet" -> validate_packet_header(v)
      [] f = "Messages" -> \A i \in DOMAIN v : MessageWritable(v[i])
      [] f = "Close" -> close_reason_valid(v.reason)
      [] f = "Reliable" -> ReliableWritable(v)
      [] f = "Ordered" -> OrderedWritable(v)
      [] f = "Sequenced" -> SequencedWritable(v)
      [] f = "Ack" -> AckWritable(v)
      [] f = "Fragment" -> FragmentWritable(v)
      [] f = "StreamFrame" -> StreamFrameWritable(v)
      [] f = "NatHint" -> NatHintWritable(v)
      [] f = "NatPunch" -> NatPunchWritable(v)
      [] f = "Request" -> RequestWritable(v)
      [] f = "Record" -> RecordWritable(v)
      [] f = "Datagram" -> EnvelopeWritable(v) /\ DatagramWritable(Frame(v))
      [] f = "FragmentDatagram" ->
            /\ FragmentWritable(v)
            /\ Len(write_fragment_payload(v)) <= MaxReliableMessageBytes
            /\ DatagramWritable(FragmentFrame(v))
      [] OTHER -> TRUE

Written(f, v) ==
    CASE f = "Packet" -> pack_packet(v)
      [] f = "Messages" -> FlattenSeq([i \in DOMAIN v |-> write_message(v[i])])
      [] f = "ClientHello" -> write_client_hello(v)
      [] f = "Retry" -> write_retry(v)
      [] f = "ServerHello" -> write_server_hello(v)
      [] f = "Close" -> write_close_frame(v)
      [] f = "Reliable" -> write_reliable_payload(v)
      [] f = "Ordered" -> write_ordered_payload(v)
      [] f = "Sequenced" -> write_sequenced_payload(v)
      [] f = "Ack" -> write_reliable_ack(v)
      [] f = "Fragment" -> write_fragment_payload(v)
      [] f = "StreamFrame" -> write_stream_frame(v)
      [] f = "NatHint" -> write_nat_peer_hint(v)
      [] f = "NatPunch" -> write_nat_punch_frame(v)
      [] f = "Request" -> make_request_reply_frame(v)
      [] f = "Record" -> WriteRecord(v)
      [] f = "Datagram" -> pack_packet(Packet(Frame(v)))
      [] f = "FragmentDatagram" -> pack_packet(Packet(FragmentFrame(v)))

Read(f, bytes) ==
    CASE f = "Packet" -> parse_packet(bytes)
      [] f = "Messages" -> ReadMessages(bytes, <<>>)
      [] f = "ClientHello" -> read_client_hello(bytes)
      [] f = "Retry" -> read_retry(bytes)
      [] f = "ServerHello" -> read_server_hello(bytes)
      [] f = "Close" -> read_close_frame(bytes)
      [] f = "Reliable" -> read_reliable_payload(bytes)
      [] f = "Ordered" -> read_ordered_payload(bytes)
      [] f = "Sequenced" -> read_sequenced_payload(bytes)
      [] f = "Ack" -> read_reliable_ack(bytes)
      [] f = "Fragment" -> read_fragment_payload(bytes)
      [] f = "StreamFrame" -> read_stream_frame(bytes)
      [] f = "NatHint" -> read_nat_peer_hint(bytes)
      [] f = "NatPunch" -> read_nat_punch_frame(bytes)
      [] f = "Request" -> read_request_reply_frame(bytes)
      [] f = "Record" -> ReadRecord(bytes)
      [] f \in Datagrams -> Receive(bytes)

FormatInit ==
    /\ phase = "idle" /\ format = "Retry"
    /\ value = Absent /\ wire = <<>> /\ got = Failed

Write(f) ==
    /\ phase = "idle"
    /\ format' = f
    /\ \E v \in Values[f] :
        /\ value' = v
        /\ \/ Writable(f, v) /\ phase' = "written" /\ wire' = Written(f, v)
           \/ ~Writable(f, v) /\ phase' = "refused" /\ UNCHANGED wire
    /\ UNCHANGED got

(* What is inside the AEAD arrives as it was sent or not at all.           *)
Alter ==
    /\ phase = "written" /\ format \notin Datagrams
    /\ phase' = "altered"
    /\ \/ \E n \in 0..(Len(wire) - 1) : wire' = SubSeq(wire, 1, n)
       \/ \E b \in AlteredBytes : wire' = Append(wire, b)
       \/ \E i \in DOMAIN wire, b \in AlteredBytes : wire' = [wire EXCEPT ![i] = b]
    /\ UNCHANGED <<format, value, got>>

ReadBack ==
    /\ phase \in {"written", "altered"}
    /\ got' = Read(format, wire)
    /\ phase' = "read"
    /\ UNCHANGED <<format, value, wire>>

FormatNext == (\E f \in Formats : Write(f)) \/ Alter \/ ReadBack

----------------------------------------------------------------------------
Intact == phase = "read" /\ Writable(format, value) /\ wire = Written(format, value)

(* What the reader should return for the value.                            *)
Expected ==
    IF format = "Datagram" THEN Handed(value, value.data) ELSE value

(* Every reader of the library undoes its writer: a value that a write     *)
(* function accepted, in every format from the packet header down to the   *)
(* application's records, reads back as the same value, also through the   *)
(* four layers of a datagram; a NAT hint gives back the endpoint it was    *)
(* made of; and a handshake message is refused by the readers of the other *)
(* two.                                                                    *)
RoundTrip ==
    Intact =>
        /\ got.ok /\ got.out = Expected
        /\ format = "NatHint" =>
            make_nat_peer_hint(endpoint_from_nat_peer_hint(got.out)) = value
        /\ format \in Handshakes =>
            \A g \in Handshakes \ {format} : ~Read(g, wire).ok

(* Decoding is strict: bytes that a reader accepts, damaged ones included, *)
(* are exactly what the writer would have produced for the value it        *)
(* returned.  No reader skips bytes, takes two encodings for one value, or *)
(* accepts a shortened frame as another one.                               *)
Canonical ==
    phase = "read" /\ got.ok /\ format \notin Datagrams =>
        wire = Written(format, got.out)

(* The sizes agree through the layers: an application payload that fits    *)
(* max_inline_payload_size of its channel, and every fragment              *)
(* send_fragmented cuts, is refused by no layer below, and the datagram is *)
(* no longer than MaxPacketBytes.                                          *)
InlineFits ==
    /\ format = "Datagram" /\ Len(value.data) <= max_inline_payload_size(value.channel)
        => phase # "refused"
    /\ format = "FragmentDatagram" => phase # "refused"
    /\ format \in Datagrams => Len(wire) <= MaxPacketBytes

(* A hello that was changed on the way and is still readable never passes  *)
(* for the original: the transcript the two ends compute the MAC over      *)
(* differs, unless what changed is the MAC itself.                         *)
TranscriptBinds ==
    phase = "read" /\ got.ok /\ wire # Written(format, value) =>
        /\ format = "ClientHello" =>
            build_transcript_mac_input(got.out, Answer)
                # build_transcript_mac_input(value, Answer)
        /\ format = "ServerHello" /\ got.out.transcript_mac = value.transcript_mac =>
            build_transcript_mac_input(Hello, got.out)
                # build_transcript_mac_input(Hello, value)
============================================================================
