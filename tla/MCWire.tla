------------------------------- MODULE MCWire -------------------------------
(***************************************************************************)
(* The instance of FormatTransfer and StreamTransfer that TLC checks: one  *)
(* value of every format with its integers at the ends of their range, and *)
(* byte strings around the length limits; streams around the chunk limit.  *)
(* The two machines share no state and never run at the same time.         *)
(***************************************************************************)
EXTENDS FormatTransfer, StreamTransfer

Bytes(n, first) == [i \in 1..n |-> (first + 3 * i) % Base]
Lengths(limit) == {0, 1, limit, limit + 1}
Texts(limit) == {Bytes(n, 2) : n \in Lengths(limit)}

U64 == {0, 1, Base ^ 8 - 2}
U16 == {0, Base, U16Max}
Positive(S) == S \ {0}
Macs == {Bytes(MacBytes, b) : b \in {0, 5}}
Keys == {Bytes(KeyBytes, b) : b \in {1, 6}}
Nonces == {Bytes(NonceBytes, 4)}

RetryTokens == [issued_at_ms : U64, mac : Macs]
ResumptionTokens ==
    {t \in [issued_at_ms : {0, Base}, expires_at_ms : {Base + 1, Base ^ 8 - 1},
            ticket_id : Positive(U64), mac : Macs] : t.expires_at_ms > t.issued_at_ms}

Hellos ==
    {h \in [client_public_key : Keys, client_nonce : Nonces,
            retry_token : {Absent} \cup RetryTokens,
            resumption_token : {Absent} \cup ResumptionTokens] :
        Absent \in {h.retry_token, h.resumption_token}}

Answers ==
    [server_conn_id : Positive(U64), server_public_key : Keys, server_nonce : Nonces,
     transcript_mac : Macs, resumption_token : {Absent} \cup ResumptionTokens]

Messages(limit) ==
    [channel : {"Unreliable", "Control"}, type : {0, U8Max}, data : Texts(limit)]

Sends ==
    UNION {[channel : {c}, type : {FragmentType, U8Max}, message_id : Positive(U64),
            delivery_sequence : Positive(U64), data : Texts(max_inline_payload_size(c))]
             : c \in Channels \ {"Control"}}

Fragments ==
    UNION {{[message_id |-> id, delivery_sequence |-> seq, channel |-> c, type |-> 3,
             fragment_index |-> i, fragment_count |-> fragment_count_for_length(n),
             original_length |-> n, data |-> Bytes(fragment_size_for_index(n, i), 1)]
                : i \in 0..(fragment_count_for_length(n) - 1)}
             : n \in {1, MaxFragmentDataBytes, MaxFragmentDataBytes + 1, U16Max},
               id \in {1, Base ^ 8 - 1}, seq \in {0, Base},
               c \in {"Unreliable", "ReliableOrdered"}}

MCValues ==
    [f \in Formats |->
        CASE f = "Packet" ->
                [magic : {Magic}, version : {ProtocolVersion}, kind : {0, 4, 5},
                 flags : 0..2, conn_id : U64, seq : {Base ^ 8 - 1},
                 payload : Texts(MaxPayloadBytes)]
          [] f = "Messages" ->
                {<<>>} \cup {<<m>> : m \in Messages(MaxMessageBytes)}
                       \cup {<<m, n>> : m, n \in Messages(1)}
          [] f = "ClientHello" -> Hellos
          [] f = "Retry" -> RetryTokens
          [] f = "ServerHello" -> Answers
          [] f = "Close" -> [reason : 0..14]
          [] f = "Reliable" ->
                [message_id : U64, data : Texts(MaxReliableMessageBytes)]
          [] f = "Ordered" ->
                [delivery_sequence : U64, data : Texts(MaxOrderedMessageBytes)]
          [] f = "Sequenced" ->
                [delivery_sequence : U64, data : Texts(MaxSequencedMessageBytes)]
          [] f = "Ack" -> [channel : Channels, message_id : U64]
          [] f \in {"Fragment", "FragmentDatagram"} -> Fragments
          [] f = "StreamFrame" ->
                [stream_id : U16, flags : 0..1, data : Texts(max_stream_frame_payload)]
          [] f = "NatHint" ->
                {make_nat_peer_hint(e) : e \in
                    [family : {"IPv4"}, port : U16, address : {Bytes(AddressBytes4, 1)}]
                    \cup [family : {"IPv6"}, port : U16, address : {Bytes(AddressBytes, 1)}]}
          [] f = "NatPunch" -> [token : U64, issued_at_ms : U64]
          [] f = "Request" ->
                [kind : 1..3, request_id : U64, type : {0, U8Max}, data : Texts(U16Max)]
          [] f = "Record" ->
                [number : {-(U16Max + 1) \div 2, -1, 0, U16Max \div 2},
                 text : Texts(U16Max)]
          [] f = "Datagram" -> Sends]

MCHello == CHOOSE h \in Hellos : h.resumption_token # Absent
MCAnswer == CHOOSE a \in Answers : a.resumption_token # Absent

MCPayloads ==
    {Bytes(n, n) : n \in {0, 1, max_stream_frame_payload, max_stream_frame_payload + 1,
                          2 * max_stream_frame_payload}}

Init == FormatInit /\ StreamInit
Next == \/ StreamInit /\ FormatNext /\ UNCHANGED streamVars
        \/ phase = "idle" /\ StreamNext /\ UNCHANGED formatVars
Spec == Init /\ [][Next]_<<formatVars, streamVars>>
============================================================================
