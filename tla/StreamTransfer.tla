--------------------------- MODULE StreamTransfer ---------------------------
(***************************************************************************)
(* stream.hpp over an ordered channel: chunk_stream_bytes cuts a byte      *)
(* string into frames and hands them, one by one, to the send function     *)
(* (emit), which may refuse one; the receiver appends the frames to the    *)
(* StreamReceiveBuffer of their stream and clears it when it is finished.  *)
(* Several streams share the channel and their frames interleave.          *)
(***************************************************************************)
EXTENDS Wire

CONSTANTS Streams,   \* stream ids
          Payloads,  \* the byte strings that are sent
          MaxRounds  \* transfers of one stream id, a bound

VARIABLES sending,  \* stream -> [state, data, offset, round] of chunk_stream_bytes
          channel,  \* the ordered channel: encoded frames, in order
          buffer    \* stream -> [stream_id, finished, bytes]

streamVars == <<sending, channel, buffer>>

StreamFlagFin == 1
NoTransfer == [state |-> "idle", data |-> <<>>, offset |-> 0, round |-> 0]
Cleared == [stream_id |-> 0, finished |-> FALSE, bytes |-> <<>>]

StreamInit ==
    /\ sending = [s \in Streams |-> NoTransfer]
    /\ channel = <<>>
    /\ buffer = [s \in Streams |-> Cleared]

(* The id is used again once the previous transfer was taken.              *)
BeginStream(s, data) ==
    /\ sending[s].state \in {"idle", "taken"}
    /\ sending[s].round < MaxRounds
    /\ sending' = [sending EXCEPT ![s] =
            [state |-> "open", data |-> data, offset |-> 0, round |-> @.round + 1]]
    /\ UNCHANGED <<channel, buffer>>

chunk_len(t) == Min({max_stream_frame_payload, Len(t.data) - t.offset})

(* A loop that takes a full chunk for one that is not the last.            *)
LastByLength(t) == chunk_len(t) < max_stream_frame_payload

is_last(t) == t.offset + chunk_len(t) = Len(t.data)

(* One turn of the loop; an empty string is one empty frame.               *)
EmitChunk(s) ==
    LET t == sending[s]
    IN  /\ t.state = "open"
        /\ channel' = Append(channel, write_stream_frame(
                [stream_id |-> s,
                 flags |-> IF is_last(t) THEN StreamFlagFin ELSE 0,
                 data |-> SubSeq(t.data, t.offset + 1, t.offset + chunk_len(t))]))
        /\ sending' = [sending EXCEPT ![s].offset = @ + chunk_len(t),
                                      ![s].state = IF t.offset + chunk_len(t) = Len(t.data)
                                                   THEN "sent" ELSE "open"]
        /\ UNCHANGED buffer

(* emit() fails: chunk_stream_bytes returns with part of the stream sent.  *)
EmitFails(s) ==
    /\ sending[s].state = "open"
    /\ sending' = [sending EXCEPT ![s].state = "failed"]
    /\ UNCHANGED <<channel, buffer>>

(* StreamReceiveBuffer::append.                                            *)
Appended(b, frame) ==
    IF (b.stream_id # 0 /\ b.stream_id # frame.stream_id) \/ b.finished THEN b
    ELSE [stream_id |-> frame.stream_id,
          finished |-> frame.flags % 2 = StreamFlagFin,
          bytes |-> b.bytes \o frame.data]

ReceiveFrame ==
    LET frame == read_stream_frame(Head(channel))
        s == frame.out.stream_id
    IN  /\ channel # <<>>
        /\ frame.ok
        /\ buffer' = [buffer EXCEPT ![s] = Appended(@, frame.out)]
        /\ channel' = Tail(channel)
        /\ UNCHANGED sending

(* The application takes the bytes of a finished stream and clears it.     *)
Take(s) ==
    /\ buffer[s].finished
    /\ buffer' = [buffer EXCEPT ![s] = Cleared]
    /\ sending' = [sending EXCEPT ![s].state = "taken"]
    /\ UNCHANGED channel

StreamNext ==
    \/ \E s \in Streams :
        \/ \E data \in Payloads : BeginStream(s, data)
        \/ EmitChunk(s) \/ EmitFails(s) \/ Take(s)
    \/ ReceiveFrame

----------------------------------------------------------------------------
(* A receive buffer says finished exactly when it holds the whole byte     *)
(* string, and before that it holds a beginning of it: no chunk is lost,   *)
(* cut or repeated at a chunk boundary, frames of another stream or of an  *)
(* earlier transfer never get in, and a transfer that failed half way is   *)
(* never taken for a complete one.                                         *)
StreamIntact ==
    \A s \in Streams :
        LET t == sending[s]
        IN  /\ IsPrefix(buffer[s].bytes, t.data)
            /\ buffer[s].finished =>
                buffer[s].bytes = t.data /\ t.state = "sent"
            /\ t.state = "sent" /\ ~buffer[s].finished =>
                \E i \in DOMAIN channel : read_stream_frame(channel[i]).out.stream_id = s
============================================================================
