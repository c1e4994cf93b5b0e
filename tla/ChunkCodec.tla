----------------------------- MODULE ChunkCodec -----------------------------
(***************************************************************************)
(* Encoder and decoder of chunks (src/protocol/chunk.rs) as functions.     *)
(* Payloads are sequences of words of four bytes; an extended timestamp is *)
(* one word, too.  A chunk is a record of what the encoder writes; Units   *)
(* lays it out as the decoder meets it in its buffer: header, extended     *)
(* timestamp if there is one, words.  The decoder consumes nothing before  *)
(* a chunk is complete, so a header that has arrived in part is one that   *)
(* has not arrived.                                                        *)
(***************************************************************************)
EXTENDS Integers, Sequences

CONSTANTS
    TimeModulus,        \* timestamps are u32: 2^32
    Threshold,          \* EXTENDED_TIMESTAMP_THRESHOLD, the largest u24
    MaxChunkSize        \* MAX_CHUNK_SIZE

ASSUME CodecAssumption ==
    /\ Threshold \in Nat \ {0}
    /\ TimeModulus \in Nat /\ Threshold < TimeModulus
    /\ MaxChunkSize \in Nat \ {0}

AtMost(a, b) == IF a <= b THEN a ELSE b

WrappingAdd(a, b) == (a + b) % TimeModulus
WrappingSub(a, b) == (a - b) % TimeModulus

(* write_u24 keeps the low 24 bits.                                        *)
U24(value) == value % (Threshold + 1)

(* A slip: no limit.                                                       *)
ChunkSizeUnlimited(size) == size

(* set_chunk_size of both sides.                                           *)
ChunkSize(size) == AtMost(size, MaxChunkSize)

(* ChunkStreamState, which encoder and decoder both keep for a chunk       *)
(* stream.                                                                 *)
Fresh == [timestamp |-> 0, timestamp_delta |-> 0, message_length |-> 0, message_type |-> 0,
          stream_id |-> 0, has_extended_timestamp |-> FALSE,
          partial_message |-> << >>, expected_length |-> 0]

----------------------------------------------------------------------------
(* Basic header: the bytes of a format and a chunk stream id, and back.    *)

(* The ids that have a basic header, of one to three bytes.                *)
IsCsid(csid) == csid \in Int /\ 2 <= csid /\ csid <= 65599

BasicHeader(fmt, csid) ==
    IF csid >= 64 + 256
    THEN << fmt * 64 + 1, (csid - 64) % 256, (csid - 64) \div 256 >>
    ELSE IF csid >= 64 THEN << fmt * 64, (csid - 64) % 256 >>
    ELSE << fmt * 64 + csid >>

Fmt(basic) == basic[1] \div 64

Csid(basic) ==
    LET low == basic[1] % 64
    IN  IF low = 0 THEN 64 + basic[2]
        ELSE IF low = 1 THEN 64 + basic[2] + basic[3] * 256
        ELSE low

BasicHeaderLength(basic) ==
    LET low == basic[1] % 64 IN IF low = 0 THEN 2 ELSE IF low = 1 THEN 3 ELSE 1

----------------------------------------------------------------------------
(* Encoder.                                                                *)

NeedsExtended(m) == m.timestamp >= Threshold

Delta(m, s) == WrappingSub(m.timestamp, s.timestamp)

(* select_format: the shortest header that tells m from the last message.  *)
SelectFormat(m, s) ==
    IF (s.message_type = 0 /\ s.stream_id = 0) \/ m.stream_id # s.stream_id THEN 0
    ELSE IF m.message_type # s.message_type \/ Len(m.payload) # s.message_length THEN 1
    ELSE IF Delta(m, s) = s.timestamp_delta THEN 3
    ELSE 2

(* The fields of a message header; those a format leaves out are zero.     *)
Header(m, s, fmt) ==
    [basic        |-> BasicHeader(fmt, m.csid),
     time         |-> IF fmt = 3 THEN 0
                      ELSE IF NeedsExtended(m) THEN U24(Threshold)
                      ELSE IF fmt = 0 THEN U24(m.timestamp) ELSE U24(Delta(m, s)),
     length       |-> IF fmt \in {0, 1} THEN U24(Len(m.payload)) ELSE 0,
     message_type |-> IF fmt \in {0, 1} THEN m.message_type ELSE 0,
     stream_id    |-> IF fmt = 0 THEN m.stream_id ELSE 0]

ChunkCount(m, size) == (Len(m.payload) + size - 1) \div size

(* encode: the chunks of m.  Later chunks repeat the extended timestamp    *)
(* only if the message before m had one.                                   *)
Encode(m, s, size) ==
    [i \in 1 .. ChunkCount(m, size) |->
        [header   |-> Header(m, s, IF i = 1 THEN SelectFormat(m, s) ELSE 3),
         extended |-> IF NeedsExtended(m) /\ (i = 1 \/ s.has_extended_timestamp)
                      THEN << m.timestamp >> ELSE << >>,
         data     |-> SubSeq(m.payload, (i - 1) * size + 1, AtMost(i * size, Len(m.payload))),
         number   |-> i]]

(* A slip: the length is not remembered.                                   *)
EncodedKeepsLength(m, s) ==
    [s EXCEPT !.timestamp = m.timestamp,
              !.timestamp_delta = Delta(m, s),
              !.message_type = m.message_type,
              !.stream_id = m.stream_id,
              !.has_extended_timestamp = NeedsExtended(m)]

(* What encode remembers of m.                                             *)
Encoded(m, s) ==
    [s EXCEPT !.timestamp = m.timestamp,
              !.timestamp_delta = Delta(m, s),
              !.message_length = Len(m.payload),
              !.message_type = m.message_type,
              !.stream_id = m.stream_id,
              !.has_extended_timestamp = NeedsExtended(m)]

Units(chunk) ==
    << [kind |-> "header", header |-> chunk.header] >>
    \o [i \in DOMAIN chunk.extended |-> [kind |-> "extended", time |-> chunk.extended[i]]]
    \o [i \in DOMAIN chunk.data |-> [kind |-> "data", word |-> chunk.data[i]]]

----------------------------------------------------------------------------
(* Decoder.  h is a message header, s the state of its chunk stream.       *)

(* Whether an extended timestamp is looked for when the size of the chunk  *)
(* is computed, and when the header is consumed.                           *)
ExtendedPeeked(h, s) ==
    IF Fmt(h.basic) = 3 THEN s.has_extended_timestamp ELSE h.time >= Threshold

TimestampField(h, s) == IF Fmt(h.basic) = 3 THEN s.timestamp_delta ELSE h.time

ExtendedRead(h, s) ==
    \/ TimestampField(h, s) >= Threshold
    \/ Fmt(h.basic) = 3 /\ s.has_extended_timestamp

(* How many words of payload the chunk has.                                *)
ChunkDataLength(h, s, size) ==
    LET expected == IF Fmt(h.basic) \in {0, 1} THEN h.length
                    ELSE IF s.partial_message = << >> THEN s.message_length
                    ELSE s.expected_length
        held     == Len(s.partial_message)
    IN  AtMost(IF held < expected THEN expected - held ELSE 0, size)

(* A slip: a continuation advances the clock again.                        *)
AbsoluteTimestampEachChunk(h, s, timestamp) ==
    IF Fmt(h.basic) = 0 THEN timestamp ELSE WrappingAdd(s.timestamp, timestamp)

AbsoluteTimestamp(h, s, timestamp) ==
    IF Fmt(h.basic) = 0 THEN timestamp
    ELSE IF Fmt(h.basic) = 3 /\ s.partial_message # << >> THEN s.timestamp
    ELSE WrappingAdd(s.timestamp, timestamp)

(* The state once the header is consumed; extended is the word that        *)
(* follows it.  The check against max_message_size is left out: the limit  *)
(* is 2^24, which no length of 24 bits exceeds.                            *)
HeaderRead(h, s, extended) ==
    LET fmt       == Fmt(h.basic)
        timestamp == IF ExtendedRead(h, s) THEN extended ELSE TimestampField(h, s)
        length    == IF fmt \in {0, 1} THEN h.length ELSE s.message_length
    IN  [s EXCEPT !.timestamp = AbsoluteTimestamp(h, s, timestamp),
                  !.timestamp_delta = timestamp,
                  !.message_length = length,
                  !.message_type = IF fmt \in {0, 1} THEN h.message_type ELSE @,
                  !.stream_id = IF fmt = 0 THEN h.stream_id ELSE @,
                  !.has_extended_timestamp = ExtendedRead(h, s),
                  !.expected_length = IF s.partial_message = << >> THEN length ELSE @]

(* The state once the words of the chunk are in, and whether the message   *)
(* is complete.                                                            *)
DataRead(s, words) == [s EXCEPT !.partial_message = @ \o words]

MessageComplete(s) == Len(s.partial_message) >= s.expected_length

MessageOf(s, csid) ==
    [csid |-> csid, timestamp |-> s.timestamp, message_type |-> s.message_type,
     stream_id |-> s.stream_id, payload |-> s.partial_message]

(* Between messages, and after an abort.                                   *)
Emptied(s) == [s EXCEPT !.partial_message = << >>, !.expected_length = 0]

(* How many units decode waits for.                                        *)
ChunkLength(h, s, size) ==
    1 + (IF ExtendedPeeked(h, s) THEN 1 ELSE 0) + ChunkDataLength(h, s, size)

(* Whether the units are where the decoder looks for them; if not, it goes *)
(* on reading at the wrong place.                                          *)
WellPlaced(units, h, s) ==
    /\ ExtendedPeeked(h, s) <=> ExtendedRead(h, s)
    /\ \A i \in 2 .. Len(units) :
          units[i].kind = IF i = 2 /\ ExtendedRead(h, s) THEN "extended" ELSE "data"
=============================================================================
