-------------------------- MODULE ChunkCodecProofs --------------------------
(***************************************************************************)
(* What the operators of ChunkCodec do for every width of a timestamp.     *)
(***************************************************************************)
EXTENDS ChunkCodec, SequenceTheorems, TLAPS

(* A message the encoder may be given: lengths have 24 bits.               *)
IsMessage(m) ==
    /\ IsCsid(m.csid)
    /\ m.timestamp \in 0 .. TimeModulus - 1
    /\ m.message_type \in Nat /\ m.stream_id \in Nat
    /\ Len(m.payload) \in 1 .. Threshold

(* Both ends remember the same of a chunk stream.                          *)
Agree(e, d) ==
    /\ e.timestamp = d.timestamp
    /\ e.timestamp_delta = d.timestamp_delta
    /\ e.message_length = d.message_length
    /\ e.message_type = d.message_type
    /\ e.stream_id = d.stream_id
    /\ e.has_extended_timestamp = d.has_extended_timestamp

(* States of a chunk stream without extended timestamps; W is the set of   *)
(* words of payloads.                                                      *)
StreamStates(W) ==
    [timestamp : 0 .. Threshold - 1, timestamp_delta : 0 .. Threshold - 1,
     message_length : Nat, message_type : Nat, stream_id : Nat,
     has_extended_timestamp : {FALSE}, partial_message : Seq(W), expected_length : Nat]

(* The first byte of a header gives its format and its low six bits back.  *)
LEMMA FirstByte ==
    \A fmt \in 0 .. 3, low \in 0 .. 63 :
        (fmt * 64 + low) % 64 = low /\ (fmt * 64 + low) \div 64 = fmt
OBVIOUS

(* Two bytes hold a number of sixteen bits.                                *)
LEMMA TwoBytes == \A n \in Int : n = (n % 256) + (n \div 256) * 256
OBVIOUS

(* A byte is its own low byte.                                             *)
LEMMA OneByte == \A n \in 0 .. 255 : n % 256 = n
OBVIOUS

(* A number below the modulus is its own remainder.                        *)
LEMMA BelowModulus == \A k \in Nat, n \in Nat : n < k => n % k = n
OBVIOUS

(* The basic header gives format, chunk stream id and its own length back, *)
(* for each of its three sizes and at their borders (write_basic_header    *)
(* and parse_basic_header).                                                *)
THEOREM BasicHeaderRoundTrip ==
    ASSUME NEW fmt \in 0 .. 3, NEW csid, IsCsid(csid)
    PROVE  /\ Fmt(BasicHeader(fmt, csid)) = fmt
           /\ Csid(BasicHeader(fmt, csid)) = csid
           /\ BasicHeaderLength(BasicHeader(fmt, csid)) = Len(BasicHeader(fmt, csid))
<1> DEFINE b == BasicHeader(fmt, csid)
<1> USE DEF IsCsid
<1>1. CASE csid >= 320
  <2> DEFINE first  == fmt * 64 + 1
             second == (csid - 64) % 256
             third  == (csid - 64) \div 256
  <2>1. b = << first, second, third >>
    BY <1>1 DEF BasicHeader
  <2>2. first % 64 = 1 /\ first \div 64 = fmt
    BY FirstByte
  <2>3. csid - 64 = second + third * 256
    BY TwoBytes
  <2>4. second \in Int /\ third \in Int
    OBVIOUS
  <2> HIDE DEF first, second, third, b
  <2>5. b[1] = first /\ b[2] = second /\ b[3] = third /\ Len(b) = 3
    BY <2>1
  <2>6. 64 + second + third * 256 = csid
    BY <2>3, <2>4
  <2>7. Fmt(b) = fmt /\ Csid(b) = csid /\ BasicHeaderLength(b) = 3
    BY <2>2, <2>5, <2>6 DEF Fmt, Csid, BasicHeaderLength
  <2> QED BY <2>5, <2>7 DEF b
<1>2. CASE csid >= 64 /\ csid < 320
  <2> DEFINE first  == fmt * 64
             second == (csid - 64) % 256
  <2>1. b = << first, second >>
    BY <1>2 DEF BasicHeader
  <2>2. first % 64 = 0 /\ first \div 64 = fmt
    BY FirstByte
  <2>3. csid - 64 \in 0 .. 255
    BY <1>2
  <2>4. second = csid - 64
    BY <2>3, OneByte
  <2> HIDE DEF first, second, b
  <2>5. b[1] = first /\ b[2] = second /\ Len(b) = 2
    BY <2>1
  <2>6. 64 + second = csid
    BY <2>4
  <2>7. Fmt(b) = fmt /\ Csid(b) = csid /\ BasicHeaderLength(b) = 2
    BY <2>2, <2>5, <2>6 DEF Fmt, Csid, BasicHeaderLength
  <2> QED BY <2>5, <2>7 DEF b
<1>3. CASE csid < 64
  <2> DEFINE first == fmt * 64 + csid
  <2>1. b = << first >>
    BY <1>3 DEF BasicHeader
  <2>2. csid \in 0 .. 63
    BY <1>3
  <2>3. first % 64 = csid /\ first \div 64 = fmt
    BY <2>2, FirstByte
  <2> HIDE DEF first, b
  <2>4. b[1] = first /\ Len(b) = 1
    BY <2>1
  <2>5. Fmt(b) = fmt /\ Csid(b) = csid /\ BasicHeaderLength(b) = 1
    BY <2>3, <2>4 DEF Fmt, Csid, BasicHeaderLength
  <2> QED BY <2>4, <2>5 DEF b
<1> QED BY <1>1, <1>2, <1>3

(* A header has one of four formats.                                       *)
LEMMA FormatRange ==
    ASSUME NEW m, NEW s
    PROVE  SelectFormat(m, s) \in 0 .. 3
BY DEF SelectFormat

(* A short header means to the decoder what the encoder left out of it: if *)
(* both ends agree and the decoder is between messages, then after the     *)
(* first header of a message they agree again, on its timestamp, type,     *)
(* message stream and length.  The message must have a timestamp below the *)
(* threshold that does not go back, and a full header must not follow a    *)
(* message later than zero.                                                *)
THEOREM HeaderUnderstood ==
    ASSUME NEW m, IsMessage(m), m.timestamp < Threshold,
           NEW W, NEW e \in StreamStates(W), NEW d \in StreamStates(W), Agree(e, d),
           d.partial_message = << >>, m.timestamp >= e.timestamp,
           SelectFormat(m, e) = 0 => e.timestamp = 0,
           NEW x
    PROVE  /\ ~ExtendedPeeked(Header(m, e, SelectFormat(m, e)), d)
           /\ Agree(Encoded(m, e), HeaderRead(Header(m, e, SelectFormat(m, e)), d, x))
<1> DEFINE fmt == SelectFormat(m, e)
           h   == Header(m, e, fmt)
<1>1. fmt \in 0 .. 3
  BY FormatRange
<1>2. Fmt(h.basic) = fmt
  BY <1>1, BasicHeaderRoundTrip DEF Header, IsMessage
<1>3. Threshold \in Nat /\ TimeModulus \in Nat /\ Threshold < TimeModulus
  BY CodecAssumption
<1>4. /\ m.timestamp \in 0 .. Threshold - 1 /\ e.timestamp \in 0 .. Threshold - 1
      /\ m.timestamp - e.timestamp \in 0 .. Threshold - 1
  <2>1. m.timestamp \in Int /\ 0 <= m.timestamp
    BY <1>3 DEF IsMessage
  <2>2. e.timestamp \in 0 .. Threshold - 1
    BY DEF StreamStates
  <2> QED BY <1>3, <2>1, <2>2
<1>5. \A v \in 0 .. Threshold : U24(v) = v
  BY <1>3, BelowModulus DEF U24
<1>6. \A v \in 0 .. Threshold - 1 : v % TimeModulus = v
  BY <1>3, BelowModulus
<1>7. Delta(m, e) = m.timestamp - e.timestamp
  BY <1>4, <1>6 DEF Delta, WrappingSub
<1>8. WrappingAdd(e.timestamp, m.timestamp - e.timestamp) = m.timestamp
  <2>1. e.timestamp + (m.timestamp - e.timestamp) = m.timestamp
    BY <1>3, <1>4
  <2> QED BY <1>4, <1>6, <2>1 DEF WrappingAdd
<1>9. ~NeedsExtended(m)
  BY <1>3, <1>4 DEF NeedsExtended
<1>10. /\ h.time = IF fmt = 3 THEN 0 ELSE IF fmt = 0 THEN m.timestamp
                   ELSE m.timestamp - e.timestamp
       /\ fmt \in {0, 1} => h.length = Len(m.payload) /\ h.message_type = m.message_type
       /\ fmt = 0 => h.stream_id = m.stream_id
  BY <1>3, <1>4, <1>5, <1>7, <1>9 DEF Header, IsMessage
<1>11. /\ fmt # 0 => m.stream_id = e.stream_id
       /\ fmt \in {2, 3} => m.message_type = e.message_type /\ Len(m.payload) = e.message_length
       /\ fmt = 3 => m.timestamp - e.timestamp = e.timestamp_delta
  BY <1>7 DEF SelectFormat
<1>12. TimestampField(h, d) = IF fmt = 0 THEN m.timestamp ELSE m.timestamp - e.timestamp
  BY <1>1, <1>2, <1>10, <1>11 DEF TimestampField, Agree
<1>13. ~ExtendedRead(h, d) /\ ~ExtendedPeeked(h, d)
  <2>1. d.has_extended_timestamp = FALSE
    BY DEF StreamStates
  <2>2. \A v \in 0 .. Threshold - 1 : ~(v >= Threshold)
    BY <1>3
  <2>3. ~(TimestampField(h, d) >= Threshold)
    BY <1>4, <1>12, <2>2
  <2>4. fmt # 3 => ~(h.time >= Threshold)
    BY <1>4, <1>10, <2>2
  <2> QED BY <1>2, <2>1, <2>3, <2>4 DEF ExtendedRead, ExtendedPeeked
<1>14. AbsoluteTimestamp(h, d, TimestampField(h, d)) = m.timestamp
  BY <1>2, <1>8, <1>12 DEF AbsoluteTimestamp, Agree
<1> DEFINE n == HeaderRead(h, d, x)
<1>15. /\ n.timestamp = m.timestamp
       /\ n.timestamp_delta = TimestampField(h, d)
       /\ n.message_length = IF fmt \in {0, 1} THEN h.length ELSE d.message_length
       /\ n.message_type = IF fmt \in {0, 1} THEN h.message_type ELSE d.message_type
       /\ n.stream_id = IF fmt = 0 THEN h.stream_id ELSE d.stream_id
       /\ n.has_extended_timestamp = FALSE
  BY <1>2, <1>13, <1>14 DEF HeaderRead, StreamStates
<1> DEFINE r == Encoded(m, e)
<1>16. /\ r.timestamp = m.timestamp
       /\ r.timestamp_delta = m.timestamp - e.timestamp
       /\ r.message_length = Len(m.payload)
       /\ r.message_type = m.message_type
       /\ r.stream_id = m.stream_id
       /\ r.has_extended_timestamp = FALSE
  BY <1>7, <1>9 DEF Encoded, StreamStates
<1>17. n.timestamp_delta = m.timestamp - e.timestamp
  BY <1>4, <1>12, <1>15
<1>18. /\ n.message_length = Len(m.payload)
       /\ n.message_type = m.message_type
       /\ n.stream_id = m.stream_id
  BY <1>1, <1>10, <1>11, <1>15 DEF Agree
<1> QED BY <1>13, <1>15, <1>16, <1>17, <1>18 DEF Agree

(* The header of a later chunk changes nothing of what the decoder knows   *)
(* of the message, wherever the message is cut.                            *)
THEOREM ContinuationChangesNothing ==
    ASSUME NEW m, IsMessage(m), NEW e, NEW W, NEW s \in StreamStates(W),
           s.partial_message # << >>, NEW x
    PROVE  /\ Agree(HeaderRead(Header(m, e, 3), s, x), s)
           /\ HeaderRead(Header(m, e, 3), s, x).partial_message = s.partial_message
           /\ HeaderRead(Header(m, e, 3), s, x).expected_length = s.expected_length
<1> DEFINE h == Header(m, e, 3)
           n == HeaderRead(h, s, x)
<1>1. Fmt(h.basic) = 3
  BY BasicHeaderRoundTrip DEF Header, IsMessage
<1>2. TimestampField(h, s) = s.timestamp_delta
  BY <1>1 DEF TimestampField
<1>3. s.timestamp_delta \in Int /\ Threshold \in Int /\ s.timestamp_delta < Threshold
  BY CodecAssumption DEF StreamStates
<1>4. s.has_extended_timestamp = FALSE
  BY DEF StreamStates
<1>5. ~ExtendedRead(h, s)
  BY <1>1, <1>2, <1>3, <1>4 DEF ExtendedRead
<1>6. AbsoluteTimestamp(h, s, s.timestamp_delta) = s.timestamp
  BY <1>1 DEF AbsoluteTimestamp
<1>7. /\ n.timestamp = s.timestamp
      /\ n.timestamp_delta = s.timestamp_delta
      /\ n.message_length = s.message_length
      /\ n.message_type = s.message_type
      /\ n.stream_id = s.stream_id
      /\ n.has_extended_timestamp = FALSE
      /\ n.partial_message = s.partial_message
      /\ n.expected_length = s.expected_length
  BY <1>1, <1>2, <1>5, <1>6 DEF HeaderRead, StreamStates
<1> QED BY <1>4, <1>7 DEF Agree
----------------------------------------------------------------------------
(* All the chunks of a message.                                            *)

(* An encoder that was reset knows nothing of a chunk stream; what the     *)
(* decoder still knows of it does not matter.                              *)
Synced(e, d) == e = Fresh \/ Agree(e, d)

(* What the decoder knows before the ith chunk of m.                       *)
ReadyFor(i, m, e, size, d) ==
    IF i = 1 THEN Synced(e, d) /\ d.partial_message = << >>
    ELSE /\ Agree(Encoded(m, e), d)
         /\ d.partial_message = SubSeq(m.payload, 1, (i - 1) * size)
         /\ d.expected_length = Len(m.payload)

(* A message that may follow what e remembers, as HeaderUnderstood has it. *)
MayFollow(m, e) ==
    /\ IsMessage(m) /\ m.timestamp < Threshold /\ m.timestamp >= e.timestamp
    /\ SelectFormat(m, e) = 0 => e.timestamp = 0

(* Both ends begin a chunk stream with a state.                            *)
LEMMA FreshIsState == ASSUME NEW W PROVE Fresh \in StreamStates(W)
<1>1. 0 \in 0 .. Threshold - 1
  BY CodecAssumption
<1> QED BY <1>1, EmptySeq DEF Fresh, StreamStates

(* What encoder and decoder make of a state is a state.                    *)
LEMMA StatesClosed ==
    ASSUME NEW W, NEW d \in StreamStates(W),
           NEW t \in 0 .. Threshold - 1, NEW delta \in 0 .. Threshold - 1,
           NEW length \in Nat, NEW type \in Nat, NEW stream \in Nat
    PROVE  /\ [d EXCEPT !.timestamp = t, !.timestamp_delta = delta, !.message_length = length,
                        !.message_type = type, !.stream_id = stream,
                        !.has_extended_timestamp = FALSE] \in StreamStates(W)
           /\ \A expected \in Nat :
                  [d EXCEPT !.timestamp = t, !.timestamp_delta = delta, !.message_length = length,
                        !.message_type = type, !.stream_id = stream,
                        !.has_extended_timestamp = FALSE,
                        !.expected_length = expected] \in StreamStates(W)
           /\ \A words \in Seq(W) : DataRead(d, words) \in StreamStates(W)
           /\ Emptied(d) \in StreamStates(W)
<1>1. [d EXCEPT !.timestamp = t, !.timestamp_delta = delta, !.message_length = length,
                        !.message_type = type, !.stream_id = stream,
                        !.has_extended_timestamp = FALSE] \in StreamStates(W)
  BY DEF StreamStates
<1>2. ASSUME NEW expected \in Nat
      PROVE  [d EXCEPT !.timestamp = t, !.timestamp_delta = delta, !.message_length = length,
                        !.message_type = type, !.stream_id = stream,
                        !.has_extended_timestamp = FALSE,
                        !.expected_length = expected] \in StreamStates(W)
  BY DEF StreamStates
<1>3. ASSUME NEW words \in Seq(W) PROVE DataRead(d, words) \in StreamStates(W)
  <2>1. d.partial_message \o words \in Seq(W)
    BY DEF StreamStates
  <2> QED BY <2>1 DEF DataRead, StreamStates
<1>4. Emptied(d) \in StreamStates(W)
  BY EmptySeq DEF Emptied, StreamStates
<1> QED BY <1>1, <1>2, <1>3, <1>4

(* What the encoder remembers of a message is of the same kind.            *)
LEMMA EncodedIsState ==
    ASSUME NEW m, NEW W, NEW e \in StreamStates(W), MayFollow(m, e)
    PROVE  /\ Encoded(m, e) \in StreamStates(W)
           /\ Encoded(m, e).has_extended_timestamp = FALSE
           /\ ~NeedsExtended(m)
<1>1. Threshold \in Nat /\ TimeModulus \in Nat /\ Threshold < TimeModulus
  BY CodecAssumption
<1>2. m.timestamp \in 0 .. Threshold - 1 /\ e.timestamp \in 0 .. Threshold - 1
      /\ m.timestamp - e.timestamp \in 0 .. Threshold - 1
  <2>1. m.timestamp \in Int /\ 0 <= m.timestamp
    BY <1>1 DEF MayFollow, IsMessage
  <2>2. e.timestamp \in 0 .. Threshold - 1
    BY DEF StreamStates
  <2> QED BY <1>1, <2>1, <2>2 DEF MayFollow
<1>3. Delta(m, e) \in 0 .. Threshold - 1
  <2>1. (m.timestamp - e.timestamp) % TimeModulus = m.timestamp - e.timestamp
    BY <1>1, <1>2, BelowModulus
  <2> QED BY <1>2, <2>1 DEF Delta, WrappingSub
<1>4. ~NeedsExtended(m)
  BY <1>1, <1>2 DEF NeedsExtended
<1>5. Len(m.payload) \in Nat /\ m.message_type \in Nat /\ m.stream_id \in Nat
  BY <1>1 DEF MayFollow, IsMessage
<1> DEFINE t == m.timestamp
           delta == Delta(m, e)
           length == Len(m.payload)
           type == m.message_type
           stream == m.stream_id
           extended == NeedsExtended(m)
<1>6. Encoded(m, e) = [e EXCEPT !.timestamp = t, !.timestamp_delta = delta,
                                !.message_length = length, !.message_type = type,
                                !.stream_id = stream, !.has_extended_timestamp = extended]
  BY Zenon DEF Encoded
<1>7. /\ t \in 0 .. Threshold - 1 /\ delta \in 0 .. Threshold - 1 /\ length \in Nat
      /\ type \in Nat /\ stream \in Nat /\ extended = FALSE
  BY <1>2, <1>3, <1>4, <1>5
<1> HIDE DEF t, delta, length, type, stream, extended
<1>8. Encoded(m, e) \in StreamStates(W) /\ Encoded(m, e).has_extended_timestamp = FALSE
  BY <1>6, <1>7 DEF StreamStates
<1> QED BY <1>4, <1>8

(* A header that is understood leaves a state.                             *)
LEMMA HeaderReadIsState ==
    ASSUME NEW W, NEW d \in StreamStates(W), NEW h, NEW x,
           HeaderRead(h, d, x).timestamp \in 0 .. Threshold - 1,
           HeaderRead(h, d, x).timestamp_delta \in 0 .. Threshold - 1,
           HeaderRead(h, d, x).message_length \in Nat,
           HeaderRead(h, d, x).message_type \in Nat,
           HeaderRead(h, d, x).stream_id \in Nat,
           HeaderRead(h, d, x).has_extended_timestamp = FALSE,
           HeaderRead(h, d, x).expected_length \in Nat
    PROVE  HeaderRead(h, d, x) \in StreamStates(W)
<1> DEFINE fmt == Fmt(h.basic)
           n == HeaderRead(h, d, x)
           time == IF ExtendedRead(h, d) THEN x ELSE TimestampField(h, d)
           clock == AbsoluteTimestamp(h, d, time)
           length == IF fmt \in {0, 1} THEN h.length ELSE d.message_length
           type == IF fmt \in {0, 1} THEN h.message_type ELSE d.message_type
           stream == IF fmt = 0 THEN h.stream_id ELSE d.stream_id
           extended == ExtendedRead(h, d)
           expected == IF d.partial_message = << >> THEN length ELSE d.expected_length
<1>1. n = [d EXCEPT !.timestamp = clock, !.timestamp_delta = time, !.message_length = length,
                    !.message_type = type, !.stream_id = stream,
                    !.has_extended_timestamp = extended, !.expected_length = expected]
  BY Zenon DEF HeaderRead
<1> HIDE DEF time, clock, length, type, stream, extended, expected
<1>2. /\ n.timestamp = clock /\ n.timestamp_delta = time /\ n.message_length = length
      /\ n.message_type = type /\ n.stream_id = stream
      /\ n.has_extended_timestamp = extended /\ n.expected_length = expected
  BY <1>1 DEF StreamStates
<1>4. /\ clock \in 0 .. Threshold - 1 /\ time \in 0 .. Threshold - 1 /\ length \in Nat
      /\ type \in Nat /\ stream \in Nat /\ expected \in Nat
  BY <1>2
<1>5. extended = FALSE
  BY <1>2
<1> HIDE DEF n
<1>6. n \in StreamStates(W)
  BY <1>1, <1>4, <1>5 DEF StreamStates
<1> QED BY <1>6 DEF n

(* A full header says all there is to know.                                *)
LEMMA FreshUnderstood ==
    ASSUME NEW m, MayFollow(m, Fresh), NEW W, NEW d \in StreamStates(W),
           d.partial_message = << >>, NEW x
    PROVE  /\ SelectFormat(m, Fresh) = 0
           /\ ~ExtendedPeeked(Header(m, Fresh, 0), d)
           /\ Agree(Encoded(m, Fresh), HeaderRead(Header(m, Fresh, 0), d, x))
<1> DEFINE h == Header(m, Fresh, 0)
           n == HeaderRead(h, d, x)
<1> USE DEF MayFollow
<1>1. Fmt(h.basic) = 0
  BY BasicHeaderRoundTrip DEF Header, IsMessage
<1>2. Threshold \in Nat /\ TimeModulus \in Nat /\ Threshold < TimeModulus
  BY CodecAssumption
<1>3. m.timestamp \in 0 .. Threshold - 1 /\ Len(m.payload) \in 0 .. Threshold
  BY <1>2 DEF IsMessage
<1>4. U24(m.timestamp) = m.timestamp /\ U24(Len(m.payload)) = Len(m.payload)
  <2>1. \A v \in 0 .. Threshold : U24(v) = v
    BY <1>2, BelowModulus DEF U24
  <2> QED BY <1>2, <1>3, <2>1
<1>5. Delta(m, Fresh) = m.timestamp
  <2>1. m.timestamp % TimeModulus = m.timestamp
    BY <1>2, <1>3, BelowModulus
  <2>2. m.timestamp - 0 = m.timestamp
    BY <1>3
  <2> QED BY <2>1, <2>2 DEF Delta, WrappingSub, Fresh
<1>6. ~NeedsExtended(m)
  BY <1>2, <1>3 DEF NeedsExtended
<1>7. /\ h.time = m.timestamp /\ h.length = Len(m.payload)
      /\ h.message_type = m.message_type /\ h.stream_id = m.stream_id
  BY <1>4, <1>6 DEF Header
<1>8. ~(h.time >= Threshold)
  BY <1>2, <1>3, <1>7
<1>9. ~ExtendedPeeked(h, d) /\ ~ExtendedRead(h, d) /\ TimestampField(h, d) = m.timestamp
  BY <1>1, <1>7, <1>8 DEF ExtendedPeeked, ExtendedRead, TimestampField
<1>10. /\ n.timestamp = m.timestamp /\ n.timestamp_delta = m.timestamp
       /\ n.message_length = Len(m.payload) /\ n.message_type = m.message_type
       /\ n.stream_id = m.stream_id /\ n.has_extended_timestamp = FALSE
  BY <1>1, <1>7, <1>9 DEF HeaderRead, AbsoluteTimestamp, StreamStates
<1>11. SelectFormat(m, Fresh) = 0
  BY DEF SelectFormat, Fresh
<1> DEFINE r == Encoded(m, Fresh)
<1>12. /\ r.timestamp = m.timestamp /\ r.timestamp_delta = m.timestamp
       /\ r.message_length = Len(m.payload) /\ r.message_type = m.message_type
       /\ r.stream_id = m.stream_id /\ r.has_extended_timestamp = FALSE
  BY <1>5, <1>6 DEF Encoded, Fresh
<1> QED BY <1>9, <1>10, <1>11, <1>12 DEF Agree

(* The first header of a message: both ends agree on the message, and the  *)
(* decoder knows how long it is.                                           *)
LEMMA FirstHeader ==
    ASSUME NEW m, NEW W, NEW e \in StreamStates(W), NEW d \in StreamStates(W),
           MayFollow(m, e), Synced(e, d), d.partial_message = << >>, NEW size
    PROVE  LET h == Header(m, e, SelectFormat(m, e))
               n == HeaderRead(h, d, 0)
           IN  /\ ~ExtendedPeeked(h, d) /\ ~ExtendedRead(h, d)
               /\ Agree(Encoded(m, e), n)
               /\ n \in StreamStates(W)
               /\ n.partial_message = << >> /\ n.expected_length = Len(m.payload)
               /\ ChunkDataLength(h, d, size) = AtMost(Len(m.payload), size)
<1> DEFINE h == Header(m, e, SelectFormat(m, e))
           n == HeaderRead(h, d, 0)
           r == Encoded(m, e)
           known == IF Fmt(h.basic) \in {0, 1} THEN h.length ELSE d.message_length
<1>1. ~ExtendedPeeked(h, d) /\ Agree(r, n)
  <2>1. CASE e = Fresh
    BY <2>1, FreshUnderstood
  <2>2. CASE Agree(e, d)
    BY <2>2, HeaderUnderstood DEF MayFollow
  <2> QED BY <2>1, <2>2 DEF Synced
<1>2. r \in StreamStates(W) /\ r.has_extended_timestamp = FALSE
      /\ r.message_length = Len(m.payload)
  BY EncodedIsState DEF Encoded, StreamStates
<1>3. /\ n.has_extended_timestamp = ExtendedRead(h, d)
      /\ n.message_length = known
      /\ n.partial_message = << >> /\ n.expected_length = known
  BY DEF HeaderRead, StreamStates
<1>4. ~ExtendedRead(h, d) /\ known = Len(m.payload)
  BY <1>1, <1>2, <1>3 DEF Agree
<1>5. n \in StreamStates(W)
  <2>1. n.expected_length \in Nat
    BY <1>2, <1>3, <1>4 DEF StreamStates
  <2>2. /\ n.timestamp \in 0 .. Threshold - 1 /\ n.timestamp_delta \in 0 .. Threshold - 1
        /\ n.message_length \in Nat /\ n.message_type \in Nat /\ n.stream_id \in Nat
        /\ n.has_extended_timestamp = FALSE
    BY <1>1, <1>2 DEF Agree, StreamStates
  <2> QED BY <2>1, <2>2, HeaderReadIsState
<1>6. ChunkDataLength(h, d, size) = AtMost(Len(m.payload), size)
  <2>1. Len(d.partial_message) = 0
    BY EmptySeq
  <2>2. Len(m.payload) \in Nat /\ Len(m.payload) > 0
    BY CodecAssumption DEF MayFollow, IsMessage
  <2> QED BY <1>4, <2>1, <2>2 DEF ChunkDataLength
<1> QED BY <1>1, <1>3, <1>4, <1>5, <1>6

(* The decoder has some of m and knows how long it is.                     *)
Amid(m, e, d) ==
    /\ Agree(Encoded(m, e), d) /\ d.expected_length = Len(m.payload)
    /\ d.partial_message # << >> /\ ~MessageComplete(d)

Missing(m, d) == Len(m.payload) - Len(d.partial_message)

(* The header of a later chunk.                                            *)
LEMMA LaterHeader ==
    ASSUME NEW m, NEW W, NEW e \in StreamStates(W), NEW d \in StreamStates(W),
           MayFollow(m, e), Amid(m, e, d), NEW size
    PROVE  LET h == Header(m, e, 3)
               n == HeaderRead(h, d, 0)
           IN  /\ ~ExtendedPeeked(h, d) /\ ~ExtendedRead(h, d)
               /\ Agree(Encoded(m, e), n)
               /\ n \in StreamStates(W)
               /\ n.partial_message = d.partial_message
               /\ n.expected_length = Len(m.payload)
               /\ ChunkDataLength(h, d, size) = AtMost(Missing(m, d), size)
<1> DEFINE h == Header(m, e, 3)
           n == HeaderRead(h, d, 0)
           r == Encoded(m, e)
<1> USE DEF Amid
<1>1. IsMessage(m)
  BY DEF MayFollow
<1>2. Agree(n, d) /\ n.partial_message = d.partial_message
      /\ n.expected_length = d.expected_length
  BY <1>1, ContinuationChangesNothing
<1>3. Fmt(h.basic) = 3
  BY <1>1, BasicHeaderRoundTrip DEF Header, IsMessage
<1>4. d.has_extended_timestamp = FALSE
  BY DEF StreamStates
<1>5. n.has_extended_timestamp = ExtendedRead(h, d)
  BY DEF HeaderRead, StreamStates
<1>6. ~ExtendedPeeked(h, d) /\ ~ExtendedRead(h, d)
  BY <1>2, <1>3, <1>4, <1>5 DEF ExtendedPeeked, Agree
<1>7. Agree(r, n)
  BY <1>2 DEF Agree
<1>8. n \in StreamStates(W)
  <2>1. /\ n.timestamp \in 0 .. Threshold - 1 /\ n.timestamp_delta \in 0 .. Threshold - 1
        /\ n.message_length \in Nat /\ n.message_type \in Nat /\ n.stream_id \in Nat
        /\ n.has_extended_timestamp = FALSE /\ n.expected_length \in Nat
    BY <1>2 DEF Agree, StreamStates
  <2> QED BY <2>1, HeaderReadIsState
<1>9. ChunkDataLength(h, d, size) = AtMost(Missing(m, d), size)
  <2> DEFINE held == Len(d.partial_message)
             expected == d.expected_length
  <2>1. Fmt(h.basic) \notin {0, 1}
    BY <1>3
  <2> HIDE DEF h
  <2>2. ChunkDataLength(h, d, size) = AtMost(IF held < expected THEN expected - held ELSE 0, size)
    BY <2>1 DEF ChunkDataLength
  <2> HIDE DEF held, expected
  <2>3. held < expected
    <3>1. Len(d.partial_message) \in Nat /\ d.expected_length \in Nat
      BY DEF StreamStates
    <3> QED BY <3>1 DEF held, expected, MessageComplete
  <2>4. ChunkDataLength(h, d, size) = AtMost(expected - held, size)
    BY <2>2, <2>3
  <2> QED BY <2>4 DEF held, expected, h, Missing
<1> QED BY <1>2, <1>6, <1>7, <1>8, <1>9

(* Products keep the order.                                                *)
LEMMA LessTimes ==
    ASSUME NEW a \in Nat, NEW b \in Nat, a <= b, NEW c \in Nat
    PROVE  a * c <= b * c
OBVIOUS

(* The chunks of a message of L words cover it, and none is empty.         *)
LEMMA Chunking ==
    ASSUME NEW L \in Nat \ {0}, NEW size \in Nat \ {0}
    PROVE  LET n == (L + size - 1) \div size
           IN  /\ n \in Nat \ {0}
               /\ n * size >= L
               /\ \A i \in 1 .. n : (i - 1) * size \in 0 .. L - 1 /\ i * size = (i - 1) * size + size
<1> DEFINE n == (L + size - 1) \div size
           r == (L + size - 1) % size
<1>1. L + size - 1 = size * n + r /\ r \in 0 .. size - 1 /\ n \in Int
  OBVIOUS
<1> HIDE DEF n, r
<1>2. n * size >= L /\ (n - 1) * size < L /\ n * size = size * n
  BY <1>1
<1>3. n >= 1
  <2>1. ASSUME n <= 0 PROVE FALSE
    <3>1. size * n <= 0
      BY <1>1, <2>1
    <3> QED BY <1>1, <3>1
  <2> QED BY <1>1, <2>1
<1>4. ASSUME NEW i \in 1 .. n
      PROVE  (i - 1) * size \in 0 .. L - 1 /\ i * size = (i - 1) * size + size
  <2>1. (i - 1) * size <= (n - 1) * size
    BY <1>1, <1>3, LessTimes
  <2>2. (i - 1) * size \in Nat
    BY <1>1
  <2>3. i * size = (i - 1) * size + size
    BY <1>1
  <2>4. (n - 1) * size \in Int
    BY <1>1
  <2> QED BY <1>2, <2>1, <2>2, <2>3, <2>4
<1> QED BY <1>1, <1>2, <1>3, <1>4 DEF n

(* The decoder, in state d, takes chunk k, the ith of message m, for what  *)
(* it is.                                                                  *)
Understood(W, k, i, m, e, size, d) ==
    LET s == DataRead(HeaderRead(k.header, d, 0), k.data)
    IN  /\ Csid(k.header.basic) = m.csid
        /\ k.extended = << >> /\ k.data \in Seq(W) /\ k.number = i
        /\ ~ExtendedPeeked(k.header, d) /\ ~ExtendedRead(k.header, d)
        /\ ChunkDataLength(k.header, d, size) = Len(k.data)
        /\ s \in StreamStates(W) /\ Agree(Encoded(m, e), s)
        /\ MessageComplete(s) <=> i = ChunkCount(m, size)
        /\ i = ChunkCount(m, size) => s.partial_message = m.payload
        /\ i # ChunkCount(m, size) => ReadyFor(i + 1, m, e, size, s)

(* The decoder takes each chunk of a message for what it is, by its size   *)
(* and its header; it has the message when it has the last chunk, and not  *)
(* before, whatever the length of the message and the size of the chunks   *)
(* (encode, parse_chunk).                                                  *)
THEOREM ChunkUnderstood ==
    ASSUME NEW W, NEW m, m.payload \in Seq(W), NEW e \in StreamStates(W), MayFollow(m, e),
           NEW size \in Nat \ {0}, NEW i \in 1 .. ChunkCount(m, size),
           NEW d \in StreamStates(W), ReadyFor(i, m, e, size, d)
    PROVE  Understood(W, Encode(m, e, size)[i], i, m, e, size, d)
<1> DEFINE L == Len(m.payload)
           count == ChunkCount(m, size)
           start == (i - 1) * size
           end == AtMost(i * size, L)
           fmt == IF i = 1 THEN SelectFormat(m, e) ELSE 3
           h == Header(m, e, fmt)
           data == SubSeq(m.payload, start + 1, end)
           chunk == Encode(m, e, size)[i]
           n == HeaderRead(h, d, 0)
           s == DataRead(n, data)
<1>1. L \in Nat \ {0}
  BY CodecAssumption DEF MayFollow, IsMessage
<1>2. /\ count \in Nat \ {0} /\ start \in 0 .. L - 1 /\ i * size = start + size
      /\ count * size >= L
      /\ \A j \in 1 .. count : (j - 1) * size \in 0 .. L - 1
  BY <1>1, Chunking DEF ChunkCount
<1>3. /\ end \in start + 1 .. L
      /\ end = IF start + size <= L THEN start + size ELSE L
  BY <1>1, <1>2 DEF AtMost
<1>4. chunk = [header |-> h, extended |-> << >>, data |-> data, number |-> i]
  <2>1. ~NeedsExtended(m)
    BY EncodedIsState
  <2>2. Encode(m, e, size)[i] =
            [header   |-> Header(m, e, IF i = 1 THEN SelectFormat(m, e) ELSE 3),
             extended |-> IF NeedsExtended(m) /\ (i = 1 \/ e.has_extended_timestamp)
                          THEN << m.timestamp >> ELSE << >>,
             data     |-> SubSeq(m.payload, (i - 1) * size + 1, AtMost(i * size, Len(m.payload))),
             number   |-> i]
    BY DEF Encode
  <2> QED BY <2>1, <2>2
<1>5. Csid(h.basic) = m.csid
  <2>1. fmt \in 0 .. 3
    BY FormatRange
  <2> QED BY <2>1, BasicHeaderRoundTrip DEF Header, MayFollow, IsMessage
<1>6. /\ data \in Seq(W) /\ Len(data) = end - start
      /\ SubSeq(m.payload, 1, start) \o data = SubSeq(m.payload, 1, end)
      /\ Len(SubSeq(m.payload, 1, start)) = start /\ SubSeq(m.payload, 1, end) \in Seq(W)
      /\ Len(SubSeq(m.payload, 1, end)) = end /\ SubSeq(m.payload, 1, L) = m.payload
  <2> HIDE DEF start, end
  <2>1. data \in Seq(W) /\ Len(data) = end - start
    BY <1>1, <1>2, <1>3
  <2>2. SubSeq(m.payload, 1, start) \o data = SubSeq(m.payload, 1, end)
    <3>1. 1 \in 1 .. L + 1 /\ start \in 1 - 1 .. L /\ end \in start .. L
      BY <1>1, <1>2, <1>3
    <3> HIDE DEF data, L
    <3>2. SubSeq(m.payload, 1, start) \o SubSeq(m.payload, start + 1, end)
              = SubSeq(m.payload, 1, end)
      BY <3>1, ConcatAdjacentSubSeq DEF L
    <3> QED BY <3>2 DEF data
  <2>3. /\ Len(SubSeq(m.payload, 1, start)) = start /\ SubSeq(m.payload, 1, end) \in Seq(W)
        /\ Len(SubSeq(m.payload, 1, end)) = end
    BY <1>1, <1>2, <1>3
  <2>4. SubSeq(m.payload, 1, L) = m.payload
    BY SubSeqFull
  <2> QED BY <2>1, <2>2, <2>3, <2>4
<1>7. i = 1 => start = 0 /\ SubSeq(m.payload, 1, start) = << >>
  BY <1>2, SubSeqEmpty
<1>8. i # 1 => start > 0
  <2>1. ASSUME i # 1 PROVE start > 0
    <3>1. (1 - 0) * size <= (i - 1) * size
      BY <2>1, LessTimes
    <3> QED BY <1>2, <3>1
  <2> QED BY <2>1
<1>9. /\ ~ExtendedPeeked(h, d) /\ ~ExtendedRead(h, d)
      /\ Agree(Encoded(m, e), n) /\ n \in StreamStates(W)
      /\ n.partial_message = SubSeq(m.payload, 1, start) /\ n.expected_length = L
      /\ ChunkDataLength(h, d, size) = AtMost(L - start, size)
  <2>1. CASE i = 1
    <3>1. Synced(e, d) /\ d.partial_message = << >> /\ h = Header(m, e, SelectFormat(m, e))
      BY <2>1 DEF ReadyFor
    <3>2. L - start = L
      <4> HIDE DEF L, start
      <4> QED BY <1>1, <1>7, <2>1
    <3> DEFINE g == Header(m, e, SelectFormat(m, e))
               k == HeaderRead(g, d, 0)
    <3>3. /\ ~ExtendedPeeked(g, d) /\ ~ExtendedRead(g, d) /\ Agree(Encoded(m, e), k)
          /\ k \in StreamStates(W) /\ k.partial_message = << >> /\ k.expected_length = L
          /\ ChunkDataLength(g, d, size) = AtMost(L, size)
      BY <3>1, FirstHeader
    <3>4. h = g /\ n = k
      BY <3>1
    <3> HIDE DEF g, k, h, n, start, L
    <3> QED BY <1>7, <2>1, <3>2, <3>3, <3>4
  <2>2. CASE i # 1
    <3>1. /\ Agree(Encoded(m, e), d) /\ d.partial_message = SubSeq(m.payload, 1, start)
          /\ d.expected_length = L /\ h = Header(m, e, 3)
      BY <2>2 DEF ReadyFor
    <3>2. Len(d.partial_message) = start /\ start > 0 /\ start < L
      BY <1>1, <1>2, <1>6, <1>8, <2>2, <3>1
    <3>3. d.partial_message # << >>
      BY <3>2
    <3> DEFINE g == Header(m, e, 3)
               k == HeaderRead(g, d, 0)
    <3>4. /\ ~ExtendedPeeked(g, d) /\ ~ExtendedRead(g, d) /\ Agree(Encoded(m, e), k)
          /\ k \in StreamStates(W) /\ k.partial_message = d.partial_message
          /\ k.expected_length = L
          /\ ChunkDataLength(g, d, size) = AtMost(Missing(m, d), size)
      <4>1. /\ Agree(Encoded(m, e), d) /\ d.expected_length = Len(m.payload)
            /\ Len(d.partial_message) < Len(m.payload)
        BY <3>1, <3>2
      <4>2. ~MessageComplete(d)
        BY <3>2, <4>1, <1>1 DEF MessageComplete
      <4> HIDE DEF start, end, data, s, n, chunk
      <4>3. Amid(m, e, d)
        BY <3>3, <4>1, <4>2 DEF Amid
      <4> QED BY <4>3, LaterHeader
    <3>5. h = g /\ n = k
      BY <3>1
    <3>6. Missing(m, d) = L - start
      BY <3>2 DEF Missing
    <3> HIDE DEF g, k, h, n, start, L
    <3> QED BY <3>1, <3>4, <3>5, <3>6
  <2> QED BY <2>1, <2>2
<1>10. ChunkDataLength(h, d, size) = Len(data)
  <2>1. AtMost(L - start, size) = end - start
    <3> HIDE DEF start, end, L
    <3> QED BY <1>1, <1>2, <1>3 DEF AtMost
  <2> QED BY <1>6, <1>9, <2>1
<1>11. /\ s \in StreamStates(W)
       /\ Agree(Encoded(m, e), s)
       /\ s.partial_message = SubSeq(m.payload, 1, end) /\ s.expected_length = L
  <2> HIDE DEF n, data, start, end, L
  <2>1. s \in StreamStates(W)
    <3>1. \A words \in Seq(W) : DataRead(n, words) \in StreamStates(W)
      <4>1. /\ n.timestamp \in 0 .. Threshold - 1 /\ n.timestamp_delta \in 0 .. Threshold - 1
            /\ n.message_length \in Nat /\ n.message_type \in Nat /\ n.stream_id \in Nat
        BY <1>9 DEF StreamStates
      <4> QED BY <1>9, <4>1, StatesClosed
    <3> QED BY <1>6, <3>1
  <2>2. /\ s.timestamp = n.timestamp /\ s.timestamp_delta = n.timestamp_delta
        /\ s.message_length = n.message_length /\ s.message_type = n.message_type
        /\ s.stream_id = n.stream_id /\ s.has_extended_timestamp = n.has_extended_timestamp
        /\ s.partial_message = n.partial_message \o data
        /\ s.expected_length = n.expected_length
    BY <1>9 DEF DataRead, StreamStates
  <2> QED BY <1>6, <1>9, <2>1, <2>2 DEF Agree
<1>12. MessageComplete(s) <=> i = count
  <2>1. MessageComplete(s) <=> end >= L
    BY <1>6, <1>11 DEF MessageComplete
  <2>2. i = count => end = L
    <3> HIDE DEF L, start, end, count
    <3> QED BY <1>1, <1>2, <1>3
  <2>3. ASSUME i # count PROVE end < L
    <3>1. i + 1 \in 1 .. count /\ (i + 1) - 1 = i
      BY <1>2, <2>3
    <3>2. i * size \in 0 .. L - 1
      BY <1>2, <3>1
    <3> QED BY <1>1, <1>2, <1>3, <3>2
  <2> QED BY <1>1, <1>3, <2>1, <2>2, <2>3
<1>13. i = count => s.partial_message = m.payload
  <2> HIDE DEF L, start, end, count, s
  <2>1. i = count => end = L
    BY <1>1, <1>2, <1>3
  <2> QED BY <1>6, <1>11, <2>1
<1>14. i # count => ReadyFor(i + 1, m, e, size, s)
  <2>1. ASSUME i # count PROVE ReadyFor(i + 1, m, e, size, s)
    <3>1. i + 1 \in 1 .. count /\ (i + 1) - 1 = i /\ i + 1 # 1
      BY <1>2, <2>1
    <3>2. i * size \in 0 .. L - 1
      BY <1>2, <3>1
    <3>3. end = ((i + 1) - 1) * size
      BY <1>1, <1>2, <1>3, <3>1, <3>2
    <3> QED BY <1>11, <3>1, <3>3 DEF ReadyFor
  <2> QED BY <2>1
<1>15. /\ Csid(chunk.header.basic) = m.csid
       /\ chunk.extended = << >> /\ chunk.data \in Seq(W) /\ chunk.number = i
       /\ ~ExtendedPeeked(chunk.header, d) /\ ~ExtendedRead(chunk.header, d)
       /\ ChunkDataLength(chunk.header, d, size) = Len(chunk.data)
       /\ s \in StreamStates(W) /\ Agree(Encoded(m, e), s)
       /\ MessageComplete(s) <=> i = count
       /\ i = count => s.partial_message = m.payload
       /\ i # count => ReadyFor(i + 1, m, e, size, s)
  <2> HIDE DEF s, n, data, count
  <2> QED BY <1>4, <1>5, <1>6, <1>9, <1>10, <1>11, <1>12, <1>13, <1>14 DEF n
<1>16. s = DataRead(HeaderRead(chunk.header, d, 0), chunk.data)
  <2> HIDE DEF h, data, chunk
  <2> QED BY <1>4
<1> HIDE DEF s, n, data, chunk
<1> QED BY <1>15, <1>16, Zenon DEF Understood, chunk

=============================================================================
