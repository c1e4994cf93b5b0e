-------------------------------- MODULE Wire --------------------------------
(***************************************************************************)
(* What one side writes and the other reads: messages through the chunk    *)
(* payloads of RtmpMessage, and values of AMF3 through an encoder and a    *)
(* decoder that keep tables between values.  A behaviour is either the     *)
(* exchange of one message or a conversation in AMF3.                      *)
(***************************************************************************)
EXTENDS RtmpMessage, Amf3

CONSTANTS Messages,         \* messages of this implementation
          Foreign,          \* <<type, payload, message meant>> of other encoders
          Values,           \* values sent in AMF3
          Order,            \* an order of all keys
          MaxValues         \* bound on the values sent in AMF3

VARIABLES exchange,         \* the message sent, its payload, how much arrived, what was read
          encoder,          \* Amf3Encoder
          bodies,           \* finished and not yet read
          decoder,          \* Amf3Decoder
          sent,             \* values not yet read, by body; the last one is open
          read,             \* the last value that was read: <<sent, read>>
          count             \* values sent so far

amf3Vars == << encoder, bodies, decoder, sent, read, count >>
vars == << exchange, encoder, bodies, decoder, sent, read, count >>

NotYet == [sent |-> <<"None">>, payload |-> << >>, whole |-> TRUE, got |-> <<"None">>]

Init ==
    /\ exchange = NotYet
    /\ encoder = Encoder3
    /\ bodies = << >>
    /\ decoder = Decoder3(<< >>)
    /\ sent = << << >> >>
    /\ read = << Null, Null >>
    /\ count = 0

----------------------------------------------------------------------------
(* A message, of which the first tokens arrive.                            *)

Chunk(type, payload) ==
    [message_type |-> type, stream_id |-> 1, timestamp |-> 7, payload |-> payload]

Receive(meant, type, payload, length) ==
    /\ exchange = NotYet /\ count = 0
    /\ exchange' = [sent |-> meant, payload |-> payload, whole |-> length = Len(payload),
                    got |-> FromChunk(Chunk(type, SubSeq(payload, 1, length)))]
    /\ UNCHANGED amf3Vars

Exchange ==
    \E m \in Messages :
        LET encoded == EncodeMessage(m, Order)
        IN  \E length \in 0..Len(encoded[2]) : Receive(m, encoded[1], encoded[2], length)

Interoperate ==
    \E f \in Foreign : Receive(f[3], f[1], f[2], Len(f[2]))

----------------------------------------------------------------------------
(* AMF3.                                                                   *)

EncodeValue(value) ==
    /\ exchange = NotYet /\ count < MaxValues
    /\ encoder' = Encode3(encoder, value, Order)
    /\ sent' = [sent EXCEPT ![Len(sent)] = Append(@, value)]
    /\ count' = count + 1
    /\ UNCHANGED << exchange, bodies, decoder, read >>

FinishBody ==
    /\ encoder.buf # << >>
    /\ bodies' = Append(bodies, encoder.buf)
    /\ encoder' = Finish(encoder)
    /\ sent' = Append(sent, << >>)
    /\ UNCHANGED << exchange, decoder, read, count >>

(* The reader resets its decoder for each body, as the writer clears its   *)
(* table with each.                                                        *)
NextBody ==
    /\ bodies # << >> /\ decoder.buf = << >>
    /\ decoder' = Reset3([decoder EXCEPT !.buf = Head(bodies)])
    /\ bodies' = Tail(bodies)
    /\ sent' = IF Head(sent) = << >> THEN Tail(sent) ELSE sent
    /\ UNCHANGED << exchange, encoder, read, count >>

DecodeOne ==
    /\ decoder.buf # << >> /\ decoder.error = ""
    /\ decoder' = Decode3(decoder)
    /\ read' = << Head(Head(sent)), IF decoder'.error = "" THEN decoder'.value ELSE Undefined >>
    /\ sent' = [sent EXCEPT ![1] = Tail(@)]
    /\ UNCHANGED << exchange, encoder, bodies, count >>

Amf3Next ==
    \/ \E value \in Values : EncodeValue(value)
    \/ FinishBody
    \/ NextBody
    \/ DecodeOne

Next == Exchange \/ Interoperate \/ Amf3Next

Spec == Init /\ [][Next]_vars

----------------------------------------------------------------------------
(* What a value becomes on its way: AMF0 has no integers and no bytes;     *)
(* AMF3 integers of more than 29 bits are doubles and its associative      *)
(* arrays are written as objects.                                          *)

RECURSIVE Normal(_), Normal3(_)

Members0(properties) == [k \in DOMAIN properties |-> Normal(properties[k])]

Normal(value) ==
    CASE Kind(value) = "Integer" -> Number(value[2])
      [] Kind(value) = "ByteArray" -> Null
      [] Kind(value) = "Array" -> Array([i \in DOMAIN value[2] |-> Normal(value[2][i])])
      [] Kind(value) \in {"Object", "EcmaArray", "TypedObject"} ->
            [value EXCEPT ![2] = Members0(@)]
      [] OTHER -> value

Members3(properties) == [k \in DOMAIN properties |-> Normal3(properties[k])]

Normal3(value) ==
    CASE Kind(value) = "Integer" /\ value[2] \notin IntMin..IntMax -> Number(value[2])
      [] Kind(value) = "Array" -> Array([i \in DOMAIN value[2] |-> Normal3(value[2][i])])
      [] Kind(value) \in {"Object", "EcmaArray"} -> Object(Members3(value[2]))
      [] Kind(value) = "TypedObject" -> [value EXCEPT ![2] = Members3(@)]
      [] OTHER -> value

Textual == {"Command", "CommandAmf3", "Data", "DataAmf3"}

Values0(values) == [i \in DOMAIN values |-> Normal(values[i])]

(* The message as the reader should have it: its stream is the one of the  *)
(* chunk, its timestamp too.                                               *)
AsRead(m) ==
    CASE m[1] \in {"Command", "CommandAmf3"} ->
            [m EXCEPT ![2].command_object = Normal(@), ![2].arguments = Values0(@),
                      ![2].stream_id = 1]
      [] m[1] \in {"Data", "DataAmf3"} -> [m EXCEPT ![2].values = Values0(@), ![2].stream_id = 1]
      [] m[1] \in {"Audio", "Video"} -> [m EXCEPT ![2] = 7]
      [] OTHER -> m

(* What parse_user_control refuses though encode writes it: an unknown     *)
(* event of fewer than four bytes (message.rs:459).                        *)
ShortEvent(m) == m[1] = "UserControl" /\ m[2][1] = "Unknown" /\ Bytes(m[2][3]) < 4

(* What the AMF0 decoder misreads: an object whose end is omitted though   *)
(* something follows, of which it swallows the first byte (amf0.rs:194-197,*)
(* whose comment says that it is put back), and values of AMF3, whose      *)
(* bytes it goes on to read as AMF0 (amf0.rs:132).                         *)
OmitsEnd(payload) ==
    \E i \in 2 .. Len(payload) - 1 :
        /\ payload[i] = <<"utf8", "">> /\ payload[i - 1] # Byte(Marker.String)
        /\ payload[i + 1] # Byte(Marker.ObjectEnd)

SwitchesToAmf3(payload) == Byte(Marker.AvmPlus) \in Range(payload)

(* A message that arrives whole is read as its writer, this one or         *)
(* another, meant it, the misreadings named above apart; a short event is  *)
(* refused (encode and from_chunk, message.rs:561 and 363).                *)
MessagesSurvive ==
    exchange.whole /\ ~OmitsEnd(exchange.payload) /\ ~SwitchesToAmf3(exchange.payload) =>
        IF ShortEvent(exchange.sent) THEN exchange.got[1] = "Error"
        ELSE exchange.got = AsRead(exchange.sent)

(* A message that breaks off is refused, or is read with the values that   *)
(* came whole and nothing else: the lenience of parse_command and          *)
(* parse_data (message.rs:492 and 534) invents nothing.                    *)
CutsInventNothing ==
    LET got == exchange.got
        meant == AsRead(exchange.sent)
    IN  ~exchange.whole /\ got[1] # "Error" /\ got[1] \in Textual =>
            /\ got[1] = meant[1] /\ got[2].name = meant[2].name
            /\ IF got[1] \in {"Data", "DataAmf3"} THEN IsPrefix(got[2].values, meant[2].values)
               ELSE /\ got[2].transaction_id = meant[2].transaction_id
                    /\ IsPrefix(got[2].arguments, meant[2].arguments)
                    /\ \/ got[2].command_object = meant[2].command_object
                       \/ got[2].command_object = Null /\ got[2].arguments = << >>

(* Every value of AMF3 is read as it was written, strings that refer back  *)
(* included, over any number of values and bodies: the tables of strings   *)
(* of both sides agree (amf3.rs:538 and 380).                              *)
ReferencesAgree ==
    Kind(read[2]) = Kind(Normal3(read[1])) /\ read[2] = Normal3(read[1])
=============================================================================
