---------------------------- MODULE RtmpMessage ----------------------------
(***************************************************************************)
(* Messages and the payloads of chunks (src/protocol/message.rs).  Errors  *)
(* are messages too, <<"Error", what>>, so that a parser has one result.   *)
(***************************************************************************)
EXTENDS Amf0, Messages

CONSTANT Msb                \* the most significant bit of a u32

(* Types that carry one u32, and events that do.                           *)
OneWord == {"SetChunkSize", "Abort", "Acknowledgement", "WindowAckSize"}

EventType == [StreamBegin |-> 0, StreamEof |-> 1, StreamDry |-> 2, SetBufferLength |-> 3,
              StreamIsRecorded |-> 4, PingRequest |-> 6, PingResponse |-> 7]

DataMessage(name, values, stream_id) == [name |-> name, values |-> values, stream_id |-> stream_id]

U32(n) == <<"u32", n>>

----------------------------------------------------------------------------
(* Encoding.  encode_command and encode_data leave the stream id to the    *)
(* chunk.                                                                  *)

EncodeCommand(cmd, order) ==
    EncodeAll(<< String(cmd.name), Number(cmd.transaction_id), cmd.command_object >>
              \o cmd.arguments, order)

EncodeData(data, order) == EncodeAll(<< String(data.name) >> \o data.values, order)

(* A user control event is <<name, u32>>, <<"SetBufferLength", stream,     *)
(* buffer>> or <<"Unknown", type, data>>.                                  *)
EncodeEvent(event) ==
    IF event[1] = "Unknown" THEN << <<"u16", event[2]>> >> \o event[3]
    ELSE << <<"u16", EventType[event[1]]>> >> \o [i \in 1..Len(event) - 1 |-> U32(event[i + 1])]

(* encode: the type and the payload.                                       *)
EncodeMessage(m, order) ==
    CASE m[1] \in OneWord -> << MessageType[m[1]], << U32(m[2]) >> >>
      [] m[1] = "SetPeerBandwidth" -> << MessageType[m[1]], << U32(m[2]), Byte(m[3]) >> >>
      [] m[1] = "UserControl" -> << MessageType[m[1]], EncodeEvent(m[2]) >>
      [] m[1] \in {"Audio", "Video"} -> << MessageType[m[1]], m[3] >>
      [] m[1] = "Aggregate" -> << MessageType[m[1]], m[2] >>
      [] m[1] = "Command" -> << MessageType[m[1]], EncodeCommand(m[2], order) >>
      [] m[1] = "CommandAmf3" -> << MessageType[m[1]], << Byte(0) >> \o EncodeCommand(m[2], order) >>
      [] m[1] = "Data" -> << MessageType[m[1]], EncodeData(m[2], order) >>
      [] m[1] = "DataAmf3" -> << MessageType[m[1]], << Byte(0) >> \o EncodeData(m[2], order) >>
      [] m[1] = "Unknown" -> << m[2], m[3] >>

----------------------------------------------------------------------------
(* Parsing.                                                                *)

Error(what) == <<"Error", what>>

Result(d, Make(_)) == IF d.error # "" THEN Error(d.error) ELSE Make(d.value)

(* A slip: what was read of a cut value counts.                            *)
RECURSIVE ArgumentsKeepCut(_, _)
ArgumentsKeepCut(d, values) ==
    IF d.buf = << >> THEN Give(d, values)
    ELSE LET v == Decode(d)
         IN  IF v.error = "" THEN ArgumentsKeepCut(v, Append(values, v.value))
             ELSE IF v.error = "UnexpectedEof" THEN Give(d, Append(values, Undefined))
             ELSE v

(* Values until the payload ends; one that is cut ends them quietly.       *)
RECURSIVE Arguments(_, _)
Arguments(d, values) ==
    IF d.buf = << >> THEN Give(d, values)
    ELSE LET v == Decode(d)
         IN  IF v.error = "" THEN Arguments(v, Append(values, v.value))
             ELSE IF v.error = "UnexpectedEof" THEN Give(d, values)
             ELSE v

(* parse_command.  A transaction id that is no number counts as zero, a    *)
(* missing command object as null.                                         *)
ParseCommand(payload, stream_id, kind) ==
    LET name == Decode(Decoder(payload, TRUE))
        id == Then(name, Decode)
        object == Then(id, LAMBDA d : IF d.buf = << >> THEN Give(d, Null) ELSE Decode(d))
        rest == Then(object, LAMBDA d : Arguments(d, << >>))
    IN  IF name.error = "" /\ Kind(name.value) # "String" THEN Error("InvalidCommand")
        ELSE Result(rest, LAMBDA values :
                << kind, Command(name.value[2],
                                 IF Kind(id.value) = "Number" THEN id.value[2] ELSE 0,
                                 object.value, values, stream_id) >>)

(* parse_data.                                                             *)
ParseData(payload, stream_id, kind) ==
    LET name == Decode(Decoder(payload, TRUE))
        rest == Then(name, LAMBDA d : Arguments(d, << >>))
    IN  Result(rest, LAMBDA values :
            << kind, DataMessage(Or(AsStr(name.value), ""), values, stream_id) >>)

(* The bytes of a user control event: two of type, four of each word.      *)
Bytes(payload) ==
    LET Width(token) == CASE token[1] = "u16" -> 2 [] token[1] = "u32" -> 4 [] OTHER -> 1
    IN  FoldLeft(LAMBDA bytes, token : bytes + Width(token), 0, payload)

(* parse_user_control.  An event has six bytes at least, an unknown one    *)
(* too.                                                                    *)
ParseUserControl(payload) ==
    IF Bytes(payload) < 6 THEN Error("InvalidChunkHeader")
    ELSE LET type == payload[1][2]
             known == {e \in DOMAIN EventType : EventType[e] = type}
         IN  IF type = EventType.SetBufferLength
             THEN IF Len(payload) < 3 THEN Error("InvalidChunkHeader")
                  ELSE <<"UserControl", <<"SetBufferLength", payload[2][2], payload[3][2]>> >>
             ELSE <<"UserControl",
                    IF known = {} THEN <<"Unknown", type, Tail(payload)>>
                    ELSE << CHOOSE e \in known : TRUE, payload[2][2] >> >>

(* The AMF3 forms carry AMF0 after a zero byte, which may be missing.      *)
SkipMarker(payload) ==
    IF payload # << >> /\ Head(payload) = Byte(0) THEN Tail(payload) ELSE payload

(* A slip: the size keeps its most significant bit.                        *)
SizeUnmasked(size) == size

(* The most significant bit of a chunk size is ignored.                    *)
Size(size) == size % Msb

(* from_chunk.                                                             *)
FromChunk(chunk) ==
    LET payload == chunk.payload
        type == chunk.message_type
        kind == Or({k \in DOMAIN MessageType : MessageType[k] = type}, "Unknown")
    IN  CASE kind \in OneWord ->
                IF payload = << >> THEN Error("InvalidChunkHeader")
                ELSE << kind, IF kind = "SetChunkSize" THEN Size(payload[1][2])
                              ELSE payload[1][2] >>
          [] kind = "SetPeerBandwidth" ->
                IF Len(payload) < 2 THEN Error("InvalidChunkHeader")
                ELSE << kind, payload[1][2], payload[2][2] >>
          [] kind = "UserControl" -> ParseUserControl(payload)
          [] kind \in {"Audio", "Video"} -> << kind, chunk.timestamp, payload >>
          [] kind = "Aggregate" -> << kind, payload >>
          [] kind \in {"Command", "CommandAmf3"} ->
                ParseCommand(IF kind = "Command" THEN payload ELSE SkipMarker(payload),
                             chunk.stream_id, kind)
          [] kind \in {"Data", "DataAmf3"} ->
                ParseData(IF kind = "Data" THEN payload ELSE SkipMarker(payload),
                          chunk.stream_id, kind)
          [] kind = "Unknown" -> << kind, type, payload >>

=============================================================================
