------------------------------ MODULE Messages ------------------------------
(***************************************************************************)
(* What messages say (src/protocol/message.rs): the types, the commands    *)
(* both sides send, and what connect and its answer tell the other side.   *)
(* How they are laid out is in RtmpMessage.                                *)
(***************************************************************************)
EXTENDS AmfValue, Enhanced

MessageType == [SetChunkSize |-> 1, Abort |-> 2, Acknowledgement |-> 3, UserControl |-> 4,
                WindowAckSize |-> 5, SetPeerBandwidth |-> 6, Audio |-> 8, Video |-> 9,
                DataAmf3 |-> 15, CommandAmf3 |-> 17, Data |-> 18, Command |-> 20,
                Aggregate |-> 22]

Command(name, transaction_id, command_object, arguments, stream_id) ==
    [name |-> name, transaction_id |-> transaction_id, command_object |-> command_object,
     arguments |-> arguments, stream_id |-> stream_id]

----------------------------------------------------------------------------
(* connect and its answers.                                                *)

(* parse_fourcc_list, parse_fourcc_info_map: nothing if nothing is in it.  *)
ParseFourCcList(value) ==
    LET strings == UNION {AsStr(v) : v \in UNION {Range(a) : a \in AsArray(value)}}
    IN  IF strings = {} THEN None ELSE {strings}

ParseFourCcInfoMap(value) ==
    LET map == Or(AsObject(value), NoProperties)
        numeric == {k \in DOMAIN map : AsNumber(map[k]) # None}
    IN  IF numeric = {} THEN None ELSE {[k \in numeric |-> Or(AsNumber(map[k]), {})]}

(* ConnectParams::from_amf, of what the server goes by.                    *)
ConnectParams(object) ==
    [app |-> Or(AsStr(Get(object, "app")), ""),
     fourcc_list |-> ParseFourCcList(Get(object, "fourCcList")),
     video_map |-> ParseFourCcInfoMap(Get(object, "videoFourCcInfoMap")),
     audio_map |-> ParseFourCcInfoMap(Get(object, "audioFourCcInfoMap")),
     caps_ex |-> AsNumber(Get(object, "capsEx"))]

HasEnhancedRtmp(params) ==
    \/ params.fourcc_list # None \/ params.video_map # None
    \/ params.audio_map # None \/ params.caps_ex # None

(* The codecs a side declares: by its map, or by the list if it has no map *)
(* at all, which then means every capability.                              *)
Declared(params, map, known) ==
    IF map # None
    THEN [c \in known \cap DOMAIN Or(map, NoCodecs) |-> Or(map, NoCodecs)[c]]
    ELSE IF params.video_map = None /\ params.audio_map = None
         THEN [c \in known \cap Or(params.fourcc_list, {}) |-> FourCcFlags]
    ELSE NoCodecs

ToEnhancedCapabilities(params) ==
    IF ~HasEnhancedRtmp(params) THEN Disabled
    ELSE Capabilities(Or(params.caps_ex, {}),
                      Declared(params, params.video_map, VideoFourCc),
                      Declared(params, params.audio_map, AudioFourCc))

(* capsEx and the maps that are not empty, as properties of an object.     *)
CodecMap(codecs) == Object([c \in DOMAIN codecs |-> Number(codecs[c])])

WithMaps(properties, caps) ==
    LET ex == Put(properties, "capsEx", Number(caps.caps_ex))
        video == IF DOMAIN caps.video_codecs = {} THEN ex
                 ELSE Put(ex, "videoFourCcInfoMap", CodecMap(caps.video_codecs))
    IN  IF DOMAIN caps.audio_codecs = {} THEN video
        ELSE Put(video, "audioFourCcInfoMap", CodecMap(caps.audio_codecs))

(* Command::result, error, on_status.                                      *)
ResultCommand(id, properties, info) == Command("_result", id, properties, << info >>, 0)

ErrorCommand(id, properties, info) == Command("_error", id, properties, << info >>, 0)

StatusCommand(stream_id, level, code) ==
    Command("onStatus", 0, Null,
            << Object([level |-> String(level), code |-> String(code)]) >>, stream_id)

(* ConnectResponseBuilder::build; caps is an option.                       *)
ConnectResponse(id, caps) ==
    LET legacy == [fmsVer |-> String("FMS"), capabilities |-> Number(31)]
    IN  ResultCommand(id,
            Object(IF \E c \in caps : c.enabled THEN WithMaps(legacy, Or(caps, Disabled))
                   ELSE legacy),
            Object([level |-> String("status"), code |-> String("NetConnection.Connect.Success"),
                    objectEncoding |-> Number(0)]))
=============================================================================
