----------------------------- MODULE EnhancedTag -----------------------------
(***************************************************************************)
(* The parsers of enhanced RTMP: video (src/media/enhanced_video.rs) and   *)
(* audio (src/media/enhanced_audio.rs).  The two differ in their packet    *)
(* types and in what a frame carries; the containers of several tracks are *)
(* the same.                                                               *)
(***************************************************************************)
EXTENDS Codecs, TLC

VideoCode == "avc1" :> <<97, 118, 99, 49>> @@ "hvc1" :> <<104, 118, 99, 49>>
             @@ "av01" :> <<97, 118, 48, 49>> @@ "vp09" :> <<118, 112, 48, 57>>
             @@ "vp08" :> <<118, 112, 48, 56>>

AudioCode == "mp4a" :> <<109, 112, 52, 97>> @@ "Opus" :> <<79, 112, 117, 115>>
             @@ "fLaC" :> <<102, 76, 97, 67>> @@ "ac-3" :> <<97, 99, 45, 51>>
             @@ "ec-3" :> <<101, 99, 45, 51>> @@ ".mp3" :> <<46, 109, 112, 51>>

VideoPacketType == [SequenceStart |-> 0, CodedFrames |-> 1, SequenceEnd |-> 2,
                    CodedFramesX |-> 3, Metadata |-> 4, Mpeg2TsSequenceStart |-> 5,
                    Multitrack |-> 6, ModEx |-> 7]

AudioPacketType == [SequenceStart |-> 0, CodedFrames |-> 1, SequenceEnd |-> 2,
                    MultichannelConfig |-> 4, Multitrack |-> 5, ModEx |-> 7]

OneTrack == 0
ManyTracks == 1
ManyTracksManyCodecs == 2

(* from_bytes: an option.                                                  *)
FromBytes(data, code) == {c \in DOMAIN code : code[c] = First(data, 4)}

(* Parse what follows a FOURCC, if there is one and it is known.           *)
WithCodec(data, code, why, Parse(_, _)) ==
    IF Len(data) < 4 THEN Invalid("Packet")
    ELSE IF FromBytes(data, code) = {} THEN Invalid(why)
    ELSE Parse(CHOOSE c \in FromBytes(data, code) : TRUE, Skip(data, 4))

(* ModEx: one extension is skipped, and what follows is a frame.           *)
WithModEx(data, code, Frame(_, _)) ==
    IF data = << >> THEN Invalid("Packet")
    ELSE LET rest == Skip(data, IF data[1] = 0 THEN 4 ELSE 1)
         IN  IF data[1] = 0 /\ Len(data) < 4 THEN Invalid("Packet")
             ELSE WithCodec(rest, code, "Packet", Frame)

----------------------------------------------------------------------------
(* Containers.  A track is [id, codec, data].  Of a container of several   *)
(* tracks every entry is told as a frame that begins with head, whatever   *)
(* the packet type of the container is.                                    *)

Track(id, codec, data) == [id |-> id, codec |-> codec, data |-> data]

(* The loops end, without an error, at an entry that is not all there;     *)
(* header is the size of what comes before its data.                       *)
EndsHere(data, header) ==
    Len(data) < header \/ Len(data) < header + U24(Skip(data, header - 3))

Entry(data, header) == SubSeq(data, header + 1, header + U24(Skip(data, header - 3)))

(* A slip: a track that is not all there counts.                           *)
SameCodecKeepsCut(data, codec, head) ==
    LET from[at \in 0 .. Len(data)] ==
            LET rest == Skip(data, at)
            IN  IF rest = << >> THEN << >>
                ELSE IF EndsHere(rest, 4)
                     THEN << Track(rest[1], codec, Append(head, Skip(rest, 4))) >>
                ELSE << Track(rest[1], codec, Append(head, Entry(rest, 4))) >>
                     \o from[at + 4 + U24(Tail(rest))]
    IN  from[0]

SameCodec(data, codec, head) ==
    LET from[at \in 0 .. Len(data)] ==
            LET rest == Skip(data, at)
            IN  IF EndsHere(rest, 4) THEN << >>
                ELSE << Track(rest[1], codec, Append(head, Entry(rest, 4))) >>
                     \o from[at + 4 + U24(Tail(rest))]
    IN  from[0]

(* An option: an unknown codec is an error of the whole.                   *)
EachCodec(data, code, head) ==
    LET from[at \in 0 .. Len(data)] ==
            LET rest == Skip(data, at)
                codec == FromBytes(Tail(rest), code)
                track == Track(rest[1], CHOOSE c \in codec : TRUE, Append(head, Entry(rest, 8)))
            IN  IF Len(rest) < 8 THEN {<< >>}
                ELSE IF codec = {} THEN {}
                ELSE IF EndsHere(rest, 8) THEN {<< >>}
                ELSE {<< track >> \o tracks : tracks \in from[at + 8 + U24(Skip(rest, 5))]}
    IN  from[0]

(* parse_multitrack; types are the packet types there are, TrackData       *)
(* parses the data of a single track.                                      *)
Multitrack(data, code, types, head, TrackData(_, _)) ==
    IF data = << >> \/ High(data[1]) > 2 \/ Low(data[1]) \notin types THEN Invalid("Packet")
    ELSE LET rest == Tail(data)
             Container(tracks) == <<"Multitrack", High(data[1]), tracks>>
             each == EachCodec(rest, code, head)
             Single(codec, body) ==
                LET track == TrackData(Low(data[1]), body)
                IN  IF track[1] = "Invalid" THEN track
                    ELSE Container(<< Track(rest[1], codec, track) >>)
         IN  CASE High(data[1]) = OneTrack ->
                    IF rest = << >> THEN Invalid("Packet")
                    ELSE WithCodec(Tail(rest), code, "Codec", Single)
               [] High(data[1]) = ManyTracks ->
                    WithCodec(rest, code, "Codec",
                              LAMBDA codec, body : Container(SameCodec(body, codec, head)))
               [] OTHER -> IF each = {} THEN Invalid("Codec")
                           ELSE Container(CHOOSE tracks \in each : TRUE)

----------------------------------------------------------------------------
(* Video: <<"SequenceHeader", codec, frame type, config>>, <<"Frame",      *)
(* codec, frame type, composition time, data>>, <<"SequenceEnd", codec>>.  *)

TypesOf(types) == {types[t] : t \in DOMAIN types}

(* A frame of a track is <<"Frame", frame type, composition time, data>>,  *)
(* and its type is InterFrame, whatever the frame type of the container.   *)
VideoTrackData(type, data) ==
    CASE type = VideoPacketType.SequenceStart -> <<"SequenceHeader", data>>
      [] type = VideoPacketType.SequenceEnd -> <<"SequenceEnd">>
      [] type = VideoPacketType.CodedFramesX -> <<"Frame", VideoFrameType.InterFrame, 0, data>>
      [] type = VideoPacketType.CodedFrames /\ Len(data) >= 3 ->
            <<"Frame", VideoFrameType.InterFrame, Si24(data), Skip(data, 3)>>
      [] OTHER -> Invalid("Packet")

ByVideoPacketType(type, frame_type, codec, data) ==
    CASE type \in {VideoPacketType.SequenceStart, VideoPacketType.Mpeg2TsSequenceStart} ->
            <<"SequenceHeader", codec, frame_type, data>>
      [] type = VideoPacketType.SequenceEnd -> <<"SequenceEnd", codec>>
      [] type = VideoPacketType.CodedFramesX -> <<"Frame", codec, frame_type, 0, data>>
      [] type = VideoPacketType.CodedFrames /\ Len(data) >= 3 ->
            <<"Frame", codec, frame_type, Si24(data), Skip(data, 3)>>
      [] OTHER -> Invalid("Packet")

(* EnhancedVideoData::parse.                                               *)
EnhancedVideoData(data) ==
    LET frame_type == High(data[1]) - 8
        type == Low(data[1])
        rest == Tail(data)
    IN  IF data = << >> \/ ~IsEnhancedVideo(data[1]) \/ frame_type \notin 1..5
           \/ type \notin TypesOf(VideoPacketType)
        THEN Invalid("Packet")
        ELSE CASE type = VideoPacketType.ModEx ->
                    WithModEx(rest, VideoCode,
                              LAMBDA codec, body : <<"Frame", codec, frame_type, 0, body>>)
               [] type = VideoPacketType.Multitrack ->
                    Multitrack(rest, VideoCode, TypesOf(VideoPacketType),
                               <<"Frame", VideoFrameType.InterFrame, 0>>, VideoTrackData)
               [] type = VideoPacketType.Metadata -> <<"Metadata", rest>>
               [] OTHER ->
                    WithCodec(rest, VideoCode, "Codec",
                              LAMBDA codec, body :
                                ByVideoPacketType(type, frame_type, codec, body))

----------------------------------------------------------------------------
(* Audio: <<"SequenceHeader", codec, config>>, <<"Frame", codec, data>>,   *)
(* <<"SequenceEnd", codec>>, <<"MultichannelConfig", codec, order, count,  *)
(* mapping>>.                                                              *)

AudioTrackData(type, data) ==
    CASE type = AudioPacketType.SequenceStart -> <<"SequenceHeader", data>>
      [] type = AudioPacketType.SequenceEnd -> <<"SequenceEnd">>
      [] type = AudioPacketType.CodedFrames -> <<"Frame", data>>
      [] OTHER -> Invalid("Packet")

ByAudioPacketType(type, codec, data) ==
    CASE type = AudioPacketType.SequenceStart -> <<"SequenceHeader", codec, data>>
      [] type = AudioPacketType.SequenceEnd -> <<"SequenceEnd", codec>>
      [] OTHER -> <<"Frame", codec, data>>

CustomOrder == 2

(* parse_multichannel_config; the mapping is an option.                    *)
MultichannelConfig(codec, data) ==
    IF data[1] > CustomOrder THEN Invalid("Packet")
    ELSE <<"MultichannelConfig", codec, data[1], data[2],
           IF data[1] = CustomOrder /\ Len(data) > 2 THEN {Skip(data, 2)} ELSE {}>>

(* EnhancedAudioData::parse.                                               *)
EnhancedAudioData(data) ==
    LET type == Low(data[1])
        rest == Tail(data)
    IN  IF data = << >> \/ ~IsEnhancedAudio(data[1]) \/ type \notin TypesOf(AudioPacketType)
        THEN Invalid("Packet")
        ELSE CASE type = AudioPacketType.ModEx ->
                    WithModEx(rest, AudioCode, LAMBDA codec, body : <<"Frame", codec, body>>)
               [] type = AudioPacketType.Multitrack ->
                    Multitrack(rest, AudioCode, TypesOf(AudioPacketType),
                               <<"Frame">>, AudioTrackData)
               [] type = AudioPacketType.MultichannelConfig ->
                    IF Len(rest) < 6 THEN Invalid("Packet")
                    ELSE WithCodec(rest, AudioCode, "Codec", MultichannelConfig)
               [] OTHER ->
                    WithCodec(rest, AudioCode, "Codec",
                              LAMBDA codec, body : ByAudioPacketType(type, codec, body))
=============================================================================
