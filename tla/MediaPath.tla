----------------------------- MODULE MediaPath -----------------------------
(***************************************************************************)
(* What becomes of the payloads a publisher sends: the connection          *)
(* classifies and parses them for the application, the registry keeps the  *)
(* headers and the last GOP, and a puller that joins gets what was kept    *)
(* and then what is sent (handle_audio and handle_video of                 *)
(* src/server/connection.rs, src/registry/entry.rs, src/client/puller.rs). *)
(***************************************************************************)
EXTENDS EnhancedTag, GopCache

CONSTANTS
    DeliveryMode,               \* media_delivery_mode of the handler
    VideoPackets, AudioPackets, \* packets: [data, nalu, meant]
    Plain,                      \* the packets that may come again and again
    MaxPushes,                  \* bound on the frames of an entry
    MaxOdd                      \* bound on other packets, and on packets that arrive cut

VARIABLES
    stream,     \* the publisher's message stream: publishing, nalu (video_nalu_length_size)
    entry,      \* the registry's entry: exists, video_header, audio_header (options)
    gop,        \* the entry's GOP buffer; its tags keep their data
    puller,     \* a client that plays: joined, nalu (nalu_length_size)
    pushed,     \* history: the tags pushed to the buffer
    declared,   \* history: the length size the publisher's last AVC header declares (option)
    in_force,   \* history: that of the message stream's last AVC header, 4 until one is seen
    last,       \* history: the last thing that happened
    odd         \* packets not in Plain, or cut, so far

vars == << stream, entry, gop, puller, pushed, declared, in_force, last, odd >>

Byte == 0 .. 255

(* What an AVC header may declare: the bytes of a NAL unit's length.       *)
LengthSize == 1 .. 4

ASSUME DeliveryModeAssumption == DeliveryMode \in {"RawFlv", "ParsedFrames", "Both"}

(* An empty payload goes no further than the start of the handlers.        *)
ASSUME PacketAssumption ==
    \A packet \in VideoPackets \cup AudioPackets : packet.data \in Seq(Byte) \ {<< >>}

IdleStream == [publishing |-> FALSE, nalu |-> 4]
NoEntry == [exists |-> FALSE, video_header |-> {}, audio_header |-> {}]
Nothing == [event |-> "none"]
Away == [joined |-> FALSE, nalu |-> 4]

Init ==
    /\ stream = IdleStream
    /\ entry = NoEntry
    /\ gop = EmptyGop /\ pushed = << >>
    /\ puller = Away
    /\ declared = {} /\ in_force = 4
    /\ last = Nothing
    /\ odd = 0

----------------------------------------------------------------------------
(* The publisher's connection.                                             *)

(* A slip: start_publish forgets the length size.                          *)
PublishAnew(size) ==
    /\ ~stream.publishing
    /\ stream' = [IdleStream EXCEPT !.publishing = TRUE]
    /\ entry' = [entry EXCEPT !.exists = TRUE]
    /\ declared' = {} /\ in_force' = size
    /\ last' = Nothing
    /\ UNCHANGED << gop, puller, pushed, odd >>

(* publish, of an entry that may have been there before, on a message      *)
(* stream whose length size is 4 if it is new.  If it has published        *)
(* another key before, the size is what that publish has left: neither     *)
(* stop nor start_publish touches it.                                      *)
Publish(size) ==
    /\ ~stream.publishing
    /\ stream' = [publishing |-> TRUE, nalu |-> size]
    /\ entry' = [entry EXCEPT !.exists = TRUE]
    /\ declared' = {} /\ in_force' = size
    /\ last' = Nothing
    /\ UNCHANGED << gop, puller, pushed, odd >>

(* The stream is closed or deleted, and the connection, which holds the    *)
(* key till then, ends; the entry stays for a while.                       *)
Unpublish ==
    /\ stream.publishing
    /\ stream' = [stream EXCEPT !.publishing = FALSE]
    /\ last' = Nothing
    /\ UNCHANGED << entry, gop, puller, pushed, declared, in_force, odd >>

(* The registry's cleanup takes only entries nobody watches.               *)
Expire ==
    /\ entry.exists /\ ~stream.publishing /\ ~puller.joined
    /\ entry' = NoEntry
    /\ gop' = EmptyGop /\ pushed' = << >>
    /\ last' = Nothing
    /\ UNCHANGED << stream, puller, declared, in_force, odd >>

(* What the parsers of the connection make of a payload: <<callback,       *)
(* result>>, or nothing.                                                   *)
AudioCallback(data) ==
    LET result == IF IsEnhancedAudio(data[1])
                  THEN <<"on_enhanced_audio_frame", EnhancedAudioData(data)>>
                  ELSE IF Len(data) >= 2 /\ High(data[1]) = Aac
                       THEN <<"on_audio_frame", AacData(Tail(data))>>
                  ELSE <<"", Invalid("Codec")>>
    IN  IF result[2][1] = "Invalid" THEN {} ELSE {result}

VideoCallback(data, nalu) ==
    LET result == IF IsEnhancedVideo(data[1])
                  THEN <<"on_enhanced_video_frame", EnhancedVideoData(data)>>
                  ELSE IF Len(data) >= 2 /\ Low(data[1]) = Avc
                       THEN <<"on_video_frame", H264Data(Tail(data), nalu)>>
                  ELSE <<"", Invalid("Codec")>>
    IN  IF result[2][1] = "Invalid" THEN {} ELSE {result}

(* The length size an AVC header declares (option).                        *)
DeclaredSize(data) ==
    {c[2][2].nalu_length_size : c \in {d \in VideoCallback(data, 4) : d[1] = "on_video_frame"}}

(* What the application is called with, by the mode of delivery.           *)
Told(callback) == IF DeliveryMode = "RawFlv" THEN {} ELSE callback

RawTag(data) == IF DeliveryMode = "ParsedFrames" THEN {} ELSE {data}

(* The length size after a frame was parsed.                               *)
NewSize(callback, nalu) ==
    IF \E c \in callback : c[1] = "on_video_frame" /\ c[2][1] = "SequenceHeader"
    THEN (CHOOSE c \in callback : TRUE)[2][2].nalu_length_size ELSE nalu

(* handle_message of the puller looks at the low bits alone.               *)
PullerVideo(data, nalu) ==
    LET result == <<"on_video_frame", H264Data(Tail(data), nalu)>>
    IN  IF Len(data) >= 2 /\ Low(data[1]) = Avc /\ result[2][1] # "Invalid" THEN {result} ELSE {}

(* A slip: the first header of an entry stays.                             *)
CacheVideoHeaderOnce(data) ==
    IF entry.video_header = {} THEN [entry EXCEPT !.video_header = {data}] ELSE entry

CacheVideoHeader(data) == [entry EXCEPT !.video_header = {data}]

(* The payloads that may arrive: a packet, and how much of it.             *)
Arrivals(packets) ==
    {<< packet, Len(packet.data) >> : packet \in packets \cap Plain}
    \cup IF odd = MaxOdd THEN {}
         ELSE UNION {{packet} \X (1..Len(packet.data)) : packet \in packets}

Arrives(packet, n) ==
    /\ stream.publishing
    /\ odd' = IF packet \in Plain /\ n = Len(packet.data) THEN odd ELSE odd + 1

(* handle_audio.                                                           *)
Audio(packet, n) ==
    LET data == First(packet.data, n)
    IN  /\ Arrives(packet, n)
        /\ entry' = IF AudioIsHeader(data) THEN [entry EXCEPT !.audio_header = {data}] ELSE entry
        /\ last' = [event |-> "audio", packet |-> packet, whole |-> n = Len(packet.data),
                    raw |-> RawTag(data), told |-> Told(AudioCallback(data))]
        /\ UNCHANGED << stream, gop, puller, pushed, declared, in_force >>

(* handle_video: the application, then the registry's caches, then the     *)
(* puller.  on_keyframe is told what the broadcast says.                   *)
Video(packet, n) ==
    LET data == First(packet.data, n)
        class == VideoClass(data)
        told == Told(VideoCallback(data, stream.nalu))
        tag == [keyframe |-> IsKeyframe(data), size |-> Len(data), data |-> data]
        heard == IF puller.joined THEN PullerVideo(data, puller.nalu) ELSE {}
    IN  /\ Arrives(packet, n)
        /\ stream' = [stream EXCEPT !.nalu = NewSize(told, @)]
        /\ puller' = [puller EXCEPT !.nalu = NewSize(heard, @)]
        /\ IF class.header
           THEN /\ entry' = CacheVideoHeader(data)
                /\ UNCHANGED << gop, pushed >>
           ELSE /\ Len(pushed) < MaxPushes
                /\ gop' = Push(gop, tag)
                /\ pushed' = Append(pushed, tag)
                /\ UNCHANGED entry
        /\ declared' = IF class.header THEN DeclaredSize(data) ELSE declared
        /\ in_force' = IF class.header /\ DeclaredSize(data) # {}
                       THEN CHOOSE size \in DeclaredSize(data) : TRUE ELSE in_force
        /\ last' = [event |-> "video", packet |-> packet, whole |-> n = Len(packet.data),
                    raw |-> RawTag(data), told |-> told,
                    keyframe |-> class.keyframe /\ ~class.header]

----------------------------------------------------------------------------
(* A puller joins: the headers, then the GOP (get_catchup_frames).         *)

Catchup == SetToSeq(entry.video_header) \o [i \in DOMAIN gop.frames |-> gop.frames[i].data]

(* The length size after each of the frames.                               *)
SizeAfter(frames, nalu) ==
    LET after[n \in 0 .. Len(frames)] ==
            IF n = 0 THEN nalu
            ELSE NewSize(PullerVideo(frames[n], after[n - 1]), after[n - 1])
    IN  after[Len(frames)]

Join ==
    /\ ~puller.joined /\ entry.exists
    /\ puller' = [joined |-> TRUE, nalu |-> SizeAfter(Catchup, 4)]
    /\ last' = Nothing
    /\ UNCHANGED << stream, entry, gop, pushed, declared, in_force, odd >>

Leave ==
    /\ puller.joined
    /\ puller' = Away
    /\ last' = Nothing
    /\ UNCHANGED << stream, entry, gop, pushed, declared, in_force, odd >>

Next ==
    \/ (\E size \in LengthSize : Publish(size)) \/ Unpublish \/ Expire \/ Join \/ Leave
    \/ \E arrival \in Arrivals(AudioPackets) : Audio(arrival[1], arrival[2])
    \/ \E arrival \in Arrivals(VideoPackets) : Video(arrival[1], arrival[2])

Spec == Init /\ [][Next]_vars
----------------------------------------------------------------------------
(* The size that is kept up to date frame by frame is the size of what is  *)
(* in the buffer, whatever was dropped, rejected or cleared, and it stays  *)
(* within the limit (push, gop.rs:82).                                     *)
SizeAccounted ==
    /\ gop.current_size = TotalSize(gop.frames)
    /\ gop.current_size <= MaxGopSize

(* What a late joiner is given has no hole: the buffer holds the last tags *)
(* pushed, or nothing (push, gop.rs:82).                                   *)
NoHole == IsSuffix(gop.frames, pushed)

(* A keyframe of a legacy codec, as the application and the broadcast are  *)
(* told of it, is the first frame of the buffer: the tag parser knows the  *)
(* keyframes of handle_video (push, gop.rs:80).  Not so with enhanced      *)
(* codecs, see KeyframeOpensGop.                                           *)
LegacyKeyframesLead ==
    \A i \in DOMAIN gop.frames :
        LET data == gop.frames[i].data
        IN  ~IsEnhancedVideo(data[1]) /\ VideoClass(data).keyframe => i = 1

(* Frames are given up only under pressure: after a push that is accepted, *)
(* the newest frame given up without a new GOP would not have fitted       *)
(* (push, gop.rs:92).                                                      *)
DropsOnlyUnderPressure ==
    [][\A n \in 1 .. Len(gop.frames) :
          /\ pushed' # pushed /\ pushed' # << >> /\ ~pushed'[Len(pushed')].keyframe
          /\ Len(gop'.frames) = Len(gop.frames) - n + 1
          /\ gop'.frames # << >>
          => TotalSize(gop'.frames) + gop.frames[n].size > MaxGopSize]_<<gop, pushed>>

(* Layouts that the parsers are known to misread.  Video: a container is   *)
(* told to hold inter frames whatever its own frame type is, and the       *)
(* entries of several tracks to be whole frames without composition time   *)
(* whatever the packet type is (enhanced_video.rs:358 and 393).            *)
MisreadVideo(data) ==
    /\ IsEnhancedVideo(data[1]) /\ Low(data[1]) = VideoPacketType.Multitrack /\ Len(data) > 1
    /\ \/ /\ High(data[1]) - 8 # VideoFrameType.InterFrame
          /\ Low(data[2]) \in {VideoPacketType.CodedFrames, VideoPacketType.CodedFramesX}
       \/ High(data[2]) # OneTrack /\ Low(data[2]) # VideoPacketType.CodedFramesX

(* Audio: entries of several tracks, likewise (enhanced_audio.rs:348 and   *)
(* 378), and a configuration with an explicit frequency, whose channels    *)
(* are looked for where the frequency is (aac.rs:133).                     *)
MisreadAudio(data) ==
    \/ /\ IsEnhancedAudio(data[1]) /\ Low(data[1]) = AudioPacketType.Multitrack /\ Len(data) > 1
       /\ High(data[2]) # OneTrack /\ Low(data[2]) # AudioPacketType.CodedFrames
    \/ /\ IsAacSequenceHeader(data) /\ Len(data) > 3
       /\ (data[3] % 8) * 2 + data[4] \div 128 = 15

Received == last.event \in {"audio", "video"}

MisreadLayout ==
    \/ last.event = "video" /\ MisreadVideo(last.packet.data)
    \/ last.event = "audio" /\ MisreadAudio(last.packet.data)

(* A payload that arrives whole and is of no layout named above is told as *)
(* what its writer meant, under the length size it was written for         *)
(* (EnhancedVideoData::parse, enhanced_video.rs:201, and its like).        *)
LayoutsRead ==
    Received /\ last.whole /\ ~MisreadLayout
        /\ DeliveryMode # "RawFlv" /\ last.packet.nalu \in {0, stream.nalu}
        => last.told = last.packet.meant

(* got is meant with an end of its last component missing.                 *)
Shortened(got, meant) ==
    /\ Len(got) = Len(meant)
    /\ \A i \in 1..Len(got) - 1 : got[i] = meant[i]
    /\ got = meant \/ IsPrefix(got[Len(got)], meant[Len(meant)])

(* A payload that breaks off, of no layout named above, is refused or      *)
(* loses its tail: no codec, composition time or track is made up from the *)
(* part that is there (enhanced_video.rs:290, enhanced_audio.rs:284,       *)
(* h264.rs:314).                                                           *)
CutsLoseTheTail ==
    Received /\ ~last.whole /\ ~MisreadLayout =>
        \A got \in last.told : \E meant \in last.packet.meant :
            /\ got[1] = meant[1] /\ got[2][1] = meant[2][1]
            /\ CASE got[1] = "on_video_frame" /\ got[2][1] = "Frame" ->
                        got[2][3] = meant[2][3] /\ IsPrefix(got[2][4], meant[2][4])
                 [] got[2][1] = "Multitrack" /\ got[2][2] = OneTrack ->
                        /\ [got[2][3][1] EXCEPT !.data = << >>] = [meant[2][3][1] EXCEPT !.data = << >>]
                        /\ Shortened(got[2][3][1].data, meant[2][3][1].data)
                 [] got[2][1] = "MultichannelConfig" ->
                        SubSeq(got[2], 1, 4) = SubSeq(meant[2], 1, 4)
                 [] OTHER -> Shortened(got[2], meant[2])

(* A frame of AVC with an IDR unit is told as a keyframe and no other: the *)
(* length size it is taken apart with is that of the last AVC header its   *)
(* message stream has seen, 4 until one is seen (stream.rs:69), whatever   *)
(* arrived broken or of another codec since.  That header may be of an     *)
(* earlier publish: frames of another size that come before a publisher's  *)
(* own header are taken apart wrongly, and nothing here forbids it.        *)
KeyframesTold ==
    last.event = "video" /\ last.whole /\ in_force = last.packet.nalu =>
        \A got \in last.told, meant \in last.packet.meant :
            got[1] = "on_video_frame" /\ got[2][1] = "Frame" => got[2][2] = meant[2][2]

(* What the puller's look at the low bits asks of enhanced packets: none   *)
(* that carries a timestamp extension has byte 1 where its FOURCC begins,  *)
(* or the puller takes it for an AVC header.                               *)
FourCcsNamed ==
    \A data \in {packet.data : packet \in VideoPackets} :
        IsEnhancedVideo(data[1]) /\ Low(data[1]) = Avc /\ Len(data) >= 6 /\ data[2] = 0
            => data[6] # 1

(* Whenever a puller joins, it takes frames apart as the publisher's last  *)
(* header says: the cached header and the live ones tell it the same       *)
(* (update_caches, entry.rs:129; puller.rs:128).                           *)
JoinerKnowsLengthSize ==
    puller.joined /\ declared # {} => declared = {puller.nalu}

(* Whatever frame follows it, an ADTS header made from a configuration     *)
(* tells its reader how long the frame is, and the rate and the channels   *)
(* of the configuration (generate_adts_header, aac.rs:233).                *)
FrameLengths == {0, 1, 1017, 2041, 8184}

(* What an ADTS header has room for: three bits of channels.               *)
ChannelsFit ==
    \A data \in {packet.data : packet \in AudioPackets} :
        IsAacSequenceHeader(data) /\ Len(data) >= 4 => (data[4] \div 8) % 16 < 8

AdtsDescribesFrame ==
    \A callback \in IF last.event = "audio" THEN last.told ELSE {} :
        callback[1] = "on_audio_frame" /\ callback[2][1] = "SequenceHeader" =>
            \A length \in FrameLengths :
                LET config == callback[2][2]
                    header == AdtsHeader(config, length)
                IN  /\ (header[4] % 4) * 2048 + header[5] * 8 + header[6] \div 32 = length + 7
                    /\ (header[3] % 64) \div 4 = config.sampling_frequency_index
                    /\ (header[3] % 2) * 4 + header[4] \div 64 = config.channel_configuration

(* What gop.rs:1 says of late joiners, that they get the last keyframe and *)
(* all frames since: after a keyframe, as the application and the          *)
(* broadcast are told of it, nothing older is left in the buffer.          *)
KeyframeOpensGop ==
    last.event = "video" /\ last.keyframe => Len(gop.frames) <= 1
=============================================================================
