----------------------------- MODULE MCMediaPath -----------------------------
(***************************************************************************)
(* Payloads as encoders write them, with what they mean.  The writers      *)
(* follow the layouts named in h264.rs, aac.rs, enhanced_video.rs and      *)
(* enhanced_audio.rs, those that the parsers misread included; nothing of  *)
(* the writers is in this code.                                            *)
(***************************************************************************)
EXTENDS MediaPath

Packet(data, nalu, callback, result) ==
    [data |-> data, nalu |-> nalu, meant |-> {<<callback, result>>}]

(* AVC: a configuration with one parameter set of each kind, frames of two *)
(* units under a length size.                                              *)
AvcHeader(size) ==
    Packet(<< 23, 0, 0, 0, 0, 1, 66, 0, 30, 252 + size - 1, 225, 0, 2, 103, 9, 1, 0, 1, 104 >>, 0,
           "on_video_frame",
           <<"SequenceHeader", [profile |-> 66, compatibility |-> 0, level |-> 30,
                                nalu_length_size |-> size,
                                sps |-> << << 103, 9 >> >>, pps |-> << << 104 >> >>]>>)

Sized(size, unit) == [i \in 1..size |-> IF i = size THEN Len(unit) ELSE 0] \o unit

AvcFrame(frame_type, size, unit, time) ==
    LET body == Sized(size, << 9 >>) \o Sized(size, unit)
    IN  Packet(<< frame_type * 16 + 7, 1 >> \o WriteSi24(time) \o body, size, "on_video_frame",
               <<"Frame", unit[1] = 101, time, body>>)

(* Enhanced RTMP.                                                          *)
Sized24(id, unit) == << id, 0, 0, Len(unit) >> \o unit

OwnCodec(id, codec, unit) == << id >> \o VideoCode[codec] \o << 0, 0, Len(unit) >> \o unit

Ex(frame_type, type) == << 128 + frame_type * 16 + type >>

ExFrame(frame_type, codec, time) ==
    Packet(Ex(frame_type, 1) \o VideoCode[codec] \o WriteSi24(time) \o << 7, 8 >>, 0,
           "on_enhanced_video_frame", <<"Frame", codec, frame_type, time, << 7, 8 >> >>)

Tracks(codec, head) ==
    << Track(0, codec, Append(head, << 5 >>)), Track(1, codec, Append(head, << 6, 7 >>)) >>

Inter(time) == <<"Frame", VideoFrameType.InterFrame, time>>
Key(time) == <<"Frame", VideoFrameType.Keyframe, time>>

MCVideoPackets ==
    {AvcHeader(2), AvcHeader(4), AvcFrame(1, 2, << 101, 1 >>, -2), AvcFrame(2, 4, << 65 >>, 40),
     ExFrame(1, "hvc1", -1),
     Packet(<< 23, 2, 0, 0, 0 >>, 0, "on_video_frame", <<"EndOfSequence">>)}

MCContainers ==
    {ExFrame(2, "av01", 8388607),
     Packet(Ex(1, 0) \o VideoCode["vp09"] \o << 4, 5 >>, 0, "on_enhanced_video_frame",
            <<"SequenceHeader", "vp09", 1, << 4, 5 >> >>),
     Packet(Ex(2, 2) \o VideoCode["vp08"], 0, "on_enhanced_video_frame",
            <<"SequenceEnd", "vp08">>),
     Packet(Ex(2, 3) \o VideoCode["av01"] \o << 3 >>, 0, "on_enhanced_video_frame",
            <<"Frame", "av01", 2, 0, << 3 >> >>),
     Packet(Ex(2, 4) \o << 2, 0 >>, 0, "on_enhanced_video_frame", <<"Metadata", << 2, 0 >> >>),
     Packet(Ex(1, 7) \o << 0, 0, 0, 5 >> \o VideoCode["hvc1"] \o << 9 >>, 0,
            "on_enhanced_video_frame", <<"Frame", "hvc1", 1, 0, << 9 >> >>),
     Packet(Ex(2, 6) \o << 1, 3 >> \o VideoCode["avc1"] \o WriteSi24(-5) \o << 6 >>, 0,
            "on_enhanced_video_frame",
            <<"Multitrack", OneTrack, << Track(3, "avc1", Append(Inter(-5), << 6 >>)) >> >>),
     Packet(Ex(1, 6) \o << 0, 3 >> \o VideoCode["avc1"] \o << 6 >>, 0,
            "on_enhanced_video_frame",
            <<"Multitrack", OneTrack, << Track(3, "avc1", <<"SequenceHeader", << 6 >> >>) >> >>),
     Packet(Ex(2, 6) \o << 19 >> \o VideoCode["av01"] \o Sized24(0, << 5 >>) \o Sized24(1, << 6, 7 >>), 0,
            "on_enhanced_video_frame", <<"Multitrack", ManyTracks, Tracks("av01", Inter(0))>>),
     Packet(Ex(2, 6) \o << 35 >> \o OwnCodec(0, "av01", << 5 >>) \o OwnCodec(1, "av01", << 6, 7 >>), 0,
            "on_enhanced_video_frame", <<"Multitrack", ManyTracksManyCodecs, Tracks("av01", Inter(0))>>),
     \* Misread: a keyframe; two frames with composition times.
     Packet(Ex(1, 6) \o << 3, 3 >> \o VideoCode["avc1"] \o << 6 >>, 0,
            "on_enhanced_video_frame",
            <<"Multitrack", OneTrack, << Track(3, "avc1", Append(Key(0), << 6 >>)) >> >>),
     Packet(Ex(2, 6) \o << 17 >> \o VideoCode["av01"] \o Sized24(0, WriteSi24(9) \o << 5 >>)
                                                    \o Sized24(1, WriteSi24(9) \o << 6, 7 >>), 0,
            "on_enhanced_video_frame", <<"Multitrack", ManyTracks, Tracks("av01", Inter(9))>>)}

(* AAC: 44100 Hz stereo and 7350 Hz mono in short frames, 44100 Hz stereo  *)
(* spelt out; and audio of enhanced RTMP.                                  *)
AacHeader(index, config, frequency, channels, samples) ==
    Packet(<< 175, 0 >> \o config, 0, "on_audio_frame",
           <<"SequenceHeader", [audio_object_type |-> 2, sampling_frequency_index |-> index,
                                sampling_frequency |-> frequency,
                                channel_configuration |-> channels,
                                samples_per_frame |-> samples]>>)

MCAudioPackets ==
    {AacHeader(4, << 18, 16 >>, 44100, 2, 1024), AacHeader(12, << 22, 12 >>, 7350, 1, 960),
     AacHeader(15, << 23, 128, 86, 34, 16 >>, 44100, 2, 1024),   \* misread
     Packet(<< 175, 1, 5, 6 >>, 0, "on_audio_frame", <<"Frame", << 5, 6 >> >>),
     Packet(<< 145 >> \o AudioCode["Opus"] \o << 1, 2 >>, 0, "on_enhanced_audio_frame",
            <<"Frame", "Opus", << 1, 2 >> >>),
     Packet(<< 148 >> \o AudioCode["fLaC"] \o << 2, 2, 0, 1 >>, 0, "on_enhanced_audio_frame",
            <<"MultichannelConfig", "fLaC", 2, 2, {<< 0, 1 >>}>>),
     Packet(<< 149, 17 >> \o AudioCode["ac-3"] \o Sized24(0, << 5 >>) \o Sized24(1, << 6, 7 >>), 0,
            "on_enhanced_audio_frame", <<"Multitrack", ManyTracks, Tracks("ac-3", <<"Frame">>)>>),
     Packet(<< 149, 0, 1 >> \o AudioCode["mp4a"] \o << 8 >>, 0, "on_enhanced_audio_frame",
            <<"Multitrack", OneTrack, << Track(1, "mp4a", <<"SequenceHeader", << 8 >> >>) >> >>)}

AllVideoPackets == MCVideoPackets \cup MCContainers
NoPackets == {}

ASSUME CodecAssumption == FourCcsNamed /\ ChannelsFit
=============================================================================
