--------------------------------- MODULE Flv ---------------------------------
(***************************************************************************)
(* The payloads of audio and video messages as FLV tags                    *)
(* (src/media/flv.rs), and what the server makes of their first bytes      *)
(* (handle_audio and handle_video of src/server/connection.rs).  A payload *)
(* is a sequence of bytes.                                                 *)
(***************************************************************************)
EXTENDS Enhanced, Sequences

High(b) == b \div 16
Low(b) == b % 16

Skip(data, n) == SubSeq(data, n + 1, Len(data))
First(data, n) == SubSeq(data, 1, n)

U16(data) == data[1] * 256 + data[2]
U24(data) == data[1] * 65536 + data[2] * 256 + data[3]

(* A slip: the time is read without its sign.                              *)
Si24Unsigned(data) == U24(data)

(* A signed composition time: bit 23 is the sign.                          *)
Si24(data) == IF U24(data) >= 8388608 THEN U24(data) - 16777216 ELSE U24(data)

(* What a writer puts there (not in this code).                            *)
WriteSi24(t) ==
    LET u == t % 16777216
    IN  << u \div 65536, (u \div 256) % 256, u % 256 >>

Avc == 7
Aac == 10
VideoFrameType == [Keyframe |-> 1, InterFrame |-> 2, DisposableInterFrame |-> 3,
                   GeneratedKeyframe |-> 4, VideoInfoFrame |-> 5]
Keyframes == {VideoFrameType.Keyframe, VideoFrameType.GeneratedKeyframe}

(* VideoFrameType::from_byte and FlvTag::is_keyframe: all four high bits   *)
(* count, so nothing of enhanced RTMP is a keyframe.                       *)
IsKeyframe(data) == data # << >> /\ High(data[1]) \in Keyframes

IsAvcSequenceHeader(data) == Len(data) >= 2 /\ Low(data[1]) = Avc /\ data[2] = 0
IsAacSequenceHeader(data) == Len(data) >= 2 /\ High(data[1]) = Aac /\ data[2] = 0

IsEnhancedVideo(b) == b >= 128
IsEnhancedAudio(b) == High(b) = 9

(* handle_video: a generated keyframe counts only in enhanced form.        *)
VideoClass(data) ==
    IF IsEnhancedVideo(data[1])
    THEN [keyframe |-> High(data[1]) - 8 \in Keyframes, header |-> Low(data[1]) = 0]
    ELSE [keyframe |-> High(data[1]) = VideoFrameType.Keyframe,
          header |-> IsAvcSequenceHeader(data)]

(* handle_audio.                                                           *)
AudioIsHeader(data) ==
    IF IsEnhancedAudio(data[1]) THEN Low(data[1]) = 0 ELSE IsAacSequenceHeader(data)
=============================================================================
