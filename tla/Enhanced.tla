------------------------------ MODULE Enhanced ------------------------------
(***************************************************************************)
(* Enhanced RTMP: codecs by their FOURCC (src/media/fourcc.rs),            *)
(* capabilities and their intersection (src/protocol/enhanced.rs).  A      *)
(* codec is its FOURCC string and a bitmask is the set of its flags.       *)
(***************************************************************************)
EXTENDS Integers, FiniteSets

VideoFourCc == {"avc1", "hvc1", "av01", "vp09", "vp08"}
AudioFourCc == {"mp4a", "Opus", "fLaC", "ac-3", "ec-3", ".mp3"}

FourCcFlags == {"CAN_DECODE", "CAN_ENCODE", "CAN_FORWARD"}

NoCodecs == << >>

(* EnhancedCapabilities::new.                                              *)
Disabled == [enabled |-> FALSE, caps_ex |-> {}, video_codecs |-> NoCodecs,
             audio_codecs |-> NoCodecs]

(* to_enhanced_capabilities of the configuration of either side.           *)
Capabilities(caps_ex, video_codecs, audio_codecs) ==
    [enabled |-> TRUE, caps_ex |-> caps_ex, video_codecs |-> video_codecs,
     audio_codecs |-> audio_codecs]

(* A slip: a codec both know counts, whatever they can do with it.         *)
CommonCodecsUnchecked(ours, theirs) ==
    [c \in DOMAIN ours \cap DOMAIN theirs |-> ours[c]]

(* The codecs both sides have, with what both can do with them, if that is *)
(* anything.                                                               *)
CommonCodecs(ours, theirs) ==
    [c \in {d \in DOMAIN ours \cap DOMAIN theirs : ours[d] \cap theirs[d] # {}} |->
        ours[c] \cap theirs[c]]

(* intersect.                                                              *)
Intersect(ours, theirs) ==
    IF ~ours.enabled \/ ~theirs.enabled THEN Disabled
    ELSE Capabilities(ours.caps_ex \cap theirs.caps_ex,
                      CommonCodecs(ours.video_codecs, theirs.video_codecs),
                      CommonCodecs(ours.audio_codecs, theirs.audio_codecs))

Modes == {"Auto", "LegacyOnly", "EnhancedOnly"}
=============================================================================
