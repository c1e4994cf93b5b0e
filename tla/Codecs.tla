------------------------------- MODULE Codecs -------------------------------
(***************************************************************************)
(* The parsers of the legacy codecs: AVC (src/media/h264.rs) and AAC       *)
(* (src/media/aac.rs).  What a parser refuses is <<"Invalid", why>>.       *)
(***************************************************************************)
EXTENDS Flv, SequencesExt

Invalid(why) == <<"Invalid", why>>

----------------------------------------------------------------------------
(* AVC.                                                                    *)

(* The loops over parameter sets: n of them, each after its length.  The   *)
(* result is an option: None if the data end before.                       *)
ParameterSets(n, data) ==
    LET after[i \in 0 .. n] ==
            IF i = 0 THEN {[sets |-> << >>, rest |-> data]}
            ELSE {[sets |-> Append(s.sets, SubSeq(s.rest, 3, 2 + U16(s.rest))),
                   rest |-> Skip(s.rest, 2 + U16(s.rest))] :
                      s \in {t \in after[i - 1] :
                               Len(t.rest) >= 2 /\ Len(t.rest) >= 2 + U16(t.rest)}}
    IN  after[n]

(* AvcConfig::parse.                                                       *)
AvcConfig(data) ==
    IF Len(data) < 7 \/ data[1] # 1 THEN Invalid("AvcPacket")
    ELSE LET sps == ParameterSets(data[6] % 32, Skip(data, 6))
             pps == UNION {IF s.rest = << >> THEN {}
                           ELSE ParameterSets(s.rest[1], Tail(s.rest)) : s \in sps}
         IN  IF pps = {} THEN Invalid("AvcPacket")
             ELSE <<"SequenceHeader",
                    [profile |-> data[2], compatibility |-> data[3], level |-> data[4],
                     nalu_length_size |-> (data[5] % 4) + 1,
                     sps |-> (CHOOSE s \in sps : TRUE).sets,
                     pps |-> (CHOOSE s \in pps : TRUE).sets]>>

BigEndian(bytes) == FoldLeft(LAMBDA n, b : n * 256 + b, 0, bytes)

(* NaluIterator: the NAL units up to the first that is not all there.      *)
Nalus(data, size) ==
    LET from[at \in 0 .. Len(data)] ==
            IF size = 0 \/ at + size > Len(data) THEN << >>
            ELSE LET end == at + size + BigEndian(SubSeq(data, at + 1, at + size))
                 IN  IF end > Len(data) THEN << >>
                     ELSE << SubSeq(data, at + size + 1, end) >> \o from[end]
    IN  from[0]

Idr == 5

ContainsIdr(data, size) ==
    \E nalu \in Range(Nalus(data, size)) : nalu # << >> /\ nalu[1] % 32 = Idr

(* H264Data::parse, of what follows the first byte.                        *)
H264Data(data, nalu_length_size) ==
    IF Len(data) < 4 THEN Invalid("AvcPacket")
    ELSE LET rest == Skip(data, 4)
         IN  CASE data[1] = 0 -> AvcConfig(rest)
               [] data[1] = 1 -> <<"Frame", ContainsIdr(rest, nalu_length_size),
                                   Si24(Tail(data)), rest>>
               [] data[1] = 2 -> <<"EndOfSequence">>
               [] OTHER -> Invalid("AvcPacket")

----------------------------------------------------------------------------
(* AAC.                                                                    *)

SamplingFrequencies == << 96000, 88200, 64000, 48000, 44100, 32000, 24000, 22050, 16000,
                          12000, 11025, 8000, 7350, 0, 0, 0 >>

BitSet(value, bit) == (value \div 2 ^ bit) % 2 = 1

BitOr(a, b) ==
    MapThenSumSet(LAMBDA bit : IF BitSet(a, bit) \/ BitSet(b, bit) THEN 2 ^ bit ELSE 0, 0 .. 8)

(* An explicit frequency as the code puts it together: of the fifth byte   *)
(* seven bits, over bits of the fourth.                                    *)
ExplicitFrequency(data) ==
    (data[2] % 128) * 131072 + data[3] * 512 + BitOr(data[4] * 2, data[5] \div 2)

(* AudioSpecificConfig::parse: the bytes have the same place whether the   *)
(* frequency is explicit or not.                                           *)
AudioSpecificConfig(data) ==
    LET index == (data[1] % 8) * 2 + data[2] \div 128
    IN  IF Len(data) < 2 \/ (index = 15 /\ Len(data) < 5) THEN Invalid("AacPacket")
        ELSE <<"SequenceHeader",
               [audio_object_type |-> data[1] \div 8, sampling_frequency_index |-> index,
                sampling_frequency |-> IF index = 15 THEN ExplicitFrequency(data)
                                       ELSE SamplingFrequencies[index + 1],
                channel_configuration |-> (data[2] \div 8) % 16,
                samples_per_frame |-> IF (data[2] \div 4) % 2 = 1 THEN 960 ELSE 1024]>>

(* AacData::parse, of what follows the first byte.                         *)
AacData(data) ==
    IF data = << >> THEN Invalid("AacPacket")
    ELSE CASE data[1] = 0 -> AudioSpecificConfig(Tail(data))
           [] data[1] = 1 -> <<"Frame", Tail(data)>>
           [] OTHER -> Invalid("AacPacket")

(* A slip: the length is that of the frame without its header.             *)
AdtsLengthBare(frame_length) == frame_length
AdtsLength(frame_length) == frame_length + 7

(* generate_adts_header.                                                   *)
AdtsHeader(config, frame_length) ==
    LET profile == IF config.audio_object_type = 0 THEN 0 ELSE config.audio_object_type - 1
        channels == config.channel_configuration
        length == AdtsLength(frame_length)
    IN  << 255, 241,
           (profile % 4) * 64 + config.sampling_frequency_index * 4 + ((channels \div 4) % 2),
           (channels % 4) * 64 + ((length \div 2048) % 4),
           (length \div 8) % 256,
           (length % 8) * 32 + 31,
           252 >>
=============================================================================
