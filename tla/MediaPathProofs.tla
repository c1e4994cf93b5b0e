--------------------------- MODULE MediaPathProofs ---------------------------
(***************************************************************************)
(* Proofs about what the registry keeps of a stream and what a client that *)
(* joins makes of it, for any packets, any size of the buffer and any      *)
(* number of frames.                                                       *)
(***************************************************************************)
EXTENDS MediaPath, GopCacheProofs, FiniteSetTheorems

Payload == Seq(Byte) \ {<< >>}

TagOf(data) == [keyframe |-> IsKeyframe(data), size |-> Len(data), data |-> data]

Tag == {TagOf(data) : data \in Payload}

(* What is pushed to the buffer has a size and is or is not a keyframe.    *)
LEMMA TagsAreSized ==
    /\ Sized(Tag)
    /\ \A data \in Payload : TagOf(data) \in Tag
<1>1. ASSUME NEW data \in Payload
      PROVE  TagOf(data).size \in Nat /\ TagOf(data).keyframe \in BOOLEAN
  <2>1. IsKeyframe(data) \in BOOLEAN
    BY DEF IsKeyframe
  <2> QED BY <2>1 DEF TagOf, Payload
<1> QED BY <1>1 DEF Sized, Tag

(* A cut packet is still a payload.                                        *)
LEMMA CutIsPayload ==
    ASSUME NEW packet \in VideoPackets, NEW n \in 1 .. Len(packet.data)
    PROVE  First(packet.data, n) \in Payload
<1>1. packet.data \in Seq(Byte)
  BY PacketAssumption
<1>2. First(packet.data, n) \in Seq(Byte) /\ Len(First(packet.data, n)) = n
  BY <1>1 DEF First
<1> QED BY <1>2 DEF Payload

(* What arrives of a packet is a beginning of it.                          *)
LEMMA ArrivalsAreCuts ==
    ASSUME NEW arrival \in Arrivals(VideoPackets)
    PROVE  /\ arrival[1] \in VideoPackets
           /\ arrival[2] \in 1 .. Len(arrival[1].data)
<1>1. \A packet \in VideoPackets : Len(packet.data) \in 1 .. Len(packet.data)
  <2> SUFFICES ASSUME NEW packet \in VideoPackets
               PROVE  Len(packet.data) \in 1 .. Len(packet.data)
    OBVIOUS
  <2>1. packet.data \in Seq(Byte) /\ packet.data # << >>
    BY PacketAssumption
  <2> QED BY <2>1
<1> QED BY <1>1 DEF Arrivals

----------------------------------------------------------------------------
(* The buffer.                                                             *)

(* s is the end of t, place by place.                                      *)
IsEndOf(s, t) ==
    /\ Len(s) <= Len(t)
    /\ \A i \in 1 .. Len(s) : s[i] = t[Len(t) - Len(s) + i]

(* The end of a sequence, position by position, is a suffix of it.         *)
LEMMA EndIsSuffix ==
    ASSUME NEW S, NEW s \in Seq(S), NEW t \in Seq(S), IsEndOf(s, t)
    PROVE  IsSuffix(s, t)
<1>1. Len(s) \in Nat /\ Len(t) \in Nat /\ Len(s) <= Len(t)
  BY DEF IsEndOf
<1>2. Reverse(s) \in Seq(S) /\ Len(Reverse(s)) = Len(s)
  BY <1>1 DEF Reverse
<1>3. Reverse(t) \in Seq(S) /\ Len(Reverse(t)) = Len(t)
  BY <1>1 DEF Reverse
<1>4. ASSUME NEW i \in 1 .. Len(s)
      PROVE  Reverse(s)[i] = Reverse(t)[i]
  <2>1. Len(s) - i + 1 \in 1 .. Len(s) /\ i \in 1 .. Len(t)
    BY <1>1
  <2>2. Len(t) - Len(s) + (Len(s) - i + 1) = Len(t) - i + 1
    BY <1>1
  <2>3. s[Len(s) - i + 1] = t[Len(t) - i + 1]
    BY <2>1, <2>2 DEF IsEndOf
  <2> QED BY <2>1, <2>3 DEF Reverse
<1>5. /\ SubSeq(Reverse(s), 1, Len(s)) \in Seq(S) /\ SubSeq(Reverse(t), 1, Len(s)) \in Seq(S)
      /\ Len(SubSeq(Reverse(s), 1, Len(s))) = Len(s)
      /\ Len(SubSeq(Reverse(t), 1, Len(s))) = Len(s)
      /\ \A i \in 1 .. Len(s) : /\ SubSeq(Reverse(s), 1, Len(s))[i] = Reverse(s)[i]
                                /\ SubSeq(Reverse(t), 1, Len(s))[i] = Reverse(t)[i]
  BY <1>1, <1>2, <1>3
<1>6. SubSeq(Reverse(s), 1, Len(s)) = SubSeq(Reverse(t), 1, Len(s))
  BY <1>4, <1>5, SeqEqual
<1> QED BY <1>1, <1>2, <1>3, <1>6 DEF IsSuffix, IsPrefix

(* No frame but the first of the buffer has the tag of a keyframe.         *)
TaggedLead == \A i \in DOMAIN gop.frames : gop.frames[i].keyframe => i = 1

(* What push leaves is accounted for, is the end of what was pushed and    *)
(* has the tag of a keyframe at its head alone.                            *)
BufferInv ==
    /\ gop \in Buffer(Tag)
    /\ pushed \in Seq(Tag)
    /\ Accounted(gop)
    /\ gop.current_size \in 0 .. MaxGopSize
    /\ IsEndOf(gop.frames, pushed)
    /\ TaggedLead

(* A new buffer, of a stream to which nothing was pushed.                  *)
LEMMA BufferInit == gop = EmptyGop /\ pushed = << >> => BufferInv
<1> SUFFICES ASSUME gop = EmptyGop, pushed = << >> PROVE BufferInv
  OBVIOUS
<1>1. gop \in Buffer(Tag) /\ Accounted(gop)
  BY EmptyAccounted
<1>2. gop.frames = << >> /\ gop.current_size = 0
  BY DEF EmptyGop
<1> QED BY <1>1, <1>2, GopAssumption DEF BufferInv, IsEndOf, TaggedLead

(* A push keeps the buffer an end of what was pushed, tags at its head.    *)
LEMMA PushKeeps ==
    ASSUME BufferInv, NEW tag \in Tag, gop' = Push(gop, tag), pushed' = Append(pushed, tag)
    PROVE  BufferInv'
<1> DEFINE old == Before(gop, tag)
           N == Len(old)
<1>1. /\ gop' \in Buffer(Tag) /\ Accounted(gop') /\ gop'.current_size \in 0 .. MaxGopSize
      /\ \E n \in 0 .. N : \/ gop'.frames = Append(SubSeq(old, n + 1, N), tag)
                           \/ gop'.frames = << >>
  BY TagsAreSized, PushFacts DEF BufferInv
<1>2. /\ pushed' \in Seq(Tag) /\ Len(pushed') = Len(pushed) + 1
      /\ pushed'[Len(pushed) + 1] = tag
      /\ \A i \in 1 .. Len(pushed) : pushed'[i] = pushed[i]
  BY AppendProperties DEF BufferInv
<1>3. /\ old \in Seq(Tag) /\ IsEndOf(old, pushed)
      /\ \A i \in 1 .. N : old[i].keyframe => i = 1
      /\ tag.keyframe => N = 0
  <2>1. gop.frames \in Seq(Tag) /\ pushed \in Seq(Tag)
    BY DEF BufferInv, Buffer
  <2>2. CASE tag.keyframe
    <3>1. old = << >> /\ N = 0
      BY <2>2 DEF Before
    <3> QED BY <2>1, <3>1 DEF IsEndOf
  <2>3. CASE ~tag.keyframe
    <3>1. old = gop.frames
      BY <2>3 DEF Before
    <3>2. \A i \in 1 .. N : old[i].keyframe => i = 1
      BY <2>1, <3>1 DEF BufferInv, TaggedLead
    <3> QED BY <2>1, <2>3, <3>1, <3>2 DEF BufferInv
  <2> QED BY <2>2, <2>3
<1> HIDE DEF old, N
<1>4. CASE gop'.frames = << >>
  BY <1>1, <1>2, <1>4 DEF BufferInv, IsEndOf, TaggedLead
<1>5. ASSUME NEW n \in 0 .. N, gop'.frames = Append(SubSeq(old, n + 1, N), tag)
      PROVE  BufferInv'
  <2>1. N \in Nat /\ N = Len(old) /\ N <= Len(pushed) /\ Len(pushed) \in Nat
    BY <1>3 DEF N, IsEndOf, BufferInv
  <2>2. /\ SubSeq(old, n + 1, N) \in Seq(Tag) /\ Len(SubSeq(old, n + 1, N)) = N - n
        /\ \A i \in 1 .. N - n : SubSeq(old, n + 1, N)[i] = old[n + i]
    BY <1>3, <2>1
  <2>3. /\ Len(gop'.frames) = N - n + 1 /\ gop'.frames[N - n + 1] = tag
        /\ \A i \in 1 .. N - n : gop'.frames[i] = old[n + i]
    BY <1>5, <2>2, AppendProperties
  <2>4. IsEndOf(gop'.frames, pushed')
    <3>1. Len(gop'.frames) <= Len(pushed')
      BY <1>2, <2>1, <2>3
    <3>2. ASSUME NEW i \in 1 .. N - n + 1
          PROVE  gop'.frames[i] = pushed'[(Len(pushed) + 1) - (N - n + 1) + i]
      <4>1. CASE i = N - n + 1
        BY <1>2, <2>1, <2>3, <4>1
      <4>2. CASE i # N - n + 1
        <5>1. i \in 1 .. N - n /\ n + i \in 1 .. N
          BY <2>1, <4>2
        <5>2. gop'.frames[i] = pushed[Len(pushed) - N + (n + i)]
          BY <1>3, <2>1, <2>3, <5>1 DEF IsEndOf
        <5>3. /\ (Len(pushed) + 1) - (N - n + 1) + i = Len(pushed) - N + (n + i)
              /\ Len(pushed) - N + (n + i) \in 1 .. Len(pushed)
          BY <2>1, <5>1
        <5> QED BY <1>2, <5>2, <5>3
      <4> QED BY <4>1, <4>2
    <3> QED BY <1>2, <2>3, <3>1, <3>2 DEF IsEndOf
  <2>5. TaggedLead'
    <3> SUFFICES ASSUME NEW i \in 1 .. N - n + 1, gop'.frames[i].keyframe
                 PROVE  i = 1
      <4>1. gop'.frames \in Seq(Tag)
        BY <1>1 DEF Buffer
      <4>2. DOMAIN gop'.frames = 1 .. N - n + 1
        BY <2>3, <4>1
      <4> QED BY <4>2 DEF TaggedLead
    <3>1. CASE i = N - n + 1
      BY <1>3, <2>1, <2>3, <3>1
    <3>2. CASE i # N - n + 1
      <4>1. i \in 1 .. N - n /\ n + i \in 1 .. N
        BY <2>1, <3>2
      <4>2. n + i = 1
        BY <1>3, <2>3, <4>1
      <4> QED BY <4>1, <4>2
    <3> QED BY <3>1, <3>2
  <2> QED BY <1>1, <1>2, <2>4, <2>5 DEF BufferInv
<1> QED BY <1>1, <1>4, <1>5

(* What a step does to the buffer.                                         *)
LEMMA BufferCases ==
    ASSUME [Next]_vars
    PROVE  \/ gop' = gop /\ pushed' = pushed
           \/ gop' = EmptyGop /\ pushed' = << >>
           \/ \E tag \in Tag : gop' = Push(gop, tag) /\ pushed' = Append(pushed, tag)
<1>1. CASE Unpublish \/ Join \/ Leave \/ UNCHANGED vars
  BY <1>1 DEF Unpublish, Join, Leave, vars
<1>0. ASSUME NEW size, Publish(size)
      PROVE  gop' = gop /\ pushed' = pushed
  BY <1>0 DEF Publish
<1>2. CASE Expire
  BY <1>2 DEF Expire
<1>3. ASSUME NEW packet, NEW n, Audio(packet, n)
      PROVE  gop' = gop /\ pushed' = pushed
  BY <1>3 DEF Audio
<1>4. ASSUME NEW packet \in VideoPackets, NEW n \in 1 .. Len(packet.data), Video(packet, n)
      PROVE  \/ gop' = gop /\ pushed' = pushed
             \/ \E tag \in Tag : gop' = Push(gop, tag) /\ pushed' = Append(pushed, tag)
  <2> DEFINE data == First(packet.data, n)
  <2>1. TagOf(data) \in Tag
    BY CutIsPayload, TagsAreSized
  <2>2. CASE VideoClass(data).header
    BY <1>4, <2>2 DEF Video
  <2>3. CASE ~VideoClass(data).header
    <3>1. gop' = Push(gop, TagOf(data)) /\ pushed' = Append(pushed, TagOf(data))
      BY <1>4, <2>3 DEF Video, TagOf
    <3> QED BY <2>1, <3>1
  <2> QED BY <2>2, <2>3
<1> QED BY <1>0, <1>1, <1>2, <1>3, <1>4, ArrivalsAreCuts DEF Next

(* Every step keeps the buffer right.                                      *)
LEMMA BufferStep ==
    ASSUME BufferInv, [Next]_vars
    PROVE  BufferInv'
<1>1. CASE gop' = gop /\ pushed' = pushed
  BY <1>1 DEF BufferInv, IsEndOf, TaggedLead, Accounted
<1>2. CASE gop' = EmptyGop /\ pushed' = << >>
  <2>1. (gop = EmptyGop /\ pushed = << >> => BufferInv)'
    BY BufferInit, PTL
  <2> QED BY <1>2, <2>1
<1>3. ASSUME NEW tag \in Tag, gop' = Push(gop, tag), pushed' = Append(pushed, tag)
      PROVE  BufferInv'
  BY <1>3, PushKeeps
<1> QED BY <1>1, <1>2, <1>3, BufferCases

(* The buffer is right in every reachable state.                           *)
LEMMA BufferInvariance == Spec => []BufferInv
<1>1. Init => BufferInv
  BY BufferInit DEF Init
<1>2. BufferInv /\ [Next]_vars => BufferInv'
  BY BufferStep
<1> QED BY <1>1, <1>2, PTL DEF Spec

(* The size the buffer keeps is the sum of the sizes of its frames and     *)
(* never exceeds the limit.                                                *)
THEOREM SizeIsAccounted == Spec => []SizeAccounted
<1>1. BufferInv => SizeAccounted
  BY GopAssumption DEF BufferInv, Accounted, SizeAccounted
<1> QED BY <1>1, BufferInvariance, PTL

(* A joiner gets the last frames of the stream, without a hole.            *)
THEOREM CatchupHasNoHole == Spec => []NoHole
<1>1. BufferInv => NoHole
  BY EndIsSuffix DEF BufferInv, Buffer, NoHole
<1> QED BY <1>1, BufferInvariance, PTL

(* No keyframe of a legacy codec, as handle_video has it, is behind the    *)
(* first frame of the buffer; of enhanced codecs the buffer knows none, so *)
(* a buffer of theirs may hold the frames of several GOPs.                 *)
THEOREM LegacyKeyframesLeadBuffer == Spec => []LegacyKeyframesLead
<1>1. ASSUME BufferInv
      PROVE  LegacyKeyframesLead
  <2> SUFFICES ASSUME NEW i \in DOMAIN gop.frames,
                      ~IsEnhancedVideo(gop.frames[i].data[1]),
                      VideoClass(gop.frames[i].data).keyframe
               PROVE  i = 1
    BY DEF LegacyKeyframesLead
  <2>1. gop.frames[i] \in Tag
    BY <1>1 DEF BufferInv, Buffer
  <2>2. PICK data \in Payload : gop.frames[i] = TagOf(data)
    BY <2>1 DEF Tag
  <2>3. gop.frames[i].data = data /\ gop.frames[i].keyframe = IsKeyframe(data) /\ data # << >>
    BY <2>2 DEF TagOf, Payload
  <2>4. IsKeyframe(data)
    BY <2>3 DEF VideoClass, IsKeyframe, Keyframes, VideoFrameType
  <2> QED BY <1>1, <2>3, <2>4 DEF BufferInv, TaggedLead
<1> QED BY <1>1, BufferInvariance, PTL

(* A frame leaves the buffer only when it is full or a new GOP begins.     *)
THEOREM FramesDropUnderPressure == Spec => DropsOnlyUnderPressure
<1> DEFINE A == \A n \in 1 .. Len(gop.frames) :
          /\ pushed' # pushed /\ pushed' # << >> /\ ~pushed'[Len(pushed')].keyframe
          /\ Len(gop'.frames) = Len(gop.frames) - n + 1
          /\ gop'.frames # << >>
          => TotalSize(gop'.frames) + gop.frames[n].size > MaxGopSize
<1>1. ASSUME BufferInv, [Next]_vars
      PROVE  A
  <2> SUFFICES ASSUME NEW n \in 1 .. Len(gop.frames),
                      pushed' # pushed, pushed' # << >>, ~pushed'[Len(pushed')].keyframe,
                      Len(gop'.frames) = Len(gop.frames) - n + 1,
                      gop'.frames # << >>
               PROVE  TotalSize(gop'.frames) + gop.frames[n].size > MaxGopSize
    OBVIOUS
  <2>1. PICK tag \in Tag : gop' = Push(gop, tag) /\ pushed' = Append(pushed, tag)
    BY <1>1, BufferCases
  <2>2. ~tag.keyframe
    BY <1>1, <2>1, AppendProperties DEF BufferInv
  <2> QED BY <1>1, <2>1, <2>2, TagsAreSized, PushDropsUnderPressure DEF BufferInv
<1> HIDE DEF A
<1>2. Spec => [][A]_<<gop, pushed>>
  BY <1>1, BufferInvariance, PTL DEF Spec
<1> QED BY <1>2 DEF A, DropsOnlyUnderPressure

----------------------------------------------------------------------------
(* The length size.  What the puller makes of a payload depends on nothing *)
(* but the payload, and only an AVC header tells it a size.                *)
PullerSize(data, size) == NewSize(PullerVideo(data, size), size)

(* A configuration record that is read has at least seven bytes, a version *)
(* of 1, and declares one of the sizes that lengths may have.              *)
LEMMA AvcConfigFacts ==
    ASSUME NEW data \in Seq(Byte)
    PROVE  \/ AvcConfig(data)[1] = "Invalid"
           \/ /\ AvcConfig(data)[1] = "SequenceHeader"
              /\ AvcConfig(data)[2].nalu_length_size \in LengthSize
              /\ Len(data) >= 7 /\ data[1] = 1
<1>1. CASE Len(data) < 7 \/ data[1] # 1
  BY <1>1 DEF AvcConfig, Invalid
<1>2. CASE Len(data) >= 7 /\ data[1] = 1
  <2>1. data[5] \in Byte
    BY <1>2
  <2>2. (data[5] % 4) + 1 \in LengthSize
    <3>1. \A b \in Int : (b % 4) + 1 \in 1 .. 4
      OBVIOUS
    <3>2. Byte \subseteq Int
      BY DEF Byte
    <3> QED BY <2>1, <3>1, <3>2 DEF LengthSize
  <2>3. \/ AvcConfig(data)[1] = "Invalid"
        \/ /\ AvcConfig(data)[1] = "SequenceHeader"
           /\ AvcConfig(data)[2].nalu_length_size = (data[5] % 4) + 1
    BY <1>2 DEF AvcConfig, Invalid
  <2> QED BY <1>2, <2>2, <2>3
<1> QED BY <1>1, <1>2

(* A sequence header is read from packets of type 0 only, whatever size of *)
(* lengths the reader goes by.                                             *)
LEMMA H264Facts ==
    ASSUME NEW data \in Seq(Byte), Len(data) >= 1, NEW size
    PROVE  /\ data[1] = 0 => H264Data(data, size) = H264Data(data, 4)
           /\ data[1] = 0 => \/ H264Data(data, size)[1] = "Invalid"
                             \/ /\ H264Data(data, size)[1] = "SequenceHeader"
                                /\ H264Data(data, size)[2].nalu_length_size \in LengthSize
                                /\ Len(data) >= 11 /\ data[5] = 1
           /\ data[1] # 0 => H264Data(data, size)[1] # "SequenceHeader"
<1>1. CASE Len(data) < 4
  BY <1>1 DEF H264Data, Invalid
<1>2. CASE Len(data) >= 4 /\ data[1] = 0
  <2> DEFINE rest == Skip(data, 4)
  <2>1. rest \in Seq(Byte) /\ Len(rest) = Len(data) - 4 /\ \A i \in 1 .. Len(rest) : rest[i] = data[i + 4]
    <3>1. Len(data) \in Nat /\ rest = SubSeq(data, 5, Len(data))
      BY DEF Skip
    <3> HIDE DEF rest
    <3>2. \A i \in 5 .. Len(data) : data[i] \in Byte
      BY <3>1
    <3>3. /\ SubSeq(data, 5, Len(data)) \in Seq(Byte)
          /\ Len(SubSeq(data, 5, Len(data))) = IF 5 <= Len(data) THEN Len(data) - 5 + 1 ELSE 0
      BY <3>1, <3>2, SubSeqProperties
    <3>4. rest \in Seq(Byte)
      BY <3>1, <3>3, Zenon
    <3>5. Len(rest) = IF 5 <= Len(data) THEN Len(data) - 5 + 1 ELSE 0
      BY <3>1, <3>3, Zenon
    <3>6. Len(data) \in Nat /\ Len(data) >= 4
      BY <1>2, <3>1
    <3>7. Len(rest) = Len(data) - 4
      <4>1. \A n \in Nat : n >= 4 => (IF 5 <= n THEN n - 5 + 1 ELSE 0) = n - 4
        OBVIOUS
      <4> QED BY <3>5, <3>6, <4>1
    <3>8. \A i \in 1 .. Len(data) - 4 : SubSeq(data, 5, Len(data))[i] = data[5 + i - 1]
      BY <1>2, <3>1, SubSeqProperties
    <3> QED BY <1>2, <3>1, <3>8, <3>7, <3>4
  <2>2. H264Data(data, size) = AvcConfig(rest) /\ H264Data(data, 4) = AvcConfig(rest)
    BY <1>2 DEF H264Data
  <2> HIDE DEF rest
  <2>3. Len(rest) >= 7 => rest[1] = data[5] /\ Len(data) >= 11
    BY <1>2, <2>1
  <2> QED BY <1>2, <2>1, <2>2, <2>3, AvcConfigFacts
<1>3. CASE Len(data) >= 4 /\ data[1] # 0
  BY <1>3 DEF H264Data, Invalid
<1> QED BY <1>1, <1>2, <1>3

(* The size after a payload, by what the payload is to the puller.         *)
LEMMA PullerSizeFacts ==
    ASSUME NEW data \in Payload, NEW size \in LengthSize
    PROVE  LET sees == Len(data) >= 2 /\ Low(data[1]) = Avc
               result == H264Data(Tail(data), size)
           IN  /\ sees /\ result[1] = "SequenceHeader"
                      => PullerSize(data, size) = result[2].nalu_length_size
               /\ ~sees \/ result[1] # "SequenceHeader" => PullerSize(data, size) = size
<1> DEFINE sees == Len(data) >= 2 /\ Low(data[1]) = Avc
           result == H264Data(Tail(data), size)
           told == <<"on_video_frame", result>>
<1>1. CASE sees /\ result[1] = "SequenceHeader"
  <2>1. PullerVideo(data, size) = {told}
    BY <1>1 DEF PullerVideo
  <2>2. told[1] = "on_video_frame" /\ told[2] = result
    OBVIOUS
  <2> HIDE DEF told
  <2>3. (CHOOSE c \in {told} : TRUE) = told
    OBVIOUS
  <2>4. NewSize({told}, size) = result[2].nalu_length_size
    BY <1>1, <2>2, <2>3 DEF NewSize
  <2> QED BY <1>1, <2>1, <2>4 DEF PullerSize
<1>2. CASE ~sees \/ result[1] # "SequenceHeader"
  <2>1. PullerVideo(data, size) \in SUBSET {told}
    BY DEF PullerVideo
  <2>2. told[2] = result
    OBVIOUS
  <2>3. ~sees => PullerVideo(data, size) = {}
    BY DEF PullerVideo
  <2> HIDE DEF told
  <2>4. NewSize(PullerVideo(data, size), size) = size
    BY <1>2, <2>1, <2>2, <2>3 DEF NewSize
  <2> QED BY <1>2, <2>4 DEF PullerSize
<1> QED BY <1>1, <1>2

(* A payload without its first byte.                                       *)
LEMMA TailFacts ==
    ASSUME NEW data \in Payload, Len(data) >= 2
    PROVE  /\ Tail(data) \in Seq(Byte) /\ Len(Tail(data)) = Len(data) - 1
           /\ \A i \in 1 .. Len(data) - 1 : Tail(data)[i] = data[i + 1]
<1>1. data \in Seq(Byte) /\ data # << >>
  BY DEF Payload
<1> QED BY <1>1

(* The puller always goes by a size that lengths may have.                 *)
LEMMA PullerSizeType ==
    ASSUME NEW data \in Payload, NEW size \in LengthSize
    PROVE  PullerSize(data, size) \in LengthSize
<1> DEFINE result == H264Data(Tail(data), size)
<1>1. CASE Len(data) >= 2 /\ Low(data[1]) = Avc /\ result[1] = "SequenceHeader"
  <2>1. Tail(data) \in Seq(Byte) /\ Len(Tail(data)) >= 1
    BY <1>1, TailFacts DEF Payload
  <2>2. result[2].nalu_length_size \in LengthSize
    BY <1>1, <2>1, H264Facts
  <2> QED BY <1>1, <2>2, PullerSizeFacts
<1>2. CASE ~(Len(data) >= 2 /\ Low(data[1]) = Avc) \/ result[1] # "SequenceHeader"
  BY <1>2, PullerSizeFacts
<1> QED BY <1>1, <1>2

(* A header tells the puller what it declares, if it declares anything.    *)
LEMMA HeaderTells ==
    ASSUME NEW data \in Payload, VideoClass(data).header, DeclaredSize(data) # {},
           NEW size \in LengthSize
    PROVE  DeclaredSize(data) = {PullerSize(data, size)}
<1> DEFINE tail == Tail(data)
           result == H264Data(tail, 4)
           told == <<"on_video_frame", result>>
<1>1. \A c \in VideoCallback(data, 4) :
          IF IsEnhancedVideo(data[1]) THEN c[1] = "on_enhanced_video_frame"
          ELSE /\ c = told /\ result[1] # "Invalid"
               /\ Len(data) >= 2 /\ Low(data[1]) = Avc
  <2> DEFINE enhanced == <<"on_enhanced_video_frame", EnhancedVideoData(data)>>
             other == <<"", Invalid("Codec")>>
  <2>1. /\ enhanced[1] = "on_enhanced_video_frame"
        /\ told[1] = "on_video_frame" /\ told[2] = result /\ other[2][1] = "Invalid"
    BY DEF Invalid
  <2>2. /\ IsEnhancedVideo(data[1]) => VideoCallback(data, 4) \in SUBSET {enhanced}
        /\ ~IsEnhancedVideo(data[1]) /\ Len(data) >= 2 /\ Low(data[1]) = Avc
              => VideoCallback(data, 4) = IF told[2][1] = "Invalid" THEN {} ELSE {told}
        /\ ~IsEnhancedVideo(data[1]) /\ ~(Len(data) >= 2 /\ Low(data[1]) = Avc)
              => VideoCallback(data, 4) = IF other[2][1] = "Invalid" THEN {} ELSE {other}
    <3> HIDE DEF result
    <3> QED BY DEF VideoCallback, result
  <2> HIDE DEF enhanced, other, told
  <2> QED BY <2>1, <2>2
<1>2. ~IsEnhancedVideo(data[1])
  BY <1>1 DEF DeclaredSize
<1>3. Len(data) >= 2 /\ Low(data[1]) = Avc /\ data[2] = 0
  BY <1>2 DEF VideoClass, IsAvcSequenceHeader
<1>4. tail \in Seq(Byte) /\ Len(tail) >= 1 /\ tail[1] = 0
  BY <1>3, TailFacts DEF Payload
<1>5. result[1] # "Invalid"
  BY <1>1, <1>2 DEF DeclaredSize
<1> HIDE DEF tail
<1>6. result[1] = "SequenceHeader" /\ H264Data(tail, size) = result
  BY <1>4, <1>5, H264Facts
<1>7. PullerSize(data, size) = result[2].nalu_length_size
  BY <1>3, <1>6, PullerSizeFacts DEF tail
<1>8. DeclaredSize(data) = {result[2].nalu_length_size}
  <2>1. \A c \in VideoCallback(data, 4) : c = told
    BY <1>1, <1>2
  <2>2. told[1] = "on_video_frame" /\ told[2] = result
    OBVIOUS
  <2> HIDE DEF told, result
  <2> QED BY <2>1, <2>2 DEF DeclaredSize
<1> QED BY <1>7, <1>8

(* Other payloads tell it nothing; of the enhanced ones those it mistakes  *)
(* for an AVC packet need the hypothesis.                                  *)
Misread(data) ==
    IsEnhancedVideo(data[1]) /\ Low(data[1]) = Avc /\ Len(data) >= 6 /\ data[2] = 0 /\ data[6] = 1

(* A payload the registry does not take for a header, and that does not    *)
(* read as one to the puller, leaves the size the puller goes by.          *)
LEMMA OthersTellNothing ==
    ASSUME NEW data \in Payload, ~VideoClass(data).header, ~Misread(data),
           NEW size \in LengthSize
    PROVE  PullerSize(data, size) = size
<1> DEFINE tail == Tail(data)
           result == H264Data(tail, size)
<1>1. CASE ~(Len(data) >= 2 /\ Low(data[1]) = Avc)
  BY <1>1, PullerSizeFacts
<1>2. CASE Len(data) >= 2 /\ Low(data[1]) = Avc
  <2>1. /\ tail \in Seq(Byte) /\ Len(tail) = Len(data) - 1
        /\ tail[1] = data[2] /\ Len(data) \in Nat
        /\ Len(data) >= 6 => tail[5] = data[6]
    BY <1>2, TailFacts DEF Payload
  <2>2. /\ result[1] = "SequenceHeader" => tail[1] = 0 /\ Len(tail) >= 11 /\ tail[5] = 1
    <3>1. Len(tail) >= 1
      BY <1>2, <2>1
    <3> HIDE DEF tail
    <3> QED BY <2>1, <3>1, H264Facts
  <2>3. CASE data[2] # 0
    BY <2>1, <2>2, <2>3, PullerSizeFacts
  <2>4. CASE data[2] = 0
    <3>1. IsEnhancedVideo(data[1])
      BY <1>2, <2>4 DEF VideoClass, IsAvcSequenceHeader
    <3>2. ~(Len(data) >= 6 /\ data[6] = 1)
      BY <1>2, <2>4, <3>1 DEF Misread
    <3>3. result[1] # "SequenceHeader"
      BY <2>1, <2>2, <3>2
    <3> QED BY <3>3, PullerSizeFacts
  <2> QED BY <2>4, <2>3
<1> QED BY <1>1, <1>2

(* What a joiner is told: the sizes after each frame of what it gets.      *)
LEMMA SizeAfterIs ==
    ASSUME NEW frames, Len(frames) \in Nat, NEW nalu,
           NEW f \in [0 .. Len(frames) -> LengthSize], f[0] = nalu,
           \A n \in 1 .. Len(frames) : f[n] = PullerSize(frames[n], f[n - 1])
    PROVE  SizeAfter(frames, nalu) = f[Len(frames)]
<1> DEFINE N == Len(frames)
           Is(t) == t = [n \in 0 .. N |-> IF n = 0 THEN nalu
                                          ELSE NewSize(PullerVideo(frames[n], t[n - 1]), t[n - 1])]
           after == CHOOSE t : Is(t)
<1>1. Is(f)
  BY DEF PullerSize
<1>2. Is(after)
  BY <1>1
<1>3. SizeAfter(frames, nalu) = after[N]
  BY DEF SizeAfter
<1> HIDE DEF after
<1> DEFINE S == {k \in 0 .. N : after[k] # f[k]}
<1>4. SUFFICES ASSUME S # {} PROVE FALSE
  <2>1. N \in 0 .. N
    OBVIOUS
  <2> QED BY <1>3, <1>4, <2>1
<1>5. PICK k \in S : \A m \in S : k <= m
  <2>1. S \in SUBSET Nat
    OBVIOUS
  <2> HIDE DEF S
  <2> QED BY <1>4, <2>1, LeastNatural
<1>6. k # 0
  BY <1>1, <1>2
<1>7. k - 1 \in 0 .. N /\ k - 1 \notin S
  BY <1>5, <1>6
<1> QED BY <1>1, <1>2, <1>5, <1>6, <1>7

(* The sequence of the elements of a set of at most one.                   *)
LEMMA OneElement == SetToSeq({}) = << >> /\ \A x : SetToSeq({x}) = << x >>
<1>1. SetToSeq({}) = << >>
  <2>1. << >> \in [1 .. 0 -> {}] /\ IsInjective(<< >>)
    BY DEF IsInjective
  <2>2. \A f \in [1 .. 0 -> {}] : f = << >>
    OBVIOUS
  <2>3. Cardinality({}) = 0
    BY FS_EmptySet
  <2> QED BY <2>1, <2>3, <2>2 DEF SetToSeq
<1>2. ASSUME NEW x PROVE SetToSeq({x}) = << x >>
  <2>1. << x >> \in [1 .. 1 -> {x}] /\ IsInjective(<< x >>)
    BY DEF IsInjective
  <2>2. \A f \in [1 .. 1 -> {x}] : f = << x >>
    OBVIOUS
  <2>3. Cardinality({x}) = 1
    BY FS_Singleton
  <2> QED BY <2>1, <2>2, <2>3 DEF SetToSeq
<1> QED BY <1>1, <1>2

(* Nothing in the buffer tells the puller a size; the header that is kept  *)
(* tells it the size the publisher declared last, and so does what it has  *)
(* received.                                                               *)
Quiet == {data \in Payload : ~VideoClass(data).header /\ ~Misread(data)}

QuietTag == {TagOf(data) : data \in Quiet}

HeaderKept ==
    declared # {} /\ entry.exists =>
        \E header \in Payload :
            /\ entry.video_header = {header}
            /\ \A size \in LengthSize : declared = {PullerSize(header, size)}

JoinerInv ==
    /\ gop \in Buffer(QuietTag)
    /\ entry = [exists |-> entry.exists, video_header |-> entry.video_header,
                audio_header |-> entry.audio_header]
    /\ entry.video_header = {} \/ \E header \in Payload : entry.video_header = {header}
    /\ puller \in [joined : BOOLEAN, nalu : LengthSize]
    /\ HeaderKept
    /\ JoinerKnowsLengthSize

(* Tags that tell the puller nothing are tags.                             *)
LEMMA QuietIsSized == Sized(QuietTag)
BY TagsAreSized DEF Sized, Quiet, QuietTag, Tag

(* Initially no stream has declared a size, and no puller has joined.      *)
LEMMA JoinerInit == Init => JoinerInv
<1> SUFFICES ASSUME Init PROVE JoinerInv
  OBVIOUS
<1>1. gop \in Buffer(QuietTag)
  BY EmptyAccounted DEF Init
<1>2. puller = [joined |-> FALSE, nalu |-> 4] /\ 4 \in LengthSize
  BY DEF Init, Away, LengthSize
<1> QED
  BY <1>1, <1>2 DEF Init, JoinerInv, HeaderKept, JoinerKnowsLengthSize, NoEntry

(* No packet of a publisher, whole or broken off, is of an enhanced codec  *)
(* and reads as an AVC header, provided the packets name their codecs.     *)
LEMMA CutIsNotMisread ==
    ASSUME FourCcsNamed, NEW packet \in VideoPackets, NEW n \in 1 .. Len(packet.data)
    PROVE  ~Misread(First(packet.data, n))
<1> DEFINE whole == packet.data
           cut == First(whole, n)
<1>1. whole \in Seq(Byte) /\ Len(whole) \in Nat
  BY PacketAssumption
<1>2. n \in Nat /\ n >= 1 /\ n <= Len(whole)
  BY <1>1
<1> HIDE DEF whole
<1>3. Len(cut) = n /\ \A i \in 1 .. n : cut[i] = whole[i]
  BY <1>1, <1>2 DEF First
<1>4. IsEnhancedVideo(whole[1]) /\ Low(whole[1]) = Avc /\ Len(whole) >= 6 /\ whole[2] = 0
         => whole[6] # 1
  BY DEF FourCcsNamed, whole
<1>5. ASSUME n >= 6
      PROVE  cut[1] = whole[1] /\ cut[2] = whole[2] /\ cut[6] = whole[6] /\ Len(whole) >= 6
  BY <1>1, <1>2, <1>3, <1>5
<1> HIDE DEF cut
<1>6. ~Misread(cut)
  BY <1>2, <1>3, <1>4, <1>5 DEF Misread
<1> QED BY <1>6 DEF cut, whole

(* What a joiner gets ends with the size the publisher declared.           *)
LEMMA JoinTells ==
    ASSUME JoinerInv
    PROVE  /\ SizeAfter(Catchup, 4) \in LengthSize
           /\ entry.exists /\ declared # {} => declared = {SizeAfter(Catchup, 4)}
<1> DEFINE datas == [i \in DOMAIN gop.frames |-> gop.frames[i].data]
           M == Len(gop.frames)
<1>1. gop.frames \in Seq(QuietTag) /\ M \in Nat /\ DOMAIN gop.frames = 1 .. M
  BY DEF JoinerInv, Buffer
<1>2. ASSUME NEW i \in 1 .. M PROVE gop.frames[i].data \in Quiet
  <2>1. gop.frames[i] \in QuietTag
    BY <1>1
  <2> QED BY <2>1 DEF QuietTag, TagOf
<1>3. datas \in Seq(Payload) /\ Len(datas) = M /\ \A i \in 1 .. M : datas[i] = gop.frames[i].data
  BY <1>1, <1>2 DEF Quiet
<1>4. \A i \in 1 .. M, size \in LengthSize : PullerSize(datas[i], size) = size
  BY <1>2, <1>3, OthersTellNothing DEF Quiet
<1>5. Catchup = SetToSeq(entry.video_header) \o datas
  BY DEF Catchup
<1>6. 4 \in LengthSize
  BY DEF LengthSize
<1> HIDE DEF datas, M
<1>7. CASE entry.video_header = {}
  <2>1. Catchup = datas
    BY <1>3, <1>5, <1>7, OneElement
  <2> DEFINE f == [n \in 0 .. M |-> 4]
  <2>2. f \in [0 .. M -> LengthSize] /\ f[0] = 4
    BY <1>1, <1>6
  <2>3. \A n \in 1 .. M : f[n] = PullerSize(datas[n], f[n - 1])
    BY <1>1, <1>4, <1>6
  <2>4. f[M] = 4
    BY <1>1
  <2> HIDE DEF f
  <2>5. SizeAfter(Catchup, 4) = 4
    BY <1>1, <1>3, <2>1, <2>2, <2>3, <2>4, SizeAfterIs
  <2> QED BY <1>6, <1>7, <2>5 DEF JoinerInv, HeaderKept
<1>8. ASSUME NEW header \in Payload, entry.video_header = {header}
      PROVE  /\ SizeAfter(Catchup, 4) \in LengthSize
             /\ entry.exists /\ declared # {} => declared = {SizeAfter(Catchup, 4)}
  <2> DEFINE told == PullerSize(header, 4)
             f == [n \in 0 .. M + 1 |-> IF n = 0 THEN 4 ELSE told]
  <2>1. Catchup = << header >> \o datas
    BY <1>5, <1>8, OneElement
  <2>2. /\ Len(Catchup) = M + 1 /\ Catchup[1] = header
        /\ \A n \in 2 .. M + 1 : Catchup[n] = datas[n - 1]
    BY <1>1, <1>3, <2>1
  <2>3. told \in LengthSize
    BY <1>6, PullerSizeType
  <2> HIDE DEF told
  <2>4. f \in [0 .. M + 1 -> LengthSize] /\ f[0] = 4 /\ f[1] = told /\ f[M + 1] = told
    BY <1>1, <1>6, <2>3
  <2>5. ASSUME NEW n \in 1 .. M + 1
        PROVE  f[n] = PullerSize(Catchup[n], f[n - 1])
    <3>1. CASE n = 1
      BY <2>2, <2>4, <3>1 DEF told
    <3>2. CASE n # 1
      <4>1. n \in 2 .. M + 1 /\ n - 1 \in 1 .. M /\ n - 1 \in 0 .. M + 1 /\ n - 1 # 0
        BY <1>1, <3>2
      <4>2. f[n] = told /\ f[n - 1] = told
        BY <1>1, <4>1
      <4> QED BY <1>4, <2>2, <2>3, <4>1, <4>2
    <3> QED BY <3>1, <3>2
  <2> HIDE DEF f
  <2>6. SizeAfter(Catchup, 4) = told
    <3>1. Len(Catchup) \in Nat
      BY <1>1, <2>2
    <3> QED BY <2>2, <2>4, <2>5, <3>1, SizeAfterIs
  <2>7. entry.exists /\ declared # {} => declared = {told}
    BY <1>6, <1>8 DEF JoinerInv, HeaderKept, told
  <2> QED BY <2>3, <2>6, <2>7
<1> QED BY <1>7, <1>8 DEF JoinerInv

(* A video packet: the puller that is there hears what the header          *)
(* declares, and the one that joins later reads it in the catch-up.        *)
LEMMA VideoKeepsJoiner ==
    ASSUME FourCcsNamed, JoinerInv,
           NEW packet \in VideoPackets, NEW n \in 1 .. Len(packet.data), Video(packet, n)
    PROVE  JoinerInv'
<1> DEFINE data == First(packet.data, n)
           heard == IF puller.joined THEN PullerVideo(data, puller.nalu) ELSE {}
<1>1. data \in Payload /\ ~Misread(data)
  BY CutIsPayload, CutIsNotMisread
<1>2. /\ puller' = [puller EXCEPT !.nalu = NewSize(heard, @)]
      /\ IF VideoClass(data).header
         THEN entry' = [entry EXCEPT !.video_header = {data}] /\ gop' = gop
         ELSE gop' = Push(gop, TagOf(data)) /\ entry' = entry
      /\ declared' = IF VideoClass(data).header THEN DeclaredSize(data) ELSE declared
  BY DEF Video, CacheVideoHeader, TagOf
<1> HIDE DEF data
<1>3. /\ puller.joined \in BOOLEAN /\ puller.nalu \in LengthSize
      /\ puller = [joined |-> puller.joined, nalu |-> puller.nalu]
  BY DEF JoinerInv
<1>4. NewSize(heard, puller.nalu)
          = IF puller.joined THEN PullerSize(data, puller.nalu) ELSE puller.nalu
  <2>1. CASE puller.joined
    BY <2>1 DEF PullerSize
  <2>2. CASE ~puller.joined
    <3>1. heard = {}
      BY <2>2
    <3> QED BY <2>2, <3>1 DEF NewSize
  <2> QED BY <2>1, <2>2
<1> HIDE DEF heard
<1>5. /\ puller' \in [joined : BOOLEAN, nalu : LengthSize]
      /\ puller'.joined = puller.joined
      /\ puller'.nalu = IF puller.joined THEN PullerSize(data, puller.nalu) ELSE puller.nalu
  <2>1. puller' = [joined |-> puller.joined, nalu |-> NewSize(heard, puller.nalu)]
    BY <1>2, <1>3
  <2> QED BY <1>1, <1>3, <1>4, <2>1, PullerSizeType
<1>6. CASE VideoClass(data).header
  <2>1. /\ entry' = [exists |-> entry.exists, video_header |-> {data},
                     audio_header |-> entry.audio_header]
        /\ gop' = gop /\ declared' = DeclaredSize(data)
    BY <1>2, <1>6 DEF JoinerInv
  <2>2. entry'.exists = entry.exists /\ entry'.video_header = {data}
        /\ entry'.audio_header = entry.audio_header
    BY <2>1
  <2>3. \A size \in LengthSize : declared' # {} => declared' = {PullerSize(data, size)}
    BY <1>1, <1>6, <2>1, HeaderTells
  <2>4. HeaderKept'
    BY <1>1, <2>2, <2>3 DEF HeaderKept
  <2>5. JoinerKnowsLengthSize'
    BY <1>3, <1>5, <2>3 DEF JoinerKnowsLengthSize
  <2> QED BY <1>1, <1>5, <2>1, <2>2, <2>4, <2>5 DEF JoinerInv
<1>7. CASE ~VideoClass(data).header
  <2>1. gop' = Push(gop, TagOf(data)) /\ entry' = entry /\ declared' = declared
    BY <1>2, <1>7
  <2>2. TagOf(data) \in QuietTag
    BY <1>1, <1>7 DEF QuietTag, Quiet
  <2>3. gop' \in Buffer(QuietTag)
    BY <2>1, <2>2, QuietIsSized, PushFacts DEF JoinerInv
  <2>4. puller'.nalu = puller.nalu
    BY <1>1, <1>3, <1>5, <1>7, OthersTellNothing
  <2>5. HeaderKept' /\ JoinerKnowsLengthSize'
    BY <1>5, <2>1, <2>4 DEF JoinerInv, HeaderKept, JoinerKnowsLengthSize
  <2> QED BY <1>5, <2>1, <2>3, <2>5 DEF JoinerInv
<1> QED BY <1>6, <1>7

(* Every step keeps the joiner's knowledge.                                *)
LEMMA JoinerStep ==
    ASSUME FourCcsNamed, JoinerInv, [Next]_vars
    PROVE  JoinerInv'
<1> USE DEF JoinerInv, HeaderKept, JoinerKnowsLengthSize
<1>1. ASSUME NEW size, Publish(size)
      PROVE  JoinerInv'
  <2>1. /\ entry' = [exists |-> TRUE, video_header |-> entry.video_header,
                     audio_header |-> entry.audio_header]
        /\ declared' = {} /\ gop' = gop /\ puller' = puller
    BY <1>1 DEF Publish
  <2> QED BY <2>1
<1>2. CASE Unpublish
  BY <1>2 DEF Unpublish
<1>3. CASE Expire
  <2>1. gop' \in Buffer(QuietTag)
    BY <1>3, EmptyAccounted DEF Expire
  <2> QED BY <1>3, <2>1 DEF Expire, NoEntry
<1>4. CASE Join
  <2>1. /\ puller' = [joined |-> TRUE, nalu |-> SizeAfter(Catchup, 4)] /\ entry.exists
        /\ entry' = entry /\ gop' = gop /\ declared' = declared
    BY <1>4 DEF Join
  <2> QED BY <2>1, JoinTells
<1>5. CASE Leave
  <2>1. puller' = [joined |-> FALSE, nalu |-> 4] /\ 4 \in LengthSize
    BY <1>5 DEF Leave, Away, LengthSize
  <2> QED BY <1>5, <2>1 DEF Leave
<1>6. ASSUME NEW packet, NEW n, Audio(packet, n)
      PROVE  JoinerInv'
  <2>1. /\ gop' = gop /\ puller' = puller /\ declared' = declared
        /\ entry'.exists = entry.exists /\ entry'.video_header = entry.video_header
        /\ entry' = [exists |-> entry.exists, video_header |-> entry.video_header,
                     audio_header |-> entry'.audio_header]
    BY <1>6 DEF Audio
  <2> QED BY <2>1
<1>7. ASSUME NEW packet \in VideoPackets, NEW n \in 1 .. Len(packet.data), Video(packet, n)
      PROVE  JoinerInv'
  BY <1>7, VideoKeepsJoiner
<1>8. CASE UNCHANGED vars
  BY <1>8 DEF vars
<1> QED
  BY <1>1, <1>2, <1>3, <1>4, <1>5, <1>6, <1>7, <1>8, ArrivalsAreCuts DEF Next

(* A client that plays takes frames apart as the publisher's last header   *)
(* says, however late it joins, unless an enhanced packet is taken for an  *)
(* AVC header.                                                             *)
THEOREM JoinersKnowLengthSize ==
    ASSUME FourCcsNamed
    PROVE  Spec => []JoinerKnowsLengthSize
<1>1. JoinerInv /\ [Next]_vars => JoinerInv'
  BY JoinerStep
<1>2. JoinerInv => JoinerKnowsLengthSize
  BY DEF JoinerInv
<1> QED BY JoinerInit, <1>1, <1>2, PTL DEF Spec

----------------------------------------------------------------------------
(* What the application is called with.                                    *)

(* p is a beginning of q, which are bytes.                                 *)
Begins(p, q) ==
    /\ p \in Seq(Byte) /\ q \in Seq(Byte)
    /\ Len(p) <= Len(q)
    /\ \A i \in 1 .. Len(p) : p[i] = q[i]

(* What arrives of a packet is a beginning of it.                          *)
LEMMA CutBegins ==
    ASSUME NEW packet \in VideoPackets \cup AudioPackets, NEW n \in 1 .. Len(packet.data)
    PROVE  /\ First(packet.data, n) \in Payload /\ packet.data \in Payload
           /\ Begins(First(packet.data, n), packet.data)
           /\ n = Len(packet.data) => First(packet.data, n) = packet.data
<1> DEFINE whole == packet.data
<1>1. whole \in Seq(Byte) /\ whole # << >>
  BY PacketAssumption
<1> HIDE DEF whole
<1>2. First(whole, n) \in Seq(Byte) /\ Len(First(whole, n)) = n
      /\ \A i \in 1 .. n : First(whole, n)[i] = whole[i]
  BY <1>1 DEF First, whole
<1>3. n = Len(whole) => First(whole, n) = whole
  BY <1>1 DEF First
<1>4. n \in 1 .. Len(whole)
  BY DEF whole
<1> QED
  BY <1>1, <1>2, <1>3, <1>4 DEF Begins, Payload, whole

(* The same of the audio packets as of the video packets.                  *)
LEMMA AudioArrivalsAreCuts ==
    ASSUME NEW arrival \in Arrivals(AudioPackets)
    PROVE  /\ arrival[1] \in AudioPackets
           /\ arrival[2] \in 1 .. Len(arrival[1].data)
<1>1. \A packet \in AudioPackets : Len(packet.data) \in 1 .. Len(packet.data)
  <2> SUFFICES ASSUME NEW packet \in AudioPackets
               PROVE  Len(packet.data) \in 1 .. Len(packet.data)
    OBVIOUS
  <2>1. packet.data \in Seq(Byte) /\ packet.data # << >>
    BY PacketAssumption
  <2> QED BY <2>1
<1> QED BY <1>1 DEF Arrivals

(* The application is told what the parsers make of what arrived.          *)
LastIs ==
    /\ last.event = "audio" =>
         \E packet \in AudioPackets : \E n \in 1 .. Len(packet.data) :
            /\ last.packet = packet /\ last.whole = (n = Len(packet.data))
            /\ last.told = Told(AudioCallback(First(packet.data, n)))
    /\ last.event = "video" =>
         \E packet \in VideoPackets : \E n \in 1 .. Len(packet.data), size \in LengthSize :
            /\ last.packet = packet /\ last.whole = (n = Len(packet.data))
            /\ last.told = Told(VideoCallback(First(packet.data, n), size))

(* The server's length size is one that lengths may have, and the one that *)
(* the message stream's last header declares.                              *)
StreamInv ==
    /\ stream = [publishing |-> stream.publishing, nalu |-> stream.nalu]
    /\ stream.nalu \in LengthSize
    /\ DeliveryMode # "RawFlv" => in_force = stream.nalu

(* What the server makes of a payload that is not of enhanced RTMP.        *)
LEMMA VideoCallbackIs ==
    ASSUME NEW data, NEW size
    PROVE  /\ IsEnhancedVideo(data[1]) =>
                 VideoCallback(data, size) \in
                    SUBSET {<<"on_enhanced_video_frame", EnhancedVideoData(data)>>}
           /\ ~IsEnhancedVideo(data[1]) /\ Len(data) >= 2 /\ Low(data[1]) = Avc =>
                 VideoCallback(data, size) =
                    IF H264Data(Tail(data), size)[1] = "Invalid" THEN {}
                    ELSE {<<"on_video_frame", H264Data(Tail(data), size)>>}
           /\ ~IsEnhancedVideo(data[1]) /\ ~(Len(data) >= 2 /\ Low(data[1]) = Avc) =>
                 VideoCallback(data, size) = {}
<1> DEFINE enhanced == <<"on_enhanced_video_frame", EnhancedVideoData(data)>>
           told == <<"on_video_frame", H264Data(Tail(data), size)>>
           other == <<"", Invalid("Codec")>>
<1>1. told[2] = H264Data(Tail(data), size) /\ other[2][1] = "Invalid"
  BY DEF Invalid
<1>2. /\ IsEnhancedVideo(data[1]) => VideoCallback(data, size) \in SUBSET {enhanced}
      /\ ~IsEnhancedVideo(data[1]) /\ Len(data) >= 2 /\ Low(data[1]) = Avc
            => VideoCallback(data, size) = IF told[2][1] = "Invalid" THEN {} ELSE {told}
      /\ ~IsEnhancedVideo(data[1]) /\ ~(Len(data) >= 2 /\ Low(data[1]) = Avc)
            => VideoCallback(data, size) = IF other[2][1] = "Invalid" THEN {} ELSE {other}
  BY DEF VideoCallback
<1> HIDE DEF enhanced, other, told
<1>3. told[2][1] = H264Data(Tail(data), size)[1]
  BY <1>1
<1> QED BY <1>1, <1>2, <1>3 DEF enhanced, told

(* The size the server goes by after a payload: what a header declares, or *)
(* what it was.                                                            *)
LEMMA ServerSize ==
    ASSUME NEW data \in Payload, NEW size \in LengthSize
    PROVE  LET after == NewSize(VideoCallback(data, size), size)
           IN  /\ after \in LengthSize
               /\ VideoClass(data).header /\ DeclaredSize(data) # {}
                     => DeclaredSize(data) = {after}
               /\ ~VideoClass(data).header \/ DeclaredSize(data) = {} => after = size
<1> DEFINE tail == Tail(data)
           result == H264Data(tail, size)
           told == <<"on_video_frame", result>>
           after == NewSize(VideoCallback(data, size), size)
<1>1. told[1] = "on_video_frame" /\ told[2] = result
  OBVIOUS
<1>2. CASE IsEnhancedVideo(data[1])
  <2>1. \A s, c : c \in VideoCallback(data, s) => c[1] = "on_enhanced_video_frame"
    <3> DEFINE enhanced == <<"on_enhanced_video_frame", EnhancedVideoData(data)>>
    <3>1. enhanced[1] = "on_enhanced_video_frame"
      OBVIOUS
    <3>2. \A s : VideoCallback(data, s) \in SUBSET {enhanced}
      BY <1>2, VideoCallbackIs
    <3> HIDE DEF enhanced
    <3> QED BY <3>1, <3>2
  <2>2. DeclaredSize(data) = {} /\ after = size
    BY <2>1 DEF DeclaredSize, NewSize
  <2> QED BY <2>2
<1>3. CASE ~IsEnhancedVideo(data[1]) /\ ~(Len(data) >= 2 /\ Low(data[1]) = Avc)
  <2>1. \A s : VideoCallback(data, s) = {}
    BY <1>3, VideoCallbackIs
  <2>2. DeclaredSize(data) = {} /\ after = size
    BY <2>1 DEF DeclaredSize, NewSize
  <2> QED BY <2>2
<1>4. CASE ~IsEnhancedVideo(data[1]) /\ Len(data) >= 2 /\ Low(data[1]) = Avc
  <2>1. tail \in Seq(Byte) /\ Len(tail) >= 1 /\ tail[1] = data[2]
    BY <1>4, TailFacts DEF Payload
  <2>2. VideoCallback(data, size) = IF result[1] = "Invalid" THEN {} ELSE {told}
    BY <1>4, VideoCallbackIs
  <2>3. VideoClass(data).header <=> data[2] = 0
    BY <1>4 DEF VideoClass, IsAvcSequenceHeader
  <2> HIDE DEF tail
  <2>4. /\ data[2] = 0 => \/ result[1] = "Invalid"
                          \/ result[1] = "SequenceHeader" /\ result[2].nalu_length_size \in LengthSize
        /\ data[2] # 0 => result[1] # "SequenceHeader"
        /\ data[2] = 0 => result = H264Data(tail, 4)
    BY <2>1, H264Facts
  <2> HIDE DEF told, result
  <2>5. after = IF result[1] = "SequenceHeader" THEN result[2].nalu_length_size ELSE size
    <3>1. CASE result[1] = "Invalid"
      BY <2>2, <3>1 DEF NewSize
    <3>2. CASE result[1] # "Invalid"
      <4>1. VideoCallback(data, size) = {told} /\ (CHOOSE c \in {told} : TRUE) = told
        BY <2>2, <3>2
      <4> QED BY <1>1, <4>1 DEF NewSize
    <3> QED BY <3>1, <3>2
  <2>6. after \in LengthSize
    BY <2>4, <2>5
  <2>7. ASSUME data[2] = 0, DeclaredSize(data) # {}
        PROVE  DeclaredSize(data) = {after}
    <3>1. VideoCallback(data, 4) = IF result[1] = "Invalid" THEN {} ELSE {told}
      BY <1>4, <2>4, <2>7, VideoCallbackIs DEF tail, told
    <3>2. result[1] # "Invalid"
      BY <2>7, <3>1 DEF DeclaredSize
    <3>3. VideoCallback(data, 4) = {told}
      BY <3>1, <3>2
    <3>4. DeclaredSize(data) = {result[2].nalu_length_size}
      BY <1>1, <3>3 DEF DeclaredSize
    <3> QED BY <2>4, <2>5, <2>7, <3>2, <3>4
  <2>8. ASSUME data[2] = 0, DeclaredSize(data) = {}
        PROVE  after = size
    <3>1. VideoCallback(data, 4) = IF result[1] = "Invalid" THEN {} ELSE {told}
      BY <1>4, <2>4, <2>8, VideoCallbackIs DEF tail, told
    <3>2. result[1] = "Invalid"
      <4>1. VideoCallback(data, 4) = {told} => told \in VideoCallback(data, 4)
        OBVIOUS
      <4> QED BY <1>1, <2>8, <3>1, <4>1 DEF DeclaredSize
    <3> QED BY <2>5, <3>2
  <2> QED BY <2>3, <2>4, <2>5, <2>6, <2>7, <2>8
<1> QED BY <1>2, <1>3, <1>4

(* The parsers make one callback of a payload, or none.                    *)
LEMMA VideoCallbackOne ==
    ASSUME NEW data, NEW size
    PROVE  \A c, d \in VideoCallback(data, size) : c = d
BY DEF VideoCallback

(* A header of AVC is told as a header or refused.                         *)
LEMMA HeaderIsNoFrame ==
    ASSUME NEW data \in Payload, VideoClass(data).header, ~IsEnhancedVideo(data[1]),
           NEW size \in LengthSize, NEW got \in VideoCallback(data, size)
    PROVE  got[2][1] # "Frame"
<1> DEFINE tail == Tail(data)
           result == H264Data(tail, size)
<1>2. Len(data) >= 2 /\ Low(data[1]) = Avc /\ data[2] = 0
  BY DEF VideoClass, IsAvcSequenceHeader
<1>3. tail \in Seq(Byte) /\ Len(tail) >= 1 /\ tail[1] = 0
  BY <1>2, TailFacts DEF Payload
<1> HIDE DEF tail
<1>4. result[1] = "Invalid" \/ result[1] = "SequenceHeader"
  BY <1>3, H264Facts
<1>5. VideoCallback(data, size) \in SUBSET {<<"on_video_frame", result>>}
  BY <1>2, VideoCallbackIs DEF tail
<1> HIDE DEF result
<1>6. got[2] = result /\ result[1] # "Invalid"
  BY <1>2, <1>5, VideoCallbackIs DEF result, tail
<1> QED BY <1>4, <1>6

(* The packets of the instance mean what the parsers make of them whole,   *)
(* but for the layouts that are misread.                                   *)
PacketsAreRead ==
    /\ \A packet \in VideoPackets :
          ~MisreadVideo(packet.data) =>
             packet.meant # {} /\ packet.meant = VideoCallback(packet.data, packet.nalu)
    /\ \A packet \in AudioPackets :
          ~MisreadAudio(packet.data) =>
             packet.meant # {} /\ packet.meant = AudioCallback(packet.data)

ToldInv == StreamInv /\ LastIs

(* Initially nothing was told and no size declared.                        *)
LEMMA ToldInit == Init => ToldInv
<1> SUFFICES ASSUME Init PROVE ToldInv
  OBVIOUS
<1>1. stream = [publishing |-> FALSE, nalu |-> 4] /\ last = [event |-> "none"]
  BY DEF Init, IdleStream, Nothing
<1>2. stream.nalu = 4 /\ in_force = 4 /\ 4 \in LengthSize /\ stream.publishing = FALSE
  BY <1>1 DEF Init, LengthSize
<1>3. StreamInv
  BY <1>1, <1>2 DEF StreamInv
<1> QED BY <1>1, <1>3 DEF ToldInv, LastIs

(* After a video packet the application was told of it as the size of      *)
(* before has it, and the size is the one declared last.                   *)
LEMMA VideoTells ==
    ASSUME ToldInv, NEW packet \in VideoPackets, NEW n \in 1 .. Len(packet.data),
           Video(packet, n)
    PROVE  ToldInv'
<1> DEFINE data == First(packet.data, n)
           callback == VideoCallback(data, stream.nalu)
           told == Told(callback)
           header == VideoClass(data).header
           declares == DeclaredSize(data)
<1>1. data \in Payload
  BY CutIsPayload
<1>2. /\ stream.publishing
      /\ stream' = [stream EXCEPT !.nalu = NewSize(told, @)]
      /\ in_force' = IF header /\ declares # {}
                     THEN CHOOSE size \in declares : TRUE ELSE in_force
      /\ last'.event = "video" /\ last'.packet = packet
      /\ last'.whole = (n = Len(packet.data)) /\ last'.told = told
  BY DEF Video, Arrives
<1> HIDE DEF data
<1>3. stream.nalu \in LengthSize
  BY DEF ToldInv, StreamInv
<1>4. LastIs'
  <2> HIDE DEF told
  <2>1. last'.told = Told(VideoCallback(First(packet.data, n), stream.nalu))
    BY <1>2 DEF told, data
  <2> QED BY <1>2, <1>3, <2>1 DEF LastIs
<1>5. /\ stream' = [publishing |-> stream.publishing, nalu |-> NewSize(told, stream.nalu)]
  BY <1>2 DEF ToldInv, StreamInv
<1>6. CASE DeliveryMode = "RawFlv"
  <2>1. told = {}
    BY <1>6 DEF Told
  <2> HIDE DEF told
  <2>2. NewSize(told, stream.nalu) = stream.nalu
    BY <2>1 DEF NewSize
  <2> QED BY <1>3, <1>4, <1>5, <1>6, <2>2 DEF ToldInv, StreamInv
<1>7. CASE DeliveryMode # "RawFlv"
  <2>1. told = callback
    BY <1>7 DEF Told
  <2> HIDE DEF told, callback, declares, header
  <2>2. /\ NewSize(callback, stream.nalu) \in LengthSize
        /\ header /\ declares # {} => declares = {NewSize(callback, stream.nalu)}
        /\ ~header \/ declares = {} => NewSize(callback, stream.nalu) = stream.nalu
    BY <1>1, <1>3, ServerSize DEF callback, declares, header
  <2>3. stream'.publishing = stream.publishing /\ stream'.nalu = NewSize(callback, stream.nalu)
    BY <1>5, <2>1
  <2>4. in_force' = stream'.nalu
    <3>1. CASE header /\ declares # {}
      <4>1. declares = {stream'.nalu}
        BY <2>2, <2>3, <3>1
      <4>2. in_force' = CHOOSE size \in declares : TRUE
        BY <1>2, <3>1
      <4> QED BY <4>1, <4>2
    <3>2. CASE ~header \/ declares = {}
      BY <1>2, <1>7, <2>2, <2>3, <3>2 DEF ToldInv, StreamInv
    <3> QED BY <3>1, <3>2
  <2> QED BY <1>4, <1>5, <2>1, <2>2, <2>3, <2>4 DEF ToldInv, StreamInv
<1> QED BY <1>6, <1>7

(* Every step keeps it.                                                    *)
LEMMA ToldStep ==
    ASSUME ToldInv, [Next]_vars
    PROVE  ToldInv'
<1> USE DEF ToldInv, StreamInv
<1>1. ASSUME NEW size \in LengthSize, Publish(size)
      PROVE  ToldInv'
  <2>1. /\ stream' = [publishing |-> TRUE, nalu |-> size]
        /\ in_force' = size /\ last' = [event |-> "none"]
    BY <1>1 DEF Publish, Nothing
  <2> QED BY <2>1 DEF LastIs
<1>2. CASE Unpublish
  <2>1. /\ stream' = [publishing |-> FALSE, nalu |-> stream.nalu]
        /\ in_force' = in_force /\ last' = [event |-> "none"]
    BY <1>2 DEF Unpublish, Nothing
  <2> QED BY <2>1 DEF LastIs
<1>3. CASE Expire \/ Join \/ Leave
  <2>1. stream' = stream /\ in_force' = in_force /\ last' = [event |-> "none"]
    BY <1>3 DEF Expire, Join, Leave, Nothing
  <2> QED BY <2>1 DEF LastIs
<1>4. ASSUME NEW packet \in AudioPackets, NEW n \in 1 .. Len(packet.data), Audio(packet, n)
      PROVE  ToldInv'
  <2>1. /\ stream' = stream /\ in_force' = in_force
        /\ last'.event = "audio" /\ last'.packet = packet
        /\ last'.whole = (n = Len(packet.data))
        /\ last'.told = Told(AudioCallback(First(packet.data, n)))
    BY <1>4 DEF Audio
  <2> QED BY <2>1 DEF LastIs
<1>5. ASSUME NEW packet \in VideoPackets, NEW n \in 1 .. Len(packet.data), Video(packet, n)
      PROVE  ToldInv'
  BY <1>5, VideoTells
<1>6. CASE UNCHANGED vars
  BY <1>6 DEF vars, LastIs
<1> QED
  BY <1>1, <1>2, <1>3, <1>4, <1>5, <1>6, ArrivalsAreCuts, AudioArrivalsAreCuts DEF Next

(* What is told is what the parsers make, in every reachable state.        *)
LEMMA ToldInvariance == Spec => []ToldInv
<1>1. ToldInv /\ [Next]_vars => ToldInv'
  BY ToldStep
<1> QED BY ToldInit, <1>1, PTL DEF Spec

(* A frame of AVC that arrives whole is told as a keyframe if and only if  *)
(* it holds an IDR unit: the server takes it apart by the size of the last *)
(* header its message stream has seen, over any number of publishes and    *)
(* whatever arrived broken.                                                *)
THEOREM KeyframesAreTold ==
    ASSUME PacketsAreRead
    PROVE  Spec => []KeyframesTold
<1> DEFINE Inv == ToldInv /\ KeyframesTold
<1>1. Init => KeyframesTold
  BY DEF Init, Nothing, KeyframesTold
<1>2. ASSUME ToldInv, KeyframesTold, [Next]_vars
      PROVE  KeyframesTold'
  <2>0. ASSUME NEW size, Publish(size)
        PROVE  KeyframesTold'
    <3>1. last' = [event |-> "none"]
      BY <2>0 DEF Publish, Nothing
    <3> QED BY <3>1 DEF KeyframesTold
  <2>1. CASE Unpublish \/ Expire \/ Join \/ Leave
    <3>1. last' = [event |-> "none"]
      BY <2>1 DEF Unpublish, Expire, Join, Leave, Nothing
    <3> QED BY <3>1 DEF KeyframesTold
  <2>2. CASE UNCHANGED vars
    BY <1>2, <2>2 DEF vars, KeyframesTold
  <2>3. ASSUME NEW packet, NEW n, Audio(packet, n)
        PROVE  KeyframesTold'
    <3>1. last'.event = "audio"
      BY <2>3 DEF Audio
    <3> QED BY <3>1 DEF KeyframesTold
  <2>4. ASSUME NEW packet \in VideoPackets, NEW n \in 1 .. Len(packet.data), Video(packet, n)
        PROVE  KeyframesTold'
    <3> DEFINE data == First(packet.data, n)
               callback == VideoCallback(data, stream.nalu)
    <3> SUFFICES ASSUME last'.whole, in_force' = packet.nalu,
                        NEW got \in Told(callback), NEW meant \in packet.meant,
                        got[1] = "on_video_frame", got[2][1] = "Frame"
                 PROVE  got[2][2] = meant[2][2]
      <4>1. last'.packet = packet /\ last'.told = Told(callback)
        BY <2>4 DEF Video
      <4> HIDE DEF callback
      <4> QED BY <4>1 DEF KeyframesTold
    <3>1. data = packet.data /\ data \in Payload
      <4>1. last'.whole = (n = Len(packet.data))
        BY <2>4 DEF Video
      <4> QED BY <4>1, CutBegins
    <3>2. in_force' = IF VideoClass(data).header /\ DeclaredSize(data) # {}
                      THEN CHOOSE size \in DeclaredSize(data) : TRUE ELSE in_force
      BY <2>4 DEF Video
    <3>3. DeliveryMode # "RawFlv" /\ got \in callback
      BY DEF Told
    <3>4. ~IsEnhancedVideo(data[1])
      <4> DEFINE enhanced == <<"on_enhanced_video_frame", EnhancedVideoData(data)>>
      <4>1. enhanced[1] = "on_enhanced_video_frame"
        OBVIOUS
      <4>2. IsEnhancedVideo(data[1]) => got \in {enhanced}
        BY <3>3, VideoCallbackIs
      <4> HIDE DEF enhanced
      <4> QED BY <4>1, <4>2
    <3> HIDE DEF data, callback
    <3>5. stream.nalu \in LengthSize /\ in_force = stream.nalu
      BY <1>2, <3>3 DEF ToldInv, StreamInv
    <3>6. ~VideoClass(data).header
      BY <3>1, <3>3, <3>4, <3>5, HeaderIsNoFrame DEF callback
    <3>7. stream.nalu = packet.nalu
      BY <3>2, <3>5, <3>6
    <3>8. packet.meant = callback
      BY <3>1, <3>4, <3>7 DEF PacketsAreRead, MisreadVideo, callback
    <3>9. \A c, d \in callback : c = d
      BY VideoCallbackOne DEF callback
    <3> QED BY <3>3, <3>8, <3>9
  <2> QED
    BY <1>2, <2>0, <2>1, <2>2, <2>3, <2>4, ArrivalsAreCuts DEF Next
<1>3. Inv /\ [Next]_vars => Inv'
  BY <1>2, ToldStep
<1> QED BY <1>1, <1>3, ToldInit, PTL DEF Spec, Inv

(* What a reader of an ADTS header finds in it.                            *)
Describes(header, config, length) ==
    /\ (header[4] % 4) * 2048 + header[5] * 8 + header[6] \div 32 = length + 7
    /\ (header[3] % 64) \div 4 = config.sampling_frequency_index
    /\ (header[3] % 2) * 4 + header[4] \div 64 = config.channel_configuration

(* What it has room for: lengths of thirteen bits, three bits of channels. *)
FrameRoom == 0 .. 8184

ConfigFits(config) ==
    /\ config.audio_object_type \in Nat
    /\ config.sampling_frequency_index \in 0 .. 15
    /\ config.channel_configuration \in 0 .. 7

(* An ADTS header tells its reader what it was made from.                  *)
LEMMA AdtsRoundTrip ==
    ASSUME NEW config, ConfigFits(config), NEW length \in FrameRoom,
           NEW header, header = AdtsHeader(config, length)
    PROVE  /\ Describes(header, config, length)
           /\ \A i \in 1 .. 7 : header[i] \in Byte
<1> DEFINE index == config.sampling_frequency_index
           channels == config.channel_configuration
           profile == IF config.audio_object_type = 0 THEN 0 ELSE config.audio_object_type - 1
           total == length + 7
<1>1. AdtsHeader(config, length) =
          << 255, 241, (profile % 4) * 64 + index * 4 + ((channels \div 4) % 2),
             (channels % 4) * 64 + ((total \div 2048) % 4), (total \div 8) % 256,
             (total % 8) * 32 + 31, 252 >>
  BY DEF AdtsHeader, AdtsLength
<1>2. profile \in Nat /\ index \in 0 .. 15 /\ channels \in 0 .. 7 /\ total \in 0 .. 8191
  <2>1. profile \in Nat
    BY DEF ConfigFits
  <2>2. index \in 0 .. 15 /\ channels \in 0 .. 7
    BY DEF ConfigFits
  <2>3. total \in 0 .. 8191
    BY DEF FrameRoom
  <2> HIDE DEF profile, index, channels, total
  <2> QED BY <2>1, <2>2, <2>3
<1> HIDE DEF profile, index, channels, total
<1>3. PICK p \in 0 .. 3 : p = profile % 4
  BY <1>2
<1>4. PICK c \in 0 .. 1, d \in 0 .. 3 : c = (channels \div 4) % 2 /\ d = channels % 4 /\ channels = 4 * c + d
  BY <1>2
<1> DEFINE a == (total \div 2048) % 4
           b == (total \div 8) % 256
           e == total % 8
<1>5. a \in 0 .. 3 /\ b \in 0 .. 255 /\ e \in 0 .. 7 /\ total = 2048 * a + 8 * b + e
  <2> DEFINE rest == total \div 8
             high == rest \div 256
  <2>1. e \in 0 .. 7 /\ rest \in 0 .. 1023 /\ total = 8 * rest + e
    BY SMT, <1>2
  <2>2. b = rest % 256
    OBVIOUS
  <2> HIDE DEF e, b, rest
  <2>3. b \in 0 .. 255 /\ high \in 0 .. 3 /\ rest = 256 * high + b
    BY SMT, <2>1, <2>2
  <2> HIDE DEF high
  <2>4. total = 2048 * high + 8 * b + e
    BY SMT, <2>1, <2>3
  <2>5. total \div 2048 = high /\ high % 4 = high
    BY SMT, <2>1, <2>3, <2>4
  <2>6. a = high
    BY <2>5
  <2> QED
    BY <2>1, <2>3, <2>4, <2>6
<1> HIDE DEF a, b, e
<1>6. /\ (p * 64 + index * 4 + c) % 64 = index * 4 + c
      /\ (index * 4 + c) \div 4 = index
      /\ (p * 64 + index * 4 + c) % 2 = c
  BY <1>2, <1>3, <1>4
<1>7. (d * 64 + a) % 4 = a /\ (d * 64 + a) \div 64 = d /\ (e * 32 + 31) \div 32 = e
  BY <1>4, <1>5
<1>8. /\ p * 64 + index * 4 + c \in 0 .. 255 /\ d * 64 + a \in 0 .. 255
      /\ e * 32 + 31 \in 0 .. 255
  <2>1. p * 64 + index * 4 + c \in 0 .. 255
    BY SMT, <1>2, <1>3, <1>4
  <2>2. d * 64 + a \in 0 .. 255
    BY SMT, <1>4, <1>5
  <2>3. e * 32 + 31 \in 0 .. 255
    BY SMT, <1>5
  <2> QED BY <2>1, <2>2, <2>3
<1>9. header = << 255, 241, p * 64 + index * 4 + c, d * 64 + a, b, e * 32 + 31, 252 >>
  BY <1>1, <1>3, <1>4 DEF a, b, e
<1>10. /\ (header[4] % 4) * 2048 + header[5] * 8 + header[6] \div 32 = total
       /\ (header[3] % 64) \div 4 = index
       /\ (header[3] % 2) * 4 + header[4] \div 64 = channels
  <2>1. /\ header[3] = p * 64 + index * 4 + c /\ header[4] = d * 64 + a
        /\ header[5] = b /\ header[6] = e * 32 + 31
    BY <1>9
  <2>2. header[4] % 4 = a /\ header[6] \div 32 = e /\ header[4] \div 64 = d
    BY <1>7, <2>1
  <2>3. (header[3] % 64) \div 4 = index /\ header[3] % 2 = c
    BY <1>6, <2>1
  <2>4. (header[4] % 4) * 2048 + header[5] * 8 + header[6] \div 32 = total
    BY <1>5, <2>1, <2>2
  <2>5. (header[3] % 2) * 4 + header[4] \div 64 = channels
    BY <1>4, <2>2, <2>3
  <2> QED BY <2>3, <2>4, <2>5
<1>11. \A i \in 1 .. 7 : header[i] \in Byte
  BY <1>5, <1>8, <1>9 DEF Byte
<1> QED
  BY <1>10, <1>11 DEF Describes, index, channels, total

(* A configuration that is read has an index of four bits, and its         *)
(* channels are four bits of the second byte.                              *)
LEMMA AudioConfigIs ==
    ASSUME NEW data \in Seq(Byte), AudioSpecificConfig(data)[1] = "SequenceHeader"
    PROVE  LET config == AudioSpecificConfig(data)[2]
           IN  /\ Len(data) >= 2
               /\ config.audio_object_type \in Nat
               /\ config.sampling_frequency_index \in 0 .. 15
               /\ config.channel_configuration = (data[2] \div 8) % 16
               /\ config.channel_configuration \in 0 .. 15
<1> DEFINE index == (data[1] % 8) * 2 + data[2] \div 128
           config == AudioSpecificConfig(data)[2]
<1>1. ~(Len(data) < 2 \/ (index = 15 /\ Len(data) < 5))
  BY DEF AudioSpecificConfig, Invalid
<1>2. /\ config.audio_object_type = data[1] \div 8
      /\ config.sampling_frequency_index = index
      /\ config.channel_configuration = (data[2] \div 8) % 16
  BY <1>1 DEF AudioSpecificConfig
<1>3. data[1] \in 0 .. 255 /\ data[2] \in 0 .. 255
  <2>1. Len(data) \in Nat /\ Len(data) >= 2
    BY <1>1
  <2>2. data[1] \in Byte /\ data[2] \in Byte
    BY <2>1
  <2> QED BY <2>2 DEF Byte
<1>4. /\ data[1] \div 8 \in Nat /\ index \in 0 .. 15
      /\ (data[2] \div 8) % 16 \in 0 .. 15
  <2>1. \A b \in 0 .. 255 : b \div 8 \in Nat /\ b % 8 \in 0 .. 7 /\ b \div 128 \in 0 .. 1
                            /\ (b \div 8) % 16 \in 0 .. 15
    OBVIOUS
  <2>2. /\ data[1] \div 8 \in Nat /\ (data[2] \div 8) % 16 \in 0 .. 15
        /\ data[1] % 8 \in 0 .. 7 /\ data[2] \div 128 \in 0 .. 1
    BY Zenon, <1>3, <2>1
  <2>3. \A b \in 0 .. 7, c \in 0 .. 1 : b * 2 + c \in 0 .. 15
    OBVIOUS
  <2>4. index \in 0 .. 15
    BY Zenon, <2>2, <2>3
  <2> QED BY Zenon, <2>2, <2>4
<1> QED BY <1>1, <1>2, <1>4

(* What the server makes of an audio payload that is told as AAC.          *)
LEMMA AudioCallbackIs ==
    ASSUME NEW data, NEW got \in AudioCallback(data)
    PROVE  \/ /\ IsEnhancedAudio(data[1])
              /\ got = <<"on_enhanced_audio_frame", EnhancedAudioData(data)>>
           \/ /\ ~IsEnhancedAudio(data[1]) /\ Len(data) >= 2 /\ High(data[1]) = Aac
              /\ got = <<"on_audio_frame", AacData(Tail(data))>>
<1>1. <<"", Invalid("Codec")>>[2][1] = "Invalid"
  BY DEF Invalid
<1> QED BY <1>1 DEF AudioCallback

(* Whatever configuration a publisher sends, an ADTS header made from it   *)
(* tells its reader how long the frame is and of which rate and channels,  *)
(* if the channels are those an ADTS header has room for.                  *)
THEOREM AdtsDescribes ==
    ASSUME ChannelsFit
    PROVE  Spec => []AdtsDescribesFrame
<1>1. ASSUME ToldInv
      PROVE  AdtsDescribesFrame
  <2> SUFFICES ASSUME last.event = "audio", NEW callback \in last.told,
                      callback[1] = "on_audio_frame", callback[2][1] = "SequenceHeader",
                      NEW length \in FrameLengths,
                      NEW header, header = AdtsHeader(callback[2][2], length)
               PROVE  Describes(header, callback[2][2], length)
    BY DEF AdtsDescribesFrame, Describes
  <2>0. PICK packet \in AudioPackets : \E n \in 1 .. Len(packet.data) :
            last.told = Told(AudioCallback(First(packet.data, n)))
    BY <1>1 DEF ToldInv, LastIs
  <2>1. PICK n \in 1 .. Len(packet.data) : last.told = Told(AudioCallback(First(packet.data, n)))
    BY <2>0
  <2> DEFINE data == First(packet.data, n)
             whole == packet.data
             body == Tail(data)
             config == callback[2][2]
  <2>2. callback \in AudioCallback(data)
    BY <2>1 DEF Told
  <2>3. data \in Payload /\ whole \in Payload /\ Begins(data, whole)
    BY CutBegins
  <2> HIDE DEF data, whole
  <2>4. Len(data) >= 2 /\ High(data[1]) = Aac /\ callback[2] = AacData(body)
    BY <2>2, AudioCallbackIs
  <2>5. /\ body \in Seq(Byte) /\ Len(body) = Len(data) - 1
        /\ \A i \in 1 .. Len(data) - 1 : body[i] = data[i + 1]
    BY <2>3, <2>4, TailFacts
  <2> HIDE DEF body
  <2>6. body # << >> /\ Len(body) >= 1
    BY <2>3, <2>4, <2>5 DEF Payload
  <2>7. body[1] = 0 /\ callback[2] = AudioSpecificConfig(Tail(body))
    BY <2>4, <2>6 DEF AacData, Invalid
  <2>8. /\ Tail(body) \in Seq(Byte) /\ Len(Tail(body)) = Len(body) - 1
        /\ \A i \in 1 .. Len(body) - 1 : Tail(body)[i] = body[i + 1]
    BY <2>5, <2>6
  <2> DEFINE asc == Tail(body)
  <2>9. /\ Len(asc) >= 2 /\ config.audio_object_type \in Nat
        /\ config.sampling_frequency_index \in 0 .. 15
        /\ config.channel_configuration = (asc[2] \div 8) % 16
        /\ config.channel_configuration \in 0 .. 15
    BY <2>7, <2>8, AudioConfigIs
  <2> HIDE DEF asc, config
  <2>10. Len(data) >= 4 /\ asc[2] = data[4] /\ data[2] = 0
    <3>1. Len(data) \in Nat
      BY <2>3 DEF Payload
    <3>2. Len(asc) = Len(data) - 2
      BY <2>5, <2>8, <3>1 DEF asc
    <3>3. Len(data) >= 4
      BY <2>9, <3>1, <3>2
    <3>4. asc[2] = body[3] /\ body[3] = data[4]
      BY <2>5, <2>8, <3>1, <3>3 DEF asc
    <3>5. body[1] = data[2]
      BY <2>5, <3>1, <3>3
    <3> QED BY <2>7, <3>3, <3>4, <3>5
  <2>11. /\ Len(whole) >= 4 /\ data[4] = whole[4] /\ whole[1] = data[1] /\ whole[2] = data[2]
    BY <2>3, <2>10 DEF Begins
  <2>12. (whole[4] \div 8) % 16 < 8
    <3>1. IsAacSequenceHeader(whole)
      BY <2>3, <2>4, <2>10, <2>11 DEF IsAacSequenceHeader, Payload
    <3> QED BY <2>11, <3>1 DEF ChannelsFit, whole
  <2>13. config.channel_configuration \in 0 .. 7
    <3> DEFINE channels == config.channel_configuration
               bits(byte) == (byte \div 8) % 16
    <3>1. channels = bits(whole[4]) /\ channels \in 0 .. 15 /\ bits(whole[4]) < 8
      BY <2>9, <2>10, <2>11, <2>12
    <3> HIDE DEF channels, bits
    <3>2. channels < 8
      BY <3>1
    <3>3. channels \in 0 .. 7
      BY <3>1, <3>2
    <3> QED BY <3>3 DEF channels
  <2>14. length \in FrameRoom /\ ConfigFits(config)
    BY <2>9, <2>13 DEF FrameLengths, FrameRoom, ConfigFits
  <2>15. header = AdtsHeader(config, length)
    BY DEF config
  <2>16. Describes(header, config, length)
    BY Zenon, <2>14, <2>15, AdtsRoundTrip
  <2> QED BY <2>16 DEF config
<1> QED BY <1>1, ToldInvariance, PTL

(* The rest of some bytes.                                                 *)
LEMMA SkipIs ==
    ASSUME NEW p \in Seq(Byte), NEW k \in Nat
    PROVE  /\ Skip(p, k) \in Seq(Byte) /\ Len(Skip(p, k)) \in Nat
           /\ Len(Skip(p, k)) = IF k <= Len(p) THEN Len(p) - k ELSE 0
           /\ \A i \in 1 .. Len(p) - k : Skip(p, k)[i] = p[k + i]
<1>1. Len(p) \in Nat
  OBVIOUS
<1>2. \A i \in k + 1 .. Len(p) : p[i] \in Byte
  BY <1>1
<1>3. /\ SubSeq(p, k + 1, Len(p)) \in Seq(Byte)
      /\ Len(SubSeq(p, k + 1, Len(p))) = IF k + 1 <= Len(p) THEN Len(p) - (k + 1) + 1 ELSE 0
      /\ \A i \in 1 .. Len(p) - (k + 1) + 1 : SubSeq(p, k + 1, Len(p))[i] = p[(k + 1) + i - 1]
  BY <1>1, <1>2, SubSeqProperties
<1> DEFINE s == SubSeq(p, k + 1, Len(p))
           L == Len(p)
<1>4. s = Skip(p, k)
  BY DEF Skip
<1>5. /\ s \in Seq(Byte)
      /\ Len(s) = IF k + 1 <= L THEN L - (k + 1) + 1 ELSE 0
      /\ \A i \in 1 .. L - (k + 1) + 1 : s[i] = p[(k + 1) + i - 1]
      /\ L \in Nat
  BY <1>1, <1>3
<1> HIDE DEF s, L
<1>6. /\ Len(s) = IF k <= L THEN L - k ELSE 0
      /\ Len(s) \in Nat
      /\ \A i \in 1 .. L - k : s[i] = p[k + i]
  <2>1. L - (k + 1) + 1 = L - k /\ \A i \in Nat : (k + 1) + i - 1 = k + i
    BY <1>5
  <2> QED BY <1>5, <2>1
<1> QED BY <1>4, <1>5, <1>6 DEF L

(* A beginning stays one when both lose their first bytes.                 *)
LEMMA SkipBegins ==
    ASSUME NEW p, NEW q, Begins(p, q), NEW k \in Nat
    PROVE  Begins(Skip(p, k), Skip(q, k))
<1> DEFINE s == Skip(p, k)
           t == Skip(q, k)
           M == Len(p)
           N == Len(q)
<1>1. /\ s \in Seq(Byte) /\ t \in Seq(Byte) /\ M \in Nat /\ N \in Nat /\ M <= N
      /\ Len(s) = IF k <= M THEN M - k ELSE 0
      /\ Len(t) = IF k <= N THEN N - k ELSE 0
      /\ \A i \in 1 .. M - k : s[i] = p[k + i]
      /\ \A i \in 1 .. N - k : t[i] = q[k + i]
      /\ \A i \in 1 .. M : p[i] = q[i]
  BY SkipIs DEF Begins
<1> HIDE DEF s, t, M, N
<1>2. Len(s) <= Len(t)
  BY <1>1
<1>3. ASSUME NEW i \in 1 .. Len(s) PROVE s[i] = t[i]
  <2>1. i \in 1 .. M - k /\ i \in 1 .. N - k /\ k + i \in 1 .. M
    BY <1>1
  <2> QED BY <1>1, <2>1
<1>4. Begins(s, t)
  BY <1>1, <1>2, <1>3 DEF Begins
<1> QED BY <1>4 DEF s, t

(* What is behind the first byte.                                          *)
LEMMA TailIsSkip ==
    ASSUME NEW p \in Seq(Byte), p # << >>
    PROVE  /\ Tail(p) = Skip(p, 1) /\ Len(p) \in Nat /\ Len(p) >= 1
           /\ p[1] \in Byte
<1>1. Len(p) \in Nat /\ Len(p) >= 1
  OBVIOUS
<1>2. Tail(p) \in Seq(Byte) /\ Len(Tail(p)) = Len(p) - 1
      /\ \A i \in 1 .. Len(p) - 1 : Tail(p)[i] = p[i + 1]
  BY <1>1
<1>3. Skip(p, 1) \in Seq(Byte) /\ Len(Skip(p, 1)) = Len(p) - 1
      /\ \A i \in 1 .. Len(p) - 1 : Skip(p, 1)[i] = p[1 + i]
  BY <1>1, SkipIs
<1>4. Tail(p) = Skip(p, 1)
  <2> DEFINE s == Tail(p)
             t == Skip(p, 1)
  <2>1. /\ s \in Seq(Byte) /\ t \in Seq(Byte) /\ Len(s) = Len(t)
        /\ \A i \in 1 .. Len(s) : s[i] = t[i]
    BY <1>1, <1>2, <1>3
  <2> HIDE DEF s, t
  <2>2. s = t
    BY <2>1, SeqEqual
  <2> QED BY <2>2 DEF s, t
<1> QED BY <1>1, <1>4

(* A beginning stays one without its first byte.                           *)
LEMMA TailBegins ==
    ASSUME NEW p, NEW q, Begins(p, q), p # << >>
    PROVE  /\ Begins(Tail(p), Tail(q)) /\ q # << >> /\ p[1] = q[1] /\ p[1] \in Byte
           /\ Len(Tail(p)) = Len(p) - 1
           /\ \A i \in 1 .. Len(p) - 1 : Tail(p)[i] = p[i + 1]
<1>1. p \in Seq(Byte) /\ q \in Seq(Byte) /\ Len(p) \in Nat /\ Len(q) \in Nat
      /\ Len(p) >= 1 /\ Len(p) <= Len(q)
  BY DEF Begins
<1>2. q # << >>
  BY <1>1
<1>3. p[1] = q[1]
  BY <1>1 DEF Begins
<1>4. Begins(Tail(p), Tail(q))
  BY <1>1, <1>2, TailIsSkip, SkipBegins
<1>5. /\ Len(Tail(p)) = Len(p) - 1 /\ \A i \in 1 .. Len(p) - 1 : Tail(p)[i] = p[i + 1]
  BY <1>1
<1> QED BY <1>1, <1>2, <1>3, <1>4, <1>5, TailIsSkip

(* What lies inside both is the same.                                      *)
LEMMA InsideSame ==
    ASSUME NEW p, NEW q, Begins(p, q), NEW a \in Nat \ {0}, NEW b \in Nat, b <= Len(p)
    PROVE  SubSeq(p, a, b) = SubSeq(q, a, b) /\ SubSeq(p, a, b) \in Seq(Byte)
<1>1. /\ p \in Seq(Byte) /\ q \in Seq(Byte) /\ Len(p) \in Nat /\ Len(q) \in Nat
      /\ Len(p) <= Len(q) /\ b <= Len(q)
      /\ \A i \in 1 .. Len(p) : p[i] = q[i]
  BY DEF Begins
<1>2. (\A i \in a .. b : p[i] \in Byte) /\ (\A i \in a .. b : q[i] \in Byte)
  BY <1>1
<1>3. /\ SubSeq(p, a, b) \in Seq(Byte)
      /\ Len(SubSeq(p, a, b)) = IF a <= b THEN b - a + 1 ELSE 0
      /\ \A i \in 1 .. b - a + 1 : SubSeq(p, a, b)[i] = p[a + i - 1]
  BY <1>2, SubSeqProperties
<1>4. /\ SubSeq(q, a, b) \in Seq(Byte)
      /\ Len(SubSeq(q, a, b)) = IF a <= b THEN b - a + 1 ELSE 0
      /\ \A i \in 1 .. b - a + 1 : SubSeq(q, a, b)[i] = q[a + i - 1]
  BY <1>2, SubSeqProperties
<1> DEFINE s == SubSeq(p, a, b)
           t == SubSeq(q, a, b)
<1>5. /\ s \in Seq(Byte) /\ t \in Seq(Byte)
      /\ Len(s) = (IF a <= b THEN b - a + 1 ELSE 0) /\ Len(t) = Len(s)
      /\ \A i \in 1 .. b - a + 1 : s[i] = p[a + i - 1] /\ t[i] = q[a + i - 1]
  BY <1>3, <1>4
<1> HIDE DEF s, t
<1>6. ASSUME NEW i \in 1 .. Len(s) PROVE s[i] = t[i]
  <2>1. i \in 1 .. b - a + 1 /\ a + i - 1 \in 1 .. Len(p)
    BY <1>1, <1>5
  <2> QED BY <1>1, <1>5, <2>1
<1>7. s = t
  BY <1>5, <1>6, SeqEqual
<1> QED BY <1>5, <1>7 DEF s, t

(* A beginning is a prefix.                                                *)
LEMMA BeginsIsPrefix ==
    ASSUME NEW p, NEW q, Begins(p, q)
    PROVE  IsPrefix(p, q)
<1>1. p \in Seq(Byte) /\ Len(p) \in Nat /\ Len(p) <= Len(q)
  BY DEF Begins
<1>2. SubSeq(p, 1, Len(p)) = SubSeq(q, 1, Len(p))
  BY <1>1, InsideSame
<1> QED BY <1>1, <1>2 DEF IsPrefix

(* Numbers that both hold are the same.                                    *)
LEMMA NumbersSame ==
    ASSUME NEW p, NEW q, Begins(p, q)
    PROVE  /\ Len(p) >= 2 => U16(p) = U16(q) /\ U16(p) \in Nat
           /\ Len(p) >= 3 => U24(p) = U24(q) /\ Si24(p) = Si24(q) /\ U24(p) \in Nat
<1>1. p \in Seq(Byte) /\ Len(p) \in Nat /\ \A i \in 1 .. Len(p) : p[i] = q[i]
  BY DEF Begins
<1>2. \A b \in Byte : b \in Nat
  BY DEF Byte
<1>3. ASSUME Len(p) >= 2 PROVE U16(p) = U16(q) /\ U16(p) \in Nat
  <2>1. p[1] = q[1] /\ p[2] = q[2] /\ p[1] \in Nat /\ p[2] \in Nat
    BY <1>1, <1>2, <1>3
  <2> QED BY <2>1 DEF U16
<1>4. ASSUME Len(p) >= 3 PROVE U24(p) = U24(q) /\ Si24(p) = Si24(q) /\ U24(p) \in Nat
  <2>1. p[1] = q[1] /\ p[2] = q[2] /\ p[3] = q[3] /\ p[1] \in Nat /\ p[2] \in Nat /\ p[3] \in Nat
    BY <1>1, <1>2, <1>4
  <2>2. U24(p) = U24(q) /\ U24(p) \in Nat
    BY SMT, <2>1 DEF U24
  <2>3. Si24(p) = Si24(q)
    BY SMT, <2>2 DEF Si24
  <2> QED BY <2>2, <2>3
<1> QED BY <1>3, <1>4

(* So is the codec both name.                                              *)
LEMMA CodecSame ==
    ASSUME NEW p, NEW q, Begins(p, q), Len(p) >= 4, NEW code
    PROVE  FromBytes(p, code) = FromBytes(q, code)
<1>1. Len(p) \in Nat
  BY DEF Begins
<1>2. First(p, 4) = First(q, 4)
  BY <1>1, InsideSame DEF First
<1> QED BY <1>2 DEF FromBytes

----------------------------------------------------------------------------
(* The loops of the parsers.                                               *)

(* What holds from 0 up holds everywhere.                                  *)
LEMMA FromZeroUp ==
    ASSUME NEW N \in Nat, NEW G, 0 \in G,
           \A m \in 1 .. N : m - 1 \in G => m \in G
    PROVE  0 .. N \subseteq G
<1> DEFINE S == {m \in 0 .. N : m \notin G}
<1> SUFFICES ASSUME S # {} PROVE FALSE
  OBVIOUS
<1>1. PICK m \in S : \A k \in S : m <= k
  <2>1. S \in SUBSET Nat
    OBVIOUS
  <2> HIDE DEF S
  <2> QED BY <2>1, LeastNatural
<1>2. m \in 1 .. N /\ m \notin G
  BY <1>1
<1>3. m - 1 \in 0 .. N /\ m - 1 \notin S
  BY <1>1, <1>2
<1> QED BY <1>2, <1>3

(* What holds of a place once it holds of all behind it holds everywhere.  *)
LEMMA FromEndDown ==
    ASSUME NEW N \in Nat, NEW G,
           \A m \in 0 .. N : (\A k \in 0 .. N : k > m => k \in G) => m \in G
    PROVE  0 .. N \subseteq G
<1> DEFINE S == {d \in 0 .. N : N - d \notin G}
<1> SUFFICES ASSUME NEW bad \in 0 .. N, bad \notin G PROVE FALSE
  OBVIOUS
<1>0. N - bad \in S
  OBVIOUS
<1>1. PICK d \in S : \A e \in S : d <= e
  <2>1. S \in SUBSET Nat /\ S # {}
    BY <1>0
  <2> HIDE DEF S
  <2> QED BY <2>1, LeastNatural
<1>2. N - d \in 0 .. N /\ N - d \notin G /\ d \in 0 .. N
  BY <1>1
<1>3. ASSUME NEW k \in 0 .. N, k > N - d PROVE k \in G
  <2>1. N - k \in 0 .. N /\ N - k < d /\ N - (N - k) = k
    BY <1>2, <1>3
  <2>2. N - k \notin S
    BY <1>1, <1>2, <2>1
  <2> QED BY <2>1, <2>2
<1> QED BY <1>2, <1>3

(* What the loops tell of an entry; head is how every frame begins.        *)
Framed(head, data) == Append(head, data)

(* Tracks of some codecs.                                                  *)
Tracks(codecs, head) ==
    {Track(id, c, Framed(head, data)) : id \in Byte, c \in codecs, data \in Seq(Byte)}

(* One more track in front of both.                                        *)
LEMMA TrackInFront ==
    ASSUME NEW T, NEW x \in T, NEW s \in Seq(T), NEW t \in Seq(T), IsPrefix(s, t)
    PROVE  << x >> \o s \in Seq(T) /\ << x >> \o t \in Seq(T) /\ IsPrefix(<< x >> \o s, << x >> \o t)
<1> DEFINE u == << x >> \o s
           v == << x >> \o t
<1>1. << x >> \in Seq(T) /\ Len(<< x >>) = 1 /\ << x >>[1] = x
  OBVIOUS
<1>2. /\ u \in Seq(T) /\ Len(u) = 1 + Len(s)
      /\ \A i \in 1 .. 1 + Len(s) : u[i] = IF i <= 1 THEN x ELSE s[i - 1]
  BY <1>1, ConcatProperties
<1>3. /\ v \in Seq(T) /\ Len(v) = 1 + Len(t)
      /\ \A i \in 1 .. 1 + Len(t) : v[i] = IF i <= 1 THEN x ELSE t[i - 1]
  BY <1>1, ConcatProperties
<1>4. Len(s) \in Nat /\ Len(t) \in Nat /\ Len(s) <= Len(t)
  BY DEF IsPrefix
<1>5. \A i \in 1 .. Len(s) : s[i] = t[i]
  <2>1. SubSeq(s, 1, Len(s)) = SubSeq(t, 1, Len(s))
    BY DEF IsPrefix
  <2>2. \A i \in 1 .. Len(s) : SubSeq(s, 1, Len(s))[i] = s[i] /\ SubSeq(t, 1, Len(s))[i] = t[i]
    BY <1>4
  <2> QED BY <2>1, <2>2
<1> HIDE DEF u, v
<1>6. Len(u) <= Len(v) /\ \A i \in 1 .. Len(u) : u[i] = v[i]
  <2>1. Len(u) <= Len(v)
    BY <1>2, <1>3, <1>4
  <2>2. ASSUME NEW i \in 1 .. Len(u) PROVE u[i] = v[i]
    <3>1. CASE i = 1
      BY <1>2, <1>3, <1>4, <3>1
    <3>2. CASE i # 1
      <4>1. i - 1 \in 1 .. Len(s) /\ i \in 1 .. 1 + Len(t) /\ i \in 1 .. 1 + Len(s) /\ ~(i <= 1)
        BY <1>2, <1>4, <3>2
      <4>2. u[i] = s[i - 1] /\ v[i] = t[i - 1]
        BY <1>2, <1>3, <4>1
      <4> QED BY <1>5, <4>1, <4>2
    <3> QED BY <3>1, <3>2
  <2> QED BY <2>1, <2>2
<1>7. IsPrefix(u, v)
  <2>1. /\ SubSeq(u, 1, Len(u)) \in Seq(T) /\ SubSeq(v, 1, Len(u)) \in Seq(T)
        /\ Len(SubSeq(u, 1, Len(u))) = Len(u) /\ Len(SubSeq(v, 1, Len(u))) = Len(u)
        /\ \A i \in 1 .. Len(u) : SubSeq(u, 1, Len(u))[i] = u[i] /\ SubSeq(v, 1, Len(u))[i] = v[i]
    BY <1>2, <1>3, <1>4, <1>6
  <2>2. SubSeq(u, 1, Len(u)) = SubSeq(v, 1, Len(u))
    BY <1>6, <2>1, SeqEqual
  <2> QED BY <1>6, <2>2 DEF IsPrefix
<1> QED BY <1>2, <1>3, <1>7 DEF u, v

(* What a loop reads of an entry that is all there.                        *)
LEMMA EntrySame ==
    ASSUME NEW p, NEW q, Begins(p, q), NEW header \in {4, 8}, ~EndsHere(p, header)
    PROVE  LET size == U24(Skip(p, header - 3))
           IN  /\ Len(p) \in Nat /\ Len(q) \in Nat /\ size \in Nat /\ Len(p) >= header + size
               /\ ~EndsHere(q, header) /\ U24(Skip(q, header - 3)) = size
               /\ Entry(p, header) = Entry(q, header) /\ Entry(p, header) \in Seq(Byte)
               /\ p # << >> /\ p[1] = q[1] /\ p[1] \in Byte
<1> DEFINE size == U24(Skip(p, header - 3))
<1>1. /\ p \in Seq(Byte) /\ q \in Seq(Byte) /\ Len(p) \in Nat /\ Len(q) \in Nat /\ Len(p) <= Len(q)
      /\ header \in Nat /\ header - 3 \in Nat /\ header >= 4
  BY DEF Begins
<1>2. Len(p) >= header
  BY <1>1 DEF EndsHere
<1>3. Len(Skip(p, header - 3)) >= 3
  <2>1. Len(Skip(p, header - 3)) = Len(p) - (header - 3)
    BY <1>1, <1>2, SkipIs
  <2> QED BY <1>1, <1>2, <2>1
<1>4. size \in Nat /\ U24(Skip(q, header - 3)) = size
  BY <1>1, <1>3, SkipBegins, NumbersSame
<1>5. ~(Len(p) < header + size)
  BY DEF EndsHere
<1> HIDE DEF size
<1>6. Len(p) >= header + size /\ Len(q) >= header + size /\ Len(q) >= header
  BY <1>1, <1>2, <1>4, <1>5
<1>7. ~EndsHere(q, header)
  BY <1>1, <1>4, <1>6 DEF EndsHere
<1>8. /\ Entry(p, header) = SubSeq(p, header + 1, header + size)
      /\ Entry(q, header) = SubSeq(q, header + 1, header + size)
  BY <1>4 DEF Entry, size
<1>9. Entry(p, header) = Entry(q, header) /\ Entry(p, header) \in Seq(Byte)
  <2> DEFINE first == header + 1
             end == header + size
  <2>1. first \in Nat \ {0} /\ end \in Nat /\ end <= Len(p)
    BY <1>1, <1>4, <1>6
  <2>2. Entry(p, header) = SubSeq(p, first, end) /\ Entry(q, header) = SubSeq(q, first, end)
    BY <1>8
  <2> HIDE DEF first, end
  <2>3. SubSeq(p, first, end) = SubSeq(q, first, end) /\ SubSeq(p, first, end) \in Seq(Byte)
    BY <2>1, InsideSame
  <2> QED BY <2>2, <2>3
<1>10. p # << >> /\ p[1] = q[1] /\ p[1] \in Byte
  <2>1. 1 \in 1 .. Len(p) /\ Len(p) # 0
    BY <1>1, <1>2
  <2>2. p[1] = q[1]
    BY <2>1 DEF Begins
  <2> QED BY <1>1, <2>1, <2>2
<1> QED BY <1>1, <1>4, <1>6, <1>7, <1>9, <1>10 DEF size

(* The tracks of one codec from a place on, by those behind it.            *)
SameStep(data, codec, head, f, at) ==
    LET rest == Skip(data, at)
    IN  IF EndsHere(rest, 4) THEN << >>
        ELSE << Track(rest[1], codec, Framed(head, Entry(rest, 4))) >>
             \o f[at + 4 + U24(Tail(rest))]

IsSame(data, codec, head, f) == f = [at \in 0 .. Len(data) |-> SameStep(data, codec, head, f, at)]

(* The step of the loop stays within the data.                             *)
LEMMA NextPlace ==
    ASSUME NEW data \in Seq(Byte), NEW at \in 0 .. Len(data), NEW header \in {4, 8},
           ~EndsHere(Skip(data, at), header)
    PROVE  LET next == at + header + U24(Skip(Skip(data, at), header - 3))
           IN  next \in 0 .. Len(data) /\ next > at
<1> DEFINE rest == Skip(data, at)
           size == U24(Skip(rest, header - 3))
<1>1. Begins(rest, rest) /\ Len(data) \in Nat /\ at \in Nat /\ at <= Len(data)
  BY SkipIs DEF Begins
<1>2. Len(rest) = Len(data) - at
  BY <1>1, SkipIs
<1> HIDE DEF rest
<1>3. size \in Nat /\ Len(rest) >= header + size
  BY <1>1, EntrySame DEF rest
<1> HIDE DEF size
<1>4. at + header + size \in 0 .. Len(data) /\ at + header + size > at
  BY <1>1, <1>2, <1>3
<1> QED BY <1>4 DEF size, rest

(* A function whose value at a place is given by its values behind it.     *)
LooksBehind(N, V, W) ==
    /\ W \in [0 .. N -> [[0 .. N -> V] -> V]]
    /\ \A at \in 0 .. N : \A f, g \in [0 .. N -> V] :
          (\A k \in 0 .. N : k > at => f[k] = g[k]) => W[at][f] = W[at][g]

Solves(N, V, W, f) == f \in [0 .. N -> V] /\ \A at \in 0 .. N : f[at] = W[at][f]

(* There is one.                                                           *)
LEMMA BackwardExists ==
    ASSUME NEW N \in Nat, NEW V, NEW v0 \in V, NEW W, LooksBehind(N, V, W)
    PROVE  \E f : Solves(N, V, W, f)
<1> USE DEF LooksBehind, Solves
<1> DEFINE P(m) == \E f \in [0 .. N -> V] : \A at \in 0 .. N : at > N - m => f[at] = W[at][f]
           G == {m \in 0 .. N + 1 : P(m)}
<1>1. P(0)
  <2>1. [at \in 0 .. N |-> v0] \in [0 .. N -> V]
    OBVIOUS
  <2>2. \A at \in 0 .. N : ~(at > N - 0)
    OBVIOUS
  <2> QED BY <2>1, <2>2
<1>2. ASSUME NEW m \in 1 .. N + 1, P(m - 1)
      PROVE  P(m)
  <2> DEFINE a == N - m + 1
  <2>1. /\ a \in 0 .. N /\ a > N - m
        /\ \A k \in 0 .. N : k > N - m => k >= a
        /\ \A k \in 0 .. N : k > N - m /\ k # a => k > a /\ k > N - (m - 1)
    OBVIOUS
  <2>2. PICK f \in [0 .. N -> V] : \A at \in 0 .. N : at > N - (m - 1) => f[at] = W[at][f]
    BY <1>2
  <2> HIDE DEF a
  <2> DEFINE g == [f EXCEPT ![a] = W[a][f]]
  <2>3. W[a][f] \in V
    BY <2>1
  <2>4. g \in [0 .. N -> V] /\ g[a] = W[a][f] /\ \A k \in 0 .. N : k # a => g[k] = f[k]
    BY <2>1, <2>3
  <2> HIDE DEF g
  <2>5. ASSUME NEW at \in 0 .. N, at > N - m
        PROVE  g[at] = W[at][g]
    <3>1. at >= a
      BY <2>1, <2>5
    <3>2. \A k \in 0 .. N : k > at => f[k] = g[k]
      <4>1. \A k \in 0 .. N : k > at => k # a
        BY <2>1, <3>1
      <4> QED BY <2>4, <4>1
    <3>3. W[at][f] = W[at][g]
      BY <2>4, <3>2
    <3>4. CASE at = a
      BY <2>4, <3>3, <3>4
    <3>5. CASE at # a
      BY <2>1, <2>2, <2>4, <2>5, <3>3, <3>5
    <3> QED BY <3>4, <3>5
  <2> QED BY <2>4, <2>5
<1>3. 0 .. N + 1 \subseteq G
  <2>1. 0 \in G
    BY <1>1
  <2>2. ASSUME NEW m \in 1 .. N + 1, m - 1 \in G PROVE m \in G
    <3> HIDE DEF P
    <3>1. P(m - 1)
      BY <2>2
    <3>2. P(m)
      BY <1>2, <3>1
    <3> QED BY <3>2
  <2>3. N + 1 \in Nat
    OBVIOUS
  <2> HIDE DEF G
  <2> QED BY <2>1, <2>2, <2>3, FromZeroUp
<1>4. P(N + 1)
  <2>1. N + 1 \in 0 .. N + 1
    OBVIOUS
  <2>2. N + 1 \in G
    BY <1>3, <2>1
  <2> HIDE DEF P
  <2> QED BY <2>2
<1>5. \A at \in 0 .. N : at > N - (N + 1)
  OBVIOUS
<1> QED BY <1>4, <1>5

(* A track is one of the tracks.                                           *)
LEMMA TrackIsIn ==
    ASSUME NEW codecs, NEW c \in codecs, NEW head, NEW id \in Byte, NEW data \in Seq(Byte)
    PROVE  Track(id, c, Framed(head, data)) \in Tracks(codecs, head)
BY DEF Tracks

(* What the loop over tracks of one codec makes of a place depends on what *)
(* it makes of the places behind alone, and is a sequence of tracks.       *)
LEMMA SameStepFacts ==
    ASSUME NEW data \in Seq(Byte), NEW codec, NEW head, NEW at \in 0 .. Len(data),
           NEW f, \A k \in 0 .. Len(data) : k > at => f[k] \in Seq(Tracks({codec}, head)),
           NEW g, \A k \in 0 .. Len(data) : k > at => f[k] = g[k]
    PROVE  /\ SameStep(data, codec, head, f, at) = SameStep(data, codec, head, g, at)
           /\ SameStep(data, codec, head, f, at) \in Seq(Tracks({codec}, head))
<1> DEFINE rest == Skip(data, at)
           track == Track(rest[1], codec, Framed(head, Entry(rest, 4)))
           next == at + 4 + U24(Tail(rest))
           T == Tracks({codec}, head)
<1>1. CASE EndsHere(rest, 4)
  BY <1>1 DEF SameStep
<1>2. CASE ~EndsHere(rest, 4)
  <2>1. /\ SameStep(data, codec, head, f, at) = << track >> \o f[next]
        /\ SameStep(data, codec, head, g, at) = << track >> \o g[next]
    BY <1>2 DEF SameStep
  <2>2. rest \in Seq(Byte) /\ Begins(rest, rest)
    BY SkipIs DEF Begins
  <2>3. rest # << >> /\ rest[1] \in Byte /\ Entry(rest, 4) \in Seq(Byte)
    BY <1>2, <2>2, EntrySame
  <2>4. track \in T
    <3> HIDE DEF rest
    <3> QED BY <2>3, TrackIsIn
  <2>5. next \in 0 .. Len(data) /\ next > at
    <3>1. Tail(rest) = Skip(rest, 4 - 3)
      BY <2>2, <2>3, TailIsSkip
    <3> QED BY <1>2, <3>1, NextPlace
  <2> HIDE DEF rest, track, next, T
  <2>6. f[next] = g[next] /\ f[next] \in Seq(T)
    BY <2>5 DEF T
  <2>7. << track >> \o f[next] \in Seq(T)
    BY <2>4, <2>6
  <2> QED BY <2>1, <2>6, <2>7 DEF T
<1> QED BY <1>1, <1>2

(* The loop over tracks of one codec.                                      *)
LEMMA SameCodecIs ==
    ASSUME NEW data \in Seq(Byte), NEW codec, NEW head
    PROVE  \E f : /\ SameCodec(data, codec, head) = f[0]
                  /\ \A at \in 0 .. Len(data) : /\ f[at] = SameStep(data, codec, head, f, at)
                                                /\ f[at] \in Seq(Tracks({codec}, head))
<1> DEFINE N == Len(data)
           V == Seq(Tracks({codec}, head))
           W == [at \in 0 .. N |-> [f \in [0 .. N -> V] |-> SameStep(data, codec, head, f, at)]]
           from == CHOOSE f : IsSame(data, codec, head, f)
<1>1. N \in Nat /\ << >> \in V
  OBVIOUS
<1>2. \A at \in 0 .. N : \A f \in [0 .. N -> V] : SameStep(data, codec, head, f, at) \in V
  BY SameStepFacts
<1>3. W \in [0 .. N -> [[0 .. N -> V] -> V]]
  BY <1>2
<1>4. ASSUME NEW at \in 0 .. N, NEW f \in [0 .. N -> V], NEW g \in [0 .. N -> V],
             \A k \in 0 .. N : k > at => f[k] = g[k]
      PROVE  W[at][f] = W[at][g]
  <2>1. SameStep(data, codec, head, f, at) = SameStep(data, codec, head, g, at)
    BY <1>4, SameStepFacts
  <2> QED BY <2>1
<1>5. PICK f : Solves(N, V, W, f)
  <2>1. \A at \in 0 .. N : \A f, g \in [0 .. N -> V] :
            (\A k \in 0 .. N : k > at => f[k] = g[k]) => W[at][f] = W[at][g]
    BY <1>4
  <2> HIDE DEF W, V, N
  <2>2. LooksBehind(N, V, W)
    BY <1>3, <2>1 DEF LooksBehind
  <2> QED BY <1>1, <2>2, BackwardExists
<1>6. IsSame(data, codec, head, f)
  BY <1>5 DEF IsSame, Solves
<1>7. IsSame(data, codec, head, from)
  BY <1>6
<1>8. SameCodec(data, codec, head) = from[0]
  BY DEF SameCodec, IsSame, SameStep, Framed
<1> HIDE DEF from
<1>9. \A at \in 0 .. N : from[at] = SameStep(data, codec, head, from, at)
  BY <1>7 DEF IsSame
<1> DEFINE G == {at \in 0 .. N : from[at] \in V}
<1>10. 0 .. N \subseteq G
  <2>1. ASSUME NEW m \in 0 .. N, \A k \in 0 .. N : k > m => k \in G
        PROVE  m \in G
    <3>1. SameStep(data, codec, head, from, m) \in V
      BY <2>1, SameStepFacts
    <3> QED BY <1>9, <3>1
  <2> HIDE DEF G
  <2> QED BY <1>1, <2>1, FromEndDown
<1> QED BY <1>8, <1>9, <1>10

(* What is behind a place of both.                                         *)
LEMMA BehindBegins ==
    ASSUME NEW p, NEW q, Begins(p, q), NEW at \in 0 .. Len(p)
    PROVE  /\ Begins(Skip(p, at), Skip(q, at)) /\ at \in 0 .. Len(q)
           /\ p \in Seq(Byte) /\ q \in Seq(Byte) /\ Len(p) \in Nat /\ Len(q) \in Nat
           /\ Len(p) <= Len(q)
           /\ Skip(p, at) \in Seq(Byte) /\ Skip(q, at) \in Seq(Byte)
           /\ Len(Skip(p, at)) \in Nat /\ Len(Skip(q, at)) \in Nat
           /\ Len(Skip(p, at)) <= Len(Skip(q, at))
<1>1. /\ p \in Seq(Byte) /\ q \in Seq(Byte) /\ Len(p) \in Nat /\ Len(q) \in Nat /\ Len(p) <= Len(q)
      /\ at \in Nat /\ at \in 0 .. Len(q)
  BY DEF Begins
<1>2. Begins(Skip(p, at), Skip(q, at))
  BY <1>1, SkipBegins
<1>3. /\ Skip(p, at) \in Seq(Byte) /\ Skip(q, at) \in Seq(Byte)
      /\ Len(Skip(p, at)) <= Len(Skip(q, at))
  BY <1>2 DEF Begins
<1> QED BY <1>1, <1>2, <1>3

(* The empty sequence is a prefix of all.                                  *)
LEMMA EmptyIsPrefix ==
    ASSUME NEW T, NEW t \in Seq(T)
    PROVE  IsPrefix(<< >>, t)
<1>1. Len(<< >>) = 0 /\ Len(t) \in Nat /\ SubSeq(<< >>, 1, 0) = << >> /\ SubSeq(t, 1, 0) = << >>
  BY SubSeqEmpty
<1> QED BY <1>1 DEF IsPrefix

(* Of tracks of one codec a cut loses the last ones.                       *)
LEMMA SameCodecCut ==
    ASSUME NEW p, NEW q, Begins(p, q), NEW codec, NEW head
    PROVE  IsPrefix(SameCodec(p, codec, head), SameCodec(q, codec, head))
<1> DEFINE N == Len(p)
           T == Tracks({codec}, head)
<1>1. p \in Seq(Byte) /\ q \in Seq(Byte) /\ N \in Nat
  BY DEF Begins
<1>2. PICK f : /\ SameCodec(p, codec, head) = f[0]
               /\ \A at \in 0 .. Len(p) : f[at] = SameStep(p, codec, head, f, at) /\ f[at] \in Seq(T)
  BY <1>1, SameCodecIs
<1>3. PICK g : /\ SameCodec(q, codec, head) = g[0]
               /\ \A at \in 0 .. Len(q) : g[at] = SameStep(q, codec, head, g, at) /\ g[at] \in Seq(T)
  BY <1>1, SameCodecIs
<1> DEFINE G == {at \in 0 .. N : IsPrefix(f[at], g[at])}
<1>4. ASSUME NEW at \in 0 .. N, \A k \in 0 .. N : k > at => k \in G
      PROVE  at \in G
  <2> DEFINE rest == Skip(p, at)
             whole == Skip(q, at)
             track == Track(rest[1], codec, Framed(head, Entry(rest, 4)))
             next == at + 4 + U24(Tail(rest))
  <2>1. Begins(rest, whole) /\ at \in 0 .. Len(q) /\ rest \in Seq(Byte) /\ whole \in Seq(Byte)
    BY BehindBegins
  <2>2. CASE EndsHere(rest, 4)
    <3>1. f[at] = << >>
      BY <1>2, <2>2 DEF SameStep
    <3>2. IsPrefix(<< >>, g[at])
      BY <1>3, <2>1, EmptyIsPrefix
    <3> QED BY <3>1, <3>2
  <2>3. CASE ~EndsHere(rest, 4)
    <3>1. /\ ~EndsHere(whole, 4) /\ U24(Skip(whole, 4 - 3)) = U24(Skip(rest, 4 - 3))
          /\ Entry(rest, 4) = Entry(whole, 4) /\ Entry(rest, 4) \in Seq(Byte)
          /\ rest # << >> /\ rest[1] = whole[1] /\ rest[1] \in Byte
      BY <2>1, <2>3, EntrySame
    <3>2. Tail(rest) = Skip(rest, 4 - 3) /\ Tail(whole) = Skip(whole, 4 - 3)
      BY <2>1, <3>1, TailIsSkip, TailBegins
    <3>3. next \in 0 .. N /\ next > at
      BY <1>1, <2>3, <3>2, NextPlace
    <3>4. f[at] = << track >> \o f[next]
      BY <1>2, <2>3 DEF SameStep
    <3>5. g[at] = << track >> \o g[next]
      <4>1. g[at] = << Track(whole[1], codec, Framed(head, Entry(whole, 4))) >>
                    \o g[at + 4 + U24(Tail(whole))]
        BY <1>3, <2>1, <3>1 DEF SameStep
      <4> HIDE DEF rest, whole
      <4> QED BY <3>1, <3>2, <4>1
    <3>6. track \in T
      <4> HIDE DEF rest
      <4> QED BY <3>1, TrackIsIn
    <3> HIDE DEF rest, whole, track, next, T
    <3>7. f[next] \in Seq(T) /\ g[next] \in Seq(T) /\ IsPrefix(f[next], g[next])
      <4>1. next \in 0 .. Len(q)
        BY <1>1, <3>3 DEF Begins
      <4> QED BY <1>2, <1>3, <1>4, <3>3, <4>1
    <3>8. IsPrefix(f[at], g[at])
      BY <3>4, <3>5, <3>6, <3>7, TrackInFront
    <3> QED BY <3>8
  <2> QED BY <2>2, <2>3
<1>5. 0 .. N \subseteq G
  <2> HIDE DEF G
  <2> QED BY <1>1, <1>4, FromEndDown
<1>6. 0 \in G
  BY <1>1, <1>5
<1> QED BY <1>2, <1>3, <1>6

----------------------------------------------------------------------------
(* Tracks that name their codecs, from a place on.                         *)
EachStep(data, code, head, f, at) ==
    LET rest == Skip(data, at)
        codec == FromBytes(Tail(rest), code)
        track == Track(rest[1], CHOOSE c \in codec : TRUE, Framed(head, Entry(rest, 8)))
    IN  IF Len(rest) < 8 THEN {<< >>}
        ELSE IF codec = {} THEN {}
        ELSE IF EndsHere(rest, 8) THEN {<< >>}
        ELSE {<< track >> \o tracks : tracks \in f[at + 8 + U24(Skip(rest, 5))]}

IsEach(data, code, head, f) == f = [at \in 0 .. Len(data) |-> EachStep(data, code, head, f, at)]

(* An element of S, or none.                                               *)
AtMostOne(S) == {{}} \cup {{s} : s \in S}

(* What the loop makes of a place that holds an entry.                     *)
LEMMA EachEntry ==
    ASSUME NEW data \in Seq(Byte), NEW code, NEW head, NEW at \in 0 .. Len(data),
           ~(Len(Skip(data, at)) < 8), FromBytes(Tail(Skip(data, at)), code) # {},
           ~EndsHere(Skip(data, at), 8)
    PROVE  LET rest == Skip(data, at)
               track == Track(rest[1], CHOOSE c \in FromBytes(Tail(rest), code) : TRUE,
                              Framed(head, Entry(rest, 8)))
               next == at + 8 + U24(Skip(rest, 5))
           IN  /\ track \in Tracks(DOMAIN code, head)
               /\ next \in 0 .. Len(data) /\ next > at
<1> DEFINE rest == Skip(data, at)
           codec == CHOOSE c \in FromBytes(Tail(rest), code) : TRUE
           track == Track(rest[1], codec, Framed(head, Entry(rest, 8)))
           next == at + 8 + U24(Skip(rest, 5))
<1>1. rest \in Seq(Byte) /\ Begins(rest, rest)
  BY SkipIs DEF Begins
<1>2. rest # << >> /\ rest[1] \in Byte /\ Entry(rest, 8) \in Seq(Byte)
  BY <1>1, EntrySame
<1>3. codec \in DOMAIN code
  BY DEF FromBytes
<1>4. track \in Tracks(DOMAIN code, head)
  <2> HIDE DEF rest, codec
  <2> QED BY <1>2, <1>3, TrackIsIn
<1>5. next \in 0 .. Len(data) /\ next > at
  <2>1. 8 - 3 = 5
    OBVIOUS
  <2> QED BY <2>1, NextPlace
<1> QED BY <1>4, <1>5

(* The same of the loop over tracks that name their codecs.                *)
LEMMA EachStepFacts ==
    ASSUME NEW data \in Seq(Byte), NEW code, NEW head, NEW at \in 0 .. Len(data),
           NEW f, \A k \in 0 .. Len(data) : k > at => f[k] \in AtMostOne(Seq(Tracks(DOMAIN code, head))),
           NEW g, \A k \in 0 .. Len(data) : k > at => f[k] = g[k]
    PROVE  /\ EachStep(data, code, head, f, at) = EachStep(data, code, head, g, at)
           /\ EachStep(data, code, head, f, at) \in AtMostOne(Seq(Tracks(DOMAIN code, head)))
<1> DEFINE rest == Skip(data, at)
           codec == FromBytes(Tail(rest), code)
           track == Track(rest[1], CHOOSE c \in codec : TRUE, Framed(head, Entry(rest, 8)))
           next == at + 8 + U24(Skip(rest, 5))
           T == Tracks(DOMAIN code, head)
<1>1. CASE Len(rest) < 8
  <2>1. EachStep(data, code, head, f, at) = {<< >>} /\ EachStep(data, code, head, g, at) = {<< >>}
    BY <1>1 DEF EachStep
  <2>2. << >> \in Seq(T)
    OBVIOUS
  <2> QED BY <2>1, <2>2 DEF AtMostOne
<1>2. CASE ~(Len(rest) < 8) /\ codec = {}
  <2>1. EachStep(data, code, head, f, at) = {} /\ EachStep(data, code, head, g, at) = {}
    BY <1>2 DEF EachStep
  <2> QED BY <2>1 DEF AtMostOne
<1>3. CASE ~(Len(rest) < 8) /\ codec # {} /\ EndsHere(rest, 8)
  <2>1. EachStep(data, code, head, f, at) = {<< >>} /\ EachStep(data, code, head, g, at) = {<< >>}
    BY <1>3 DEF EachStep
  <2>2. << >> \in Seq(T)
    OBVIOUS
  <2> QED BY <2>1, <2>2 DEF AtMostOne
<1>4. CASE ~(Len(rest) < 8) /\ codec # {} /\ ~EndsHere(rest, 8)
  <2>1. /\ track \in T /\ next \in 0 .. Len(data) /\ next > at
        /\ EachStep(data, code, head, f, at) = {<< track >> \o tracks : tracks \in f[next]}
        /\ EachStep(data, code, head, g, at) = {<< track >> \o tracks : tracks \in g[next]}
    <3>1. track \in T /\ next \in 0 .. Len(data) /\ next > at
      BY <1>4, EachEntry
    <3>2. \A h : EachStep(data, code, head, h, at) = {<< track >> \o tracks : tracks \in h[next]}
      BY <1>4 DEF EachStep
    <3> HIDE DEF rest, codec, track, next, T
    <3> QED BY <3>1, <3>2
  <2> HIDE DEF rest, codec, track, next, T
  <2>2. f[next] = g[next] /\ f[next] \in AtMostOne(Seq(T))
    BY <2>1 DEF T
  <2>3. \A s \in Seq(T) : << track >> \o s \in Seq(T)
    BY <2>1
  <2>4. {<< track >> \o tracks : tracks \in f[next]} \in AtMostOne(Seq(T))
    <3>1. CASE f[next] = {}
      BY <3>1 DEF AtMostOne
    <3>2. ASSUME NEW s \in Seq(T), f[next] = {s}
          PROVE  {<< track >> \o tracks : tracks \in f[next]} \in AtMostOne(Seq(T))
      <4>1. {<< track >> \o tracks : tracks \in f[next]} = {<< track >> \o s}
        BY <3>2
      <4> QED BY <2>3, <4>1 DEF AtMostOne
    <3> QED BY <2>2, <3>1, <3>2 DEF AtMostOne
  <2> QED BY <2>1, <2>2, <2>4 DEF T
<1> QED BY <1>1, <1>2, <1>3, <1>4

(* The loop over tracks that name their codecs.                            *)
LEMMA EachCodecIs ==
    ASSUME NEW data \in Seq(Byte), NEW code, NEW head
    PROVE  \E f : /\ EachCodec(data, code, head) = f[0]
                  /\ \A at \in 0 .. Len(data) :
                        /\ f[at] = EachStep(data, code, head, f, at)
                        /\ f[at] \in AtMostOne(Seq(Tracks(DOMAIN code, head)))
<1> DEFINE N == Len(data)
           V == AtMostOne(Seq(Tracks(DOMAIN code, head)))
           W == [at \in 0 .. N |-> [f \in [0 .. N -> V] |-> EachStep(data, code, head, f, at)]]
           from == CHOOSE f : IsEach(data, code, head, f)
<1>1. N \in Nat /\ {} \in V
  BY DEF AtMostOne
<1>2. \A at \in 0 .. N : \A f \in [0 .. N -> V] : EachStep(data, code, head, f, at) \in V
  BY EachStepFacts
<1>3. W \in [0 .. N -> [[0 .. N -> V] -> V]]
  BY <1>2
<1>4. ASSUME NEW at \in 0 .. N, NEW f \in [0 .. N -> V], NEW g \in [0 .. N -> V],
             \A k \in 0 .. N : k > at => f[k] = g[k]
      PROVE  W[at][f] = W[at][g]
  <2>1. EachStep(data, code, head, f, at) = EachStep(data, code, head, g, at)
    BY <1>4, EachStepFacts
  <2> QED BY <2>1
<1>5. PICK f : Solves(N, V, W, f)
  <2>1. \A at \in 0 .. N : \A f, g \in [0 .. N -> V] :
            (\A k \in 0 .. N : k > at => f[k] = g[k]) => W[at][f] = W[at][g]
    BY <1>4
  <2> HIDE DEF W, V, N
  <2>2. LooksBehind(N, V, W)
    BY <1>3, <2>1 DEF LooksBehind
  <2> QED BY <1>1, <2>2, BackwardExists
<1>6. IsEach(data, code, head, f)
  BY <1>5 DEF IsEach, Solves
<1>7. IsEach(data, code, head, from)
  BY <1>6
<1>8. EachCodec(data, code, head) = from[0]
  BY DEF EachCodec, IsEach, EachStep, Framed
<1> HIDE DEF from
<1>9. \A at \in 0 .. N : from[at] = EachStep(data, code, head, from, at)
  BY <1>7 DEF IsEach
<1> DEFINE G == {at \in 0 .. N : from[at] \in V}
<1>10. 0 .. N \subseteq G
  <2>1. ASSUME NEW m \in 0 .. N, \A k \in 0 .. N : k > m => k \in G
        PROVE  m \in G
    <3>1. EachStep(data, code, head, from, m) \in V
      BY <2>1, EachStepFacts
    <3> QED BY <1>9, <3>1
  <2> HIDE DEF G
  <2> QED BY <1>1, <2>1, FromEndDown
<1> QED BY <1>8, <1>9, <1>10

(* Of tracks that name their codecs a cut loses the last ones, and the     *)
(* error that an unknown codec is may be among them.                       *)
LosesTracks(a, b) ==
    a = {} \/ b = {} \/ \E s, t : a = {s} /\ b = {t} /\ IsPrefix(s, t)

(* A cut of such tracks.                                                   *)
LEMMA EachCodecCut ==
    ASSUME NEW p, NEW q, Begins(p, q), NEW code, NEW head
    PROVE  LosesTracks(EachCodec(p, code, head), EachCodec(q, code, head))
<1> DEFINE N == Len(p)
           T == Tracks(DOMAIN code, head)
<1>1. p \in Seq(Byte) /\ q \in Seq(Byte) /\ N \in Nat
  BY DEF Begins
<1>2. PICK f : /\ EachCodec(p, code, head) = f[0]
               /\ \A at \in 0 .. Len(p) : f[at] = EachStep(p, code, head, f, at) /\ f[at] \in AtMostOne(Seq(T))
  BY <1>1, EachCodecIs
<1>3. PICK g : /\ EachCodec(q, code, head) = g[0]
               /\ \A at \in 0 .. Len(q) : g[at] = EachStep(q, code, head, g, at) /\ g[at] \in AtMostOne(Seq(T))
  BY <1>1, EachCodecIs
<1> DEFINE G == {at \in 0 .. N : LosesTracks(f[at], g[at])}
<1>4. ASSUME NEW at \in 0 .. N, \A k \in 0 .. N : k > at => k \in G
      PROVE  at \in G
  <2> DEFINE rest == Skip(p, at)
             whole == Skip(q, at)
             codec == FromBytes(Tail(rest), code)
             track == Track(rest[1], CHOOSE c \in codec : TRUE, Framed(head, Entry(rest, 8)))
             next == at + 8 + U24(Skip(rest, 5))
  <2>1. /\ Begins(rest, whole) /\ at \in 0 .. Len(q) /\ rest \in Seq(Byte) /\ whole \in Seq(Byte)
        /\ Len(rest) \in Nat /\ Len(whole) \in Nat /\ Len(rest) <= Len(whole)
    BY BehindBegins
  <2>2. ASSUME f[at] = {<< >>} PROVE LosesTracks(f[at], g[at])
    <3>1. g[at] \in AtMostOne(Seq(T))
      BY <1>3, <2>1
    <3>2. \A t \in Seq(T) : IsPrefix(<< >>, t)
      BY EmptyIsPrefix
    <3> QED BY <2>2, <3>1, <3>2 DEF AtMostOne, LosesTracks
  <2>3. CASE Len(rest) < 8
    <3>1. f[at] = {<< >>}
      BY <1>2, <2>3 DEF EachStep
    <3> QED BY <2>2, <3>1
  <2>4. CASE ~(Len(rest) < 8) /\ codec = {}
    <3>1. f[at] = {}
      BY <1>2, <2>4 DEF EachStep
    <3> QED BY <3>1 DEF LosesTracks
  <2>5. CASE ~(Len(rest) < 8) /\ codec # {} /\ EndsHere(rest, 8)
    <3>1. f[at] = {<< >>}
      BY <1>2, <2>5 DEF EachStep
    <3> QED BY <2>2, <3>1
  <2>6. CASE ~(Len(rest) < 8) /\ codec # {} /\ ~EndsHere(rest, 8)
    <3>1. /\ ~EndsHere(whole, 8) /\ U24(Skip(whole, 5)) = U24(Skip(rest, 5))
          /\ Entry(rest, 8) = Entry(whole, 8)
          /\ rest # << >> /\ rest[1] = whole[1]
      <4>1. 8 - 3 = 5
        OBVIOUS
      <4> QED BY <2>1, <2>6, <4>1, EntrySame
    <3>2. FromBytes(Tail(whole), code) = codec
      <4>1. Begins(Tail(rest), Tail(whole)) /\ Len(Tail(rest)) = Len(rest) - 1
        BY <2>1, <3>1, TailBegins
      <4>2. Len(Tail(rest)) >= 4
        BY <2>1, <2>6, <4>1
      <4> QED BY <4>1, <4>2, CodecSame
    <3>3. ~(Len(whole) < 8)
      BY <2>1, <2>6
    <3>4. /\ track \in T /\ next \in 0 .. Len(p) /\ next > at
          /\ f[at] = {<< track >> \o tracks : tracks \in f[next]}
      <4>1. \A h : EachStep(p, code, head, h, at) = {<< track >> \o tracks : tracks \in h[next]}
        BY <2>6 DEF EachStep
      <4>2. track \in T /\ next \in 0 .. Len(p) /\ next > at
        BY <1>1, <2>6, EachEntry
      <4> HIDE DEF track, next
      <4> QED BY <1>2, <4>1, <4>2
    <3>5. g[at] = {<< track >> \o tracks : tracks \in g[next]}
      <4> DEFINE other == Track(whole[1], CHOOSE c \in FromBytes(Tail(whole), code) : TRUE,
                                Framed(head, Entry(whole, 8)))
                 there == at + 8 + U24(Skip(whole, 5))
      <4>1. other = track /\ there = next
        <5> HIDE DEF rest, whole, codec
        <5> QED BY <3>1, <3>2
      <4>2. FromBytes(Tail(whole), code) # {}
        <5> HIDE DEF codec, rest, whole
        <5> QED BY <2>6, <3>2
      <4>3. EachStep(q, code, head, g, at) = {<< other >> \o tracks : tracks \in g[there]}
        BY <3>1, <3>3, <4>2 DEF EachStep
      <4>4. g[at] = EachStep(q, code, head, g, at)
        BY <1>3, <2>1
      <4> HIDE DEF other, there, track, next
      <4> QED BY <4>1, <4>3, <4>4
    <3> HIDE DEF rest, whole, track, next, T, codec
    <3>6. /\ f[next] \in AtMostOne(Seq(T)) /\ g[next] \in AtMostOne(Seq(T))
          /\ LosesTracks(f[next], g[next])
      <4>1. next \in 0 .. Len(q)
        BY <1>1, <3>4 DEF Begins
      <4> QED BY <1>2, <1>3, <1>4, <3>4, <4>1
    <3>7. LosesTracks(f[at], g[at])
      <4>1. CASE f[next] = {} \/ g[next] = {}
        BY <3>4, <3>5, <4>1 DEF LosesTracks
      <4>2. ASSUME NEW s, NEW t, f[next] = {s}, g[next] = {t}, IsPrefix(s, t)
            PROVE  LosesTracks(f[at], g[at])
        <5>1. s \in Seq(T) /\ t \in Seq(T)
          <6>1. \A S, x : {x} \in AtMostOne(S) => x \in S
            BY DEF AtMostOne
          <6>2. {s} \in AtMostOne(Seq(T)) /\ {t} \in AtMostOne(Seq(T))
            BY <3>6, <4>2
          <6> QED BY <6>1, <6>2
        <5>2. IsPrefix(<< track >> \o s, << track >> \o t)
          BY <3>4, <4>2, <5>1, TrackInFront
        <5>3. f[at] = {<< track >> \o s} /\ g[at] = {<< track >> \o t}
          BY <3>4, <3>5, <4>2
        <5> QED BY <5>2, <5>3 DEF LosesTracks
      <4> QED BY <3>6, <4>1, <4>2 DEF LosesTracks
    <3> QED BY <3>7
  <2> QED BY <2>3, <2>4, <2>5, <2>6
<1>5. 0 .. N \subseteq G
  <2> HIDE DEF G
  <2> QED BY <1>1, <1>4, FromEndDown
<1>6. 0 \in G
  BY <1>1, <1>5
<1> QED BY <1>2, <1>3, <1>6

----------------------------------------------------------------------------
(* Parameter sets.  What one more of them makes of the option so far.      *)
SetsAfter(before) ==
    {[sets |-> Append(s.sets, SubSeq(s.rest, 3, 2 + U16(s.rest))),
      rest |-> Skip(s.rest, 2 + U16(s.rest))] :
         s \in {t \in before : Len(t.rest) >= 2 /\ Len(t.rest) >= 2 + U16(t.rest)}}

Reading == [sets : Seq(Seq(Byte)), rest : Seq(Byte)]

(* The readings of some bytes and of a beginning of them: the same sets,   *)
(* and a beginning of the rest.                                            *)
SameSets(a, b) ==
    a = {} \/ \E s, t \in Reading : a = {s} /\ b = {t} /\ s.sets = t.sets /\ Begins(s.rest, t.rest)

(* One more set keeps it.                                                  *)
LEMMA SetsAfterCut ==
    ASSUME NEW a, NEW b, SameSets(a, b)
    PROVE  SameSets(SetsAfter(a), SetsAfter(b))
<1>1. CASE a = {}
  BY <1>1 DEF SetsAfter, SameSets
<1>2. ASSUME NEW s \in Reading, NEW t \in Reading, a = {s}, b = {t}, s.sets = t.sets, Begins(s.rest, t.rest)
      PROVE  SameSets(SetsAfter(a), SetsAfter(b))
  <2> DEFINE p == s.rest
             q == t.rest
             size == U16(p)
             u == [sets |-> Append(s.sets, SubSeq(p, 3, 2 + size)), rest |-> Skip(p, 2 + size)]
             v == [sets |-> Append(t.sets, SubSeq(q, 3, 2 + U16(q))), rest |-> Skip(q, 2 + U16(q))]
             read == Len(p) >= 2 /\ Len(p) >= 2 + size
  <2>1. Len(p) \in Nat /\ Len(q) \in Nat /\ Len(p) <= Len(q)
    BY <1>2 DEF Begins
  <2>2. CASE ~read
    <3>1. SetsAfter(a) = {}
      BY <1>2, <2>2 DEF SetsAfter
    <3> QED BY <3>1 DEF SameSets
  <2>3. CASE read
    <3>1. size = U16(q) /\ size \in Nat
      BY <1>2, <2>3, NumbersSame
    <3>2. Len(q) >= 2 /\ Len(q) >= 2 + U16(q)
      <4> HIDE DEF p, q, size
      <4> QED BY <2>1, <2>3, <3>1
    <3>3. SetsAfter(a) = {u}
      BY <1>2, <2>3 DEF SetsAfter
    <3>4. SetsAfter(b) = {v}
      BY <1>2, <3>2 DEF SetsAfter
    <3>5. SubSeq(p, 3, 2 + size) = SubSeq(q, 3, 2 + size) /\ SubSeq(p, 3, 2 + size) \in Seq(Byte)
      <4>1. 3 \in Nat \ {0} /\ 2 + size \in Nat /\ 2 + size <= Len(p)
        <5> HIDE DEF p, size
        <5> QED BY <2>1, <2>3, <3>1
      <4> QED BY <1>2, <4>1, InsideSame
    <3>6. Begins(Skip(p, 2 + size), Skip(q, 2 + size))
      <4>1. 2 + size \in Nat
        <5> HIDE DEF size
        <5> QED BY <3>1
      <4> QED BY <1>2, <4>1, SkipBegins
    <3>7. s.sets \in Seq(Seq(Byte)) /\ t.sets = s.sets
      BY <1>2 DEF Reading
    <3> HIDE DEF p, q, size
    <3>8. /\ u.sets = v.sets /\ Begins(u.rest, v.rest)
      BY <3>1, <3>5, <3>6, <3>7
    <3>9. u.sets \in Seq(Seq(Byte))
      BY <3>5, <3>7
    <3>10. u \in Reading /\ v \in Reading
      BY <3>8, <3>9 DEF Reading, Begins
    <3> HIDE DEF u, v
    <3> QED BY <3>3, <3>4, <3>8, <3>10 DEF SameSets
  <2> QED BY <2>2, <2>3
<1> QED BY <1>1, <1>2 DEF SameSets

(* The loop over parameter sets.                                           *)
IsReading(n, data, f) ==
    f = [i \in 0 .. n |-> IF i = 0 THEN {[sets |-> << >>, rest |-> data]} ELSE SetsAfter(f[i - 1])]

Reads(n, data, f) ==
    /\ f[0] = {[sets |-> << >>, rest |-> data]}
    /\ \A i \in 1 .. n : f[i] = SetsAfter(f[i - 1])

(* What the loop computes.                                                 *)
LEMMA ParameterSetsIs ==
    ASSUME NEW n \in Nat, NEW data \in Seq(Byte)
    PROVE  \E f : ParameterSets(n, data) = f[n] /\ Reads(n, data, f)
<1> DEFINE V == AtMostOne(Reading)
           start == {[sets |-> << >>, rest |-> data]}
           W == [j \in 0 .. n |-> [h \in [0 .. n -> V] |-> IF j = n THEN start ELSE SetsAfter(h[j + 1])]]
           after == CHOOSE f : IsReading(n, data, f)
<1>1. {} \in V /\ start \in V
  <2>1. [sets |-> << >>, rest |-> data] \in Reading
    BY DEF Reading
  <2> QED BY <2>1 DEF AtMostOne
<1>2. \A a \in V : SetsAfter(a) \in V
  <2> SUFFICES ASSUME NEW a \in V PROVE SetsAfter(a) \in V
    OBVIOUS
  <2>1. SameSets(a, a)
    <3>1. CASE a = {}
      BY <3>1 DEF SameSets
    <3>2. ASSUME NEW s \in Reading, a = {s} PROVE SameSets(a, a)
      <4>1. s.rest \in Seq(Byte)
        BY <3>2 DEF Reading
      <4>2. Begins(s.rest, s.rest)
        BY <4>1 DEF Begins
      <4> QED BY <3>2, <4>2 DEF SameSets
    <3> QED BY <3>1, <3>2 DEF AtMostOne
  <2>2. SameSets(SetsAfter(a), SetsAfter(a))
    BY <2>1, SetsAfterCut
  <2> QED BY <2>2 DEF SameSets, AtMostOne
<1> HIDE DEF V, start
<1>3. W \in [0 .. n -> [[0 .. n -> V] -> V]]
  BY <1>1, <1>2
<1>4. \A at \in 0 .. n : \A f, g \in [0 .. n -> V] :
          (\A k \in 0 .. n : k > at => f[k] = g[k]) => W[at][f] = W[at][g]
  OBVIOUS
<1>5. PICK h : Solves(n, V, W, h)
  <2> HIDE DEF W
  <2>1. LooksBehind(n, V, W)
    BY <1>3, <1>4 DEF LooksBehind
  <2> QED BY <1>1, <2>1, BackwardExists
<1>6. h \in [0 .. n -> V] /\ \A j \in 0 .. n : h[j] = IF j = n THEN start ELSE SetsAfter(h[j + 1])
  BY <1>5 DEF Solves
<1> DEFINE f == [i \in 0 .. n |-> h[n - i]]
<1>7. IsReading(n, data, f)
  <2>1. ASSUME NEW i \in 0 .. n
        PROVE  f[i] = IF i = 0 THEN start ELSE SetsAfter(f[i - 1])
    <3>1. CASE i = 0
      BY <1>6, <3>1
    <3>2. CASE i # 0
      <4>1. n - i \in 0 .. n /\ n - i # n /\ (n - i) + 1 = n - (i - 1) /\ i - 1 \in 0 .. n
        BY <3>2
      <4>2. h[n - i] = SetsAfter(h[n - (i - 1)])
        BY <1>6, <4>1
      <4> QED BY <3>2, <4>1, <4>2
    <3> QED BY <3>1, <3>2
  <2>2. f = [i \in 0 .. n |-> f[i]]
    OBVIOUS
  <2> HIDE DEF f
  <2>3. f = [i \in 0 .. n |-> IF i = 0 THEN start ELSE SetsAfter(f[i - 1])]
    BY <2>1, <2>2
  <2> QED BY <2>3 DEF IsReading, start
<1>8. IsReading(n, data, after)
  BY <1>7
<1>9. ParameterSets(n, data) = after[n]
  BY DEF ParameterSets, IsReading, SetsAfter
<1> HIDE DEF after
<1>10. Reads(n, data, after)
  <2>1. \A i \in 0 .. n : after[i] = IF i = 0 THEN {[sets |-> << >>, rest |-> data]}
                                    ELSE SetsAfter(after[i - 1])
    BY <1>8 DEF IsReading
  <2>2. 0 \in 0 .. n /\ \A i \in 1 .. n : i \in 0 .. n /\ i # 0
    OBVIOUS
  <2> QED BY <2>1, <2>2 DEF Reads
<1> QED BY <1>9, <1>10

(* A cut loses all of the parameter sets or none.                          *)
LEMMA ParameterSetsCut ==
    ASSUME NEW p, NEW q, Begins(p, q), NEW n \in Nat
    PROVE  SameSets(ParameterSets(n, p), ParameterSets(n, q))
<1>1. p \in Seq(Byte) /\ q \in Seq(Byte)
  BY DEF Begins
<1>2. PICK f : ParameterSets(n, p) = f[n] /\ Reads(n, p, f)
  BY <1>1, ParameterSetsIs
<1>3. PICK g : ParameterSets(n, q) = g[n] /\ Reads(n, q, g)
  BY <1>1, ParameterSetsIs
<1> DEFINE G == {i \in 0 .. n : SameSets(f[i], g[i])}
<1>4. 0 \in G
  <2> DEFINE s == [sets |-> << >>, rest |-> p]
             t == [sets |-> << >>, rest |-> q]
  <2>1. s \in Reading /\ t \in Reading /\ s.sets = t.sets /\ s.rest = p /\ t.rest = q
    BY <1>1 DEF Reading
  <2>2. f[0] = {s} /\ g[0] = {t}
    BY <1>2, <1>3 DEF Reads
  <2> HIDE DEF s, t
  <2>3. SameSets(f[0], g[0])
    BY <2>1, <2>2 DEF SameSets
  <2> QED BY <2>3
<1>5. ASSUME NEW m \in 1 .. n, m - 1 \in G PROVE m \in G
  <2>1. f[m] = SetsAfter(f[m - 1]) /\ g[m] = SetsAfter(g[m - 1])
    BY <1>2, <1>3 DEF Reads
  <2>2. SameSets(f[m - 1], g[m - 1])
    BY <1>5
  <2>3. SameSets(SetsAfter(f[m - 1]), SetsAfter(g[m - 1]))
    BY <2>2, SetsAfterCut
  <2> QED BY <2>1, <2>3
<1>6. n \in G
  <2> HIDE DEF G
  <2>1. 0 .. n \subseteq G
    BY <1>4, <1>5, FromZeroUp
  <2> QED BY <2>1
<1> QED BY <1>2, <1>3, <1>6

----------------------------------------------------------------------------
(* What a cut leaves of a result.                                          *)

(* Of what a payload of enhanced RTMP means, in the words of               *)
(* CutsLoseTheTail.                                                        *)
Cut(got, meant) ==
    /\ got[1] = meant[1]
    /\ IF got[1] = "Multitrack" /\ got[2] = OneTrack
       THEN /\ [got[3][1] EXCEPT !.data = << >>] = [meant[3][1] EXCEPT !.data = << >>]
            /\ Shortened(got[3][1].data, meant[3][1].data)
       ELSE IF got[1] = "MultichannelConfig"
       THEN SubSeq(got, 1, 4) = SubSeq(meant, 1, 4)
       ELSE Shortened(got, meant)

(* Of what a payload of AVC means.                                         *)
AvcCut(got, meant) ==
    /\ got[1] = meant[1]
    /\ IF got[1] = "Frame" THEN got[3] = meant[3] /\ IsPrefix(got[4], meant[4])
       ELSE Shortened(got, meant)

(* Results with the same front are cut when their last components are.     *)
LEMMA ShortenedTuples ==
    ASSUME NEW p, NEW q, IsPrefix(p, q)
    PROVE  /\ \A a : Shortened(a, a)
           /\ \A x : Shortened(<< x, p >>, << x, q >>)
           /\ \A x, y : Shortened(<< x, y, p >>, << x, y, q >>)
           /\ \A x, y, z : Shortened(<< x, y, z, p >>, << x, y, z, q >>)
           /\ \A x, y, z, w : Shortened(<< x, y, z, w, p >>, << x, y, z, w, q >>)
<1> HIDE DEF IsPrefix
<1>1. \A a : Shortened(a, a)
  BY DEF Shortened
<1>2. \A x : Shortened(<< x, p >>, << x, q >>)
  BY DEF Shortened
<1>3. \A x, y : Shortened(<< x, y, p >>, << x, y, q >>)
  BY DEF Shortened
<1>4. \A x, y, z : Shortened(<< x, y, z, p >>, << x, y, z, q >>)
  BY DEF Shortened
<1>5. \A x, y, z, w : Shortened(<< x, y, z, w, p >>, << x, y, z, w, q >>)
  BY DEF Shortened
<1> QED BY <1>1, <1>2, <1>3, <1>4, <1>5

(* The data of a single track.                                             *)
LEMMA VideoTrackCut ==
    ASSUME NEW p, NEW q, Begins(p, q), NEW type, VideoTrackData(type, p)[1] # "Invalid"
    PROVE  Shortened(VideoTrackData(type, p), VideoTrackData(type, q))
<1>1. /\ IsPrefix(p, q) /\ IsPrefix(Skip(p, 3), Skip(q, 3))
      /\ Len(p) \in Nat /\ Len(q) \in Nat /\ Len(p) <= Len(q)
  BY BeginsIsPrefix, SkipBegins DEF Begins
<1>2. Len(p) >= 3 => Len(q) >= 3 /\ Si24(p) = Si24(q)
  BY <1>1, NumbersSame
<1> DEFINE a == VideoTrackData(type, p)
           b == VideoTrackData(type, q)
<1>3. \/ type = 0 /\ a = <<"SequenceHeader", p>> /\ b = <<"SequenceHeader", q>>
      \/ type = 2 /\ a = <<"SequenceEnd">> /\ b = a
      \/ type = 3 /\ a = <<"Frame", 2, 0, p>> /\ b = <<"Frame", 2, 0, q>>
      \/ type = 1 /\ Len(p) >= 3 /\ a = <<"Frame", 2, Si24(p), Skip(p, 3)>>
         /\ b = <<"Frame", 2, Si24(q), Skip(q, 3)>>
  BY <1>2 DEF VideoTrackData, VideoPacketType, VideoFrameType, Invalid
<1> HIDE DEF a, b
<1> QED BY <1>1, <1>2, <1>3, ShortenedTuples DEF a, b

(* The same of audio.                                                      *)
LEMMA AudioTrackCut ==
    ASSUME NEW p, NEW q, Begins(p, q), NEW type, AudioTrackData(type, p)[1] # "Invalid"
    PROVE  Shortened(AudioTrackData(type, p), AudioTrackData(type, q))
<1>1. IsPrefix(p, q)
  BY BeginsIsPrefix
<1> DEFINE a == AudioTrackData(type, p)
           b == AudioTrackData(type, q)
<1>3. \/ type = 0 /\ a = <<"SequenceHeader", p>> /\ b = <<"SequenceHeader", q>>
      \/ type = 2 /\ a = <<"SequenceEnd">> /\ b = a
      \/ type = 1 /\ a = <<"Frame", p>> /\ b = <<"Frame", q>>
  BY DEF AudioTrackData, AudioPacketType, Invalid
<1> HIDE DEF a, b
<1> QED BY <1>1, <1>3, ShortenedTuples DEF a, b

(* What follows the codec, where no container is.                          *)
LEMMA VideoTypeCut ==
    ASSUME NEW p, NEW q, Begins(p, q), NEW type, NEW frame_type, NEW codec,
           ByVideoPacketType(type, frame_type, codec, p)[1] # "Invalid"
    PROVE  Cut(ByVideoPacketType(type, frame_type, codec, p),
               ByVideoPacketType(type, frame_type, codec, q))
<1>1. /\ IsPrefix(p, q) /\ IsPrefix(Skip(p, 3), Skip(q, 3))
      /\ Len(p) \in Nat /\ Len(q) \in Nat /\ Len(p) <= Len(q)
  BY BeginsIsPrefix, SkipBegins DEF Begins
<1>2. Len(p) >= 3 => Len(q) >= 3 /\ Si24(p) = Si24(q)
  BY <1>1, NumbersSame
<1> DEFINE a == ByVideoPacketType(type, frame_type, codec, p)
           b == ByVideoPacketType(type, frame_type, codec, q)
<1>3. \/ a = <<"SequenceHeader", codec, frame_type, p>> /\ b = <<"SequenceHeader", codec, frame_type, q>>
      \/ a = <<"SequenceEnd", codec>> /\ b = a
      \/ a = <<"Frame", codec, frame_type, 0, p>> /\ b = <<"Frame", codec, frame_type, 0, q>>
      \/ /\ a = <<"Frame", codec, frame_type, Si24(p), Skip(p, 3)>>
         /\ b = <<"Frame", codec, frame_type, Si24(p), Skip(q, 3)>>
  BY <1>2 DEF ByVideoPacketType, VideoPacketType, Invalid
<1> HIDE DEF a, b
<1>4. Shortened(a, b)
  BY <1>1, <1>3, ShortenedTuples
<1>5. a[1] = b[1] /\ a[1] \in {"SequenceHeader", "SequenceEnd", "Frame"}
  BY <1>3
<1> QED BY <1>4, <1>5 DEF Cut, a, b

(* The same of audio.                                                      *)
LEMMA AudioTypeCut ==
    ASSUME NEW p, NEW q, Begins(p, q), NEW type, NEW codec
    PROVE  Cut(ByAudioPacketType(type, codec, p), ByAudioPacketType(type, codec, q))
<1>1. IsPrefix(p, q)
  BY BeginsIsPrefix
<1> DEFINE a == ByAudioPacketType(type, codec, p)
           b == ByAudioPacketType(type, codec, q)
<1>3. \/ a = <<"SequenceHeader", codec, p>> /\ b = <<"SequenceHeader", codec, q>>
      \/ a = <<"SequenceEnd", codec>> /\ b = a
      \/ a = <<"Frame", codec, p>> /\ b = <<"Frame", codec, q>>
  BY DEF ByAudioPacketType, AudioPacketType
<1> HIDE DEF a, b
<1>4. Shortened(a, b)
  BY <1>1, <1>3, ShortenedTuples
<1>5. a[1] = b[1] /\ a[1] \in {"SequenceHeader", "SequenceEnd", "Frame"}
  BY <1>3
<1> QED BY <1>4, <1>5 DEF Cut, a, b

(* A configuration of channels keeps its order and their number.           *)
LEMMA ChannelsCut ==
    ASSUME NEW p, NEW q, Begins(p, q), Len(p) >= 2, NEW codec,
           MultichannelConfig(codec, p)[1] # "Invalid"
    PROVE  Cut(MultichannelConfig(codec, p), MultichannelConfig(codec, q))
<1>1. p[1] = q[1] /\ p[2] = q[2]
  BY DEF Begins
<1> DEFINE mapping(r) == IF r[1] = CustomOrder /\ Len(r) > 2 THEN {Skip(r, 2)} ELSE {}
           a == <<"MultichannelConfig", codec, p[1], p[2], mapping(p)>>
           b == <<"MultichannelConfig", codec, p[1], p[2], mapping(q)>>
<1>2. MultichannelConfig(codec, p) = a /\ MultichannelConfig(codec, q) = b
  BY <1>1 DEF MultichannelConfig, Invalid
<1> HIDE DEF mapping
<1>3. \A x, y, z, w, m, n : SubSeq(<< x, y, z, w, m >>, 1, 4) = SubSeq(<< x, y, z, w, n >>, 1, 4)
  OBVIOUS
<1>4. a[1] = "MultichannelConfig" /\ b[1] = "MultichannelConfig" /\ SubSeq(a, 1, 4) = SubSeq(b, 1, 4)
  BY <1>3
<1> HIDE DEF a, b
<1> QED BY <1>2, <1>4 DEF Cut

----------------------------------------------------------------------------
(* The parsers of enhanced RTMP, without the operators they are given.     *)

Named(data, code) == CHOOSE c \in FromBytes(data, code) : TRUE

VideoCoded(type, frame_type, data) ==
    IF Len(data) < 4 THEN Invalid("Packet")
    ELSE IF FromBytes(data, VideoCode) = {} THEN Invalid("Codec")
    ELSE ByVideoPacketType(type, frame_type, Named(data, VideoCode), Skip(data, 4))

AudioCoded(type, data) ==
    IF Len(data) < 4 THEN Invalid("Packet")
    ELSE IF FromBytes(data, AudioCode) = {} THEN Invalid("Codec")
    ELSE ByAudioPacketType(type, Named(data, AudioCode), Skip(data, 4))

AudioChannels(data) ==
    IF Len(data) < 6 THEN Invalid("Packet")
    ELSE IF Len(data) < 4 THEN Invalid("Packet")
    ELSE IF FromBytes(data, AudioCode) = {} THEN Invalid("Codec")
    ELSE MultichannelConfig(Named(data, AudioCode), Skip(data, 4))

AfterModEx(data) == Skip(data, IF data[1] = 0 THEN 4 ELSE 1)

(* frame is what the extended frame is.                                    *)
Extended(data, code, frame) ==
    IF data = << >> THEN Invalid("Packet")
    ELSE IF data[1] = 0 /\ Len(data) < 4 THEN Invalid("Packet")
    ELSE IF Len(AfterModEx(data)) < 4 THEN Invalid("Packet")
    ELSE IF FromBytes(AfterModEx(data), code) = {} THEN Invalid("Packet")
    ELSE frame

VideoExtended(frame_type, data) ==
    Extended(data, VideoCode,
             <<"Frame", Named(AfterModEx(data), VideoCode), frame_type, 0, Skip(AfterModEx(data), 4)>>)

AudioExtended(data) ==
    Extended(data, AudioCode,
             <<"Frame", Named(AfterModEx(data), AudioCode), Skip(AfterModEx(data), 4)>>)

(* track is what the data of a single track are.                           *)
Alone(data, code, track, high) ==
    IF data = << >> THEN Invalid("Packet")
    ELSE IF Len(Tail(data)) < 4 THEN Invalid("Packet")
    ELSE IF FromBytes(Tail(data), code) = {} THEN Invalid("Codec")
    ELSE IF track[1] = "Invalid" THEN track
    ELSE <<"Multitrack", high, << Track(data[1], Named(Tail(data), code), track) >> >>

Contained(data, code, types, head, track) ==
    IF data = << >> \/ High(data[1]) > 2 \/ Low(data[1]) \notin types THEN Invalid("Packet")
    ELSE CASE High(data[1]) = OneTrack ->
                Alone(Tail(data), code, track, High(data[1]))
           [] High(data[1]) = ManyTracks ->
                IF Len(Tail(data)) < 4 THEN Invalid("Packet")
                ELSE IF FromBytes(Tail(data), code) = {} THEN Invalid("Codec")
                ELSE <<"Multitrack", High(data[1]),
                       SameCodec(Skip(Tail(data), 4), Named(Tail(data), code), head)>>
           [] OTHER -> IF EachCodec(Tail(data), code, head) = {} THEN Invalid("Codec")
                       ELSE <<"Multitrack", High(data[1]),
                              CHOOSE tracks \in EachCodec(Tail(data), code, head) : TRUE>>

SingleBody(data) == Skip(Tail(Tail(data)), 4)

VideoContained(data) ==
    Contained(data, VideoCode, TypesOf(VideoPacketType), <<"Frame", VideoFrameType.InterFrame, 0>>,
              VideoTrackData(Low(data[1]), SingleBody(data)))

AudioContained(data) ==
    Contained(data, AudioCode, TypesOf(AudioPacketType), <<"Frame">>,
              AudioTrackData(Low(data[1]), SingleBody(data)))

(* Taken apart by the type of packet.                                      *)
LEMMA EnhancedVideoIs ==
    ASSUME NEW data, EnhancedVideoData(data)[1] # "Invalid"
    PROVE  LET frame_type == High(data[1]) - 8
               type == Low(data[1])
               rest == Tail(data)
           IN  /\ data # << >>
               /\ EnhancedVideoData(data) =
                    CASE type = 7 -> VideoExtended(frame_type, rest)
                      [] type = 6 -> VideoContained(rest)
                      [] type = 4 -> <<"Metadata", rest>>
                      [] OTHER -> VideoCoded(type, frame_type, rest)
<1> DEFINE frame_type == High(data[1]) - 8
           type == Low(data[1])
           rest == Tail(data)
<1>1. VideoCoded(type, frame_type, rest) =
         WithCodec(rest, VideoCode, "Codec",
                   LAMBDA codec, body : ByVideoPacketType(type, frame_type, codec, body))
  BY DEF VideoCoded, WithCodec, Named
<1>2. VideoExtended(frame_type, rest) =
         WithModEx(rest, VideoCode, LAMBDA codec, body : <<"Frame", codec, frame_type, 0, body>>)
  BY DEF VideoExtended, Extended, AfterModEx, WithModEx, WithCodec, Named
<1>3. VideoContained(rest) =
         Multitrack(rest, VideoCode, TypesOf(VideoPacketType),
                    <<"Frame", VideoFrameType.InterFrame, 0>>, VideoTrackData)
  BY DEF VideoContained, Contained, Alone, SingleBody, Multitrack, WithCodec, Named
<1> QED BY <1>1, <1>2, <1>3 DEF EnhancedVideoData, VideoPacketType, Invalid

(* The same of audio.                                                      *)
LEMMA EnhancedAudioIs ==
    ASSUME NEW data, EnhancedAudioData(data)[1] # "Invalid"
    PROVE  LET type == Low(data[1])
               rest == Tail(data)
           IN  /\ data # << >>
               /\ EnhancedAudioData(data) =
                    CASE type = 7 -> AudioExtended(rest)
                      [] type = 5 -> AudioContained(rest)
                      [] type = 4 -> AudioChannels(rest)
                      [] OTHER -> AudioCoded(type, rest)
<1> DEFINE type == Low(data[1])
           rest == Tail(data)
<1>1. AudioCoded(type, rest) =
         WithCodec(rest, AudioCode, "Codec",
                   LAMBDA codec, body : ByAudioPacketType(type, codec, body))
  BY DEF AudioCoded, WithCodec, Named
<1>2. AudioExtended(rest) =
         WithModEx(rest, AudioCode, LAMBDA codec, body : <<"Frame", codec, body>>)
  BY DEF AudioExtended, Extended, AfterModEx, WithModEx, WithCodec, Named
<1>3. AudioContained(rest) =
         Multitrack(rest, AudioCode, TypesOf(AudioPacketType), <<"Frame">>, AudioTrackData)
  BY DEF AudioContained, Contained, Alone, SingleBody, Multitrack, WithCodec, Named
<1>4. AudioChannels(rest) =
         IF Len(rest) < 6 THEN Invalid("Packet")
         ELSE WithCodec(rest, AudioCode, "Codec", MultichannelConfig)
  BY DEF AudioChannels, WithCodec, Named
<1> QED BY <1>1, <1>2, <1>3, <1>4 DEF EnhancedAudioData, AudioPacketType, Invalid

(* What names a codec names the same one when cut behind it.               *)
LEMMA NamedCut ==
    ASSUME NEW p, NEW q, Begins(p, q), NEW code, Len(p) >= 4
    PROVE  /\ Len(q) >= 4 /\ FromBytes(p, code) = FromBytes(q, code)
           /\ Named(p, code) = Named(q, code)
           /\ Begins(Skip(p, 4), Skip(q, 4)) /\ Len(Skip(p, 4)) = Len(p) - 4
<1>1. FromBytes(p, code) = FromBytes(q, code)
  BY CodecSame
<1>2. Len(p) \in Nat /\ Len(q) \in Nat /\ Len(p) <= Len(q) /\ p \in Seq(Byte)
  BY DEF Begins
<1>3. Len(Skip(p, 4)) = Len(p) - 4
  BY <1>2, SkipIs
<1> QED BY <1>1, <1>2, <1>3, SkipBegins DEF Named

(* Frames and headers of a codec.                                          *)
LEMMA VideoCodedCut ==
    ASSUME NEW p, NEW q, Begins(p, q), NEW type, NEW frame_type,
           VideoCoded(type, frame_type, p)[1] # "Invalid"
    PROVE  Cut(VideoCoded(type, frame_type, p), VideoCoded(type, frame_type, q))
<1>1. ~(Len(p) < 4) /\ FromBytes(p, VideoCode) # {} /\ Len(p) \in Nat /\ Len(q) \in Nat
  BY DEF VideoCoded, Invalid, Begins
<1>2. /\ ~(Len(q) < 4) /\ FromBytes(q, VideoCode) # {}
      /\ Named(p, VideoCode) = Named(q, VideoCode) /\ Begins(Skip(p, 4), Skip(q, 4))
  BY <1>1, NamedCut
<1>3. /\ VideoCoded(type, frame_type, p)
            = ByVideoPacketType(type, frame_type, Named(p, VideoCode), Skip(p, 4))
      /\ VideoCoded(type, frame_type, q)
            = ByVideoPacketType(type, frame_type, Named(p, VideoCode), Skip(q, 4))
  BY <1>1, <1>2 DEF VideoCoded
<1> QED BY <1>2, <1>3, VideoTypeCut

(* The same of audio.                                                      *)
LEMMA AudioCodedCut ==
    ASSUME NEW p, NEW q, Begins(p, q), NEW type, AudioCoded(type, p)[1] # "Invalid"
    PROVE  Cut(AudioCoded(type, p), AudioCoded(type, q))
<1>1. ~(Len(p) < 4) /\ FromBytes(p, AudioCode) # {} /\ Len(p) \in Nat /\ Len(q) \in Nat
  BY DEF AudioCoded, Invalid, Begins
<1>2. /\ ~(Len(q) < 4) /\ FromBytes(q, AudioCode) # {}
      /\ Named(p, AudioCode) = Named(q, AudioCode) /\ Begins(Skip(p, 4), Skip(q, 4))
  BY <1>1, NamedCut
<1>3. /\ AudioCoded(type, p) = ByAudioPacketType(type, Named(p, AudioCode), Skip(p, 4))
      /\ AudioCoded(type, q) = ByAudioPacketType(type, Named(p, AudioCode), Skip(q, 4))
  BY <1>1, <1>2 DEF AudioCoded
<1> QED BY <1>2, <1>3, AudioTypeCut

(* Configurations of channels behind their codec.                          *)
LEMMA AudioChannelsCut ==
    ASSUME NEW p, NEW q, Begins(p, q), AudioChannels(p)[1] # "Invalid"
    PROVE  Cut(AudioChannels(p), AudioChannels(q))
<1>1. /\ ~(Len(p) < 6) /\ ~(Len(p) < 4) /\ FromBytes(p, AudioCode) # {}
      /\ Len(p) \in Nat /\ Len(q) \in Nat /\ Len(p) <= Len(q)
  BY DEF AudioChannels, Invalid, Begins
<1>2. /\ ~(Len(q) < 4) /\ FromBytes(q, AudioCode) # {}
      /\ Named(p, AudioCode) = Named(q, AudioCode) /\ Begins(Skip(p, 4), Skip(q, 4))
      /\ Len(Skip(p, 4)) >= 2 /\ ~(Len(q) < 6)
  BY <1>1, NamedCut
<1>3. /\ AudioChannels(p) = MultichannelConfig(Named(p, AudioCode), Skip(p, 4))
      /\ AudioChannels(q) = MultichannelConfig(Named(p, AudioCode), Skip(q, 4))
  BY <1>1, <1>2 DEF AudioChannels
<1> QED BY <1>2, <1>3, ChannelsCut

(* Frames behind an extension.                                             *)
LEMMA AfterModExCut ==
    ASSUME NEW p, NEW q, Begins(p, q), NEW code, NEW frame, NEW other,
           Extended(p, code, frame)[1] # "Invalid"
    PROVE  /\ Extended(p, code, frame) = frame /\ Extended(q, code, other) = other
           /\ Named(AfterModEx(p), code) = Named(AfterModEx(q), code)
           /\ IsPrefix(Skip(AfterModEx(p), 4), Skip(AfterModEx(q), 4))
<1>1. /\ p # << >> /\ ~(p[1] = 0 /\ Len(p) < 4) /\ ~(Len(AfterModEx(p)) < 4)
      /\ FromBytes(AfterModEx(p), code) # {}
      /\ Extended(p, code, frame) = frame
  BY DEF Extended, Invalid
<1>2. q # << >> /\ p[1] = q[1]
  BY <1>1, TailBegins
<1>3. Begins(AfterModEx(p), AfterModEx(q))
  BY <1>2, SkipBegins DEF AfterModEx
<1>4. Len(p) \in Nat /\ Len(q) \in Nat /\ Len(p) <= Len(q)
  BY DEF Begins
<1>5. Len(AfterModEx(p)) \in Nat /\ Len(AfterModEx(q)) \in Nat
  BY <1>3 DEF Begins
<1>6. /\ Len(AfterModEx(q)) >= 4 /\ FromBytes(AfterModEx(p), code) = FromBytes(AfterModEx(q), code)
      /\ Named(AfterModEx(p), code) = Named(AfterModEx(q), code)
      /\ Begins(Skip(AfterModEx(p), 4), Skip(AfterModEx(q), 4))
  BY <1>1, <1>3, <1>5, NamedCut
<1>7. Extended(q, code, other) = other
  BY <1>1, <1>2, <1>4, <1>5, <1>6 DEF Extended
<1> QED BY <1>1, <1>6, <1>7, BeginsIsPrefix

(* An extended frame loses the end of its data.                            *)
LEMMA VideoExtendedCut ==
    ASSUME NEW p, NEW q, Begins(p, q), NEW frame_type, VideoExtended(frame_type, p)[1] # "Invalid"
    PROVE  Cut(VideoExtended(frame_type, p), VideoExtended(frame_type, q))
<1> DEFINE codec(r) == Named(AfterModEx(r), VideoCode)
           body(r) == Skip(AfterModEx(r), 4)
           frame(r) == <<"Frame", codec(r), frame_type, 0, body(r)>>
<1>1. /\ VideoExtended(frame_type, p) = frame(p) /\ VideoExtended(frame_type, q) = frame(q)
      /\ codec(p) = codec(q) /\ IsPrefix(body(p), body(q))
  BY AfterModExCut DEF VideoExtended
<1> HIDE DEF codec, body
<1>2. Shortened(frame(p), frame(q))
  BY <1>1, ShortenedTuples
<1>3. frame(p)[1] = "Frame" /\ frame(q)[1] = "Frame"
  OBVIOUS
<1> HIDE DEF frame
<1> QED BY <1>1, <1>2, <1>3 DEF Cut

(* The same of audio.                                                      *)
LEMMA AudioExtendedCut ==
    ASSUME NEW p, NEW q, Begins(p, q), AudioExtended(p)[1] # "Invalid"
    PROVE  Cut(AudioExtended(p), AudioExtended(q))
<1> DEFINE codec(r) == Named(AfterModEx(r), AudioCode)
           body(r) == Skip(AfterModEx(r), 4)
           frame(r) == <<"Frame", codec(r), body(r)>>
<1>1. /\ AudioExtended(p) = frame(p) /\ AudioExtended(q) = frame(q)
      /\ codec(p) = codec(q) /\ IsPrefix(body(p), body(q))
  BY AfterModExCut DEF AudioExtended
<1> HIDE DEF codec, body
<1>2. Shortened(frame(p), frame(q))
  BY <1>1, ShortenedTuples
<1>3. frame(p)[1] = "Frame" /\ frame(q)[1] = "Frame"
  OBVIOUS
<1> HIDE DEF frame
<1> QED BY <1>1, <1>2, <1>3 DEF Cut

(* Containers: the track of a single one is cut as its data are, of more   *)
(* than one the last are lost.                                             *)
LEMMA ContainedCut ==
    ASSUME NEW p, NEW q, Begins(p, q), NEW code, NEW types, NEW head, NEW track, NEW other,
           Contained(p, code, types, head, track)[1] # "Invalid",
           Contained(q, code, types, head, other)[1] # "Invalid",
           Begins(SingleBody(p), SingleBody(q)) /\ track[1] # "Invalid" => Shortened(track, other)
    PROVE  Cut(Contained(p, code, types, head, track), Contained(q, code, types, head, other))
<1> DEFINE a == Contained(p, code, types, head, track)
           b == Contained(q, code, types, head, other)
           more == Tail(p)
           rest == Tail(q)
           high == High(p[1])
<1>1. /\ p # << >> /\ ~(High(p[1]) > 2 \/ Low(p[1]) \notin types)
  BY DEF Contained, Invalid
<1>2. q # << >> /\ p[1] = q[1] /\ Begins(more, rest) /\ Len(more) \in Nat /\ Len(rest) \in Nat
  BY <1>1, TailBegins DEF Begins
<1> HIDE DEF more, rest
<1>3. CASE high = OneTrack
  <2> DEFINE named == Tail(more)
             whole == Tail(rest)
  <2>0. a = Alone(more, code, track, high) /\ b = Alone(rest, code, other, high)
    <3>1. a = Alone(more, code, track, high)
      BY <1>1, <1>3 DEF Contained, OneTrack, ManyTracks, more
    <3>2. b = Alone(rest, code, other, high)
      BY <1>1, <1>2, <1>3 DEF Contained, OneTrack, ManyTracks, rest
    <3> QED BY <3>1, <3>2
  <2>1. /\ more # << >> /\ ~(Len(named) < 4) /\ FromBytes(named, code) # {}
        /\ track[1] # "Invalid"
        /\ a = <<"Multitrack", high, << Track(more[1], Named(named, code), track) >> >>
    <3> HIDE DEF a, b
    <3>1. a[1] # "Invalid"
      BY DEF a
    <3> QED BY <2>0, <3>1 DEF Invalid, Alone
  <2>2. /\ rest # << >> /\ other[1] # "Invalid"
        /\ b = <<"Multitrack", high, << Track(rest[1], Named(whole, code), other) >> >>
    <3> HIDE DEF a, b
    <3>1. b[1] # "Invalid"
      BY DEF b
    <3> QED BY <2>0, <3>1 DEF Invalid, Alone
  <2>3. more[1] = rest[1] /\ Begins(named, whole) /\ Len(named) \in Nat
    <3>1. more[1] = rest[1] /\ Begins(named, whole)
      BY <1>2, <2>1, TailBegins
    <3> HIDE DEF named, whole
    <3> QED BY <3>1 DEF Begins
  <2>4. Named(named, code) = Named(whole, code) /\ Begins(Skip(named, 4), Skip(whole, 4))
    <3> HIDE DEF named, whole
    <3>1. Len(named) >= 4
      BY <2>1, <2>3
    <3> QED BY <2>3, <3>1, NamedCut
  <2>5. Shortened(track, other)
    BY <2>1, <2>4 DEF SingleBody, more, rest
  <2> DEFINE codec == Named(named, code)
             id == more[1]
             s == [id |-> id, codec |-> codec, data |-> track]
             t == [id |-> id, codec |-> codec, data |-> other]
  <2>6. a = <<"Multitrack", OneTrack, << s >> >> /\ b = <<"Multitrack", OneTrack, << t >> >>
    BY <1>3, <2>1, <2>2, <2>3, <2>4 DEF Track
  <2> HIDE DEF codec, id, a, b
  <2>7. /\ a[1] = "Multitrack" /\ b[1] = "Multitrack" /\ a[2] = OneTrack
        /\ a[3][1] = s /\ b[3][1] = t
    BY <2>6
  <2>8. [s EXCEPT !.data = << >>] = [t EXCEPT !.data = << >>] /\ s.data = track /\ t.data = other
    OBVIOUS
  <2> HIDE DEF s, t
  <2> QED BY <2>5, <2>7, <2>8 DEF Cut, a, b
<1>4. CASE high = ManyTracks
  <2> DEFINE s == SameCodec(Skip(more, 4), Named(more, code), head)
             t == SameCodec(Skip(rest, 4), Named(rest, code), head)
  <2>1. ~(Len(more) < 4) /\ a = <<"Multitrack", ManyTracks, s>>
    BY <1>1, <1>4 DEF Contained, Invalid, OneTrack, ManyTracks, more
  <2>2. b = <<"Multitrack", ManyTracks, t>>
    BY <1>1, <1>2, <1>4 DEF Contained, Invalid, OneTrack, ManyTracks, rest
  <2>3. Named(more, code) = Named(rest, code) /\ Begins(Skip(more, 4), Skip(rest, 4))
    <3>1. Len(more) >= 4
      BY <1>2, <2>1
    <3> QED BY <1>2, <3>1, NamedCut
  <2>4. IsPrefix(s, t)
    BY <2>3, SameCodecCut
  <2> HIDE DEF s, t, a, b
  <2>5. Shortened(a, b)
    BY <2>1, <2>2, <2>4, ShortenedTuples
  <2> QED BY <2>1, <2>2, <2>5 DEF Cut, OneTrack, ManyTracks, a, b
<1>5. CASE high # OneTrack /\ high # ManyTracks
  <2> DEFINE s == EachCodec(more, code, head)
             t == EachCodec(rest, code, head)
             first(each) == CHOOSE tracks \in each : TRUE
  <2>1. s # {} /\ a = <<"Multitrack", high, first(s)>>
    BY <1>1, <1>5 DEF Contained, Invalid, more
  <2>2. t # {} /\ b = <<"Multitrack", high, first(t)>>
    BY <1>1, <1>2, <1>5 DEF Contained, Invalid, rest
  <2>3. LosesTracks(s, t)
    BY <1>2, EachCodecCut
  <2> HIDE DEF s, t, a, b
  <2>4. PICK u, v : s = {u} /\ t = {v} /\ IsPrefix(u, v)
    BY <2>1, <2>2, <2>3 DEF LosesTracks
  <2>5. first(s) = u /\ first(t) = v
    BY <2>4
  <2> HIDE DEF first, high
  <2>6. Shortened(a, b)
    BY <2>1, <2>2, <2>4, <2>5, ShortenedTuples
  <2> QED BY <1>5, <2>1, <2>2, <2>6 DEF Cut, a, b
<1> QED BY <1>3, <1>4, <1>5

----------------------------------------------------------------------------
(* The parsers.                                                            *)

(* The picture parameter sets behind the sequence parameter sets.          *)
PictureSets(sps) ==
    UNION {IF s.rest = << >> THEN {} ELSE ParameterSets(s.rest[1], Tail(s.rest)) : s \in sps}

(* A cut keeps or loses them as well.                                      *)
LEMMA PictureSetsCut ==
    ASSUME NEW a, NEW b, SameSets(a, b)
    PROVE  SameSets(PictureSets(a), PictureSets(b))
<1>1. CASE a = {}
  BY <1>1 DEF PictureSets, SameSets
<1>2. ASSUME NEW s \in Reading, NEW t \in Reading, a = {s}, b = {t}, Begins(s.rest, t.rest)
      PROVE  SameSets(PictureSets(a), PictureSets(b))
  <2> DEFINE sets(r) == IF r = << >> THEN {} ELSE ParameterSets(r[1], Tail(r))
  <2>1. PictureSets(a) = sets(s.rest) /\ PictureSets(b) = sets(t.rest)
    <3>1. \A c, x : c = {x} => PictureSets(c) = sets(x.rest)
      BY DEF PictureSets
    <3> HIDE DEF sets
    <3> QED BY <1>2, <3>1
  <2>2. CASE s.rest = << >>
    BY <2>1, <2>2 DEF SameSets
  <2>3. CASE s.rest # << >>
    <3>1. /\ t.rest # << >> /\ Begins(Tail(s.rest), Tail(t.rest))
          /\ s.rest[1] = t.rest[1] /\ s.rest[1] \in Nat
      <4>1. /\ t.rest # << >> /\ Begins(Tail(s.rest), Tail(t.rest))
            /\ s.rest[1] = t.rest[1] /\ s.rest[1] \in Byte
        BY <1>2, <2>3, TailBegins
      <4>2. Byte \subseteq Nat
        BY DEF Byte
      <4> QED BY <4>1, <4>2
    <3>2. SameSets(ParameterSets(s.rest[1], Tail(s.rest)), ParameterSets(s.rest[1], Tail(t.rest)))
      BY <3>1, ParameterSetsCut
    <3> QED BY <2>1, <2>3, <3>1, <3>2
  <2> QED BY <2>2, <2>3
<1> QED BY <1>1, <1>2 DEF SameSets

(* A header that is cut is refused, or means the same.                     *)
LEMMA AvcConfigCut ==
    ASSUME NEW p, NEW q, Begins(p, q), AvcConfig(p)[1] # "Invalid"
    PROVE  AvcConfig(p) = AvcConfig(q)
<1> DEFINE sps == ParameterSets(p[6] % 32, Skip(p, 6))
           spsq == ParameterSets(q[6] % 32, Skip(q, 6))
           record(r, s, t) == [profile |-> r[2], compatibility |-> r[3], level |-> r[4],
                               nalu_length_size |-> (r[5] % 4) + 1,
                               sps |-> (CHOOSE u \in s : TRUE).sets,
                               pps |-> (CHOOSE u \in t : TRUE).sets]
<1>1. /\ AvcConfig(p) = IF Len(p) < 7 \/ p[1] # 1 THEN Invalid("AvcPacket")
                        ELSE IF PictureSets(sps) = {} THEN Invalid("AvcPacket")
                        ELSE <<"SequenceHeader", record(p, sps, PictureSets(sps))>>
      /\ AvcConfig(q) = IF Len(q) < 7 \/ q[1] # 1 THEN Invalid("AvcPacket")
                        ELSE IF PictureSets(spsq) = {} THEN Invalid("AvcPacket")
                        ELSE <<"SequenceHeader", record(q, spsq, PictureSets(spsq))>>
  BY DEF AvcConfig, PictureSets
<1> HIDE DEF sps, spsq, record
<1>2. ~(Len(p) < 7 \/ p[1] # 1) /\ PictureSets(sps) # {}
  BY <1>1 DEF Invalid
<1>3. /\ Len(p) \in Nat /\ Len(q) \in Nat /\ Len(p) <= Len(q) /\ p \in Seq(Byte)
      /\ \A i \in 1 .. Len(p) : p[i] = q[i]
  BY DEF Begins
<1>4. /\ ~(Len(q) < 7)
      /\ p[1] = q[1] /\ p[2] = q[2] /\ p[3] = q[3] /\ p[4] = q[4] /\ p[5] = q[5] /\ p[6] = q[6]
      /\ p[6] \in Byte
  BY <1>2, <1>3
<1>5. p[6] % 32 \in Nat
  <2>1. \A b \in Byte : b % 32 \in Nat
    BY SMT DEF Byte
  <2> QED BY <1>4, <2>1
<1>6. SameSets(sps, spsq)
  BY <1>4, <1>5, SkipBegins, ParameterSetsCut DEF sps, spsq
<1>7. SameSets(PictureSets(sps), PictureSets(spsq))
  BY <1>6, PictureSetsCut
<1>8. sps # {}
  BY <1>2 DEF PictureSets
<1>9. ASSUME NEW a, NEW b, SameSets(a, b), a # {}
      PROVE  b # {} /\ (CHOOSE u \in a : TRUE).sets = (CHOOSE u \in b : TRUE).sets
  <2>1. PICK s, t : a = {s} /\ b = {t} /\ s.sets = t.sets
    BY <1>9 DEF SameSets
  <2>2. (CHOOSE u \in a : TRUE) = s /\ (CHOOSE u \in b : TRUE) = t
    BY <2>1
  <2> QED BY <2>1, <2>2
<1>10. record(p, sps, PictureSets(sps)) = record(q, spsq, PictureSets(spsq))
  <2>1. /\ (CHOOSE u \in sps : TRUE).sets = (CHOOSE u \in spsq : TRUE).sets
        /\ (CHOOSE u \in PictureSets(sps) : TRUE).sets = (CHOOSE u \in PictureSets(spsq) : TRUE).sets
    BY <1>2, <1>6, <1>7, <1>8, <1>9
  <2> QED BY <1>4, <2>1 DEF record
<1>11. PictureSets(spsq) # {}
  BY <1>2, <1>7, <1>9
<1> QED BY <1>1, <1>2, <1>4, <1>10, <1>11

(* Payloads of AVC, whatever size the server goes by.                      *)
LEMMA AvcIsCut ==
    ASSUME NEW p, NEW q, Begins(p, q), NEW size, NEW other, H264Data(p, size)[1] # "Invalid"
    PROVE  AvcCut(H264Data(p, size), H264Data(q, other))
<1> DEFINE a == H264Data(p, size)
           b == H264Data(q, other)
           more == Skip(p, 4)
           rest == Skip(q, 4)
<1>1. ~(Len(p) < 4)
  BY DEF H264Data, Invalid
<1>2. /\ Len(p) \in Nat /\ Len(q) \in Nat /\ Len(p) <= Len(q) /\ p # << >>
  BY <1>1 DEF Begins
<1>3. ~(Len(q) < 4) /\ p[1] = q[1] /\ Begins(Tail(p), Tail(q)) /\ Len(Tail(p)) = Len(p) - 1
  BY <1>1, <1>2, TailBegins
<1>4. Si24(Tail(p)) = Si24(Tail(q))
  <2>1. Len(Tail(p)) >= 3
    BY <1>1, <1>2, <1>3
  <2> QED BY <1>3, <2>1, NumbersSame
<1>5. Begins(more, rest) /\ IsPrefix(more, rest)
  BY SkipBegins, BeginsIsPrefix
<1> HIDE DEF more, rest
<1>6. CASE p[1] = 0
  <2>1. a = AvcConfig(more) /\ b = AvcConfig(rest)
    BY <1>1, <1>3, <1>6 DEF H264Data, more, rest
  <2>2. a = b
    BY <1>5, <2>1, AvcConfigCut
  <2>3. a[1] # "Frame"
    BY <2>1 DEF AvcConfig, Invalid
  <2> HIDE DEF a, b
  <2> QED BY <2>2, <2>3 DEF AvcCut, Shortened, a, b
<1>7. CASE p[1] = 1
  <2>1. PICK x, y : /\ a = <<"Frame", x, Si24(Tail(p)), more>>
                    /\ b = <<"Frame", y, Si24(Tail(p)), rest>>
    BY <1>1, <1>3, <1>4, <1>7 DEF H264Data, more, rest
  <2> HIDE DEF a, b
  <2> QED BY <1>5, <2>1 DEF AvcCut, a, b
<1>8. CASE p[1] = 2
  <2>1. a = <<"EndOfSequence">> /\ b = <<"EndOfSequence">>
    BY <1>1, <1>3, <1>8 DEF H264Data
  <2> HIDE DEF a, b
  <2> QED BY <2>1 DEF AvcCut, Shortened, a, b
<1>9. CASE p[1] \notin {0, 1, 2}
  BY <1>1, <1>9 DEF H264Data, Invalid
<1> QED BY <1>6, <1>7, <1>8, <1>9

(* Payloads of AAC.                                                        *)
LEMMA AudioSpecificConfigCut ==
    ASSUME NEW p, NEW q, Begins(p, q), AudioSpecificConfig(p)[1] # "Invalid"
    PROVE  AudioSpecificConfig(p) = AudioSpecificConfig(q)
<1> DEFINE index(r) == (r[1] % 8) * 2 + r[2] \div 128
           frequency(r) == IF index(r) = 15 THEN ExplicitFrequency(r) ELSE SamplingFrequencies[index(r) + 1]
           config(r) == [audio_object_type |-> r[1] \div 8, sampling_frequency_index |-> index(r),
                         sampling_frequency |-> frequency(r),
                         channel_configuration |-> (r[2] \div 8) % 16,
                         samples_per_frame |-> IF (r[2] \div 4) % 2 = 1 THEN 960 ELSE 1024]
           short(r) == Len(r) < 2 \/ (index(r) = 15 /\ Len(r) < 5)
<1>1. \A r : AudioSpecificConfig(r) = IF short(r) THEN Invalid("AacPacket")
                                      ELSE <<"SequenceHeader", config(r)>>
  BY DEF AudioSpecificConfig
<1>2. /\ Len(p) \in Nat /\ Len(q) \in Nat /\ Len(p) <= Len(q)
      /\ \A i \in 1 .. Len(p) : p[i] = q[i]
  BY DEF Begins
<1>3. ~short(p)
  <2> HIDE DEF short, config
  <2> QED BY <1>1 DEF Invalid
<1>4. p[1] = q[1] /\ p[2] = q[2]
  BY <1>2, <1>3
<1>5. index(p) = index(q)
  BY <1>4
<1>6. index(p) = 15 => ExplicitFrequency(p) = ExplicitFrequency(q)
  <2> SUFFICES ASSUME index(p) = 15 PROVE ExplicitFrequency(p) = ExplicitFrequency(q)
    OBVIOUS
  <2>1. p[3] = q[3] /\ p[4] = q[4] /\ p[5] = q[5]
    <3> HIDE DEF index
    <3> QED BY <1>2, <1>3
  <2> QED BY <1>4, <2>1 DEF ExplicitFrequency
<1>7. ~short(q)
  <2> HIDE DEF index
  <2> QED BY <1>2, <1>3, <1>5
<1>8. frequency(p) = frequency(q)
  <2> HIDE DEF index
  <2> QED BY <1>5, <1>6
<1>9. config(p) = config(q)
  <2> HIDE DEF index, frequency
  <2> QED BY <1>4, <1>5, <1>8
<1> HIDE DEF config, short
<1> QED BY <1>1, <1>3, <1>7, <1>9

(* The same of the whole payload.                                          *)
LEMMA AacIsCut ==
    ASSUME NEW p, NEW q, Begins(p, q), AacData(p)[1] # "Invalid"
    PROVE  AacData(p)[1] \in {"SequenceHeader", "Frame"} /\ Cut(AacData(p), AacData(q))
<1> DEFINE a == AacData(p)
           b == AacData(q)
<1>1. p # << >>
  BY DEF AacData, Invalid
<1>2. q # << >> /\ p[1] = q[1] /\ Begins(Tail(p), Tail(q)) /\ IsPrefix(Tail(p), Tail(q))
  BY <1>1, TailBegins, BeginsIsPrefix
<1>3. CASE p[1] = 0
  <2>1. a = AudioSpecificConfig(Tail(p)) /\ b = AudioSpecificConfig(Tail(q))
    BY <1>1, <1>2, <1>3 DEF AacData
  <2>2. a = b
    BY <1>2, <2>1, AudioSpecificConfigCut
  <2>3. a[1] = "SequenceHeader"
    BY <2>1 DEF AudioSpecificConfig, Invalid
  <2> HIDE DEF a, b
  <2> QED BY <2>2, <2>3 DEF Cut, Shortened, a, b
<1>4. CASE p[1] = 1
  <2>1. a = <<"Frame", Tail(p)>> /\ b = <<"Frame", Tail(q)>>
    <3>1. a = <<"Frame", Tail(p)>>
      BY <1>1, <1>4 DEF AacData
    <3>2. q[1] = 1
      BY <1>2, <1>4
    <3>3. b = <<"Frame", Tail(q)>>
      BY <1>2, <3>2 DEF AacData
    <3> QED BY <3>1, <3>3
  <2> HIDE DEF a, b
  <2>2. Shortened(a, b)
    BY <1>2, <2>1, ShortenedTuples
  <2> QED BY <2>1, <2>2 DEF Cut, a, b
<1>5. CASE p[1] \notin {0, 1}
  BY <1>1, <1>5 DEF AacData, Invalid
<1> QED BY <1>3, <1>4, <1>5

(* Containers of either kind.                                              *)
LEMMA VideoContainedCut ==
    ASSUME NEW p, NEW q, Begins(p, q),
           VideoContained(p)[1] # "Invalid", VideoContained(q)[1] # "Invalid"
    PROVE  Cut(VideoContained(p), VideoContained(q))
<1> DEFINE track(r) == VideoTrackData(Low(r[1]), SingleBody(r))
           whole(r) == Contained(r, VideoCode, TypesOf(VideoPacketType),
                               <<"Frame", VideoFrameType.InterFrame, 0>>, track(r))
<1>1. VideoContained(p) = whole(p) /\ VideoContained(q) = whole(q)
  BY DEF VideoContained
<1>2. p # << >>
  <2> HIDE DEF track
  <2> QED BY <1>1 DEF Contained, Invalid
<1>3. p[1] = q[1]
  BY <1>2, TailBegins
<1>4. Begins(SingleBody(p), SingleBody(q)) /\ track(p)[1] # "Invalid" => Shortened(track(p), track(q))
  BY <1>3, VideoTrackCut
<1> HIDE DEF track
<1> QED BY <1>1, <1>4, ContainedCut

(* The same of audio.                                                      *)
LEMMA AudioContainedCut ==
    ASSUME NEW p, NEW q, Begins(p, q),
           AudioContained(p)[1] # "Invalid", AudioContained(q)[1] # "Invalid"
    PROVE  Cut(AudioContained(p), AudioContained(q))
<1> DEFINE track(r) == AudioTrackData(Low(r[1]), SingleBody(r))
           whole(r) == Contained(r, AudioCode, TypesOf(AudioPacketType), <<"Frame">>, track(r))
<1>1. AudioContained(p) = whole(p) /\ AudioContained(q) = whole(q)
  BY DEF AudioContained
<1>2. p # << >>
  <2> HIDE DEF track
  <2> QED BY <1>1 DEF Contained, Invalid
<1>3. p[1] = q[1]
  BY <1>2, TailBegins
<1>4. Begins(SingleBody(p), SingleBody(q)) /\ track(p)[1] # "Invalid" => Shortened(track(p), track(q))
  BY <1>3, AudioTrackCut
<1> HIDE DEF track
<1> QED BY <1>1, <1>4, ContainedCut

(* Payloads of enhanced RTMP.                                              *)
LEMMA EnhancedVideoIsCut ==
    ASSUME NEW p, NEW q, Begins(p, q),
           EnhancedVideoData(p)[1] # "Invalid", EnhancedVideoData(q)[1] # "Invalid"
    PROVE  Cut(EnhancedVideoData(p), EnhancedVideoData(q))
<1> DEFINE a == EnhancedVideoData(p)
           b == EnhancedVideoData(q)
           frame_type == High(p[1]) - 8
           type == Low(p[1])
           more == Tail(p)
           rest == Tail(q)
           form(r) == CASE type = 7 -> VideoExtended(frame_type, r)
                        [] type = 6 -> VideoContained(r)
                        [] type = 4 -> <<"Metadata", r>>
                        [] OTHER -> VideoCoded(type, frame_type, r)
<1>1. p # << >> /\ a = form(more)
  BY EnhancedVideoIs
<1>2. p[1] = q[1] /\ Begins(more, rest) /\ IsPrefix(more, rest)
  BY <1>1, TailBegins, BeginsIsPrefix
<1>3. b = form(rest)
  BY <1>2, EnhancedVideoIs
<1>4. a[1] # "Invalid" /\ b[1] # "Invalid"
  OBVIOUS
<1> HIDE DEF a, b, frame_type, type, more, rest
<1>5. CASE type = 7
  <2>1. a = VideoExtended(frame_type, more) /\ b = VideoExtended(frame_type, rest)
    BY <1>1, <1>3, <1>5
  <2>2. Cut(a, b)
    BY <1>2, <1>4, <2>1, VideoExtendedCut
  <2> QED BY <2>2 DEF a, b
<1>6. CASE type = 6
  <2>1. a = VideoContained(more) /\ b = VideoContained(rest)
    BY <1>1, <1>3, <1>6
  <2>2. Cut(a, b)
    BY <1>2, <1>4, <2>1, VideoContainedCut
  <2> QED BY <2>2 DEF a, b
<1>7. CASE type = 4
  <2>1. a = <<"Metadata", more>> /\ b = <<"Metadata", rest>>
    BY <1>1, <1>3, <1>7
  <2>2. Shortened(a, b)
    BY <1>2, <2>1, ShortenedTuples
  <2> QED BY <2>1, <2>2 DEF Cut, a, b
<1>8. CASE type \notin {4, 6, 7}
  <2>1. a = VideoCoded(type, frame_type, more) /\ b = VideoCoded(type, frame_type, rest)
    BY <1>1, <1>3, <1>8
  <2>2. Cut(a, b)
    BY <1>2, <1>4, <2>1, VideoCodedCut
  <2> QED BY <2>2 DEF a, b
<1> QED BY <1>5, <1>6, <1>7, <1>8

(* The same of audio.                                                      *)
LEMMA EnhancedAudioIsCut ==
    ASSUME NEW p, NEW q, Begins(p, q),
           EnhancedAudioData(p)[1] # "Invalid", EnhancedAudioData(q)[1] # "Invalid"
    PROVE  Cut(EnhancedAudioData(p), EnhancedAudioData(q))
<1> DEFINE a == EnhancedAudioData(p)
           b == EnhancedAudioData(q)
           type == Low(p[1])
           more == Tail(p)
           rest == Tail(q)
           form(r) == CASE type = 7 -> AudioExtended(r)
                        [] type = 5 -> AudioContained(r)
                        [] type = 4 -> AudioChannels(r)
                        [] OTHER -> AudioCoded(type, r)
<1>1. p # << >> /\ a = form(more)
  BY EnhancedAudioIs
<1>2. p[1] = q[1] /\ Begins(more, rest)
  BY <1>1, TailBegins
<1>3. b = form(rest)
  BY <1>2, EnhancedAudioIs
<1>4. a[1] # "Invalid" /\ b[1] # "Invalid"
  OBVIOUS
<1> HIDE DEF a, b, type, more, rest
<1>5. CASE type = 7
  <2>1. a = AudioExtended(more) /\ b = AudioExtended(rest)
    BY <1>1, <1>3, <1>5
  <2>2. Cut(a, b)
    BY <1>2, <1>4, <2>1, AudioExtendedCut
  <2> QED BY <2>2 DEF a, b
<1>6. CASE type = 5
  <2>1. a = AudioContained(more) /\ b = AudioContained(rest)
    BY <1>1, <1>3, <1>6
  <2>2. Cut(a, b)
    BY <1>2, <1>4, <2>1, AudioContainedCut
  <2> QED BY <2>2 DEF a, b
<1>7. CASE type = 4
  <2>1. a = AudioChannels(more) /\ b = AudioChannels(rest)
    BY <1>1, <1>3, <1>7
  <2>2. Cut(a, b)
    BY <1>2, <1>4, <2>1, AudioChannelsCut
  <2> QED BY <2>2 DEF a, b
<1>8. CASE type \notin {4, 5, 7}
  <2>1. a = AudioCoded(type, more) /\ b = AudioCoded(type, rest)
    BY <1>1, <1>3, <1>8
  <2>2. Cut(a, b)
    BY <1>2, <1>4, <2>1, AudioCodedCut
  <2> QED BY <2>2 DEF a, b
<1> QED BY <1>5, <1>6, <1>7, <1>8

----------------------------------------------------------------------------
(* What the application is told of a cut, in the words of CutsLoseTheTail. *)
LosesTail(got, meant) ==
    /\ got[1] = meant[1] /\ got[2][1] = meant[2][1]
    /\ CASE got[1] = "on_video_frame" /\ got[2][1] = "Frame" ->
                got[2][3] = meant[2][3] /\ IsPrefix(got[2][4], meant[2][4])
         [] got[2][1] = "Multitrack" /\ got[2][2] = OneTrack ->
                /\ [got[2][3][1] EXCEPT !.data = << >>] = [meant[2][3][1] EXCEPT !.data = << >>]
                /\ Shortened(got[2][3][1].data, meant[2][3][1].data)
         [] got[2][1] = "MultichannelConfig" ->
                SubSeq(got[2], 1, 4) = SubSeq(meant[2], 1, 4)
         [] OTHER -> Shortened(got[2], meant[2])

(* Results that are cut make callbacks that lose their tail.               *)
LEMMA CutsAreLosses ==
    ASSUME NEW a, NEW b
    PROVE  /\ \A name \in {"on_enhanced_video_frame", "on_enhanced_audio_frame", "on_audio_frame"} :
                 Cut(a, b) => LosesTail(<< name, a >>, << name, b >>)
           /\ AvcCut(a, b) /\ a[1] \in {"Frame", "SequenceHeader", "EndOfSequence"}
                 => LosesTail(<<"on_video_frame", a>>, <<"on_video_frame", b>>)
<1>1. ASSUME NEW name \in {"on_enhanced_video_frame", "on_enhanced_audio_frame", "on_audio_frame"},
             NEW got, NEW meant, got[1] = name, meant[1] = name, got[2] = a, meant[2] = b, Cut(a, b)
      PROVE  LosesTail(got, meant)
  <2>1. CASE a[1] = "Multitrack" /\ a[2] = OneTrack
    BY <1>1, <2>1 DEF LosesTail, Cut
  <2>2. CASE a[1] = "MultichannelConfig"
    BY <1>1, <2>2 DEF LosesTail, Cut
  <2>3. CASE ~(a[1] = "Multitrack" /\ a[2] = OneTrack) /\ a[1] # "MultichannelConfig"
    BY <1>1, <2>3 DEF LosesTail, Cut
  <2> QED BY <2>1, <2>2, <2>3
<1>2. ASSUME NEW got, NEW meant, got[1] = "on_video_frame", meant[1] = got[1],
             got[2] = a, meant[2] = b, AvcCut(a, b), a[1] \in {"Frame", "SequenceHeader", "EndOfSequence"}
      PROVE  LosesTail(got, meant)
  <2>1. CASE a[1] = "Frame"
    BY <1>2, <2>1 DEF LosesTail, AvcCut
  <2>2. CASE a[1] # "Frame"
    BY <1>2, <2>2 DEF LosesTail, AvcCut
  <2> QED BY <2>1, <2>2
<1> QED BY <1>1, <1>2

(* What the server makes of a cut payload loses the tail of what it makes  *)
(* of the whole.                                                           *)
LEMMA VideoLoses ==
    ASSUME NEW p, NEW q, Begins(p, q), p # << >>, NEW size, NEW other,
           NEW got \in VideoCallback(p, size), NEW meant \in VideoCallback(q, other)
    PROVE  LosesTail(got, meant)
<1>1. \A data, nalu : \A c \in VideoCallback(data, nalu) :
         /\ c[2][1] # "Invalid"
         /\ \/ IsEnhancedVideo(data[1]) /\ c = <<"on_enhanced_video_frame", EnhancedVideoData(data)>>
            \/ /\ ~IsEnhancedVideo(data[1]) /\ Len(data) >= 2
               /\ c = <<"on_video_frame", H264Data(Tail(data), nalu)>>
  <2>1. <<"", Invalid("Codec")>>[2][1] = "Invalid"
    BY DEF Invalid
  <2> QED BY <2>1 DEF VideoCallback
<1>2. p[1] = q[1] /\ Begins(Tail(p), Tail(q))
  BY TailBegins
<1>3. CASE IsEnhancedVideo(p[1])
  <2> DEFINE a == EnhancedVideoData(p)
             b == EnhancedVideoData(q)
  <2>1. /\ got = <<"on_enhanced_video_frame", a>> /\ meant = <<"on_enhanced_video_frame", b>>
        /\ got[2][1] # "Invalid" /\ meant[2][1] # "Invalid"
    BY <1>1, <1>2, <1>3
  <2>2. a[1] # "Invalid" /\ b[1] # "Invalid"
    <3> HIDE DEF a, b
    <3> QED BY <2>1
  <2>3. Cut(a, b)
    BY <2>2, EnhancedVideoIsCut
  <2> HIDE DEF a, b
  <2> QED BY <2>1, <2>3, CutsAreLosses
<1>4. CASE ~IsEnhancedVideo(p[1])
  <2> DEFINE a == H264Data(Tail(p), size)
             b == H264Data(Tail(q), other)
  <2>1. /\ got = <<"on_video_frame", a>> /\ meant = <<"on_video_frame", b>>
        /\ got[2][1] # "Invalid"
    BY <1>1, <1>2, <1>4
  <2>2. a[1] # "Invalid"
    <3> HIDE DEF a, b
    <3> QED BY <2>1
  <2>3. AvcCut(a, b)
    BY <1>2, <2>2, AvcIsCut
  <2>4. a[1] \in {"Frame", "SequenceHeader", "EndOfSequence"}
    <3> DEFINE data == Tail(p)
               config == AvcConfig(Skip(data, 4))
    <3>1. config[1] \in {"SequenceHeader", "Invalid"}
      BY DEF AvcConfig, Invalid
    <3>2. /\ data[1] = 0 /\ a = config
          \/ a[1] \in {"Frame", "EndOfSequence", "Invalid"}
      <4> HIDE DEF data, config
      <4>1. a = IF Len(data) < 4 THEN Invalid("AvcPacket")
                ELSE CASE data[1] = 0 -> config
                       [] data[1] = 1 -> <<"Frame", ContainsIdr(Skip(data, 4), size),
                                           Si24(Tail(data)), Skip(data, 4)>>
                       [] data[1] = 2 -> <<"EndOfSequence">>
                       [] OTHER -> Invalid("AvcPacket")
        BY DEF H264Data, data, config
      <4> HIDE DEF a
      <4> QED BY <4>1 DEF Invalid
    <3> HIDE DEF data, config, a
    <3> QED BY <2>2, <3>1, <3>2
  <2> HIDE DEF a, b
  <2> QED BY <2>1, <2>3, <2>4, CutsAreLosses
<1> QED BY <1>3, <1>4

(* The same of audio.                                                      *)
LEMMA AudioLoses ==
    ASSUME NEW p, NEW q, Begins(p, q), p # << >>,
           NEW got \in AudioCallback(p), NEW meant \in AudioCallback(q)
    PROVE  LosesTail(got, meant)
<1>1. \A data : \A c \in AudioCallback(data) : c[2][1] # "Invalid"
  BY DEF AudioCallback
<1>2. p[1] = q[1] /\ Begins(Tail(p), Tail(q))
  BY TailBegins
<1>3. CASE IsEnhancedAudio(p[1])
  <2> DEFINE a == EnhancedAudioData(p)
             b == EnhancedAudioData(q)
  <2>1. /\ got = <<"on_enhanced_audio_frame", a>> /\ meant = <<"on_enhanced_audio_frame", b>>
        /\ got[2][1] # "Invalid" /\ meant[2][1] # "Invalid"
    BY <1>1, <1>2, <1>3, AudioCallbackIs
  <2>2. a[1] # "Invalid" /\ b[1] # "Invalid"
    <3> HIDE DEF a, b
    <3> QED BY <2>1
  <2>3. Cut(a, b)
    BY <2>2, EnhancedAudioIsCut
  <2> HIDE DEF a, b
  <2> QED BY <2>1, <2>3, CutsAreLosses
<1>4. CASE ~IsEnhancedAudio(p[1])
  <2> DEFINE a == AacData(Tail(p))
             b == AacData(Tail(q))
  <2>1. /\ got = <<"on_audio_frame", a>> /\ meant = <<"on_audio_frame", b>>
        /\ got[2][1] # "Invalid"
    BY <1>1, <1>2, <1>4, AudioCallbackIs
  <2>2. a[1] # "Invalid"
    <3> HIDE DEF a, b
    <3> QED BY <2>1
  <2>3. Cut(a, b)
    BY <1>2, <2>2, AacIsCut
  <2> HIDE DEF a, b
  <2> QED BY <2>1, <2>3, CutsAreLosses
<1> QED BY <1>3, <1>4

(* Whatever breaks off a payload of a layout that is read rightly, and     *)
(* wherever, the application is told nothing that the whole does not mean: *)
(* it is refused, or the end of its last component is missing              *)
(* (enhanced_video.rs:290, h264.rs:314).                                   *)
THEOREM CutsOnlyLose ==
    ASSUME PacketsAreRead
    PROVE  Spec => []CutsLoseTheTail
<1>1. ASSUME ToldInv
      PROVE  CutsLoseTheTail
  <2> SUFFICES ASSUME Received, ~MisreadLayout, NEW got \in last.told
               PROVE  \E meant \in last.packet.meant : LosesTail(got, meant)
    BY DEF CutsLoseTheTail, LosesTail
  <2>1. CASE last.event = "audio"
    <3>1. PICK packet \in AudioPackets : \E n \in 1 .. Len(packet.data) :
             /\ last.packet = packet /\ last.told = Told(AudioCallback(First(packet.data, n)))
      BY <1>1, <2>1 DEF ToldInv, LastIs
    <3>2. PICK n \in 1 .. Len(packet.data) :
             /\ last.packet = packet /\ last.told = Told(AudioCallback(First(packet.data, n)))
      BY <3>1
    <3> DEFINE cut == First(packet.data, n)
    <3>3. Begins(cut, packet.data) /\ cut # << >>
      BY CutBegins DEF Payload
    <3>4. got \in AudioCallback(cut)
      BY <3>2 DEF Told
    <3>5. PICK meant : meant \in AudioCallback(packet.data) /\ meant \in packet.meant
      BY <2>1, <3>2 DEF PacketsAreRead, MisreadLayout
    <3> HIDE DEF cut
    <3>6. LosesTail(got, meant)
      BY <3>3, <3>4, <3>5, AudioLoses
    <3> QED BY <3>2, <3>5, <3>6
  <2>2. CASE last.event = "video"
    <3>1. PICK packet \in VideoPackets : \E n \in 1 .. Len(packet.data), size \in LengthSize :
             /\ last.packet = packet
             /\ last.told = Told(VideoCallback(First(packet.data, n), size))
      BY <1>1, <2>2 DEF ToldInv, LastIs
    <3>2. PICK n \in 1 .. Len(packet.data) : \E size \in LengthSize :
             /\ last.packet = packet
             /\ last.told = Told(VideoCallback(First(packet.data, n), size))
      BY <3>1
    <3>3. PICK size : last.packet = packet /\ last.told = Told(VideoCallback(First(packet.data, n), size))
      BY <3>2
    <3> DEFINE cut == First(packet.data, n)
    <3>4. Begins(cut, packet.data) /\ cut # << >>
      BY CutBegins DEF Payload
    <3>5. got \in VideoCallback(cut, size)
      BY <3>3 DEF Told
    <3>6. PICK meant : meant \in VideoCallback(packet.data, packet.nalu) /\ meant \in packet.meant
      BY <2>2, <3>3 DEF PacketsAreRead, MisreadLayout
    <3> HIDE DEF cut
    <3>7. LosesTail(got, meant)
      BY <3>4, <3>5, <3>6, VideoLoses
    <3> QED BY <3>3, <3>6, <3>7
  <2> QED BY <2>1, <2>2 DEF Received
<1> QED BY <1>1, ToldInvariance, PTL
=============================================================================
