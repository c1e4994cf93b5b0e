-------------------------- MODULE SubscriberProofs --------------------------
(***************************************************************************)
(* Proofs about what a subscriber is sent, for any length of the stream,   *)
(* any capacity of the ring, any lag and any number of pauses.             *)
(*                                                                         *)
(* What is said of the frames sent is not inductive: a handler that sends  *)
(* frame by frame will break it or keep it by what it still has to send.   *)
(* The invariant speaks of both, one after the other, as the script of the *)
(* connection. A send leaves the script alone; a frame received, a play    *)
(* and an unpause add to its end, and a dropped unpause takes headers from *)
(* it.                                                                     *)
(***************************************************************************)
EXTENDS Subscriber, GopCacheProofs

----------------------------------------------------------------------------
(* The inductive invariant.                                                *)

(* The frames sent, and those the handler has still to send.  A send moves *)
(* a frame from the one to the other and leaves the script as it is.       *)
Script == out \o todo

Shown(s, i) == s[i].via # "header"
ShownVideo(s, i) == Shown(s, i) /\ log[s[i].pos] \in Video

(* The GOP buffer holds the last pictures of the log, all of them from its *)
(* first one on, in order.                                                 *)
GopHoldsLastPictures ==
    LET frames == gop.frames
    IN  /\ gop.current_size = TotalSize(frames)
        /\ \A i \in DOMAIN frames : log[frames[i].pos] \in Picture
        /\ \A i, j \in DOMAIN frames : i < j => frames[i].pos < frames[j].pos
        /\ \A i \in DOMAIN frames : \A p \in frames[i].pos .. Len(log) :
               log[p] \in Picture => \E j \in DOMAIN frames : frames[j].pos = p

BeforePlay ==
    phase = "idle" => /\ out = << >> /\ handler = "none" /\ resumed_at = NotYet
                      /\ joined_at = 0 /\ next = 1

HandlerKnown ==
    /\ handler = "none" => todo = << >>
    /\ handler = "unpause" =>
           /\ disturbed /\ pauses > 0
           /\ \A i \in DOMAIN todo : todo[i].via = "header"
    /\ phase # "idle" => joined_at < next

DisturbanceKnown ==
    /\ ~disturbed => subscriber_state = "Normal" /\ ~is_paused
    /\ pauses = 0 => ~is_paused /\ ~skip_audio_until_keyframe
    /\ consecutive_lag_count < next

(* The frames of the catch-up come from before the play, the live ones     *)
(* from after it and from before the receiver.                             *)
ViaKnown ==
    \A i \in DOMAIN Script :
        /\ Script[i].via = "gop" => Script[i].pos <= joined_at /\ log[Script[i].pos] \in Picture
        /\ Script[i].via = "live" => Script[i].pos \in joined_at + 1 .. next - 1

ScriptInOrder ==
    \A i, j \in DOMAIN Script :
        i < j /\ Shown(Script, i) /\ Shown(Script, j) => Script[i].pos < Script[j].pos

CatchupHasNoHole ==
    \A i \in DOMAIN Script : Shown(Script, i) =>
        \A p \in Script[i].pos .. joined_at : log[p] \in Picture =>
            \E j \in DOMAIN Script : Shown(Script, j) /\ Script[j].pos = p

LiveComplete ==
    phase = "playing" /\ ~disturbed =>
        \A p \in joined_at + 1 .. next - 1 :
            \E j \in DOMAIN Script : Shown(Script, j) /\ Script[j].pos = p

(* Over what is sent and what is still to be sent, gaps end so.            *)
GapsClosed ==
    \A i, j \in DOMAIN Script :
        /\ i < j /\ ShownVideo(Script, i) /\ ShownVideo(Script, j)
        /\ \A k \in i + 1 .. j - 1 : ~ShownVideo(Script, k)
        /\ Gap(Script[i].pos, Script[j].pos)
        => log[Script[j].pos] \in Keyframe \cup VideoHeader

(* The gap that is still open, after the last video frame sent: the        *)
(* connection waits for a keyframe, or will when it is resumed.            *)
OpenGapSkips ==
    phase = "playing" =>
        \A i \in DOMAIN Script :
            /\ ShownVideo(Script, i)
            /\ \A k \in DOMAIN Script : i < k => ~ShownVideo(Script, k)
            /\ Gap(Script[i].pos, next)
            => subscriber_state = "SkippingToKeyframe" \/ is_paused

AudioKept ==
    phase = "playing" /\ pauses = 0 =>
        \A p \in joined_at + 1 .. next - 1 :
            \/ log[p] \in Video \/ p \in lost
            \/ \E i \in DOMAIN Script : Script[i].pos = p

(* After an unpause: what is shown, and what the connection remembers of   *)
(* it while no video has been.                                             *)
SilenceKept ==
    resumed_at # NotYet =>
        \A i \in resumed_at + 1 .. Len(Script) :
            Shown(Script, i) /\ log[Script[i].pos] \notin Video =>
                \E j \in resumed_at + 1 .. i - 1 : ShownVideo(Script, j)

FrozenSkipsAudio ==
    resumed_at # NotYet /\ (\A i \in resumed_at + 1 .. Len(Script) : ~ShownVideo(Script, i))
        => subscriber_state = "SkippingToKeyframe" /\ skip_audio_until_keyframe

ScriptOK ==
    /\ ViaKnown /\ ScriptInOrder /\ CatchupHasNoHole /\ LiveComplete
    /\ GapsClosed /\ OpenGapSkips /\ AudioKept /\ SilenceKept /\ FrozenSkipsAudio

IInv ==
    /\ TypeOK /\ GopHoldsLastPictures
    /\ BeforePlay /\ HandlerKnown /\ DisturbanceKnown /\ ScriptOK

----------------------------------------------------------------------------
(* What the steps do to the log and to the script.                         *)

LogGrows == Len(log) <= Len(log') /\ \A p \in 1 .. Len(log) : log'[p] = log[p]

Tag(n) == [keyframe : BOOLEAN, size : {1}, pos : 1 .. n]
Pending(n) == [pos : 1 .. n, via : {"header", "gop"}]
Sending(n) == [pos : 1 .. n, via : {"header", "gop", "live"}]

(* What points into the log points into a longer one.                      *)
LEMMA Longer ==
    ASSUME NEW m \in Nat, NEW n \in Nat, m <= n
    PROVE  /\ Seq(Tag(m)) \subseteq Seq(Tag(n))
           /\ Seq(Pending(m)) \subseteq Seq(Pending(n))
           /\ Seq(Sending(m)) \subseteq Seq(Sending(n))
           /\ Seq(Pending(n)) \subseteq Seq(Sending(n))
<1>1. /\ Tag(m) \subseteq Tag(n) /\ Pending(m) \subseteq Pending(n)
      /\ Sending(m) \subseteq Sending(n) /\ Pending(n) \subseteq Sending(n)
  BY DEF Tag, Pending, Sending
<1> QED BY <1>1, SeqMonotonic

(* The types in the form the steps below use.                              *)
LEMMA TypeFacts ==
    ASSUME TypeOK
    PROVE  /\ Len(log) \in Nat /\ DOMAIN log = 1 .. Len(log)
           /\ gop \in Buffer(Tag(Len(log)))
           /\ todo \in Seq(Pending(Len(log))) /\ todo \in Seq(Sending(Len(log)))
           /\ out \in Seq(Sending(Len(log)))
           /\ Script \in Seq(Sending(Len(log)))
           /\ Len(Script) = Len(out) + Len(todo) /\ Len(out) \in Nat /\ Len(todo) \in Nat
           /\ \A i \in 1 .. Len(out) : Script[i] = out[i]
           /\ \A i \in 1 .. Len(todo) : Script[Len(out) + i] = todo[i]
           /\ \A i \in 1 .. Len(Script) :
                  Script[i].pos \in 1 .. Len(log) /\ Script[i].via \in {"header", "gop", "live"}
<1> DEFINE S == Sending(Len(log))
<1>1. Len(log) \in Nat /\ DOMAIN log = 1 .. Len(log)
  BY DEF TypeOK
<1>2. gop \in Buffer(Tag(Len(log)))
  BY GopAssumption DEF TypeOK, Buffer, Tag
<1>3. todo \in Seq(Pending(Len(log))) /\ out \in Seq(S)
  BY DEF TypeOK, Pending, Sending
<1>4. todo \in Seq(S)
  BY <1>1, <1>3, Longer
<1> HIDE DEF S
<1>5. Len(out) \in Nat /\ Len(todo) \in Nat
  BY <1>3
<1>6. /\ Script \in Seq(S) /\ Len(Script) = Len(out) + Len(todo)
      /\ \A i \in 1 .. Len(out) + Len(todo) :
             Script[i] = IF i <= Len(out) THEN out[i] ELSE todo[i - Len(out)]
  BY <1>3, <1>4, ConcatProperties DEF Script
<1>7. \A i \in 1 .. Len(out) : Script[i] = out[i]
  BY <1>5, <1>6
<1>8. ASSUME NEW i \in 1 .. Len(todo) PROVE Script[Len(out) + i] = todo[i]
  <2>1. Len(out) + i \in 1 .. Len(out) + Len(todo) /\ ~(Len(out) + i <= Len(out))
        /\ (Len(out) + i) - Len(out) = i
    BY <1>5
  <2> QED BY <1>6, <2>1
<1>9. ASSUME NEW i \in 1 .. Len(Script)
      PROVE  Script[i].pos \in 1 .. Len(log) /\ Script[i].via \in {"header", "gop", "live"}
  <2>1. Script[i] \in S
    BY <1>6, ElementOfSeq
  <2> QED BY <2>1 DEF S, Sending
<1> QED BY <1>1, <1>2, <1>3, <1>4, <1>5, <1>6, <1>7, <1>8, <1>9 DEF S

(* The catch-up is the headers and after them the frames of the buffer.    *)
LEMMA CatchupType ==
    ASSUME TypeOK
    PROVE  /\ Headers \in Seq(Pending(Len(log)))
           /\ \A i \in 1 .. Len(Headers) : Headers[i].via = "header"
           /\ CatchupFrames \in Seq(Pending(Len(log)))
           /\ Len(CatchupFrames) = Len(Headers) + Len(gop.frames)
           /\ \A i \in 1 .. Len(Headers) : CatchupFrames[i] = Headers[i]
           /\ \A i \in 1 .. Len(gop.frames) :
                  CatchupFrames[Len(Headers) + i] = Sent(gop.frames[i].pos, "gop")
<1> DEFINE P == Pending(Len(log))
           Gops == [i \in DOMAIN gop.frames |-> Sent(gop.frames[i].pos, "gop")]
<1>1. Len(log) \in Nat /\ gop.frames \in Seq(Tag(Len(log)))
  BY TypeFacts DEF Buffer
<1>2. ASSUME NEW p \in 0 .. Len(log)
      PROVE  /\ Cached(p) \in Seq(P)
             /\ \A i \in 1 .. Len(Cached(p)) : Cached(p)[i].via = "header"
  <2>1. CASE p = 0
    BY <2>1 DEF Cached
  <2>2. CASE p # 0
    <3>1. Sent(p, "header") \in P
      BY <1>1, <1>2, <2>2 DEF Sent, Pending
    <3>2. Cached(p) = <<Sent(p, "header")>>
      BY <2>2 DEF Cached
    <3>3. Sent(p, "header").via = "header"
      BY DEF Sent
    <3> HIDE DEF P
    <3> QED BY <3>1, <3>2, <3>3
  <2> QED BY <2>1, <2>2
<1>3. Headers \in Seq(P) /\ \A i \in 1 .. Len(Headers) : Headers[i].via = "header"
  <2> DEFINE v == Cached(video_header)
             a == Cached(audio_header)
  <2>1. /\ v \in Seq(P) /\ \A i \in 1 .. Len(v) : v[i].via = "header"
        /\ a \in Seq(P) /\ \A i \in 1 .. Len(a) : a[i].via = "header"
    BY <1>2 DEF TypeOK
  <2>2. Headers = IF closed THEN << >> ELSE v \o a
    BY DEF Headers
  <2> HIDE DEF v, a, P
  <2>3. ASSUME NEW i \in 1 .. Len(v \o a) PROVE (v \o a)[i].via = "header"
    <3>1. (v \o a)[i] = IF i <= Len(v) THEN v[i] ELSE a[i - Len(v)]
      BY <2>1, ConcatProperties
    <3>2. i <= Len(v) => i \in 1 .. Len(v)
      BY <2>1
    <3>3. ~(i <= Len(v)) => i - Len(v) \in 1 .. Len(a)
      BY <2>1, ConcatProperties
    <3> QED BY <2>1, <3>1, <3>2, <3>3
  <2>4. v \o a \in Seq(P)
    BY <2>1
  <2> QED BY <2>2, <2>3, <2>4
<1>4. /\ Gops \in Seq(P) /\ Len(Gops) = Len(gop.frames)
      /\ \A i \in 1 .. Len(gop.frames) : Gops[i] = Sent(gop.frames[i].pos, "gop")
  <2>1. DOMAIN gop.frames = 1 .. Len(gop.frames) /\ Len(gop.frames) \in Nat
    BY <1>1
  <2>2. ASSUME NEW i \in DOMAIN gop.frames PROVE Sent(gop.frames[i].pos, "gop") \in P
    <3>1. gop.frames[i] \in Tag(Len(log))
      BY <1>1, <2>1, ElementOfSeq
    <3> QED BY <1>1, <3>1 DEF Sent, Pending, Tag
  <2> HIDE DEF P
  <2>3. Gops \in [1 .. Len(gop.frames) -> P]
    BY <2>1, <2>2
  <2> QED BY <2>1, <2>3
<1>5. CatchupFrames = Headers \o Gops
  BY DEF CatchupFrames
<1> HIDE DEF P, Gops
<1>6. /\ CatchupFrames \in Seq(P) /\ Len(CatchupFrames) = Len(Headers) + Len(Gops)
      /\ \A i \in 1 .. Len(Headers) + Len(Gops) :
             CatchupFrames[i] = IF i <= Len(Headers) THEN Headers[i] ELSE Gops[i - Len(Headers)]
  <2>1. Headers \in Seq(P) /\ Gops \in Seq(P)
    BY <1>3, <1>4
  <2>2. \A s1, s2 \in Seq(P) :
            /\ s1 \o s2 \in Seq(P) /\ Len(s1 \o s2) = Len(s1) + Len(s2)
            /\ \A i \in 1 .. Len(s1) + Len(s2) :
                   (s1 \o s2)[i] = IF i <= Len(s1) THEN s1[i] ELSE s2[i - Len(s1)]
    BY ConcatProperties
  <2> QED BY <1>5, <2>1, <2>2
<1>7. Len(Headers) \in Nat /\ Len(Gops) \in Nat
  BY <1>3, <1>4
<1>8. \A i \in 1 .. Len(Headers) : CatchupFrames[i] = Headers[i]
  BY <1>6, <1>7
<1>9. ASSUME NEW i \in 1 .. Len(gop.frames)
      PROVE  CatchupFrames[Len(Headers) + i] = Sent(gop.frames[i].pos, "gop")
  <2>1. /\ Len(Headers) + i \in 1 .. Len(Headers) + Len(Gops)
        /\ ~(Len(Headers) + i <= Len(Headers)) /\ (Len(Headers) + i) - Len(Headers) = i
    BY <1>4, <1>7
  <2> QED BY <1>4, <1>6, <2>1
<1> QED BY <1>3, <1>4, <1>6, <1>8, <1>9 DEF P

----------------------------------------------------------------------------
(* Types, and the GOP buffer.                                              *)

(* The initial state has its types.                                        *)
LEMMA TypeInit == Init => TypeOK
<1> SUFFICES ASSUME Init PROVE TypeOK
  OBVIOUS
<1>1. log = << >> /\ todo = << >> /\ out = << >> /\ gop = EmptyGop
  BY DEF Init
<1>2. Len(<< >>) = 0 /\ \A S : << >> \in Seq(S)
  OBVIOUS
<1>3. gop \in [frames : Seq([keyframe : BOOLEAN, size : {1}, pos : 1 .. Len(log)]),
              current_size : 0 .. MaxGopSize, has_complete_gop : BOOLEAN]
  BY <1>1, <1>2, GopAssumption DEF EmptyGop
<1>4. /\ log \in Seq(Kinds) /\ Len(log) <= MaxFrames
      /\ todo \in Seq([pos : 1 .. Len(log), via : {"header", "gop"}])
      /\ out \in Seq([pos : 1 .. Len(log), via : {"header", "gop", "live"}])
  BY <1>1, <1>2, SubscriberAssumption
<1>5. resumed_at \in {NotYet} \cup 0 .. Len(out) /\ pauses \in 0 .. MaxPauses
      /\ consecutive_lag_count \in 0 .. MaxFrames
  BY SubscriberAssumption DEF Init
<1>6. /\ video_header \in 0 .. Len(log) /\ audio_header \in 0 .. Len(log)
      /\ next \in 1 .. Len(log) + 1 /\ joined_at \in 0 .. Len(log)
  BY <1>2 DEF Init
<1>7. /\ phase \in {"idle", "playing", "ended"} /\ handler \in {"none", "play", "unpause"}
      /\ subscriber_state \in {"Normal", "SkippingToKeyframe"}
      /\ {is_paused, skip_audio_until_keyframe, closed, disturbed} \subseteq BOOLEAN
  BY DEF Init
<1> QED BY <1>3, <1>4, <1>5, <1>6, <1>7 DEF TypeOK

(* A broadcast makes the log one frame longer.                             *)
LEMMA BroadcastFacts ==
    ASSUME TypeOK, NEW kind \in Kinds, Broadcast(kind)
    PROVE  /\ Len(log') = Len(log) + 1 /\ log'[Len(log) + 1] = kind
           /\ log' \in Seq(Kinds) /\ LogGrows
<1>1. log \in Seq(Kinds) /\ log' = Append(log, kind)
  BY DEF TypeOK, Broadcast
<1>2. Len(log') = Len(log) + 1 /\ log'[Len(log) + 1] = kind /\ log' \in Seq(Kinds)
  BY <1>1, AppendProperties
<1>3. \A p \in 1 .. Len(log) : log'[p] = log[p]
  BY <1>1, AppendProperties
<1>4. Len(log) \in Nat
  BY <1>1
<1> QED BY <1>2, <1>3, <1>4 DEF LogGrows

(* A broadcast keeps the buffer to the last pictures of the log: a         *)
(* keyframe the buffer recognises starts it anew, another picture joins    *)
(* it, anything else passes it by.                                         *)
LEMMA GopBroadcast ==
    ASSUME TypeOK, GopHoldsLastPictures, NEW kind \in Kinds, Broadcast(kind)
    PROVE  gop' \in Buffer(Tag(Len(log'))) /\ gop'.current_size \in 0 .. MaxGopSize
           /\ GopHoldsLastPictures'
<1> DEFINE N == Len(log)
           T == Tag(N + 1)
           tag == [keyframe |-> kind \in TagKeyframe, size |-> 1, pos |-> N + 1]
           old == Before(gop, tag)
           new == gop'.frames
<1>1. /\ N \in Nat /\ Len(log') = N + 1 /\ log'[N + 1] = kind
      /\ \A p \in 1 .. N : log'[p] = log[p]
  BY BroadcastFacts, TypeFacts DEF LogGrows
<1>2. gop \in Buffer(T) /\ gop.current_size \in 0 .. MaxGopSize
  BY <1>1, TypeFacts, Longer DEF Buffer, TypeOK
<1>3. gop.frames \in Seq(Tag(N)) /\ \A i \in 1 .. Len(gop.frames) : gop.frames[i].pos \in 1 .. N
  <2>1. gop.frames \in Seq(Tag(N))
    BY TypeFacts DEF Buffer
  <2>2. ASSUME NEW i \in 1 .. Len(gop.frames) PROVE gop.frames[i].pos \in 1 .. N
    <3>1. gop.frames[i] \in Tag(N)
      BY <2>1, ElementOfSeq
    <3> QED BY <3>1 DEF Tag
  <2> QED BY <2>1, <2>2
<1>4. DOMAIN gop.frames = 1 .. Len(gop.frames) /\ Len(gop.frames) \in Nat
  BY <1>3
<1>5. CASE kind \notin Picture
  <2>1. gop' = gop
    BY <1>5 DEF Broadcast
  <2>2. \A i \in DOMAIN new : log'[new[i].pos] = log[gop.frames[i].pos]
    BY <1>1, <1>3, <1>4, <2>1
  <2>3. ASSUME NEW i \in DOMAIN gop.frames, NEW p \in gop.frames[i].pos .. N + 1,
               log'[p] \in Picture
        PROVE  p \in gop.frames[i].pos .. N /\ log[p] \in Picture
    BY <1>1, <1>3, <1>4, <1>5, <2>3
  <2>4. GopHoldsLastPictures'
    BY <1>1, <2>1, <2>2, <2>3 DEF GopHoldsLastPictures
  <2> QED BY <1>1, <1>2, <2>1, <2>4
<1>6. CASE kind \in Picture
  <2>1. gop' = Push(gop, tag)
    BY <1>1, <1>6 DEF Broadcast
  <2>2. Sized(T) /\ tag \in T
    BY <1>1 DEF Sized, Tag
  <2>3. Accounted(gop)
    BY DEF GopHoldsLastPictures, Accounted
  <2>4. tag.pos = N + 1
    OBVIOUS
  <2>5. (old = << >> \/ old = gop.frames) /\ old \in Seq(Tag(N)) /\ Len(old) \in Nat
    BY <1>3 DEF Before
  <2> HIDE DEF T, tag
  <2>6. /\ gop' \in Buffer(T) /\ Accounted(gop') /\ gop'.current_size \in 0 .. MaxGopSize
        /\ \E n \in 0 .. Len(old) :
               \/ new = Append(SubSeq(old, n + 1, Len(old)), tag)
               \/ new = << >>
    BY <1>2, <2>1, <2>2, <2>3, PushFacts
  <2> HIDE DEF old
  <2>7. CASE new = << >>
    BY <1>1, <2>6, <2>7 DEF GopHoldsLastPictures, Accounted, T
  <2>8. ASSUME NEW n \in 0 .. Len(old), new = Append(SubSeq(old, n + 1, Len(old)), tag)
        PROVE  GopHoldsLastPictures'
    <3> DEFINE kept == SubSeq(old, n + 1, Len(old))
               K == Len(old) - n
    <3>1. K \in Nat /\ n \in Nat /\ (K # 0 => old = gop.frames /\ Len(gop.frames) = n + K)
      BY <2>5
    <3>2. kept \in Seq(Tag(N)) /\ Len(kept) = K
      BY <2>5
    <3>3. \A i \in 1 .. K : kept[i] = old[n + i]
      BY <2>5
    <3>4. new = Append(kept, tag)
      BY <2>8
    <3> HIDE DEF kept, K, new
    <3>5. /\ DOMAIN new = 1 .. K + 1 /\ new[K + 1] = tag
          /\ \A i \in 1 .. K : new[i] = kept[i]
      BY <3>1, <3>2, <3>4
    <3>6. ASSUME NEW i \in 1 .. K
          PROVE  /\ n + i \in 1 .. Len(gop.frames) /\ new[i] = gop.frames[n + i]
                 /\ new[i].pos \in 1 .. N
      <4>1. n + i \in 1 .. Len(gop.frames) /\ old = gop.frames
        BY <3>1
      <4> QED BY <1>3, <3>3, <3>5, <4>1
    <3>7. ASSUME NEW i \in 1 .. K + 1, i # K + 1 PROVE i \in 1 .. K
      BY <3>1, <3>7
    <3>8. ASSUME NEW i \in DOMAIN new PROVE log'[new[i].pos] \in Picture
      <4>1. CASE i = K + 1
        BY <1>1, <1>6, <2>4, <3>5, <4>1
      <4>2. CASE i # K + 1
        <5>1. i \in 1 .. K
          BY <3>5, <3>7, <4>2
        <5>2. log[gop.frames[n + i].pos] \in Picture
          BY <1>4, <3>6, <5>1 DEF GopHoldsLastPictures
        <5> QED BY <1>1, <3>6, <5>1, <5>2
      <4> QED BY <4>1, <4>2
    <3>9. ASSUME NEW i \in DOMAIN new, NEW j \in DOMAIN new, i < j
          PROVE  new[i].pos < new[j].pos
      <4>1. i \in 1 .. K
        BY <3>1, <3>5, <3>9
      <4>2. CASE j = K + 1
        BY <1>1, <2>4, <3>5, <3>6, <4>1, <4>2
      <4>3. CASE j # K + 1
        <5>1. j \in 1 .. K /\ n + i < n + j
          BY <3>1, <3>5, <3>7, <3>9, <4>3
        <5>2. n + i \in DOMAIN gop.frames /\ n + j \in DOMAIN gop.frames
          BY <1>4, <3>6, <4>1, <5>1
        <5>3. gop.frames[n + i].pos < gop.frames[n + j].pos
          BY <5>1, <5>2 DEF GopHoldsLastPictures
        <5> QED BY <3>6, <4>1, <5>1, <5>3
      <4> QED BY <4>2, <4>3
    <3>10. ASSUME NEW i \in DOMAIN new, NEW p \in new[i].pos .. Len(log'), log'[p] \in Picture
           PROVE  \E j \in DOMAIN new : new[j].pos = p
      <4>1. CASE p = N + 1
        BY <2>4, <3>1, <3>5, <4>1
      <4>2. CASE p # N + 1
        <5>1. i # K + 1
          BY <1>1, <2>4, <3>5, <4>2
        <5>2. i \in 1 .. K
          BY <3>5, <3>7, <5>1
        <5>3. /\ n + i \in DOMAIN gop.frames /\ p \in gop.frames[n + i].pos .. N
              /\ p \in 1 .. N /\ log[p] \in Picture
          BY <1>1, <1>4, <3>6, <3>10, <4>2, <5>2
        <5>4. PICK k \in DOMAIN gop.frames : gop.frames[k].pos = p
          BY <5>3, Zenon DEF GopHoldsLastPictures
        <5>5. ~(k < n + i)
          BY <1>1, <1>3, <1>4, <5>3, <5>4 DEF GopHoldsLastPictures
        <5>6. k - n \in 1 .. K /\ n + (k - n) = k
          BY <1>4, <3>1, <5>2, <5>5
        <5>7. new[k - n].pos = p /\ k - n \in DOMAIN new
          BY <3>1, <3>5, <3>6, <5>4, <5>6
        <5> QED BY <5>7
      <4> QED BY <4>1, <4>2
    <3> QED BY <2>6, <3>8, <3>9, <3>10 DEF GopHoldsLastPictures, Accounted, new
  <2> QED BY <1>1, <2>6, <2>7, <2>8 DEF T
<1> QED BY <1>5, <1>6

(* No step takes a frame out of the log.                                   *)
LEMMA StepsOfLog ==
    ASSUME TypeOK, [Next]_vars
    PROVE  /\ LogGrows /\ log' \in Seq(Kinds) /\ Len(log') \in Nat /\ Len(log') <= MaxFrames
           /\ video_header' \in 0 .. Len(log') /\ audio_header' \in 0 .. Len(log')
<1>1. log \in Seq(Kinds) /\ Len(log) \in Nat /\ Len(log) <= MaxFrames
  BY DEF TypeOK
<1>2. ASSUME NEW kind \in Kinds, Broadcast(kind)
      PROVE  /\ LogGrows /\ log' \in Seq(Kinds) /\ Len(log') \in Nat /\ Len(log') <= MaxFrames
             /\ video_header' \in 0 .. Len(log') /\ audio_header' \in 0 .. Len(log')
  <2>1. Len(log) < MaxFrames
    BY <1>2 DEF Broadcast
  <2>2. /\ video_header' = IF kind \in VideoHeader THEN Len(log') ELSE video_header
        /\ audio_header' = IF kind \in AudioHeader THEN Len(log') ELSE audio_header
    BY <1>2 DEF Broadcast
  <2>3. Len(log') = Len(log) + 1 /\ log' \in Seq(Kinds) /\ LogGrows
    BY <1>2, BroadcastFacts
  <2>4. video_header \in 0 .. Len(log) /\ audio_header \in 0 .. Len(log)
    BY DEF TypeOK
  <2> QED BY <1>1, <2>1, <2>2, <2>3, <2>4, SubscriberAssumption
<1>3. CASE UNCHANGED <<log, video_header, audio_header>>
  BY <1>1, <1>3 DEF TypeOK, LogGrows
<1>4. (\E kind \in Kinds : Broadcast(kind)) \/ UNCHANGED <<log, video_header, audio_header>>
  BY DEF Next, Stream, Close, Play, Pause, Unpause, Handler, SendNext, HandlerReturns,
     HandlerDropped, Recv, RecvFrame, MinorLag, MajorLag, Lagged, StreamEnded, Leave,
     vars, entryVars
<1> QED BY <1>2, <1>3, <1>4

(* No step but a broadcast changes the buffer.                             *)
LEMMA GopStep ==
    ASSUME TypeOK, GopHoldsLastPictures, [Next]_vars
    PROVE  gop' \in Buffer(Tag(Len(log'))) /\ gop'.current_size \in 0 .. MaxGopSize
           /\ GopHoldsLastPictures'
<1>1. CASE \E kind \in Kinds : Broadcast(kind)
  BY <1>1, GopBroadcast
<1>2. CASE UNCHANGED <<log, gop>>
  BY <1>2, TypeFacts DEF TypeOK, GopHoldsLastPictures
<1>3. (\E kind \in Kinds : Broadcast(kind)) \/ UNCHANGED <<log, gop>>
  BY DEF Next, Stream, Close, Play, Pause, Unpause, Handler, SendNext, HandlerReturns,
     HandlerDropped, Recv, RecvFrame, MinorLag, MajorLag, Lagged, StreamEnded, Leave,
     vars, entryVars
<1> QED BY <1>1, <1>2, <1>3

(* The connection: what it has sent and has still to send.                 *)
LEMMA SequencesStep ==
    ASSUME TypeOK, HandlerKnown, [Next]_vars
    PROVE  /\ todo' \in Seq(Pending(Len(log'))) /\ out' \in Seq(Sending(Len(log')))
           /\ resumed_at' \in {NotYet} \cup 0 .. Len(out')
<1> DEFINE N == Len(log)
<1>1. /\ todo \in Seq(Pending(N)) /\ out \in Seq(Sending(N)) /\ N \in Nat /\ Len(out) \in Nat
      /\ resumed_at \in {NotYet} \cup 0 .. Len(out)
  BY TypeFacts DEF TypeOK
<1>2. N <= Len(log') /\ Len(log') \in Nat
  BY StepsOfLog DEF LogGrows
<1>3. /\ Seq(Pending(N)) \subseteq Seq(Pending(Len(log')))
      /\ Seq(Sending(N)) \subseteq Seq(Sending(Len(log')))
  BY <1>1, <1>2, Longer
<1> SUFFICES /\ todo' \in Seq(Pending(N)) /\ out' \in Seq(Sending(N))
             /\ resumed_at' \in {NotYet} \cup 0 .. Len(out')
  BY <1>3
<1>4. CASE UNCHANGED <<todo, out, resumed_at>>
  BY <1>1, <1>4
<1>5. CASE Play
  BY <1>1, <1>5, CatchupType DEF Play
<1>6. CASE Unpause
  BY <1>1, <1>6, CatchupType DEF Unpause
<1>7. CASE SendNext
  <2>1. todo # << >> /\ out' = Append(out, Head(todo)) /\ todo' = Tail(todo)
        /\ resumed_at' = resumed_at
    BY <1>7 DEF SendNext, historyVars
  <2>2. Head(todo) \in Pending(N) /\ Tail(todo) \in Seq(Pending(N))
    BY <1>1, <2>1, HeadTailProperties
  <2>3. Head(todo) \in Sending(N)
    BY <2>2 DEF Pending, Sending
  <2>4. out' \in Seq(Sending(N)) /\ Len(out') = Len(out) + 1
    BY <1>1, <2>1, <2>3, AppendProperties
  <2> QED BY <1>1, <2>1, <2>2, <2>4
<1>8. CASE HandlerDropped
  BY <1>1, <1>8 DEF HandlerDropped, historyVars
<1>9. CASE RecvFrame
  <2>1. /\ todo' = todo /\ resumed_at' = resumed_at /\ next \in 1 .. N
        /\ out' = out \/ out' = Append(out, Sent(next, "live"))
    BY <1>1, <1>9 DEF RecvFrame, SendBroadcastFrame, Waiting, historyVars, TypeOK
  <2>2. Sent(next, "live") \in Sending(N)
    BY <2>1 DEF Sent, Sending
  <2>3. out' \in Seq(Sending(N)) /\ Len(out') >= Len(out) /\ Len(out') \in Nat
    BY <1>1, <2>1, <2>2, AppendProperties
  <2> QED BY <1>1, <2>1, <2>3
<1>10. CASE HandlerReturns
  BY <1>1, <1>10 DEF HandlerReturns, historyVars
<1> QED
  BY <1>4, <1>5, <1>6, <1>7, <1>8, <1>9, <1>10
  DEF Next, Stream, Broadcast, Close, Pause, Handler, Recv, MinorLag, MajorLag, Lagged, StreamEnded, Leave,
      vars, entryVars, connVars, historyVars

(* Before its play a connection takes no part.                             *)
LEMMA IdleSteps ==
    ASSUME [Next]_vars, phase = "idle"
    PROVE  Play \/ UNCHANGED <<connVars, out, historyVars>>
<1>1. CASE Stream
  BY <1>1 DEF Stream, Broadcast, Close
<1>2. CASE Pause \/ Unpause \/ Recv
  BY <1>2 DEF Pause, Unpause, Recv, RecvFrame, MinorLag, MajorLag, Lagged, StreamEnded, InMainLoop
<1>3. CASE Handler \/ Leave
  BY <1>3 DEF Handler, SendNext, HandlerReturns, HandlerDropped, Leave
<1> QED BY <1>1, <1>2, <1>3 DEF Next, vars

(* The receiver: no step moves it back, and a lag moves it forward.        *)
LEMMA LagMovesOn ==
    ASSUME TypeOK, Lagged
    PROVE  /\ next < next' /\ next' \in 1 .. Len(log) /\ next' \in Nat
           /\ consecutive_lag_count' = consecutive_lag_count + 1
<1>1. Len(log) \in Nat /\ next \in 1 .. Len(log) + 1 /\ Capacity \in Nat \ {0}
  BY TypeFacts, SubscriberAssumption DEF TypeOK
<1>2. /\ Len(log) + 1 - Capacity - next > 0
      /\ next' = next + (Len(log) + 1 - Capacity - next)
      /\ consecutive_lag_count' = consecutive_lag_count + 1
  BY DEF Lagged, Overwritten
<1> QED BY <1>1, <1>2

(* The receiver moves on and stays behind the end of the log; a lag in a   *)
(* row has moved it each time.                                             *)
LEMMA ReceiverStep ==
    ASSUME TypeOK, BeforePlay, HandlerKnown, DisturbanceKnown, [Next]_vars
    PROVE  /\ next' \in 1 .. Len(log') + 1 /\ joined_at' \in 0 .. Len(log')
           /\ consecutive_lag_count' \in 0 .. MaxFrames /\ consecutive_lag_count' < next'
           /\ phase' # "idle" => joined_at' < next'
<1>1. /\ Len(log) \in Nat /\ next \in 1 .. Len(log) + 1 /\ joined_at \in 0 .. Len(log)
      /\ consecutive_lag_count \in 0 .. MaxFrames /\ consecutive_lag_count < next
      /\ phase # "idle" => joined_at < next
      /\ Len(log) <= MaxFrames /\ MaxFrames \in Nat
  BY TypeFacts, SubscriberAssumption DEF TypeOK, HandlerKnown, DisturbanceKnown
<1>2. Len(log) <= Len(log') /\ Len(log') \in Nat /\ Len(log') <= MaxFrames
  BY StepsOfLog DEF LogGrows
<1>3. CASE UNCHANGED <<next, joined_at, consecutive_lag_count>> /\ (phase' # "idle" => phase # "idle")
  BY <1>1, <1>2, <1>3
<1>4. CASE Play
  BY <1>1, <1>2, <1>4 DEF Play, BeforePlay, entryVars
<1>5. CASE RecvFrame
  BY <1>1, <1>2, <1>5 DEF RecvFrame, InMainLoop, Waiting, entryVars, historyVars
<1>6. CASE Lagged /\ UNCHANGED <<joined_at, log>> /\ phase = "playing"
  BY <1>1, <1>6, LagMovesOn
<1>7. phase = "idle" /\ ~Play => phase' = "idle"
  BY IdleSteps DEF connVars
<1>8. \/ UNCHANGED <<next, joined_at, consecutive_lag_count>>
      \/ Play
      \/ RecvFrame
      \/ Lagged /\ UNCHANGED <<joined_at, log>> /\ phase = "playing"
  BY DEF Next, Stream, Broadcast, Close, Pause, Unpause, Handler, SendNext, HandlerReturns,
     HandlerDropped, Recv, MinorLag, MajorLag, Lagged, StreamEnded, Leave, InMainLoop,
     vars, entryVars, connVars, historyVars
<1> QED BY <1>3, <1>4, <1>5, <1>6, <1>7, <1>8

(* The flags of the connection keep their types.                           *)
LEMMA FlagsStep ==
    ASSUME TypeOK, [Next]_vars
    PROVE  /\ phase' \in {"idle", "playing", "ended"}
           /\ handler' \in {"none", "play", "unpause"}
           /\ subscriber_state' \in {"Normal", "SkippingToKeyframe"}
           /\ {is_paused, skip_audio_until_keyframe, closed, disturbed}' \subseteq BOOLEAN
           /\ pauses' \in 0 .. MaxPauses
<1>1. /\ phase \in {"idle", "playing", "ended"}
      /\ handler \in {"none", "play", "unpause"}
      /\ subscriber_state \in {"Normal", "SkippingToKeyframe"}
      /\ {is_paused, skip_audio_until_keyframe, closed, disturbed} \subseteq BOOLEAN
      /\ pauses \in 0 .. MaxPauses /\ MaxPauses \in Nat
  BY SubscriberAssumption DEF TypeOK
<1> USE DEF entryVars, connVars, historyVars
<1>2. CASE UNCHANGED vars
  BY <1>1, <1>2 DEF vars
<1>3. CASE Stream
  BY <1>1, <1>3 DEF Stream, Broadcast, Close
<1>4. CASE Play
  BY <1>1, <1>4 DEF Play
<1>5. CASE Pause
  BY <1>1, <1>5 DEF Pause
<1>6. CASE Unpause
  BY <1>1, <1>6 DEF Unpause
<1>7. CASE Handler
  BY <1>1, <1>7 DEF Handler, SendNext, HandlerReturns, HandlerDropped
<1>8. CASE RecvFrame
  BY <1>1, <1>8 DEF RecvFrame, SendBroadcastFrame
<1>9. CASE MinorLag \/ MajorLag
  BY <1>1, <1>9 DEF MinorLag, MajorLag, Lagged
<1>10. CASE StreamEnded
  BY <1>1, <1>10 DEF StreamEnded
<1>11. CASE Leave
  BY <1>1, <1>11 DEF Leave
<1> QED
  BY <1>2, <1>3, <1>4, <1>5, <1>6, <1>7, <1>8, <1>9, <1>10, <1>11 DEF Next, Recv

(* Every step keeps the types.                                             *)
LEMMA TypeStep ==
    ASSUME TypeOK, GopHoldsLastPictures, BeforePlay, HandlerKnown, DisturbanceKnown, [Next]_vars
    PROVE  TypeOK'
<1>1. gop' \in [frames : Seq(Tag(Len(log'))), current_size : 0 .. MaxGopSize,
                has_complete_gop : BOOLEAN]
  BY GopStep DEF Buffer
<1> QED
  BY <1>1, StepsOfLog, SequencesStep, ReceiverStep, FlagsStep DEF TypeOK, Tag, Pending, Sending

(* A connection that has not played has sent nothing.                      *)
LEMMA BeforePlayStep ==
    ASSUME BeforePlay, [Next]_vars
    PROVE  BeforePlay'
<1>1. CASE phase = "idle"
  <2>1. CASE Play
    BY <2>1 DEF Play, BeforePlay
  <2>2. CASE UNCHANGED <<connVars, out, historyVars>>
    BY <1>1, <2>2 DEF BeforePlay, connVars, historyVars
  <2> QED BY <1>1, <2>1, <2>2, IdleSteps
<1>2. CASE phase # "idle"
  <2>1. phase' # "idle"
    BY <1>2 DEF Next, Stream, Broadcast, Close, Play, Pause, Unpause, Handler, SendNext,
       HandlerReturns, HandlerDropped, Recv, RecvFrame, MinorLag, MajorLag, StreamEnded, Leave,
       InMainLoop, vars, connVars
  <2> QED BY <2>1 DEF BeforePlay
<1> QED BY <1>1, <1>2

(* Every step keeps what is known of a handler at work.                    *)
LEMMA HandlerStep ==
    ASSUME TypeOK, BeforePlay, HandlerKnown, DisturbanceKnown, [Next]_vars
    PROVE  HandlerKnown'
<1>1. phase' # "idle" => joined_at' < next'
  BY ReceiverStep
<1> DEFINE Quiet == /\ handler = "none" => todo = << >>
                    /\ handler = "unpause" =>
                          /\ disturbed /\ pauses > 0
                          /\ \A i \in DOMAIN todo : todo[i].via = "header"
<1> SUFFICES Quiet'
  BY <1>1 DEF HandlerKnown
<1>2. Quiet /\ pauses \in Nat
  BY DEF HandlerKnown, TypeOK
<1>3. CASE UNCHANGED <<handler, todo, disturbed, pauses>>
  BY <1>2, <1>3
<1>4. CASE Play
  BY <1>4 DEF Play
<1>5. CASE Pause
  BY <1>2, <1>5 DEF Pause, InMainLoop
<1>6. CASE Unpause
  <2>1. handler' = "unpause" /\ todo' = Headers /\ is_paused /\ UNCHANGED <<disturbed, pauses>>
    BY <1>6 DEF Unpause
  <2>2. disturbed /\ pauses > 0
    BY <1>2, <2>1 DEF DisturbanceKnown, TypeOK
  <2>3. DOMAIN Headers = 1 .. Len(Headers) /\ \A i \in DOMAIN Headers : Headers[i].via = "header"
    BY CatchupType
  <2> QED BY <2>1, <2>2, <2>3
<1>7. CASE SendNext
  <2>1. todo # << >> /\ todo' = Tail(todo) /\ UNCHANGED <<handler, disturbed, pauses>>
    BY <1>7 DEF SendNext, historyVars
  <2>2. /\ Len(Tail(todo)) = Len(todo) - 1 /\ DOMAIN Tail(todo) = 1 .. Len(Tail(todo))
        /\ \A i \in 1 .. Len(Tail(todo)) : Tail(todo)[i] = todo[i + 1]
        /\ DOMAIN todo = 1 .. Len(todo) /\ Len(todo) \in Nat
    BY <2>1, TypeFacts, HeadTailProperties
  <2>3. \A i \in DOMAIN Tail(todo) : i + 1 \in DOMAIN todo /\ Tail(todo)[i] = todo[i + 1]
    BY <2>2
  <2> QED BY <1>2, <2>1, <2>3
<1>8. CASE HandlerReturns
  BY <1>8 DEF HandlerReturns
<1>9. CASE HandlerDropped
  BY <1>9 DEF HandlerDropped
<1>10. CASE Lagged /\ UNCHANGED <<handler, todo>> /\ handler = "none"
  BY <1>2, <1>10
<1> HIDE DEF Quiet
<1>11. CASE Stream \/ Leave \/ UNCHANGED vars
  BY <1>3, <1>11 DEF Stream, Broadcast, Close, Leave, vars, connVars, historyVars
<1>12. CASE RecvFrame \/ StreamEnded
  BY <1>3, <1>12 DEF RecvFrame, StreamEnded, historyVars
<1>13. CASE MinorLag \/ MajorLag
  <2>1. Lagged /\ UNCHANGED <<handler, todo>> /\ handler = "none"
    BY <1>13 DEF MinorLag, MajorLag, Lagged, InMainLoop
  <2> QED BY <1>10, <2>1
<1> QED
  BY <1>4, <1>5, <1>6, <1>7, <1>8, <1>9, <1>11, <1>12, <1>13 DEF Next, Handler, Recv

(* Every step keeps what is known of lags and pauses.                      *)
LEMMA DisturbanceStep ==
    ASSUME TypeOK, BeforePlay, HandlerKnown, DisturbanceKnown, [Next]_vars
    PROVE  DisturbanceKnown'
<1>1. consecutive_lag_count' < next'
  BY ReceiverStep
<1> DEFINE Calm == /\ ~disturbed => subscriber_state = "Normal" /\ ~is_paused
                   /\ pauses = 0 => ~is_paused /\ ~skip_audio_until_keyframe
<1> SUFFICES Calm'
  BY <1>1 DEF DisturbanceKnown
<1>2. Calm /\ pauses \in Nat /\ {is_paused, skip_audio_until_keyframe, disturbed} \subseteq BOOLEAN
  BY DEF DisturbanceKnown, TypeOK
<1>3. CASE UNCHANGED <<disturbed, subscriber_state, is_paused, pauses, skip_audio_until_keyframe>>
  BY <1>2, <1>3
<1>4. CASE Pause
  BY <1>2, <1>4 DEF Pause
<1>5. CASE Unpause
  BY <1>2, <1>5 DEF Unpause
<1>6. CASE RecvFrame
  BY <1>2, <1>6 DEF RecvFrame, SendBroadcastFrame, historyVars
<1>7. CASE MinorLag \/ MajorLag
  BY <1>2, <1>7 DEF MinorLag, MajorLag, Lagged
<1>8. CASE StreamEnded
  BY <1>2, <1>8 DEF StreamEnded, historyVars
<1> QED
  BY <1>3, <1>4, <1>5, <1>6, <1>7, <1>8
  DEF Next, Stream, Broadcast, Close, Play, Handler, SendNext, HandlerReturns, HandlerDropped,
      Recv, Leave, vars, connVars, historyVars

----------------------------------------------------------------------------
(* The script.                                                             *)

(* The script begins with what was sent, and each of its frames is one of  *)
(* the log.                                                                *)
LEMMA ScriptType ==
    ASSUME TypeOK
    PROVE  /\ DOMAIN Script = 1 .. Len(Script) /\ Len(Script) \in Nat
           /\ \A i \in DOMAIN Script : Script[i].pos \in 1 .. Len(log)
           /\ DOMAIN out = 1 .. Len(out) /\ DOMAIN out \subseteq DOMAIN Script
           /\ \A i \in DOMAIN out : out[i] = Script[i]
           /\ todo = << >> => Script = out
<1>1. /\ Script \in Seq(Sending(Len(log))) /\ out \in Seq(Sending(Len(log)))
      /\ Len(Script) = Len(out) + Len(todo) /\ Len(out) \in Nat /\ Len(todo) \in Nat
  BY TypeFacts
<1>2. todo = << >> => Script = out
  BY <1>1, ConcatEmptySeq DEF Script
<1>3. \A i \in 1 .. Len(out) : Script[i] = out[i]
  BY TypeFacts
<1>4. \A i \in 1 .. Len(Script) : Script[i].pos \in 1 .. Len(log)
  BY TypeFacts
<1>5. DOMAIN Script = 1 .. Len(Script) /\ DOMAIN out = 1 .. Len(out)
  BY <1>1
<1> QED BY <1>1, <1>2, <1>3, <1>4, <1>5

(* Steps that leave the script and the receiver as they are: the log may   *)
(* grow, the subscriber may pause and the connection may end.              *)
LEMMA ScriptStays ==
    ASSUME TypeOK, ScriptOK, LogGrows, Script' = Script,
           UNCHANGED <<next, joined_at, lost, torn, resumed_at, subscriber_state,
                       skip_audio_until_keyframe>>,
           phase' = "playing" => phase = "playing" /\ (is_paused => is_paused'),
           disturbed => disturbed', pauses' = 0 => pauses = 0
    PROVE  ScriptOK'
<1> DEFINE N == Len(log)
           D == DOMAIN Script
<1>1. /\ N \in Nat /\ next \in 1 .. N + 1 /\ joined_at \in 0 .. N
      /\ \A p \in 1 .. N : log'[p] = log[p]
      /\ \A i \in D : Script[i].pos \in 1 .. N
      /\ D = 1 .. Len(Script) /\ Len(Script) \in Nat
  BY TypeFacts, ScriptType DEF LogGrows, TypeOK
<1>2. \A i \in D : log'[Script'[i].pos] = log[Script[i].pos]
  BY <1>1
<1>3. \A i \in D : ShownVideo(Script, i)' <=> ShownVideo(Script, i)
  BY <1>2 DEF ShownVideo, Shown
<1>4. \A i \in D : Shown(Script', i) <=> Shown(Script, i)
  OBVIOUS
<1>5. ASSUME NEW p \in 1 .. N, NEW q \in 1 .. N + 1
      PROVE  Gap(p, q)' <=> Gap(p, q)
  <2>1. torn' = torn /\ \A m \in p + 1 .. q - 1 : log'[m] = log[m]
    BY <1>1
  <2> QED BY <2>1, Zenon DEF Gap
<1>6. resumed_at # NotYet => resumed_at \in Nat
  BY TypeFacts DEF TypeOK
<1> HIDE DEF N, D
<1>7. ViaKnown' /\ ScriptInOrder'
  BY <1>1, <1>2 DEF ScriptOK, ViaKnown, ScriptInOrder, D, Shown
<1>8. CatchupHasNoHole'
  BY <1>1, <1>2 DEF ScriptOK, CatchupHasNoHole, D, Shown
<1>9. LiveComplete'
  BY DEF ScriptOK, LiveComplete, Shown
<1>10. GapsClosed'
  <2>1. ASSUME NEW i \in D, NEW j \in D, i < j,
               ShownVideo(Script, i)', ShownVideo(Script, j)',
               \A k \in i + 1 .. j - 1 : ~ShownVideo(Script, k)',
               Gap(Script[i].pos, Script[j].pos)'
        PROVE  log'[Script'[j].pos] \in Keyframe \cup VideoHeader
    <3>1. \A k \in i + 1 .. j - 1 : k \in D
      BY <1>1
    <3>2. Gap(Script[i].pos, Script[j].pos)
      <4>1. Script[i].pos \in 1 .. N /\ Script[j].pos \in 1 .. N + 1
        BY <1>1
      <4> QED BY <1>5, <2>1, <4>1 DEF Gap
    <3>3. ShownVideo(Script, i) /\ ShownVideo(Script, j)
          /\ \A k \in i + 1 .. j - 1 : ~ShownVideo(Script, k)
      BY <1>3, <2>1, <3>1
    <3> QED BY <1>2, <2>1, <3>2, <3>3 DEF ScriptOK, GapsClosed, D
  <2> QED BY <2>1 DEF GapsClosed, D
<1>11. OpenGapSkips'
  BY <1>1, <1>2, <1>3, <1>5 DEF ScriptOK, OpenGapSkips, D
<1>12. AudioKept'
  BY <1>1 DEF ScriptOK, AudioKept
<1>13. SilenceKept'
  <2>1. ASSUME resumed_at # NotYet, NEW i \in resumed_at + 1 .. Len(Script),
               Shown(Script, i), log[Script[i].pos] \notin Video
        PROVE  \E j \in resumed_at + 1 .. i - 1 : ShownVideo(Script, j)'
    <3>1. PICK j \in resumed_at + 1 .. i - 1 : ShownVideo(Script, j)
      BY <2>1 DEF ScriptOK, SilenceKept
    <3>2. j \in D
      BY <1>1, <1>6, <2>1
    <3> QED BY <1>3, <3>1, <3>2
  <2>2. \A i \in resumed_at + 1 .. Len(Script) : resumed_at # NotYet => i \in D
    BY <1>1, <1>6
  <2> QED BY <1>2, <1>4, <2>1, <2>2 DEF SilenceKept
<1>14. FrozenSkipsAudio'
  <2>1. \A i \in resumed_at + 1 .. Len(Script) : resumed_at # NotYet => i \in D
    BY <1>1, <1>6
  <2> QED BY <1>3, <2>1 DEF ScriptOK, FrozenSkipsAudio
<1> QED
  BY <1>7, <1>8, <1>9, <1>10, <1>11, <1>12, <1>13, <1>14 DEF ScriptOK

(* A number between p and b that is not from a to b - 1 is below a.        *)
LEMMA Below ==
    ASSUME NEW a \in Nat, NEW b \in Nat, NEW p \in Nat, NEW m \in p + 1 .. b - 1,
           m \notin a .. b - 1
    PROVE  m \in p + 1 .. a - 1
OBVIOUS

(* A lag: the script stays, what it has lost is remembered.                *)
LEMMA ScriptOnLag ==
    ASSUME TypeOK, ScriptOK, MinorLag \/ MajorLag
    PROVE  ScriptOK'
<1>1. /\ Script' = Script /\ phase = "playing" /\ disturbed' /\ lost' = lost \cup next .. next' - 1
      /\ UNCHANGED <<log, joined_at, is_paused, skip_audio_until_keyframe, resumed_at, pauses>>
  BY DEF MinorLag, MajorLag, Lagged, InMainLoop, Script, entryVars
<1>2. \/ torn' = torn \cup next .. next' - 1 /\ subscriber_state' = subscriber_state
      \/ torn' = torn /\ subscriber_state' = "SkippingToKeyframe"
  BY DEF MinorLag, MajorLag
<1>3. next < next' /\ next \in Nat /\ next' \in Nat /\ joined_at \in Nat
  BY LagMovesOn, TypeFacts DEF MinorLag, MajorLag, TypeOK
<1>4. \A i : ShownVideo(Script, i)' <=> ShownVideo(Script, i)
  BY <1>1 DEF ShownVideo, Shown
<1>5. \A i \in DOMAIN Script : Script[i].pos \in Nat
  BY ScriptType, TypeFacts
<1>6. ViaKnown' /\ ScriptInOrder' /\ CatchupHasNoHole' /\ LiveComplete'
  BY <1>1, <1>3
  DEF ScriptOK, ViaKnown, ScriptInOrder, CatchupHasNoHole, LiveComplete, Shown
<1>7. \A p, q : Gap(p, q)' => Gap(p, q)
  BY <1>1, <1>2 DEF Gap
<1>8. GapsClosed'
  BY <1>1, <1>4, <1>7 DEF ScriptOK, GapsClosed
<1>9. OpenGapSkips'
  <2>1. CASE subscriber_state' = "SkippingToKeyframe"
    BY <2>1 DEF OpenGapSkips
  <2>2. CASE torn' = torn \cup next .. next' - 1 /\ subscriber_state' = subscriber_state
    <3>1. ASSUME NEW p \in Nat, Gap(p, next)' PROVE Gap(p, next)
      <4>1. PICK m \in p + 1 .. next' - 1 : log[m] \in Picture /\ m \notin torn'
        BY <1>1, <3>1 DEF Gap
      <4>2. m \notin torn /\ m \notin next .. next' - 1
        BY <2>2, <4>1
      <4>3. m \in p + 1 .. next - 1
        BY <1>3, <4>1, <4>2, Below
      <4> QED BY <4>1, <4>2, <4>3 DEF Gap
    <3> QED BY <1>1, <1>4, <1>5, <2>2, <3>1 DEF ScriptOK, OpenGapSkips
  <2> QED BY <1>2, <2>1, <2>2
<1>10. AudioKept'
  <2>1. ASSUME NEW p \in joined_at + 1 .. next' - 1, p \notin lost'
        PROVE  p \in joined_at + 1 .. next - 1 /\ p \notin lost
    <3>1. p \notin lost /\ p \notin next .. next' - 1
      BY <1>1, <2>1
    <3> QED BY <1>3, <2>1, <3>1, Below
  <2> QED BY <1>1, <2>1 DEF ScriptOK, AudioKept
<1>11. SilenceKept' /\ FrozenSkipsAudio'
  BY <1>1, <1>2, <1>4 DEF ScriptOK, SilenceKept, FrozenSkipsAudio, Shown
<1> QED BY <1>6, <1>8, <1>9, <1>10, <1>11 DEF ScriptOK

(* Play: the script is the catch-up.                                       *)
LEMMA ScriptOnPlay ==
    ASSUME TypeOK, GopHoldsLastPictures, BeforePlay, Play
    PROVE  ScriptOK'
<1> DEFINE N == Len(log)
           H == Len(Headers)
           G == Len(gop.frames)
           C == CatchupFrames
<1>1. /\ out' = << >> /\ todo' = C /\ log' = log /\ joined_at' = N /\ next' = N + 1
      /\ resumed_at' = NotYet
  BY DEF Play, BeforePlay, entryVars
<1>2. N \in Nat /\ H \in Nat /\ G \in Nat
  BY CatchupType, TypeFacts DEF Buffer
<1>3. C \in Seq(Pending(N)) /\ DOMAIN C = 1 .. H + G
  BY CatchupType
<1>4. Script' = C
  BY <1>1, <1>3, ConcatEmptySeq DEF Script
<1>5. \A i \in 1 .. H : C[i].via = "header"
  BY CatchupType
<1>6. ASSUME NEW i \in DOMAIN C
      PROVE  \/ i \in 1 .. H /\ C[i].via = "header"
             \/ i - H \in 1 .. G /\ C[i] = Sent(gop.frames[i - H].pos, "gop")
  <2>1. i \in 1 .. H \/ (i - H \in 1 .. G /\ H + (i - H) = i)
    BY <1>2, <1>3
  <2> QED BY <1>5, <2>1, CatchupType
<1>7. /\ DOMAIN gop.frames = 1 .. G
      /\ \A i \in 1 .. G : gop.frames[i].pos \in 1 .. N
  <2>1. gop.frames \in Seq(Tag(N))
    BY TypeFacts DEF Buffer
  <2>2. \A i \in 1 .. G : gop.frames[i] \in Tag(N)
    BY <2>1, ElementOfSeq
  <2> QED BY <2>1, <2>2 DEF Tag
<1>8. ASSUME NEW i \in DOMAIN C, C[i].via # "header"
      PROVE  /\ i - H \in 1 .. G /\ C[i].via = "gop" /\ C[i].pos = gop.frames[i - H].pos
             /\ C[i].pos \in 1 .. N /\ log[C[i].pos] \in Picture
  BY <1>6, <1>7, <1>8 DEF Sent, GopHoldsLastPictures
<1>9. ASSUME NEW j \in 1 .. G
      PROVE  H + j \in DOMAIN C /\ C[H + j].via = "gop" /\ C[H + j].pos = gop.frames[j].pos
  <2>1. C[H + j] = Sent(gop.frames[j].pos, "gop")
    BY CatchupType
  <2>2. H + j \in DOMAIN C
    BY <1>2, <1>3
  <2> QED BY <2>1, <2>2 DEF Sent
<1> HIDE DEF N, H, G, C
<1>10. ASSUME NEW i \in DOMAIN C, NEW j \in DOMAIN C, i < j,
              C[i].via # "header", C[j].via # "header"
       PROVE  C[i].pos < C[j].pos
  <2>1. i - H < j - H /\ i - H \in DOMAIN gop.frames /\ j - H \in DOMAIN gop.frames
    BY <1>2, <1>3, <1>7, <1>8, <1>10
  <2>2. gop.frames[i - H].pos < gop.frames[j - H].pos
    BY <2>1 DEF GopHoldsLastPictures
  <2> QED BY <1>8, <1>10, <2>2
<1>11. ASSUME NEW i \in DOMAIN C, C[i].via # "header", NEW p \in C[i].pos .. N, log[p] \in Picture
       PROVE  \E j \in DOMAIN C : C[j].via # "header" /\ C[j].pos = p
  <2>1. i - H \in DOMAIN gop.frames /\ p \in gop.frames[i - H].pos .. Len(log)
    BY <1>7, <1>8, <1>11 DEF N
  <2>2. PICK j \in DOMAIN gop.frames : gop.frames[j].pos = p
    BY <1>11, <2>1 DEF GopHoldsLastPictures
  <2> QED BY <1>7, <1>9, <2>2
<1>12. ViaKnown' /\ ScriptInOrder' /\ CatchupHasNoHole'
  <2>1. ViaKnown'
    BY <1>1, <1>2, <1>4, <1>8 DEF ViaKnown
  <2>2. ScriptInOrder'
    BY <1>4, <1>10 DEF ScriptInOrder, Shown
  <2>3. CatchupHasNoHole'
    BY <1>1, <1>4, <1>11 DEF CatchupHasNoHole, Shown
  <2> QED BY <2>1, <2>2, <2>3
<1>13. LiveComplete' /\ AudioKept'
  BY <1>1, <1>2 DEF LiveComplete, AudioKept
(* No picture is missing after a frame of the catch-up.                    *)
<1>14. ASSUME NEW i \in DOMAIN C, C[i].via # "header", NEW q \in 1 .. N + 1,
              Gap(C[i].pos, q)
       PROVE  \E k \in DOMAIN C : /\ i < k /\ C[k].via # "header" /\ C[k].pos < q
                                  /\ log[C[k].pos] \in Video
  <2>1. PICK m \in C[i].pos + 1 .. q - 1 : log[m] \in Picture
    BY <1>14 DEF Gap
  <2>2. m \in C[i].pos .. N /\ C[i].pos < m /\ m < q
    BY <1>2, <1>8, <1>14, <2>1
  <2>3. PICK k \in DOMAIN C : C[k].via # "header" /\ C[k].pos = m
    BY <1>11, <1>14, <2>1, <2>2
  <2>4. i < k
    <3>1. i \in Int /\ k \in Int
      BY <1>2, <1>3
    <3>2. ~(k < i)
      BY <1>2, <1>8, <1>10, <1>14, <2>2, <2>3
    <3> QED BY <1>2, <1>8, <1>14, <2>2, <2>3, <3>1, <3>2
  <2> QED BY <2>1, <2>2, <2>3, <2>4 DEF Video
<1>15. GapsClosed'
  <2>1. ASSUME NEW i \in DOMAIN C, NEW j \in DOMAIN C, i < j,
               C[i].via # "header", C[j].via # "header",
               \A k \in i + 1 .. j - 1 : ~(C[k].via # "header" /\ log[C[k].pos] \in Video),
               Gap(C[i].pos, C[j].pos)
        PROVE  FALSE
    <3>1. PICK k \in DOMAIN C : /\ i < k /\ C[k].via # "header" /\ C[k].pos < C[j].pos
                                /\ log[C[k].pos] \in Video
      BY <1>2, <1>8, <1>14, <2>1
    <3>2. k < j
      <4>1. i \in Int /\ k \in Int /\ j \in Int
        BY <1>2, <1>3
      <4>2. C[k].pos \in Int /\ C[j].pos \in Int
        BY <1>2, <1>8, <2>1, <3>1
      <4>3. ~(j < k)
        BY <1>10, <2>1, <3>1, <4>2
      <4> QED BY <3>1, <4>1, <4>2, <4>3
    <3>3. k \in i + 1 .. j - 1
      BY <1>2, <1>3, <3>1, <3>2
    <3> QED BY <2>1, <3>1, <3>3
  <2>2. \A p, q : Gap(p, q)' <=> Gap(p, q)
    BY <1>1 DEF Gap, Play
  <2> QED BY <1>1, <1>4, <2>1, <2>2 DEF GapsClosed, ShownVideo, Shown
<1>16. OpenGapSkips'
  <2>1. ASSUME NEW i \in DOMAIN C, C[i].via # "header", Gap(C[i].pos, N + 1)
        PROVE  \E k \in DOMAIN C : i < k /\ C[k].via # "header" /\ log[C[k].pos] \in Video
    BY <1>2, <1>14, <2>1
  <2>2. \A p, q : Gap(p, q)' <=> Gap(p, q)
    BY <1>1 DEF Gap, Play
  <2> QED BY <1>1, <1>4, <2>1, <2>2 DEF OpenGapSkips, ShownVideo, Shown
<1>17. SilenceKept' /\ FrozenSkipsAudio'
  BY <1>1 DEF SilenceKept, FrozenSkipsAudio
<1> QED BY <1>12, <1>13, <1>15, <1>16, <1>17 DEF ScriptOK

(* Unpause, and the select! that drops it: what is added to the script or  *)
(* taken from it are headers.                                              *)
LEMMA ScriptOnHeaders ==
    ASSUME TypeOK, ScriptOK, NEW t \in Seq(Pending(Len(log))),
           \A i \in DOMAIN t : t[i].via = "header",
           \A i \in DOMAIN todo : todo[i].via = "header",
           out' = out, todo' = t, pauses' > 0,
           UNCHANGED <<log, next, joined_at, lost, torn, phase, disturbed, pauses>>
    PROVE  /\ ViaKnown' /\ ScriptInOrder' /\ CatchupHasNoHole' /\ LiveComplete'
           /\ GapsClosed' /\ AudioKept'
           /\ DOMAIN Script' = 1 .. Len(Script') /\ Len(Script') \in Nat
           /\ DOMAIN out \subseteq DOMAIN Script'
           /\ \A i \in DOMAIN out : Script'[i] = Script[i]
           /\ \A i \in DOMAIN Script' : Script'[i].via # "header" => i \in DOMAIN out
           /\ \A i \in DOMAIN Script : Script[i].via # "header" => i \in DOMAIN out
<1> DEFINE D == DOMAIN out
           s == out \o t
<1>1. /\ out \in Seq(Sending(Len(log))) /\ todo \in Seq(Sending(Len(log)))
      /\ t \in Seq(Sending(Len(log))) /\ Script' = s
  <2>1. Len(log) \in Nat /\ Len(log) <= Len(log)
    BY TypeFacts
  <2>2. Seq(Pending(Len(log))) \subseteq Seq(Sending(Len(log)))
    BY <2>1, Longer
  <2>3. Script' = s
    BY DEF Script
  <2> QED BY <2>2, <2>3, TypeFacts
<1>2. /\ DOMAIN s = 1 .. Len(s) /\ Len(s) \in Nat /\ D \subseteq DOMAIN s
      /\ D = 1 .. Len(out) /\ Len(out) \in Nat
      /\ \A i \in D : s[i] = out[i]
      /\ \A i \in DOMAIN s : i \notin D => s[i].via = "header"
  <2>1. /\ s \in Seq(Sending(Len(log))) /\ Len(s) = Len(out) + Len(t)
        /\ \A i \in 1 .. Len(out) + Len(t) : s[i] = IF i <= Len(out) THEN out[i] ELSE t[i - Len(out)]
    BY <1>1, ConcatProperties
  <2>2. D = 1 .. Len(out) /\ Len(out) \in Nat /\ DOMAIN t = 1 .. Len(t) /\ Len(t) \in Nat
    BY <1>1
  <2> HIDE DEF s, D
  <2>3. ASSUME NEW i \in 1 .. Len(out) + Len(t), ~(i <= Len(out))
        PROVE  i - Len(out) \in DOMAIN t
    BY <2>2, <2>3
  <2>4. DOMAIN s = 1 .. Len(s) /\ Len(s) \in Nat /\ D \subseteq DOMAIN s
    BY <2>1, <2>2
  <2>5. \A i \in D : s[i] = out[i]
    BY <2>1, <2>2
  <2>6. \A i \in DOMAIN s : i \notin D => s[i].via = "header"
    BY <2>1, <2>2, <2>3, <2>4
  <2> QED BY <2>2, <2>4, <2>5, <2>6
<1>3. /\ D \subseteq DOMAIN Script /\ \A i \in D : Script[i] = out[i]
      /\ \A i \in DOMAIN Script : i \notin D => Script[i].via = "header"
  <2>1. ASSUME NEW i \in DOMAIN Script, i \notin D
        PROVE  Script[i].via = "header"
    <3>1. /\ Len(Script) = Len(out) + Len(todo) /\ DOMAIN Script = 1 .. Len(Script)
          /\ Len(todo) \in Nat /\ DOMAIN todo = 1 .. Len(todo)
          /\ \A j \in 1 .. Len(todo) : Script[Len(out) + j] = todo[j]
      BY <1>1, TypeFacts, ScriptType
    <3>2. i - Len(out) \in 1 .. Len(todo) /\ Len(out) + (i - Len(out)) = i
      BY <1>2, <2>1, <3>1
    <3> QED BY <3>1, <3>2
  <2> QED BY <2>1, ScriptType
<1> HIDE DEF D, s
<1>4. \A i \in D : s[i] = Script[i] /\ i \in DOMAIN Script /\ i \in DOMAIN s
  BY <1>2, <1>3
<1>5. \A i \in DOMAIN s : i \notin D => s[i].via = "header"
  BY <1>2
<1>6. /\ \A i \in DOMAIN s : ShownVideo(s, i) => i \in D
      /\ \A i \in DOMAIN Script : ShownVideo(Script, i) => i \in D
      /\ \A i \in D : ShownVideo(s, i) <=> ShownVideo(Script, i)
  BY <1>2, <1>3 DEF ShownVideo, Shown
<1>7. ViaKnown'
  BY <1>1, <1>4, <1>5 DEF ScriptOK, ViaKnown
<1>8. ScriptInOrder'
  BY <1>1, <1>4, <1>5 DEF ScriptOK, ScriptInOrder, Shown
<1>9. CatchupHasNoHole'
  <2>1. ASSUME NEW i \in DOMAIN s, s[i].via # "header",
               NEW p \in s[i].pos .. joined_at, log[p] \in Picture
        PROVE  \E j \in DOMAIN s : s[j].via # "header" /\ s[j].pos = p
    <3>1. i \in D /\ p \in Script[i].pos .. joined_at /\ Script[i].via # "header"
      BY <1>4, <1>5, <2>1
    <3>2. PICK j \in DOMAIN Script : Script[j].via # "header" /\ Script[j].pos = p
      BY <1>4, <2>1, <3>1 DEF ScriptOK, CatchupHasNoHole, Shown
    <3> QED BY <1>3, <1>4, <3>2
  <2> QED BY <1>1, <2>1 DEF CatchupHasNoHole, Shown
<1>10. LiveComplete'
  <2>1. \A p : (\E j \in DOMAIN Script : Shown(Script, j) /\ Script[j].pos = p)
             => (\E j \in DOMAIN s : Shown(s, j) /\ s[j].pos = p)
    BY <1>3, <1>4 DEF Shown
  <2> QED BY <1>1, <2>1 DEF ScriptOK, LiveComplete, Shown
<1>11. GapsClosed'
  <2>1. ASSUME NEW i \in DOMAIN s, NEW j \in DOMAIN s, i < j, ShownVideo(s, i), ShownVideo(s, j),
               \A k \in i + 1 .. j - 1 : ~ShownVideo(s, k), Gap(s[i].pos, s[j].pos)
        PROVE  log[s[j].pos] \in Keyframe \cup VideoHeader
    <3>1. i \in D /\ j \in D
      BY <1>6, <2>1
    <3>2. \A k \in i + 1 .. j - 1 : k \in D
      BY <1>2, <3>1
    <3>3. \A k \in i + 1 .. j - 1 : ~ShownVideo(Script, k)
      BY <1>6, <2>1, <3>2
    <3> QED BY <1>4, <1>6, <2>1, <3>1, <3>3 DEF ScriptOK, GapsClosed
  <2>2. \A p, q : Gap(p, q)' <=> Gap(p, q)
    BY DEF Gap
  <2>3. \A i : ShownVideo(Script, i)' <=> ShownVideo(s, i)
    BY <1>1 DEF ShownVideo, Shown
  <2> QED BY <1>1, <2>1, <2>2, <2>3 DEF GapsClosed
<1>12. AudioKept'
  <2>1. pauses' # 0
    BY DEF TypeOK
  <2> QED BY <2>1 DEF AudioKept
<1> QED BY <1>1, <1>2, <1>3, <1>4, <1>5, <1>7, <1>8, <1>9, <1>10, <1>11, <1>12 DEF D

(* An unpause: the script goes on with the headers only.                   *)
LEMMA ScriptOnUnpause ==
    ASSUME TypeOK, HandlerKnown, DisturbanceKnown, ScriptOK, Unpause
    PROVE  ScriptOK'
<1>1. todo = << >> /\ is_paused
  BY DEF Unpause, InMainLoop, HandlerKnown
<1>2. pauses \in Nat /\ pauses > 0
  BY <1>1 DEF DisturbanceKnown, TypeOK
<1>3. /\ out' = out /\ todo' = Headers /\ pauses' > 0
      /\ UNCHANGED <<log, next, joined_at, lost, torn, phase, disturbed, pauses>>
  BY <1>2 DEF Unpause, entryVars
<1>4. /\ ViaKnown' /\ ScriptInOrder' /\ CatchupHasNoHole' /\ LiveComplete'
      /\ GapsClosed' /\ AudioKept'
      /\ DOMAIN Script' = 1 .. Len(Script') /\ Len(Script') \in Nat
      /\ \A i \in DOMAIN Script' : Script'[i].via # "header" => i \in DOMAIN out
  <2>1. Headers \in Seq(Pending(Len(log))) /\ \A i \in DOMAIN Headers : Headers[i].via = "header"
    BY CatchupType
  <2>2. \A i \in DOMAIN todo : todo[i].via = "header"
    BY <1>1
  <2> QED BY <1>3, <2>1, <2>2, ScriptOnHeaders
<1>5. OpenGapSkips' /\ FrozenSkipsAudio'
  BY DEF Unpause, OpenGapSkips, FrozenSkipsAudio
<1>6. SilenceKept'
  <2>1. resumed_at' = Len(out) /\ DOMAIN out = 1 .. Len(out) /\ Len(out) \in Nat
    BY TypeFacts, ScriptType DEF Unpause
  <2>2. ASSUME NEW i \in resumed_at' + 1 .. Len(Script')
        PROVE  Script'[i].via = "header"
    BY <1>4, <2>1
  <2> QED BY <2>2 DEF SilenceKept, Shown
<1> QED BY <1>4, <1>5, <1>6 DEF ScriptOK

(* An unpause that is dropped: the script loses headers only.              *)
LEMMA ScriptOnDrop ==
    ASSUME TypeOK, HandlerKnown, ScriptOK, HandlerDropped
    PROVE  ScriptOK'
<1>1. /\ handler = "unpause" /\ out' = out /\ todo' = << >>
      /\ UNCHANGED <<log, next, joined_at, lost, torn, phase, disturbed, pauses, resumed_at,
                     subscriber_state, is_paused, skip_audio_until_keyframe>>
  BY DEF HandlerDropped, entryVars, historyVars
<1>2. \A i \in DOMAIN todo : todo[i].via = "header"
  BY <1>1 DEF HandlerKnown
<1>3. pauses' > 0
  BY <1>1 DEF HandlerKnown
<1>4. /\ ViaKnown' /\ ScriptInOrder' /\ CatchupHasNoHole' /\ LiveComplete'
      /\ GapsClosed' /\ AudioKept'
      /\ DOMAIN Script' = 1 .. Len(Script') /\ Len(Script') \in Nat
      /\ DOMAIN out \subseteq DOMAIN Script'
      /\ \A i \in DOMAIN out : Script'[i] = Script[i]
      /\ \A i \in DOMAIN Script' : Script'[i].via # "header" => i \in DOMAIN out
      /\ \A i \in DOMAIN Script : Script[i].via # "header" => i \in DOMAIN out
  <2>1. << >> \in Seq(Pending(Len(log))) /\ \A i \in DOMAIN << >> : << >>[i].via = "header"
    OBVIOUS
  <2> QED BY <1>1, <1>2, <1>3, <2>1, ScriptOnHeaders
<1>5. DOMAIN Script = 1 .. Len(Script) /\ Len(Script) \in Nat /\ DOMAIN out \subseteq DOMAIN Script
      /\ DOMAIN out = 1 .. Len(out) /\ Len(out) \in Nat
  BY ScriptType, TypeFacts
<1>6. /\ \A i \in DOMAIN Script' : ShownVideo(Script, i)' => i \in DOMAIN out
      /\ \A i \in DOMAIN Script : ShownVideo(Script, i) => i \in DOMAIN out
      /\ \A i \in DOMAIN out : ShownVideo(Script, i)' <=> ShownVideo(Script, i)
  BY <1>1, <1>4 DEF ShownVideo, Shown
<1>7. \A p, q : Gap(p, q)' <=> Gap(p, q)
  BY <1>1 DEF Gap
<1>8. OpenGapSkips'
  BY <1>1, <1>4, <1>5, <1>6, <1>7 DEF ScriptOK, OpenGapSkips
<1>9. resumed_at # NotYet => resumed_at \in 0 .. Len(out)
  BY DEF TypeOK
<1>10. SilenceKept'
  <2>1. ASSUME resumed_at # NotYet, NEW i \in resumed_at + 1 .. Len(Script'),
               Script'[i].via # "header", log[Script'[i].pos] \notin Video
        PROVE  \E j \in resumed_at + 1 .. i - 1 : ShownVideo(Script, j)'
    <3>1. i \in DOMAIN out
      BY <1>4, <1>9, <2>1
    <3>2. i \in resumed_at + 1 .. Len(Script) /\ Script[i] = Script'[i]
      BY <1>4, <1>5, <1>9, <2>1, <3>1
    <3>3. PICK j \in resumed_at + 1 .. i - 1 : ShownVideo(Script, j)
      BY <2>1, <3>2 DEF ScriptOK, SilenceKept, Shown
    <3>4. j \in DOMAIN out
      BY <1>5, <1>9, <2>1, <3>1
    <3> QED BY <1>6, <3>3, <3>4
  <2> QED BY <1>1, <2>1 DEF SilenceKept, Shown
<1>11. FrozenSkipsAudio'
  <2>1. ASSUME resumed_at # NotYet, NEW i \in resumed_at + 1 .. Len(Script), ShownVideo(Script, i)
        PROVE  i \in resumed_at + 1 .. Len(Script') /\ ShownVideo(Script, i)'
    <3>1. i \in DOMAIN out
      BY <1>5, <1>6, <1>9, <2>1
    <3> QED BY <1>4, <1>5, <1>6, <1>9, <2>1, <3>1
  <2> QED BY <1>1, <2>1 DEF ScriptOK, FrozenSkipsAudio
<1> QED BY <1>4, <1>8, <1>10, <1>11 DEF ScriptOK

(* A frame from the channel: it is sent, or paused and skip mode drop it.  *)
LEMMA ScriptOnRecv ==
    ASSUME TypeOK, HandlerKnown, DisturbanceKnown, ScriptOK, RecvFrame
    PROVE  ScriptOK'
<1> DEFINE N == Len(log)
           L == Len(Script)
           kind == log[next]
           frame == Sent(next, "live")
<1>1. /\ Script = out /\ Script' = out' /\ phase = "playing"
      /\ UNCHANGED <<log, joined_at, lost, torn, phase, disturbed, pauses, resumed_at, is_paused>>
  <2>1. todo = << >> /\ UNCHANGED <<todo, log>>
    BY DEF RecvFrame, InMainLoop, HandlerKnown, entryVars
  <2>2. Script = out
    BY <2>1, ScriptType
  <2>3. out' \o << >> = out'
    <3>1. out' \in Seq(Sending(Len(log')))
      BY SequencesStep DEF Next, Recv
    <3> QED BY <3>1, ConcatEmptySeq
  <2> QED BY <2>1, <2>2, <2>3 DEF RecvFrame, InMainLoop, Script, historyVars
<1>2. /\ joined_at \in Nat /\ next \in Nat /\ next \in 1 .. N /\ N \in Nat
      /\ joined_at < next /\ next' = next + 1
  BY TypeFacts, <1>1 DEF RecvFrame, Waiting, TypeOK, HandlerKnown
<1>3. /\ L \in Nat /\ DOMAIN Script = 1 .. L
      /\ \A i \in DOMAIN Script : Script[i].pos \in 1 .. N
  BY ScriptType
<1>4. /\ is_paused \in BOOLEAN /\ skip_audio_until_keyframe \in BOOLEAN
      /\ resumed_at # NotYet => resumed_at \in 0 .. L
  BY <1>1 DEF TypeOK
<1>5. /\ out' = IF is_paused \/ Skipped(kind) THEN out ELSE Append(out, frame)
      /\ IF ~is_paused /\ Resumes(kind) /\ subscriber_state = "SkippingToKeyframe"
         THEN subscriber_state' = "Normal" /\ skip_audio_until_keyframe' = FALSE
         ELSE UNCHANGED <<subscriber_state, skip_audio_until_keyframe>>
  BY DEF RecvFrame, SendBroadcastFrame
<1>6. /\ Resumes(kind) <=> kind \in Keyframe \cup VideoHeader
      /\ Resumes(kind) => kind \in Video
      /\ kind \in Picture => kind \in Video
  BY DEF Resumes, Keyframe, Picture, Video
<1>7. \A p, q : Gap(p, q)' <=> Gap(p, q)
  BY <1>1 DEF Gap
<1>8. ASSUME NEW p \in Nat, Gap(p, next + 1)
      PROVE  Gap(p, next) \/ kind \in Picture
  <2>1. PICK m \in p + 1 .. (next + 1) - 1 : log[m] \in Picture /\ m \notin torn
    BY <1>8, Zenon DEF Gap
  <2>2. m = next \/ m \in p + 1 .. next - 1
    BY <1>2
  <2> QED BY <2>1, <2>2 DEF Gap
<1> HIDE DEF N, L, kind, frame
<1>9. ASSUME is_paused \/ Skipped(kind)
      PROVE  ScriptOK'
  <2>1. /\ Script' = Script
        /\ UNCHANGED <<subscriber_state, skip_audio_until_keyframe>>
    BY <1>1, <1>5, <1>6, <1>9 DEF Skipped
  <2>2. \A i : ShownVideo(Script, i)' <=> ShownVideo(Script, i)
    BY <1>1, <2>1 DEF ShownVideo, Shown
  <2>3. ViaKnown' /\ ScriptInOrder' /\ CatchupHasNoHole'
    BY <1>1, <1>2, <2>1 DEF ScriptOK, ViaKnown, ScriptInOrder, CatchupHasNoHole, Shown
  <2>4. LiveComplete'
    BY <1>1, <1>9 DEF LiveComplete, DisturbanceKnown, Skipped
  <2>5. GapsClosed'
    BY <1>1, <1>7, <2>1, <2>2 DEF ScriptOK, GapsClosed
  <2>6. OpenGapSkips'
    <3>1. ASSUME NEW i \in DOMAIN Script, ShownVideo(Script, i),
                 \A k \in DOMAIN Script : i < k => ~ShownVideo(Script, k),
                 Gap(Script[i].pos, next + 1)
          PROVE  subscriber_state = "SkippingToKeyframe" \/ is_paused
      <4>1. Gap(Script[i].pos, next) \/ kind \in Picture
        BY <1>2, <1>3, <1>8, <3>1
      <4>2. CASE Gap(Script[i].pos, next)
        BY <1>1, <3>1, <4>2 DEF ScriptOK, OpenGapSkips
      <4>3. CASE kind \in Picture
        BY <1>9 DEF Skipped
      <4> QED BY <4>1, <4>2, <4>3
    <3> QED BY <1>1, <1>2, <1>7, <2>1, <2>2, <3>1 DEF OpenGapSkips
  <2>7. AudioKept'
    <3>1. ASSUME pauses = 0, NEW p \in joined_at + 1 .. next, log[p] \notin Video
          PROVE  p \in joined_at + 1 .. next - 1
      <4>1. p # next
        BY <1>6, <1>9, <3>1 DEF DisturbanceKnown, Skipped, kind
      <4> QED BY <1>2, <4>1
    <3> QED BY <1>1, <1>2, <2>1, <3>1 DEF ScriptOK, AudioKept
  <2>8. SilenceKept' /\ FrozenSkipsAudio'
    BY <1>1, <2>1, <2>2 DEF ScriptOK, SilenceKept, FrozenSkipsAudio, Shown
  <2> QED BY <2>3, <2>4, <2>5, <2>6, <2>7, <2>8 DEF ScriptOK
<1>10. ASSUME ~is_paused, ~Skipped(kind)
       PROVE  ScriptOK'
  <2>1. Script' = Append(Script, frame)
    BY <1>1, <1>5, <1>10
  <2>2. /\ DOMAIN Script' = 1 .. L + 1 /\ Len(Script') = L + 1 /\ Script'[L + 1] = frame
        /\ \A i \in 1 .. L : Script'[i] = Script[i]
        /\ frame.pos = next /\ frame.via = "live"
    <3>1. Script \in Seq(Sending(N)) /\ frame \in Sending(N)
      BY <1>2, TypeFacts DEF frame, Sent, Sending, N
    <3>2. frame.pos = next /\ frame.via = "live"
      BY DEF frame, Sent
    <3> QED BY <1>3, <2>1, <3>1, <3>2, AppendProperties DEF L
  <2> DEFINE t == Script'
  <2>3. ASSUME NEW i \in 1 .. L + 1
        PROVE  i \in 1 .. L \/ i = L + 1
    BY <1>3
  <2>4. ShownVideo(t, L + 1) <=> kind \in Video
    BY <2>2 DEF ShownVideo, Shown, kind
  <2>5. \A i \in 1 .. L : ShownVideo(t, i) <=> ShownVideo(Script, i)
    BY <2>2 DEF ShownVideo, Shown
  <2>6. \A i : ShownVideo(Script, i)' <=> ShownVideo(t, i)
    BY <1>1 DEF ShownVideo, Shown
  <2>7. 1 .. L \subseteq 1 .. L + 1 /\ L + 1 \in 1 .. L + 1 /\ \A i \in 1 .. L : i < L + 1
    BY <1>3
  <2> HIDE DEF t
  <2>8. \A i \in 1 .. L : Script[i].via # "header" => Script[i].pos < next
    <3>1. ASSUME NEW i \in 1 .. L, Script[i].via # "header" PROVE Script[i].pos < next
      <4>1. Script[i].via \in {"gop", "live"} /\ Script[i].pos \in Nat
        BY <1>2, <1>3, <3>1, TypeFacts DEF L
      <4> QED BY <1>2, <1>3, <3>1, <4>1 DEF ScriptOK, ViaKnown
    <3> QED BY <3>1
  <2>9. ViaKnown'
    <3>1. ASSUME NEW i \in 1 .. L + 1
          PROVE  /\ t[i].via = "gop" => t[i].pos <= joined_at /\ log[t[i].pos] \in Picture
                 /\ t[i].via = "live" => t[i].pos \in joined_at + 1 .. next
      <4>1. CASE i = L + 1
        BY <1>2, <2>2, <4>1 DEF t
      <4>2. CASE i \in 1 .. L
        BY <1>2, <1>3, <2>2, <4>2 DEF ScriptOK, ViaKnown, t
      <4> QED BY <2>3, <4>1, <4>2
    <3> QED BY <1>1, <1>2, <2>2, <3>1 DEF ViaKnown, t
  <2>10. ScriptInOrder'
    <3>1. ASSUME NEW i \in 1 .. L + 1, NEW j \in 1 .. L + 1, i < j,
                 t[i].via # "header", t[j].via # "header"
          PROVE  t[i].pos < t[j].pos
      <4>1. i \in 1 .. L
        BY <1>3, <3>1
      <4>2. CASE j = L + 1
        BY <2>2, <2>8, <3>1, <4>1, <4>2 DEF t
      <4>3. CASE j \in 1 .. L
        BY <1>3, <2>2, <3>1, <4>1, <4>3 DEF ScriptOK, ScriptInOrder, Shown, t
      <4> QED BY <2>3, <4>2, <4>3
    <3> QED BY <2>2, <3>1 DEF ScriptInOrder, Shown, t
  <2>11. CatchupHasNoHole'
    <3>1. ASSUME NEW i \in 1 .. L + 1, t[i].via # "header",
                 NEW p \in t[i].pos .. joined_at, log[p] \in Picture
          PROVE  \E j \in 1 .. L + 1 : t[j].via # "header" /\ t[j].pos = p
      <4>1. i # L + 1
        BY <1>2, <2>2, <3>1 DEF t
      <4>2. i \in 1 .. L /\ Script[i] = t[i]
        BY <2>2, <2>3, <4>1 DEF t
      <4>3. PICK j \in 1 .. L : Script[j].via # "header" /\ Script[j].pos = p
        BY <1>3, <3>1, <4>2 DEF ScriptOK, CatchupHasNoHole, Shown
      <4> QED BY <2>2, <2>7, <4>3 DEF t
    <3> QED BY <1>1, <2>2, <3>1 DEF CatchupHasNoHole, Shown, t
  <2>12. LiveComplete'
    <3>1. ASSUME ~disturbed, NEW p \in joined_at + 1 .. next
          PROVE  \E j \in 1 .. L + 1 : t[j].via # "header" /\ t[j].pos = p
      <4>1. CASE p = next
        BY <2>2, <2>7, <4>1 DEF t
      <4>2. CASE p # next
        <5>1. p \in joined_at + 1 .. next - 1
          BY <1>2, <4>2
        <5>2. PICK j \in 1 .. L : Script[j].via # "header" /\ Script[j].pos = p
          BY <1>1, <1>3, <3>1, <5>1 DEF ScriptOK, LiveComplete, Shown
        <5> QED BY <2>2, <2>7, <5>2 DEF t
      <4> QED BY <4>1, <4>2
    <3> QED BY <1>1, <1>2, <2>2, <3>1 DEF LiveComplete, Shown, t
  <2>13. GapsClosed'
    <3>1. ASSUME NEW i \in 1 .. L + 1, NEW j \in 1 .. L + 1, i < j,
                 ShownVideo(t, i), ShownVideo(t, j),
                 \A k \in i + 1 .. j - 1 : ~ShownVideo(t, k), Gap(t[i].pos, t[j].pos)
          PROVE  log[t[j].pos] \in Keyframe \cup VideoHeader
      <4>1. i \in 1 .. L /\ t[i] = Script[i] /\ ShownVideo(Script, i)
        <5>1. i \in 1 .. L
          BY <1>3, <3>1
        <5> QED BY <2>2, <2>5, <3>1, <5>1 DEF t
      <4>2. CASE j = L + 1
        <5>1. \A k \in DOMAIN Script : i < k => k \in i + 1 .. j - 1 /\ k \in 1 .. L
          BY <1>3, <4>1, <4>2
        <5>2. \A k \in DOMAIN Script : i < k => ~ShownVideo(Script, k)
          BY <2>5, <3>1, <5>1
        <5>3. Gap(Script[i].pos, next) /\ kind \in Video
          BY <2>2, <2>4, <3>1, <4>1, <4>2 DEF t
        <5>4. subscriber_state = "SkippingToKeyframe"
          BY <1>1, <1>3, <1>10, <4>1, <5>2, <5>3 DEF ScriptOK, OpenGapSkips
        <5>5. Resumes(kind)
          BY <1>10, <5>3, <5>4 DEF Skipped
        <5> QED BY <1>6, <2>2, <4>2, <5>5 DEF kind, t
      <4>3. CASE j \in 1 .. L
        <5>1. \A k \in i + 1 .. j - 1 : k \in 1 .. L
          BY <1>3, <4>1, <4>3
        <5>2. \A k \in i + 1 .. j - 1 : ~ShownVideo(Script, k)
          BY <2>5, <3>1, <5>1
        <5>3. t[j] = Script[j] /\ ShownVideo(Script, j)
          BY <2>2, <2>5, <3>1, <4>3 DEF t
        <5> QED BY <1>3, <3>1, <4>1, <4>3, <5>2, <5>3 DEF ScriptOK, GapsClosed
      <4> QED BY <2>3, <4>2, <4>3
    <3> QED BY <1>1, <1>7, <2>2, <2>6, <3>1 DEF GapsClosed, t
  <2>14. OpenGapSkips'
    <3>1. ASSUME NEW i \in 1 .. L + 1, ShownVideo(t, i),
                 \A k \in 1 .. L + 1 : i < k => ~ShownVideo(t, k),
                 Gap(t[i].pos, next + 1)
          PROVE  subscriber_state' = "SkippingToKeyframe"
      <4>1. i # L + 1
        <5>1. ~Gap(next, next + 1)
          BY <1>2 DEF Gap
        <5> QED BY <2>2, <3>1, <5>1 DEF t
      <4>2. i \in 1 .. L /\ t[i] = Script[i] /\ ShownVideo(Script, i)
        BY <2>2, <2>3, <2>5, <3>1, <4>1 DEF t
      <4>3. kind \notin Video
        BY <2>4, <2>7, <3>1, <4>2
      <4>4. Gap(Script[i].pos, next)
        BY <1>2, <1>3, <1>6, <1>8, <3>1, <4>2, <4>3
      <4>5. \A k \in 1 .. L : i < k => ~ShownVideo(Script, k)
        BY <2>5, <2>7, <3>1
      <4>6. subscriber_state = "SkippingToKeyframe"
        BY <1>1, <1>3, <1>10, <4>2, <4>4, <4>5 DEF ScriptOK, OpenGapSkips
      <4> QED BY <1>5, <1>6, <4>3, <4>6
    <3> QED BY <1>1, <1>2, <1>7, <2>2, <2>6, <3>1 DEF OpenGapSkips, t
  <2>15. AudioKept'
    <3>1. ASSUME pauses = 0, NEW p \in joined_at + 1 .. next, log[p] \notin Video, p \notin lost
          PROVE  \E i \in 1 .. L + 1 : t[i].pos = p
      <4>1. CASE p = next
        BY <2>2, <2>7, <4>1 DEF t
      <4>2. CASE p # next
        <5>1. p \in joined_at + 1 .. next - 1
          BY <1>2, <4>2
        <5>2. PICK i \in 1 .. L : Script[i].pos = p
          BY <1>1, <1>3, <3>1, <5>1 DEF ScriptOK, AudioKept
        <5> QED BY <2>2, <2>7, <5>2 DEF t
      <4> QED BY <4>1, <4>2
    <3> QED BY <1>1, <1>2, <2>2, <3>1 DEF AudioKept, t
  <2>16. SilenceKept'
    <3>1. ASSUME resumed_at # NotYet, NEW i \in resumed_at + 1 .. L + 1,
                 t[i].via # "header", log[t[i].pos] \notin Video
          PROVE  \E j \in resumed_at + 1 .. i - 1 : ShownVideo(t, j)
      <4>1. CASE i = L + 1
        <5>1. kind \notin Video
          BY <2>2, <3>1, <4>1 DEF kind, t
        <5>2. ~(subscriber_state = "SkippingToKeyframe" /\ skip_audio_until_keyframe)
          BY <1>10, <5>1 DEF Skipped
        <5>3. PICK j \in resumed_at + 1 .. L : ShownVideo(Script, j)
          BY <3>1, <5>2 DEF ScriptOK, FrozenSkipsAudio, L
        <5>4. j \in 1 .. L /\ j \in resumed_at + 1 .. i - 1
          BY <1>3, <1>4, <3>1, <4>1
        <5> QED BY <2>5, <5>3, <5>4
      <4>2. CASE i # L + 1
        <5>1. i \in 1 .. L /\ i \in resumed_at + 1 .. L
          BY <1>3, <1>4, <3>1, <4>2
        <5>2. t[i] = Script[i]
          BY <2>2, <5>1 DEF t
        <5>3. PICK j \in resumed_at + 1 .. i - 1 : ShownVideo(Script, j)
          BY <3>1, <5>1, <5>2 DEF ScriptOK, SilenceKept, Shown, L
        <5>4. j \in 1 .. L
          BY <1>3, <1>4, <3>1, <5>1
        <5> QED BY <2>5, <5>3, <5>4
      <4> QED BY <4>1, <4>2
    <3> QED BY <1>1, <2>2, <2>6, <3>1 DEF SilenceKept, Shown, t
  <2>17. FrozenSkipsAudio'
    <3>1. ASSUME resumed_at # NotYet, \A i \in resumed_at + 1 .. L + 1 : ~ShownVideo(t, i)
          PROVE  subscriber_state' = "SkippingToKeyframe" /\ skip_audio_until_keyframe'
      <4>1. /\ L + 1 \in resumed_at + 1 .. L + 1
            /\ \A i \in resumed_at + 1 .. L : i \in resumed_at + 1 .. L + 1 /\ i \in 1 .. L
        BY <1>3, <1>4, <3>1
      <4>2. kind \notin Video
        BY <2>4, <3>1, <4>1
      <4>3. subscriber_state = "SkippingToKeyframe" /\ skip_audio_until_keyframe
        BY <2>5, <3>1, <4>1 DEF ScriptOK, FrozenSkipsAudio, L
      <4> QED BY <1>5, <1>6, <4>2, <4>3
    <3> QED BY <1>1, <2>2, <2>6, <3>1 DEF FrozenSkipsAudio, t
  <2> QED
    BY <2>9, <2>10, <2>11, <2>12, <2>13, <2>14, <2>15, <2>16, <2>17 DEF ScriptOK
<1> QED BY <1>9, <1>10

(* What moves from the head of one sequence to the end of another leaves   *)
(* the two together what they were.                                        *)
LEMMA HeadMoves ==
    ASSUME NEW S, NEW a \in Seq(S), NEW b \in Seq(S), b # << >>
    PROVE  Append(a, Head(b)) \o Tail(b) = a \o b
<1> DEFINE one == <<Head(b)>>
<1>1. Head(b) \in S /\ Tail(b) \in Seq(S) /\ one \in Seq(S)
  BY HeadTailProperties
<1>2. Append(a, Head(b)) = a \o one
  BY <1>1, AppendIsConcat
<1>3. one \o Tail(b) = b
  <2>1. 1 \in 1 .. Len(b) /\ Len(b) \in 1 .. Len(b)
    OBVIOUS
  <2>2. SubSeq(b, 1, Len(b)) = <<b[1]>> \o SubSeq(b, 1 + 1, Len(b))
    BY <2>1, SubSeqRecursiveFirst
  <2>3. SubSeq(b, 1, Len(b)) = b /\ Tail(b) = SubSeq(b, 2, Len(b))
    BY SubSeqFull, TailIsSubSeq
  <2> QED BY <2>2, <2>3
<1>4. (a \o one) \o Tail(b) = a \o (one \o Tail(b))
  <2> HIDE DEF one
  <2> QED BY <1>1, ConcatAssociative
<1> QED BY <1>2, <1>3, <1>4, Zenon

(* A send moves the next frame to those sent; the script is the same.      *)
LEMMA SendKeepsScript ==
    ASSUME TypeOK, SendNext
    PROVE  Script' = Script
<1>1. /\ out \in Seq(Sending(Len(log))) /\ todo \in Seq(Sending(Len(log)))
      /\ todo # << >> /\ out' = Append(out, Head(todo)) /\ todo' = Tail(todo)
  BY TypeFacts DEF SendNext
<1>2. Append(out, Head(todo)) \o Tail(todo) = out \o todo
  BY <1>1, HeadMoves
<1>3. out' \o todo' = out \o todo
  BY <1>1, <1>2, Zenon
<1> QED BY <1>3, Zenon DEF Script

(* Every step keeps the script right.                                      *)
LEMMA ScriptStep ==
    ASSUME IInv, [Next]_vars
    PROVE  ScriptOK'
<1>1. /\ TypeOK /\ GopHoldsLastPictures /\ BeforePlay /\ HandlerKnown /\ DisturbanceKnown /\ ScriptOK
      /\ pauses \in Nat
  BY DEF IInv, TypeOK
<1>2. LogGrows
  BY <1>1, StepsOfLog
<1>3. CASE UNCHANGED vars
  BY <1>1, <1>2, <1>3, ScriptStays DEF vars, connVars, historyVars, Script
<1>4. CASE Stream
  <2>1. UNCHANGED <<connVars, out, historyVars>>
    BY <1>4 DEF Stream, Broadcast, Close
  <2> QED BY <1>1, <1>2, <2>1, ScriptStays DEF connVars, historyVars, Script
<1>5. CASE Play
  BY <1>1, <1>5, ScriptOnPlay
<1>6. CASE Pause
  BY <1>1, <1>2, <1>6, ScriptStays DEF Pause, Script
<1>7. CASE Unpause
  BY <1>1, <1>7, ScriptOnUnpause
<1>8. CASE SendNext
  BY <1>1, <1>2, <1>8, ScriptStays, SendKeepsScript DEF SendNext, historyVars
<1>9. CASE HandlerReturns
  BY <1>1, <1>2, <1>9, ScriptStays DEF HandlerReturns, historyVars, Script
<1>10. CASE HandlerDropped
  BY <1>1, <1>10, ScriptOnDrop
<1>11. CASE RecvFrame
  BY <1>1, <1>11, ScriptOnRecv
<1>12. CASE MinorLag \/ MajorLag
  BY <1>1, <1>12, ScriptOnLag
<1>13. CASE StreamEnded
  BY <1>1, <1>2, <1>13, ScriptStays DEF StreamEnded, historyVars, Script
<1>14. CASE Leave
  BY <1>1, <1>2, <1>14, ScriptStays DEF Leave, historyVars, Script
<1> QED
  BY <1>3, <1>4, <1>5, <1>6, <1>7, <1>8, <1>9, <1>10, <1>11, <1>12, <1>13, <1>14
  DEF Next, Handler, Recv

----------------------------------------------------------------------------
(* The invariant and what it implies.                                      *)

(* The invariant holds initially.                                          *)
LEMMA InvInit == Init => IInv
<1> SUFFICES ASSUME Init PROVE IInv
  OBVIOUS
<1>1. TypeOK
  BY TypeInit
<1>2. /\ gop.frames = << >> /\ gop.current_size = 0 /\ out = << >> /\ todo = << >>
      /\ DOMAIN << >> = {}
  BY DEF Init, EmptyGop
<1>3. Script = << >>
  BY <1>2 DEF Script
<1>4. GopHoldsLastPictures
  BY <1>2, TotalEmpty DEF GopHoldsLastPictures
<1>5. BeforePlay /\ HandlerKnown /\ DisturbanceKnown
  BY DEF Init, BeforePlay, HandlerKnown, DisturbanceKnown
<1>6. ScriptOK
  BY <1>2, <1>3 DEF Init, ScriptOK, ViaKnown, ScriptInOrder, CatchupHasNoHole, LiveComplete,
     GapsClosed, OpenGapSkips, AudioKept, SilenceKept, FrozenSkipsAudio
<1> QED BY <1>1, <1>4, <1>5, <1>6 DEF IInv

(* Every step keeps the invariant.                                         *)
LEMMA InvStep == IInv /\ [Next]_vars => IInv'
<1> SUFFICES ASSUME IInv, [Next]_vars PROVE IInv'
  OBVIOUS
<1>1. TypeOK /\ GopHoldsLastPictures /\ BeforePlay /\ HandlerKnown /\ DisturbanceKnown
  BY DEF IInv
<1> QED
  BY <1>1, TypeStep, GopStep, BeforePlayStep, HandlerStep, DisturbanceStep, ScriptStep DEF IInv

(* The invariant holds in every reachable state.                           *)
LEMMA Invariance == Spec => []IInv
BY InvInit, InvStep, PTL DEF Spec

(* A subscriber's state keeps its types, and the buffer its limit.         *)
THEOREM SubscriberTypeCorrect == Spec => []TypeOK
<1>1. IInv => TypeOK
  BY DEF IInv
<1> QED BY <1>1, Invariance, PTL

(* Catch-up and live frames form one stream, in the order of the broadcast *)
(* and no frame twice (play and send_broadcast_frame, connection.rs).      *)
THEOREM StreamInOrder == Spec => []DeliveredInOrder
<1>1. IInv => DeliveredInOrder
  BY ScriptType DEF IInv, ScriptOK, ScriptInOrder, Shown, DeliveredInOrder, InStream
<1> QED BY <1>1, Invariance, PTL

(* A subscriber that neither lags nor pauses gets every live frame since   *)
(* its play and every picture from the first of its catch-up on: nothing   *)
(* falls between the two, although the channel is joined before the caches *)
(* are read (subscribe in store.rs, handle_play in connection.rs).         *)
THEOREM UndisturbedIsComplete == Spec => []CompleteWhenUndisturbed
<1>1. IInv => CompleteWhenUndisturbed
  <2> SUFFICES ASSUME IInv, phase = "playing", handler # "play", ~disturbed
               PROVE  LET delivered == {out[i].pos : i \in {i \in DOMAIN out : InStream(i)}}
                          pictures  == {p \in 1 .. joined_at : log[p] \in Picture}
                          wanted    == {p \in pictures : \E q \in delivered : q <= p}
                                       \cup (joined_at + 1 .. next - 1)
                      IN  wanted \subseteq delivered
    BY DEF CompleteWhenUndisturbed
  <2>1. Script = out
    BY ScriptType DEF IInv, HandlerKnown, TypeOK
  <2>2. \A i \in DOMAIN out : InStream(i) <=> Shown(Script, i)
    BY <2>1 DEF InStream, Shown
  <2> DEFINE delivered == {out[i].pos : i \in {i \in DOMAIN out : InStream(i)}}
  <2>3. ASSUME NEW p \in 1 .. joined_at, log[p] \in Picture, NEW q \in delivered, q <= p
        PROVE  p \in delivered
    <3>1. PICK i \in DOMAIN out : InStream(i) /\ out[i].pos = q
      BY <2>3
    <3>2. p \in out[i].pos .. joined_at
      BY <2>1, <2>3, <3>1, ScriptType, TypeFacts DEF IInv
    <3>3. PICK j \in DOMAIN out : InStream(j) /\ out[j].pos = p
      BY <2>1, <2>2, <2>3, <3>1, <3>2 DEF IInv, ScriptOK, CatchupHasNoHole
    <3> QED BY <3>3
  <2>4. ASSUME NEW p \in joined_at + 1 .. next - 1
        PROVE  p \in delivered
    <3>1. PICK j \in DOMAIN out : InStream(j) /\ out[j].pos = p
      BY <2>1, <2>2, <2>4 DEF IInv, ScriptOK, LiveComplete
    <3> QED BY <3>1
  <2> QED BY <2>3, <2>4
<1> QED BY <1>1, Invariance, PTL

(* Where pictures are missing between two video frames sent one after the  *)
(* other, the second is a keyframe or a sequence header, which ends skip   *)
(* mode too, or a lag below the threshold took the pictures: so much of    *)
(* "skipping to keyframe" the code keeps (handle_lag and                   *)
(* send_broadcast_frame in connection.rs).                                 *)
THEOREM SkipEndsAtKeyframeOrHeader == Spec => []GapsEndAtKeyframeOrHeader
<1>1. IInv => GapsEndAtKeyframeOrHeader
  <2> SUFFICES ASSUME IInv, NEW i \in DOMAIN out, NEW j \in DOMAIN out, i < j,
                      VideoSent(i), VideoSent(j), \A k \in i + 1 .. j - 1 : ~VideoSent(k),
                      Gap(out[i].pos, out[j].pos)
               PROVE  Stamp(j) \in Keyframe \cup VideoHeader
    BY DEF GapsEndAtKeyframeOrHeader, Gap
  <2>1. /\ DOMAIN out = 1 .. Len(out) /\ DOMAIN out \subseteq DOMAIN Script
        /\ \A k \in DOMAIN out : out[k] = Script[k]
        /\ Len(out) \in Nat
    BY ScriptType, TypeFacts DEF IInv
  <2>2. \A k \in DOMAIN out : VideoSent(k) <=> ShownVideo(Script, k)
    BY <2>1 DEF VideoSent, InStream, Stamp, ShownVideo, Shown
  <2>3. \A k \in i + 1 .. j - 1 : k \in DOMAIN out
    BY <2>1
  <2>4. \A k \in i + 1 .. j - 1 : ~ShownVideo(Script, k)
    BY <2>2, <2>3
  <2> QED BY <2>1, <2>2, <2>4 DEF IInv, ScriptOK, GapsClosed, Stamp
<1> QED BY <1>1, Invariance, PTL

(* Without a pause, audio is missing only where the ring lost it: skip     *)
(* mode drops video alone (send_broadcast_frame in connection.rs).         *)
THEOREM SkipModeKeepsAudio == Spec => []AudioSurvivesSkip
<1>1. IInv => AudioSurvivesSkip
  <2> SUFFICES ASSUME IInv, InMainLoop, pauses = 0
               PROVE  AudioMissing \subseteq lost
    BY DEF AudioSurvivesSkip
  <2>1. Script = out
    BY ScriptType DEF IInv, HandlerKnown, InMainLoop
  <2> QED BY <2>1 DEF IInv, ScriptOK, AudioKept, AudioMissing, InMainLoop
<1> QED BY <1>1, Invariance, PTL

(* After an unpause no live audio is sent before live video is: there is   *)
(* no sound while the picture is frozen (handle_pause and                  *)
(* send_broadcast_frame in connection.rs).                                 *)
THEOREM FrozenIsSilent == Spec => []SilentWhileFrozen
<1>1. IInv => SilentWhileFrozen
  <2> SUFFICES ASSUME IInv, resumed_at # NotYet, NEW i \in resumed_at + 1 .. Len(out),
                      InStream(i), Stamp(i) \notin Video
               PROVE  \E j \in resumed_at + 1 .. i - 1 : InStream(j) /\ Stamp(j) \in Video
    BY DEF SilentWhileFrozen
  <2>1. /\ DOMAIN out = 1 .. Len(out) /\ DOMAIN out \subseteq DOMAIN Script
        /\ \A k \in DOMAIN out : out[k] = Script[k]
        /\ DOMAIN Script = 1 .. Len(Script) /\ Len(Script) \in Nat
        /\ Len(out) \in Nat /\ resumed_at \in 0 .. Len(out)
    BY ScriptType, TypeFacts DEF IInv, TypeOK
  <2>2. i \in DOMAIN out /\ i \in resumed_at + 1 .. Len(Script)
    BY <2>1
  <2>3. PICK j \in resumed_at + 1 .. i - 1 : ShownVideo(Script, j)
    BY <2>1, <2>2 DEF IInv, ScriptOK, SilenceKept, Shown, InStream, Stamp
  <2>4. j \in DOMAIN out
    BY <2>1, <2>2
  <2> QED BY <2>1, <2>3, <2>4 DEF ShownVideo, Shown, InStream, Stamp
<1> QED BY <1>1, Invariance, PTL
=============================================================================
