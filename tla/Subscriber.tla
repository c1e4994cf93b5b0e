----------------------------- MODULE Subscriber -----------------------------
(***************************************************************************)
(* What one subscriber is sent of one stream: the entry of the stream with *)
(* its caches and its broadcast channel (src/registry/entry.rs), and the   *)
(* playing side of one connection (src/server/connection.rs): catch-up,    *)
(* live frames, lag, pause and unpause, the end of the stream.             *)
(*                                                                         *)
(* A frame is its position in the log of everything broadcast; its kind is *)
(* all that caches and connection look at.  The model follows one entry    *)
(* for its life and one play: MediaServer.tla has the publishers that come *)
(* and go and the second play.                                             *)
(*                                                                         *)
(* play and unpause send frame by frame, and each send is an await, so     *)
(* what they still have to send is state (todo).  The main loop polls the  *)
(* channel before the socket and drops the handler of a command that       *)
(* awaits when the channel is ready.  That cannot happen to play, which    *)
(* runs before the loop has a receiver.  A connection reads several        *)
(* messages in one turn, so frames may be waiting when a command starts.   *)
(***************************************************************************)
EXTENDS GopCache

CONSTANTS
    Kinds,          \* the kinds of frames the publisher sends
    Capacity,       \* broadcast_capacity, a power of two
    LagThreshold,   \* lag_threshold_low
    MaxLagEvents,   \* max_consecutive_lag_events
    MaxFrames,      \* bound: frames broadcast
    MaxPauses       \* bound: pauses

VideoHeader == {"video_header"}
AudioHeader == {"audio_header"}
Header == VideoHeader \cup AudioHeader
Picture == {"key", "enhanced_key", "generated_key", "delta"}
Video == VideoHeader \cup Picture

(* BroadcastFrame.is_keyframe, from the bytes handle_video looks at.       *)
Keyframe == {"key", "enhanced_key"}
(* FlvTag::is_keyframe reads four bits of frame type: it takes generated   *)
(* keyframes for keyframes, and enhanced ones, whose top bit is set, not.  *)
TagKeyframe == {"key", "generated_key"}

ASSUME SubscriberAssumption ==
    /\ Kinds \subseteq Video \cup {"audio_header", "audio"}
    /\ Capacity \in Nat \ {0}
    /\ LagThreshold \in Nat
    /\ MaxLagEvents \in Nat
    /\ MaxFrames \in Nat
    /\ MaxPauses \in Nat

VARIABLES
    \* The entry of the stream.
    log,            \* the kinds of the frames broadcast so far
    video_header,   \* position of the cached header, 0 for None
    audio_header,   \* likewise
    gop,            \* gop_buffer
    closed,         \* the entry is removed and with it the sender
    \* The connection of the subscriber.
    phase,          \* "idle", "playing", "ended"
    handler,        \* the command that awaits: "none", "play", "unpause"
    todo,           \* what it has still to send
    next,           \* position the receiver reads next
    subscriber_state,
    consecutive_lag_count,
    is_paused,
    skip_audio_until_keyframe,
    \* History, read by the properties only:
    out,            \* what was sent to the client, and why
    joined_at,      \* length of the log at play
    disturbed,      \* the subscriber has lagged or paused
    lost,           \* frames lost in lags
    torn,           \* those lost in lags below the threshold
    resumed_at,     \* length of out at the last unpause
    pauses          \* number of pauses

entryVars == <<log, video_header, audio_header, gop, closed>>
connVars == <<phase, handler, todo, next, subscriber_state, consecutive_lag_count,
              is_paused, skip_audio_until_keyframe>>
historyVars == <<joined_at, disturbed, lost, torn, resumed_at, pauses>>
vars == <<entryVars, connVars, out, historyVars>>

NotYet == -1

Init ==
    /\ log = << >> /\ video_header = 0 /\ audio_header = 0
    /\ gop = EmptyGop /\ closed = FALSE
    /\ phase = "idle" /\ handler = "none" /\ todo = << >> /\ next = 1
    /\ subscriber_state = "Normal" /\ consecutive_lag_count = 0
    /\ is_paused = FALSE /\ skip_audio_until_keyframe = FALSE
    /\ out = << >> /\ joined_at = 0 /\ disturbed = FALSE /\ lost = {} /\ torn = {}
    /\ resumed_at = NotYet /\ pauses = 0

----------------------------------------------------------------------------
(* The stream.                                                             *)

(* broadcast: update_caches and send, under the write lock of the entry.   *)
Broadcast(kind) ==
    /\ ~closed
    /\ Len(log) < MaxFrames
    /\ log' = Append(log, kind)
    /\ video_header' = IF kind \in VideoHeader THEN Len(log') ELSE video_header
    /\ audio_header' = IF kind \in AudioHeader THEN Len(log') ELSE audio_header
    /\ gop' = IF kind \in Picture
              THEN Push(gop, [keyframe |-> kind \in TagKeyframe, size |-> 1, pos |-> Len(log')])
              ELSE gop
    /\ UNCHANGED <<closed, connVars, out, historyVars>>

(* The publisher has left and cleanup removes the entry.                   *)
Close ==
    /\ ~closed
    /\ closed' = TRUE
    /\ UNCHANGED <<log, video_header, audio_header, gop, connVars, out, historyVars>>

Sent(pos, via) == [pos |-> pos, via |-> via]

(* A slip: headers the stream does not have are sent.                      *)
HeadersUnchecked == <<Sent(video_header, "header"), Sent(audio_header, "header")>>

(* The frame of a header that the entry may or may not hold.               *)
Cached(header) == IF header = 0 THEN << >> ELSE <<Sent(header, "header")>>

(* get_sequence_headers; the key has no entry once the stream is closed.   *)
Headers == IF closed THEN << >> ELSE Cached(video_header) \o Cached(audio_header)

CatchupFrames ==
    Headers \o [i \in DOMAIN gop.frames |-> Sent(gop.frames[i].pos, "gop")]

----------------------------------------------------------------------------
(* The commands of the subscriber.                                         *)

(* A slip: the receiver starts one frame early.                            *)
PlayOneEarly ==
    /\ phase = "idle" /\ ~closed
    /\ phase' = "playing"
    /\ next' = IF log = << >> THEN 1 ELSE Len(log)
    /\ todo' = CatchupFrames
    /\ handler' = "play"
    /\ joined_at' = Len(log)
    /\ UNCHANGED <<entryVars, subscriber_state, consecutive_lag_count, is_paused,
                   skip_audio_until_keyframe, out, disturbed, lost, torn,
                   resumed_at, pauses>>

(* play: receiver and catch-up frames are taken under one lock.            *)
Play ==
    /\ phase = "idle" /\ ~closed
    /\ phase' = "playing"
    /\ next' = Len(log) + 1
    /\ todo' = CatchupFrames
    /\ handler' = "play"
    /\ joined_at' = Len(log)
    /\ UNCHANGED <<entryVars, subscriber_state, consecutive_lag_count, is_paused,
                   skip_audio_until_keyframe, out, disturbed, lost, torn,
                   resumed_at, pauses>>

InMainLoop == phase = "playing" /\ handler = "none"

Pause ==
    /\ InMainLoop /\ ~is_paused
    /\ pauses < MaxPauses
    /\ pauses' = pauses + 1
    /\ is_paused' = TRUE
    /\ disturbed' = TRUE
    /\ UNCHANGED <<entryVars, phase, handler, todo, next, subscriber_state,
                   consecutive_lag_count, skip_audio_until_keyframe, out,
                   joined_at, lost, torn, resumed_at>>

(* A slip: unpause leaves the audio on.                                    *)
UnpauseWithSound ==
    /\ InMainLoop /\ is_paused
    /\ is_paused' = FALSE
    /\ subscriber_state' = "SkippingToKeyframe"
    /\ handler' = "unpause"
    /\ todo' = Headers
    /\ resumed_at' = Len(out)
    /\ UNCHANGED <<entryVars, phase, next, consecutive_lag_count, out,
                   skip_audio_until_keyframe, joined_at, disturbed, lost, torn, pauses>>

Unpause ==
    /\ InMainLoop /\ is_paused
    /\ is_paused' = FALSE
    /\ subscriber_state' = "SkippingToKeyframe"
    /\ skip_audio_until_keyframe' = TRUE
    /\ handler' = "unpause"
    /\ todo' = Headers
    /\ resumed_at' = Len(out)
    /\ UNCHANGED <<entryVars, phase, next, consecutive_lag_count, out,
                   joined_at, disturbed, lost, torn, pauses>>

(* One send of a handler, and its return.                                  *)
SendNext ==
    /\ phase = "playing" /\ todo # << >>
    /\ out' = Append(out, Head(todo))
    /\ todo' = Tail(todo)
    /\ UNCHANGED <<entryVars, phase, handler, next, subscriber_state,
                   consecutive_lag_count, is_paused, skip_audio_until_keyframe, historyVars>>

(* A slip: the receiver is created when the catch-up has been sent.        *)
HandlerReturnsThenJoins ==
    /\ phase = "playing" /\ handler # "none" /\ todo = << >>
    /\ handler' = "none"
    /\ next' = IF handler = "play" THEN Len(log) + 1 ELSE next
    /\ UNCHANGED <<entryVars, phase, todo, subscriber_state,
                   consecutive_lag_count, is_paused, skip_audio_until_keyframe, out,
                   historyVars>>

HandlerReturns ==
    /\ phase = "playing" /\ handler # "none" /\ todo = << >>
    /\ handler' = "none"
    /\ UNCHANGED <<entryVars, phase, todo, next, subscriber_state,
                   consecutive_lag_count, is_paused, skip_audio_until_keyframe, out,
                   historyVars>>

Waiting == next <= Len(log)

(* The select! drops the handler for a frame or for the end of the stream. *)
HandlerDropped ==
    /\ phase = "playing" /\ handler = "unpause"
    /\ Waiting \/ closed
    /\ handler' = "none"
    /\ todo' = << >>
    /\ UNCHANGED <<entryVars, phase, next, subscriber_state, consecutive_lag_count,
                   is_paused, skip_audio_until_keyframe, out, historyVars>>

----------------------------------------------------------------------------
(* The broadcast channel: a ring of Capacity frames.                       *)
Overwritten == Len(log) + 1 - Capacity - next

(* send_broadcast_frame: paused, nothing is sent.  In skip mode a keyframe *)
(* or a video header ends the mode; other video is dropped, and audio too  *)
(* after an unpause.                                                       *)
Resumes(kind) == kind \in Keyframe \cup VideoHeader

(* A slip: skip mode drops audio too.                                      *)
SkippedWithSound(kind) == subscriber_state = "SkippingToKeyframe" /\ ~Resumes(kind)

Skipped(kind) ==
    /\ subscriber_state = "SkippingToKeyframe"
    /\ \/ kind \in Video /\ ~Resumes(kind)
       \/ kind \notin Video /\ skip_audio_until_keyframe

SendBroadcastFrame(pos) ==
    LET kind == log[pos] IN
    /\ out' = IF is_paused \/ Skipped(kind) THEN out ELSE Append(out, Sent(pos, "live"))
    /\ IF ~is_paused /\ Resumes(kind) /\ subscriber_state = "SkippingToKeyframe"
       THEN subscriber_state' = "Normal" /\ skip_audio_until_keyframe' = FALSE
       ELSE UNCHANGED <<subscriber_state, skip_audio_until_keyframe>>

RecvFrame ==
    /\ InMainLoop
    /\ Waiting /\ Overwritten <= 0
    /\ next' = next + 1
    /\ consecutive_lag_count' = 0
    /\ SendBroadcastFrame(next)
    /\ UNCHANGED <<entryVars, phase, handler, todo, is_paused, historyVars>>

(* recv returns Lagged: the receiver moves to the oldest frame there is.   *)
Lagged ==
    /\ InMainLoop
    /\ Overwritten > 0
    /\ next' = next + Overwritten
    /\ consecutive_lag_count' = consecutive_lag_count + 1
    /\ disturbed' = TRUE
    /\ lost' = lost \cup next .. next' - 1

(* handle_lag below the threshold: the frames are gone, nothing else.      *)
MinorLag ==
    /\ Lagged
    /\ Overwritten < LagThreshold
    /\ torn' = torn \cup next .. next' - 1
    /\ UNCHANGED <<entryVars, phase, handler, todo, subscriber_state, is_paused,
                   skip_audio_until_keyframe, out, joined_at, resumed_at, pauses>>

(* A slip: a lag is never more than a minor one.                           *)
MajorLagIgnored ==
    /\ Lagged
    /\ Overwritten >= LagThreshold
    /\ UNCHANGED <<entryVars, phase, handler, todo, subscriber_state, is_paused,
                   skip_audio_until_keyframe, out, joined_at, torn, resumed_at, pauses>>

(* handle_lag from the threshold on: skip mode, and the end of the         *)
(* connection when lags follow each other without a frame between them.    *)
MajorLag ==
    /\ Lagged
    /\ Overwritten >= LagThreshold
    /\ subscriber_state' = "SkippingToKeyframe"
    /\ phase' = IF consecutive_lag_count' >= MaxLagEvents THEN "ended" ELSE phase
    /\ UNCHANGED <<entryVars, handler, todo, is_paused, skip_audio_until_keyframe,
                   out, joined_at, torn, resumed_at, pauses>>

(* A slip: a paused subscriber is not told.                                *)
StreamEndedUnlessPaused ==
    /\ InMainLoop /\ ~is_paused
    /\ closed /\ ~Waiting
    /\ phase' = "ended"
    /\ UNCHANGED <<entryVars, handler, todo, next, subscriber_state, is_paused,
                   consecutive_lag_count, skip_audio_until_keyframe, out, historyVars>>

(* recv returns Closed, after the last frame: handle_stream_ended.         *)
StreamEnded ==
    /\ InMainLoop
    /\ closed /\ ~Waiting
    /\ phase' = "ended"
    /\ is_paused' = FALSE
    /\ UNCHANGED <<entryVars, handler, todo, next, subscriber_state,
                   consecutive_lag_count, skip_audio_until_keyframe, out, historyVars>>

(* The client leaves, or a send to it fails.                               *)
Leave ==
    /\ phase = "playing"
    /\ phase' = "ended"
    /\ UNCHANGED <<entryVars, handler, todo, next, subscriber_state,
                   consecutive_lag_count, is_paused, skip_audio_until_keyframe,
                   out, historyVars>>

Stream == Close \/ \E kind \in Kinds : Broadcast(kind)
Handler == SendNext \/ HandlerReturns \/ HandlerDropped
Recv == RecvFrame \/ MinorLag \/ MajorLag \/ StreamEnded

Next == Stream \/ Play \/ Pause \/ Unpause \/ Handler \/ Recv \/ Leave

(* The task of the connection runs when its channel is ready, and writes   *)
(* to the client's socket return.  A play that was read with the handshake *)
(* is followed by a wait for the socket, which the idle timeout ends.      *)
Turn == Handler \/ (handler = "play" /\ Leave)

Spec == Init /\ [][Next]_vars /\ WF_vars(Turn) /\ WF_vars(Recv)

----------------------------------------------------------------------------
(* Types.                                                                  *)
TypeOK ==
    /\ log \in Seq(Kinds) /\ Len(log) <= MaxFrames
    /\ video_header \in 0 .. Len(log) /\ audio_header \in 0 .. Len(log)
    /\ gop \in [frames : Seq([keyframe : BOOLEAN, size : {1}, pos : 1 .. Len(log)]),
               current_size : 0 .. MaxGopSize, has_complete_gop : BOOLEAN]
    /\ phase \in {"idle", "playing", "ended"}
    /\ handler \in {"none", "play", "unpause"}
    /\ todo \in Seq([pos : 1 .. Len(log), via : {"header", "gop"}])
    /\ out \in Seq([pos : 1 .. Len(log), via : {"header", "gop", "live"}])
    /\ next \in 1 .. Len(log) + 1
    /\ subscriber_state \in {"Normal", "SkippingToKeyframe"}
    /\ consecutive_lag_count \in 0 .. MaxFrames
    /\ {is_paused, skip_audio_until_keyframe, closed, disturbed} \subseteq BOOLEAN
    /\ joined_at \in 0 .. Len(log)
    /\ resumed_at \in {NotYet} \cup 0 .. Len(out)
    /\ pauses \in 0 .. MaxPauses

Stamp(i) == log[out[i].pos]
InStream(i) == out[i].via # "header"

(* The GOP frames of the catch-up and the live frames form one stream: in  *)
(* the order of the broadcast and no frame twice, whatever is broadcast    *)
(* while the catch-up is being sent, and through lags, pauses and skips.   *)
DeliveredInOrder ==
    \A i, j \in DOMAIN out :
        i < j /\ InStream(i) /\ InStream(j) => out[i].pos < out[j].pos

(* A subscriber that neither lagged nor paused has every frame broadcast   *)
(* since its play, and every picture from the first one of its catch-up:   *)
(* nothing falls between the catch-up and the live frames.                 *)
CompleteWhenUndisturbed ==
    LET delivered == {out[i].pos : i \in {i \in DOMAIN out : InStream(i)}}
        pictures  == {p \in 1 .. joined_at : log[p] \in Picture}
        wanted    == {p \in pictures : \E q \in delivered : q <= p}
                     \cup (joined_at + 1 .. next - 1)
    IN  phase = "playing" /\ handler # "play" /\ ~disturbed => wanted \subseteq delivered

(* Pictures between p and q in the broadcast that no lag below the         *)
(* threshold took: handle_lag lets those go without more ado.              *)
Gap(p, q) == \E m \in p + 1 .. q - 1 : log[m] \in Picture /\ m \notin torn

(* Video goes on after a gap with a keyframe or with a sequence header,    *)
(* which ends skip mode as well (send_broadcast_frame, connection.rs:1831) *)
(* and after which inter frames may come whose references were skipped: a  *)
(* decoder is safe after a gap only if headers come with keyframes.  A lag *)
(* below the threshold is no gap here.                                     *)
VideoSent(i) == InStream(i) /\ Stamp(i) \in Video

GapsEndAtKeyframeOrHeader ==
    \A i, j \in DOMAIN out :
        /\ i < j /\ VideoSent(i) /\ VideoSent(j)
        /\ \A k \in i + 1 .. j - 1 : ~VideoSent(k)
        /\ Gap(out[i].pos, out[j].pos)
        => Stamp(j) \in Keyframe \cup VideoHeader

(* What the code says of skip mode, "Skipping frames until next keyframe   *)
(* (due to lag)" (connection.rs:106): the first picture sent after a gap   *)
(* is a keyframe.                                                          *)
PictureSent(i) == InStream(i) /\ Stamp(i) \in Picture

SkipsToKeyframe ==
    \A i, j \in DOMAIN out :
        /\ i < j /\ PictureSent(i) /\ PictureSent(j)
        /\ \A k \in i + 1 .. j - 1 : ~PictureSent(k)
        /\ Gap(out[i].pos, out[j].pos)
        => Stamp(j) \in Keyframe

(* Without a pause, audio is lost only in the channel itself: skip mode    *)
(* drops video and keeps every audio frame the receiver still gets.        *)
AudioMissing ==
    {p \in joined_at + 1 .. next - 1 :
        log[p] \notin Video /\ \A i \in DOMAIN out : out[i].pos # p}

AudioSurvivesSkip == InMainLoop /\ pauses = 0 => AudioMissing \subseteq lost

(* After an unpause no live audio is sent before live video is: there is   *)
(* no sound while the picture is frozen (connection.rs 178-179).           *)
SilentWhileFrozen ==
    resumed_at # NotYet =>
        \A i \in resumed_at + 1 .. Len(out) :
            InStream(i) /\ Stamp(i) \notin Video =>
                \E j \in resumed_at + 1 .. i - 1 : InStream(j) /\ Stamp(j) \in Video

(* A playing subscriber of a stream that is gone is told so: it gets the   *)
(* frames that remain and its connection ends.                             *)
EndReachesSubscriber == closed /\ phase = "playing" ~> phase = "ended"
=============================================================================
