# TLA+ models of rtmp-rs

rtmp-rs is an RTMP server and client in Rust. This directory holds TLA+ models of it: the server's registry,
which matches publishers and players, the connections that use it, the path of the media from a publisher to
a player, the messages and values both sides exchange, the client, and the handshake and chunks below the messages.
TLC checks them on small instances, TLAPS proves the main safety properties for all of them.
References to code are `file:line` under `src/src/` unless said otherwise.

## Inventory

| Part | State | Operations | Interacts with |
| --- | --- | --- | --- |
| Stream registry (`registry/store.rs`, `entry.rs`) | map from stream key to entry: publisher, subscriber counter, life cycle state, time the publisher left, broadcast sender, cached headers and GOP | register, unregister, subscribe, unsubscribe, broadcast, get_sequence_headers, cleanup | called by every connection task; a cleanup task of its own; relays frames through a tokio broadcast channel per entry |
| Connection (`server/connection.rs`) | key it publishes to, key it subscribed to, receiver, lag, pause and skip flags, message streams (`session/`), codec state | run (handshake, main loop, cleanup), one handler per command and media message | registry calls; callbacks of the application; its socket |
| GOP buffer (`media/gop.rs`) | frames since the last keyframe, their total size | push, clear | one in every entry (and one in every message stream, which nothing reads) |
| Media parsers (`media/flv.rs`, `h264.rs`, `aac.rs`, `enhanced_video.rs`, `enhanced_audio.rs`, `fourcc.rs`) | none; the length size of NAL units is kept by the connection and by the puller | classify, parse | connection (callbacks, caches), GOP buffer, puller |
| AMF (`amf/`) | the encoder's and the decoder's reference tables, nesting depth | encode, decode, finish, reset | messages |
| Messages (`protocol/message.rs`, `enhanced.rs`) | none | encode, from_chunk, capabilities and their intersection | between chunks and handlers, on both sides |
| Chunk codec (`protocol/chunk.rs`) | per chunk stream: header of the last message, partial payload; chunk size | encode, decode, abort, set size | between messages and the socket, in server and client |
| Handshake (`protocol/handshake.rs`) | phase, version, packets | generate, process | start of every connection, both roles |
| Client (`client/`) | connector: socket, codec, capabilities, transaction ids, stream id; puller and publisher: event channel, length size | connect, createStream, play, publish, send, read, disconnect | a server |
| Listener (`server/listener.rs`) | session id counter, semaphore | accept loop, spawn | starts the connection tasks |
| Encoder quirks (`protocol/quirks.rs`) | - | - | no caller |

The hard behaviours are those of many tasks on one registry. Publishers disconnect and come back while the cleanup
task runs; subscribers outlive entries; the main loop's `select!` drops command handlers when a frame arrives; a slow
subscriber is overrun by the broadcast ring; any client may send any command in any order, a second `publish` and a
second `play` included. What makes the parts correct:

* registry: one publisher per key, whatever happens; the fields of an entry agree; a counter that counts; every
  entry without publisher is reclaimed or removed; media never crosses from one entry to another;
* connection: whoever sends media holds the key; what a connection took it gives back; nobody waits on a stream that
  is gone;
* fan-out: each frame at most once and in order, no gap between catch-up and live frames, decodable video after a
  loss, audio kept in skip mode, no sound on a frozen picture;
* media: a payload means what its layout says, one that breaks off loses its tail and nothing else, keyframes are found
  with the length size that is in force; the GOP buffer is bounded, accounted for and without holes;
* messages: what is read is what was written, by this code or another; what breaks off invents nothing;
* client and server: both go by the same capabilities and chunk sizes, every request ends, the application hears of
  one end of its stream, and the right one;
* codec and handshake: what is decoded is what was encoded, in order, for any cut of the bytes.

`PROJECT.json` lists the hazards line by line, with the properties that watch each.

## Modules

| Module | Models |
| --- | --- |
| `PublisherLock` | abstract: every stream key is a lock that a session takes and gives back |
| `StreamRegistry` | the registry's life cycle, with callers that call anything at any time |
| `MediaServer` | connections on top of the registry: main loop, commands, end of a connection, cleanup task |
| `GopCache` | the GOP buffer's operations as functions of its value |
| `Subscriber` | one entry's caches and broadcast ring, and one playing connection |
| `ChunkCodec` | encoder and decoder of chunks as functions of their state |
| `MessageChannel` | abstract: a lossless channel of messages for each chunk stream |
| `Transport` | one connection below the messages: handshake of both roles, then the chunks of one direction |
| `AmfValue`, `Amf0`, `U29`, `Amf3` | AMF values, their encoders and decoders; the 29-bit integers of AMF3 |
| `Enhanced` | capabilities of enhanced RTMP and what two sides have in common |
| `Messages` | what messages say: their types, commands, the parameters of connect, the server's answers |
| `RtmpMessage` | how messages are laid out: from and to chunk payloads |
| `Wire` | what one side writes and the other reads: a message, or AMF3 values through the tables of both sides |
| `Flv`, `Codecs`, `EnhancedTag` | the parsers: FLV tags, AAC and H.264, enhanced video and audio |
| `MediaPath` | payloads from a publisher through the connection's parsers and the entry's caches to a puller |
| `ClientServer` | a client with its connector against the connection that serves it, message by message |
| `MediaServerProofs` (with `StreamRegistry`), `SubscriberProofs`, `GopCacheProofs`, `MediaPathProofs`, `ClientServerProofs`, `ChunkCodecProofs`, `TransportProofs`, `U29Proofs` | the theorems about the modules of those names |
| `MCMediaServer`, `MCWire`, `MCMediaPath`, `MCClientServer` | instances for TLC: keys and sessions, messages, payloads, configurations |

`MediaServer` extends `StreamRegistry`, `Subscriber` and `MediaPath` use `GopCache`, `Transport` extends `ChunkCodec`,
`RtmpMessage` extends `Messages` and `Amf0`, `Wire` extends `RtmpMessage` and `Amf3`; `ClientServer` extends `Messages` and makes
every step of its server a step of an instance of `MediaServer`, and `MCClientServer` gives it the layout of `RtmpMessage`. `StreamRegistry` maps to `PublisherLock` (`owner[k]` is the `publisher_id` of the entry),
`MediaServer` to `StreamRegistry`, `Transport` to `MessageChannel` (the queue is what was sent and has not been received).
Operators named as "a slip" are variants of the definition that follows them, each with one plausible mistake; they are
no part of any specification and serve to confirm that the property concerned notices the mistake.

### How the models correspond to the code

**StreamRegistry.** `streams[k]` is the entry of key k, or `NoEntry`. A registry call is one step because of its locks:
`register_publisher` and `cleanup` hold the map's write lock, every other call holds its read lock for its
whole duration and within it the lock of one entry. It follows that `try_read` in `cleanup` cannot fail. `Instant`s become
`gone`, the ticks since the publisher left, saturated just above the larger limit since the code only compares it.
`chan` is the identity of the broadcast sender that lives and dies with the entry. `subscriber_count` wraps at
`CountModulus`, as the `AtomicU32` wraps at 2^32.

**MediaServer.** One connection is one task: `phase` is where `run` is. Every handler changes shared state at one point
between two awaits, so it is one step; a send that fails afterwards, or a handler dropped by `select!`, is a later
`LoopEnds` or simply the next step. The variable `taken` is the local `frame_rx` of the main loop; `NextIteration` is
the write-back and the `take` around each iteration. The two registry calls of `cleanup_on_disconnect` are separate steps. The callbacks accept or
reject, which is the choice between an action and `LoopEnds`. Media are in
`MediaPath` and `ClientServer`. `plays`, `joined` and `miscounted` are history.

**Subscriber.** A frame is its position in `log`; its kind is what caches and connection look at: video or audio header,
keyframe as `handle_video` sees it, keyframe as `FlvTag` sees it (enhanced keyframes are not), other pictures, audio.
`play` and `unpause` send frame by frame, so what is left to send (`todo`) is state and `HandlerDropped` can cut `unpause`
short. The broadcast ring is modelled from tokio's documented behaviour: a receiver that has been overtaken gets
`Lagged` once and continues at the oldest frame left; after the sender is gone the remaining frames are still received.
Frames have size one here; `MediaPath` has sizes.

**ChunkCodec and Transport.** The network carries units: a packet of the handshake, the header of a chunk, its extended
timestamp, or a word of four bytes of payload. `Read` cuts between any two of them. A cut inside a unit adds nothing, because
`decode` and `process` consume nothing before they have all they want. When a unit is not what the reader takes it for, the
real decoder would go on at the wrong byte; the model sets `derailed` and stops there. `state`, `read_buf`, `encoder`,
`decoder` are the fields of those names; `reading` says whether the task decodes or is in `read_buf().await`.
`encode` lays out all chunks of a message at once. The senders of this repository also write them at once; `Write` puts
them out one by one, in any order of the chunk streams, because the server also reads what other programs send. For the same
reason there are `SendAbort` and eager clients, which send C2 and chunks without waiting. Control messages go out
before other chunks, and the chunk size changes between messages. `Traffic` is what the code sends: commands with
timestamp 0, media on one message stream with timestamps that do not go back and at least one word. The
check of `max_message_size` cannot fail, as its limit is 2^24, and is left out.

**RtmpMessage, AMF, Wire.** A payload is a sequence of tokens: a marker, a length, a number, a string. Numbers and strings
are opaque, except where the code looks at them: whether a string is too long for its marker, the most significant bit of
a chunk size, the range of AMF3 integers. What the decoder does when a token is not the one it wants (the bytes of
another) is an error, `Misread`, that no message of the instances gets to. `Option` is a set of at most one element. The
order of the keys of a `HashMap` is arbitrary in the code and a constant in the model. `Wire` is two machines in one: `Exchange`
sends one message of which a prefix of the tokens arrives, `Interoperate` reads what another encoder writes (references,
omitted ends, a missing transaction id), and the AMF3 actions write values into bodies that the other side reads with its own
tables, over several bodies.

**Media.** `Flv`, `Codecs` and `EnhancedTag` work on bytes, because the layouts are what the parsers are about. Parameter
sets and picture data stay as they are, and names of codecs and profiles are left out. In `MediaPath` a packet is its bytes together with what the
layouts at the heads of the source files say it means (`meant`) and the length size it was written for (`nalu`). It
arrives whole or broken off after any byte. `Plain` packets come as often as they like, the others and the broken ones
`MaxOdd` times. `handle_video` runs as a whole: parsers and callbacks, then the entry's caches, then the puller, which
parses for itself. `declared`, `in_force`,
`pushed` and `last` are history.

**ClientServer.** `client.at` is the request whose answer the client waits for, or `pulling`, `published`, `done`; the client's loops are
the `Reads...` operators, one for each request. The server's side is `handle_chunk` with the handlers' outcomes (callback
accepts, rejects, redirects; registry accepts, refuses), each a step of `MediaServer` with what it answers. Each chunk in flight
carries the chunk size it was cut by, to be compared with what its reader expects. The socket keeps order; when the server closes
it with something unread, any end of what it had sent may be lost. A session of another client publishes and leaves. Both
configurations, modes included, are chosen at the start. The layout of messages is a parameter, `Encoded` and `Parsed`, of which
`CodecAssumption` says that a message of the conversation is read as it was sent, on the stream of its chunk. TLC evaluates that for the layout
`RtmpMessage` has, so the runs of `ClientServer` go through `encode` and `from_chunk` as the code does. A stream id that was never created, such as 0, is one id of `MediaServer` beyond those it
hands out.

## Runs

| Run | Instance | Shows |
| --- | --- | --- |
| `server` | 2 connections, 2 keys, 2 entries created, 2 calls of createStream or play in all | `TypeOK`, `PublisherHoldsKey`, `LastKeyReleased`, `EntryConsistent`, `CountIsAudience`, `RegistryIsUsedAsSpecified` (refinement of `StreamRegistry`, fairness included), `LockSpec` (refinement of the lock), `UnpublishedEnds`, `NobodyDangles` |
| `subscriber` | 4 frames of 5 kinds, ring of 1, GOP of 2, 1 pause | `TypeOK`, `DeliveredInOrder`, `CompleteWhenUndisturbed`, `GapsEndAtKeyframeOrHeader`, `AudioSurvivesSkip`, `SilentWhileFrozen`, `EndReachesSubscriber` |
| `transport` | server reads; 1 command and 1 media chunk stream, 3 messages of up to 2 chunks, 2 chunk sizes | `TypeOK`, `StaysOnTrack`, `EndsAgree`, `WaitsOnlyWhenDry`, `ChannelSpec` (refinement, fairness included) |
| `media` | 26 packets of every layout, four kinds of them misread, GOP of 20 bytes, 2 frames an entry, 1 odd or broken packet, any length size left over by an earlier publish | `SizeAccounted`, `NoHole`, `LegacyKeyframesLead`, `DropsOnlyUnderPressure`, `LayoutsRead`, `CutsLoseTheTail`, `KeyframesTold`, `JoinerKnowsLengthSize`, `AdtsDescribesFrame` |
| `wire` | every type of message, 11 messages of other encoders, three of them misread; 3 AMF3 values of 8 | `MessagesSurvive`, `CutsInventNothing`, `ReferencesAgree` |
| `client` | puller or publisher, every pair of modes and of capabilities, 1 other publisher, 1 audio message | `NegotiationAgrees`, `ChunkSizesAgree`, `PublishingIsHeld`, `EndIsTold`, `RequestsEnd`, `TheGoneHoldNothing` |
| `disconnect_releases_keys`, `receiver_matches_subscription`, `subscriber_skips_to_keyframe`, `transport_long_session`, `client_audio_is_taken`, `media_keyframe_opens_gop` | small | a comment of the code that the code does not keep, see below |

`EntryConsistent`, `LockSpec` and `UnpublishedEnds` are properties of `StreamRegistry`; the runs check
them with the server as its client, the theorems prove the safety ones for any callers.

Bounds. Two keys suffice to tell keys apart, and two connections for a publisher and a subscriber or a rival; a third
party comes from the connections' ends, since the cleanup of one and the registry's own cleanup run beside the other. An entry that
is created twice is what stale calls need. `MaxCalls` = 2 allows a second play, two subscribers, or a message stream and a
play; publishing is not bounded. Limits of 0 ticks let an entry expire one tick after its
publisher left, and cleanup may take its time, so every interleaving before and after a limit is there. A ring of one frame
makes two frames enough for a minor lag and four for a major one and its end; a second major lag in a row ends the
connection. `MaxChannels`, `MaxStreams`, `MaxPlays`, `MaxCalls`, `MaxFrames`,
`MaxPauses`, `MaxPushes`, `MaxOdd`, `MaxValues` and `MaxMessages` are the bounds on counters and history. In `transport` the timestamps are
modulo 16 with a threshold of 4 instead of 2^32 and 2^24 - 1, the media have timestamps 1 and 2, and the largest chunk
size is 2 words, so that a request for 5 is cut down; three messages are an announcement of a chunk size or an abort between
two messages, or three headers of different formats in a row. The media's chunk stream id 320 has the three-byte header.
In `media` a limit of 20 bytes holds one frame or two, so that a push drops, rejects and clears; the headers
declare two different length sizes, and composition times are negative, positive and the largest of 24 bits. In `wire` messages are cut
after every token, the nesting limit is 4 (64 in the code), and three values are a string,
its reference in the same body, and its reference in a body where the table is new. In `client` the three chunk sizes (default, the
server's, the client's) differ; the client lists codecs the server has not, has no use of in common, and has.
Deadlock is not checked where the modelled systems stop: all connections may have closed, and the bounds end the rest.

Fairness. The cleanup task and the clock run (`spawn_cleanup_task` loops for ever). A task whose channel is ready
runs; after the loop a task goes through its cleanup; a call of `read_and_process` ends with data or with the idle
timeout. One assumption is about the environment: a write to a client's socket returns. The code sets no timeout
on writes, so a client that stops reading without closing can hold its own task, but nothing else. Nothing is
assumed of clients or publishers. In `Transport`, as long as the handshake, the network, a started write or the decoder can
go on, something does; nobody has to begin a message, and a handshake may time out at any point, which breaks the
channel. In `ClientServer` either side reads what has arrived (stated as the fairness of taking it off the socket; every message
that can be taken has a handler), the server's timers for the handshake and for an idle connection go
off, and its cleanup runs. The client has no timer after the handshake, and its application need neither send nor disconnect:
`RequestsEnd` holds because of the idle timeout of the server alone.

What the properties leave open. `CountIsAudience` excepts the keys a late `unsubscribe` or a second play has met (`miscounted`).
`GapsEndAtKeyframeOrHeader` takes lags below the threshold for no gaps, and `AudioSurvivesSkip` is about audio the receiver got, not
about audio the ring overwrote. `NoHole` also allows a buffer that has dropped its keyframe, and `LegacyKeyframesLead` is silent on
enhanced codecs. `JoinerKnowsLengthSize` begins with the new publisher's own header; before it a joiner goes by the
predecessor's. `LayoutsRead` and `MessagesSurvive` except the layouts the code misreads, each by a definition that names it. In `transport`
the server is the receiver and `Traffic` has no full header behind a message with a timestamp. The run `client` hardly reaches a lost
announcement of the end, as the server leaves little unread of a puller that plays.

### Where the code does not keep what its comments say

* After a second `publish`, disconnecting releases only the last key; the first stays active for ever
  (`DisconnectReleasesKeys`; `connection.rs:986` against the comment at 338).
* After a second `play` the loop writes the old receiver back over the new one (`ReceiverMatchesSubscription`;
  `connection.rs:290` against 147).
* A sequence header ends skip mode like a keyframe does, and inter frames follow whose references were skipped
  (`SkipsToKeyframe`; `connection.rs:1831` against 106 and 1815). What the code keeps is `GapsEndAtKeyframeOrHeader`.
* After 4.66 hours, in the first message of several chunks with an extended timestamp, the encoder leaves the extended timestamp
  out of the later chunks and the decoder expects it there (`StaysOnTrack` in `transport_long_session`; `chunk.rs:461`
  against 138 and 25).
* A publisher of this repository cannot publish to the server of this repository: the client's `publish` goes out on
  message stream 0, which the server registers without a message stream, and the first audio message ends the connection
  (`AudioIsTaken`; `connector.rs:544` against `publisher.rs:77`, `connection.rs:1574`).
* The GOP buffer does not recognise enhanced keyframes, so the catch-up for HEVC, AV1 or VP9 spans several GOPs
  (`KeyframeOpensGop`; `flv.rs:67` against `gop.rs:5` and 80).

Further divergences that reading or modelling shows and no run is spent on.

Registry and connection. `unsubscribe` goes by key: a subscriber whose entry was removed and re-created decrements the counter
of the new entry, which wraps; a watched stream then goes idle instead of into its grace period (`store.rs:190` and 127
against 103; the variable `miscounted` marks the case for `CountIsAudience`). `on_disconnect` is not called when the
handshake fails (`connection.rs:232`, `handler.rs:228`); `on_unpublish` is called only for deleteStream
(`connection.rs:327`, `handler.rs:208`); the permit of `max_connections` is given back at once (`listener.rs:121`,
`config.rs:16`). Past 4 GiB the bytes received are truncated and subtracted (`session/state.rs:151`), which panics with
overflow checks. `pending_fc`, the statistics and the GOP buffer of a message stream are written and never read; metadata
is never broadcast.

Fan-out. An overrun ring loses audio as
well as video (`connection.rs:273`, `src/README.md:19`); `has_complete_gop` stays true after the keyframe was dropped
(`gop.rs:95`, comment at 40); an unpause that is cut short does not resend its headers (`connection.rs:256`, comment at
1241). A header that a publisher replaces in the middle of a GOP is sent before frames that go by the old one
(`entry.rs:135`). A generated keyframe (type 4) empties the GOP buffer and is told to nobody as a keyframe.

Media. An AAC configuration with an explicit frequency gets seven bits of the last byte where the layout has one, and its channels are read from
where the frequency is (`aac.rs:137`, 145; `MisreadAudio` excepts it from `LayoutsRead`). Every track of an enhanced video container is
told as an inter frame, in a keyframe container too (`enhanced_video.rs:358`, 393, 419, 429), and the entries of a container of many tracks as
frames without composition time, whatever its packet type is; of audio likewise (`enhanced_audio.rs:348`, 378;
`MisreadVideo`, `MisreadAudio`). A message stream keeps its length size when it stops and publishes again (`session/stream.rs:97`, 112),
so frames that come before the new publish's own header are taken apart by the old one: `KeyframesTold` is about
the header in force, not about the publisher's. The puller looks only at the low four bits of a video payload and parses an enhanced
one of type 7 as H.264 (`puller.rs:127`); metadata wrapped in @setDataFrame do not reach its application.

Messages. The lenient AMF0 decoder consumes the byte it finds in place of an end of object, though its comment says the byte is put back
(`amf0.rs:194`), so what follows in the message is misread; an AVMPLUS marker is skipped
without what it introduces (`amf0.rs:132`); `OmitsEnd` and `SwitchesToAmf3` except both from `MessagesSurvive`; the depth is not counted back when nesting is too deep, so a decoder that is
used again refuses earlier (`amf0.rs:96`); an empty key is written like any other and ends the object for the reader. A
`fourCcList` is ignored as soon as a map is present (`message.rs:311`). User control events of an unknown type with fewer than four
bytes of data are refused (`message.rs:459`; `ShortEvent`). Commands in AMF3 are parsed as AMF0. "No common capabilities" cannot happen, since
the intersection of two enabled sides is enabled (`connection.rs:806`): two sides without a common codec negotiate enhanced
RTMP with none. `TimestampNormalizer` has no caller.

Client. `read_message` goes to the socket after every chunk that does not complete a message, with the rest perhaps already
in its buffer (`connector.rs:515` against 519 and `connection.rs:510`; `WaitsOnlyWhenDry` fails with the client as receiver of
`Transport`). `create_stream`, `play` and the puller ignore SetChunkSize (`connector.rs:355`). `play` does not take StreamNotFound for
a refusal and a redirection is not answered, so both end with the server's timeout (`connector.rs:406`,
`connection.rs:1151`); a puller whose play fails returns an error without the event Disconnected. `is_connected` of the
publisher stays true when the server closes (`publisher.rs:146`), as nobody reads.

Chunks. The encoder writes an extended timestamp in absolute form also where the format has a delta (`chunk.rs:407`); a
timestamp that goes back, as in the headers resent by unpause (`connection.rs:1252`) or from a publisher that starts
anew, makes a delta that 24 bits do not hold, and the receiver's clock jumps ahead (`chunk.rs:405`); an empty payload is
remembered but not written (`chunk.rs:426`).

## Proofs

Every theorem holds for all values of the constants that the named assumptions of the modules allow: any number of keys, sessions,
frames and messages, any sizes. Some theorems of `MediaPathProofs` and those of `TransportProofs` need a hypothesis beyond those, which they state.
In the table "run" is the run that checks the property on a small instance.

| Module | Theorem | Property | Run |
| --- | --- | --- | --- |
| `MediaServerProofs`, on the registry | `EntriesConsistent` | `EntryConsistent` | `server` |
| | `RegistryImplementsLock` | `LockSpec` | `server` |
| on the server | `ServerTypeCorrect` | `TypeOK` | `server` |
| | `PublisherKeepsKey`, `CleanupReleasesLastKey` | `PublisherHoldsKey`, `LastKeyReleased` | `server` |
| | `ServerEntriesConsistent` | `EntryConsistent` | `server` |
| | `ServerImplementsLock` | `LockSpec` | `server` |
| | `CountsAreRight` | `CountIsAudience` | `server` |
| `SubscriberProofs` | `SubscriberTypeCorrect`, `StreamInOrder`, `UndisturbedIsComplete` | `TypeOK`, `DeliveredInOrder`, `CompleteWhenUndisturbed` | `subscriber` |
| | `SkipEndsAtKeyframeOrHeader`, `SkipModeKeepsAudio`, `FrozenIsSilent` | `GapsEndAtKeyframeOrHeader`, `AudioSurvivesSkip`, `SilentWhileFrozen` | `subscriber` |
| `MediaPathProofs` | `SizeIsAccounted`, `CatchupHasNoHole`, `LegacyKeyframesLeadBuffer` | `SizeAccounted`, `NoHole`, `LegacyKeyframesLead` | `media` |
| | `FramesDropUnderPressure`, `JoinersKnowLengthSize` | `DropsOnlyUnderPressure`, `JoinerKnowsLengthSize` | `media` |
| | `KeyframesAreTold`, `CutsOnlyLose`, `AdtsDescribes` | `KeyframesTold`, `CutsLoseTheTail`, `AdtsDescribesFrame` | `media` |
| `ClientServerProofs` | `NegotiationIsAgreed`, `ChunkSizesMatch` | `NegotiationAgrees`, `ChunkSizesAgree` | `client` |
| | `PublisherIsHeld`, `EndIsToldOnce` | `PublishingIsHeld`, `EndIsTold` | `client` |
| | `ServesAsMediaServer` | the safety part of `MediaServer` | |
| `TransportProofs` | `TransportTypeCorrect`, `NeverDerailed` | `TypeOK`, `StaysOnTrack` | `transport` |
| | `BothEndsAgree`, `NeverWaitsOnChunk` | `EndsAgree`, `WaitsOnlyWhenDry` | `transport` |
| | `ImplementsChannel` | the safety part of `ChannelSpec` | `transport` |
| `ChunkCodecProofs` | `BasicHeaderRoundTrip`, `HeaderUnderstood`, `ContinuationChangesNothing`, `ChunkUnderstood` | about operators | |
| `U29Proofs` | `U29RoundTrip`, `SignRoundTrip` | about operators | |

**Registry.** The first part of `MediaServerProofs` assumes `RegistryAssumption` (the limits are naturals, the modulus is positive, None is no
session). Type correctness is inductive; the others use it. For the lock, each step of the registry either
takes a free key (`RegisterPublisher`, whose guard implies that the publisher is None only together with
`EntryConsistent`), gives one back, or leaves every owner alone; that `Cleanup` never takes a key away from a publisher
is again `EntryConsistent`: only entries without publisher expire.

**Server.** The second part adds `ServerAssumption`. The invariant `PublisherHoldsKey` is not inductive: a step of another session
could release the key if that session still counted as its publisher, and cleanup could remove the entry if an active one could
carry a time of departure. The inductive invariant is

    IInv == TypeOK /\ EntryConsistent /\ PublisherHoldsKey /\ LastKeyReleased

`ServerUsesRegistry` says that every step of the server is one of the registry or leaves the registry alone (`RegistrySafe`, the
registry's specification without its fairness), which brings the theorems about the registry over to the server.
`BroadcastIsExclusive` follows: no two connections ever broadcast to one key.

`CountsAreRight` compares a counter that wraps at `CountModulus` with the cardinality of the set of attached connections. A
connection is attached when the channel it joined is the one the entry still has, so the argument needs that no two entries
share a channel (`ChannelsDistinct`, which holds because `CreateEntry` counts its channels, as `broadcast::channel` makes a new one each time), that a new channel is younger than any that was joined, and that a connection
which has not reached its main loop is subscribed to nothing (`AudienceKnown`). Each step then leaves the audience of a key alone,
adds one connection or removes one; `CountsUp` and `CountsDown` are the arithmetic modulo the counter's size.
The property excludes the keys for which `miscounted` records one of the two divergences listed above.

**Subscriber.** Nothing about the frames sent so far is inductive on its own: what `play` and `unpause` are about to send is as much
part of the story as what they have sent. The invariant is therefore about the script, that is `out` followed by
what is in `todo`:

    IInv == TypeOK /\ GopHoldsLastPictures /\ BeforePlay /\ HandlerKnown /\ DisturbanceKnown /\ ScriptOK

`GopHoldsLastPictures` says that the buffer ends with the last picture of the log and leaves out none before it, `HandlerKnown` and
`DisturbanceKnown` say where each handler is and what the flags for lag, pause and skip mode imply. `ScriptOK` says of the script that
its catch-up is in order and is followed by live frames in order, that its pictures are complete up to
the next frame to come unless there was a disturbance, that a gap is closed by a keyframe, a header or the mark of
a minor lag, and that audio goes missing only in the ring. A handler that `select!` drops cuts the script at a
point where all of that still holds. A frame that is sent appends to the script, `play` and `unpause` replace what is to come.

**GOP buffer and media path.** `TotalSize` is a recursive function, so what it is for every sequence would need induction.
`GopCacheProofs` does it by the least counterexample instead, from the well-foundedness of the naturals, and then says what a drop,
making room and a push do to the frames and to their size. `MediaPathProofs` has three invariants. `BufferInv`: the buffer's size is
the sum of its frames and at most the limit, its frames are the last of those pushed, and none but the
first is a keyframe to the tag parser, hence none a keyframe of a legacy codec (`LegacyKeyframesLeadBuffer`; enhanced ones it does not know).
`JoinerInv`: the cached header says what the publisher declared, the buffered frames say nothing else, and a puller that is
connected goes by it. `ToldInv`: the server's length size is that of the last AVC header of the message stream (`in_force`), and the application was told what the
parsers make of a beginning of the last packet. `PacketAssumption` says that a packet is a nonempty sequence of bytes, which the connection checks first.
`JoinersKnowLengthSize` has the hypothesis `FourCcsNamed`: no enhanced packet of type 7 has a 1 where its FOURCC begins, which
no FOURCC does. The puller looks at the low four bits of the first byte only and would take such a packet for an AVC header, whatever
the server thinks of it. `AdtsDescribes` has the hypothesis `ChannelsFit`: an AAC header has a channel configuration below 8, of which
the ADTS header takes three of the four bits. TLC evaluates both hypotheses for the packets of `media`. With them its two lemmas are
about all bytes: `AudioConfigIs` bounds what the AAC parser reads, and `AdtsRoundTrip` reads the header back for every configuration in
these bounds and every frame of up to 8184 bytes.

`KeyframesAreTold` and `CutsOnlyLose` have the hypothesis `PacketsAreRead`: the parsers read each packet, when it is whole and under the
length size it was written for, as something, and what a packet of none of the misread layouts is said to mean is that. That is what `LayoutsRead` says, which TLC
checks on the packets of `media`; so the theorems are about sizes and cuts, not about layouts. `KeyframesAreTold` then
follows from `ToldInv`. `CutsOnlyLose` is a lemma for every parser (`AvcIsCut`, `AacIsCut`, `EnhancedVideoIsCut`, `EnhancedAudioIsCut`):
what it makes of a beginning p of some bytes q is what it makes of q with the end of the last component missing, or p is refused. The loops are
functions that are defined by their own values further on (tracks) or before (parameter sets). `BackwardExists` shows that such a function is
there, and the cut is compared place by place: `SameCodecCut` and `EachCodecCut` from the end of the cut down, where the cut
has fewer tracks, `ParameterSetsCut` from the first set up, where it has all or none. That the whole is not refused is needed: behind the cut, a container whose
tracks name their codecs may name one that is unknown, which refuses all of it while the cut is read (`enhanced_video.rs`, `parse_multitrack`).

**Client and server.** `ClientServerProofs` assumes `CodecAssumption` and `ClientServerAssumption`: two sessions, a key for the URL, and
configurations whose capabilities are sets of known codecs with their flags, in every mode. Chunk sizes, bounds, keys and sessions are
arbitrary. None of the four invariants is inductive, since each depends on what is still on its way. The invariant is

    IInv == ServerInv /\ ProtocolInv

`ServerInv` is what is needed of the session and of the registry: their types, and that `publishing_to` of the client's connection names the
key of the URL only as long as the entry names the session. `ProtocolInv` says, for each stage of the conversation, what the client has been told, with
which chunk sizes either side reads and writes, and what may be in either queue. The stages are told by what the client knows: before
Connected (`Connecting`: the new chunk size comes first and the result of connect last), before it has a message stream (`Creating`:
the announcement of the client's chunk size reaches the server before anything cut by it), and then to play (`Pulling`) or to publish
(`Publishing`). `NegotiationIsAgreed` rests besides on what `add_ertmp_fields`, `from_amf` and `ConnectResponseBuilder` make of
capabilities: `ConnectRead` and `ResultRead` say that either side reads what the other wrote, `IntersectFacts` that the client's
intersection of its own capabilities with the server's intersection is the latter. For `EndIsToldOnce` the queue of one who waits for the answer to
`play` must hold Play.Start with the end of the stream behind it, if there was one (`WillStart`), which also holds when frames, the
end and the close follow each other before the client reads anything. `PublisherIsHeld` follows the message Publish.Start from the step
that takes the key to the step that reads it, while another session publishes and the cleanup task runs.

`ServesAsMediaServer` states the refinement: leave out the client and the queues, and what is left of a behaviour is one of `MediaServer`, without its
fairness. The key of a `publish` or `play` the server reads is the one the URL names (`OneKeyIsNamed`), which needs the invariant.

**Chunks.** `ChunkCodecProofs` rests on `CodecAssumption`. `BasicHeaderRoundTrip`: the basic header of every
chunk stream id the format can express gives format, id and length back. `HeaderUnderstood` is the step of
`EndsAgree` for one message: ends that agree on a chunk stream agree after its first header, for every message whose
timestamp is below the threshold, does not go back, and follows a message at timestamp zero if its header is a full one. Each
premise is needed: the list above has what happens without the first two, and without the last the decoder takes an
absolute timestamp for a delta. `ContinuationChangesNothing` covers the headers of the later chunks. `ChunkUnderstood` joins them: the
i-th chunk of a message, read by a decoder that has read the ones before it, gives its share of the payload, and the last one the message.

**Transport.** `TransportProofs` adds `TransportAssumption` (ids and lengths fit their fields, chunk sizes are positive,
chunk stream 2 is the protocol's own) and the hypothesis `Setting`: the server is the receiver, and all timestamps are below the threshold of
extended ones. Without the first, `WaitsOnlyWhenDry` is false, and the client ignores SetChunkSize while it waits for some answers; without
the second, `StaysOnTrack` is false, which the run `transport_long_session` shows. The invariant is

    IInv == Typed /\ ClientReads /\ EncoderOK /\ AnnouncedOK /\ OnTheWay /\ DryWhileWaiting

A view is what the receiver knows: the state of its decoder for every chunk stream, its chunk size, and how many messages it has had.
`OnTheWay` says that everything between the sender's last written unit and the decoder, the wire and `read_buf` together, is what is left of
the handshake and then a sequence of whole chunks, each of which takes the view one step further (`After`) without surprising the reader
(`Readable`), and that the last view is the one the sender counts on: for a chunk stream of which nothing is in the outbox both ends remember
the same (`Quiet`), and otherwise the decoder has read the chunks before those in the outbox (`Busy`). That holds for any interleaving of the
chunk streams, any cut of the bytes, and an abort or a new chunk size between any two chunks. A control message is part of
that sequence as soon as it is in the outbox (`Announced`; `AnnouncedOK` says that there is at most one), because nothing may go out before it. Writing a chunk
extends the sequence at its end, decoding one takes it from the front, reading moves the boundary between wire and buffer.

`ImplementsChannel` maps each step to `MessageChannel`: beginning a message is `Send`, giving one up is `TakeBack`, decoding the last chunk
of one is `Receive`, a handshake that fails is `Break`, and all other steps stutter. So every message that is received is the next one
sent on its chunk stream, unchanged. That it arrives in the end is the fairness in `ChannelSpec` and stays with TLC.

**Integers.** `U29Proofs` is about the 29-bit integers of AMF3, on which lengths and references rest too. `U29RoundTrip`: `ReadU29` gives back every number
below 2^29 that `WriteU29` lays out, in one to four bytes, and takes exactly those. `SignRoundTrip`: every integer from `IntMin` to `IntMax` survives the
mask of the encoder and the sign extension of the decoder.

**Only model-checked.** Of `MediaPath`: `LayoutsRead`, which compares the parsers with payloads that are written by hand from the layouts;
what the NAL units of a frame are for every frame is not proved. Of `Wire` everything, and with it `CodecAssumption` of `ClientServer`: the AMF codecs are
recursive over data, which the proof system cannot do induction on, and the modules declare RECURSIVE operators. Of `Transport` the part
outside `Setting`. And all liveness, which is beyond the proof system: `UnpublishedEnds`, `NobodyDangles`, `EndReachesSubscriber`, `RequestsEnd`, `TheGoneHoldNothing`,
and the fairness in `RegistryIsUsedAsSpecified` and `ChannelSpec`.

## Plan

1. Writes of the server that `select!` interrupts, in `Transport` with the client as reader, and then the theorems of
   `TransportProofs` for that direction as far as they hold.
2. Proofs: writers of the layouts as operators, and that the parsers read back what they write (`LayoutsRead` for every payload).
3. The acknowledgement window (`session/state.rs`), with its arithmetic on 32 bits.

## Not modelled

The listener (the connections of `MediaServer` start where its tasks start, and its limit has no effect), the encoder quirks (no caller),
the statistics and errors (no effect on control), the parsing of URLs, TLS and sockets (external), the wording of descriptions and
names of codecs. The application's callbacks are the nondeterminism of the models. Malformed chunks and the error paths of
`decode` end a connection like any other error and are not told apart.
