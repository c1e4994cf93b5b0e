---------------------------- MODULE ClientServer ----------------------------
(***************************************************************************)
(* A client of this repository - an RtmpPuller or an RtmpPublisher over an *)
(* RtmpConnector (src/client/) - and the connection that serves it,        *)
(* message by message: Messages is what both say, MediaServer what the     *)
(* connection does to the session and the registry.  How a message is laid *)
(* out is a parameter, of which only is assumed that it arrives as it was  *)
(* sent.  A second session publishes and leaves as it likes.               *)
(*                                                                         *)
(* The socket delivers in order.  What the server has sent may be lost     *)
(* when it closes the socket with something of the client unread.          *)
(***************************************************************************)
EXTENDS Messages

CONSTANTS
    Key, Session, NoSession, GracePeriod, IdleTimeout, CountModulus, MaxChannels,
    NoKey, MaxStreams, MaxPlays, MaxCalls,  \* of MediaServer; a key is <<app, name>>
    Me, Other,          \* the sessions of the client and of another publisher
    App, Name,          \* what the client's URL names
    Configurations,     \* of both sides, with the role of the client
    DefaultChunkSize, ServerChunkSize, ClientChunkSize,
    MaxFrames,          \* bound: audio messages, in either direction
    Encoded(_),         \* encode: the type and the payload of a message
    Parsed(_)           \* from_chunk

VARIABLES
    streams, nextChan, phase, publishing_to, subscribed_to, frame_rx, taken,
    msg_streams, next_stream_id, plays, joined, miscounted,     \* MediaServer
    config,             \* both configurations
    client,             \* RtmpConnector, and where its caller waits
    server,             \* the rest of Connection
    to_server, to_client,                   \* chunks on their way
    \* History, read by the properties only:
    events,             \* what the application has been told
    ended_by,           \* why the main loop ended
    frames              \* audio messages so far

serverVars == <<streams, nextChan, phase, publishing_to, subscribed_to, frame_rx, taken,
                msg_streams, next_stream_id, plays, joined, miscounted>>
vars == <<streams, nextChan, phase, publishing_to, subscribed_to, frame_rx, taken,
          msg_streams, next_stream_id, plays, joined, miscounted,
          config, client, server, to_server, to_client, events, ended_by, frames>>

Server == INSTANCE MediaServer

Order == << "app", "capsEx", "videoFourCcInfoMap", "audioFourCcInfoMap", "fourCcList",
            "avc1", "hvc1", "av01", "vp09", "vp08",
            "mp4a", "Opus", "fLaC", "ac-3", "ec-3", ".mp3",
            "fmsVer", "capabilities", "objectEncoding", "level", "code" >>

Waits == {"connecting", "creating", "playing", "publishing"}

----------------------------------------------------------------------------
(* What the two sides say.                                                 *)

Request(name, id, object, arguments, stream_id) ==
    <<"Command", Command(name, id, object, arguments, stream_id)>>

ChunkSize(size) == <<"SetChunkSize", size>>
Sound == <<"Audio", 0, << "sound" >> >>

(* to_enhanced_capabilities and add_ertmp_fields.                          *)
FourCcList(caps) ==
    Array([i \in 1..Len(Keys(caps.video_codecs, Order) \o Keys(caps.audio_codecs, Order)) |->
        String((Keys(caps.video_codecs, Order) \o Keys(caps.audio_codecs, Order))[i])])

AddErtmpFields(object, caps) ==
    LET listed == IF caps.video_codecs = NoCodecs /\ caps.audio_codecs = NoCodecs THEN object
                  ELSE Put(object, "fourCcList", FourCcList(caps))
    IN  WithMaps(listed, caps)

(* The client's requests; c is a configuration.                            *)
ConnectObject(c) ==
    LET object == [app |-> String(App)]
    IN  Object(IF c.client_mode = "LegacyOnly" THEN object
               ELSE AddErtmpFields(object, c.client_caps))

ConnectRequest(c) == Request("connect", 1, ConnectObject(c), << >>, 0)
CreateStreamRequest == Request("createStream", 2, Null, << >>, 0)
BufferLength(id) == <<"UserControl", <<"SetBufferLength", id, 1>> >>

PlayRequest(id) ==
    Request("play", 0, Null, << String(Name), Number(-2), Number(-1), Boolean(TRUE) >>, id)

ReleaseRequest == Request("releaseStream", 3, Null, << String(Name) >>, 0)
FcPublishRequest == Request("FCPublish", 4, Null, << String(Name) >>, 0)
PublishRequest(id) == Request("publish", 0, Null, << String(Name), String("live") >>, id)

(* negotiate_enhanced_rtmp: an option, or refusal.                         *)
Refused(c, params) == c.server_mode = "EnhancedOnly" /\ ~HasEnhancedRtmp(params)

Negotiated(c, params) ==
    IF c.server_mode = "LegacyOnly" \/ ~HasEnhancedRtmp(params) THEN None
    ELSE LET common == Intersect(c.server_caps, ToEnhancedCapabilities(params))
         IN  IF c.server_mode = "Auto" /\ ~common.enabled THEN None ELSE {common}

(* The server's answers.                                                   *)
WindowAckSize == <<"WindowAckSize", 1>>
PeerBandwidth == <<"SetPeerBandwidth", 1, 2>>
StreamBegin(id) == <<"UserControl", <<"StreamBegin", id>> >>
StreamEof(id) == <<"UserControl", <<"StreamEof", id>> >>

ConnectResult(id, caps) == <<"Command", ConnectResponse(id, caps)>>

ConnectError(id) ==
    <<"Command",
      ErrorCommand(id, Null,
                   Object([level |-> String("error"),
                           code |-> String("NetConnection.Connect.Rejected")]))>>

CreateStreamResult(id, stream_id) == <<"Command", ResultCommand(id, Null, Number(stream_id))>>
OnFcPublish == Request("onFCPublish", 0, Null, << >>, 0)
Status(stream_id, code) == <<"Command", StatusCommand(stream_id, "status", code)>>
Refusal(stream_id, code) == <<"Command", StatusCommand(stream_id, "error", code)>>

(* All of it.  Commands reach the server on stream 0 and are answered      *)
(* there.                                                                  *)
ClientMessages ==
    {ChunkSize(ClientChunkSize), CreateStreamRequest, ReleaseRequest, FcPublishRequest, Sound}
    \cup {ConnectRequest(c) : c \in Configurations}
    \cup UNION {{BufferLength(id), PlayRequest(id), PublishRequest(id)} : id \in 1..MaxStreams}

ServerMessages ==
    {ChunkSize(ServerChunkSize), WindowAckSize, PeerBandwidth, StreamBegin(0), StreamEof(0),
     ConnectError(1), OnFcPublish, Sound,
     Status(0, "NetStream.Publish.Start"), Refusal(0, "NetStream.Publish.BadName"),
     Status(0, "NetStream.Play.Reset"), Status(0, "NetStream.Play.Start"),
     Status(0, "NetStream.Play.Stop"), Refusal(0, "NetStream.Play.StreamNotFound")}
    \cup {ConnectResult(1, Negotiated(c, ConnectParams(ConnectObject(c)))) : c \in Configurations}
    \cup {CreateStreamResult(2, id) : id \in 1..MaxStreams}

(* The chunk of a message, with the chunk size it is cut by.               *)
Chunk(m, stream_id, chunk_size) ==
    [message_type |-> Encoded(m)[1], payload |-> Encoded(m)[2], stream_id |-> stream_id,
     timestamp |-> 0, chunk_size |-> chunk_size]

(* A message as its reader has it: a command goes by the stream of its     *)
(* chunk.                                                                  *)
Delivered(m, stream_id) ==
    IF m[1] = "Command" THEN << m[1], [m[2] EXCEPT !.stream_id = stream_id] >> ELSE m

ASSUME CodecAssumption ==
    \A m \in ClientMessages \cup ServerMessages :
        /\ Encoded(m)[1] = MessageType[m[1]]
        /\ \A stream_id \in 0..MaxStreams,
              size \in {DefaultChunkSize, ServerChunkSize, ClientChunkSize} :
                  Parsed(Chunk(m, stream_id, size)) = Delivered(m, stream_id)

(* What configurations may hold.                                           *)
IsCodecs(codecs, all) ==
    \E known \in SUBSET all : codecs \in [known -> SUBSET FourCcFlags]

IsCapabilities(caps) ==
    /\ caps = Capabilities(caps.caps_ex, caps.video_codecs, caps.audio_codecs)
    /\ IsCodecs(caps.video_codecs, VideoFourCc) /\ IsCodecs(caps.audio_codecs, AudioFourCc)

ASSUME ClientServerAssumption ==
    /\ {Me, Other} \subseteq Session /\ Me # Other /\ NoSession \notin Session
    /\ <<App, Name>> \in Key /\ NoKey \notin Key
    /\ GracePeriod \in Nat /\ IdleTimeout \in Nat
    /\ CountModulus \in Nat \ {0} /\ MaxChannels \in Nat
    /\ MaxStreams \in Nat /\ MaxPlays \in Nat /\ MaxFrames \in Nat
    /\ \A c \in Configurations :
           /\ c.role \in {"puller", "publisher"}
           /\ c.client_mode \in Modes /\ c.server_mode \in Modes
           /\ IsCapabilities(c.client_caps) /\ IsCapabilities(c.server_caps)

Init ==
    /\ Server!Init
    /\ config \in Configurations
    /\ client = [at |-> "handshake", caps |-> None, stream_id |-> 0,
                 chunk_in |-> DefaultChunkSize, chunk_out |-> DefaultChunkSize]
    /\ server = [app |-> "", caps |-> None, playback |-> None,
                 chunk_in |-> DefaultChunkSize, chunk_out |-> DefaultChunkSize]
    /\ to_server = << >> /\ to_client = << >>
    /\ events = << >> /\ ended_by = "" /\ frames = 0

----------------------------------------------------------------------------
(* Sending.                                                                *)

(* send_message puts every message on stream 0.                            *)
ClientSends(messages) ==
    to_server' = to_server \o
        [i \in DOMAIN messages |-> Chunk(messages[i], 0, client'.chunk_out)]

(* The server names the stream in the chunk of a command.                  *)
Answer(messages) ==
    to_client \o [i \in DOMAIN messages |->
        Chunk(messages[i], IF messages[i][1] = "Command" THEN messages[i][2].stream_id ELSE 0,
              server.chunk_out)]

----------------------------------------------------------------------------
(* The server: the start of run.                                           *)

KeepServer == UNCHANGED <<config, client, to_server, events, frames>>

ServerOpens ==
    /\ Server!Open(Me)
    /\ UNCHANGED <<config, client, server, to_server, to_client, events, ended_by, frames>>

ServerOpenFails ==
    /\ Server!OpenFails(Me)
    /\ ended_by' = "rejected"
    /\ UNCHANGED <<server, to_client>> /\ KeepServer

(* The chunk size is announced, then used.                                 *)
ServerServes ==
    /\ client.at = "connecting"
    /\ Server!Serve(Me)
    /\ to_client' = Answer(<< ChunkSize(ServerChunkSize) >>)
    /\ server' = [server EXCEPT !.chunk_out = ServerChunkSize]
    /\ UNCHANGED ended_by /\ KeepServer

----------------------------------------------------------------------------
(* The server: the handlers of what the client sends.                      *)

Serving == phase[Me] = "serving"

(* A handler's outcomes: it answers and goes on, or it returns an error,   *)
(* perhaps after an answer, and the loop ends.                             *)
GoOn(messages) ==
    /\ to_client' = Answer(messages)
    /\ UNCHANGED ended_by

End(messages) ==
    /\ Server!LoopEnds(Me)
    /\ to_client' = Answer(messages)
    /\ ended_by' = "rejected"
    /\ UNCHANGED server

HandleConnect(cmd) ==
    LET params == ConnectParams(cmd.command_object)
        common == Negotiated(config, params)
        accept ==
            /\ server' = [server EXCEPT !.app = params.app,
                                        !.caps = IF common = None THEN @ ELSE common]
            /\ GoOn(<< WindowAckSize, PeerBandwidth, StreamBegin(0),
                       ConnectResult(cmd.transaction_id, common) >>)
            /\ UNCHANGED serverVars
    IN  IF Refused(config, params) THEN End(<< >>)
        ELSE accept \/ End(<< ConnectError(cmd.transaction_id) >>)

HandleCreateStream(cmd) ==
    /\ Server!CreateStream(Me)
    /\ GoOn(<< CreateStreamResult(cmd.transaction_id, next_stream_id[Me]) >>)
    /\ UNCHANGED server

(* on_fc_publish rejects: no answer.                                       *)
HandleFcPublish(cmd) ==
    \/ GoOn(<< OnFcPublish >>) /\ UNCHANGED <<serverVars, server>>
    \/ End(<< >>)

First(cmd) == IF cmd.arguments = << >> THEN Undefined ELSE cmd.arguments[1]

KeyOf(cmd) == << server.app, Or(AsStr(First(cmd)), "") >>

(* MediaServer's name of a stream that was never created, as 0 is not.     *)
StreamOf(cmd) == IF cmd.stream_id \in 1..MaxStreams THEN cmd.stream_id ELSE MaxStreams + 1

HandlePublish(cmd) ==
    \/ /\ Server!Publish(Me, StreamOf(cmd), KeyOf(cmd))
       /\ GoOn(<< StreamBegin(cmd.stream_id), Status(cmd.stream_id, "NetStream.Publish.Start") >>)
       /\ UNCHANGED server
    \/ /\ Server!PublishRefused(Me, KeyOf(cmd))
       /\ to_client' = Answer(<< Refusal(cmd.stream_id, "NetStream.Publish.BadName") >>)
       /\ ended_by' = "rejected"
       /\ UNCHANGED server
    \/ End(<< Refusal(cmd.stream_id, "NetStream.Publish.BadName") >>)
    \/ End(<< >>)

(* A slip: the stream to play on is not remembered.                        *)
HandlePlayForgets(cmd) ==
    \/ \E catchup \in {<< >>, << Sound >>} :
          /\ Server!Play(Me, StreamOf(cmd), KeyOf(cmd))
          /\ GoOn(<< StreamBegin(cmd.stream_id), Status(cmd.stream_id, "NetStream.Play.Reset"),
                     Status(cmd.stream_id, "NetStream.Play.Start") >> \o catchup)
          /\ UNCHANGED server
    \/ /\ GoOn(<< Refusal(cmd.stream_id, "NetStream.Play.StreamNotFound") >>)
       /\ UNCHANGED <<serverVars, server>>
    \/ GoOn(<< >>) /\ UNCHANGED <<serverVars, server>>

(* on_play accepts and the registry too: catch-up frames, if any, follow   *)
(* the answers.  Refused by either, the connection stays; a redirection is *)
(* not even answered.                                                      *)
HandlePlay(cmd) ==
    \/ \E catchup \in {<< >>, << Sound >>} :
          /\ Server!Play(Me, StreamOf(cmd), KeyOf(cmd))
          /\ GoOn(<< StreamBegin(cmd.stream_id), Status(cmd.stream_id, "NetStream.Play.Reset"),
                     Status(cmd.stream_id, "NetStream.Play.Start") >> \o catchup)
          /\ server' = [server EXCEPT !.playback = {cmd.stream_id}]
    \/ /\ GoOn(<< Refusal(cmd.stream_id, "NetStream.Play.StreamNotFound") >>)
       /\ UNCHANGED <<serverVars, server>>
    \/ GoOn(<< >>) /\ UNCHANGED <<serverVars, server>>

HandleCommand(cmd) ==
    \/ cmd.name = "connect" /\ HandleConnect(cmd)
    \/ cmd.name = "createStream" /\ HandleCreateStream(cmd)
    \/ cmd.name = "FCPublish" /\ HandleFcPublish(cmd)
    \/ cmd.name = "publish" /\ HandlePublish(cmd)
    \/ cmd.name = "play" /\ HandlePlay(cmd)
    \/ /\ cmd.name = "releaseStream"
       /\ UNCHANGED <<serverVars, server, to_client, ended_by>>

(* find_publishing_stream: media needs a message stream that publishes.    *)
HandleAudio ==
    IF \E id \in Server!StreamId : msg_streams[Me][id].mode = "Publishing"
    THEN UNCHANGED <<serverVars, server, to_client, ended_by>>
    ELSE /\ Server!LoopEnds(Me)
         /\ ended_by' = "no_stream"
         /\ UNCHANGED <<server, to_client>>

(* handle_chunk.                                                           *)
ServerTakes ==
    /\ Serving /\ to_server # << >>
    /\ to_server' = Tail(to_server)

ServerReads ==
    /\ ServerTakes
    /\ \E m \in {Parsed(Head(to_server))} :
           \/ /\ m[1] = "SetChunkSize"
              /\ server' = [server EXCEPT !.chunk_in = m[2]]
              /\ UNCHANGED <<serverVars, to_client, ended_by>>
           \/ m[1] = "UserControl" /\ UNCHANGED <<serverVars, server, to_client, ended_by>>
           \/ m[1] = "Command" /\ HandleCommand(m[2])
           \/ m[1] = "Audio" /\ HandleAudio
    /\ UNCHANGED <<config, client, events, frames>>

----------------------------------------------------------------------------
(* The server: what else ends its loop, and frames for the puller.         *)

ServerEnds(why) ==
    /\ Server!LoopEnds(Me)
    /\ ended_by' = why
    /\ UNCHANGED <<server, to_client>> /\ KeepServer

(* A slip: the timeout is for connections that do nothing yet.             *)
ServerIdlesUnconnected ==
    to_server = << >> /\ client.at # "done" /\ server.app = "" /\ ServerEnds("idle")

(* Nothing to read for idle_timeout.                                       *)
ServerIdles == to_server = << >> /\ client.at # "done" /\ ServerEnds("idle")

(* The client has closed the socket: nothing to read, or a write fails.    *)
PeerCloses == client.at = "done" /\ ServerEnds("peer_closed")

TooSlow == taken[Me] # Server!NoChan /\ Server!Live(taken[Me]) /\ ServerEnds("too_slow")

ServerStreamEnds ==
    /\ Server!StreamEnded(Me)
    /\ to_client' = Answer(IF server.playback = None THEN << >>
                           ELSE << StreamEof(Or(server.playback, 0)),
                                   Status(Or(server.playback, 0), "NetStream.Play.Stop") >>)
    /\ ended_by' = "stream_end"
    /\ UNCHANGED server /\ KeepServer

(* A frame of the channel it receives from, as long as that has a sender.  *)
ServerBroadcasts ==
    /\ Serving /\ frames < MaxFrames
    /\ taken[Me] # Server!NoChan /\ Server!Live(taken[Me])
    /\ to_client' = Append(to_client, Chunk(Sound, Or(server.playback, 1), server.chunk_out))
    /\ frames' = frames + 1
    /\ UNCHANGED <<serverVars, config, client, server, to_server, events, ended_by>>

(* The next turn of the loop, and the cleanup.                             *)
ServerTurns ==
    /\ Server!NextIteration(Me)
    /\ UNCHANGED <<config, client, server, to_server, to_client, events, ended_by, frames>>

ServerCleansUp ==
    /\ Server!UnregisterOnDisconnect(Me) \/ Server!UnsubscribeOnDisconnect(Me)
    /\ UNCHANGED <<config, client, server, to_server, to_client, events, ended_by, frames>>

(* The socket is closed.  Unread data make it a reset, which may overtake  *)
(* what the client has not read yet.                                       *)
ServerLeaves ==
    /\ Server!Leave(Me)
    /\ \E n \in (IF to_server = << >> THEN {Len(to_client)} ELSE 0..Len(to_client)) :
          to_client' = SubSeq(to_client, 1, n)
    /\ UNCHANGED <<config, client, server, to_server, events, ended_by, frames>>

----------------------------------------------------------------------------
(* The rest of the server: another publisher, the cleanup task, the clock. *)
Elsewhere ==
    /\ \/ Server!Open(Other) \/ Server!Serve(Other) \/ Server!LoopEnds(Other)
       \/ \E k \in Key : Server!Publish(Other, MaxStreams + 1, k)
       \/ Server!Closing(Other)
       \/ Server!CleanupTask \/ Server!ClockTick
    /\ UNCHANGED <<config, client, server, to_server, to_client, events, ended_by, frames>>

----------------------------------------------------------------------------
(* The client.                                                             *)

Tell(told) == events' = events \o told
Puller == config.role = "puller"

KeepClient == UNCHANGED <<serverVars, config, server, ended_by, frames>>

(* An error ends the request and with it connect or start; the connector   *)
(* is dropped.                                                             *)
Fails ==
    /\ client' = [client EXCEPT !.at = "done"]
    /\ UNCHANGED <<to_server, events>>

(* The handshake is over: do_connect sends connect.                        *)
ClientConnects ==
    /\ client.at = "handshake" /\ phase[Me] \in {"opening", "serving"}
    /\ client' = [client EXCEPT !.at = "connecting"]
    /\ ClientSends(<< ConnectRequest(config) >>)
    /\ UNCHANGED <<to_client, events>> /\ KeepClient

(* The handshake fails or takes longer than connect_timeout.               *)
HandshakeFails ==
    /\ client.at = "handshake" /\ phase[Me] \in {"opening", "closed"}
    /\ Fails
    /\ UNCHANGED to_client /\ KeepClient

(* handle_connect_result: the capabilities both have, an option.           *)
Agreed(cmd) ==
    LET theirs == ToEnhancedCapabilities(ConnectParams(cmd.command_object))
        common == IF config.client_mode = "LegacyOnly" THEN theirs
                  ELSE Intersect(config.client_caps, theirs)
    IN  IF HasEnhancedRtmp(ConnectParams(cmd.command_object)) /\ common.enabled
        THEN {common} ELSE None

(* A slip: the size the server announces is not heard.                     *)
ChunkInKept(m) == client.chunk_in

ChunkIn(m) == IF m[1] = "SetChunkSize" THEN m[2] ELSE client.chunk_in

Stays(m) ==
    /\ client' = [client EXCEPT !.chunk_in = ChunkIn(m)]
    /\ UNCHANGED <<to_server, events>>

Named(m, names) == m[1] = "Command" /\ m[2].name \in names

(* do_connect's loop.  It returns after it has set its chunk size and      *)
(* announced it; connect or start say Connected and ask for a stream.      *)
ReadsConnectResult(m) ==
    \/ /\ Named(m, {"_result"})
       /\ IF /\ config.client_mode = "EnhancedOnly"
             /\ ~HasEnhancedRtmp(ConnectParams(m[2].command_object))
          THEN Fails
          ELSE /\ client' = [client EXCEPT !.at = "creating", !.caps = Agreed(m[2]),
                                           !.chunk_out = ClientChunkSize]
               /\ ClientSends(<< ChunkSize(ClientChunkSize), CreateStreamRequest >>)
               /\ Tell(<< "Connected" >>)
    \/ Named(m, {"_error"}) /\ Fails
    \/ ~Named(m, {"_result", "_error"}) /\ Stays(m)

(* create_stream's loop, and the request that follows: play or publish.    *)
ReadsStream(m) ==
    IF /\ Named(m, {"_result"}) /\ m[2].transaction_id = 2
       /\ AsNumber(First(m[2])) # None
    THEN LET id == Or(AsNumber(First(m[2])), 0)
         IN  /\ client' = [client EXCEPT !.stream_id = id,
                               !.at = IF Puller THEN "playing" ELSE "publishing"]
             /\ ClientSends(
                    IF Puller
                    THEN << BufferLength(id), PlayRequest(id) >>
                    ELSE << ReleaseRequest, FcPublishRequest, PublishRequest(id) >>)
             /\ UNCHANGED events
    ELSE UNCHANGED <<client, to_server, events>>

Code(cmd) == AsStr(Get(First(cmd), "code"))

(* play's loop.  No code this server sends contains "Failed" or "Error".   *)
ReadsPlayStatus(m) ==
    /\ IF Named(m, {"onStatus"}) /\ Code(m[2]) = {"NetStream.Play.Start"}
       THEN client' = [client EXCEPT !.at = "pulling"]
       ELSE UNCHANGED client
    /\ UNCHANGED <<to_server, events>>

(* publish's loop.                                                         *)
ReadsPublishStatus(m) ==
    \/ /\ Named(m, {"onStatus"}) /\ Code(m[2]) = {"NetStream.Publish.Start"}
       /\ client' = [client EXCEPT !.at = "published"]
       /\ Tell(<< "Publishing" >>)
       /\ UNCHANGED to_server
    \/ /\ \/ Named(m, {"onStatus"}) /\ Code(m[2]) = {"NetStream.Publish.BadName"}
          \/ Named(m, {"_error"})
       /\ Fails
    \/ /\ ~Named(m, {"onStatus", "_error"})
       /\ Stays(m)

(* start's loop and handle_message.                                        *)
Pulls(m) ==
    \/ /\ m[1] = "Audio"
       /\ Tell(<< "AudioTag" >>)
       /\ UNCHANGED <<client, to_server>>
    \/ /\ \/ m[1] = "UserControl" /\ m[2][1] = "StreamEof"
          \/ Named(m, {"onStatus"}) /\ Code(m[2]) = {"NetStream.Play.Stop"}
       /\ client' = [client EXCEPT !.at = "done"]
       /\ Tell(<< "StreamEnd", "Disconnected" >>)
       /\ UNCHANGED to_server

(* read_message, by whoever waits.  A publisher that publishes does not.   *)
ClientTakes ==
    /\ client.at \in Waits \cup {"pulling"} /\ to_client # << >>
    /\ to_client' = Tail(to_client)

ClientReads ==
    /\ ClientTakes
    /\ \E m \in {Parsed(Head(to_client))} :
           \/ client.at = "connecting" /\ ReadsConnectResult(m)
           \/ client.at = "creating" /\ ReadsStream(m)
           \/ client.at = "playing" /\ ReadsPlayStatus(m)
           \/ client.at = "publishing" /\ ReadsPublishStatus(m)
           \/ client.at = "pulling" /\ Pulls(m)
    /\ KeepClient

(* The server has closed the socket and there is nothing left to read.     *)
ConnectionLost ==
    /\ phase[Me] = "closed" /\ to_client = << >>
    /\ \/ client.at \in Waits /\ Fails
       \/ /\ client.at = "pulling"
          /\ client' = [client EXCEPT !.at = "done"]
          /\ Tell(<< "Error", "Disconnected" >>)
          /\ UNCHANGED to_server
    /\ UNCHANGED to_client /\ KeepClient

(* The application publishes: send_audio, on the stream it created, and    *)
(* disconnect.                                                             *)
SendAudio ==
    /\ client.at = "published" /\ phase[Me] # "closed" /\ frames < MaxFrames
    /\ to_server' = Append(to_server, Chunk(Sound, client.stream_id, client.chunk_out))
    /\ frames' = frames + 1
    /\ UNCHANGED <<serverVars, config, client, server, to_client, events, ended_by>>

Disconnect ==
    /\ client.at = "published"
    /\ client' = [client EXCEPT !.at = "done"]
    /\ Tell(<< "Disconnected" >>)
    /\ UNCHANGED <<to_server, to_client>> /\ KeepClient

----------------------------------------------------------------------------
ServerNext ==
    \/ ServerOpens \/ ServerOpenFails \/ ServerServes
    \/ ServerReads \/ ServerBroadcasts \/ ServerTurns
    \/ ServerIdles \/ PeerCloses \/ TooSlow \/ ServerStreamEnds
    \/ ServerCleansUp \/ ServerLeaves

ClientNext ==
    \/ ClientConnects \/ HandshakeFails \/ ClientReads \/ ConnectionLost
    \/ SendAudio \/ Disconnect

Next == ServerNext \/ ClientNext \/ Elsewhere

(* The runtimes of both sides run a task that can go on; the timers of the *)
(* server - for the handshake and for an idle connection - go off.  The    *)
(* client waits for answers without a timer, and an application need never *)
(* send or disconnect.  Whoever takes a message handles it: the fairness   *)
(* of reading is that of taking.                                           *)
Fairness ==
    /\ WF_vars(ServerServes \/ ServerOpenFails)
    /\ WF_to_server(ServerTakes) /\ WF_vars(ServerIdles) /\ WF_vars(PeerCloses)
    /\ WF_vars(ServerCleansUp) /\ WF_vars(ServerLeaves)
    /\ WF_to_client(ClientTakes) /\ WF_vars(ConnectionLost)

Spec == Init /\ [][Next]_vars /\ Fairness

----------------------------------------------------------------------------
Connected == \E i \in DOMAIN events : events[i] = "Connected"

(* Both sides go by the same capabilities, whatever each was configured    *)
(* with (connection.rs:749 and connector.rs:302 both intersect), and a     *)
(* side that requires Enhanced RTMP is not connected without.              *)
NegotiationAgrees ==
    Connected =>
        /\ client.caps = server.caps
        /\ "EnhancedOnly" \in {config.client_mode, config.server_mode} => client.caps # None

(* Whoever reads a message that may take several chunks expects them to be *)
(* as long as the writer has cut them, although both change their sizes    *)
(* while messages are on their way (connection.rs:232, connector.rs:238).  *)
Long(chunk) ==
    chunk.message_type \in {MessageType.Command, MessageType.Audio}

ChunkSizesAgree ==
    /\ Serving /\ to_server # << >> /\ Long(Head(to_server)) =>
          Head(to_server).chunk_size = server.chunk_in
    /\ client.at # "done" /\ to_client # << >> /\ Long(Head(to_client)) =>
          Head(to_client).chunk_size = client.chunk_in

(* A publisher that was told it publishes does: as long as its connection  *)
(* is served, the registry holds its key for it (connector.rs:417).        *)
PublishingIsHeld ==
    client.at = "published" /\ Serving => streams[<<App, Name>>].publisher = Me

(* An application that was connected is told how it ended, once and last,  *)
(* and the end of a stream is never taken for a failure: the server says   *)
(* so before it closes (connection.rs:399, puller.rs:114).                 *)
EndIsTold ==
    client.at = "done" /\ Puller /\ "Disconnected" \in {events[i] : i \in DOMAIN events} =>
        /\ events[Len(events)] = "Disconnected"
        /\ events[Len(events) - 1] =
               IF ended_by = "stream_end" THEN "StreamEnd" ELSE "Error"
        /\ \A i \in 2..Len(events) - 2 : events[i] = "AudioTag"

(* No request is waited for without end, answered or not, although the     *)
(* client has no timer for it: play on a stream that is not there          *)
(* (connection.rs:1145) and a redirection (connection.rs:1151) end with    *)
(* the server's.                                                           *)
RequestsEnd == client.at \in Waits ~> client.at \notin Waits

(* A client that is gone holds no key for ever, whatever it was doing when *)
(* it went (connection.rs:337).                                            *)
TheGoneHoldNothing ==
    client.at = "done" ~> \A k \in Key : streams[k].publisher # Me

----------------------------------------------------------------------------
(* What a comment of the code says and the code does not keep.             *)

(* publisher.rs: once connect has returned, audio can be sent.             *)
AudioIsTaken == ended_by # "no_stream"
=============================================================================
