------------------------------ MODULE Transport ------------------------------
(***************************************************************************)
(* One connection below the level of messages: the handshake of both roles *)
(* (src/protocol/handshake.rs and its drivers in server/connection.rs and  *)
(* client/connector.rs) and then the chunks of one direction, from Sender  *)
(* to Receiver.  The network keeps the order of bytes and cuts them        *)
(* anywhere.  The sender may be another implementation: it may interleave  *)
(* the chunks of different chunk streams, abort a message, and run ahead   *)
(* in the handshake.  Encode lays out a message at once, as the code does; *)
(* Write puts its chunks on the wire.                                      *)
(***************************************************************************)
EXTENDS ChunkCodec, SequencesExt

CONSTANTS
    Receiver,           \* "server" or "client": who reads the chunks
    Eager,              \* whether a client may run ahead: subset of BOOLEAN
    Versions,           \* versions the peers announce in C0 and S0
    DefaultChunkSize,   \* DEFAULT_CHUNK_SIZE, in words
    ChunkSizes,         \* sizes a sender may switch to
    CommandCsids,       \* chunk streams of commands, which have timestamp 0
    MediaCsids,         \* chunk streams of media, all of one message stream
    CommandLengths,     \* lengths of commands, in words
    Lengths,            \* lengths of media, in words
    Times,              \* timestamps of media
    MaxMessages         \* bound: messages the sender sends

VARIABLES
    state,              \* phase of the handshake of each role
    wire,               \* what is on its way to a role
    read_buf,           \* what a role has read and not consumed
    encoder, out_size,  \* ChunkEncoder of the sender
    outbox,             \* chunks of each chunk stream not yet written
    decoder, in_size,   \* ChunkDecoder of the receiver
    reading,            \* the receiver looks at its buffer or waits for the socket
    derailed,           \* the receiver has read something for what it is not
    number,             \* messages sent so far, control messages included
    sent, received      \* history: what was sent and not taken back, what arrived

vars == <<state, wire, read_buf, encoder, out_size, outbox, decoder, in_size,
          reading, derailed, number, sent, received>>

senderVars == <<encoder, out_size, outbox, number, sent>>
receiverVars == <<decoder, in_size, reading, received>>

Roles == {"client", "server"}
Sender == CHOOSE r \in Roles : r # Receiver

RTMP_VERSION == 3
CSID_PROTOCOL_CONTROL == 2
MSG_SET_CHUNK_SIZE == 1
MSG_ABORT == 2
MSG_VIDEO == 9
MSG_COMMAND_AMF0 == 20

(* Chunk stream 2 is the protocol's own; commands and media have others,   *)
(* each its own.  Lengths have 24 bits, and a message is not empty.        *)
ASSUME TransportAssumption ==
    /\ Receiver \in Roles
    /\ Eager \subseteq BOOLEAN
    /\ DefaultChunkSize \in 1 .. MaxChunkSize /\ ChunkSizes \subseteq Nat \ {0}
    /\ \A c \in CommandCsids \cup MediaCsids : IsCsid(c) /\ c # CSID_PROTOCOL_CONTROL
    /\ CommandCsids \cap MediaCsids = {}
    /\ CommandLengths \subseteq 1 .. Threshold /\ Lengths \subseteq 1 .. Threshold
    /\ Times \subseteq 0 .. TimeModulus - 1
    /\ MaxMessages \in Nat

DataCsids == CommandCsids \cup MediaCsids
Csids == DataCsids \cup {CSID_PROTOCOL_CONTROL}

Init ==
    /\ state = [r \in Roles |-> IF r = "client" THEN "Initial" ELSE "WaitingForPeerPacket"]
    /\ wire = [r \in Roles |-> << >>]
    /\ read_buf = [r \in Roles |-> << >>]
    /\ encoder = [c \in Csids |-> Fresh] /\ out_size = DefaultChunkSize
    /\ outbox = [c \in Csids |-> << >>]
    /\ decoder = [c \in Csids |-> Fresh] /\ in_size = DefaultChunkSize
    /\ reading = "buffer"
    /\ derailed = FALSE
    /\ number = 0
    /\ sent = [c \in DataCsids |-> << >>]
    /\ received = [c \in DataCsids |-> << >>]

----------------------------------------------------------------------------
(* Handshake.  A packet is C1, S1, C2 or S2; its contents are not checked. *)

Version(v) == [kind |-> "version", version |-> v]
Packet == [kind |-> "packet"]

Waiting(r) == state[r] \in {"WaitingForPeerPacket", "WaitingForPeerResponse"}

(* bytes_needed, which the server asks before it reads, in units.  The     *)
(* client reads until process has all it wants.                            *)
UnitsNeeded(r) ==
    IF r = "client" THEN 3
    ELSE IF state[r] = "WaitingForPeerPacket" THEN 2 ELSE 1

(* A slip: the handshake is given all that has been read.                  *)
ConsumeAll(r, n) ==
    /\ derailed' = (derailed \/ \E i \in 1 .. n : read_buf[r][i].kind \notin {"version", "packet"})
    /\ read_buf' = [read_buf EXCEPT ![r] = << >>]

(* process takes the first n units, whatever they are.                     *)
Consume(r, n) ==
    /\ derailed' = (derailed \/ \E i \in 1 .. n : read_buf[r][i].kind \notin {"version", "packet"})
    /\ read_buf' = [read_buf EXCEPT ![r] = SubSeq(@, n + 1, Len(@))]

(* The client sends C0 and C1.  An eager client sends C2 as well and does  *)
(* not wait for the answer.                                                *)
ClientHello ==
    /\ state["client"] = "Initial"
    /\ \E v \in Versions, eager \in Eager :
          /\ eager => Receiver = "server"
          /\ wire' = [wire EXCEPT !["server"] =
                        << Version(v), Packet >> \o IF eager THEN << Packet >> ELSE << >>]
          /\ state' = [state EXCEPT !["client"] =
                        IF eager THEN "Done" ELSE "WaitingForPeerPacket"]
    /\ UNCHANGED <<read_buf, derailed, senderVars, receiverVars>>

(* C0 and C1 are in: S0, S1 and S2 go out, unless the version is refused.  *)
(* An eager client does not read them.                                     *)
ServerPeerPacket ==
    /\ state["server"] = "WaitingForPeerPacket"
    /\ Len(read_buf["server"]) >= 2
    /\ Consume("server", 2)
    /\ IF Head(read_buf["server"]).version < RTMP_VERSION
       THEN /\ state' = [state EXCEPT !["server"] = "Failed"]
            /\ UNCHANGED wire
       ELSE /\ state' = [state EXCEPT !["server"] = "WaitingForPeerResponse"]
            /\ IF state["client"] = "Done" THEN UNCHANGED wire
               ELSE \E v \in Versions :
                       wire' = [wire EXCEPT !["client"] = << Version(v), Packet, Packet >>]
    /\ UNCHANGED <<senderVars, receiverVars>>

(* C2 is in.                                                               *)
ServerPeerResponse ==
    /\ state["server"] = "WaitingForPeerResponse"
    /\ Len(read_buf["server"]) >= 1
    /\ Consume("server", 1)
    /\ state' = [state EXCEPT !["server"] = "Done"]
    /\ UNCHANGED <<wire, senderVars, receiverVars>>

(* S0, S1 and S2 are in: C2 goes out.                                      *)
ClientPeerPacket ==
    /\ state["client"] = "WaitingForPeerPacket"
    /\ Len(read_buf["client"]) >= 3
    /\ Consume("client", 3)
    /\ IF Head(read_buf["client"]).version < RTMP_VERSION
       THEN /\ state' = [state EXCEPT !["client"] = "Failed"]
            /\ UNCHANGED wire
       ELSE /\ state' = [state EXCEPT !["client"] = "Done"]
            /\ wire' = [wire EXCEPT !["server"] = Append(@, Packet)]
    /\ UNCHANGED <<senderVars, receiverVars>>

(* The timeout around do_handshake.                                        *)
HandshakeTimeout(r) ==
    /\ Waiting(r)
    /\ state' = [state EXCEPT ![r] = "Failed"]
    /\ UNCHANGED <<wire, read_buf, derailed, senderVars, receiverVars>>

(* read_buf().await gives some of what is there.                           *)
Read(r) ==
    /\ \/ Waiting(r) /\ Len(read_buf[r]) < UnitsNeeded(r)
       \/ r = Receiver /\ state[r] = "Done" /\ reading = "socket"
    /\ \E n \in 1 .. Len(wire[r]) :
          /\ read_buf' = [read_buf EXCEPT ![r] = @ \o SubSeq(wire[r], 1, n)]
          /\ wire' = [wire EXCEPT ![r] = SubSeq(@, n + 1, Len(@))]
    /\ reading' = IF state[r] = "Done" THEN "buffer" ELSE reading
    /\ UNCHANGED <<state, derailed, senderVars, decoder, in_size, received>>

----------------------------------------------------------------------------
(* Sender.                                                                 *)

(* A payload that names the message and the position in it.                *)
Words(n, length) == [i \in 1 .. length |-> << n, i >>]

(* The messages of the server and of the client: commands have timestamp 0 *)
(* and any message stream, media have one message stream and timestamps    *)
(* that do not go back.                                                    *)
Traffic ==
    [csid : CommandCsids, timestamp : {0}, message_type : {MSG_COMMAND_AMF0},
     stream_id : {0, 1}, payload : {Words(number + 1, n) : n \in CommandLengths}]
    \cup
    {m \in [csid : MediaCsids, timestamp : Times, message_type : {MSG_VIDEO},
            stream_id : {1}, payload : {Words(number + 1, n) : n \in Lengths}] :
        m.timestamp >= encoder[m.csid].timestamp}

(* SetChunkSize and Abort carry a number.                                  *)
Control(type, value) ==
    [csid |-> CSID_PROTOCOL_CONTROL, timestamp |-> 0, message_type |-> type,
     stream_id |-> 0, payload |-> << << value, 0 >> >>]

(* ChunkEncoder::encode into the outbox.                                   *)
Put(m) ==
    /\ encoder' = [encoder EXCEPT ![m.csid] = Encoded(m, @)]
    /\ outbox' = [outbox EXCEPT ![m.csid] = Encode(m, encoder[m.csid], out_size)]
    /\ number' = number + 1

(* A connection whose handshake has failed is closed.                      *)
CanSend ==
    /\ state[Sender] = "Done" /\ state[Receiver] # "Failed"
    /\ number < MaxMessages

(* Any message but the control messages below.                             *)
Send(m) ==
    /\ CanSend
    /\ outbox[m.csid] = << >>
    /\ Put(m)
    /\ sent' = [sent EXCEPT ![m.csid] = Append(@, m)]
    /\ UNCHANGED <<state, wire, read_buf, out_size, receiverVars, derailed>>

(* The size changes for all that is encoded after the announcement, which  *)
(* goes out between messages.                                              *)
SendSetChunkSize(size) ==
    /\ CanSend
    /\ \A c \in Csids : outbox[c] = << >>
    /\ Put(Control(MSG_SET_CHUNK_SIZE, size))
    /\ out_size' = ChunkSize(size)
    /\ UNCHANGED <<state, wire, read_buf, sent, receiverVars, derailed>>

(* Another implementation gives up a message whose first chunks are out.   *)
(* Only the server honours it.                                             *)
SendAbort(c) ==
    /\ CanSend
    /\ Receiver = "server"
    /\ outbox[CSID_PROTOCOL_CONTROL] = << >>
    /\ outbox[c] # << >> /\ Head(outbox[c]).number > 1
    /\ LET m == Control(MSG_ABORT, c)
       IN  /\ encoder' = [encoder EXCEPT ![m.csid] = Encoded(m, @)]
           /\ outbox' = [outbox EXCEPT ![m.csid] = Encode(m, encoder[m.csid], out_size),
                                       ![c] = << >>]
    /\ number' = number + 1
    /\ sent' = [sent EXCEPT ![c] = Front(@)]
    /\ UNCHANGED <<state, wire, read_buf, out_size, receiverVars, derailed>>

(* ChunkEncoder::reset, at the end of a stream.                            *)
Reset ==
    /\ CanSend
    /\ encoder # [c \in Csids |-> Fresh]
    /\ encoder' = [c \in Csids |-> Fresh]
    /\ number' = number + 1
    /\ UNCHANGED <<state, wire, read_buf, out_size, outbox, sent, receiverVars, derailed>>

(* The next chunk of a chunk stream goes out, control messages first.      *)
Write(c) ==
    /\ outbox[c] # << >>
    /\ c = CSID_PROTOCOL_CONTROL \/ outbox[CSID_PROTOCOL_CONTROL] = << >>
    /\ wire' = [wire EXCEPT ![Receiver] = @ \o Units(Head(outbox[c]))]
    /\ outbox' = [outbox EXCEPT ![c] = Tail(@)]
    /\ UNCHANGED <<state, read_buf, encoder, out_size, number, sent, receiverVars, derailed>>

----------------------------------------------------------------------------
(* Receiver.                                                               *)

Buffer == read_buf[Receiver]

NextHeader == Buffer[1].header

NextState == decoder[Csid(NextHeader.basic)]

(* What is next in the buffer is no header.                                *)
Misplaced == IF Buffer = << >> THEN FALSE ELSE Buffer[1].kind # "header"

(* The buffer starts with a header and holds the whole chunk.              *)
ChunkReady ==
    /\ Buffer # << >> /\ ~Misplaced
    /\ Len(Buffer) >= ChunkLength(NextHeader, NextState, in_size)

Decoding == state[Receiver] = "Done" /\ reading = "buffer" /\ ~derailed

(* A slip: everybody asks for more at once.                                *)
AfterPartialChunkWait == "socket"

(* The server asks for more only when decode has consumed nothing.  The    *)
(* client's read_message asks whenever decode gives no message.            *)
AfterPartialChunk == IF Receiver = "server" THEN "buffer" ELSE "socket"

(* What handle_chunk makes of the size of incoming chunks.  The client     *)
(* takes SetChunkSize while it connects or starts to publish and ignores   *)
(* it at other times.                                                      *)
SizesAfter(m) ==
    (IF m.message_type = MSG_SET_CHUNK_SIZE THEN {ChunkSize(m.payload[1][1])} ELSE {in_size})
    \cup (IF Receiver = "client" THEN {in_size} ELSE {})

(* decode gives nothing and consumes nothing.                              *)
DecodeNothing ==
    /\ ~ChunkReady
    /\ reading' = "socket"
    /\ UNCHANGED <<state, wire, read_buf, senderVars, decoder, in_size, received, derailed>>

(* The streams of the decoder after a complete message, Abort handled.     *)
StreamsAfter(c, s, m) ==
    LET done == [decoder EXCEPT ![c] = Emptied(s)]
    IN  IF m.message_type = MSG_ABORT /\ Receiver = "server"
        THEN [done EXCEPT ![m.payload[1][1]] = Emptied(@)]
        ELSE done

(* decode consumes a chunk; what it gives is handled at once.              *)
DecodeChunk ==
    /\ ChunkReady
    /\ LET c        == Csid(NextHeader.basic)
           n        == ChunkLength(NextHeader, NextState, in_size)
           units    == SubSeq(Buffer, 1, n)
           skip     == IF ExtendedPeeked(NextHeader, NextState) THEN 2 ELSE 1
           extended == IF skip = 2 THEN units[2].time ELSE 0
           s        == DataRead(HeaderRead(NextHeader, NextState, extended),
                                [i \in 1 .. n - skip |-> units[skip + i].word])
           m        == MessageOf(s, c)
       IN  /\ IF MessageComplete(s)
              THEN /\ decoder' = StreamsAfter(c, s, m)
                   /\ received' = IF c \in DataCsids
                                  THEN [received EXCEPT ![c] = Append(@, m)] ELSE received
                   /\ in_size' \in SizesAfter(m)
                   /\ reading' = "buffer"
              ELSE /\ decoder' = [decoder EXCEPT ![c] = s]
                   /\ reading' = AfterPartialChunk
                   /\ UNCHANGED <<received, in_size>>
           /\ read_buf' = [read_buf EXCEPT ![Receiver] = SubSeq(@, n + 1, Len(@))]
    /\ UNCHANGED <<state, wire, senderVars, derailed>>

(* What is next is no header, or the chunk has not the parts it should     *)
(* have: the decoder takes one thing for another and reads on at the wrong *)
(* place.  What it makes of it is not followed.                            *)
OffTrack ==
    IF Misplaced THEN TRUE
    ELSE /\ ChunkReady
         /\ ~WellPlaced(SubSeq(Buffer, 1, ChunkLength(NextHeader, NextState, in_size)),
                        NextHeader, NextState)

(* decode of what the buffer holds.                                        *)
Decode ==
    /\ Decoding
    /\ IF OffTrack
       THEN /\ derailed' = TRUE
            /\ UNCHANGED <<state, wire, read_buf, senderVars, receiverVars>>
       ELSE DecodeNothing \/ DecodeChunk

----------------------------------------------------------------------------
Handshaking ==
    \/ ClientHello \/ ServerPeerPacket \/ ServerPeerResponse \/ ClientPeerPacket
    \/ \E r \in Roles : HandshakeTimeout(r)

Sending ==
    \/ \E m \in Traffic : Send(m)
    \/ \E size \in ChunkSizes : SendSetChunkSize(size)
    \/ \E c \in DataCsids : SendAbort(c)
    \/ Reset
    \/ \E c \in Csids : Write(c)

Next == Handshaking \/ Sending \/ Decode \/ \E r \in Roles : Read(r)

(* What the tasks of both sides and the network do when nobody begins      *)
(* anything new.                                                           *)
Working ==
    \/ ServerPeerPacket \/ ServerPeerResponse \/ ClientPeerPacket
    \/ \E r \in Roles : Read(r)
    \/ \E c \in Csids : Write(c)
    \/ Decode

(* Something moves as long as something can.  Nobody has to send.          *)
Fairness == WF_vars(Working)

Spec == Init /\ [][Next]_vars /\ Fairness

----------------------------------------------------------------------------
(* The states have their shape.                                            *)
TypeOK ==
    /\ state \in [Roles -> {"Initial", "WaitingForPeerPacket", "WaitingForPeerResponse",
                            "Done", "Failed"}]
    /\ reading \in {"buffer", "socket"}
    /\ derailed \in BOOLEAN
    /\ number \in 0 .. MaxMessages
    /\ in_size \in 1 .. MaxChunkSize /\ out_size \in 1 .. MaxChunkSize
    /\ \A c \in DataCsids : Len(received[c]) <= Len(sent[c])

(* Handshake and chunks make a lossless channel: whatever the cuts of the  *)
(* bytes, the interleaving of chunk streams, the sizes of chunks, aborts   *)
(* and resets, each message arrives as it was sent, in its turn, and in    *)
(* the end.                                                                *)
Channel == INSTANCE MessageChannel WITH
    Csids <- DataCsids,
    queue <- [c \in DataCsids |-> SubSeq(sent[c], Len(received[c]) + 1, Len(sent[c]))],
    up <- \A r \in Roles : state[r] # "Failed"

ChannelSpec == Channel!ChannelSpec

(* Reader and writer agree on where chunks begin: the handshake leaves the *)
(* first chunk alone, and no chunk is taken to be longer or shorter than   *)
(* it is.                                                                  *)
StaysOnTrack == ~derailed

(* Once all of a chunk stream has been read, both ends remember the same   *)
(* of it, so that the next short header means to one what it means to the  *)
(* other.                                                                  *)
EndsAgree ==
    ~derailed =>
    \A c \in Csids :
        /\ outbox[c] = << >> /\ encoder[c] # Fresh /\ wire[Receiver] = << >> /\ Buffer = << >>
        => \A f \in {"timestamp", "timestamp_delta", "message_length", "message_type",
                     "stream_id", "has_extended_timestamp"} :
              encoder[c][f] = decoder[c][f]

(* The receiver waits for the socket only when its buffer holds no chunk   *)
(* it could still decode.                                                  *)
WaitsOnlyWhenDry ==
    state[Receiver] = "Done" /\ reading = "socket" /\ ~derailed => ~ChunkReady
=============================================================================
