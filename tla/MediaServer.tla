---------------------------- MODULE MediaServer ----------------------------
(***************************************************************************)
(* The connections of the server (src/server/connection.rs) on top of the  *)
(* stream registry: the main loop of every connection, the commands that   *)
(* create, publish, play, close and delete streams, the two ways a         *)
(* connection ends, and the cleanup that follows, one registry call at a   *)
(* time.                                                                   *)
(*                                                                         *)
(* A connection is one task.  Between two awaits it runs alone, and every  *)
(* handler below changes state between awaits only once, so a handler is   *)
(* one step; what may follow it - a response that cannot be sent, a drop   *)
(* of the handler by the biased select! - is LoopEnds or NextIteration.    *)
(* Media messages change nothing here (Subscriber.tla is about them).      *)
(***************************************************************************)
EXTENDS StreamRegistry, FiniteSets
LOCAL INSTANCE FiniteSetsExt

CONSTANTS
    NoKey,          \* None
    MaxStreams,     \* bound: createStream calls per connection
    MaxPlays,       \* bound: play commands per connection
    MaxCalls        \* bound: createStream and play, all connections together

ASSUME ServerAssumption ==
    /\ NoKey \notin Key
    /\ MaxStreams \in Nat
    /\ MaxPlays \in Nat

VARIABLES
    phase,          \* where the task of the connection is
    publishing_to,  \* Connection.publishing_to
    subscribed_to,  \* Connection.subscribed_to
    frame_rx,       \* Connection.frame_rx: the channel it receives from
    taken,          \* the local frame_rx of the main loop
    msg_streams,    \* SessionState.streams: mode and key per message stream
    next_stream_id, \* SessionState.next_stream_id
    \* History, read by the properties only:
    plays,          \* number of subscriptions
    joined,         \* channel of the last subscription
    miscounted      \* keys whose entry has met an unbalanced unsubscribe or play

connVars == <<phase, publishing_to, subscribed_to, frame_rx, taken,
              msg_streams, next_stream_id>>
historyVars == <<plays, joined, miscounted>>
vars == <<streams, nextChan, phase, publishing_to, subscribed_to, frame_rx, taken,
          msg_streams, next_stream_id, plays, joined, miscounted>>

Phase == {"waiting", "opening", "serving", "unregistering", "unsubscribing",
          "leaving", "closed"}

(* Message stream ids a client may name: those createStream may give it,   *)
(* and one that is never created, as 0 is, the control stream.             *)
StreamId == 1 .. MaxStreams + 1

Gone == [mode |-> "Absent", key |-> NoKey]

MsgStream == [mode : {"Absent", "Idle", "Publishing", "Playing"}, key : Key \cup {NoKey}]

Init ==
    /\ RegistryInit
    /\ phase = [s \in Session |-> "waiting"]
    /\ publishing_to = [s \in Session |-> NoKey]
    /\ subscribed_to = [s \in Session |-> NoKey]
    /\ frame_rx = [s \in Session |-> NoChan]
    /\ taken = [s \in Session |-> NoChan]
    /\ msg_streams = [s \in Session |-> [id \in StreamId |-> Gone]]
    /\ next_stream_id = [s \in Session |-> 1]
    /\ plays = [s \in Session |-> 0]
    /\ joined = [s \in Session |-> NoChan]
    /\ miscounted = {}

(* createStream and play are bounded for all connections together.         *)
WithinBound ==
    MapThenSumSet(LAMBDA s : next_stream_id[s] - 1 + plays[s], Session) < MaxCalls

GoTo(s, p) == phase' = [phase EXCEPT ![s] = p]

----------------------------------------------------------------------------
(* The start of run.                                                       *)

(* on_connection is called and accepts.                                    *)
Open(s) ==
    /\ phase[s] = "waiting"
    /\ GoTo(s, "opening")
    /\ UNCHANGED <<registryVars, publishing_to, subscribed_to, frame_rx, taken,
                   msg_streams, next_stream_id, historyVars>>

(* on_connection rejected, the handshake failed or timed out, or the chunk *)
(* size could not be sent: run returns at once, without any cleanup.       *)
OpenFails(s) ==
    /\ phase[s] = "opening"
    /\ GoTo(s, "closed")
    /\ UNCHANGED <<registryVars, publishing_to, subscribed_to, frame_rx, taken,
                   msg_streams, next_stream_id, historyVars>>

(* Handshake done and chunk size sent: the main loop begins.               *)
Serve(s) ==
    /\ phase[s] = "opening"
    /\ GoTo(s, "serving")
    /\ UNCHANGED <<registryVars, publishing_to, subscribed_to, frame_rx, taken,
                   msg_streams, next_stream_id, historyVars>>

----------------------------------------------------------------------------
(* The main loop.                                                          *)

(* The end of one iteration and the start of the next.  The iteration took *)
(* frame_rx into a local variable and puts it back at its end, over        *)
(* whatever a handler has stored there meanwhile.                          *)
NextIteration(s) ==
    /\ phase[s] = "serving"
    /\ frame_rx[s] # NoChan
    /\ taken' = [taken EXCEPT ![s] = IF @ # NoChan THEN @ ELSE frame_rx[s]]
    /\ frame_rx' = [frame_rx EXCEPT ![s] = NoChan]
    /\ UNCHANGED <<registryVars, phase, publishing_to, subscribed_to, msg_streams,
                   next_stream_id, historyVars>>

Live(c) == \E k \in Key : streams[k].chan = c

(* A slip: the loop goes on after Closed.                                  *)
StreamEndIgnored(s) ==
    /\ phase[s] = "serving"
    /\ taken[s] # NoChan
    /\ ~Live(taken[s])
    /\ UNCHANGED vars

(* recv returns Closed: the entry, and with it the sender, has been        *)
(* dropped.  handle_stream_ended tells the client and the loop ends.       *)
StreamEnded(s) ==
    /\ phase[s] = "serving"
    /\ taken[s] # NoChan
    /\ ~Live(taken[s])
    /\ GoTo(s, "unregistering")
    /\ UNCHANGED <<registryVars, publishing_to, subscribed_to, frame_rx, taken,
                   msg_streams, next_stream_id, historyVars>>

(* Every other way out of the loop: the peer closes, the idle timeout, an  *)
(* error of the protocol, a callback that rejects, media without a         *)
(* publishing stream, a subscriber that is too slow, a send that fails.    *)
LoopEnds(s) ==
    /\ phase[s] = "serving"
    /\ GoTo(s, "unregistering")
    /\ UNCHANGED <<registryVars, publishing_to, subscribed_to, frame_rx, taken,
                   msg_streams, next_stream_id, historyVars>>

----------------------------------------------------------------------------
(* The commands.                                                           *)

(* A slip: the id is counted twice.                                        *)
CreateStreamTwice(s) ==
    /\ phase[s] = "serving"
    /\ WithinBound /\ next_stream_id[s] <= MaxStreams
    /\ msg_streams' = [msg_streams EXCEPT
           ![s][next_stream_id[s]] = [mode |-> "Idle", key |-> NoKey]]
    /\ next_stream_id' = [next_stream_id EXCEPT ![s] = @ + 2]
    /\ UNCHANGED <<registryVars, phase, publishing_to, subscribed_to, frame_rx, taken,
                   historyVars>>

CreateStream(s) ==
    /\ phase[s] = "serving"
    /\ WithinBound /\ next_stream_id[s] <= MaxStreams
    /\ msg_streams' = [msg_streams EXCEPT
           ![s][next_stream_id[s]] = [mode |-> "Idle", key |-> NoKey]]
    /\ next_stream_id' = [next_stream_id EXCEPT ![s] = @ + 1]
    /\ UNCHANGED <<registryVars, phase, publishing_to, subscribed_to, frame_rx, taken,
                   historyVars>>

(* The message stream goes; the registry is not told.                      *)
DeleteStream(s, id) ==
    /\ phase[s] = "serving"
    /\ msg_streams[s][id].mode # "Absent"
    /\ msg_streams' = [msg_streams EXCEPT ![s][id] = Gone]
    /\ UNCHANGED <<registryVars, phase, publishing_to, subscribed_to, frame_rx, taken,
                   next_stream_id, historyVars>>

CloseStream(s, id) ==
    /\ phase[s] = "serving"
    /\ msg_streams[s][id].mode \notin {"Absent", "Idle"}
    /\ msg_streams' = [msg_streams EXCEPT ![s][id].mode = "Idle"]
    /\ UNCHANGED <<registryVars, phase, publishing_to, subscribed_to, frame_rx, taken,
                   next_stream_id, historyVars>>

(* start_publish and start_play act on a stream that was created; the      *)
(* other effects of publish and play do not need one.                      *)
Start(s, id, mode, k) ==
    msg_streams' = IF msg_streams[s][id].mode = "Absent" THEN msg_streams
                   ELSE [msg_streams EXCEPT ![s][id] = [mode |-> mode, key |-> k]]

(* publish, accepted by on_publish and by the registry.                    *)
Publish(s, id, k) ==
    /\ phase[s] = "serving"
    /\ RegisterPublisher(k, s)
    /\ publishing_to' = [publishing_to EXCEPT ![s] = k]
    /\ Start(s, id, "Publishing", k)
    /\ miscounted' = IF Exists(k) THEN miscounted ELSE miscounted \ {k}
    /\ UNCHANGED <<phase, subscribed_to, frame_rx, taken, next_stream_id,
                   plays, joined>>

(* publish on a key somebody publishes: a status, and the loop ends.       *)
PublishRefused(s, k) ==
    /\ phase[s] = "serving"
    /\ AlreadyPublishing(k)
    /\ GoTo(s, "unregistering")
    /\ UNCHANGED <<registryVars, publishing_to, subscribed_to, frame_rx, taken,
                   msg_streams, next_stream_id, historyVars>>

(* play, accepted by on_play and by the registry.  The subscription of an  *)
(* earlier play is overwritten, not given back.                            *)
Play(s, id, k) ==
    /\ phase[s] = "serving"
    /\ WithinBound /\ plays[s] < MaxPlays
    /\ Subscribe(k)
    /\ plays' = [plays EXCEPT ![s] = @ + 1]
    /\ subscribed_to' = [subscribed_to EXCEPT ![s] = k]
    /\ frame_rx' = [frame_rx EXCEPT ![s] = streams[k].chan]
    /\ Start(s, id, "Playing", k)
    /\ joined' = [joined EXCEPT ![s] = streams[k].chan]
    /\ miscounted' = miscounted \cup ({subscribed_to[s]} \ {NoKey})
    /\ UNCHANGED <<phase, publishing_to, taken, next_stream_id>>

----------------------------------------------------------------------------
(* The end of run: cleanup_on_disconnect and on_disconnect.                *)

(* Slips: a connection that plays is taken for a subscriber only; one      *)
(* without a publishing message stream for no publisher; the entry of a    *)
(* publisher that leaves is removed at once.                               *)
UnregisterUnlessPlaying(s) ==
    /\ phase[s] = "unregistering"
    /\ GoTo(s, "unsubscribing")
    /\ IF /\ subscribed_to[s] = NoKey
          /\ \E k \in Key : publishing_to[s] = k /\ streams[k].publisher = s
       THEN UnregisterPublisher(publishing_to[s], s)
       ELSE UNCHANGED registryVars
    /\ UNCHANGED <<publishing_to, subscribed_to, frame_rx, taken, msg_streams,
                   next_stream_id, historyVars>>

UnregisterByStream(s) ==
    /\ phase[s] = "unregistering"
    /\ GoTo(s, "unsubscribing")
    /\ IF /\ \E id \in StreamId : msg_streams[s][id].mode = "Publishing"
          /\ \E k \in Key : publishing_to[s] = k /\ streams[k].publisher = s
       THEN UnregisterPublisher(publishing_to[s], s)
       ELSE UNCHANGED registryVars
    /\ UNCHANGED <<publishing_to, subscribed_to, frame_rx, taken, msg_streams,
                   next_stream_id, historyVars>>

RemoveOnDisconnect(s) ==
    /\ phase[s] = "unregistering"
    /\ GoTo(s, "unsubscribing")
    /\ streams' = [k \in Key |-> IF publishing_to[s] = k THEN NoEntry ELSE streams[k]]
    /\ UNCHANGED <<nextChan, publishing_to, subscribed_to, frame_rx, taken, msg_streams,
                   next_stream_id, historyVars>>

UnregisterOnDisconnect(s) ==
    /\ phase[s] = "unregistering"
    /\ GoTo(s, "unsubscribing")
    /\ IF \E k \in Key : publishing_to[s] = k /\ streams[k].publisher = s
       THEN UnregisterPublisher(publishing_to[s], s)
       ELSE UNCHANGED registryVars
    /\ UNCHANGED <<publishing_to, subscribed_to, frame_rx, taken, msg_streams,
                   next_stream_id, historyVars>>

(* unsubscribe goes by key: it finds the entry that has the key now.       *)
UnsubscribeOnDisconnect(s) ==
    /\ phase[s] = "unsubscribing"
    /\ GoTo(s, "leaving")
    /\ IF \E k \in Key : subscribed_to[s] = k /\ Exists(k)
       THEN /\ Unsubscribe(subscribed_to[s])
            /\ miscounted' = IF streams[subscribed_to[s]].chan = joined[s] THEN miscounted
                             ELSE miscounted \cup {subscribed_to[s]}
       ELSE UNCHANGED <<registryVars, miscounted>>
    /\ UNCHANGED <<publishing_to, subscribed_to, frame_rx, taken, msg_streams,
                   next_stream_id, plays, joined>>

(* on_disconnect, and the connection is dropped with its receiver.         *)
Leave(s) ==
    /\ phase[s] = "leaving"
    /\ GoTo(s, "closed")
    /\ frame_rx' = [frame_rx EXCEPT ![s] = NoChan]
    /\ taken' = [taken EXCEPT ![s] = NoChan]
    /\ msg_streams' = [msg_streams EXCEPT ![s] = [id \in StreamId |-> Gone]]
    /\ joined' = [joined EXCEPT ![s] = NoChan]
    /\ UNCHANGED <<registryVars, publishing_to, subscribed_to, next_stream_id,
                   plays, miscounted>>

----------------------------------------------------------------------------
(* The background tasks of the registry.                                   *)
CleanupTask == Cleanup /\ UNCHANGED <<connVars, historyVars>>
ClockTick   == Tick    /\ UNCHANGED <<connVars, historyVars>>

Command(s) ==
    \/ CreateStream(s)
    \/ \E id \in StreamId : DeleteStream(s, id) \/ CloseStream(s, id)
    \/ \E id \in StreamId, k \in Key : Publish(s, id, k) \/ Play(s, id, k)
    \/ \E k \in Key : PublishRefused(s, k)

Closing(s) == UnregisterOnDisconnect(s) \/ UnsubscribeOnDisconnect(s) \/ Leave(s)

Connection(s) ==
    \/ Open(s) \/ OpenFails(s) \/ Serve(s)
    \/ NextIteration(s) \/ StreamEnded(s) \/ LoopEnds(s)
    \/ Command(s)
    \/ Closing(s)

Next ==
    \/ \E s \in Session : Connection(s)
    \/ CleanupTask
    \/ ClockTick

(* The runtime runs every task that is ready: the cleanup after the loop,  *)
(* and the receiver of a channel that has closed.  A call of               *)
(* read_and_process returns with the next data or with the idle timeout.   *)
(* Assumed of the environment: a write to a client's socket returns, with  *)
(* success or with an error.  The code sets no timeout on writes.          *)
TurnOrTimeout(s) == NextIteration(s) \/ (frame_rx[s] # NoChan /\ LoopEnds(s))

Fairness ==
    /\ WF_vars(CleanupTask) /\ WF_vars(ClockTick)
    /\ \A s \in Session :
          /\ WF_vars(Closing(s))
          /\ WF_vars(StreamEnded(s))
          /\ WF_vars(TurnOrTimeout(s))

Spec == Init /\ [][Next]_vars /\ Fairness

----------------------------------------------------------------------------
(* Types of the registry and of the connections.                           *)
TypeOK ==
    /\ RegistryTypeOK
    /\ phase \in [Session -> Phase]
    /\ publishing_to \in [Session -> Key \cup {NoKey}]
    /\ subscribed_to \in [Session -> Key \cup {NoKey}]
    /\ frame_rx \in [Session -> Nat]
    /\ taken \in [Session -> Nat]
    /\ msg_streams \in [Session -> [StreamId -> MsgStream]]
    /\ next_stream_id \in [Session -> 1 .. MaxStreams + 1]
    /\ plays \in [Session -> 0 .. MaxPlays]
    /\ joined \in [Session -> Nat]
    /\ miscounted \in SUBSET Key

(* The cleanup of the connection has not yet unregistered it.              *)
BeforeCleanup(s) == phase[s] \notin {"unsubscribing", "leaving", "closed"}

(* The media a connection receives goes to the key it believes it          *)
(* publishes.  As long as it may still send, the registry agrees: nobody   *)
(* else, in no interleaving of disconnects, reconnects and cleanup rounds, *)
(* has taken the key, and the entry has not been removed under it.         *)
PublisherHoldsKey ==
    \A s \in Session :
        BeforeCleanup(s) /\ publishing_to[s] # NoKey =>
            /\ streams[publishing_to[s]].publisher = s
            /\ streams[publishing_to[s]].state = "Active"

(* No two connections broadcast to one key.                                *)
ExclusiveBroadcast ==
    \A s, t \in Session :
        /\ s # t /\ BeforeCleanup(s) /\ BeforeCleanup(t)
        /\ publishing_to[s] # NoKey
        => publishing_to[s] # publishing_to[t]

(* A connection past its cleanup no longer holds the key it published      *)
(* last, and no session id outlives its connection in another way than as  *)
(* the publisher of a key that connection has published.                   *)
LastKeyReleased ==
    \A s \in Session, k \in Key :
        streams[k].publisher = s =>
            /\ phase[s] \notin {"waiting", "opening"}
            /\ publishing_to[s] = k => BeforeCleanup(s)

Audience(k) == {s \in Session : /\ subscribed_to[s] = k
                                /\ joined[s] = streams[k].chan
                                /\ phase[s] \in {"serving", "unregistering", "unsubscribing"}}

(* subscriber_count is the number of connections that subscribed to the    *)
(* entry and have not unsubscribed, except after one of two events: a      *)
(* second play on one connection, and an unsubscribe that reaches a later  *)
(* entry of the same key.  Nothing else makes the count wrong.             *)
CountIsAudience ==
    \A k \in Key \ miscounted :
        Exists(k) => streams[k].count = Cardinality(Audience(k)) % CountModulus

(* The server uses the registry as its specification allows, with the      *)
(* fairness it needs.                                                      *)
RegistryIsUsedAsSpecified == RegistrySpec

(* No connection stays attached to a stream that has ended: the client is  *)
(* told and the connection closes, or the receiver has been replaced.      *)
Dangling(s) ==
    \E c \in {frame_rx[s], taken[s]} \ {NoChan} : ~Live(c)
NobodyDangles == \A s \in Session : Dangling(s) ~> ~Dangling(s)

----------------------------------------------------------------------------
(* What comments of the code say and the code does not keep.               *)

(* connection.rs 336-338: the cleanup unregisters a connection that was    *)
(* publishing.                                                             *)
DisconnectReleasesKeys ==
    \A s \in Session, k \in Key : phase[s] = "closed" => streams[k].publisher # s

(* connection.rs 147: subscribed_to is the stream the connection is        *)
(* subscribed to, hence the one whose frames it receives.                  *)
ReceiverMatchesSubscription ==
    \A s \in Session, k \in Key :
        /\ phase[s] = "serving" /\ frame_rx[s] = NoChan /\ taken[s] # NoChan
        /\ streams[k].chan = taken[s]
        => subscribed_to[s] = k
=============================================================================
