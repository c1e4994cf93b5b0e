------------------------- MODULE MediaServerProofs -------------------------
(***************************************************************************)
(* Proofs about the stream registry, for any keys, sessions, periods and   *)
(* counter width and for any clients, and about the server that uses it.   *)
(*                                                                         *)
(* The server's inductive invariant joins the registry's view of who       *)
(* publishes a key (publisher_id) with the view of each connection         *)
(* (publishing_to).  Neither is inductive alone: that nobody takes a key   *)
(* from a connection needs the registry to know the connection as its      *)
(* publisher, and that a key is given up in the cleanup needs the registry *)
(* to know nobody else.                                                    *)
(***************************************************************************)
EXTENDS MediaServer, FiniteSetTheorems, TLAPS

----------------------------------------------------------------------------
(* The registry.                                                           *)

(* Ageing an entry changes nothing but the time since the departure, and   *)
(* that stays a time.                                                      *)
LEMMA OlderFacts ==
    ASSUME NEW e \in Entry
    PROVE  /\ Older(e) \in Entry
           /\ Older(e).publisher = e.publisher
           /\ Older(e).count = e.count
           /\ Older(e).state = e.state
           /\ Older(e).chan = e.chan
           /\ Older(e).gone # Never <=> e.gone # Never
<1>1. AgeCap \in Nat \ {0}
  BY RegistryAssumption DEF AgeCap
<1> QED
  BY <1>1 DEF Older, Entry, Never

(* The empty entry has the type of entries.                                *)
LEMMA NoEntryIsEntry == NoEntry \in Entry
<1>1. AgeCap \in Nat \ {0}
  BY RegistryAssumption DEF AgeCap
<1> QED
  BY <1>1, RegistryAssumption DEF NoEntry, Entry, State, Never, NoChan

(* A change of publisher, state and departure yields an entry.             *)
LEMMA EntryUpdate ==
    ASSUME NEW e \in Entry, NEW p \in Session \cup {NoSession},
           NEW st \in State, NEW g \in Never .. AgeCap
    PROVE  [e EXCEPT !.publisher = p, !.gone = g, !.state = st] \in Entry
BY DEF Entry

(* The counter wraps inside its type, whatever the clients do.             *)
LEMMA CountWraps ==
    ASSUME NEW n \in 0 .. CountModulus - 1
    PROVE  /\ (n + 1) % CountModulus \in 0 .. CountModulus - 1
           /\ (n + CountModulus - 1) % CountModulus \in 0 .. CountModulus - 1
BY RegistryAssumption

----------------------------------------------------------------------------
(* Every step of the registry keeps the types.                             *)
LEMMA RegistryTypeStep ==
    ASSUME RegistryTypeOK, [RegistryNext]_registryVars
    PROVE  RegistryTypeOK'
<1> USE RegistryAssumption DEF RegistryTypeOK
<1>0. AgeCap \in Nat \ {0}
  BY DEF AgeCap
<1>1. ASSUME NEW k \in Key, NEW s \in Session, CreateEntry(k, s)
      PROVE  RegistryTypeOK'
  <2> DEFINE new == [NoEntry EXCEPT !.publisher = s, !.state = "Active",
                                    !.chan = nextChan]
  <2>1. new \in Entry
    BY NoEntryIsEntry DEF Entry, State
  <2>2. streams' = [streams EXCEPT ![k] = new] /\ nextChan' = nextChan + 1
    BY <1>1 DEF CreateEntry
  <2> HIDE DEF new
  <2> QED
    BY <2>1, <2>2
<1>2. ASSUME NEW k \in Key, NEW s \in Session, ReclaimEntry(k, s)
      PROVE  RegistryTypeOK'
  <2> DEFINE new == [streams[k] EXCEPT !.publisher = s, !.gone = Never,
                                       !.state = "Active"]
  <2>1. new \in Entry
    <3>1. Never \in Never .. AgeCap /\ 0 \in Never .. AgeCap
      BY <1>0 DEF Never
    <3>2. "Active" \in State /\ "GracePeriod" \in State /\ "Idle" \in State
      BY DEF State
    <3> QED
      BY <3>1, <3>2, EntryUpdate
  <2>2. streams' = [streams EXCEPT ![k] = new] /\ nextChan' = nextChan
    BY <1>2 DEF ReclaimEntry
  <2> HIDE DEF new
  <2> QED
    BY <2>1, <2>2
<1>3. ASSUME NEW k \in Key, NEW s \in Session, UnregisterPublisher(k, s)
      PROVE  RegistryTypeOK'
  <2> DEFINE new == [streams[k] EXCEPT
                       !.publisher = NoSession,
                       !.gone = 0,
                       !.state = IF streams[k].count > 0 THEN "GracePeriod" ELSE "Idle"]
  <2>1. new \in Entry
    <3>1. Never \in Never .. AgeCap /\ 0 \in Never .. AgeCap
      BY <1>0 DEF Never
    <3>2. "Active" \in State /\ "GracePeriod" \in State /\ "Idle" \in State
      BY DEF State
    <3> QED
      BY <3>1, <3>2, EntryUpdate
  <2>2. streams' = [streams EXCEPT ![k] = new] /\ nextChan' = nextChan
    BY <1>3 DEF UnregisterPublisher
  <2> HIDE DEF new
  <2> QED
    BY <2>1, <2>2
<1>4. ASSUME NEW k \in Key, Subscribe(k)
      PROVE  RegistryTypeOK'
  <2>1. (streams[k].count + 1) % CountModulus \in 0 .. CountModulus - 1
    BY CountWraps DEF Entry
  <2> QED
    BY <1>4, <2>1 DEF Subscribe, Entry
<1>5. ASSUME NEW k \in Key, Unsubscribe(k)
      PROVE  RegistryTypeOK'
  <2>1. (streams[k].count + CountModulus - 1) % CountModulus \in 0 .. CountModulus - 1
    BY CountWraps DEF Entry
  <2> QED
    BY <1>5, <2>1 DEF Unsubscribe, Entry
<1>6. CASE Cleanup
  BY <1>6, NoEntryIsEntry DEF Cleanup
<1>7. CASE Tick
  BY <1>7, OlderFacts DEF Tick
<1>8. CASE UNCHANGED registryVars
  BY <1>8 DEF registryVars
<1> QED
  BY <1>1, <1>2, <1>3, <1>4, <1>5, <1>6, <1>7, <1>8 DEF RegistryNext, RegisterPublisher
----------------------------------------------------------------------------
(* The empty registry has its types.                                       *)
LEMMA RegistryTypeInit == RegistryInit => RegistryTypeOK
BY NoEntryIsEntry DEF RegistryInit, RegistryTypeOK

(* Type correctness of the registry.                                       *)
THEOREM RegistryTypeCorrect == RegistrySafe => []RegistryTypeOK
<1>1. RegistryTypeOK /\ [RegistryNext]_registryVars => RegistryTypeOK'
  BY RegistryTypeStep
<1> QED
  BY RegistryTypeInit, <1>1, PTL DEF RegistrySafe

----------------------------------------------------------------------------
(* The fields of an entry that describe its publisher agree after every    *)
(* step: each step either writes all of them or none.                      *)
LEMMA ConsistentStep ==
    ASSUME RegistryTypeOK, EntryConsistent, [RegistryNext]_registryVars
    PROVE  EntryConsistent'
<1>0. NoSession \notin Session /\ Never # 0 /\ nextChan # NoChan
  BY RegistryAssumption DEF Never, NoChan, RegistryTypeOK
<1>1. ASSUME NEW k \in Key, NEW s \in Session, CreateEntry(k, s)
      PROVE  EntryConsistent'
  BY <1>0, <1>1 DEF CreateEntry, EntryConsistent, RegistryTypeOK, Entry, NoEntry
<1>2. ASSUME NEW k \in Key, NEW s \in Session, ReclaimEntry(k, s)
      PROVE  EntryConsistent'
  BY <1>0, <1>2 DEF ReclaimEntry, Exists, EntryConsistent, RegistryTypeOK, Entry
<1>3. ASSUME NEW k \in Key, NEW s \in Session, UnregisterPublisher(k, s)
      PROVE  EntryConsistent'
  BY <1>0, <1>3 DEF UnregisterPublisher, Exists, EntryConsistent, RegistryTypeOK, Entry
<1>4. ASSUME NEW k \in Key, Subscribe(k)
      PROVE  EntryConsistent'
  BY <1>4 DEF Subscribe, EntryConsistent, RegistryTypeOK, Entry
<1>5. ASSUME NEW k \in Key, Unsubscribe(k)
      PROVE  EntryConsistent'
  BY <1>5 DEF Unsubscribe, EntryConsistent, RegistryTypeOK, Entry
<1>6. CASE Cleanup
  BY <1>6 DEF Cleanup, EntryConsistent, RegistryTypeOK, NoEntry
<1>7. CASE Tick
  BY <1>7, OlderFacts DEF Tick, EntryConsistent, RegistryTypeOK
<1>8. CASE UNCHANGED registryVars
  BY <1>8 DEF registryVars, EntryConsistent
<1> QED
  BY <1>1, <1>2, <1>3, <1>4, <1>5, <1>6, <1>7, <1>8 DEF RegistryNext, RegisterPublisher

(* A key has a publisher exactly when its entry is Active, and the time of *)
(* departure is known exactly in the grace period and when idle.           *)
THEOREM EntriesConsistent == RegistrySafe => []EntryConsistent
<1>1. RegistryInit => EntryConsistent
  <2>1. /\ NoEntry.publisher = NoSession /\ NoEntry.state = "Absent"
        /\ NoEntry.gone = Never /\ NoEntry.chan = NoChan
    BY DEF NoEntry
  <2> QED
    BY <2>1 DEF RegistryInit, EntryConsistent
<1>2. RegistryTypeOK /\ EntryConsistent /\ [RegistryNext]_registryVars => EntryConsistent'
  BY ConsistentStep
<1> QED
  BY <1>1, <1>2, RegistryTypeCorrect, PTL DEF RegistrySafe

----------------------------------------------------------------------------
(* The names of channels are the model's own: they are numbered as they    *)
(* are created, and a channel of the code is a new one by itself.  That    *)
(* the names are unique is used below where an audience is counted.        *)
ChannelsDistinct ==
    /\ \A k \in Key : streams[k].chan < nextChan
    /\ \A k, j \in Key :
          k # j /\ streams[k].chan = streams[j].chan => streams[k].chan = NoChan

(* No step makes two entries share a name.                                 *)
LEMMA ChannelsStep ==
    ASSUME RegistryTypeOK, ChannelsDistinct, [RegistryNext]_registryVars
    PROVE  ChannelsDistinct'
<1>0. nextChan \in Nat /\ nextChan > NoChan /\ \A k \in Key : streams[k].chan \in Nat
  BY DEF RegistryTypeOK, NoChan, Entry
<1>1. ASSUME NEW k \in Key, NEW s \in Session, CreateEntry(k, s)
      PROVE  ChannelsDistinct'
  BY <1>0, <1>1 DEF CreateEntry, ChannelsDistinct, RegistryTypeOK, Entry, NoEntry
<1>2. ASSUME UNCHANGED nextChan,
             \A k \in Key : streams'[k].chan \in {streams[k].chan, NoChan}
      PROVE  ChannelsDistinct'
  BY <1>0, <1>2 DEF ChannelsDistinct
<1>3. ASSUME NEW k \in Key, NEW s \in Session,
             ReclaimEntry(k, s) \/ UnregisterPublisher(k, s)
      PROVE  ChannelsDistinct'
  <2>1. CASE ReclaimEntry(k, s)
    BY <1>2, <2>1 DEF ReclaimEntry, RegistryTypeOK, Entry
  <2>2. CASE UnregisterPublisher(k, s)
    BY <1>2, <2>2 DEF UnregisterPublisher, RegistryTypeOK, Entry
  <2> QED
    BY <1>3, <2>1, <2>2
<1>4. ASSUME NEW k \in Key, Subscribe(k) \/ Unsubscribe(k)
      PROVE  ChannelsDistinct'
  <2>1. CASE Subscribe(k)
    BY <1>2, <2>1 DEF Subscribe, RegistryTypeOK, Entry
  <2>2. CASE Unsubscribe(k)
    BY <1>2, <2>2 DEF Unsubscribe, RegistryTypeOK, Entry
  <2> QED
    BY <1>4, <2>1, <2>2
<1>5. CASE Cleanup
  BY <1>2, <1>5 DEF Cleanup, NoEntry
<1>6. CASE Tick
  BY <1>2, <1>6, OlderFacts DEF Tick, RegistryTypeOK
<1>7. CASE UNCHANGED registryVars
  BY <1>2, <1>7 DEF registryVars
<1> QED
  BY <1>1, <1>3, <1>4, <1>5, <1>6, <1>7 DEF RegistryNext, RegisterPublisher

(* The empty registry has no channels to share.                            *)
LEMMA ChannelsInit == RegistryInit => ChannelsDistinct
BY DEF RegistryInit, ChannelsDistinct, NoEntry, NoChan

----------------------------------------------------------------------------
(* Every step of the registry is a step of the lock or leaves the lock     *)
(* alone: a session becomes publisher only where there was none.           *)
LEMMA LockStep ==
    ASSUME RegistryTypeOK, EntryConsistent, [RegistryNext]_registryVars
    PROVE  [Lock!Next]_([k \in Key |-> streams[k].publisher])
<1> DEFINE owner == [k \in Key |-> streams[k].publisher]
<1>1. ASSUME NEW k \in Key, NEW s \in Session, CreateEntry(k, s)
      PROVE  Lock!Acquire(k, s)
  <2>1. owner[k] = NoSession
    BY <1>1 DEF CreateEntry, Exists, EntryConsistent
  <2>2. owner' = [owner EXCEPT ![k] = s]
    BY <1>1 DEF CreateEntry, RegistryTypeOK, NoEntry
  <2> QED
    BY <2>1, <2>2 DEF Lock!Acquire
<1>2. ASSUME NEW k \in Key, NEW s \in Session, ReclaimEntry(k, s)
      PROVE  Lock!Acquire(k, s)
  <2>1. owner[k] = NoSession
    BY <1>2 DEF ReclaimEntry, AlreadyPublishing, EntryConsistent
  <2>2. owner' = [owner EXCEPT ![k] = s]
    BY <1>2 DEF ReclaimEntry, RegistryTypeOK, Entry
  <2> QED
    BY <2>1, <2>2 DEF Lock!Acquire
<1>3. ASSUME NEW k \in Key, NEW s \in Session, UnregisterPublisher(k, s)
      PROVE  Lock!Release(k, s)
  <2>1. owner' = [owner EXCEPT ![k] = NoSession]
    BY <1>3 DEF UnregisterPublisher, RegistryTypeOK, Entry
  <2> QED
    BY <1>3, <2>1 DEF UnregisterPublisher, Lock!Release
<1>4. ASSUME \A k \in Key : streams'[k].publisher = streams[k].publisher
      PROVE  owner' = owner
  BY <1>4
<1>5. ASSUME NEW k \in Key, Subscribe(k)
      PROVE  owner' = owner
  BY <1>4, <1>5 DEF Subscribe, RegistryTypeOK, Entry
<1>6. ASSUME NEW k \in Key, Unsubscribe(k)
      PROVE  owner' = owner
  BY <1>4, <1>6 DEF Unsubscribe, RegistryTypeOK, Entry
<1>7. ASSUME Cleanup
      PROVE  owner' = owner
  BY <1>4, <1>7 DEF Cleanup, Expired, EntryConsistent, NoEntry
<1>8. ASSUME Tick
      PROVE  owner' = owner
  BY <1>4, <1>8, OlderFacts DEF Tick, RegistryTypeOK
<1>9. ASSUME UNCHANGED registryVars
      PROVE  owner' = owner
  BY <1>4, <1>9 DEF registryVars
<1> QED
  BY <1>1, <1>2, <1>3, <1>5, <1>6, <1>7, <1>8, <1>9
     DEF RegistryNext, RegisterPublisher, Lock!Next

(* The registry implements one lock per key: two sessions are never        *)
(* publishers of a key together, and nobody but the publisher gives a key  *)
(* up - in particular not the cleanup task.                                *)
THEOREM RegistryImplementsLock == RegistrySafe => LockSpec
<1>1. RegistryInit => Lock!Init
  BY DEF RegistryInit, Lock!Init, NoEntry
<1>2. RegistryTypeOK /\ EntryConsistent /\ [RegistryNext]_registryVars
      => [Lock!Next]_([k \in Key |-> streams[k].publisher])
  BY LockStep
<1> QED
  BY <1>1, <1>2, RegistryTypeCorrect, EntriesConsistent, PTL
     DEF RegistrySafe, LockSpec, Lock!Spec

----------------------------------------------------------------------------
(* The server: the inductive invariant.                                    *)
IInv ==
    /\ TypeOK
    /\ EntryConsistent
    /\ PublisherHoldsKey
    /\ LastKeyReleased

(* A connection touches the registry with one of its calls or not at all.  *)
LEMMA UsesRegistry ==
    ASSUME [Next]_vars
    PROVE  [RegistryNext]_registryVars
<1> USE DEF registryVars, historyVars, connVars
<1>1. ASSUME NEW s \in Session, NEW id \in StreamId, NEW k \in Key, Publish(s, id, k)
      PROVE  RegistryNext
  BY <1>1 DEF Publish, RegistryNext
<1>2. ASSUME NEW s \in Session, NEW id \in StreamId, NEW k \in Key, Play(s, id, k)
      PROVE  RegistryNext
  BY <1>2 DEF Play, RegistryNext
<1>3. ASSUME NEW s \in Session, UnregisterOnDisconnect(s)
      PROVE  [RegistryNext]_registryVars
  BY <1>3 DEF UnregisterOnDisconnect, RegistryNext
<1>4. ASSUME NEW s \in Session, UnsubscribeOnDisconnect(s)
      PROVE  [RegistryNext]_registryVars
  BY <1>4 DEF UnsubscribeOnDisconnect, RegistryNext
<1>5. ASSUME NEW s \in Session, Command(s)
      PROVE  [RegistryNext]_registryVars
  BY <1>1, <1>2, <1>5 DEF Command, CreateStream, DeleteStream, CloseStream, PublishRefused
<1>6. ASSUME NEW s \in Session, Connection(s)
      PROVE  [RegistryNext]_registryVars
  BY <1>3, <1>4, <1>5, <1>6
     DEF Connection, Open, OpenFails, Serve, NextIteration, StreamEnded, LoopEnds,
         Closing, Leave
<1>7. CASE CleanupTask
  BY <1>7 DEF CleanupTask, RegistryNext
<1>8. CASE ClockTick
  BY <1>8 DEF ClockTick, RegistryNext
<1>9. CASE UNCHANGED vars
  BY <1>9 DEF vars
<1> QED
  BY <1>6, <1>7, <1>8, <1>9 DEF Next
----------------------------------------------------------------------------
(* The initial state has its types.                                        *)
LEMMA TypeInit == Init => TypeOK
<1>1. Gone \in MsgStream
  BY DEF Gone, MsgStream
<1>2. 1 \in 1 .. MaxStreams + 1 /\ 0 \in 0 .. MaxPlays
  BY ServerAssumption
<1> QED
  BY <1>1, <1>2, RegistryTypeInit DEF Init, TypeOK, Phase, NoChan

(* A step of a connection keeps the types.                                 *)
LEMMA ConnectionTypeStep ==
    ASSUME TypeOK, NEW s \in Session, Connection(s)
    PROVE  TypeOK'
<1> USE DEF TypeOK, Phase, GoTo, connVars, historyVars
<1>1. RegistryTypeOK'
  <2>1. Next
    BY DEF Next
  <2> QED
    BY <2>1, UsesRegistry, RegistryTypeStep
<1>2. Gone \in MsgStream
  BY DEF Gone, MsgStream
<1>3. \A k \in Key : streams[k].chan \in Nat
  BY DEF RegistryTypeOK, Entry
<1>4. ASSUME NEW id \in StreamId, NEW k \in Key,
             NEW mode \in {"Publishing", "Playing"}, Start(s, id, mode, k)
      PROVE  msg_streams' \in [Session -> [StreamId -> MsgStream]]
  <2>1. [mode |-> mode, key |-> k] \in MsgStream
    BY DEF MsgStream
  <2> QED
    BY <1>4, <2>1 DEF Start
<1>5. CASE Open(s) \/ OpenFails(s) \/ Serve(s) \/ StreamEnded(s) \/ LoopEnds(s)
  BY <1>1, <1>5 DEF Open, OpenFails, Serve, StreamEnded, LoopEnds
<1>6. CASE NextIteration(s)
  BY <1>1, <1>6 DEF NextIteration, NoChan
<1>7. CASE CreateStream(s)
  <2>1. [mode |-> "Idle", key |-> NoKey] \in MsgStream
    BY DEF MsgStream
  <2>2. next_stream_id[s] + 1 \in 1 .. MaxStreams + 1
    BY <1>7, ServerAssumption DEF CreateStream
  <2> QED
    BY <1>1, <1>7, <2>1, <2>2 DEF CreateStream
<1>8. ASSUME NEW id \in StreamId, DeleteStream(s, id)
      PROVE  TypeOK'
  BY <1>1, <1>2, <1>8 DEF DeleteStream
<1>9. ASSUME NEW id \in StreamId, CloseStream(s, id)
      PROVE  TypeOK'
  <2>1. ASSUME NEW m \in MsgStream
        PROVE  [m EXCEPT !.mode = "Idle"] \in MsgStream
    BY DEF MsgStream
  <2> QED
    BY <1>1, <1>9, <2>1 DEF CloseStream
<1>10. ASSUME NEW id \in StreamId, NEW k \in Key, Publish(s, id, k)
      PROVE  TypeOK'
  <2>1. msg_streams' \in [Session -> [StreamId -> MsgStream]]
    BY <1>4, <1>10 DEF Publish
  <2> QED
    BY <1>1, <1>10, <2>1 DEF Publish
<1>11. ASSUME NEW id \in StreamId, NEW k \in Key, Play(s, id, k)
      PROVE  TypeOK'
  <2>1. msg_streams' \in [Session -> [StreamId -> MsgStream]]
    BY <1>4, <1>11 DEF Play
  <2>2. plays[s] + 1 \in 0 .. MaxPlays
    BY <1>11, ServerAssumption DEF Play
  <2> QED
    BY <1>1, <1>3, <1>11, <2>1, <2>2 DEF Play
<1>12. ASSUME NEW k \in Key, PublishRefused(s, k)
      PROVE  TypeOK'
  BY <1>1, <1>12 DEF PublishRefused
<1>13. CASE UnregisterOnDisconnect(s)
  BY <1>1, <1>13 DEF UnregisterOnDisconnect
<1>14. CASE UnsubscribeOnDisconnect(s)
  BY <1>1, <1>14 DEF UnsubscribeOnDisconnect
<1>15. CASE Leave(s)
  BY <1>1, <1>2, <1>15 DEF Leave, NoChan
<1> QED
  BY <1>5, <1>6, <1>7, <1>8, <1>9, <1>10, <1>11, <1>12, <1>13, <1>14, <1>15
     DEF Connection, Command, Closing

(* Every step keeps the types.                                             *)
LEMMA TypeStep ==
    ASSUME TypeOK, [Next]_vars
    PROVE  TypeOK'
<1>1. ASSUME NEW s \in Session, Connection(s)
      PROVE  TypeOK'
  BY <1>1, ConnectionTypeStep
<1>2. RegistryTypeOK'
  BY UsesRegistry, RegistryTypeStep DEF TypeOK
<1>3. CASE CleanupTask \/ ClockTick
  BY <1>2, <1>3 DEF CleanupTask, ClockTick, connVars, historyVars, TypeOK
<1>4. CASE UNCHANGED vars
  BY <1>2, <1>4 DEF vars, TypeOK
<1> QED
  BY <1>1, <1>3, <1>4 DEF Next

(* Type correctness of the server.                                         *)
THEOREM ServerTypeCorrect == Spec => []TypeOK
<1>1. TypeOK /\ [Next]_vars => TypeOK'
  BY TypeStep
<1> QED
  BY TypeInit, <1>1, PTL DEF Spec

----------------------------------------------------------------------------
(* The invariant holds initially.                                          *)
LEMMA InvInit == Init => IInv
<1> SUFFICES ASSUME Init PROVE IInv
  OBVIOUS
<1>1. /\ NoEntry.publisher = NoSession /\ NoEntry.state = "Absent"
      /\ NoEntry.gone = Never /\ NoEntry.chan = NoChan
  BY DEF NoEntry
<1>2. EntryConsistent
  BY <1>1 DEF Init, RegistryInit, EntryConsistent
<1>3. PublisherHoldsKey
  BY DEF Init, PublisherHoldsKey
<1>4. LastKeyReleased
  BY <1>1, RegistryAssumption DEF Init, RegistryInit, LastKeyReleased
<1> QED
  BY TypeInit, <1>2, <1>3, <1>4 DEF IInv

(* Steps that change neither the entries nor the key a connection          *)
(* publishes, and that do not pass the cleanup or return before it.        *)
LEMMA QuietStep ==
    ASSUME IInv, NEW s \in Session, NEW p \in Phase,
           streams' = streams, publishing_to' = publishing_to,
           phase' = [phase EXCEPT ![s] = p],
           p \in {"unsubscribing", "leaving", "closed"} =>
               phase[s] \in {"opening", "unsubscribing", "leaving"},
           p \in {"waiting", "opening"} => phase[s] \in {"waiting", "opening"},
           ~BeforeCleanup(s) => p \in {"unsubscribing", "leaving", "closed"}
    PROVE  PublisherHoldsKey' /\ LastKeyReleased'
BY DEF IInv, TypeOK, PublisherHoldsKey, LastKeyReleased, BeforeCleanup

(* A publish takes a key nobody holds.                                     *)
LEMMA PublishStep ==
    ASSUME IInv, NEW s \in Session, NEW id \in StreamId, NEW k \in Key,
           Publish(s, id, k)
    PROVE  PublisherHoldsKey' /\ LastKeyReleased'
<1> USE DEF IInv, TypeOK, RegistryTypeOK
<1>1. /\ streams'[k].publisher = s /\ streams'[k].state = "Active"
      /\ \A j \in Key \ {k} : streams'[j] = streams[j]
  <2>1. CASE CreateEntry(k, s)
    BY <2>1 DEF CreateEntry, NoEntry
  <2>2. CASE ReclaimEntry(k, s)
    BY <2>2 DEF ReclaimEntry, Entry
  <2> QED
    BY <2>1, <2>2 DEF Publish, RegisterPublisher
<1>2. ASSUME NEW t \in Session, BeforeCleanup(t), publishing_to[t] = k
      PROVE  FALSE
  <2>1. streams[k].publisher = t /\ streams[k].state = "Active"
    BY <1>2, ServerAssumption DEF PublisherHoldsKey
  <2>2. AlreadyPublishing(k) /\ Exists(k)
    BY <2>1, RegistryAssumption DEF AlreadyPublishing, Exists
  <2> QED
    BY <2>2 DEF Publish, RegisterPublisher, CreateEntry, ReclaimEntry
<1>3. /\ phase' = phase /\ phase[s] = "serving"
      /\ publishing_to' = [publishing_to EXCEPT ![s] = k]
  BY DEF Publish
<1>4. PublisherHoldsKey'
  BY <1>1, <1>2, <1>3 DEF PublisherHoldsKey, BeforeCleanup
<1>5. LastKeyReleased'
  BY <1>1, <1>3 DEF LastKeyReleased, BeforeCleanup
<1> QED
  BY <1>4, <1>5

(* The cleanup gives up the key the connection published last.             *)
LEMMA UnregisterStep ==
    ASSUME IInv, NEW s \in Session, UnregisterOnDisconnect(s)
    PROVE  PublisherHoldsKey' /\ LastKeyReleased'
<1> USE DEF IInv, TypeOK, RegistryTypeOK
<1>1. /\ publishing_to' = publishing_to
      /\ phase[s] = "unregistering" /\ phase' = [phase EXCEPT ![s] = "unsubscribing"]
  BY DEF UnregisterOnDisconnect, GoTo
<1>2. CASE \E k \in Key : publishing_to[s] = k /\ streams[k].publisher = s
  <2>1. PICK k \in Key : publishing_to[s] = k /\ streams[k].publisher = s
    BY <1>2
  <2>2. /\ streams'[k].publisher = NoSession
        /\ \A j \in Key \ {k} : streams'[j] = streams[j]
    <3>1. UnregisterPublisher(k, s)
      BY <1>2, <2>1 DEF UnregisterOnDisconnect
    <3> QED
      BY <3>1 DEF UnregisterPublisher, Entry
  <2>3. PublisherHoldsKey'
    <3> SUFFICES ASSUME NEW t \in Session, BeforeCleanup(t)', publishing_to[t] # NoKey
                 PROVE  /\ streams'[publishing_to[t]].publisher = t
                        /\ streams'[publishing_to[t]].state = "Active"
      BY <1>1 DEF PublisherHoldsKey
    <3>1. t # s /\ BeforeCleanup(t)
      BY <1>1 DEF BeforeCleanup
    <3>2. publishing_to[t] \in Key /\ streams[publishing_to[t]].publisher = t
      BY <3>1 DEF PublisherHoldsKey
    <3>3. publishing_to[t] # k
      BY <2>1, <3>1, <3>2
    <3> QED
      BY <2>2, <3>1, <3>2, <3>3 DEF PublisherHoldsKey
  <2>4. LastKeyReleased'
    BY <1>1, <2>1, <2>2, RegistryAssumption DEF LastKeyReleased, BeforeCleanup
  <2> QED
    BY <2>3, <2>4
<1>3. CASE ~ \E k \in Key : publishing_to[s] = k /\ streams[k].publisher = s
  <2>1. streams' = streams
    BY <1>3 DEF UnregisterOnDisconnect, registryVars
  <2>2. PublisherHoldsKey'
    BY <1>1, <2>1 DEF PublisherHoldsKey, BeforeCleanup
  <2>3. LastKeyReleased'
    BY <1>1, <1>3, <2>1 DEF LastKeyReleased, BeforeCleanup
  <2> QED
    BY <2>2, <2>3
<1> QED
  BY <1>2, <1>3

(* Calls that leave the publishers and states of published entries alone.  *)
LEMMA SamePublishers ==
    ASSUME IInv, publishing_to' = publishing_to,
           \A s \in Session : BeforeCleanup(s)' => BeforeCleanup(s),
           \A s \in Session : BeforeCleanup(s) => BeforeCleanup(s)',
           \A s \in Session : phase'[s] \in {"waiting", "opening"} =>
                                  phase[s] \in {"waiting", "opening"},
           \A k \in Key : streams[k].publisher # NoSession \/ streams'[k].publisher # NoSession
               => /\ streams'[k].publisher = streams[k].publisher
                  /\ streams'[k].state = streams[k].state
    PROVE  PublisherHoldsKey' /\ LastKeyReleased'
<1>1. PublisherHoldsKey'
  BY RegistryAssumption DEF IInv, TypeOK, PublisherHoldsKey
<1>2. LastKeyReleased'
  BY RegistryAssumption DEF IInv, TypeOK, LastKeyReleased
<1> QED
  BY <1>1, <1>2

(* Every step keeps the invariant.                                         *)
LEMMA InvStep ==
    ASSUME IInv, [Next]_vars
    PROVE  IInv'
<1> USE DEF IInv
<1>1. TypeOK' /\ EntryConsistent'
  BY TypeStep, UsesRegistry, ConsistentStep DEF TypeOK
<1>2. ASSUME NEW s \in Session, Connection(s)
      PROVE  PublisherHoldsKey' /\ LastKeyReleased'
  <2> USE DEF GoTo, registryVars, connVars, historyVars
  <2>1. CASE Open(s)
    BY <2>1, QuietStep DEF Open, Phase, BeforeCleanup
  <2>2. CASE OpenFails(s)
    BY <2>2, QuietStep DEF OpenFails, Phase, BeforeCleanup
  <2>3. CASE Serve(s)
    BY <2>3, QuietStep DEF Serve, Phase, BeforeCleanup
  <2>4. CASE StreamEnded(s)
    BY <2>4, QuietStep DEF StreamEnded, Phase, BeforeCleanup
  <2>5. CASE LoopEnds(s)
    BY <2>5, QuietStep DEF LoopEnds, Phase, BeforeCleanup
  <2>6. ASSUME NEW k \in Key, PublishRefused(s, k)
        PROVE  PublisherHoldsKey' /\ LastKeyReleased'
    BY <2>6, QuietStep DEF PublishRefused, Phase, BeforeCleanup
  <2>7. CASE Leave(s)
    BY <2>7, QuietStep DEF Leave, Phase, BeforeCleanup
  <2>8. CASE NextIteration(s) \/ CreateStream(s)
    BY <2>8, SamePublishers DEF NextIteration, CreateStream, BeforeCleanup
  <2>9. ASSUME NEW id \in StreamId, DeleteStream(s, id) \/ CloseStream(s, id)
        PROVE  PublisherHoldsKey' /\ LastKeyReleased'
    BY <2>9, SamePublishers DEF DeleteStream, CloseStream, BeforeCleanup
  <2>10. ASSUME NEW id \in StreamId, NEW k \in Key, Publish(s, id, k)
         PROVE  PublisherHoldsKey' /\ LastKeyReleased'
    BY <2>10, PublishStep
  <2>11. ASSUME NEW id \in StreamId, NEW k \in Key, Play(s, id, k)
         PROVE  PublisherHoldsKey' /\ LastKeyReleased'
    <3>1. \A j \in Key : /\ streams'[j].publisher = streams[j].publisher
                         /\ streams'[j].state = streams[j].state
      BY <2>11 DEF Play, Subscribe, TypeOK, RegistryTypeOK, Entry
    <3> QED
      BY <2>11, <3>1, SamePublishers DEF Play, BeforeCleanup
  <2>12. CASE UnregisterOnDisconnect(s)
    BY <2>12, UnregisterStep
  <2>13. CASE UnsubscribeOnDisconnect(s)
    <3>1. \A j \in Key : /\ streams'[j].publisher = streams[j].publisher
                         /\ streams'[j].state = streams[j].state
      <4>1. CASE \E k \in Key : subscribed_to[s] = k /\ Exists(k)
        <5>1. Unsubscribe(subscribed_to[s]) /\ subscribed_to[s] \in Key
          BY <2>13, <4>1 DEF UnsubscribeOnDisconnect
        <5> QED
          BY <5>1 DEF Unsubscribe, TypeOK, RegistryTypeOK, Entry
      <4>2. CASE ~ \E k \in Key : subscribed_to[s] = k /\ Exists(k)
        BY <2>13, <4>2 DEF UnsubscribeOnDisconnect
      <4> QED
        BY <4>1, <4>2
    <3>2. /\ publishing_to' = publishing_to
          /\ phase[s] = "unsubscribing" /\ phase' = [phase EXCEPT ![s] = "leaving"]
      BY <2>13 DEF UnsubscribeOnDisconnect
    <3> QED
      BY <3>1, <3>2, SamePublishers DEF BeforeCleanup, TypeOK
  <2> QED
    BY <1>2, <2>1, <2>2, <2>3, <2>4, <2>5, <2>6, <2>7, <2>8, <2>9, <2>10, <2>11, <2>12, <2>13
       DEF Connection, Command, Closing
<1>3. CASE CleanupTask
  <2>1. \A k \in Key : streams[k].publisher # NoSession \/ streams'[k].publisher # NoSession
           => streams'[k] = streams[k]
    BY <1>3 DEF CleanupTask, Cleanup, Expired, EntryConsistent, NoEntry
  <2> QED
    BY <1>1, <1>3, <2>1, SamePublishers DEF CleanupTask, connVars, BeforeCleanup
<1>4. CASE ClockTick
  <2>1. \A k \in Key : /\ streams'[k].publisher = streams[k].publisher
                       /\ streams'[k].state = streams[k].state
    BY <1>4, OlderFacts DEF ClockTick, Tick, TypeOK, RegistryTypeOK
  <2> QED
    BY <1>1, <1>4, <2>1, SamePublishers DEF ClockTick, connVars, BeforeCleanup
<1>5. CASE UNCHANGED vars
  BY <1>1, <1>5, SamePublishers DEF vars, BeforeCleanup
<1> QED
  BY <1>1, <1>2, <1>3, <1>4, <1>5 DEF Next

(* The invariant holds in every reachable state.                           *)
LEMMA Invariance == Spec => []IInv
<1>1. IInv /\ [Next]_vars => IInv'
  BY InvStep
<1> QED
  BY InvInit, <1>1, PTL DEF Spec

(* While a connection may still send media to a key, the registry knows it *)
(* as the publisher of that key.                                           *)
THEOREM PublisherKeepsKey == Spec => []PublisherHoldsKey
BY Invariance, PTL DEF IInv

(* After its cleanup a connection no longer holds the key it published     *)
(* last.                                                                   *)
THEOREM CleanupReleasesLastKey == Spec => []LastKeyReleased
BY Invariance, PTL DEF IInv

(* Two connections never broadcast to one key.                             *)
THEOREM BroadcastIsExclusive == Spec => []ExclusiveBroadcast
<1>1. IInv => ExclusiveBroadcast
  BY ServerAssumption DEF IInv, TypeOK, PublisherHoldsKey, ExclusiveBroadcast
<1> QED
  BY Invariance, <1>1, PTL

(* What the connections do to the registry is a behaviour of the registry: *)
(* the theorems about the registry hold in the server.                     *)
THEOREM ServerUsesRegistry == Spec => RegistrySafe
<1>1. Init => RegistryInit
  BY DEF Init
<1>2. [Next]_vars => [RegistryNext]_registryVars
  BY UsesRegistry
<1> QED
  BY <1>1, <1>2, PTL DEF Spec, RegistrySafe

(* In the server too an entry has a publisher exactly when it is Active,   *)
(* and a time of departure exactly when it has left.                       *)
THEOREM ServerEntriesConsistent == Spec => []EntryConsistent
BY ServerUsesRegistry, EntriesConsistent, PTL

(* The server is a lock per key: a key changes hands only when its         *)
(* publisher has given it up.                                              *)
THEOREM ServerImplementsLock == Spec => LockSpec
BY ServerUsesRegistry, RegistryImplementsLock

----------------------------------------------------------------------------
(* The registry counts in 32 bits, the audience is a set: what follows is  *)
(* that a count modulo m moves as the number it stands for.                *)
LEMMA Division ==
    ASSUME NEW m \in Nat \ {0}, NEW c \in Int
    PROVE  c = m * (c \div m) + (c % m) /\ c % m \in 0 .. m - 1 /\ c \div m \in Int
BY SMT

(* A number is its quotient and remainder in one way only.                 *)
LEMMA Remainder ==
    ASSUME NEW m \in Nat \ {0}, NEW q \in Int, NEW r \in 0 .. m - 1, NEW n,
           n = m * q + r
    PROVE  n % m = r
BY SMT

(* A number below the modulus is its own remainder.                        *)
LEMMA SmallRemainder ==
    ASSUME NEW m \in Nat \ {0}, NEW r \in 0 .. m - 1
    PROVE  r % m = r
BY SMT

(* Counting up modulo m.                                                   *)
LEMMA CountsUp ==
    ASSUME NEW m \in Nat \ {0}, NEW c \in Nat
    PROVE  ((c % m) + 1) % m = (c + 1) % m
<1> DEFINE q == c \div m
           r == c % m
<1>1. c = m * q + r /\ r \in 0 .. m - 1 /\ q \in Int
  BY Division
<1> HIDE DEF q, r
<1>2. CASE r < m - 1
  <2>1. c + 1 = m * q + (r + 1) /\ r + 1 \in 0 .. m - 1
    BY <1>1, <1>2
  <2>2. (r + 1) % m = r + 1
    BY <2>1, SmallRemainder
  <2>3. (c + 1) % m = r + 1
    BY <1>1, <2>1, Remainder
  <2> QED
    BY <2>2, <2>3 DEF r
<1>3. CASE r = m - 1
  <2>1. r + 1 = m * 1 + 0 /\ c + 1 = m * (q + 1) + 0 /\ q + 1 \in Int /\ 0 \in 0 .. m - 1
    BY <1>1, <1>3
  <2>2. (r + 1) % m = 0
    BY <2>1, Remainder
  <2>3. (c + 1) % m = 0
    BY <2>1, Remainder
  <2> QED
    BY <2>2, <2>3 DEF r
<1> QED
  BY <1>1, <1>2, <1>3

(* Counting down modulo m.                                                 *)
LEMMA CountsDown ==
    ASSUME NEW m \in Nat \ {0}, NEW c \in Nat \ {0}
    PROVE  ((c % m) + m - 1) % m = (c - 1) % m
<1> DEFINE q == c \div m
           r == c % m
<1>1. c = m * q + r /\ r \in 0 .. m - 1 /\ q \in Int
  BY Division
<1> HIDE DEF q, r
<1>2. CASE r > 0
  <2>1. r + m - 1 = m * 1 + (r - 1) /\ c - 1 = m * q + (r - 1) /\ r - 1 \in 0 .. m - 1
    BY <1>1, <1>2
  <2>2. (r + m - 1) % m = r - 1
    BY <2>1, Remainder
  <2>3. (c - 1) % m = r - 1
    BY <1>1, <2>1, Remainder
  <2> QED
    BY <2>2, <2>3 DEF r
<1>3. CASE r = 0
  <2>1. /\ r + m - 1 = m * 0 + (m - 1)
        /\ c - 1 = m * (q - 1) + (m - 1)
        /\ q - 1 \in Int /\ m - 1 \in 0 .. m - 1
    BY <1>1, <1>3
  <2>2. (r + m - 1) % m = m - 1
    BY <2>1, SmallRemainder
  <2>3. \A p \in Int, s \in 0 .. m - 1 : (m * p + s) % m = s
    BY Remainder
  <2>4. (c - 1) % m = m - 1
    BY <2>1, <2>3
  <2> QED
    BY <2>2, <2>4 DEF r
<1> QED
  BY <1>1, <1>2, <1>3

(* The connections that have subscribed are finitely many, have begun to   *)
(* serve, and have joined channels that exist or existed: a channel the    *)
(* registry creates later is not among them, so a new entry starts with no *)
(* audience.                                                               *)
Subscribed == {s \in Session : subscribed_to[s] # NoKey}

Attached(s) == phase[s] \in {"serving", "unregistering", "unsubscribing"}

AudienceKnown ==
    /\ IsFiniteSet(Subscribed)
    /\ \A s \in Session : phase[s] \in {"waiting", "opening"} => subscribed_to[s] = NoKey
    /\ \A s \in Session : joined[s] < nextChan

CountInv == IInv /\ ChannelsDistinct /\ AudienceKnown /\ CountIsAudience

(* Nobody has subscribed initially, and there is no entry to count.        *)
LEMMA CountInit == Init => CountInv
<1> SUFFICES ASSUME Init PROVE CountInv
  OBVIOUS
<1>1. IInv /\ ChannelsDistinct
  BY InvInit, ChannelsInit DEF Init
<1>2. AudienceKnown
  <2>1. Subscribed = {}
    BY DEF Init, Subscribed
  <2> QED
    BY <2>1, FS_EmptySet DEF Init, RegistryInit, AudienceKnown, NoChan
<1>3. \A k \in Key : ~Exists(k)
  BY DEF Init, RegistryInit, Exists, NoEntry
<1> QED
  BY <1>1, <1>2, <1>3 DEF CountInv, CountIsAudience

(* An audience is a part of those who have subscribed.                     *)
LEMMA AudienceFinite ==
    ASSUME AudienceKnown, NEW k \in Key
    PROVE  IsFiniteSet(Audience(k)) /\ Cardinality(Audience(k)) \in Nat
<1>1. Audience(k) \in SUBSET Subscribed
  BY ServerAssumption DEF Audience, Subscribed
<1> QED
  BY <1>1, FS_Subset, FS_CardinalityType DEF AudienceKnown

(* Steps that give no entry and no connection another place in the         *)
(* audience.                                                               *)
LEMMA SameAudience ==
    ASSUME CountInv, nextChan' = nextChan, miscounted' = miscounted,
           subscribed_to' = subscribed_to,
           \A k \in Key : Exists(k)' => /\ Exists(k)
                                        /\ streams'[k].chan = streams[k].chan
                                        /\ streams'[k].count = streams[k].count,
           \A s \in Session : subscribed_to[s] # NoKey =>
               /\ Attached(s)' <=> Attached(s)
               /\ Attached(s) => joined'[s] = joined[s],
           \A s \in Session : phase'[s] \in {"waiting", "opening"} =>
                                  phase[s] \in {"waiting", "opening"},
           \A s \in Session : joined'[s] = joined[s] \/ joined'[s] = NoChan
    PROVE  AudienceKnown' /\ CountIsAudience'
<1>1. nextChan \in Nat \ {0}
  BY DEF CountInv, IInv, TypeOK, RegistryTypeOK
<1>2. AudienceKnown'
  <2>1. Subscribed' = Subscribed
    BY DEF Subscribed
  <2> QED
    BY <1>1, <2>1 DEF CountInv, AudienceKnown, NoChan
<1>3. ASSUME NEW k \in Key, Exists(k)'
      PROVE  Audience(k)' = Audience(k)
  <2>1. ASSUME NEW s \in Session, subscribed_to[s] = k
        PROVE  s \in Audience(k)' <=> s \in Audience(k)
    BY <1>3, <2>1, ServerAssumption DEF Audience, Attached
  <2> QED
    BY <2>1 DEF Audience
<1>4. CountIsAudience'
  <2> SUFFICES ASSUME NEW k \in Key \ miscounted, Exists(k)'
               PROVE  streams'[k].count = Cardinality(Audience(k)') % CountModulus
    BY DEF CountIsAudience
  <2> QED
    BY <1>3 DEF CountInv, CountIsAudience
<1> QED
  BY <1>2, <1>4

(* A new entry has neither subscribers nor audience.                       *)
LEMMA PublishKeepsCount ==
    ASSUME CountInv, NEW s \in Session, NEW id \in StreamId, NEW k \in Key,
           Publish(s, id, k)
    PROVE  AudienceKnown' /\ CountIsAudience'
<1> USE DEF CountInv, IInv, TypeOK, RegistryTypeOK
<1>1. /\ subscribed_to' = subscribed_to /\ phase' = phase /\ joined' = joined
      /\ miscounted' = IF Exists(k) THEN miscounted ELSE miscounted \ {k}
  BY DEF Publish
<1>2. CASE CreateEntry(k, s)
  <2>1. /\ ~Exists(k) /\ nextChan' = nextChan + 1
        /\ streams'[k].count = 0 /\ streams'[k].chan = nextChan
        /\ \A j \in Key \ {k} : streams'[j] = streams[j]
    BY <1>2 DEF CreateEntry, NoEntry
  <2>2. AudienceKnown'
    <3>1. Subscribed' = Subscribed
      BY <1>1 DEF Subscribed
    <3> QED
      BY <1>1, <2>1, <3>1 DEF AudienceKnown
  <2>3. ASSUME NEW j \in Key \ miscounted', Exists(j)'
        PROVE  streams'[j].count = Cardinality(Audience(j)') % CountModulus
    <3>1. CASE j = k
      <4>1. Audience(k)' = {}
        BY <1>1, <2>1 DEF Audience, AudienceKnown
      <4>2. 0 % CountModulus = 0
        BY RegistryAssumption, Remainder
      <4> QED
        BY <2>1, <3>1, <4>1, <4>2, FS_EmptySet
    <3>2. CASE j # k
      <4>1. streams'[j] = streams[j] /\ j \in Key \ miscounted /\ Exists(j)
        BY <1>1, <2>1, <2>3, <3>2 DEF Exists
      <4>2. Audience(j)' = Audience(j)
        BY <1>1, <4>1 DEF Audience
      <4> QED
        BY <4>1, <4>2 DEF CountIsAudience
    <3> QED
      BY <3>1, <3>2
  <2> QED
    BY <2>2, <2>3 DEF CountIsAudience
<1>3. CASE ReclaimEntry(k, s)
  <2>1. /\ Exists(k) /\ nextChan' = nextChan
        /\ \A j \in Key : /\ Exists(j)' => Exists(j)
                          /\ streams'[j].chan = streams[j].chan
                          /\ streams'[j].count = streams[j].count
    BY <1>3 DEF ReclaimEntry, Entry, Exists
  <2> QED
    BY <1>1, <2>1, SameAudience DEF Attached
<1> QED
  BY <1>2, <1>3 DEF Publish, RegisterPublisher

(* A first play adds its connection to the audience; a later one leaves    *)
(* the key it played before to the miscounted ones.                        *)
LEMMA PlayKeepsCount ==
    ASSUME CountInv, NEW s \in Session, NEW id \in StreamId, NEW k \in Key,
           Play(s, id, k)
    PROVE  AudienceKnown' /\ CountIsAudience'
<1> USE DEF CountInv, IInv, TypeOK, RegistryTypeOK
<1>1. /\ phase' = phase /\ phase[s] = "serving" /\ nextChan' = nextChan
      /\ subscribed_to' = [subscribed_to EXCEPT ![s] = k]
      /\ joined' = [joined EXCEPT ![s] = streams[k].chan]
      /\ miscounted' = miscounted \cup ({subscribed_to[s]} \ {NoKey})
  BY DEF Play, Subscribe
<1>2. /\ Exists(k)
      /\ streams'[k].count = (streams[k].count + 1) % CountModulus
      /\ \A j \in Key : /\ streams'[j].chan = streams[j].chan
                        /\ streams'[j].state = streams[j].state
                        /\ j # k => streams'[j] = streams[j]
  BY DEF Play, Subscribe, Joinable, Entry
<1>3. AudienceKnown'
  <2>1. Subscribed' = Subscribed \cup {s}
    BY <1>1, ServerAssumption DEF Subscribed
  <2>2. IsFiniteSet(Subscribed')
    BY <2>1, FS_AddElement DEF AudienceKnown
  <2> QED
    BY <1>1, <2>2 DEF AudienceKnown, ChannelsDistinct
<1>4. ASSUME NEW j \in Key \ miscounted', Exists(j)'
      PROVE  streams'[j].count = Cardinality(Audience(j)') % CountModulus
  <2>1. j \in Key \ miscounted /\ Exists(j) /\ subscribed_to[s] # j
    BY <1>1, <1>2, <1>4, ServerAssumption DEF Exists
  <2>2. streams[j].count = Cardinality(Audience(j)) % CountModulus
    BY <2>1 DEF CountIsAudience
  <2>3. CASE j = k
    <3>1. Audience(k)' = Audience(k) \cup {s}
      BY <1>1, <1>2 DEF Audience
    <3>2. s \notin Audience(k)
      BY <2>1, <2>3 DEF Audience
    <3>3. Cardinality(Audience(k)') = Cardinality(Audience(k)) + 1
      <4>1. IsFiniteSet(Audience(k))
        BY AudienceFinite
      <4>2. Cardinality(Audience(k) \cup {s}) = Cardinality(Audience(k)) + 1
        <5> DEFINE A == Audience(k)
        <5>1. IsFiniteSet(A) /\ s \notin A
          BY <3>2, <4>1
        <5> HIDE DEF A
        <5>2. Cardinality(A \cup {s}) = Cardinality(A) + 1
          BY <5>1, FS_AddElement
        <5> QED BY <5>2 DEF A
      <4> QED
        BY <3>1, <4>2, Zenon
    <3>4. Cardinality(Audience(k)) \in Nat
      BY AudienceFinite, FS_CardinalityType
    <3>5. ((Cardinality(Audience(k)) % CountModulus) + 1) % CountModulus
              = (Cardinality(Audience(k)) + 1) % CountModulus
      BY <3>4, CountsUp, RegistryAssumption
    <3>6. streams'[k].count = (streams[k].count + 1) % CountModulus
      BY <1>2
    <3> QED
      BY <2>2, <2>3, <3>3, <3>5, <3>6, Zenon
  <2>4. CASE j # k
    <3>1. Audience(j)' = Audience(j)
      BY <1>1, <1>2, <2>1, <2>4 DEF Audience
    <3> QED
      BY <1>2, <2>2, <2>4, <3>1
  <2> QED
    BY <2>3, <2>4
<1> QED
  BY <1>3, <1>4 DEF CountIsAudience

(* unsubscribe takes its connection out of the audience of the entry it    *)
(* joined; if the key has another entry now, the key is miscounted.        *)
LEMMA UnsubscribeKeepsCount ==
    ASSUME CountInv, NEW s \in Session, UnsubscribeOnDisconnect(s)
    PROVE  AudienceKnown' /\ CountIsAudience'
<1> USE DEF CountInv, IInv, TypeOK, RegistryTypeOK
<1>1. /\ phase[s] = "unsubscribing" /\ phase' = [phase EXCEPT ![s] = "leaving"]
      /\ subscribed_to' = subscribed_to /\ joined' = joined
  BY DEF UnsubscribeOnDisconnect, GoTo
<1>2. nextChan' = nextChan
  BY DEF UnsubscribeOnDisconnect, Unsubscribe, registryVars
<1>3. AudienceKnown'
  <2>1. Subscribed' = Subscribed
    BY <1>1 DEF Subscribed
  <2> QED
    BY <1>1, <1>2, <2>1 DEF AudienceKnown
<1>4. ASSUME NEW j \in Key, subscribed_to[s] # j \/ streams[j].chan # joined[s],
             streams'[j] = streams[j]
      PROVE  Audience(j)' = Audience(j)
  BY <1>1, <1>4 DEF Audience
<1>5. CASE \E k \in Key : subscribed_to[s] = k /\ Exists(k)
  <2>1. PICK k \in Key : subscribed_to[s] = k /\ Exists(k)
    BY <1>5
  <2>2. /\ Unsubscribe(k)
        /\ miscounted' = IF streams[k].chan = joined[s] THEN miscounted
                         ELSE miscounted \cup {k}
    BY <1>5, <2>1 DEF UnsubscribeOnDisconnect
  <2>3. /\ streams'[k].count = (streams[k].count + CountModulus - 1) % CountModulus
        /\ \A j \in Key : /\ streams'[j].chan = streams[j].chan
                          /\ streams'[j].state = streams[j].state
                          /\ j # k => streams'[j] = streams[j]
    BY <2>2 DEF Unsubscribe, Entry
  <2>4. ASSUME NEW j \in Key \ miscounted', Exists(j)'
        PROVE  streams'[j].count = Cardinality(Audience(j)') % CountModulus
    <3>1. j \in Key \ miscounted /\ Exists(j)
      BY <2>2, <2>3, <2>4 DEF Exists
    <3>2. streams[j].count = Cardinality(Audience(j)) % CountModulus
      BY <3>1 DEF CountIsAudience
    <3>3. CASE j = k
      <4>1. streams[k].chan = joined[s]
        BY <2>2, <2>4, <3>3
      <4>2. s \in Audience(k) /\ Audience(k)' = Audience(k) \ {s}
        BY <1>1, <2>1, <2>3, <4>1 DEF Audience
      <4>3. /\ Cardinality(Audience(k)') = Cardinality(Audience(k)) - 1
            /\ Cardinality(Audience(k)) \in Nat \ {0}
        <5>1. IsFiniteSet(Audience(k)) /\ Cardinality(Audience(k)) \in Nat
          BY AudienceFinite
        <5>2. Cardinality(Audience(k)) # 0
          BY <4>2, <5>1, FS_EmptySet
        <5>3. Cardinality(Audience(k) \ {s}) = Cardinality(Audience(k)) - 1
          BY <4>2, <5>1, FS_RemoveElement
        <5> QED
          BY <4>2, <5>1, <5>2, <5>3
      <4> QED
        BY <2>3, <3>2, <3>3, <4>3, CountsDown, RegistryAssumption
    <3>4. CASE j # k
      BY <1>4, <2>1, <2>3, <3>2, <3>4
    <3> QED
      BY <3>3, <3>4
  <2> QED
    BY <1>3, <2>4 DEF CountIsAudience
<1>6. CASE ~ \E k \in Key : subscribed_to[s] = k /\ Exists(k)
  <2>1. streams' = streams /\ miscounted' = miscounted
    BY <1>6 DEF UnsubscribeOnDisconnect, registryVars
  <2>2. ASSUME NEW j \in Key \ miscounted, Exists(j)
        PROVE  streams[j].count = Cardinality(Audience(j)') % CountModulus
    BY <1>4, <1>6, <2>1, <2>2 DEF CountIsAudience
  <2> QED
    BY <1>3, <2>1, <2>2 DEF CountIsAudience, Exists
<1> QED
  BY <1>5, <1>6

(* Every step keeps the counts right.                                      *)
LEMMA CountStep ==
    ASSUME CountInv, [Next]_vars
    PROVE  CountInv'
<1> USE DEF CountInv
<1>1. IInv' /\ ChannelsDistinct'
  BY InvStep, UsesRegistry, ChannelsStep DEF IInv, TypeOK
<1>2. ASSUME NEW s \in Session, Connection(s)
      PROVE  AudienceKnown' /\ CountIsAudience'
  <2> USE DEF GoTo, registryVars, connVars, historyVars, Attached
  <2>1. CASE Open(s) \/ OpenFails(s) \/ StreamEnded(s) \/ LoopEnds(s) \/ Leave(s)
    BY <2>1, SameAudience
       DEF Open, OpenFails, StreamEnded, LoopEnds, Leave, Exists, IInv, TypeOK
  <2>2. CASE Serve(s)
    BY <2>2, SameAudience DEF Serve, AudienceKnown, Exists, IInv, TypeOK
  <2>3. ASSUME NEW k \in Key, PublishRefused(s, k)
        PROVE  AudienceKnown' /\ CountIsAudience'
    BY <2>3, SameAudience DEF PublishRefused, Exists, IInv, TypeOK
  <2>4. CASE NextIteration(s) \/ CreateStream(s)
    BY <2>4, SameAudience DEF NextIteration, CreateStream, Exists
  <2>5. ASSUME NEW id \in StreamId, DeleteStream(s, id) \/ CloseStream(s, id)
        PROVE  AudienceKnown' /\ CountIsAudience'
    BY <2>5, SameAudience DEF DeleteStream, CloseStream, Exists
  <2>6. ASSUME NEW id \in StreamId, NEW k \in Key, Publish(s, id, k)
        PROVE  AudienceKnown' /\ CountIsAudience'
    BY <2>6, PublishKeepsCount
  <2>7. ASSUME NEW id \in StreamId, NEW k \in Key, Play(s, id, k)
        PROVE  AudienceKnown' /\ CountIsAudience'
    BY <2>7, PlayKeepsCount
  <2>8. CASE UnregisterOnDisconnect(s)
    <3>1. /\ nextChan' = nextChan
          /\ \A k \in Key : /\ Exists(k)' => Exists(k)
                            /\ streams'[k].chan = streams[k].chan
                            /\ streams'[k].count = streams[k].count
      <4>1. CASE \E k \in Key : publishing_to[s] = k /\ streams[k].publisher = s
        <5>1. UnregisterPublisher(publishing_to[s], s) /\ publishing_to[s] \in Key
          BY <2>8, <4>1 DEF UnregisterOnDisconnect
        <5> QED
          BY <5>1 DEF UnregisterPublisher, Exists, IInv, TypeOK, RegistryTypeOK, Entry
      <4>2. CASE ~ \E k \in Key : publishing_to[s] = k /\ streams[k].publisher = s
        BY <2>8, <4>2 DEF UnregisterOnDisconnect, Exists
      <4> QED
        BY <4>1, <4>2
    <3>2. /\ phase[s] = "unregistering" /\ phase' = [phase EXCEPT ![s] = "unsubscribing"]
          /\ subscribed_to' = subscribed_to /\ joined' = joined /\ miscounted' = miscounted
      BY <2>8 DEF UnregisterOnDisconnect
    <3> QED
      BY <3>1, <3>2, SameAudience DEF IInv, TypeOK
  <2>9. CASE UnsubscribeOnDisconnect(s)
    BY <2>9, UnsubscribeKeepsCount
  <2> QED
    BY <1>2, <2>1, <2>2, <2>3, <2>4, <2>5, <2>6, <2>7, <2>8, <2>9
       DEF Connection, Command, Closing
<1>3. CASE CleanupTask
  <2>1. \A k \in Key : Exists(k)' => streams'[k] = streams[k]
    BY <1>3 DEF CleanupTask, Cleanup, Exists, NoEntry
  <2>2. \A k \in Key : Exists(k)' => Exists(k)
    BY <2>1 DEF Exists
  <2> QED
    BY <1>1, <1>3, <2>1, <2>2, SameAudience
       DEF CleanupTask, Cleanup, connVars, historyVars, Attached
<1>4. CASE ClockTick
  <2>1. \A k \in Key : /\ streams'[k].state = streams[k].state
                       /\ streams'[k].chan = streams[k].chan
                       /\ streams'[k].count = streams[k].count
    BY <1>4, OlderFacts DEF ClockTick, Tick, IInv, TypeOK, RegistryTypeOK
  <2>2. \A k \in Key : Exists(k)' => Exists(k)
    BY <2>1 DEF Exists
  <2> QED
    BY <1>1, <1>4, <2>1, <2>2, SameAudience
       DEF ClockTick, Tick, connVars, historyVars, Attached
<1>5. CASE UNCHANGED vars
  BY <1>1, <1>5, SameAudience DEF vars, Attached, Exists
<1> QED
  BY <1>1, <1>2, <1>3, <1>4, <1>5 DEF Next

(* The number of subscribers the registry keeps for an entry is the number *)
(* of connections attached to it, for every key without one of the two     *)
(* events that make it wrong.                                              *)
THEOREM CountsAreRight == Spec => []CountIsAudience
<1>1. CountInv /\ [Next]_vars => CountInv'
  BY CountStep
<1>2. CountInv => CountIsAudience
  BY DEF CountInv
<1> QED
  BY CountInit, <1>1, <1>2, PTL DEF Spec
=============================================================================
