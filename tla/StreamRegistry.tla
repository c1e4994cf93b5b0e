-------------------------- MODULE StreamRegistry --------------------------
(***************************************************************************)
(* The stream registry (src/registry/store.rs): the map from stream keys   *)
(* to entries, with the life cycle of an entry - who publishes, how many   *)
(* subscribe, how long the publisher has been gone - and the cleanup task. *)
(* The media an entry caches and relays is the subject of Subscriber.tla.  *)
(*                                                                         *)
(* Atomicity.  register_publisher and cleanup hold the write lock of the   *)
(* map.  Every other call holds its read lock and, inside it, the lock of  *)
(* one entry, and gives up the entry's lock first.  So each call is one    *)
(* step, and the try_read of cleanup cannot fail: nobody holds an entry    *)
(* without holding the map.                                                *)
(*                                                                         *)
(* The calls take any key and any session id: the specification is that of *)
(* the most general client.  MediaServer.tla restricts the callers to what *)
(* the connections do.                                                     *)
(***************************************************************************)
EXTENDS Integers

CONSTANTS
    Key,            \* stream keys (application, stream name)
    Session,        \* session ids, all different (listener.rs, AtomicU64)
    NoSession,      \* None
    GracePeriod,    \* publisher_grace_period, in ticks of the clock
    IdleTimeout,    \* idle_stream_timeout, in ticks of the clock
    CountModulus,   \* subscriber_count is an AtomicU32: 2^32, a small bound in TLC
    MaxChannels     \* bound: how many entries a behaviour creates

ASSUME RegistryAssumption ==
    /\ NoSession \notin Session
    /\ GracePeriod \in Nat
    /\ IdleTimeout \in Nat
    /\ CountModulus \in Nat \ {0}
    /\ MaxChannels \in Nat

VARIABLES
    streams,        \* StreamRegistry.streams, a record for every key
    nextChan        \* identity of the next broadcast channel

registryVars == <<streams, nextChan>>

State == {"Absent", "Active", "GracePeriod", "Idle"}

Never == -1                   \* publisher_disconnected_at is None
NoChan == 0

(* The clock matters only through the comparisons of cleanup, so the time  *)
(* since publisher_disconnected_at saturates beyond both limits.           *)
AgeCap == 1 + (IF GracePeriod > IdleTimeout THEN GracePeriod ELSE IdleTimeout)

Entry == [ publisher : Session \cup {NoSession},
           count     : 0 .. CountModulus - 1,
           state     : State,
           gone      : Never .. AgeCap,
           chan      : Nat ]

(* A key the map does not hold.                                            *)
NoEntry == [ publisher |-> NoSession, count |-> 0, state |-> "Absent",
             gone |-> Never, chan |-> NoChan ]

Exists(k) == streams[k].state # "Absent"

RegistryInit ==
    /\ streams = [k \in Key |-> NoEntry]
    /\ nextChan = 1

----------------------------------------------------------------------------
(* register_publisher, the entry is missing: a new one, Active at once.    *)
CreateEntry(k, s) ==
    /\ ~Exists(k)
    /\ nextChan <= MaxChannels
    /\ streams' = [streams EXCEPT ![k] =
           [NoEntry EXCEPT !.publisher = s, !.state = "Active", !.chan = nextChan]]
    /\ nextChan' = nextChan + 1

(* A slip: the newest publisher always wins.                               *)
NeverPublishing(k) == FALSE

(* The only case in which register_publisher refuses.                      *)
AlreadyPublishing(k) == streams[k].state = "Active" /\ streams[k].publisher # NoSession

(* Slips: the time of departure, the state, or the subscribers of the      *)
(* entry are not what they should be after the publisher came back.        *)
ReclaimEntryStillGone(k, s) ==
    /\ Exists(k) /\ ~AlreadyPublishing(k)
    /\ streams' = [streams EXCEPT ![k] = [@ EXCEPT !.publisher = s, !.state = "Active"]]
    /\ UNCHANGED nextChan

ReclaimEntrySameState(k, s) ==
    /\ Exists(k) /\ ~AlreadyPublishing(k)
    /\ streams' = [streams EXCEPT ![k] = [@ EXCEPT !.publisher = s, !.gone = Never]]
    /\ UNCHANGED nextChan

ReclaimEntryUnwatched(k, s) ==
    /\ Exists(k) /\ ~AlreadyPublishing(k)
    /\ streams' = [streams EXCEPT ![k] =
           [@ EXCEPT !.publisher = s, !.gone = Never, !.state = "Active", !.count = 0]]
    /\ UNCHANGED nextChan

(* register_publisher, the entry is there and nobody publishes.            *)
ReclaimEntry(k, s) ==
    /\ Exists(k)
    /\ ~AlreadyPublishing(k)
    /\ streams' = [streams EXCEPT ![k] =
           [@ EXCEPT !.publisher = s, !.gone = Never, !.state = "Active"]]
    /\ UNCHANGED nextChan

RegisterPublisher(k, s) == CreateEntry(k, s) \/ ReclaimEntry(k, s)

(* unregister_publisher past its two early returns.                        *)
UnregisterPublisher(k, s) ==
    /\ Exists(k)
    /\ streams[k].publisher = s
    /\ streams' = [streams EXCEPT ![k] =
           [@ EXCEPT !.publisher = NoSession,
                     !.gone = 0,
                     !.state = IF streams[k].count > 0 THEN "GracePeriod" ELSE "Idle"]]
    /\ UNCHANGED nextChan

(* subscribe refuses a missing entry and an idle one.                      *)
Joinable(k) ==
    /\ Exists(k)
    /\ ~(streams[k].state = "Idle" /\ streams[k].publisher = NoSession)

Subscribe(k) ==
    /\ Joinable(k)
    /\ streams' = [streams EXCEPT ![k].count = (@ + 1) % CountModulus]
    /\ UNCHANGED nextChan

(* fetch_sub wraps below zero.                                             *)
Unsubscribe(k) ==
    /\ Exists(k)
    /\ streams' = [streams EXCEPT ![k].count = (@ + CountModulus - 1) % CountModulus]
    /\ UNCHANGED nextChan

----------------------------------------------------------------------------
(* A slip: idle entries never expire.                                      *)
GraceExpired(k) == streams[k].state = "GracePeriod" /\ streams[k].gone > GracePeriod

(* Whether cleanup removes the entry.  An Idle entry whose publisher never *)
(* left would be judged by created_at: EntryConsistent shows there is none.*)
Expired(k) ==
    \/ streams[k].state = "GracePeriod" /\ streams[k].gone > GracePeriod
    \/ streams[k].state = "Idle" /\ streams[k].gone > IdleTimeout

(* One round of cleanup that removes something.                            *)
Cleanup ==
    /\ \E k \in Key : Expired(k)
    /\ streams' = [k \in Key |-> IF Expired(k) THEN NoEntry ELSE streams[k]]
    /\ UNCHANGED nextChan

Older(e) == IF e.gone = Never \/ e.gone = AgeCap THEN e ELSE [e EXCEPT !.gone = @ + 1]

(* Time passes for every entry whose publisher has left.                   *)
Tick ==
    /\ \E k \in Key : Older(streams[k]) # streams[k]
    /\ streams' = [k \in Key |-> Older(streams[k])]
    /\ UNCHANGED nextChan

----------------------------------------------------------------------------
RegistryNext ==
    \/ \E k \in Key, s \in Session :
          RegisterPublisher(k, s) \/ UnregisterPublisher(k, s)
    \/ \E k \in Key : Subscribe(k) \/ Unsubscribe(k)
    \/ Cleanup
    \/ Tick

RegistrySafe == RegistryInit /\ [][RegistryNext]_registryVars

(* The clock runs and spawn_cleanup_task calls cleanup again and again.    *)
RegistryFairness == WF_registryVars(Tick) /\ WF_registryVars(Cleanup)

RegistrySpec == RegistrySafe /\ RegistryFairness

----------------------------------------------------------------------------
(* Every field of every entry keeps its type.                              *)
RegistryTypeOK ==
    /\ streams \in [Key -> Entry]
    /\ nextChan \in Nat \ {0}

(* The three fields that describe the publisher never disagree: a key has  *)
(* a publisher exactly in state Active, and a time of departure exactly    *)
(* when the publisher has left.  So the "Active without publisher" arm of  *)
(* register_publisher and the created_at arm of cleanup are never taken.   *)
EntryConsistent ==
    \A k \in Key :
        LET e == streams[k] IN
        /\ e.publisher # NoSession <=> e.state = "Active"
        /\ e.gone # Never <=> e.state \in {"GracePeriod", "Idle"}
        /\ e.chan = NoChan <=> e.state = "Absent"

(* The registry is a lock per key for publishers, whatever the clients do. *)
Lock == INSTANCE PublisherLock WITH owner <- [k \in Key |-> streams[k].publisher]
LockSpec == Lock!Spec

(* An entry without publisher does not stay for ever: its publisher comes  *)
(* back or the cleanup task removes it.                                    *)
Unpublished(k) == streams[k].state \in {"GracePeriod", "Idle"}
UnpublishedEnds == \A k \in Key : Unpublished(k) ~> ~Unpublished(k)
=============================================================================
