--------------------------- MODULE PublisherLock ---------------------------
(***************************************************************************)
(* What the stream registry promises to publishers, with everything else   *)
(* left out: every stream key is a lock.  A session may take a key nobody  *)
(* holds, and only the session that holds a key ever gives it back.        *)
(*                                                                         *)
(* StreamRegistry implements this specification with owner[k] read as the  *)
(* publisher_id of the entry of k (None when there is no entry).           *)
(***************************************************************************)
CONSTANTS Key,        \* stream keys: application name and stream name
          Session,    \* session ids handed out by the listener
          NoSession   \* stands for None

VARIABLE owner

Init == owner = [k \in Key |-> NoSession]

Acquire(k, s) ==
    /\ owner[k] = NoSession
    /\ owner' = [owner EXCEPT ![k] = s]

Release(k, s) ==
    /\ owner[k] = s
    /\ owner' = [owner EXCEPT ![k] = NoSession]

Next == \E k \in Key, s \in Session : Acquire(k, s) \/ Release(k, s)

Spec == Init /\ [][Next]_owner
=============================================================================
