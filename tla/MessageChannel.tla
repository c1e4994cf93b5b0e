--------------------------- MODULE MessageChannel ---------------------------
(***************************************************************************)
(* What handshake and chunks add up to, in one direction of a connection:  *)
(* a lossless channel of messages for each chunk stream.  A message is     *)
(* received as it was sent and in its turn, unless its sender takes it     *)
(* back or the connection breaks.                                          *)
(***************************************************************************)
EXTENDS SequencesExt

CONSTANT Csids      \* chunk streams

VARIABLES
    queue,      \* the messages of a chunk stream on their way
    received,   \* the messages of a chunk stream that have arrived
    up          \* the connection has not failed

Init ==
    /\ queue = [c \in Csids |-> << >>]
    /\ received = [c \in Csids |-> << >>]
    /\ up = TRUE

Send(c) ==
    /\ queue'[c] # << >>
    /\ queue' = [queue EXCEPT ![c] = Append(@, Last(queue'[c]))]
    /\ UNCHANGED <<received, up>>

TakeBack(c) ==
    /\ queue[c] # << >>
    /\ queue' = [queue EXCEPT ![c] = Front(@)]
    /\ UNCHANGED <<received, up>>

Receive(c) ==
    /\ up /\ queue[c] # << >>
    /\ received' = [received EXCEPT ![c] = Append(@, Head(queue[c]))]
    /\ queue' = [queue EXCEPT ![c] = Tail(@)]
    /\ UNCHANGED up

Break ==
    /\ up' = FALSE
    /\ UNCHANGED <<queue, received>>

Next == Break \/ \E c \in Csids : Send(c) \/ TakeBack(c) \/ Receive(c)

Spec == Init /\ [][Next]_<<queue, received, up>>

ChannelSpec ==
    /\ Spec
    /\ \A c \in Csids : WF_<<queue, received, up>>(Receive(c))
=============================================================================
