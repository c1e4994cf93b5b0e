--------------------------- MODULE MCMediaServer ---------------------------
(* Small servers: the stream keys and the sessions of each configuration.  *)
EXTENDS MediaServer
CONSTANTS k1, k2, s1, s2

TwoKeys == {k1, k2}
TwoSessions == {s1, s2}
=============================================================================
