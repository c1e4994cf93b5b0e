--------------------------- MODULE TransportProofs ---------------------------
(***************************************************************************)
(* What Transport promises of the direction from a client to the server,   *)
(* for every number of messages, every size and every interleaving, as     *)
(* long as timestamps are below the threshold of extended ones.            *)
(*                                                                         *)
(* The argument: whatever is between the sender and the decoder is a       *)
(* sequence of chunks, each of which takes what the receiver knows (a      *)
(* view) one step further; the last view is the one the sender counts on.  *)
(* A control message counts as sent when it is in the outbox, since        *)
(* nothing goes out before it.                                             *)
(***************************************************************************)
EXTENDS Transport, ChunkCodecProofs

(* The receiver is the server, which takes every SetChunkSize, and no      *)
(* timestamp needs an extended one.                                        *)
Setting ==
    /\ Receiver = "server"
    /\ \A t \in Times : t < Threshold

Word == Nat \X Nat

Message ==
    [csid : Csids, timestamp : Nat, message_type : Nat, stream_id : Nat, payload : Seq(Word)]

ChunkHeader ==
    [basic : Seq(Nat), time : Nat, length : Nat, message_type : Nat, stream_id : Nat]

Chunk == [header : ChunkHeader, extended : {<< >>}, data : Seq(Word), number : Nat]

ChunkUnit == [kind : {"header"}, header : ChunkHeader] \cup [kind : {"data"}, word : Word]
HandshakeUnit == [kind : {"version"}, version : Versions] \cup {Packet}
Unit == ChunkUnit \cup HandshakeUnit

----------------------------------------------------------------------------
(* What the receiver knows, and what a chunk makes of it.                  *)

View ==
    [decoder : [Csids -> StreamStates(Word)], size : 1 .. MaxChunkSize,
     count : [DataCsids -> Nat]]

ReadBy(k, v) == DataRead(HeaderRead(k.header, v.decoder[Csid(k.header.basic)], 0), k.data)

ReadMessage(k, v) == MessageOf(ReadBy(k, v), Csid(k.header.basic))

(* The view after chunk k.                                                 *)
After(k, v) ==
    LET c    == Csid(k.header.basic)
        s    == ReadBy(k, v)
        m    == ReadMessage(k, v)
        all  == MessageComplete(s)
        done == [v.decoder EXCEPT ![c] = Emptied(s)]
    IN  [decoder |-> IF ~all THEN [v.decoder EXCEPT ![c] = s]
                     ELSE IF m.message_type = MSG_ABORT
                          THEN [done EXCEPT ![m.payload[1][1]] = Emptied(@)]
                     ELSE done,
         size    |-> IF all /\ m.message_type = MSG_SET_CHUNK_SIZE
                     THEN ChunkSize(m.payload[1][1]) ELSE v.size,
         count   |-> IF all /\ c \in DataCsids THEN [v.count EXCEPT ![c] = @ + 1] ELSE v.count]

(* The receiver takes chunk k for what it is; if it completes a message of *)
(* data, that is the next of those in q.                                   *)
Readable(k, v, q) ==
    LET c == Csid(k.header.basic)
        s == v.decoder[c]
    IN  /\ c \in Csids
        /\ ~ExtendedPeeked(k.header, s) /\ ~ExtendedRead(k.header, s)
        /\ ChunkDataLength(k.header, s, v.size) = Len(k.data)
        /\ MessageComplete(ReadBy(k, v)) /\ c \in DataCsids
           => /\ v.count[c] + 1 <= Len(q[c])
              /\ ReadMessage(k, v) = q[c][v.count[c] + 1]

(* The units of U are chunks; cut[i] is where the ith ends and v[i] the    *)
(* view after it.                                                          *)
Steps(U, n, cut, k, v, q) ==
    \A i \in 1 .. n :
        /\ cut[i] = cut[i - 1] + Len(Units(k[i]))
        /\ SubSeq(U, cut[i - 1] + 1, cut[i]) = Units(k[i])
        /\ Readable(k[i], v[i - 1], q)
        /\ v[i] = After(k[i], v[i - 1])

Ends(U, n, cut, v, first, last) ==
    /\ cut[0] = 0 /\ cut[n] = Len(U)
    /\ \A i, j \in 0 .. n : i <= j => cut[i] <= cut[j]
    /\ v[0] = first /\ v[n] = last

NeverMore(n, v, last) ==
    \A i \in 0 .. n, c \in DataCsids : v[i].count[c] <= last.count[c]

Way(U, first, last, q) ==
    /\ U \in Seq(ChunkUnit)
    /\ \E n \in Nat :
       \E cut \in [0 .. n -> 0 .. Len(U)], k \in [1 .. n -> Chunk], v \in [0 .. n -> View] :
           /\ Steps(U, n, cut, k, v, q)
           /\ Ends(U, n, cut, v, first, last)
           /\ NeverMore(n, v, last)

----------------------------------------------------------------------------
(* Two sequences, one after the other.                                     *)
LEMMA Joined ==
    ASSUME NEW S, NEW s \in Seq(S), NEW t \in Seq(S)
    PROVE  /\ s \o t \in Seq(S) /\ Len(s) \in Nat /\ Len(t) \in Nat
           /\ Len(s \o t) = Len(s) + Len(t)
           /\ \A j \in 1 .. Len(s) : (s \o t)[j] = s[j]
           /\ \A j \in 1 .. Len(t) : (s \o t)[Len(s) + j] = t[j]
OBVIOUS

(* A part of a sequence is a part of every longer one.                     *)
LEMMA PartOfLonger ==
    ASSUME NEW S, NEW s \in Seq(S), NEW t \in Seq(S), NEW a \in Nat \ {0}, NEW b \in 0 .. Len(s)
    PROVE  SubSeq(s \o t, a, b) = SubSeq(s, a, b)
OBVIOUS

(* Of two sequences joined, the second is what comes after the first.     *)
LEMMA PartAfter ==
    ASSUME NEW S, NEW s \in Seq(S), NEW t \in Seq(S)
    PROVE  SubSeq(s \o t, Len(s) + 1, Len(s) + Len(t)) = t
OBVIOUS

(* A part of what is left of a sequence is a part of the sequence.         *)
LEMMA PartOfPart ==
    ASSUME NEW S, NEW s \in Seq(S), NEW m \in 0 .. Len(s),
           NEW a \in Nat \ {0}, NEW b \in Nat, m + b <= Len(s)
    PROVE  SubSeq(SubSeq(s, m + 1, Len(s)), a, b) = SubSeq(s, m + a, m + b)
OBVIOUS

(* Dropping a part of the first sequence before joining or after is one.   *)
LEMMA DropFromJoined ==
    ASSUME NEW S, NEW s \in Seq(S), NEW t \in Seq(S), NEW n \in 0 .. Len(s)
    PROVE  SubSeq(s, n + 1, Len(s)) \o t = SubSeq(s \o t, n + 1, Len(s \o t))
<1> DEFINE a == SubSeq(s, n + 1, Len(s))
           w == s \o t
           x == a \o t
           y == SubSeq(w, n + 1, Len(w))
<1>1. /\ Len(s) \in Nat /\ Len(t) \in Nat /\ a \in Seq(S) /\ Len(a) = Len(s) - n
      /\ \A j \in 1 .. Len(a) : a[j] = s[n + j]
  OBVIOUS
<1>2. /\ w \in Seq(S) /\ Len(w) = Len(s) + Len(t)
      /\ \A j \in 1 .. Len(s) : w[j] = s[j]
      /\ \A j \in 1 .. Len(t) : w[Len(s) + j] = t[j]
  BY Joined
<1>3. /\ x \in Seq(S) /\ Len(x) = Len(a) + Len(t)
      /\ \A j \in 1 .. Len(a) : x[j] = a[j]
      /\ \A j \in 1 .. Len(t) : x[Len(a) + j] = t[j]
  <2>1. a \in Seq(S) /\ t \in Seq(S)
    BY <1>1
  <2> HIDE DEF a
  <2> QED BY <2>1, Joined
<1>4. /\ y \in Seq(S) /\ Len(y) = Len(w) - n
      /\ \A j \in 1 .. Len(w) - n : y[j] = w[n + j]
  <2> HIDE DEF w
  <2> QED BY <1>1, <1>2
<1>5. Len(x) = Len(y) /\ Len(x) \in Nat /\ Len(a) \in Nat
  <2> HIDE DEF a, w, x, y
  <2> QED BY <1>1, <1>2, <1>3, <1>4
<1>6. ASSUME NEW j \in 1 .. Len(x) PROVE x[j] = y[j]
  <2>1. y[j] = w[n + j] /\ j \in Nat
    <3> HIDE DEF a, w, x, y
    <3> QED BY <1>1, <1>2, <1>4, <1>5
  <2>2. CASE j <= Len(a)
    <3>1. n + j \in 1 .. Len(s) /\ j \in 1 .. Len(a)
      <4> HIDE DEF a, w, x, y
      <4> QED BY <1>1, <1>5, <2>2
    <3>2. w[n + j] = s[n + j] /\ x[j] = a[j] /\ a[j] = s[n + j]
      BY <1>1, <1>2, <1>3, <3>1, Zenon
    <3> QED BY <2>1, <3>2, Zenon
  <2>3. CASE ~(j <= Len(a))
    <3> DEFINE i == j - Len(a)
    <3>1. i \in 1 .. Len(t) /\ n + j = Len(s) + i /\ j = Len(a) + i
      <4> HIDE DEF a, w, x, y
      <4> QED BY <1>1, <1>3, <1>5, <2>3
    <3> HIDE DEF i
    <3>2. w[Len(s) + i] = t[i] /\ x[Len(a) + i] = t[i]
      BY <1>2, <1>3, <3>1, Zenon
    <3> QED BY <2>1, <3>1, <3>2, Zenon
  <2> QED BY <2>2, <2>3
<1> HIDE DEF a, w, x, y
<1>7. x = [j \in 1 .. Len(x) |-> x[j]] /\ y = [j \in 1 .. Len(y) |-> y[j]]
  BY <1>3, <1>4
<1>8. x = y
  BY <1>5, <1>6, <1>7
<1> QED BY <1>8 DEF a, w, x, y

(* The units of a chunk: its header, then its data.                        *)
LEMMA UnitsShape ==
    ASSUME NEW k \in Chunk
    PROVE  /\ Units(k) \in Seq(ChunkUnit)
           /\ Len(Units(k)) = 1 + Len(k.data)
           /\ Units(k)[1] = [kind |-> "header", header |-> k.header]
           /\ \A j \in 1 .. Len(k.data) : Units(k)[1 + j] = [kind |-> "data", word |-> k.data[j]]
<1> DEFINE one == << [kind |-> "header", header |-> k.header] >>
           none == [i \in DOMAIN k.extended |-> [kind |-> "extended", time |-> k.extended[i]]]
           data == [i \in DOMAIN k.data |-> [kind |-> "data", word |-> k.data[i]]]
<1>1. k.extended = << >> /\ k.data \in Seq(Word) /\ k.header \in ChunkHeader
  BY DEF Chunk
<1>2. one \in Seq(ChunkUnit) /\ Len(one) = 1 /\ one[1] = [kind |-> "header", header |-> k.header]
  <2>1. [kind |-> "header", header |-> k.header] \in ChunkUnit
    BY <1>1 DEF ChunkUnit
  <2> QED BY <2>1
<1>3. none = << >>
  BY <1>1
<1>4. /\ data \in Seq(ChunkUnit) /\ Len(data) = Len(k.data)
      /\ \A j \in 1 .. Len(k.data) : data[j] = [kind |-> "data", word |-> k.data[j]]
  <2>1. DOMAIN k.data = 1 .. Len(k.data) /\ Len(k.data) \in Nat
    BY <1>1
  <2>2. \A i \in DOMAIN k.data : [kind |-> "data", word |-> k.data[i]] \in ChunkUnit
    BY <1>1, <2>1 DEF ChunkUnit
  <2>3. data \in [1 .. Len(k.data) -> ChunkUnit]
    BY <2>1, <2>2
  <2> QED BY <2>1, <2>3
<1>5. Units(k) = one \o data
  <2>1. Units(k) = one \o none \o data
    BY DEF Units
  <2>2. one \o << >> = one
    BY <1>2
  <2> QED BY <1>3, <2>1, <2>2
<1>6. /\ one \o data \in Seq(ChunkUnit) /\ Len(one \o data) = 1 + Len(data)
      /\ (one \o data)[1] = one[1] /\ Len(data) \in Nat
      /\ \A j \in 1 .. Len(data) : (one \o data)[1 + j] = data[j]
  <2>1. one \in Seq(ChunkUnit) /\ data \in Seq(ChunkUnit) /\ Len(one) = 1
    BY <1>2, <1>4
  <2> HIDE DEF one, data
  <2>2. one \o data \in Seq(ChunkUnit) /\ Len(one \o data) = Len(one) + Len(data)
    BY <2>1, Joined
  <2>3. \A j \in 1 .. Len(one) : (one \o data)[j] = one[j]
    BY <2>1, Joined
  <2>4. ASSUME NEW j \in 1 .. Len(data) PROVE (one \o data)[1 + j] = data[j]
    <3> DEFINE i == 1 + j
    <3>1. i \in 1 .. Len(one) + Len(data) /\ ~(i <= Len(one)) /\ i - Len(one) = j
      BY <2>1
    <3> HIDE DEF i
    <3>2. (one \o data)[i] = data[i - Len(one)]
      BY <2>1, <3>1, ConcatProperties
    <3> QED BY <3>1, <3>2 DEF i
  <2>5. Len(data) \in Nat
    BY <2>1
  <2> QED BY <2>1, <2>2, <2>3, <2>4, <2>5
<1>7. \A j \in 1 .. Len(k.data) : (one \o data)[1 + j] = [kind |-> "data", word |-> k.data[j]]
  <2> HIDE DEF one, data
  <2> QED BY <1>4, <1>6
<1> HIDE DEF one, data
<1> QED BY <1>2, <1>4, <1>5, <1>6, <1>7, Zenon

(* A chunk is not empty.                                                   *)
LEMMA UnitsNotEmpty ==
    ASSUME NEW k \in Chunk
    PROVE  Len(Units(k)) \in Nat \ {0} /\ Units(k) \in Seq(ChunkUnit)
<1>1. k.data \in Seq(Word)
  BY DEF Chunk
<1>2. Len(k.data) \in Nat
  BY <1>1
<1>3. Len(Units(k)) = 1 + Len(k.data) /\ Units(k) \in Seq(ChunkUnit)
  BY UnitsShape, Zenon
<1> QED BY <1>2, <1>3

(* Nothing is on its way.                                                  *)
LEMMA WayEmpty ==
    ASSUME NEW q, NEW f \in View
    PROVE  Way(<< >>, f, f, q)
<1> DEFINE cut == [i \in 0 .. 0 |-> 0]
           k == << >>
           v == [i \in 0 .. 0 |-> f]
<1>1. cut \in [0 .. 0 -> 0 .. Len(<< >>)] /\ v \in [0 .. 0 -> View]
  OBVIOUS
<1>2. k \in [1 .. 0 -> Chunk]
  OBVIOUS
<1>3. Steps(<< >>, 0, cut, k, v, q)
  BY DEF Steps
<1>4. Ends(<< >>, 0, cut, v, f, f)
  BY DEF Ends
<1>5. NeverMore(0, v, f)
  BY DEF NeverMore, View
<1> QED BY <1>1, <1>2, <1>3, <1>4, <1>5, EmptySeq DEF Way

(* One chunk more at the end.                                              *)
LEMMA WayTail ==
    ASSUME NEW q, NEW U, NEW f, NEW l \in View, Way(U, f, l, q),
           NEW chunk \in Chunk, Readable(chunk, l, q), After(chunk, l) \in View,
           \A c \in DataCsids : l.count[c] <= After(chunk, l).count[c]
    PROVE  Way(U \o Units(chunk), f, After(chunk, l), q)
<1> DEFINE L == Len(U)
           M == Len(Units(chunk))
           W == U \o Units(chunk)
           e == After(chunk, l)
<1> U \in Seq(ChunkUnit)
  BY DEF Way
<1>0. PICK n \in Nat :
          \E cut \in [0 .. n -> 0 .. L], k \in [1 .. n -> Chunk], v \in [0 .. n -> View] :
              /\ Steps(U, n, cut, k, v, q)
              /\ Ends(U, n, cut, v, f, l)
              /\ NeverMore(n, v, l)
  BY DEF Way
<1>1. PICK cut \in [0 .. n -> 0 .. L], k \in [1 .. n -> Chunk], v \in [0 .. n -> View] :
          /\ Steps(U, n, cut, k, v, q)
          /\ Ends(U, n, cut, v, f, l)
          /\ NeverMore(n, v, l)
  BY <1>0
<1>2. /\ L \in Nat /\ M \in Nat /\ Units(chunk) \in Seq(ChunkUnit)
      /\ W \in Seq(ChunkUnit) /\ Len(W) = L + M
  <2>1. Units(chunk) \in Seq(ChunkUnit)
    BY UnitsShape
  <2> QED BY <2>1, Joined
<1> DEFINE cut2 == [i \in 0 .. n + 1 |-> IF i = n + 1 THEN L + M ELSE cut[i]]
           k2 == [i \in 1 .. n + 1 |-> IF i = n + 1 THEN chunk ELSE k[i]]
           v2 == [i \in 0 .. n + 1 |-> IF i = n + 1 THEN e ELSE v[i]]
<1>3. cut2 \in [0 .. n + 1 -> 0 .. Len(W)]
  BY <1>2
<1>4. k2 \in [1 .. n + 1 -> Chunk] /\ v2 \in [0 .. n + 1 -> View]
  OBVIOUS
<1>5. Steps(W, n + 1, cut2, k2, v2, q)
  <2>1. ASSUME NEW i \in 1 .. n + 1
        PROVE  /\ cut2[i] = cut2[i - 1] + Len(Units(k2[i]))
               /\ SubSeq(W, cut2[i - 1] + 1, cut2[i]) = Units(k2[i])
               /\ Readable(k2[i], v2[i - 1], q)
               /\ v2[i] = After(k2[i], v2[i - 1])
    <3>1. CASE i = n + 1
      <4>1. cut2[i] = L + M /\ k2[i] = chunk /\ v2[i] = e
        BY <3>1
      <4>2. i - 1 \in 0 .. n + 1 /\ i - 1 # n + 1 /\ i - 1 = n
        BY <3>1
      <4>3. cut2[i - 1] = L /\ v2[i - 1] = l
        BY <1>1, <4>2 DEF Ends
      <4>4. SubSeq(W, L + 1, L + M) = Units(chunk)
        BY <1>2, PartAfter
      <4> HIDE DEF W, L, M, e, cut2, k2, v2
      <4> QED BY <4>1, <4>3, <4>4 DEF e, M
    <3>2. CASE i # n + 1
      <4>1. i \in 1 .. n /\ i - 1 \in 0 .. n /\ i \in 0 .. n
        BY <3>2
      <4>2. /\ cut2[i] = cut[i] /\ k2[i] = k[i] /\ v2[i] = v[i]
            /\ cut2[i - 1] = cut[i - 1] /\ v2[i - 1] = v[i - 1]
        BY <4>1
      <4>3. cut[i] \in 0 .. L /\ cut[i - 1] + 1 \in Nat \ {0}
        BY <1>2, <4>1
      <4>4. SubSeq(W, cut[i - 1] + 1, cut[i]) = SubSeq(U, cut[i - 1] + 1, cut[i])
        <5> DEFINE T == Units(chunk)
                   a == cut[i - 1] + 1
                   b == cut[i]
        <5>1. T \in Seq(ChunkUnit) /\ a \in Nat \ {0} /\ b \in 0 .. Len(U)
          BY <1>2, <4>3
        <5> HIDE DEF T, a, b
        <5>2. SubSeq(U \o T, a, b) = SubSeq(U, a, b)
          BY <5>1, PartOfLonger
        <5> QED BY <5>2 DEF T, a, b
      <4>5. /\ cut[i] = cut[i - 1] + Len(Units(k[i]))
            /\ SubSeq(U, cut[i - 1] + 1, cut[i]) = Units(k[i])
            /\ Readable(k[i], v[i - 1], q)
            /\ v[i] = After(k[i], v[i - 1])
        BY <1>1, <4>1 DEF Steps
      <4> QED BY <4>2, <4>4, <4>5, Zenon
    <3> QED BY <3>1, <3>2
  <2> QED BY <2>1 DEF Steps
<1>6. Ends(W, n + 1, cut2, v2, f, e)
  <2>1. 0 \in 0 .. n + 1 /\ 0 # n + 1 /\ n + 1 \in 0 .. n + 1
    OBVIOUS
  <2>2. cut2[0] = cut[0] /\ v2[0] = v[0] /\ cut2[n + 1] = L + M /\ v2[n + 1] = e
    BY <2>1
  <2>3. ASSUME NEW i \in 0 .. n + 1, NEW j \in 0 .. n + 1, i <= j PROVE cut2[i] <= cut2[j]
    <3>1. CASE j = n + 1
      BY <1>2, <1>3, <3>1
    <3>2. CASE j # n + 1
      <4>1. i \in 0 .. n /\ j \in 0 .. n
        BY <2>3, <3>2
      <4>2. cut2[i] = cut[i] /\ cut2[j] = cut[j]
        BY <4>1
      <4> HIDE DEF cut2
      <4> QED BY <1>1, <2>3, <4>1, <4>2 DEF Ends
    <3> QED BY <3>1, <3>2
  <2> HIDE DEF cut2, v2, e, W
  <2> QED BY <1>1, <1>2, <2>2, <2>3 DEF Ends
<1>7. NeverMore(n + 1, v2, e)
  <2>1. ASSUME NEW i \in 0 .. n + 1, NEW c \in DataCsids
        PROVE  v2[i].count[c] <= e.count[c]
    <3>1. l.count[c] \in Nat /\ e.count[c] \in Nat /\ l.count[c] <= e.count[c]
      BY DEF View
    <3>2. CASE i = n + 1
      BY <3>1, <3>2
    <3>3. CASE i # n + 1
      <4>1. i \in 0 .. n /\ v2[i] = v[i]
        BY <3>3
      <4>2. v[i].count[c] <= l.count[c] /\ v[i].count[c] \in Nat
        BY <1>1, <4>1 DEF NeverMore, View
      <4> HIDE DEF v2, e
      <4> QED BY <3>1, <4>1, <4>2
    <3> QED BY <3>2, <3>3
  <2> QED BY <2>1 DEF NeverMore
<1>8. n + 1 \in Nat
  OBVIOUS
<1>9. W \in Seq(ChunkUnit)
  BY <1>2
<1> HIDE DEF W, cut2, k2, v2, e
<1> QED BY <1>3, <1>4, <1>5, <1>6, <1>7, <1>8, <1>9 DEF Way, W, e

(* Both ends of a way are views, and nothing is taken back on it.          *)
LEMMA WayType ==
    ASSUME NEW q, NEW U, NEW f, NEW l, Way(U, f, l, q)
    PROVE  /\ f \in View /\ l \in View
           /\ \A c \in DataCsids : f.count[c] <= l.count[c]
<1>0. PICK n \in Nat :
          \E cut \in [0 .. n -> 0 .. Len(U)], k \in [1 .. n -> Chunk], v \in [0 .. n -> View] :
              /\ Steps(U, n, cut, k, v, q)
              /\ Ends(U, n, cut, v, f, l)
              /\ NeverMore(n, v, l)
  BY DEF Way
<1>1. PICK cut \in [0 .. n -> 0 .. Len(U)], k \in [1 .. n -> Chunk], v \in [0 .. n -> View] :
          /\ Steps(U, n, cut, k, v, q)
          /\ Ends(U, n, cut, v, f, l)
          /\ NeverMore(n, v, l)
  BY <1>0
<1>2. f = v[0] /\ l = v[n] /\ 0 \in 0 .. n /\ n \in 0 .. n
  BY <1>1 DEF Ends
<1> QED BY <1>1, <1>2 DEF NeverMore

(* A way over nothing leads nowhere.                                       *)
LEMMA WayEnds ==
    ASSUME NEW q, NEW f, NEW l, Way(<< >>, f, l, q)
    PROVE  f = l
<1> DEFINE U == << >>
<1>0. PICK n \in Nat :
          \E cut \in [0 .. n -> 0 .. Len(U)], k \in [1 .. n -> Chunk], v \in [0 .. n -> View] :
              /\ Steps(U, n, cut, k, v, q)
              /\ Ends(U, n, cut, v, f, l)
              /\ NeverMore(n, v, l)
  BY DEF Way
<1>1. PICK cut \in [0 .. n -> 0 .. Len(U)], k \in [1 .. n -> Chunk], v \in [0 .. n -> View] :
          /\ Steps(U, n, cut, k, v, q)
          /\ Ends(U, n, cut, v, f, l)
          /\ NeverMore(n, v, l)
  BY <1>0
<1>2. CASE n = 0
  BY <1>1, <1>2 DEF Ends
<1>3. CASE n # 0
  <2>1. 1 \in 1 .. n /\ 1 \in 0 .. n /\ 1 - 1 = 0
    BY <1>3
  <2>2. cut[1] = cut[0] + Len(Units(k[1])) /\ cut[0] = 0
    BY <1>1, <2>1 DEF Steps, Ends
  <2>3. cut[1] \in 0 .. 0
    BY <2>1
  <2>4. k[1] \in Chunk
    BY <2>1
  <2>5. Len(Units(k[1])) \in Nat \ {0}
    BY <2>4, UnitsNotEmpty
  <2> QED BY <2>2, <2>3, <2>5
<1> QED BY <1>2, <1>3

(* The first chunk of a way, and the way from there.                       *)
LEMMA WayHead ==
    ASSUME NEW q, NEW U, U # << >>, NEW f, NEW l, Way(U, f, l, q)
    PROVE  \E chunk \in Chunk :
               /\ Len(Units(chunk)) \in 1 .. Len(U)
               /\ SubSeq(U, 1, Len(Units(chunk))) = Units(chunk)
               /\ Readable(chunk, f, q)
               /\ Way(SubSeq(U, Len(Units(chunk)) + 1, Len(U)), After(chunk, f), l, q)
<1> U \in Seq(ChunkUnit)
  BY DEF Way
<1>0. PICK n \in Nat :
          \E cut \in [0 .. n -> 0 .. Len(U)], k \in [1 .. n -> Chunk], v \in [0 .. n -> View] :
              /\ Steps(U, n, cut, k, v, q)
              /\ Ends(U, n, cut, v, f, l)
              /\ NeverMore(n, v, l)
  BY DEF Way
<1>1. PICK cut \in [0 .. n -> 0 .. Len(U)], k \in [1 .. n -> Chunk], v \in [0 .. n -> View] :
          /\ Steps(U, n, cut, k, v, q)
          /\ Ends(U, n, cut, v, f, l)
          /\ NeverMore(n, v, l)
  BY <1>0
<1>2. n # 0
  <2>1. Len(U) # 0
    OBVIOUS
  <2> QED BY <1>1, <2>1 DEF Ends
<1>3. /\ 1 \in 1 .. n /\ 1 - 1 = 0 /\ 0 \in 0 .. n /\ 1 \in 0 .. n /\ n \in 0 .. n
      /\ n - 1 \in Nat /\ n - 1 \in 0 .. n - 1 /\ (n - 1) + 1 = n /\ 0 + 1 = 1 /\ 0 \in 0 .. n - 1
  BY <1>2
<1> DEFINE chunk == k[1]
           L == Len(U)
           M == Len(Units(chunk))
           W == SubSeq(U, M + 1, L)
           cut2 == [i \in 0 .. n - 1 |-> cut[i + 1] - M]
           k2 == [i \in 1 .. n - 1 |-> k[i + 1]]
           v2 == [i \in 0 .. n - 1 |-> v[i + 1]]
<1>4. /\ chunk \in Chunk /\ cut[1] = M /\ M \in 1 .. L /\ L \in Nat
      /\ SubSeq(U, 1, M) = Units(chunk) /\ Readable(chunk, f, q) /\ v[1] = After(chunk, f)
  <2>1. /\ cut[1] = cut[0] + M /\ cut[0] = 0 /\ v[0] = f /\ cut[1] \in 0 .. L
        /\ SubSeq(U, cut[0] + 1, cut[1]) = Units(chunk)
        /\ Readable(chunk, v[0], q) /\ v[1] = After(chunk, v[0])
    BY <1>1, <1>3 DEF Steps, Ends
  <2>2. chunk \in Chunk
    BY <1>3
  <2>3. M \in Nat \ {0} /\ L \in Nat
    BY <2>2, UnitsNotEmpty
  <2> HIDE DEF M, L, chunk
  <2>4. cut[1] = M /\ M \in 1 .. L
    BY <2>1, <2>3
  <2> QED BY <1>3, <2>1, <2>2, <2>3, <2>4 DEF chunk
<1>5. ASSUME NEW i \in 0 .. n - 1
      PROVE  /\ i + 1 \in 1 .. n /\ i + 1 \in 0 .. n
             /\ cut[i + 1] \in M .. L /\ cut2[i] = cut[i + 1] - M /\ v2[i] = v[i + 1]
  <2>1. i + 1 \in 1 .. n /\ i + 1 \in 0 .. n /\ 1 <= i + 1
    BY <1>2
  <2>2. cut[i + 1] \in 0 .. L /\ cut[1] <= cut[i + 1]
    BY <1>1, <1>3, <2>1 DEF Ends
  <2>3. cut[i + 1] \in M .. L
    BY <1>4, <2>2
  <2> QED BY <2>1, <2>3
<1>6. W \in Seq(ChunkUnit) /\ Len(W) = L - M
  <2> HIDE DEF L, M
  <2> QED BY <1>4 DEF L
<1>7. cut2 \in [0 .. n - 1 -> 0 .. Len(W)]
  <2>1. ASSUME NEW i \in 0 .. n - 1 PROVE cut[i + 1] - M \in 0 .. L - M
    <3> HIDE DEF L, M
    <3> QED BY <1>4, <1>5
  <2> HIDE DEF L, M, W
  <2> QED BY <1>6, <2>1
<1>8. k2 \in [1 .. n - 1 -> Chunk] /\ v2 \in [0 .. n - 1 -> View]
  BY <1>2
<1>9. Steps(W, n - 1, cut2, k2, v2, q)
  <2>1. ASSUME NEW i \in 1 .. n - 1
        PROVE  /\ cut2[i] = cut2[i - 1] + Len(Units(k2[i]))
               /\ SubSeq(W, cut2[i - 1] + 1, cut2[i]) = Units(k2[i])
               /\ Readable(k2[i], v2[i - 1], q)
               /\ v2[i] = After(k2[i], v2[i - 1])
    <3>1. i \in 0 .. n - 1 /\ i - 1 \in 0 .. n - 1 /\ (i - 1) + 1 = i /\ (i + 1) - 1 = i
          /\ i + 1 \in 1 .. n
      OBVIOUS
    <3>2. /\ cut2[i] = cut[i + 1] - M /\ v2[i] = v[i + 1] /\ k2[i] = k[i + 1]
          /\ cut2[i - 1] = cut[i] - M /\ v2[i - 1] = v[i]
          /\ cut[i + 1] \in M .. L /\ cut[i] \in M .. L
      <4> HIDE DEF cut2, v2, L, M
      <4> QED BY <1>5, <3>1
    <3>3. /\ cut[i + 1] = cut[i] + Len(Units(k[i + 1]))
          /\ SubSeq(U, cut[i] + 1, cut[i + 1]) = Units(k[i + 1])
          /\ Readable(k[i + 1], v[i], q)
          /\ v[i + 1] = After(k[i + 1], v[i])
      BY <1>1, <3>1 DEF Steps
    <3>4. k[i + 1] \in Chunk
      BY <3>1
    <3>5. Len(Units(k[i + 1])) \in Nat
      BY <3>4, UnitsNotEmpty
    <3>6. SubSeq(W, (cut[i] - M) + 1, cut[i + 1] - M) = SubSeq(U, cut[i] + 1, cut[i + 1])
      <4> DEFINE a == (cut[i] - M) + 1
                 b == cut[i + 1] - M
      <4>1. /\ M \in 0 .. L /\ a \in Nat \ {0} /\ b \in Nat /\ M + b <= L
            /\ M + a = cut[i] + 1 /\ M + b = cut[i + 1]
        <5> DEFINE x == cut[i]
                   y == cut[i + 1]
        <5>1. M \in 1 .. L /\ L \in Nat /\ y \in M .. L /\ x \in M .. L
          BY <1>4, <3>2
        <5> HIDE DEF M, L, x, y
        <5>2. M \in 0 .. L /\ (x - M) + 1 \in Nat \ {0} /\ y - M \in Nat
          BY <5>1
        <5>3. M + (y - M) <= L /\ M + ((x - M) + 1) = x + 1 /\ M + (y - M) = y
          BY <5>1
        <5> QED BY <5>2, <5>3 DEF x, y
      <4> HIDE DEF M, a, b
      <4>2. SubSeq(SubSeq(U, M + 1, Len(U)), a, b) = SubSeq(U, M + a, M + b)
        BY <4>1, PartOfPart
      <4> QED BY <4>1, <4>2 DEF a, b
    <3>7. cut[i + 1] - M = (cut[i] - M) + Len(Units(k[i + 1]))
      <4> DEFINE x == Len(Units(k[i + 1]))
      <4>1. /\ M \in Nat /\ x \in Nat /\ cut[i] \in Int /\ cut[i + 1] \in Int
            /\ cut[i + 1] = cut[i] + x
        BY <1>4, <3>2, <3>3, <3>5
      <4> HIDE DEF M, L, x
      <4>2. cut[i + 1] - M = (cut[i] - M) + x
        BY <4>1
      <4> QED BY <4>2 DEF x
    <3> HIDE DEF cut2, k2, v2, M, L, W
    <3> QED BY <3>2, <3>3, <3>6, <3>7
  <2> HIDE DEF cut2, k2, v2, W
  <2> QED BY <2>1 DEF Steps
<1>10. Ends(W, n - 1, cut2, v2, After(chunk, f), l)
  <2>1. cut2[0] = cut[0 + 1] - M /\ v2[0] = v[0 + 1]
    BY <1>3, <1>5
  <2>2. cut2[n - 1] = cut[(n - 1) + 1] - M /\ v2[n - 1] = v[(n - 1) + 1]
    BY <1>3, <1>5
  <2>3. ASSUME NEW i \in 0 .. n - 1, NEW j \in 0 .. n - 1, i <= j PROVE cut2[i] <= cut2[j]
    <3>1. cut[i + 1] <= cut[j + 1]
      BY <1>1, <1>5, <2>3 DEF Ends
    <3> DEFINE x == cut[i + 1]
               y == cut[j + 1]
    <3>2. /\ cut2[i] = x - M /\ cut2[j] = y - M /\ x <= y
          /\ x \in M .. L /\ y \in M .. L
      <4> HIDE DEF cut2, M, L
      <4> QED BY <1>5, <3>1
    <3>3. M \in Nat /\ L \in Nat
      BY <1>4
    <3> HIDE DEF cut2, M, L, x, y
    <3> QED BY <3>2, <3>3
  <2>4. cut2[0] = 0 /\ cut2[n - 1] = L - M /\ v2[0] = After(chunk, f) /\ v2[n - 1] = l
    <3> HIDE DEF cut2, v2, M, chunk
    <3> QED BY <1>1, <1>3, <1>4, <2>1, <2>2 DEF Ends
  <2> HIDE DEF cut2, v2, M, L, W, chunk
  <2> QED BY <1>6, <2>3, <2>4 DEF Ends
<1>11. NeverMore(n - 1, v2, l)
  <2> HIDE DEF cut2, v2, M, L
  <2> QED BY <1>1, <1>5 DEF NeverMore
<1>12. Way(W, After(chunk, f), l, q)
  <2> HIDE DEF W, cut2, k2, v2, chunk
  <2> QED BY <1>3, <1>6, <1>7, <1>8, <1>9, <1>10, <1>11 DEF Way
<1> HIDE DEF chunk
<1> QED BY <1>4, <1>12

(* A message that completes on the way is among those the way leads to, so *)
(* what is sent or taken back beyond them does not matter to it.           *)
LEMMA WayOtherwise ==
    ASSUME NEW q, NEW p, NEW U, NEW f, NEW l, Way(U, f, l, q),
           \A c \in DataCsids : \A j \in 1 .. l.count[c] :
               j <= Len(q[c]) => j <= Len(p[c]) /\ p[c][j] = q[c][j]
    PROVE  Way(U, f, l, p)
<1>0. PICK n \in Nat :
          \E cut \in [0 .. n -> 0 .. Len(U)], k \in [1 .. n -> Chunk], v \in [0 .. n -> View] :
              /\ Steps(U, n, cut, k, v, q)
              /\ Ends(U, n, cut, v, f, l)
              /\ NeverMore(n, v, l)
  BY DEF Way
<1>1. PICK cut \in [0 .. n -> 0 .. Len(U)], k \in [1 .. n -> Chunk], v \in [0 .. n -> View] :
          /\ Steps(U, n, cut, k, v, q)
          /\ Ends(U, n, cut, v, f, l)
          /\ NeverMore(n, v, l)
  BY <1>0
<1>2. ASSUME NEW i \in 1 .. n
      PROVE  Readable(k[i], v[i - 1], p)
  <2> DEFINE c == Csid(k[i].header.basic)
             u == v[i - 1]
             w == v[i]
             j == u.count[c] + 1
  <2>1. i - 1 \in 0 .. n /\ i \in 0 .. n
    OBVIOUS
  <2>2. u \in View /\ w \in View
    BY <2>1
  <2>3. Readable(k[i], u, q) /\ w = After(k[i], u)
    BY <1>1 DEF Steps
  <2>4. ASSUME MessageComplete(ReadBy(k[i], u)), c \in DataCsids
        PROVE  /\ j \in 1 .. l.count[c]
               /\ j <= Len(q[c])
               /\ ReadMessage(k[i], u) = q[c][j]
    <3>1. w.count[c] = j
      <4>1. w.count = [u.count EXCEPT ![c] = @ + 1]
        <5>1. w.count = IF MessageComplete(ReadBy(k[i], u)) /\ c \in DataCsids
                        THEN [u.count EXCEPT ![c] = @ + 1] ELSE u.count
          <6> HIDE DEF u, w
          <6> QED BY <2>3 DEF After
        <5> HIDE DEF u, w, c
        <5> QED BY <2>4, <5>1
      <4>2. u.count \in [DataCsids -> Nat]
        BY <2>2 DEF View
      <4> HIDE DEF u, w, c
      <4> QED BY <2>4, <4>1, <4>2
    <3>2. w.count[c] <= l.count[c]
      BY <1>1, <2>1, <2>4 DEF NeverMore
    <3>3. u.count[c] \in Nat /\ l.count[c] \in Nat
      <4>1. l \in View
        BY WayType
      <4> QED BY <2>2, <2>4, <4>1 DEF View
    <3>4. j <= Len(q[c]) /\ ReadMessage(k[i], u) = q[c][j]
      BY <2>3, <2>4 DEF Readable
    <3> DEFINE x == u.count[c]
               y == l.count[c]
    <3>5. x \in Nat /\ y \in Nat /\ j = x + 1 /\ j <= y
      <4> HIDE DEF w, c, u
      <4> QED BY <3>1, <3>2, <3>3
    <3>6. j \in 1 .. y
      <4> HIDE DEF x, y, j
      <4> QED BY <3>5
    <3> HIDE DEF u, w, c, j
    <3> QED BY <3>4, <3>6
  <2>5. ASSUME MessageComplete(ReadBy(k[i], u)), c \in DataCsids
        PROVE  j <= Len(p[c]) /\ ReadMessage(k[i], u) = p[c][j]
    <3> HIDE DEF u, w, c, j
    <3> QED BY <2>4, <2>5
  <2> QED BY <2>3, <2>5 DEF Readable
<1>3. Steps(U, n, cut, k, v, p)
  BY <1>1, <1>2 DEF Steps
<1> QED BY <1>1, <1>3 DEF Way

----------------------------------------------------------------------------
(* The chunks the sender makes are chunks.                                 *)
LEMMA BasicHeaderIsBytes ==
    ASSUME NEW fmt \in 0 .. 3, NEW csid, IsCsid(csid)
    PROVE  BasicHeader(fmt, csid) \in Seq(Nat)
<1>1. csid \in Int /\ csid >= 2 /\ csid <= 65599
  BY DEF IsCsid
<1>2. CASE csid >= 320
  <2>1. fmt * 64 + 1 \in Nat /\ (csid - 64) % 256 \in Nat /\ (csid - 64) \div 256 \in Nat
    BY <1>1, <1>2
  <2>2. BasicHeader(fmt, csid) = << fmt * 64 + 1, (csid - 64) % 256, (csid - 64) \div 256 >>
    BY <1>1, <1>2 DEF BasicHeader
  <2> QED BY <2>1, <2>2
<1>3. CASE csid < 320 /\ csid >= 64
  <2>1. fmt * 64 \in Nat /\ (csid - 64) % 256 \in Nat
    BY <1>1, <1>3
  <2>2. BasicHeader(fmt, csid) = << fmt * 64, (csid - 64) % 256 >>
    <3>1. ~(csid >= 64 + 256) /\ csid >= 64
      BY <1>1, <1>3
    <3> QED BY <3>1 DEF BasicHeader
  <2> QED BY <2>1, <2>2
<1>4. CASE csid < 64
  <2>1. fmt * 64 + csid \in Nat
    BY <1>1, <1>4
  <2>2. BasicHeader(fmt, csid) = << fmt * 64 + csid >>
    <3>1. ~(csid >= 64 + 256) /\ ~(csid >= 64)
      BY <1>1, <1>4
    <3> QED BY <3>1 DEF BasicHeader
  <2> QED BY <2>1, <2>2
<1> QED BY <1>1, <1>2, <1>3, <1>4

(* The encoder makes a sequence of chunks, one at least (encode).          *)
LEMMA EncodeIsChunks ==
    ASSUME NEW m \in Message, IsMessage(m), m.timestamp < Threshold,
           NEW e \in StreamStates(Word), NEW size \in Nat \ {0}
    PROVE  /\ Encode(m, e, size) \in Seq(Chunk)
           /\ Len(Encode(m, e, size)) = ChunkCount(m, size)
           /\ ChunkCount(m, size) \in Nat \ {0}
<1> DEFINE L == Len(m.payload)
           n == ChunkCount(m, size)
<1>1. L \in Nat \ {0} /\ m.payload \in Seq(Word) /\ m.stream_id \in Nat /\ m.message_type \in Nat
  BY CodecAssumption DEF IsMessage, Message
<1>2. n \in Nat \ {0} /\ \A i \in 1 .. n : (i - 1) * size \in 0 .. L - 1
  BY <1>1, Chunking DEF ChunkCount
<1>3. ASSUME NEW i \in 1 .. n
      PROVE  Encode(m, e, size)[i] \in Chunk
  <2> DEFINE fmt == IF i = 1 THEN SelectFormat(m, e) ELSE 3
             h == Header(m, e, fmt)
             data == SubSeq(m.payload, (i - 1) * size + 1, AtMost(i * size, L))
             extended == IF NeedsExtended(m) /\ (i = 1 \/ e.has_extended_timestamp)
                         THEN << m.timestamp >> ELSE << >>
  <2>1. Encode(m, e, size)[i] = [header |-> h, extended |-> extended, data |-> data, number |-> i]
    BY DEF Encode
  <2>2. extended = << >>
    BY CodecAssumption DEF NeedsExtended, Message
  <2>3. data \in Seq(Word)
    <3>1. (i - 1) * size + 1 \in Nat \ {0}
      BY <1>2
    <3>2. i * size \in Int
      BY <1>2
    <3>3. AtMost(i * size, L) \in Int /\ AtMost(i * size, L) <= L
      <4> HIDE DEF L
      <4> QED BY <1>1, <3>2 DEF AtMost
    <3> QED BY <1>1, <3>1, <3>3
  <2>4. h \in ChunkHeader
    <3>1. fmt \in 0 .. 3
      BY FormatRange
    <3>2. BasicHeader(fmt, m.csid) \in Seq(Nat)
      BY <3>1, BasicHeaderIsBytes DEF IsMessage
    <3>3. \A x \in Int : U24(x) \in Nat
      BY CodecAssumption DEF U24
    <3>4. Threshold \in Int /\ m.timestamp \in Int /\ L \in Int /\ Delta(m, e) \in Int
      <4>1. m.timestamp \in Int /\ e.timestamp \in Int /\ L \in Int
        BY <1>1 DEF Message, StreamStates
      <4> HIDE DEF L
      <4> QED BY <4>1, CodecAssumption DEF Delta, WrappingSub
    <3>5. U24(Threshold) \in Nat /\ U24(m.timestamp) \in Nat /\ U24(L) \in Nat
          /\ U24(Delta(m, e)) \in Nat
      BY <3>3, <3>4
    <3>6. /\ h.basic \in Seq(Nat) /\ h.time \in Nat /\ h.length \in Nat
          /\ h.message_type \in Nat /\ h.stream_id \in Nat
      <4> HIDE DEF fmt, L
      <4>1. h.basic \in Seq(Nat)
        BY <3>2 DEF Header
      <4>2. h.time \in Nat
        <5>1. h.time \in {0, U24(Threshold), U24(m.timestamp), U24(Delta(m, e))}
          BY Zenon DEF Header
        <5> HIDE DEF h
        <5> QED BY <3>5, <5>1
      <4>3. h.length \in Nat
        <5>1. h.length \in {0, U24(L)}
          BY Zenon DEF Header, L
        <5> HIDE DEF h
        <5> QED BY <3>5, <5>1
      <4>4. h.message_type \in Nat /\ h.stream_id \in Nat
        <5>1. h.message_type \in {0, m.message_type} /\ h.stream_id \in {0, m.stream_id}
          BY Zenon DEF Header
        <5> HIDE DEF h
        <5> QED BY <1>1, <5>1
      <4> QED BY <4>1, <4>2, <4>3, <4>4
    <3>7. h = [basic |-> h.basic, time |-> h.time, length |-> h.length,
               message_type |-> h.message_type, stream_id |-> h.stream_id]
      <4> HIDE DEF fmt
      <4> QED BY DEF Header
    <3> HIDE DEF h
    <3> QED BY <3>6, <3>7 DEF ChunkHeader
  <2> HIDE DEF h, data, extended
  <2> QED BY <2>1, <2>2, <2>3, <2>4 DEF Chunk
<1>4. Encode(m, e, size) = [i \in 1 .. n |-> Encode(m, e, size)[i]]
  BY DEF Encode
<1> HIDE DEF n
<1>5. Encode(m, e, size) \in [1 .. n -> Chunk]
  BY <1>3, <1>4
<1> QED BY <1>2, <1>5 DEF n

----------------------------------------------------------------------------
(* What the sender counts on: f is the view once all that is out is read,  *)
(* box the chunks of c still to be written.                                *)

(* Between messages.                                                       *)
Quiet(c, box, f) ==
    /\ box = << >>
    /\ Synced(encoder[c], f.decoder[c]) /\ f.decoder[c].partial_message = << >>
    /\ f.count[c] = Len(sent[c])

(* From the ith chunk on, the last message sent is still to be written.    *)
Remaining(c, box, f, m, e, i) ==
    /\ MayFollow(m, e)
    /\ encoder[c] \in {Encoded(m, e), Fresh}
    /\ i \in 1 .. ChunkCount(m, out_size)
    /\ box = SubSeq(Encode(m, e, out_size), i, ChunkCount(m, out_size))
    /\ ReadyFor(i, m, e, out_size, f.decoder[c])

Busy(c, box, f) ==
    /\ sent[c] # << >> /\ f.count[c] + 1 = Len(sent[c])
    /\ Last(sent[c]) \in Message /\ Last(sent[c]).csid = c
    /\ Last(sent[c]).message_type \notin {MSG_SET_CHUNK_SIZE, MSG_ABORT}
    /\ \E e \in StreamStates(Word), i \in Nat : Remaining(c, box, f, Last(sent[c]), e, i)

(* The facts about csids that the proofs need.                             *)
LEMMA CsidFacts ==
    /\ CSID_PROTOCOL_CONTROL \in Csids /\ CSID_PROTOCOL_CONTROL \notin DataCsids
    /\ CSID_PROTOCOL_CONTROL \notin MediaCsids
    /\ DataCsids \subseteq Csids
    /\ \A c \in Csids : IsCsid(c) /\ c \in Nat
<1>1. \A c \in DataCsids : IsCsid(c) /\ c # CSID_PROTOCOL_CONTROL
  BY TransportAssumption, Zenon DEF DataCsids
<1>2. MediaCsids \subseteq DataCsids /\ DataCsids \subseteq Csids
  BY Zenon DEF DataCsids, Csids
<1>3. CSID_PROTOCOL_CONTROL \in Csids
  BY Zenon DEF Csids
<1>4. IsCsid(CSID_PROTOCOL_CONTROL)
  BY DEF IsCsid, CSID_PROTOCOL_CONTROL
<1>5. \A c \in Csids : IsCsid(c)
  BY <1>1, <1>4, Zenon DEF Csids
<1>6. \A c : IsCsid(c) => c \in Nat
  BY DEF IsCsid
<1> QED BY <1>1, <1>2, <1>3, <1>5, <1>6, Zenon

(* What the encoder remembers of a message.                                *)
LEMMA EncodedFields ==
    ASSUME NEW m, NEW e \in StreamStates(Word)
    PROVE  /\ Encoded(m, e).timestamp = m.timestamp
           /\ Encoded(m, e).message_type = m.message_type
           /\ Encoded(m, e).stream_id = m.stream_id
BY DEF Encoded, StreamStates

(* What a chunk does that belongs to no control message.                   *)
LEMMA DataChunk ==
    ASSUME NEW f \in View, NEW chunk \in Chunk, NEW c \in DataCsids,
           Csid(chunk.header.basic) = c,
           NEW s \in StreamStates(Word), s = ReadBy(chunk, f),
           MessageComplete(s) => MessageOf(s, c).message_type \notin {MSG_SET_CHUNK_SIZE, MSG_ABORT}
    PROVE  LET g == After(chunk, f)
           IN  /\ g \in View /\ g.size = f.size
               /\ g.decoder = [f.decoder EXCEPT ![c] = IF MessageComplete(s) THEN Emptied(s) ELSE s]
               /\ g.count = IF MessageComplete(s) THEN [f.count EXCEPT ![c] = @ + 1] ELSE f.count
<1> DEFINE g == After(chunk, f)
           m == MessageOf(s, c)
<1>1. c \in Csids
  BY CsidFacts
<1>2. /\ f.decoder \in [Csids -> StreamStates(Word)] /\ f.size \in 1 .. MaxChunkSize
      /\ f.count \in [DataCsids -> Nat]
  BY DEF View
<1>3. Emptied(s) \in StreamStates(Word)
  BY EmptySeq DEF Emptied, StreamStates
<1>4. ReadMessage(chunk, f) = m
  BY DEF ReadMessage
<1>5. CASE MessageComplete(s)
  <2>1. g = [decoder |-> [f.decoder EXCEPT ![c] = Emptied(s)], size |-> f.size,
             count |-> [f.count EXCEPT ![c] = @ + 1]]
    <3> HIDE DEF m
    <3> QED BY <1>4, <1>5 DEF After, m
  <2>2. [f.decoder EXCEPT ![c] = Emptied(s)] \in [Csids -> StreamStates(Word)]
    BY <1>1, <1>2, <1>3
  <2>3. [f.count EXCEPT ![c] = @ + 1] \in [DataCsids -> Nat]
    BY <1>2
  <2> HIDE DEF g
  <2> QED BY <1>2, <1>5, <2>1, <2>2, <2>3 DEF View, g
<1>6. CASE ~MessageComplete(s)
  <2>1. g = [decoder |-> [f.decoder EXCEPT ![c] = s], size |-> f.size, count |-> f.count]
    BY <1>6 DEF After
  <2>2. [f.decoder EXCEPT ![c] = s] \in [Csids -> StreamStates(Word)]
    BY <1>1, <1>2
  <2> HIDE DEF g
  <2> QED BY <1>2, <1>6, <2>1, <2>2 DEF View, g
<1> QED BY <1>5, <1>6

(* The next chunk of a message is read for what it is, and leaves the rest *)
(* of the message to be written, or nothing.                               *)
LEMMA NextChunk ==
    ASSUME NEW c \in DataCsids, NEW box, NEW f \in View, Busy(c, box, f),
           out_size \in 1 .. MaxChunkSize, f.size = out_size, sent[c] \in Seq(Message)
    PROVE  LET chunk == Head(box)
               g     == After(chunk, f)
           IN  /\ chunk \in Chunk /\ Csid(chunk.header.basic) = c
               /\ Readable(chunk, f, sent) /\ g \in View /\ g.size = f.size
               /\ \A x \in Csids \ {c} : g.decoder[x] = f.decoder[x]
               /\ \A x \in DataCsids : f.count[x] <= g.count[x]
               /\ \A x \in DataCsids \ {c} : g.count[x] = f.count[x]
               /\ Quiet(c, Tail(box), g) \/ Busy(c, Tail(box), g)
<1> DEFINE m == Last(sent[c])
           chunk == Head(box)
           g == After(chunk, f)
           d == f.decoder[c]
           s == ReadBy(chunk, f)
<1>1. PICK e \in StreamStates(Word), i \in Nat : Remaining(c, box, f, m, e, i)
  BY DEF Busy
<1> DEFINE n == ChunkCount(m, out_size)
           all == Encode(m, e, out_size)
<1>2. /\ MayFollow(m, e) /\ encoder[c] \in {Encoded(m, e), Fresh}
      /\ i \in 1 .. n /\ box = SubSeq(all, i, n)
      /\ ReadyFor(i, m, e, out_size, d)
  BY <1>1 DEF Remaining
<1>3. /\ sent[c] # << >> /\ f.count[c] + 1 = Len(sent[c])
      /\ m \in Message /\ m.csid = c /\ m.message_type \notin {MSG_SET_CHUNK_SIZE, MSG_ABORT}
  BY DEF Busy
<1>4. /\ out_size \in Nat \ {0} /\ c \in Csids /\ d \in StreamStates(Word)
      /\ f.count \in [DataCsids -> Nat] /\ m.payload \in Seq(Word)
      /\ f.decoder \in [Csids -> StreamStates(Word)]
  <2>1. out_size \in Nat \ {0}
    BY CodecAssumption
  <2>2. c \in Csids
    BY CsidFacts
  <2>3. m.payload \in Seq(Word)
    BY <1>3 DEF Message
  <2> QED BY <2>1, <2>2, <2>3 DEF View
<1>5. all \in Seq(Chunk) /\ Len(all) = n /\ n \in Nat \ {0}
  BY <1>2, <1>3, <1>4, EncodeIsChunks DEF MayFollow
<1>6. chunk = all[i] /\ Tail(box) = SubSeq(all, i + 1, n) /\ chunk \in Chunk
  <2> HIDE DEF n, all, chunk
  <2>1. Len(box) = n - i + 1 /\ box[1] = all[i] /\ box # << >>
    BY <1>2, <1>5
  <2>2. Head(box) = all[i] /\ all[i] \in Chunk
    BY <1>2, <1>5, <2>1
  <2>3. Tail(box) = SubSeq(all, i + 1, n)
    BY <1>2, <1>5
  <2> QED BY <2>2, <2>3 DEF chunk
<1>7. /\ Csid(chunk.header.basic) = c /\ chunk.extended = << >> /\ chunk.data \in Seq(Word)
      /\ ~ExtendedPeeked(chunk.header, d) /\ ~ExtendedRead(chunk.header, d)
      /\ ChunkDataLength(chunk.header, d, out_size) = Len(chunk.data)
      /\ s \in StreamStates(Word) /\ Agree(Encoded(m, e), s)
      /\ MessageComplete(s) <=> i = n
      /\ i = n => s.partial_message = m.payload
      /\ i # n => ReadyFor(i + 1, m, e, out_size, s)
  <2> DEFINE t == DataRead(HeaderRead(chunk.header, d, 0), chunk.data)
  <2>1. /\ Csid(chunk.header.basic) = c /\ chunk.extended = << >> /\ chunk.data \in Seq(Word)
        /\ ~ExtendedPeeked(chunk.header, d) /\ ~ExtendedRead(chunk.header, d)
        /\ ChunkDataLength(chunk.header, d, out_size) = Len(chunk.data)
        /\ t \in StreamStates(Word) /\ Agree(Encoded(m, e), t)
        /\ MessageComplete(t) <=> i = n
        /\ i = n => t.partial_message = m.payload
        /\ i # n => ReadyFor(i + 1, m, e, out_size, t)
    <3> HIDE DEF chunk, m, d
    <3>1. Understood(Word, Encode(m, e, out_size)[i], i, m, e, out_size, d)
      BY <1>2, <1>4, ChunkUnderstood
    <3>2. chunk = Encode(m, e, out_size)[i] /\ m.csid = c
      BY <1>3, <1>6
    <3>3. Understood(Word, chunk, i, m, e, out_size, d)
      BY <3>1, <3>2, Zenon
    <3> QED BY <3>2, <3>3, Zenon DEF Understood
  <2>2. s = t
    BY <2>1 DEF ReadBy
  <2> HIDE DEF t, chunk, s, d
  <2> QED BY <2>1, <2>2
<1>8. i = n => MessageOf(s, c) = m
  <2>1. /\ s.timestamp = m.timestamp /\ s.message_type = m.message_type
        /\ s.stream_id = m.stream_id
    <3> HIDE DEF s, m
    <3> QED BY <1>7, EncodedFields DEF Agree
  <2> HIDE DEF s, m
  <2> QED BY <1>3, <1>7, <2>1 DEF MessageOf, Message
<1>9. /\ g \in View /\ g.size = f.size
      /\ g.decoder = [f.decoder EXCEPT ![c] = IF MessageComplete(s) THEN Emptied(s) ELSE s]
      /\ g.count = IF MessageComplete(s) THEN [f.count EXCEPT ![c] = @ + 1] ELSE f.count
  <2> HIDE DEF m, chunk, s, n
  <2> QED BY <1>3, <1>6, <1>7, <1>8, DataChunk DEF s
<1>10. Readable(chunk, f, sent)
  <2>1. MessageComplete(s) => /\ f.count[c] + 1 <= Len(sent[c])
                              /\ ReadMessage(chunk, f) = sent[c][f.count[c] + 1]
    <3>1. m = sent[c][Len(sent[c])] /\ Len(sent[c]) \in Nat
      BY DEF Last
    <3>2. ReadMessage(chunk, f) = MessageOf(s, c)
      BY <1>7 DEF ReadMessage
    <3> HIDE DEF m, chunk, s, n
    <3> QED BY <1>3, <1>7, <1>8, <3>1, <3>2
  <2> HIDE DEF m, chunk, n
  <2> QED BY <1>4, <1>7, <2>1 DEF Readable, s
<1>11. /\ \A x \in Csids \ {c} : g.decoder[x] = f.decoder[x]
       /\ \A x \in DataCsids : f.count[x] <= g.count[x]
       /\ \A x \in DataCsids \ {c} : g.count[x] = f.count[x]
  <2> HIDE DEF g, s
  <2>1. \A x \in Csids \ {c} : g.decoder[x] = f.decoder[x]
    BY <1>4, <1>9
  <2>2. \A x \in DataCsids \ {c} : g.count[x] = f.count[x]
    BY <1>4, <1>9
  <2>3. f.count[c] <= g.count[c]
    BY <1>4, <1>9
  <2>4. \A x \in DataCsids : f.count[x] \in Nat
    BY <1>4
  <2> QED BY <2>1, <2>2, <2>3, <2>4
<1>12. CASE i = n
  <2>1. Tail(box) = << >>
    <3> HIDE DEF all, n
    <3> QED BY <1>5, <1>6, <1>12
  <2>2. g.decoder[c] = Emptied(s) /\ g.count[c] = f.count[c] + 1
    <3> HIDE DEF g, s, n
    <3> QED BY <1>4, <1>7, <1>9, <1>12
  <2>3. Synced(encoder[c], Emptied(s)) /\ Emptied(s).partial_message = << >>
    <3>1. Agree(Encoded(m, e), Emptied(s))
      <4> HIDE DEF s, m
      <4> QED BY <1>7 DEF Agree, Emptied, StreamStates
    <3>2. Emptied(s).partial_message = << >>
      <4> HIDE DEF s
      <4> QED BY <1>7 DEF Emptied, StreamStates
    <3> HIDE DEF s, m
    <3> QED BY <1>2, <3>1, <3>2 DEF Synced
  <2>4. Quiet(c, Tail(box), g)
    <3> HIDE DEF g, s, m
    <3> QED BY <1>3, <2>1, <2>2, <2>3 DEF Quiet
  <2> HIDE DEF g, s, m, chunk
  <2> QED BY <1>6, <1>7, <1>9, <1>10, <1>11, <2>4 DEF g, chunk
<1>13. CASE i # n
  <2>1. i + 1 \in 1 .. n /\ i + 1 \in Nat
    <3> HIDE DEF n
    <3> QED BY <1>2, <1>5, <1>13
  <2>2. g.decoder[c] = s /\ g.count[c] = f.count[c]
    <3> HIDE DEF g, s, n
    <3> QED BY <1>4, <1>7, <1>9, <1>13
  <2>3. Remaining(c, Tail(box), g, m, e, i + 1)
    <3> HIDE DEF g, s, m
    <3> QED BY <1>2, <1>6, <1>7, <1>13, <2>1, <2>2 DEF Remaining
  <2>4. Busy(c, Tail(box), g)
    <3> HIDE DEF g
    <3> QED BY <1>3, <2>1, <2>2, <2>3 DEF Busy
  <2> HIDE DEF g, s, m, chunk
  <2> QED BY <1>6, <1>7, <1>9, <1>10, <1>11, <2>4 DEF g, chunk
<1> QED BY <1>12, <1>13

(* A control message is one chunk; it is read for what it is and does to   *)
(* the receiver what it says, and nothing else.                            *)
Obeyed(type, value, e, f, q) ==
    LET m == Control(type, value)
        k == Encode(m, e, f.size)[1]
        g == After(k, f)
    IN  /\ Encode(m, e, f.size) \in Seq(Chunk) /\ Len(Encode(m, e, f.size)) = 1
        /\ k \in Chunk /\ Csid(k.header.basic) = CSID_PROTOCOL_CONTROL
        /\ Readable(k, f, q) /\ g \in View
        /\ g.count = f.count
        /\ g.size = IF type = MSG_SET_CHUNK_SIZE THEN ChunkSize(value) ELSE f.size
        /\ Synced(Encoded(m, e), g.decoder[CSID_PROTOCOL_CONTROL])
        /\ g.decoder[CSID_PROTOCOL_CONTROL].partial_message = << >>
        /\ \A c \in DataCsids :
               g.decoder[c] = IF type = MSG_ABORT /\ c = value THEN Emptied(f.decoder[c])
                              ELSE f.decoder[c]

(* SetChunkSize and Abort are messages that fit into any chunk.            *)
LEMMA ControlIsMessage ==
    ASSUME NEW type \in {MSG_SET_CHUNK_SIZE, MSG_ABORT}, NEW value \in Nat
    PROVE  LET m == Control(type, value)
           IN  /\ m \in Message /\ IsMessage(m) /\ m.timestamp = 0 /\ Len(m.payload) = 1
               /\ m.csid = CSID_PROTOCOL_CONTROL /\ m.message_type = type
               /\ m.payload[1][1] = value
<1> DEFINE m == Control(type, value)
<1>1. /\ m.csid = CSID_PROTOCOL_CONTROL /\ m.timestamp = 0 /\ m.message_type = type
      /\ m.stream_id = 0 /\ m.payload = << << value, 0 >> >>
  BY DEF Control
<1>2. << value, 0 >> \in Word
  BY DEF Word
<1>3. m.payload \in Seq(Word) /\ Len(m.payload) = 1 /\ m.payload[1][1] = value
  BY <1>1, <1>2
<1>4. type \in Nat
  BY DEF MSG_SET_CHUNK_SIZE, MSG_ABORT
<1>5. m \in Message
  <2>1. /\ CSID_PROTOCOL_CONTROL \in Csids /\ 0 \in Nat /\ type \in Nat
        /\ << << value, 0 >> >> \in Seq(Word)
    BY <1>1, <1>3, <1>4, CsidFacts
  <2> QED BY <2>1 DEF Message, Control
<1> HIDE DEF m
<1>6. IsMessage(m)
  <2>1. IsCsid(m.csid)
    BY <1>1, CsidFacts
  <2>2. 0 \in 0 .. TimeModulus - 1 /\ 1 \in 1 .. Threshold
    BY CodecAssumption
  <2> QED BY <1>1, <1>3, <1>4, <2>1, <2>2 DEF IsMessage
<1> QED BY <1>1, <1>3, <1>5, <1>6 DEF m

(* The server takes a SetChunkSize and an Abort for what they are and does *)
(* what they say (handle_chunk).                                           *)
LEMMA ControlObeyed ==
    ASSUME NEW type \in {MSG_SET_CHUNK_SIZE, MSG_ABORT}, NEW value \in Nat \ {0},
           NEW e \in StreamStates(Word), e.timestamp = 0, NEW f \in View, NEW q,
           Synced(e, f.decoder[CSID_PROTOCOL_CONTROL]),
           f.decoder[CSID_PROTOCOL_CONTROL].partial_message = << >>,
           type = MSG_ABORT => value \in DataCsids
    PROVE  Obeyed(type, value, e, f, q)
<1> DEFINE m == Control(type, value)
           p == CSID_PROTOCOL_CONTROL
           size == f.size
           all == Encode(m, e, size)
           k == all[1]
           d == f.decoder[p]
           s == DataRead(HeaderRead(k.header, d, 0), k.data)
           g == After(k, f)
<1>1. /\ m \in Message /\ IsMessage(m) /\ m.timestamp = 0 /\ Len(m.payload) = 1 /\ m.csid = p
      /\ m.message_type = type /\ m.payload[1][1] = value /\ m.payload \in Seq(Word)
  <2>1. /\ m \in Message /\ IsMessage(m) /\ m.timestamp = 0 /\ Len(m.payload) = 1 /\ m.csid = p
        /\ m.message_type = type /\ m.payload[1][1] = value
    BY ControlIsMessage, Zenon
  <2>2. m.payload \in Seq(Word)
    <3> HIDE DEF m
    <3> QED BY <2>1 DEF Message
  <2> QED BY <2>1, <2>2
<1>2. /\ size \in 1 .. MaxChunkSize /\ size \in Nat \ {0} /\ d \in StreamStates(Word)
      /\ f.decoder \in [Csids -> StreamStates(Word)] /\ f.count \in [DataCsids -> Nat]
      /\ p \in Csids /\ p \notin DataCsids /\ DataCsids \subseteq Csids
  BY CsidFacts, CodecAssumption DEF View
<1>3. ChunkCount(m, size) = 1
  <2>1. (1 + size - 1) \div size = 1
    <3> HIDE DEF size
    <3> QED BY <1>2
  <2> HIDE DEF m, size
  <2> QED BY <1>1, <2>1 DEF ChunkCount
<1>4. all \in Seq(Chunk) /\ Len(all) = 1 /\ k \in Chunk
  <2>1. m.timestamp < Threshold
    BY <1>1, CodecAssumption
  <2>2. all \in Seq(Chunk) /\ Len(all) = ChunkCount(m, size)
    <3> HIDE DEF m, size
    <3> QED BY <1>1, <1>2, <2>1, EncodeIsChunks
  <2>3. Len(all) = 1
    BY <1>3, <2>2, Zenon
  <2>4. all \in Seq(Chunk)
    BY <2>2, Zenon
  <2>5. all[1] \in Chunk
    <3> HIDE DEF all
    <3>1. 1 \in 1 .. Len(all)
      BY <2>3
    <3> QED BY <2>4, <3>1
  <2> QED BY <2>3, <2>4, <2>5, Zenon
<1>5. Understood(Word, k, 1, m, e, size, d)
  <2>1. MayFollow(m, e)
    <3> HIDE DEF m
    <3> QED BY <1>1, CodecAssumption DEF MayFollow
  <2>2. ReadyFor(1, m, e, size, d)
    BY DEF ReadyFor
  <2>3. 1 \in 1 .. ChunkCount(m, size)
    BY <1>3
  <2> HIDE DEF m, size, d
  <2> QED BY <1>1, <1>2, <2>1, <2>2, <2>3, ChunkUnderstood
<1>6. /\ Csid(k.header.basic) = p
      /\ ~ExtendedPeeked(k.header, d) /\ ~ExtendedRead(k.header, d)
      /\ ChunkDataLength(k.header, d, size) = Len(k.data)
      /\ s \in StreamStates(Word) /\ Agree(Encoded(m, e), s)
      /\ MessageComplete(s) /\ s.partial_message = m.payload
  <2> HIDE DEF m, size, k, d
  <2> QED BY <1>1, <1>3, <1>5 DEF Understood
<1>7. ReadBy(k, f) = s
  BY <1>6 DEF ReadBy
<1>8. Readable(k, f, q)
  <2> HIDE DEF k, s
  <2> QED BY <1>2, <1>6, <1>7 DEF Readable
<1>9. ReadMessage(k, f).message_type = type /\ ReadMessage(k, f).payload[1][1] = value
  <2>1. ReadMessage(k, f) = MessageOf(s, p)
    <3> HIDE DEF k, s
    <3> QED BY <1>6, <1>7 DEF ReadMessage
  <2>2. s.message_type = m.message_type
    <3> HIDE DEF m, s
    <3> QED BY <1>6, EncodedFields DEF Agree
  <2> HIDE DEF k, s, m
  <2> QED BY <1>1, <1>6, <2>1, <2>2 DEF MessageOf
<1> DEFINE done == [f.decoder EXCEPT ![p] = Emptied(s)]
<1>10. g = [decoder |-> IF type = MSG_ABORT THEN [done EXCEPT ![value] = Emptied(@)] ELSE done,
            size |-> IF type = MSG_SET_CHUNK_SIZE THEN ChunkSize(value) ELSE f.size,
            count |-> f.count]
  <2> HIDE DEF k, s, size, d
  <2> QED BY <1>2, <1>6, <1>7, <1>9 DEF After
<1>11. ASSUME NEW x \in StreamStates(Word) PROVE Emptied(x) \in StreamStates(Word)
  BY EmptySeq DEF Emptied, StreamStates
<1>12. done \in [Csids -> StreamStates(Word)] /\ done[p] = Emptied(s)
       /\ \A c \in DataCsids : done[c] = f.decoder[c]
  <2> HIDE DEF s, p
  <2> QED BY <1>2, <1>6, <1>11
<1>13. ChunkSize(value) \in 1 .. MaxChunkSize
  BY CodecAssumption DEF ChunkSize, AtMost
<1>14. /\ g \in View /\ g.count = f.count /\ g.decoder[p] = Emptied(s)
       /\ g.size = IF type = MSG_SET_CHUNK_SIZE THEN ChunkSize(value) ELSE f.size
       /\ \A c \in DataCsids : g.decoder[c] = IF type = MSG_ABORT /\ c = value
                                              THEN Emptied(f.decoder[c]) ELSE f.decoder[c]
  <2> DEFINE after == IF type = MSG_ABORT THEN [done EXCEPT ![value] = Emptied(@)] ELSE done
  <2>1. /\ after \in [Csids -> StreamStates(Word)]
        /\ after[p] = Emptied(s)
        /\ \A c \in DataCsids : after[c] = IF type = MSG_ABORT /\ c = value
                                           THEN Emptied(f.decoder[c]) ELSE f.decoder[c]
    <3> HIDE DEF done, s, p
    <3> QED BY <1>2, <1>11, <1>12
  <2>2. g = [decoder |-> after, count |-> f.count,
             size |-> IF type = MSG_SET_CHUNK_SIZE THEN ChunkSize(value) ELSE f.size]
    BY <1>10
  <2> HIDE DEF after, g, s, p
  <2> QED BY <1>2, <1>13, <2>1, <2>2 DEF View
<1>15. Synced(Encoded(m, e), Emptied(s)) /\ Emptied(s).partial_message = << >>
  <2> HIDE DEF m, s
  <2> QED BY <1>6 DEF Synced, Agree, Emptied, StreamStates
<1>16. /\ all \in Seq(Chunk) /\ Len(all) = 1 /\ k \in Chunk /\ Csid(k.header.basic) = p
       /\ Readable(k, f, q) /\ g \in View /\ g.count = f.count
       /\ g.size = IF type = MSG_SET_CHUNK_SIZE THEN ChunkSize(value) ELSE f.size
       /\ Synced(Encoded(m, e), g.decoder[p]) /\ g.decoder[p].partial_message = << >>
       /\ \A c \in DataCsids : g.decoder[c] = IF type = MSG_ABORT /\ c = value
                                              THEN Emptied(f.decoder[c]) ELSE f.decoder[c]
  <2> HIDE DEF m, g, s, k, all, p
  <2> QED BY <1>4, <1>6, <1>8, <1>14, <1>15
<1> QED BY <1>16, Zenon DEF Obeyed

----------------------------------------------------------------------------
(* The inductive invariant.                                                *)

Phases == {"Initial", "WaitingForPeerPacket", "WaitingForPeerResponse", "Done", "Failed"}

Typed ==
    /\ state \in [Roles -> Phases]
    /\ wire \in [Roles -> Seq(Unit)] /\ read_buf \in [Roles -> Seq(Unit)]
    /\ encoder \in [Csids -> StreamStates(Word)] /\ out_size \in 1 .. MaxChunkSize
    /\ outbox \in [Csids -> Seq(Chunk)]
    /\ decoder \in [Csids -> StreamStates(Word)] /\ in_size \in 1 .. MaxChunkSize
    /\ reading \in {"buffer", "socket"} /\ derailed = FALSE
    /\ number \in 0 .. MaxMessages
    /\ sent \in [DataCsids -> Seq(Message)] /\ received \in [DataCsids -> Seq(Message)]

(* What the client reads, which is nothing but the server's handshake.     *)
ClientReads ==
    wire["client"] \in Seq(HandshakeUnit) /\ read_buf["client"] \in Seq(HandshakeUnit)

(* Commands have timestamp 0; media are of one type and message stream.    *)
EncoderOK ==
    /\ \A c \in Csids \ MediaCsids : encoder[c].timestamp = 0
    /\ \A c \in MediaCsids :
           encoder[c] # Fresh =>
               encoder[c].stream_id = 1 /\ encoder[c].message_type = MSG_VIDEO

(* All that is between the sender and what the server has consumed.        *)
Pipe == read_buf["server"] \o wire["server"]

(* A control message is on its way once it is encoded: nothing else goes   *)
(* out before it.                                                          *)
Announced ==
    IF outbox[CSID_PROTOCOL_CONTROL] = << >> THEN << >>
    ELSE Units(outbox[CSID_PROTOCOL_CONTROL][1])

AnnouncedOK ==
    outbox[CSID_PROTOCOL_CONTROL] # << >> =>
        /\ Len(outbox[CSID_PROTOCOL_CONTROL]) = 1
        /\ Csid(outbox[CSID_PROTOCOL_CONTROL][1].header.basic) = CSID_PROTOCOL_CONTROL

(* What the receiver knows now.                                            *)
Now == [decoder |-> decoder, size |-> in_size, count |-> [c \in DataCsids |-> Len(received[c])]]

(* The first h units of the pipe are the client's part of the handshake    *)
(* that the server has not consumed.                                       *)
Handshaken(h) ==
    /\ h \in 0 .. Len(Pipe)
    /\ \A i \in 1 .. h : Pipe[i] \in HandshakeUnit
    /\ state["client"] = "Initial" =>
           h = 0 /\ state["server"] \in {"WaitingForPeerPacket", "Failed"}
    /\ state["client"] # "Done" =>
           Len(Pipe) = h /\ \A c \in Csids : outbox[c] = << >>
    /\ state["server"] = "WaitingForPeerPacket" /\ state["client"] # "Initial" =>
           h = IF state["client"] = "Done" THEN 3 ELSE 2
    /\ state["server"] = "WaitingForPeerResponse" =>
           h = IF state["client"] = "Done" THEN 1 ELSE 0
    /\ state["server"] = "Done" => h = 0 /\ state["client"] = "Done"
    /\ state["server"] \in {"WaitingForPeerPacket", "WaitingForPeerResponse"} => reading = "buffer"
    /\ state["server"] # "Initial" /\ state["client"] # "WaitingForPeerResponse"

(* The view f, which all that is on its way leads to, is what the sender   *)
(* counts on.                                                              *)
SenderOK(f) ==
    /\ f.size = out_size
    /\ Synced(encoder[CSID_PROTOCOL_CONTROL], f.decoder[CSID_PROTOCOL_CONTROL])
    /\ f.decoder[CSID_PROTOCOL_CONTROL].partial_message = << >>
    /\ \A c \in DataCsids : Quiet(c, outbox[c], f) \/ Busy(c, outbox[c], f)

Rest(h) == SubSeq(Pipe, h + 1, Len(Pipe)) \o Announced

OnTheWay == \E h \in Nat, f \in View : Handshaken(h) /\ SenderOK(f) /\ Way(Rest(h), Now, f, sent)

(* The socket is read when nothing in the buffer can be decoded.           *)
DryWhileWaiting == state["server"] = "Done" /\ reading = "socket" => ~ChunkReady

IInv == Typed /\ ClientReads /\ EncoderOK /\ AnnouncedOK /\ OnTheWay /\ DryWhileWaiting

(* In this setting the client sends and the server receives.               *)
LEMMA RoleFacts ==
    ASSUME Setting
    PROVE  Receiver = "server" /\ Sender = "client" /\ Buffer = read_buf["server"]
<1>1. \E r \in Roles : r # Receiver
  BY DEF Roles, Setting
<1>2. Sender \in Roles /\ Sender # Receiver
  BY <1>1 DEF Sender
<1> QED BY <1>2 DEF Roles, Setting, Buffer

(* What the pipe holds: what has been read, then what is on the wire.      *)
LEMMA PipeFacts ==
    ASSUME Typed
    PROVE  /\ read_buf["server"] \in Seq(Unit) /\ wire["server"] \in Seq(Unit)
           /\ Pipe \in Seq(Unit) /\ Len(Pipe) \in Nat
           /\ Len(Pipe) = Len(read_buf["server"]) + Len(wire["server"])
           /\ \A i \in 1 .. Len(read_buf["server"]) : Pipe[i] = read_buf["server"][i]
<1>1. read_buf["server"] \in Seq(Unit) /\ wire["server"] \in Seq(Unit)
  BY DEF Typed, Roles
<1>2. /\ Pipe \in Seq(Unit) /\ Len(Pipe) \in Nat
      /\ Len(Pipe) = Len(read_buf["server"]) + Len(wire["server"])
      /\ \A i \in 1 .. Len(read_buf["server"]) : Pipe[i] = read_buf["server"][i]
  <2> DEFINE a == read_buf["server"]
             b == wire["server"]
  <2>1. a \in Seq(Unit) /\ b \in Seq(Unit) /\ Pipe = a \o b
    BY <1>1 DEF Pipe
  <2> HIDE DEF a, b
  <2>2. /\ Pipe \in Seq(Unit) /\ Len(a) \in Nat /\ Len(b) \in Nat
        /\ Len(Pipe) = Len(a) + Len(b) /\ \A i \in 1 .. Len(a) : Pipe[i] = a[i]
    BY <2>1, Joined
  <2>3. Len(Pipe) \in Nat
    BY <2>2
  <2> QED BY <2>2, <2>3 DEF a, b
<1> QED BY <1>1, <1>2, Zenon

(* The handshake and the reading of the socket leave alone what sender and *)
(* receiver know of the chunks.                                            *)
ChunksUntouched ==
    UNCHANGED <<encoder, out_size, outbox, sent, decoder, in_size, received>>

(* Such a step keeps all that is said of chunks.                           *)
LEMMA ChunksUntouchedFacts ==
    ASSUME ChunksUntouched
    PROVE  /\ Announced' = Announced /\ Now' = Now /\ sent' = sent
           /\ EncoderOK => EncoderOK'
           /\ AnnouncedOK => AnnouncedOK'
           /\ \A f : SenderOK(f) => SenderOK(f)'
<1> USE DEF ChunksUntouched
<1>1. Announced' = Announced /\ Now' = Now /\ sent' = sent
  BY DEF Announced, Now
<1>2. EncoderOK => EncoderOK'
  BY DEF EncoderOK
<1>3. AnnouncedOK => AnnouncedOK'
  BY DEF AnnouncedOK
<1>4. ASSUME NEW f, SenderOK(f) PROVE SenderOK(f)'
  <2>1. ASSUME NEW c \in DataCsids
        PROVE  /\ Quiet(c, outbox[c], f) => Quiet(c, outbox[c], f)'
               /\ Busy(c, outbox[c], f) => Busy(c, outbox[c], f)'
    <3>1. /\ encoder' = encoder /\ out_size' = out_size /\ outbox' = outbox /\ sent' = sent
      OBVIOUS
    <3>2. Quiet(c, outbox[c], f) => Quiet(c, outbox[c], f)'
      BY <3>1 DEF Quiet
    <3>3. Busy(c, outbox[c], f) => Busy(c, outbox[c], f)'
      BY <3>1 DEF Busy, Remaining
    <3> QED BY <3>2, <3>3
  <2> QED BY <1>4, <2>1 DEF SenderOK
<1> QED BY <1>1, <1>2, <1>3, <1>4

(* A step of the handshake or of the network keeps the rest of the         *)
(* invariant when it takes no chunk out of the pipe.                       *)
LEMMA HandshakeKeeps ==
    ASSUME IInv, ChunksUntouched, Typed', ClientReads', DryWhileWaiting',
           NEW h \in Nat, NEW f \in View, SenderOK(f), Way(Rest(h), Now, f, sent),
           NEW g \in Nat, Handshaken(g)',
           SubSeq(Pipe', g + 1, Len(Pipe')) = SubSeq(Pipe, h + 1, Len(Pipe))
    PROVE  IInv'
<1>1. Rest(g)' = Rest(h)
  BY ChunksUntouchedFacts DEF Rest
<1>2. SenderOK(f)' /\ Way(Rest(g)', Now', f, sent')
  BY <1>1, ChunksUntouchedFacts
<1>3. OnTheWay'
  BY <1>2 DEF OnTheWay
<1> QED BY <1>3, ChunksUntouchedFacts DEF IInv

(* The invariant holds before anything has happened.                       *)
LEMMA InitHolds ==
    ASSUME Setting, Init
    PROVE  IInv
<1> DEFINE p == CSID_PROTOCOL_CONTROL
<1>1. /\ state = [r \in Roles |-> IF r = "client" THEN "Initial" ELSE "WaitingForPeerPacket"]
      /\ wire = [r \in Roles |-> << >>] /\ read_buf = [r \in Roles |-> << >>]
      /\ encoder = [c \in Csids |-> Fresh] /\ out_size = DefaultChunkSize
      /\ outbox = [c \in Csids |-> << >>]
      /\ decoder = [c \in Csids |-> Fresh] /\ in_size = DefaultChunkSize
      /\ reading = "buffer" /\ derailed = FALSE /\ number = 0
      /\ sent = [c \in DataCsids |-> << >>] /\ received = [c \in DataCsids |-> << >>]
  BY DEF Init
<1>2. /\ << >> \in Seq(Unit) /\ << >> \in Seq(HandshakeUnit) /\ << >> \in Seq(Chunk)
      /\ << >> \in Seq(Message)
  BY EmptySeq
<1>3. Fresh \in StreamStates(Word)
  BY FreshIsState
<1>4. DefaultChunkSize \in 1 .. MaxChunkSize /\ MaxMessages \in Nat
  BY TransportAssumption, Zenon
<1>5. state["client"] = "Initial" /\ state["server"] = "WaitingForPeerPacket"
      /\ wire["client"] = << >> /\ read_buf["client"] = << >>
      /\ wire["server"] = << >> /\ read_buf["server"] = << >>
  BY <1>1 DEF Roles
<1>6. Typed
  <2>1. state \in [Roles -> Phases]
    BY <1>1 DEF Phases, Roles
  <2>2. wire \in [Roles -> Seq(Unit)] /\ read_buf \in [Roles -> Seq(Unit)]
    BY <1>1, <1>2
  <2>3. encoder \in [Csids -> StreamStates(Word)] /\ decoder \in [Csids -> StreamStates(Word)]
    BY <1>1, <1>3
  <2>4. outbox \in [Csids -> Seq(Chunk)]
    BY <1>1, <1>2
  <2>5. sent \in [DataCsids -> Seq(Message)] /\ received \in [DataCsids -> Seq(Message)]
    BY <1>1, <1>2
  <2>6. number \in 0 .. MaxMessages /\ in_size \in 1 .. MaxChunkSize
        /\ out_size \in 1 .. MaxChunkSize /\ reading \in {"buffer", "socket"}
    BY <1>1, <1>4
  <2> QED BY <1>1, <2>1, <2>2, <2>3, <2>4, <2>5, <2>6 DEF Typed
<1>7. ClientReads
  BY <1>2, <1>5 DEF ClientReads
<1>8. Fresh.timestamp = 0 /\ Fresh.partial_message = << >>
  BY DEF Fresh
<1>9. EncoderOK
  <2>1. MediaCsids \subseteq Csids
    BY DEF Csids, DataCsids
  <2> QED BY <1>1, <1>8, <2>1 DEF EncoderOK
<1>10. outbox[p] = << >> /\ encoder[p] = Fresh /\ decoder[p] = Fresh
  BY <1>1, CsidFacts
<1>11. AnnouncedOK /\ Announced = << >>
  BY <1>10 DEF AnnouncedOK, Announced
<1>12. Pipe = << >>
  BY <1>5 DEF Pipe
<1>13. Handshaken(0)
  <2>1. Len(Pipe) = 0
    BY <1>12
  <2>2. \A c \in Csids : outbox[c] = << >>
    BY <1>1
  <2> QED BY <1>1, <1>5, <2>1, <2>2 DEF Handshaken
<1>14. Now \in View
  <2>1. [c \in DataCsids |-> Len(received[c])] \in [DataCsids -> Nat]
    BY <1>1
  <2> QED BY <1>6, <2>1 DEF Now, View, Typed
<1>15. SenderOK(Now)
  <2>1. Now.size = out_size /\ Now.decoder = decoder
        /\ Now.count = [c \in DataCsids |-> Len(received[c])]
    BY <1>1 DEF Now
  <2>2. ASSUME NEW c \in DataCsids PROVE Quiet(c, outbox[c], Now)
    <3>1. c \in Csids
      BY CsidFacts
    <3>2. outbox[c] = << >> /\ encoder[c] = Fresh /\ decoder[c] = Fresh
          /\ sent[c] = << >> /\ received[c] = << >>
      BY <1>1, <3>1
    <3>3. Now.count[c] = Len(received[c])
      BY <2>1
    <3> QED BY <1>8, <2>1, <3>2, <3>3 DEF Quiet, Synced
  <2> QED BY <1>8, <1>10, <2>1, <2>2 DEF SenderOK, Synced
<1>16. Rest(0) = << >>
  <2>1. SubSeq(Pipe, 0 + 1, Len(Pipe)) = << >>
    BY <1>12
  <2> QED BY <1>11, <2>1 DEF Rest
<1>17. Way(Rest(0), Now, Now, sent)
  BY <1>14, <1>16, WayEmpty
<1>18. OnTheWay
  BY <1>13, <1>14, <1>15, <1>17 DEF OnTheWay
<1> QED BY <1>1, <1>6, <1>7, <1>9, <1>11, <1>18 DEF IInv, DryWhileWaiting

----------------------------------------------------------------------------
(* The steps of the handshake.                                             *)

(* Consuming n handshake units is no derailment.                           *)
LEMMA ConsumeFacts ==
    ASSUME Typed, NEW r \in Roles, NEW n \in Nat, Consume(r, n),
           n <= Len(read_buf[r]), \A i \in 1 .. n : read_buf[r][i] \in HandshakeUnit
    PROVE  /\ derailed' = FALSE /\ read_buf' \in [Roles -> Seq(Unit)]
           /\ read_buf'[r] = SubSeq(read_buf[r], n + 1, Len(read_buf[r]))
           /\ \A x \in Roles \ {r} : read_buf'[x] = read_buf[x]
<1>1. \A u \in HandshakeUnit : u.kind \in {"version", "packet"}
  BY DEF HandshakeUnit, Packet
<1>2. derailed = FALSE /\ read_buf \in [Roles -> Seq(Unit)]
  BY DEF Typed
<1>3. derailed' = FALSE
  BY <1>1, <1>2 DEF Consume
<1>4. read_buf' = [read_buf EXCEPT ![r] = SubSeq(@, n + 1, Len(@))]
  BY DEF Consume
<1>5. SubSeq(read_buf[r], n + 1, Len(read_buf[r])) \in Seq(Unit)
  BY <1>2
<1> QED BY <1>2, <1>3, <1>4, <1>5

(* What is taken from the front of the buffer is taken from the pipe.      *)
LEMMA PipeShortens ==
    ASSUME Typed, NEW n \in Nat, n <= Len(read_buf["server"]),
           read_buf'["server"] = SubSeq(read_buf["server"], n + 1, Len(read_buf["server"])),
           wire'["server"] = wire["server"]
    PROVE  /\ Pipe' = SubSeq(Pipe, n + 1, Len(Pipe))
           /\ Len(Pipe') = Len(Pipe) - n
           /\ \A h \in Nat : h >= n /\ h <= Len(Pipe) =>
                  /\ SubSeq(Pipe', (h - n) + 1, Len(Pipe')) = SubSeq(Pipe, h + 1, Len(Pipe))
                  /\ \A i \in 1 .. h - n : Pipe'[i] = Pipe[n + i]
<1> DEFINE a == read_buf["server"]
           b == wire["server"]
           P == a \o b
           L == Len(P)
           Q == SubSeq(P, n + 1, L)
<1>1. a \in Seq(Unit) /\ b \in Seq(Unit) /\ n <= Len(a) /\ Pipe = P
  BY PipeFacts, Zenon DEF Pipe
<1>2. Pipe' = SubSeq(a, n + 1, Len(a)) \o b
  BY Zenon DEF Pipe
<1> HIDE DEF a, b
<1>3. Len(a) \in Nat /\ n \in 0 .. Len(a) /\ P \in Seq(Unit) /\ L \in Nat /\ n \in 0 .. L
  BY <1>1
<1>4. Pipe' = Q
  BY <1>1, <1>2, <1>3, DropFromJoined
<1> HIDE DEF P
<1>5. Q \in Seq(Unit) /\ Len(Q) = L - n /\ \A j \in 1 .. L - n : Q[j] = P[n + j]
  BY <1>3
<1>6. ASSUME NEW h \in Nat, h >= n, h <= L
      PROVE  /\ SubSeq(Q, (h - n) + 1, L - n) = SubSeq(P, h + 1, L)
             /\ \A i \in 1 .. h - n : Q[i] = P[n + i]
  <2> DEFINE x == (h - n) + 1
             y == L - n
  <2>1. x \in Nat \ {0} /\ y \in Nat /\ n + y <= L /\ n + x = h + 1 /\ n + y = L
    <3> HIDE DEF L
    <3> QED BY <1>3, <1>6
  <2>2. SubSeq(SubSeq(P, n + 1, Len(P)), x, y) = SubSeq(P, n + x, n + y)
    <3> HIDE DEF x, y
    <3> QED BY <1>3, <2>1, PartOfPart
  <2>3. \A i \in 1 .. h - n : i \in 1 .. L - n
    <3> HIDE DEF L
    <3> QED BY <1>3, <1>6
  <2> HIDE DEF L, Q, x, y
  <2> QED BY <1>5, <2>1, <2>2, <2>3 DEF x, y, L, Q
<1>7. /\ Pipe' = SubSeq(Pipe, n + 1, Len(Pipe)) /\ Len(Pipe') = Len(Pipe) - n /\ Len(Pipe) = L
  BY <1>1, <1>4, <1>5
<1> HIDE DEF L, Q
<1> QED BY <1>1, <1>4, <1>5, <1>6, <1>7, Zenon

(* Two elements and one are three.                                         *)
LEMMA TwoAndOne == ASSUME NEW a, NEW b, NEW c PROVE << a, b >> \o << c >> = << a, b, c >>
<1> DEFINE S == {a, b, c}
           s == << a, b >>
           t == << c >>
           w == s \o t
<1>1. s \in Seq(S) /\ t \in Seq(S) /\ Len(s) = 2 /\ Len(t) = 1 /\ s[1] = a /\ s[2] = b /\ t[1] = c
  OBVIOUS
<1>0. s \in Seq(S) /\ t \in Seq(S)
  BY <1>1
<1> HIDE DEF s, t, S
<1>2. /\ w \in Seq(S) /\ Len(w) = Len(s) + Len(t)
      /\ \A j \in 1 .. Len(s) : w[j] = s[j]
      /\ \A j \in 1 .. Len(t) : w[Len(s) + j] = t[j]
  BY <1>0, Joined
<1> HIDE DEF w
<1>3. Len(w) = 3 /\ w[1] = a /\ w[2] = b /\ w[3] = c
  <2>1. w[2 + 1] = t[1]
    BY <1>1, <1>2
  <2> QED BY <1>1, <1>2, <2>1
<1>4. w = << a, b, c >>
  <2>0. w = [j \in 1 .. Len(w) |-> w[j]]
    BY <1>2
  <2>1. w = [j \in 1 .. 3 |-> w[j]]
    BY <1>3, <2>0
  <2>2. << a, b, c >> = [j \in 1 .. 3 |-> << a, b, c >>[j]]
    OBVIOUS
  <2>3. \A j \in 1 .. 3 : w[j] = << a, b, c >>[j]
    BY <1>3
  <2> QED BY <2>1, <2>2, <2>3
<1> QED BY <1>4 DEF w, s, t

(* What does not touch the receiver's buffer keeps it waiting or not.      *)
LEMMA ReadyUnchanged ==
    ASSUME Setting, read_buf'["server"] = read_buf["server"], decoder' = decoder,
           in_size' = in_size
    PROVE  ChunkReady' = ChunkReady
<1>1. Buffer' = Buffer
  BY DEF Buffer, Setting
<1> QED BY <1>1 DEF ChunkReady, Misplaced, NextHeader, NextState

(* Receiver and buffer stay as they are.                                   *)
LEMMA DryKept ==
    ASSUME Setting, DryWhileWaiting, read_buf'["server"] = read_buf["server"],
           decoder' = decoder, in_size' = in_size, reading' = reading,
           state'["server"] \in {state["server"], "Failed"}
    PROVE  DryWhileWaiting'
<1>1. ChunkReady' = ChunkReady
  BY ReadyUnchanged
<1> QED BY <1>1 DEF DryWhileWaiting

(* What is left of the handshake in the pipe stays there.                  *)
LEMMA HandshakenKept ==
    ASSUME NEW h, Handshaken(h), state' = state, Pipe' = Pipe,
           outbox' = outbox \/ state["client"] = "Done", reading' \in {reading, "buffer"}
    PROVE  Handshaken(h)'
BY DEF Handshaken

(* The client's hello fills an empty pipe (send_c0c1).                     *)
LEMMA ClientHelloKeeps ==
    ASSUME Setting, IInv, ClientHello
    PROVE  IInv'
<1>1. PICK h \in Nat, f \in View :
          Handshaken(h) /\ SenderOK(f) /\ Way(Rest(h), Now, f, sent)
  BY DEF IInv, OnTheWay
<1>2. Typed /\ ClientReads /\ DryWhileWaiting
  BY DEF IInv
<1>p. /\ read_buf["server"] \in Seq(Unit) /\ wire["server"] \in Seq(Unit)
      /\ Pipe \in Seq(Unit) /\ Len(Pipe) \in Nat
      /\ Len(Pipe) = Len(read_buf["server"]) + Len(wire["server"])
      /\ \A i \in 1 .. Len(read_buf["server"]) : Pipe[i] = read_buf["server"][i]
  BY <1>2, PipeFacts, Zenon
<1>3. PICK v \in Versions, eager \in Eager :
          /\ wire' = [wire EXCEPT !["server"] =
                        << Version(v), Packet >> \o IF eager THEN << Packet >> ELSE << >>]
          /\ state' = [state EXCEPT !["client"] = IF eager THEN "Done" ELSE "WaitingForPeerPacket"]
  BY DEF ClientHello
<1>4. /\ state["client"] = "Initial" /\ ChunksUntouched
      /\ read_buf' = read_buf /\ derailed' = derailed /\ reading' = reading /\ number' = number
  BY DEF ClientHello, ChunksUntouched, senderVars, receiverVars
<1> DEFINE W == << Version(v), Packet >> \o IF eager THEN << Packet >> ELSE << >>
           g == IF eager THEN 3 ELSE 2
<1>5. /\ W \in Seq(HandshakeUnit) /\ Len(W) = g /\ g \in Nat
      /\ W \in Seq(Unit) /\ \A i \in 1 .. g : W[i] \in HandshakeUnit
  <2>1. Version(v) \in HandshakeUnit /\ Packet \in HandshakeUnit
    BY DEF Version, HandshakeUnit
  <2>2. HandshakeUnit \subseteq Unit
    BY DEF Unit
  <2>3. CASE eager
    <3>1. W = << Version(v), Packet, Packet >> /\ g = 3
      BY <2>3, TwoAndOne
    <3> HIDE DEF W, g
    <3> QED BY <2>1, <2>2, <3>1
  <2>4. CASE ~eager
    <3>1. W = << Version(v), Packet >> /\ g = 2
      BY <2>4
    <3> HIDE DEF W, g
    <3> QED BY <2>1, <2>2, <3>1
  <2> QED BY <2>3, <2>4
<1>6. Len(Pipe) = 0 /\ h = 0
  BY <1>1, <1>4 DEF Handshaken
<1>7. read_buf["server"] = << >>
  <2> DEFINE a == read_buf["server"]
             b == wire["server"]
  <2>1. a \in Seq(Unit) /\ b \in Seq(Unit) /\ Len(a) + Len(b) = 0
    BY <1>p, <1>6
  <2> HIDE DEF a, b
  <2>2. a = << >>
    BY <2>1
  <2> QED BY <2>2 DEF a
<1>8. wire'["server"] = W /\ wire'["client"] = wire["client"] /\ wire' \in [Roles -> Seq(Unit)]
  <2> HIDE DEF W
  <2>1. wire \in [Roles -> Seq(Unit)] /\ wire' = [wire EXCEPT !["server"] = W]
    BY <1>2, <1>3 DEF Typed, W
  <2> QED BY <1>5, <2>1 DEF Roles
<1>9. Pipe' = W
  <2> HIDE DEF W
  <2> QED BY <1>4, <1>5, <1>7, <1>8 DEF Pipe
<1> HIDE DEF W
<1>10. /\ state' \in [Roles -> Phases] /\ state'["server"] = state["server"]
       /\ state'["client"] = IF eager THEN "Done" ELSE "WaitingForPeerPacket"
       /\ state["server"] \in {"WaitingForPeerPacket", "Failed"}
  BY <1>1, <1>2, <1>3, <1>4 DEF Typed, Roles, Phases, Handshaken
<1>11. Typed'
  BY <1>2, <1>4, <1>8, <1>10 DEF Typed, ChunksUntouched
<1>12. ClientReads'
  BY <1>2, <1>4, <1>8 DEF ClientReads
<1>13. DryWhileWaiting'
  BY <1>10 DEF DryWhileWaiting
<1>14. Handshaken(g)'
  <2>1. g \in 0 .. Len(Pipe') /\ Len(Pipe') = g /\ \A i \in 1 .. g : Pipe'[i] \in HandshakeUnit
    BY <1>5, <1>9
  <2>2. outbox' = outbox /\ \A c \in Csids : outbox[c] = << >>
    BY <1>1, <1>4 DEF Handshaken, ChunksUntouched
  <2>3. state["server"] = "WaitingForPeerPacket" => reading = "buffer"
    BY <1>1 DEF Handshaken
  <2> QED BY <1>4, <1>10, <2>1, <2>2, <2>3 DEF Handshaken
<1>15. SubSeq(Pipe', g + 1, Len(Pipe')) = SubSeq(Pipe, h + 1, Len(Pipe))
  <2>1. SubSeq(W, g + 1, Len(W)) = << >>
    BY <1>5
  <2>2. SubSeq(Pipe, h + 1, Len(Pipe)) = << >>
    BY <1>2, <1>6, PipeFacts
  <2> QED BY <1>9, <2>1, <2>2
<1> QED BY <1>1, <1>4, <1>5, <1>11, <1>12, <1>13, <1>14, <1>15, HandshakeKeeps

(* The server's answer takes two units from the pipe (do_handshake).       *)
LEMMA ServerPeerPacketKeeps ==
    ASSUME Setting, IInv, ServerPeerPacket
    PROVE  IInv'
<1>1. PICK h \in Nat, f \in View :
          Handshaken(h) /\ SenderOK(f) /\ Way(Rest(h), Now, f, sent)
  BY DEF IInv, OnTheWay
<1>2. Typed /\ ClientReads
  BY DEF IInv
<1>p. /\ read_buf["server"] \in Seq(Unit) /\ wire["server"] \in Seq(Unit)
      /\ Pipe \in Seq(Unit) /\ Len(Pipe) \in Nat
      /\ Len(Pipe) = Len(read_buf["server"]) + Len(wire["server"])
      /\ \A i \in 1 .. Len(read_buf["server"]) : Pipe[i] = read_buf["server"][i]
  BY <1>2, PipeFacts, Zenon
<1>3. /\ state["server"] = "WaitingForPeerPacket" /\ Len(read_buf["server"]) >= 2
      /\ Consume("server", 2) /\ ChunksUntouched /\ reading' = reading /\ number' = number
  BY DEF ServerPeerPacket, ChunksUntouched, senderVars, receiverVars
<1>4. /\ state' \in [Roles -> Phases] /\ state'["client"] = state["client"]
      /\ state'["server"] \in {"Failed", "WaitingForPeerResponse"}
  BY <1>2 DEF ServerPeerPacket, Typed, Roles, Phases
<1>5. /\ wire' \in [Roles -> Seq(Unit)] /\ wire'["server"] = wire["server"]
      /\ wire'["client"] \in Seq(HandshakeUnit)
  <2>1. CASE wire' = wire
    BY <1>2, <2>1 DEF Typed, ClientReads
  <2>2. ASSUME NEW v \in Versions, wire' = [wire EXCEPT !["client"] = << Version(v), Packet, Packet >>]
        PROVE  /\ wire' \in [Roles -> Seq(Unit)] /\ wire'["server"] = wire["server"]
               /\ wire'["client"] \in Seq(HandshakeUnit)
    <3> DEFINE W == << Version(v), Packet, Packet >>
    <3>1. Version(v) \in HandshakeUnit /\ Packet \in HandshakeUnit /\ HandshakeUnit \subseteq Unit
      BY DEF Version, HandshakeUnit, Unit
    <3>2. W \in Seq(HandshakeUnit) /\ W \in Seq(Unit)
      BY <3>1
    <3> HIDE DEF W
    <3>3. wire \in [Roles -> Seq(Unit)] /\ wire' = [wire EXCEPT !["client"] = W]
      BY <1>2, <2>2 DEF Typed, W
    <3> QED BY <3>2, <3>3 DEF Roles
  <2>3. wire' = wire \/ \E v \in Versions :
            wire' = [wire EXCEPT !["client"] = << Version(v), Packet, Packet >>]
    BY DEF ServerPeerPacket
  <2> QED BY <2>1, <2>2, <2>3
<1>6. /\ h >= 2 /\ h <= Len(Pipe) /\ state["client"] # "Initial"
      /\ h - 2 = (IF state["client"] = "Done" THEN 1 ELSE 0)
      /\ \A i \in 1 .. h : Pipe[i] \in HandshakeUnit
      /\ reading = "buffer" /\ state["client"] # "WaitingForPeerResponse"
      /\ state["client"] # "Done" => Len(Pipe) = h /\ \A c \in Csids : outbox[c] = << >>
  <2>1. Len(Pipe) >= 2
    <3> DEFINE x == Len(read_buf["server"])
               y == Len(wire["server"])
               z == Len(Pipe)
    <3>1. x \in Nat /\ y \in Nat /\ x >= 2 /\ z = x + y
      BY <1>p, <1>3
    <3> HIDE DEF x, y, z
    <3> QED BY <3>1 DEF z
  <2> QED BY <1>1, <1>3, <2>1 DEF Handshaken
<1>7. \A i \in 1 .. 2 : read_buf["server"][i] \in HandshakeUnit
  <2>1. \A i \in 1 .. 2 : i \in 1 .. h /\ i \in 1 .. Len(read_buf["server"])
    BY <1>p, <1>3, <1>6
  <2> QED BY <1>p, <1>6, <2>1
<1>8. /\ derailed' = FALSE /\ read_buf' \in [Roles -> Seq(Unit)]
      /\ read_buf'["server"] = SubSeq(read_buf["server"], 2 + 1, Len(read_buf["server"]))
      /\ read_buf'["client"] = read_buf["client"]
  BY <1>2, <1>3, <1>7, ConsumeFacts DEF Roles
<1>9. /\ Len(Pipe') = Len(Pipe) - 2
      /\ SubSeq(Pipe', (h - 2) + 1, Len(Pipe')) = SubSeq(Pipe, h + 1, Len(Pipe))
      /\ \A i \in 1 .. h - 2 : Pipe'[i] = Pipe[2 + i]
  BY <1>2, <1>3, <1>5, <1>6, <1>8, PipeShortens
<1>10. Typed'
  BY <1>2, <1>3, <1>4, <1>5, <1>8 DEF Typed, ChunksUntouched
<1>11. ClientReads'
  BY <1>2, <1>5, <1>8 DEF ClientReads
<1>12. DryWhileWaiting'
  BY <1>4 DEF DryWhileWaiting
<1>13. Handshaken(h - 2)'
  <2>1. h - 2 \in 0 .. Len(Pipe') /\ Len(Pipe) \in Nat
    BY <1>2, <1>6, <1>9, PipeFacts
  <2>2. \A i \in 1 .. h - 2 : Pipe'[i] \in HandshakeUnit
    BY <1>6, <1>9
  <2>3. outbox' = outbox
    BY <1>3 DEF ChunksUntouched
  <2> QED BY <1>3, <1>4, <1>6, <1>9, <2>1, <2>2, <2>3 DEF Handshaken
<1>14. h - 2 \in Nat
  BY <1>6
<1> QED BY <1>1, <1>3, <1>9, <1>10, <1>11, <1>12, <1>13, <1>14, HandshakeKeeps

(* C2 is the last unit of the handshake (do_handshake).                    *)
LEMMA ServerPeerResponseKeeps ==
    ASSUME Setting, IInv, ServerPeerResponse
    PROVE  IInv'
<1>1. PICK h \in Nat, f \in View :
          Handshaken(h) /\ SenderOK(f) /\ Way(Rest(h), Now, f, sent)
  BY DEF IInv, OnTheWay
<1>2. Typed /\ ClientReads /\ DryWhileWaiting
  BY DEF IInv
<1>p. /\ read_buf["server"] \in Seq(Unit) /\ wire["server"] \in Seq(Unit)
      /\ Pipe \in Seq(Unit) /\ Len(Pipe) \in Nat
      /\ Len(Pipe) = Len(read_buf["server"]) + Len(wire["server"])
      /\ \A i \in 1 .. Len(read_buf["server"]) : Pipe[i] = read_buf["server"][i]
  BY <1>2, PipeFacts, Zenon
<1>3. /\ state["server"] = "WaitingForPeerResponse" /\ Len(read_buf["server"]) >= 1
      /\ Consume("server", 1) /\ ChunksUntouched /\ reading' = reading /\ number' = number
      /\ wire' = wire /\ state' = [state EXCEPT !["server"] = "Done"]
  BY DEF ServerPeerResponse, ChunksUntouched, senderVars, receiverVars
<1>4. /\ state' \in [Roles -> Phases] /\ state'["client"] = state["client"]
      /\ state'["server"] = "Done"
  BY <1>2, <1>3 DEF Typed, Roles, Phases
<1>5. Len(Pipe) >= 1
  <2> DEFINE x == Len(read_buf["server"])
             y == Len(wire["server"])
             z == Len(Pipe)
  <2>1. x \in Nat /\ y \in Nat /\ x >= 1 /\ z = x + y
    BY <1>p, <1>3
  <2> HIDE DEF x, y, z
  <2> QED BY <2>1 DEF z
<1>6. /\ h = 1 /\ state["client"] = "Done" /\ Pipe[1] \in HandshakeUnit
      /\ reading = "buffer"
  BY <1>1, <1>3, <1>5 DEF Handshaken
<1>7. \A i \in 1 .. 1 : read_buf["server"][i] \in HandshakeUnit
  <2>1. 1 \in 1 .. Len(read_buf["server"])
    BY <1>p, <1>3
  <2>2. Pipe[1] = read_buf["server"][1]
    BY <1>p, <2>1, Zenon
  <2>3. read_buf["server"][1] \in HandshakeUnit
    BY <1>6, <2>2, Zenon
  <2>4. \A i \in 1 .. 1 : i = 1
    OBVIOUS
  <2> QED BY <2>3, <2>4, Zenon
<1>8. /\ derailed' = FALSE /\ read_buf' \in [Roles -> Seq(Unit)]
      /\ read_buf'["server"] = SubSeq(read_buf["server"], 1 + 1, Len(read_buf["server"]))
      /\ read_buf'["client"] = read_buf["client"]
  BY <1>2, <1>3, <1>7, ConsumeFacts DEF Roles
<1>9. /\ Len(Pipe') = Len(Pipe) - 1
      /\ SubSeq(Pipe', 1, Len(Pipe')) = SubSeq(Pipe, 1 + 1, Len(Pipe))
  <2>1. wire'["server"] = wire["server"] /\ 1 \in Nat /\ 1 <= Len(read_buf["server"])
    BY <1>p, <1>3
  <2>2. /\ Len(Pipe') = Len(Pipe) - 1
        /\ \A x \in Nat : x >= 1 /\ x <= Len(Pipe) =>
               SubSeq(Pipe', (x - 1) + 1, Len(Pipe')) = SubSeq(Pipe, x + 1, Len(Pipe))
    BY <1>2, <1>8, <2>1, PipeShortens
  <2>3. SubSeq(Pipe', (1 - 1) + 1, Len(Pipe')) = SubSeq(Pipe, 1 + 1, Len(Pipe))
    BY <1>5, <2>2
  <2>4. (1 - 1) + 1 = 1
    OBVIOUS
  <2> QED BY <2>2, <2>3, <2>4
<1>10. Typed'
  BY <1>2, <1>3, <1>4, <1>8 DEF Typed, ChunksUntouched
<1>11. ClientReads'
  BY <1>2, <1>3, <1>8 DEF ClientReads
<1>12. DryWhileWaiting'
  BY <1>3, <1>6 DEF DryWhileWaiting
<1>13. Handshaken(0)'
  <2>1. 0 \in 0 .. Len(Pipe')
    <3> DEFINE z == Len(Pipe)
    <3>1. z \in Nat /\ z >= 1 /\ Len(Pipe') = z - 1
      BY <1>p, <1>5, <1>9
    <3> HIDE DEF z
    <3> QED BY <3>1
  <2> QED BY <1>4, <1>6, <2>1 DEF Handshaken
<1>14. SubSeq(Pipe', 0 + 1, Len(Pipe')) = SubSeq(Pipe, h + 1, Len(Pipe))
  <2>1. h + 1 = 1 + 1 /\ 0 + 1 = 1
    BY <1>6
  <2> QED BY <1>9, <2>1
<1> QED BY <1>1, <1>3, <1>10, <1>11, <1>12, <1>13, <1>14, HandshakeKeeps

(* What goes out on the wire goes into the pipe.                           *)
LEMMA PipeGrows ==
    ASSUME Typed, NEW w \in Seq(Unit), read_buf'["server"] = read_buf["server"],
           wire'["server"] = wire["server"] \o w
    PROVE  /\ Pipe' = Pipe \o w /\ Len(Pipe') = Len(Pipe) + Len(w)
           /\ \A i \in 1 .. Len(Pipe) : Pipe'[i] = Pipe[i]
           /\ \A i \in 1 .. Len(w) : Pipe'[Len(Pipe) + i] = w[i]
<1> DEFINE a == read_buf["server"]
           b == wire["server"]
<1>1. a \in Seq(Unit) /\ b \in Seq(Unit) /\ Pipe = a \o b /\ Pipe' = a \o (b \o w)
  BY PipeFacts, Zenon DEF Pipe
<1> HIDE DEF a, b
<1>2. Pipe' = (a \o b) \o w
  BY <1>1, ConcatAssociative
<1>3. a \o b \in Seq(Unit)
  <2>1. a \in Seq(Unit) /\ b \in Seq(Unit)
    BY <1>1
  <2> QED BY <2>1
<1>4. Pipe' = Pipe \o w /\ Pipe \in Seq(Unit)
  BY <1>1, <1>2, <1>3, Zenon
<1> DEFINE P == Pipe
<1>5. P \in Seq(Unit)
  BY <1>4
<1> HIDE DEF P
<1>6. /\ Len(P \o w) = Len(P) + Len(w)
      /\ \A i \in 1 .. Len(P) : (P \o w)[i] = P[i]
      /\ \A i \in 1 .. Len(w) : (P \o w)[Len(P) + i] = w[i]
  BY <1>5, Joined
<1> QED BY <1>4, <1>6 DEF P

(* C2 goes into a pipe that holds nothing but the handshake                *)
(* (perform_handshake).                                                    *)
LEMMA ClientPeerPacketKeeps ==
    ASSUME Setting, IInv, ClientPeerPacket
    PROVE  IInv'
<1>1. PICK h \in Nat, f \in View :
          Handshaken(h) /\ SenderOK(f) /\ Way(Rest(h), Now, f, sent)
  BY DEF IInv, OnTheWay
<1>2. Typed /\ ClientReads /\ DryWhileWaiting
  BY DEF IInv
<1>p. /\ read_buf["server"] \in Seq(Unit) /\ wire["server"] \in Seq(Unit)
      /\ Pipe \in Seq(Unit) /\ Len(Pipe) \in Nat
      /\ Len(Pipe) = Len(read_buf["server"]) + Len(wire["server"])
      /\ \A i \in 1 .. Len(read_buf["server"]) : Pipe[i] = read_buf["server"][i]
  BY <1>2, PipeFacts, Zenon
<1>3. /\ state["client"] = "WaitingForPeerPacket" /\ Len(read_buf["client"]) >= 3
      /\ Consume("client", 3) /\ ChunksUntouched /\ reading' = reading /\ number' = number
  BY DEF ClientPeerPacket, ChunksUntouched, senderVars, receiverVars
<1>4. \A i \in 1 .. 3 : read_buf["client"][i] \in HandshakeUnit
  <2>1. read_buf["client"] \in Seq(HandshakeUnit)
    BY <1>2 DEF ClientReads
  <2> QED BY <1>3, <2>1
<1>5. /\ derailed' = FALSE /\ read_buf' \in [Roles -> Seq(Unit)]
      /\ read_buf'["client"] = SubSeq(read_buf["client"], 3 + 1, Len(read_buf["client"]))
      /\ read_buf'["server"] = read_buf["server"]
  BY <1>2, <1>3, <1>4, ConsumeFacts DEF Roles
<1>6. read_buf'["client"] \in Seq(HandshakeUnit)
  BY <1>2, <1>3, <1>5 DEF ClientReads
<1>7. Len(Pipe) = h /\ \A c \in Csids : outbox[c] = << >>
  BY <1>1, <1>3 DEF Handshaken
<1>8. outbox' = outbox
  BY <1>3 DEF ChunksUntouched
<1>9. CASE state' = [state EXCEPT !["client"] = "Failed"] /\ wire' = wire
  <2>1. /\ state' \in [Roles -> Phases] /\ state'["server"] = state["server"]
        /\ state'["client"] = "Failed"
    BY <1>2, <1>9 DEF Typed, Roles, Phases
  <2>2. Typed'
    BY <1>2, <1>3, <1>5, <1>9, <2>1 DEF Typed, ChunksUntouched
  <2>3. ClientReads'
    BY <1>2, <1>6, <1>9 DEF ClientReads
  <2>4. DryWhileWaiting'
    <3>1. decoder' = decoder /\ in_size' = in_size
      BY <1>3 DEF ChunksUntouched
    <3> QED BY <1>2, <1>3, <1>5, <2>1, <3>1, DryKept
  <2>5. Pipe' = Pipe
    BY <1>5, <1>9 DEF Pipe
  <2>6. Handshaken(h)'
    BY <1>1, <1>3, <1>7, <1>8, <2>1, <2>5 DEF Handshaken
  <2> QED BY <1>1, <1>3, <2>2, <2>3, <2>4, <2>5, <2>6, HandshakeKeeps
<1>10. CASE /\ state' = [state EXCEPT !["client"] = "Done"]
            /\ wire' = [wire EXCEPT !["server"] = Append(@, Packet)]
  <2>1. /\ state' \in [Roles -> Phases] /\ state'["server"] = state["server"]
        /\ state'["client"] = "Done"
    BY <1>2, <1>10 DEF Typed, Roles, Phases
  <2> DEFINE w == << Packet >>
  <2>2. w \in Seq(Unit) /\ Len(w) = 1 /\ w[1] = Packet /\ Packet \in HandshakeUnit /\ Packet \in Unit
    BY DEF HandshakeUnit, Unit
  <2>3. wire'["server"] = wire["server"] \o w
    <3>1. wire \in [Roles -> Seq(Unit)]
      BY <1>2 DEF Typed
    <3>2. wire'["server"] = Append(wire["server"], Packet)
      BY <1>10, <3>1 DEF Roles
    <3> DEFINE b == wire["server"]
    <3>3. b \in Seq(Unit)
      BY <1>p
    <3> HIDE DEF b
    <3>4. Append(b, Packet) = b \o << Packet >>
      BY <2>2, <3>3, AppendIsConcat
    <3> QED BY <3>2, <3>4 DEF b
  <2>4. wire' \in [Roles -> Seq(Unit)] /\ wire'["client"] = wire["client"]
    <3>1. wire \in [Roles -> Seq(Unit)] /\ Append(wire["server"], Packet) \in Seq(Unit)
      BY <1>p, <1>2, <2>2 DEF Typed
    <3> QED BY <1>10, <3>1 DEF Roles
  <2> HIDE DEF w
  <2>5. /\ Pipe' = Pipe \o w /\ Len(Pipe') = Len(Pipe) + Len(w)
        /\ \A i \in 1 .. Len(Pipe) : Pipe'[i] = Pipe[i]
        /\ \A i \in 1 .. Len(w) : Pipe'[Len(Pipe) + i] = w[i]
    BY <1>2, <1>5, <2>2, <2>3, PipeGrows
  <2>6. Len(Pipe') = h + 1 /\ Pipe'[h + 1] = Packet
    BY <1>7, <2>2, <2>5
  <2>7. Typed'
    BY <1>2, <1>3, <1>5, <2>1, <2>4 DEF Typed, ChunksUntouched
  <2>8. ClientReads'
    BY <1>2, <1>6, <2>4 DEF ClientReads
  <2>9. DryWhileWaiting'
    <3>1. decoder' = decoder /\ in_size' = in_size
      BY <1>3 DEF ChunksUntouched
    <3> QED BY <1>2, <1>3, <1>5, <2>1, <3>1, DryKept
  <2>10. Handshaken(h + 1)'
    <3>1. \A i \in 1 .. h + 1 : Pipe'[i] \in HandshakeUnit
      <4>1. \A i \in 1 .. h : Pipe[i] \in HandshakeUnit
        BY <1>1 DEF Handshaken
      <4>2. \A i \in 1 .. h : Pipe'[i] \in HandshakeUnit
        BY <1>7, <2>5, <4>1
      <4>3. \A i \in 1 .. h + 1 : i \in 1 .. h \/ i = h + 1
        OBVIOUS
      <4> QED BY <2>2, <2>6, <4>2, <4>3
    <3>2. h + 1 \in 0 .. Len(Pipe')
      BY <2>6
    <3>3. /\ state["server"] = "WaitingForPeerPacket" => h = 2
          /\ state["server"] = "WaitingForPeerResponse" => h = 0
          /\ state["server"] # "Done" /\ state["server"] # "Initial"
          /\ state["server"] \in {"WaitingForPeerPacket", "WaitingForPeerResponse"}
                 => reading = "buffer"
      BY <1>1, <1>3 DEF Handshaken
    <3> QED BY <1>3, <2>1, <3>1, <3>2, <3>3 DEF Handshaken
  <2>11. SubSeq(Pipe', (h + 1) + 1, Len(Pipe')) = SubSeq(Pipe, h + 1, Len(Pipe))
    BY <1>7, <2>6, SubSeqEmpty
  <2>12. h + 1 \in Nat
    OBVIOUS
  <2> QED BY <1>1, <1>3, <2>7, <2>8, <2>9, <2>10, <2>11, <2>12, HandshakeKeeps
<1> QED BY <1>9, <1>10 DEF ClientPeerPacket

(* A timeout touches nothing but the phase of a role.                      *)
LEMMA TimeoutKeeps ==
    ASSUME Setting, IInv, NEW r \in Roles, HandshakeTimeout(r)
    PROVE  IInv'
<1>1. PICK h \in Nat, f \in View :
          Handshaken(h) /\ SenderOK(f) /\ Way(Rest(h), Now, f, sent)
  BY DEF IInv, OnTheWay
<1>2. Typed /\ ClientReads /\ DryWhileWaiting
  BY DEF IInv
<1>3. /\ Waiting(r) /\ state' = [state EXCEPT ![r] = "Failed"] /\ wire' = wire
      /\ read_buf' = read_buf /\ derailed' = derailed /\ ChunksUntouched /\ reading' = reading
      /\ number' = number
  BY DEF HandshakeTimeout, ChunksUntouched, senderVars, receiverVars
<1>4. /\ state' \in [Roles -> Phases] /\ state'[r] = "Failed"
      /\ \A x \in Roles \ {r} : state'[x] = state[x]
  BY <1>2, <1>3 DEF Typed, Phases
<1>5. Typed'
  BY <1>2, <1>3, <1>4 DEF Typed, ChunksUntouched
<1>6. ClientReads'
  BY <1>2, <1>3 DEF ClientReads
<1>7. DryWhileWaiting'
  <2>1. decoder' = decoder /\ in_size' = in_size
    BY <1>3 DEF ChunksUntouched
  <2>2. state'["server"] \in {state["server"], "Failed"}
    BY <1>4 DEF Roles
  <2> QED BY <1>2, <1>3, <2>1, <2>2, DryKept
<1>8. Pipe' = Pipe
  BY <1>3 DEF Pipe
<1>9. Handshaken(h)'
  <2>1. outbox' = outbox
    BY <1>3 DEF ChunksUntouched
  <2>2. CASE r = "client"
    <3>1. state'["client"] = "Failed" /\ state'["server"] = state["server"]
          /\ state["client"] = "WaitingForPeerPacket"
      BY <1>1, <1>3, <1>4, <2>2 DEF Roles, Waiting, Handshaken
    <3> QED BY <1>1, <1>3, <1>8, <2>1, <3>1 DEF Handshaken
  <2>3. CASE r = "server"
    <3>1. state'["client"] = state["client"] /\ state'["server"] = "Failed"
      BY <1>4, <2>3 DEF Roles
    <3> QED BY <1>1, <1>3, <1>8, <2>1, <3>1 DEF Handshaken
  <2> QED BY <2>2, <2>3 DEF Roles
<1> QED BY <1>1, <1>3, <1>5, <1>6, <1>7, <1>8, <1>9, HandshakeKeeps

(* The network moves units from the wire to the buffer, in their order.    *)
LEMMA ReadKeeps ==
    ASSUME Setting, IInv, NEW r \in Roles, Read(r)
    PROVE  IInv'
<1>1. PICK h \in Nat, f \in View :
          Handshaken(h) /\ SenderOK(f) /\ Way(Rest(h), Now, f, sent)
  BY DEF IInv, OnTheWay
<1>2. Typed /\ ClientReads /\ DryWhileWaiting
  BY DEF IInv
<1>p. /\ read_buf["server"] \in Seq(Unit) /\ wire["server"] \in Seq(Unit)
      /\ Pipe \in Seq(Unit) /\ Len(Pipe) \in Nat
      /\ Len(Pipe) = Len(read_buf["server"]) + Len(wire["server"])
      /\ \A i \in 1 .. Len(read_buf["server"]) : Pipe[i] = read_buf["server"][i]
  BY <1>2, PipeFacts, Zenon
<1>3. PICK n \in 1 .. Len(wire[r]) :
          /\ read_buf' = [read_buf EXCEPT ![r] = @ \o SubSeq(wire[r], 1, n)]
          /\ wire' = [wire EXCEPT ![r] = SubSeq(@, n + 1, Len(@))]
  BY DEF Read
<1>4. /\ reading' = IF state[r] = "Done" THEN "buffer" ELSE reading
      /\ state' = state /\ derailed' = derailed /\ ChunksUntouched /\ number' = number
      /\ Waiting(r) \/ r = "server"
  BY DEF Read, ChunksUntouched, senderVars, Setting
<1> DEFINE a == read_buf[r]
           b == wire[r]
           front == SubSeq(b, 1, n)
           back == SubSeq(b, n + 1, Len(b))
<1>5. ASSUME NEW S, a \in Seq(S), b \in Seq(S)
      PROVE  /\ a \o front \in Seq(S) /\ back \in Seq(S)
             /\ (a \o front) \o back = a \o b
  <2>1. n \in 1 .. Len(b)
    OBVIOUS
  <2> HIDE DEF a, b
  <2>2. front \in Seq(S) /\ back \in Seq(S)
    BY <1>5, <2>1
  <2>3. front \o back = b
    <3>1. 1 \in 1 .. Len(b) + 1 /\ n \in 1 - 1 .. Len(b) /\ Len(b) \in n .. Len(b)
      BY <1>5, <2>1
    <3>2. SubSeq(b, 1, n) \o SubSeq(b, n + 1, Len(b)) = SubSeq(b, 1, Len(b))
      BY <1>5, <3>1, ConcatAdjacentSubSeq
    <3> QED BY <1>5, <3>2, SubSeqFull
  <2> HIDE DEF front, back
  <2>4. (a \o front) \o back = a \o (front \o back)
    BY <1>5, <2>2, ConcatAssociative
  <2>5. a \o front \in Seq(S)
    BY <1>5, <2>2
  <2> QED BY <2>2, <2>3, <2>4, <2>5
<1>6. a \in Seq(Unit) /\ b \in Seq(Unit)
      /\ wire \in [Roles -> Seq(Unit)] /\ read_buf \in [Roles -> Seq(Unit)]
  BY <1>2 DEF Typed
<1> HIDE DEF front, back
<1>7. /\ read_buf'[r] = a \o front /\ wire'[r] = back
      /\ \A x \in Roles \ {r} : read_buf'[x] = read_buf[x] /\ wire'[x] = wire[x]
      /\ read_buf' \in [Roles -> Seq(Unit)] /\ wire' \in [Roles -> Seq(Unit)]
  <2>1. a \o front \in Seq(Unit) /\ back \in Seq(Unit)
    BY <1>5, <1>6
  <2>2. read_buf' = [read_buf EXCEPT ![r] = a \o front] /\ wire' = [wire EXCEPT ![r] = back]
    BY <1>3 DEF front, back
  <2> HIDE DEF a, b
  <2> QED BY <1>6, <2>1, <2>2
<1>8. Typed'
  <2>1. reading' \in {"buffer", "socket"}
    BY <1>2, <1>4 DEF Typed
  <2> QED BY <1>2, <1>4, <1>7, <2>1 DEF Typed, ChunksUntouched
<1>9. ClientReads'
  <2>1. CASE r = "client"
    <3>1. a \in Seq(HandshakeUnit) /\ b \in Seq(HandshakeUnit)
      BY <1>2, <2>1 DEF ClientReads
    <3>2. a \o front \in Seq(HandshakeUnit) /\ back \in Seq(HandshakeUnit)
      BY <1>5, <3>1
    <3> QED BY <1>7, <2>1, <3>2 DEF ClientReads
  <2>2. CASE r = "server"
    BY <1>2, <1>7, <2>2 DEF ClientReads, Roles
  <2> QED BY <2>1, <2>2 DEF Roles
<1>10. Pipe' = Pipe
  <2>1. CASE r = "client"
    BY <1>7, <2>1 DEF Pipe, Roles
  <2>2. CASE r = "server"
    <3>1. (a \o front) \o back = a \o b
      BY <1>5, <1>6
    <3> QED BY <1>7, <2>2, <3>1 DEF Pipe
  <2> QED BY <2>1, <2>2 DEF Roles
<1>11. DryWhileWaiting'
  <2>1. CASE r = "client"
    <3>1. reading' = reading /\ read_buf'["server"] = read_buf["server"]
      BY <1>1, <1>4, <1>7, <2>1 DEF Waiting, Roles
    <3>2. decoder' = decoder /\ in_size' = in_size /\ state'["server"] = state["server"]
      BY <1>4 DEF ChunksUntouched
    <3> QED BY <1>2, <3>1, <3>2, DryKept
  <2>2. CASE r = "server"
    BY <1>4, <2>2 DEF DryWhileWaiting
  <2> QED BY <2>1, <2>2 DEF Roles
<1>12. Handshaken(h)'
  <2>1. outbox' = outbox /\ reading' \in {reading, "buffer"}
    BY <1>4 DEF ChunksUntouched
  <2> QED BY <1>1, <1>4, <1>10, <2>1, HandshakenKept
<1> QED BY <1>1, <1>4, <1>8, <1>9, <1>10, <1>11, <1>12, HandshakeKeeps

----------------------------------------------------------------------------
(* The steps of the sender.                                                *)

(* A step of the sender that writes nothing keeps the invariant if it      *)
(* leads to a view the sender counts on.                                   *)
LEMMA SenderKeeps ==
    ASSUME Setting, IInv, Typed', EncoderOK', AnnouncedOK',
           UNCHANGED <<state, read_buf, wire, decoder, in_size, received, reading>>,
           state["client"] = "Done", NEW h \in Nat, Handshaken(h),
           NEW g \in View, SenderOK(g)',
           Way(SubSeq(Pipe, h + 1, Len(Pipe)) \o Announced', Now, g, sent')
    PROVE  IInv'
<1>1. Pipe' = Pipe /\ Now' = Now
  BY DEF Pipe, Now
<1>2. Handshaken(h)'
  BY <1>1, HandshakenKept
<1>3. DryWhileWaiting' /\ ClientReads'
  <2>1. DryWhileWaiting /\ ClientReads
    BY DEF IInv
  <2>2. DryWhileWaiting'
    BY <2>1, DryKept
  <2> QED BY <2>1, <2>2 DEF ClientReads
<1>4. Way(Rest(h)', Now', g, sent')
  BY <1>1 DEF Rest
<1>5. OnTheWay'
  BY <1>2, <1>4 DEF OnTheWay
<1> QED BY <1>3, <1>5 DEF IInv

(* The sender sends only when the client has done its handshake.           *)
LEMMA SenderFacts ==
    ASSUME Setting, CanSend
    PROVE  state["client"] = "Done" /\ number < MaxMessages
BY RoleFacts DEF CanSend

(* A message whose chunks are still to be written has one.                 *)
LEMMA BusyHasChunks ==
    ASSUME NEW c, NEW box, NEW f, Busy(c, box, f), out_size \in 1 .. MaxChunkSize
    PROVE  box # << >>
<1> DEFINE m == Last(sent[c])
           n == ChunkCount(m, out_size)
<1>1. PICK e \in StreamStates(Word), i \in Nat : Remaining(c, box, f, m, e, i)
  BY DEF Busy
<1> DEFINE all == Encode(m, e, out_size)
<1>2. i \in 1 .. n /\ box = SubSeq(all, i, n) /\ m \in Message /\ MayFollow(m, e)
  BY <1>1 DEF Remaining, Busy
<1>3. all \in Seq(Chunk) /\ Len(all) = n /\ n \in Nat
  <2>1. out_size \in Nat \ {0}
    BY CodecAssumption
  <2> QED BY <1>2, <2>1, EncodeIsChunks DEF MayFollow
<1> HIDE DEF n, all
<1>4. Len(box) = n - i + 1
  BY <1>2, <1>3
<1>5. Len(box) # 0
  BY <1>2, <1>3, <1>4
<1> QED BY <1>5

(* A chunk stream that nothing happens to is as the sender counts on; its  *)
(* encoder may be reset.                                                   *)
LEMMA StreamKept ==
    ASSUME NEW x \in DataCsids, NEW f \in View, NEW g \in View,
           Quiet(x, outbox[x], f) \/ Busy(x, outbox[x], f),
           g.decoder[x] = f.decoder[x], g.count[x] = f.count[x],
           encoder'[x] \in {encoder[x], Fresh}, outbox'[x] = outbox[x], sent'[x] = sent[x],
           out_size' = out_size
    PROVE  Quiet(x, outbox[x], g)' \/ Busy(x, outbox[x], g)'
<1>1. CASE Quiet(x, outbox[x], f)
  <2>1. Synced(encoder'[x], f.decoder[x])
    BY <1>1 DEF Quiet, Synced
  <2> QED BY <1>1, <2>1 DEF Quiet
<1>2. CASE Busy(x, outbox[x], f)
  <2>1. PICK e \in StreamStates(Word), i \in Nat :
            Remaining(x, outbox[x], f, Last(sent[x]), e, i)
    BY <1>2 DEF Busy
  <2>2. Remaining(x, outbox[x], g, Last(sent[x]), e, i)'
    BY <2>1 DEF Remaining
  <2> QED BY <1>2, <2>2 DEF Busy
<1> QED BY <1>1, <1>2

(* The messages of the sender may follow what its encoder remembers:       *)
(* commands have timestamp 0, media do not go back and keep to one message *)
(* stream and type.                                                        *)
LEMMA TrafficFacts ==
    ASSUME Setting, Typed, EncoderOK, NEW m \in Traffic
    PROVE  /\ m \in Message /\ m.csid \in DataCsids /\ MayFollow(m, encoder[m.csid])
           /\ m.message_type \notin {MSG_SET_CHUNK_SIZE, MSG_ABORT}
           /\ m.csid \notin MediaCsids => m.timestamp = 0
           /\ m.csid \in MediaCsids => m.stream_id = 1 /\ m.message_type = MSG_VIDEO
<1> DEFINE c == m.csid
           e == encoder[c]
<1>0. /\ Threshold \in Nat \ {0} /\ TimeModulus \in Nat /\ number \in Nat
      /\ CommandLengths \subseteq 1 .. Threshold /\ Lengths \subseteq 1 .. Threshold
      /\ Times \subseteq 0 .. TimeModulus - 1 /\ Threshold < TimeModulus
      /\ CommandCsids \cap MediaCsids = {} /\ MaxMessages \in Nat
  BY CodecAssumption, TransportAssumption DEF Typed
<1>1. ASSUME NEW n \in 1 .. Threshold
      PROVE  Words(number + 1, n) \in Seq(Word) /\ Len(Words(number + 1, n)) = n
  <2>1. \A i \in 1 .. n : << number + 1, i >> \in Word
    BY <1>0 DEF Word
  <2>2. n \in Nat
    BY <1>0
  <2> QED BY <2>1, <2>2 DEF Words
<1>2. CASE m \in [csid : CommandCsids, timestamp : {0}, message_type : {MSG_COMMAND_AMF0},
                  stream_id : {0, 1},
                  payload : {Words(number + 1, n) : n \in CommandLengths}]
  <2>1. /\ c \in CommandCsids /\ m.timestamp = 0 /\ m.message_type = MSG_COMMAND_AMF0
        /\ m.stream_id \in {0, 1} /\ \E n \in CommandLengths : m.payload = Words(number + 1, n)
    BY <1>2
  <2>2. m.payload \in Seq(Word) /\ Len(m.payload) \in 1 .. Threshold
    BY <1>0, <1>1, <2>1
  <2>3. c \in DataCsids /\ c \in Csids /\ c \notin MediaCsids /\ IsCsid(c)
    BY <1>0, <2>1, CsidFacts DEF DataCsids
  <2>4. m \in Message
    <3>1. MSG_COMMAND_AMF0 \in Nat /\ 0 \in Nat /\ 1 \in Nat
      BY DEF MSG_COMMAND_AMF0
    <3> QED BY <1>2, <2>1, <2>2, <2>3, <3>1 DEF Message
  <2>5. e.timestamp = 0
    BY <2>3 DEF EncoderOK
  <2>6. IsMessage(m)
    BY <1>0, <2>1, <2>2, <2>3 DEF IsMessage, MSG_COMMAND_AMF0
  <2>7. m.timestamp < Threshold /\ m.timestamp >= e.timestamp
    BY <1>0, <2>1, <2>5
  <2>8. MayFollow(m, e)
    BY <2>5, <2>6, <2>7 DEF MayFollow
  <2> QED BY <2>1, <2>3, <2>4, <2>8 DEF MSG_COMMAND_AMF0, MSG_SET_CHUNK_SIZE, MSG_ABORT
<1>3. CASE m \in {k \in [csid : MediaCsids, timestamp : Times, message_type : {MSG_VIDEO},
                         stream_id : {1},
                         payload : {Words(number + 1, n) : n \in Lengths}] :
                     k.timestamp >= encoder[k.csid].timestamp}
  <2>1. /\ c \in MediaCsids /\ m.timestamp \in Times /\ m.message_type = MSG_VIDEO
        /\ m.stream_id = 1 /\ \E n \in Lengths : m.payload = Words(number + 1, n)
        /\ m.timestamp >= e.timestamp
    BY <1>3
  <2>2. m.payload \in Seq(Word) /\ Len(m.payload) \in 1 .. Threshold
    BY <1>0, <1>1, <2>1
  <2>3. c \in DataCsids /\ c \in Csids /\ IsCsid(c)
    BY <2>1, CsidFacts DEF DataCsids
  <2>4. m.timestamp \in 0 .. TimeModulus - 1 /\ m.timestamp < Threshold /\ m.timestamp \in Nat
    <3>1. m.timestamp \in 0 .. TimeModulus - 1
      BY <1>0, <2>1, Zenon
    <3>2. m.timestamp < Threshold
      BY <2>1, Zenon DEF Setting
    <3>3. m.timestamp \in Nat
      BY <1>0, <3>1
    <3> QED BY <3>1, <3>2, <3>3, Zenon
  <2>5. m \in Message
    <3>1. MSG_VIDEO \in Nat /\ 1 \in Nat
      BY DEF MSG_VIDEO
    <3> QED BY <1>3, <2>1, <2>2, <2>3, <2>4, <3>1 DEF Message
  <2>6. IsMessage(m)
    BY <2>1, <2>2, <2>3, <2>4 DEF IsMessage, MSG_VIDEO
  <2>7. SelectFormat(m, e) = 0 => e.timestamp = 0
    <3>1. CASE e = Fresh
      BY <3>1 DEF Fresh
    <3>2. CASE e # Fresh
      <4>1. e.stream_id = 1 /\ e.message_type = MSG_VIDEO
        BY <2>1, <3>2 DEF EncoderOK
      <4>2. SelectFormat(m, e) # 0
        BY <2>1, <4>1 DEF SelectFormat, MSG_VIDEO
      <4> QED BY <4>2
    <3> QED BY <3>1, <3>2
  <2>8. MayFollow(m, e)
    BY <2>1, <2>4, <2>6, <2>7 DEF MayFollow
  <2> QED BY <2>1, <2>3, <2>5, <2>8 DEF MSG_VIDEO, MSG_SET_CHUNK_SIZE, MSG_ABORT
<1> QED BY <1>2, <1>3 DEF Traffic

(* What the encoder remembers keeps its form.                              *)
LEMMA EncoderKept ==
    ASSUME EncoderOK, encoder \in [Csids -> StreamStates(Word)],
           NEW c \in Csids, NEW m, MayFollow(m, encoder[c]),
           c \notin MediaCsids => m.timestamp = 0,
           c \in MediaCsids => m.stream_id = 1 /\ m.message_type = MSG_VIDEO,
           encoder' = [encoder EXCEPT ![c] = Encoded(m, @)]
    PROVE  EncoderOK' /\ encoder' \in [Csids -> StreamStates(Word)]
<1>1. Encoded(m, encoder[c]) \in StreamStates(Word)
  BY EncodedIsState
<1>2. /\ Encoded(m, encoder[c]).timestamp = m.timestamp
      /\ Encoded(m, encoder[c]).message_type = m.message_type
      /\ Encoded(m, encoder[c]).stream_id = m.stream_id
  BY EncodedFields
<1> DEFINE n == Encoded(m, encoder[c])
<1>3. encoder' = [encoder EXCEPT ![c] = n]
  OBVIOUS
<1> HIDE DEF n
<1>4. encoder' \in [Csids -> StreamStates(Word)] /\ encoder'[c] = n
      /\ \A x \in Csids \ {c} : encoder'[x] = encoder[x]
  BY <1>1, <1>3 DEF n
<1>5. ASSUME NEW x \in Csids \ MediaCsids PROVE encoder'[x].timestamp = 0
  BY <1>2, <1>4 DEF EncoderOK, n
<1>6. ASSUME NEW x \in MediaCsids, encoder'[x] # Fresh
      PROVE  encoder'[x].stream_id = 1 /\ encoder'[x].message_type = MSG_VIDEO
  <2>1. x \in Csids
    BY DEF Csids, DataCsids
  <2> QED BY <1>2, <1>4, <1>6, <2>1 DEF EncoderOK, n
<1> QED BY <1>4, <1>5, <1>6 DEF EncoderOK

(* A message is encoded when nothing of its chunk stream is left to be     *)
(* written (encode).                                                       *)
LEMMA SendKeeps ==
    ASSUME Setting, IInv, NEW m \in Traffic, Send(m)
    PROVE  IInv'
<1>1. PICK h \in Nat, f \in View :
          Handshaken(h) /\ SenderOK(f) /\ Way(Rest(h), Now, f, sent)
  BY DEF IInv, OnTheWay
<1>2. Typed /\ EncoderOK /\ AnnouncedOK
  BY DEF IInv
<1> DEFINE c == m.csid
<1>0. PICK e \in StreamStates(Word) : e = encoder[c]
  <2>1. c \in Csids
    BY <1>2, TrafficFacts, CsidFacts
  <2> QED BY <1>2, <2>1 DEF Typed
<1> DEFINE d == f.decoder[c]
           all == Encode(m, e, out_size)
           n == ChunkCount(m, out_size)
<1>3. /\ CanSend /\ outbox[c] = << >>
      /\ encoder' = [encoder EXCEPT ![c] = Encoded(m, @)]
      /\ outbox' = [outbox EXCEPT ![c] = all]
      /\ number' = number + 1
      /\ sent' = [sent EXCEPT ![c] = Append(@, m)]
      /\ UNCHANGED <<state, wire, read_buf, out_size, decoder, in_size, reading, received, derailed>>
  BY <1>0 DEF Send, Put, receiverVars
<1>4. /\ m \in Message /\ c \in DataCsids /\ MayFollow(m, e)
      /\ m.message_type \notin {MSG_SET_CHUNK_SIZE, MSG_ABORT}
      /\ c \notin MediaCsids => m.timestamp = 0
      /\ c \in MediaCsids => m.stream_id = 1 /\ m.message_type = MSG_VIDEO
  BY <1>0, <1>2, TrafficFacts
<1>5. /\ state["client"] = "Done" /\ number < MaxMessages
  BY <1>3, SenderFacts
<1>6. /\ encoder \in [Csids -> StreamStates(Word)] /\ outbox \in [Csids -> Seq(Chunk)]
      /\ sent \in [DataCsids -> Seq(Message)] /\ out_size \in 1 .. MaxChunkSize
      /\ out_size \in Nat \ {0} /\ c \in Csids /\ c # CSID_PROTOCOL_CONTROL /\ DataCsids \subseteq Csids
      /\ CSID_PROTOCOL_CONTROL \in Csids
  BY <1>2, <1>4, CsidFacts, CodecAssumption DEF Typed
<1>7. all \in Seq(Chunk) /\ Len(all) = n /\ n \in Nat \ {0}
  BY <1>4, <1>6, EncodeIsChunks DEF MayFollow
<1>8. EncoderOK' /\ encoder' \in [Csids -> StreamStates(Word)]
  BY <1>0, <1>2, <1>3, <1>4, <1>6, EncoderKept
<1> HIDE DEF all, n
<1>9. /\ outbox' \in [Csids -> Seq(Chunk)] /\ outbox'[c] = all
      /\ \A x \in Csids \ {c} : outbox'[x] = outbox[x] /\ encoder'[x] = encoder[x]
      /\ encoder'[c] = Encoded(m, e)
      /\ sent' \in [DataCsids -> Seq(Message)] /\ sent'[c] = Append(sent[c], m)
      /\ \A x \in DataCsids \ {c} : sent'[x] = sent[x]
  <2>1. Append(sent[c], m) \in Seq(Message)
    BY <1>4, <1>6
  <2> HIDE DEF c
  <2>2. outbox' \in [Csids -> Seq(Chunk)] /\ outbox'[c] = all
        /\ \A x \in Csids \ {c} : outbox'[x] = outbox[x]
    BY <1>3, <1>6, <1>7
  <2>3. encoder'[c] = Encoded(m, e) /\ \A x \in Csids \ {c} : encoder'[x] = encoder[x]
    BY <1>0, <1>3, <1>6
  <2>4. /\ sent' \in [DataCsids -> Seq(Message)] /\ sent'[c] = Append(sent[c], m)
        /\ \A x \in DataCsids \ {c} : sent'[x] = sent[x]
    BY <1>3, <1>4, <1>6, <2>1
  <2> QED BY <2>2, <2>3, <2>4
<1>10. Typed'
  <2>1. number' \in 0 .. MaxMessages
    <3>1. number \in Nat /\ MaxMessages \in Nat
      BY <1>2, TransportAssumption DEF Typed
    <3> QED BY <1>3, <1>5, <3>1
  <2> QED BY <1>2, <1>3, <1>8, <1>9, <2>1 DEF Typed
<1>11. outbox'[CSID_PROTOCOL_CONTROL] = outbox[CSID_PROTOCOL_CONTROL]
  BY <1>6, <1>9
<1>12. AnnouncedOK' /\ Announced' = Announced
  BY <1>2, <1>11 DEF AnnouncedOK, Announced
<1>13. Quiet(c, outbox[c], f)
  <2>1. ~Busy(c, outbox[c], f)
    BY <1>3, <1>6, BusyHasChunks
  <2> QED BY <1>1, <1>4, <2>1 DEF SenderOK
<1>14. Busy(c, outbox[c], f)'
  <2>1. /\ f.count[c] = Len(sent[c]) /\ Synced(e, d) /\ d.partial_message = << >>
    BY <1>0, <1>13 DEF Quiet
  <2>2. sent'[c] # << >> /\ f.count[c] + 1 = Len(sent'[c]) /\ Last(sent'[c]) = m
    <3> DEFINE q == sent[c]
    <3>1. q \in Seq(Message) /\ m \in Message
      BY <1>4, <1>6
    <3> HIDE DEF q
    <3>2. /\ Append(q, m) # << >> /\ Len(Append(q, m)) = Len(q) + 1
          /\ Append(q, m)[Len(q) + 1] = m
      BY <3>1, AppendProperties
    <3>3. Last(Append(q, m)) = m
      BY <3>2 DEF Last
    <3> QED BY <1>9, <2>1, <3>2, <3>3 DEF q
  <2>3. Remaining(c, outbox[c], f, Last(sent[c]), e, 1)'
    <3>1. all = SubSeq(all, 1, n)
      BY <1>7, SubSeqFull
    <3>2. 1 \in 1 .. n
      BY <1>7
    <3>3. ReadyFor(1, m, e, out_size, d)
      BY <2>1 DEF ReadyFor
    <3>4. out_size' = out_size
      BY <1>3
    <3>5. /\ encoder'[c] \in {Encoded(m, e), Fresh} /\ 1 \in 1 .. ChunkCount(m, out_size')
          /\ outbox'[c] = SubSeq(Encode(m, e, out_size'), 1, ChunkCount(m, out_size'))
          /\ ReadyFor(1, m, e, out_size', d)
      BY <1>9, <3>1, <3>2, <3>3, <3>4 DEF all, n
    <3> HIDE DEF c
    <3> QED BY <1>4, <2>2, <3>5 DEF Remaining
  <2>4. \E x \in StreamStates(Word), i \in Nat : Remaining(c, outbox[c], f, Last(sent[c]), x, i)'
    BY <2>3
  <2>5. m.csid = c
    OBVIOUS
  <2> HIDE DEF c, d
  <2> QED BY <1>4, <2>2, <2>4, <2>5 DEF Busy
<1>15. SenderOK(f)'
  <2>1. ASSUME NEW x \in DataCsids \ {c}
        PROVE  Quiet(x, outbox[x], f)' \/ Busy(x, outbox[x], f)'
    <3>1. /\ x \in DataCsids /\ encoder'[x] \in {encoder[x], Fresh} /\ outbox'[x] = outbox[x]
          /\ sent'[x] = sent[x] /\ out_size' = out_size
      BY <1>3, <1>6, <1>9
    <3>2. Quiet(x, outbox[x], f) \/ Busy(x, outbox[x], f)
      BY <1>1 DEF SenderOK
    <3> HIDE DEF c
    <3> QED BY <3>1, <3>2, StreamKept
  <2>2. f.size = out_size' /\ encoder'[CSID_PROTOCOL_CONTROL] = encoder[CSID_PROTOCOL_CONTROL]
    BY <1>1, <1>3, <1>6, <1>9 DEF SenderOK
  <2> HIDE DEF c
  <2> QED BY <1>1, <1>14, <2>1, <2>2 DEF SenderOK
<1>16. Way(Rest(h), Now, f, sent')
  <2>1. ASSUME NEW x \in DataCsids, NEW j \in 1 .. f.count[x], j <= Len(sent[x])
        PROVE  j <= Len(sent'[x]) /\ sent'[x][j] = sent[x][j]
    <3> DEFINE q == sent[x]
    <3>1. q \in Seq(Message) /\ j \in 1 .. Len(q)
      <4>1. q \in Seq(Message) /\ f.count[x] \in Nat
        BY <1>6 DEF View
      <4> HIDE DEF q
      <4> QED BY <4>1, <2>1 DEF q
    <3>2. sent'[x] \in {q, Append(q, m)}
      BY <1>9
    <3> HIDE DEF q
    <3>3. Len(Append(q, m)) = Len(q) + 1 /\ Append(q, m)[j] = q[j]
      BY <1>4, <3>1, AppendProperties
    <3> QED BY <3>1, <3>2, <3>3 DEF q
  <2> QED BY <1>1, <2>1, WayOtherwise
<1>17. Way(SubSeq(Pipe, h + 1, Len(Pipe)) \o Announced', Now, f, sent')
  BY <1>12, <1>16 DEF Rest
<1> QED BY <1>1, <1>3, <1>5, <1>8, <1>10, <1>12, <1>15, <1>17, SenderKeeps

(* A control message that is encoded when none is to be written leads from *)
(* the view f to one that has obeyed it.                                   *)
Announces(type, value, h, f) ==
    \E g \in View :
        /\ Way(SubSeq(Pipe, h + 1, Len(Pipe)) \o Announced', Now, g, sent)
        /\ g.count = f.count
        /\ g.size = IF type = MSG_SET_CHUNK_SIZE THEN ChunkSize(value) ELSE f.size
        /\ Synced(encoder'[CSID_PROTOCOL_CONTROL], g.decoder[CSID_PROTOCOL_CONTROL])
        /\ g.decoder[CSID_PROTOCOL_CONTROL].partial_message = << >>
        /\ \A c \in DataCsids :
               g.decoder[c] = IF type = MSG_ABORT /\ c = value THEN Emptied(f.decoder[c])
                              ELSE f.decoder[c]

(* A control message goes out as one chunk, which is announced at once.    *)
LEMMA ControlAnnounced ==
    ASSUME Setting, Typed, EncoderOK, NEW type \in {MSG_SET_CHUNK_SIZE, MSG_ABORT},
           NEW value \in Nat \ {0}, type = MSG_ABORT => value \in DataCsids,
           NEW h \in Nat, NEW f \in View, SenderOK(f), Way(Rest(h), Now, f, sent),
           outbox[CSID_PROTOCOL_CONTROL] = << >>,
           encoder' = [encoder EXCEPT ![CSID_PROTOCOL_CONTROL] = Encoded(Control(type, value), @)],
           outbox'[CSID_PROTOCOL_CONTROL] =
               Encode(Control(type, value), encoder[CSID_PROTOCOL_CONTROL], out_size)
    PROVE  /\ EncoderOK' /\ AnnouncedOK' /\ Announces(type, value, h, f)
           /\ encoder' \in [Csids -> StreamStates(Word)]
           /\ \A c \in DataCsids : encoder'[c] = encoder[c]
           /\ outbox'[CSID_PROTOCOL_CONTROL] \in Seq(Chunk)
<1> DEFINE p == CSID_PROTOCOL_CONTROL
           m == Control(type, value)
<1>1. /\ p \in Csids /\ p \notin MediaCsids /\ p \notin DataCsids /\ DataCsids \subseteq Csids
  BY CsidFacts
<1>2. encoder \in [Csids -> StreamStates(Word)]
  BY DEF Typed
<1>3. PICK e \in StreamStates(Word) : e = encoder[p]
  BY <1>1, <1>2
<1>4. e.timestamp = 0
  BY <1>1, <1>3 DEF EncoderOK
<1>5. /\ m \in Message /\ IsMessage(m) /\ m.timestamp = 0 /\ m.csid = p
  BY ControlIsMessage, Zenon
<1>6. MayFollow(m, e)
  <2> HIDE DEF m
  <2> QED BY <1>4, <1>5, CodecAssumption DEF MayFollow
<1> HIDE DEF m
<1>7. EncoderOK' /\ encoder' \in [Csids -> StreamStates(Word)]
  BY <1>1, <1>2, <1>3, <1>5, <1>6, EncoderKept DEF m
<1>8. encoder'[p] = Encoded(m, e) /\ \A c \in DataCsids : encoder'[c] = encoder[c]
  <2> DEFINE n == Encoded(m, e)
  <2>1. encoder' = [encoder EXCEPT ![p] = n]
    BY <1>3 DEF m
  <2> HIDE DEF n
  <2>2. encoder'[p] = n /\ \A c \in DataCsids : encoder'[c] = encoder[c]
    BY <1>1, <1>2, <2>1
  <2> QED BY <2>2 DEF n
<1>9. f.size = out_size /\ Synced(e, f.decoder[p]) /\ f.decoder[p].partial_message = << >>
  BY <1>3 DEF SenderOK
<1>10. Obeyed(type, value, e, f, sent)
  BY <1>4, <1>9, ControlObeyed
<1> DEFINE all == Encode(m, e, f.size)
           k == all[1]
           g == After(k, f)
<1>11. /\ all \in Seq(Chunk) /\ Len(all) = 1
       /\ k \in Chunk /\ Csid(k.header.basic) = p
       /\ Readable(k, f, sent) /\ g \in View
       /\ g.count = f.count
       /\ g.size = IF type = MSG_SET_CHUNK_SIZE THEN ChunkSize(value) ELSE f.size
       /\ Synced(Encoded(m, e), g.decoder[p]) /\ g.decoder[p].partial_message = << >>
       /\ \A c \in DataCsids :
               g.decoder[c] = IF type = MSG_ABORT /\ c = value THEN Emptied(f.decoder[c])
                              ELSE f.decoder[c]
  BY <1>10, Zenon DEF Obeyed, m
<1>12. outbox'[p] = all
  BY <1>3, <1>9 DEF m
<1> HIDE DEF all
<1>13. outbox'[p] # << >>
  <2>1. all \in Seq(Chunk) /\ Len(all) = 1
    BY <1>11, Zenon
  <2>2. Len(<< >>) = 0
    OBVIOUS
  <2>3. all = << >> => Len(all) = Len(<< >>)
    BY Zenon
  <2>4. all # << >>
    BY <2>1, <2>2, <2>3
  <2> QED BY <1>12, <2>4, Zenon
<1>14. Announced' = Units(k) /\ AnnouncedOK'
  BY <1>11, <1>12, <1>13 DEF Announced, AnnouncedOK
<1> HIDE DEF k
<1>15. Way(SubSeq(Pipe, h + 1, Len(Pipe)) \o Units(k), Now, g, sent)
  <2> DEFINE U == SubSeq(Pipe, h + 1, Len(Pipe))
  <2>1. Rest(h) = U
    <3>1. Announced = << >>
      BY DEF Announced
    <3>2. U \in Seq(Unit)
      <4> DEFINE P == Pipe
      <4>1. P \in Seq(Unit)
        BY PipeFacts, Zenon
      <4> HIDE DEF P
      <4>2. SubSeq(P, h + 1, Len(P)) \in Seq(Unit)
        BY <4>1
      <4> QED BY <4>2 DEF P
    <3> HIDE DEF U
    <3>3. U \o << >> = U
      BY <3>2
    <3> QED BY <3>1, <3>3 DEF Rest, U
  <2>2. Way(U, Now, f, sent)
    BY <2>1
  <2>3. \A c \in DataCsids : f.count[c] <= g.count[c]
    <3>1. \A c \in DataCsids : f.count[c] \in Nat
      BY DEF View
    <3> QED BY <1>11, <3>1
  <2> HIDE DEF U
  <2>4. Way(U \o Units(k), Now, g, sent)
    BY <1>11, <2>2, <2>3, WayTail
  <2> QED BY <2>4 DEF U
<1>16. Announces(type, value, h, f)
  <2> HIDE DEF g
  <2> QED BY <1>8, <1>11, <1>14, <1>15 DEF Announces
<1>17. outbox'[p] \in Seq(Chunk)
  BY <1>11, <1>12
<1> QED BY <1>7, <1>8, <1>14, <1>16, <1>17

(* The new size is announced between messages and holds for all that is    *)
(* encoded after it (set_chunk_size).                                      *)
LEMMA SendSetChunkSizeKeeps ==
    ASSUME Setting, IInv, NEW size \in ChunkSizes, SendSetChunkSize(size)
    PROVE  IInv'
<1>1. PICK h \in Nat, f \in View :
          Handshaken(h) /\ SenderOK(f) /\ Way(Rest(h), Now, f, sent)
  BY DEF IInv, OnTheWay
<1>2. Typed /\ EncoderOK /\ AnnouncedOK
  BY DEF IInv
<1> DEFINE p == CSID_PROTOCOL_CONTROL
           m == Control(MSG_SET_CHUNK_SIZE, size)
           all == Encode(m, encoder[p], out_size)
<1>3. /\ CanSend /\ \A c \in Csids : outbox[c] = << >>
      /\ encoder' = [encoder EXCEPT ![p] = Encoded(m, @)]
      /\ outbox' = [outbox EXCEPT ![p] = all]
      /\ number' = number + 1
      /\ out_size' = ChunkSize(size)
      /\ UNCHANGED <<state, wire, read_buf, sent, decoder, in_size, reading, received, derailed>>
  <2>1. m.csid = p
    BY DEF Control
  <2> HIDE DEF m
  <2> QED BY <2>1 DEF SendSetChunkSize, Put, receiverVars, m
<1>4. size \in Nat \ {0}
  BY TransportAssumption
<1>5. /\ p \in Csids /\ p \notin DataCsids /\ DataCsids \subseteq Csids
  BY CsidFacts
<1>6. outbox \in [Csids -> Seq(Chunk)]
  BY <1>2 DEF Typed
<1> HIDE DEF m, all
<1>7. outbox'[p] = all /\ \A x \in DataCsids : outbox'[x] = outbox[x]
  BY <1>3, <1>5, <1>6
<1>8. /\ EncoderOK' /\ AnnouncedOK' /\ Announces(MSG_SET_CHUNK_SIZE, size, h, f)
      /\ encoder' \in [Csids -> StreamStates(Word)]
      /\ \A c \in DataCsids : encoder'[c] = encoder[c]
      /\ outbox'[p] \in Seq(Chunk)
  <2>1. MSG_SET_CHUNK_SIZE \in {MSG_SET_CHUNK_SIZE, MSG_ABORT} /\ MSG_SET_CHUNK_SIZE # MSG_ABORT
    BY DEF MSG_SET_CHUNK_SIZE, MSG_ABORT
  <2>2. outbox[p] = << >> /\ outbox'[p] = Encode(m, encoder[p], out_size)
    BY <1>3, <1>5, <1>7 DEF all
  <2> QED BY <1>1, <1>2, <1>3, <1>4, <2>1, <2>2, ControlAnnounced DEF m
<1>9. PICK g \in View :
          /\ Way(SubSeq(Pipe, h + 1, Len(Pipe)) \o Announced', Now, g, sent)
          /\ g.count = f.count /\ g.size = ChunkSize(size)
          /\ Synced(encoder'[p], g.decoder[p]) /\ g.decoder[p].partial_message = << >>
          /\ \A c \in DataCsids : g.decoder[c] = f.decoder[c]
  <2>1. MSG_SET_CHUNK_SIZE # MSG_ABORT
    BY DEF MSG_SET_CHUNK_SIZE, MSG_ABORT
  <2> QED BY <1>8, <2>1, Zenon DEF Announces
<1>10. state["client"] = "Done" /\ number < MaxMessages
  BY <1>3, SenderFacts
<1>11. Typed'
  <2>1. number' \in 0 .. MaxMessages
    <3>1. number \in Nat /\ MaxMessages \in Nat
      BY <1>2, TransportAssumption DEF Typed
    <3> QED BY <1>3, <1>10, <3>1
  <2>2. ChunkSize(size) \in 1 .. MaxChunkSize
    BY <1>4, CodecAssumption DEF ChunkSize, AtMost
  <2>3. outbox' \in [Csids -> Seq(Chunk)]
    BY <1>3, <1>5, <1>6, <1>7, <1>8
  <2> QED BY <1>2, <1>3, <1>8, <2>1, <2>2, <2>3 DEF Typed
<1>12. SenderOK(g)'
  <2>1. ASSUME NEW c \in DataCsids PROVE Quiet(c, outbox[c], g)'
    <3>1. outbox[c] = << >> /\ out_size \in 1 .. MaxChunkSize
      BY <1>2, <1>3, <1>5 DEF Typed
    <3>2. Quiet(c, outbox[c], f)
      BY <1>1, <3>1, BusyHasChunks DEF SenderOK
    <3>3. /\ encoder'[c] = encoder[c] /\ sent' = sent /\ outbox'[c] = outbox[c]
          /\ g.decoder[c] = f.decoder[c] /\ g.count = f.count
      BY <1>3, <1>7, <1>8, <1>9
    <3> QED BY <3>2, <3>3 DEF Quiet
  <2>2. g.size = out_size'
    BY <1>3, <1>9
  <2> QED BY <1>9, <2>1, <2>2 DEF SenderOK
<1>13. Way(SubSeq(Pipe, h + 1, Len(Pipe)) \o Announced', Now, g, sent')
  BY <1>3, <1>9
<1> QED BY <1>1, <1>3, <1>8, <1>10, <1>11, <1>12, <1>13, SenderKeeps

(* The encoder forgets, which costs a long header and nothing else (reset). *)
LEMMA ResetKeeps ==
    ASSUME Setting, IInv, Reset
    PROVE  IInv'
<1>1. PICK h \in Nat, f \in View :
          Handshaken(h) /\ SenderOK(f) /\ Way(Rest(h), Now, f, sent)
  BY DEF IInv, OnTheWay
<1>2. Typed /\ EncoderOK /\ AnnouncedOK
  BY DEF IInv
<1>3. /\ CanSend /\ encoder' = [c \in Csids |-> Fresh] /\ number' = number + 1
      /\ UNCHANGED <<state, wire, read_buf, out_size, outbox, sent, decoder, in_size, reading,
                     received, derailed>>
  BY DEF Reset, receiverVars
<1>4. state["client"] = "Done" /\ number < MaxMessages
  BY <1>3, SenderFacts
<1>5. encoder' \in [Csids -> StreamStates(Word)] /\ \A c \in Csids : encoder'[c] = Fresh
  BY <1>3, FreshIsState
<1>6. Typed'
  <2>1. number' \in 0 .. MaxMessages
    <3>1. number \in Nat /\ MaxMessages \in Nat
      BY <1>2, TransportAssumption DEF Typed
    <3> QED BY <1>3, <1>4, <3>1
  <2> QED BY <1>2, <1>3, <1>5, <2>1 DEF Typed
<1>7. EncoderOK'
  <2>1. Fresh.timestamp = 0 /\ MediaCsids \subseteq Csids
    BY DEF Fresh, Csids, DataCsids
  <2> QED BY <1>5, <2>1 DEF EncoderOK
<1>8. AnnouncedOK' /\ Announced' = Announced
  BY <1>2, <1>3 DEF AnnouncedOK, Announced
<1>9. SenderOK(f)'
  <2>1. ASSUME NEW x \in DataCsids
        PROVE  Quiet(x, outbox[x], f)' \/ Busy(x, outbox[x], f)'
    <3>1. encoder'[x] \in {encoder[x], Fresh} /\ outbox'[x] = outbox[x] /\ sent'[x] = sent[x]
          /\ out_size' = out_size
      BY <1>3, <1>5, CsidFacts
    <3>2. Quiet(x, outbox[x], f) \/ Busy(x, outbox[x], f)
      BY <1>1 DEF SenderOK
    <3> QED BY <3>1, <3>2, StreamKept
  <2>2. Synced(encoder'[CSID_PROTOCOL_CONTROL], f.decoder[CSID_PROTOCOL_CONTROL])
    BY <1>5, CsidFacts DEF Synced
  <2> QED BY <1>1, <1>3, <2>1, <2>2 DEF SenderOK
<1>10. Way(SubSeq(Pipe, h + 1, Len(Pipe)) \o Announced', Now, f, sent')
  BY <1>1, <1>3, <1>8 DEF Rest
<1> QED BY <1>1, <1>3, <1>4, <1>6, <1>7, <1>8, <1>9, <1>10, SenderKeeps

(* A message of which chunks are out can be given up: what the receiver    *)
(* has of it goes, and what both ends remember of its header stays.        *)
LEMMA GivenUp ==
    ASSUME NEW c \in DataCsids, NEW box, NEW f \in View, Busy(c, box, f),
           out_size \in 1 .. MaxChunkSize, Head(box).number > 1
    PROVE  /\ Synced(encoder[c], Emptied(f.decoder[c]))
           /\ Emptied(f.decoder[c]).partial_message = << >>
<1> DEFINE m == Last(sent[c])
           n == ChunkCount(m, out_size)
           d == f.decoder[c]
<1>1. PICK e \in StreamStates(Word), i \in Nat : Remaining(c, box, f, m, e, i)
  BY DEF Busy
<1> DEFINE all == Encode(m, e, out_size)
<1>2. /\ i \in 1 .. n /\ box = SubSeq(all, i, n) /\ m \in Message /\ MayFollow(m, e)
      /\ ReadyFor(i, m, e, out_size, d) /\ encoder[c] \in {Encoded(m, e), Fresh}
  BY <1>1 DEF Remaining, Busy
<1>3. all \in Seq(Chunk) /\ Len(all) = n /\ n \in Nat
  <2>1. out_size \in Nat \ {0}
    BY CodecAssumption
  <2> QED BY <1>2, <2>1, EncodeIsChunks DEF MayFollow
<1>4. all[i].number = i
  <2> HIDE DEF m
  <2> QED BY <1>2 DEF Encode
<1> HIDE DEF n, all
<1>5. Head(box) = all[i]
  <2>1. i \in 1 .. Len(all) /\ n \in i .. Len(all)
    BY <1>2, <1>3
  <2> QED BY <1>2, <1>3, <2>1, HeadTailOfSubSeq
<1>6. i # 1
  BY <1>4, <1>5
<1> HIDE DEF m
<1>7. Agree(Encoded(m, e), d)
  BY <1>2, <1>6 DEF ReadyFor
<1>8. d \in StreamStates(Word)
  BY CsidFacts DEF View
<1> HIDE DEF d
<1>9. Agree(Encoded(m, e), Emptied(d)) /\ Emptied(d).partial_message = << >>
  BY <1>7, <1>8 DEF Agree, Emptied, StreamStates
<1>10. Synced(encoder[c], Emptied(d))
  BY <1>2, <1>9 DEF Synced
<1> QED BY <1>9, <1>10 DEF d

(* Another implementation gives up a message: its abort is announced, and  *)
(* the message is no longer sent.                                          *)
LEMMA SendAbortKeeps ==
    ASSUME Setting, IInv, NEW c \in DataCsids, SendAbort(c)
    PROVE  IInv'
<1>1. PICK h \in Nat, f \in View :
          Handshaken(h) /\ SenderOK(f) /\ Way(Rest(h), Now, f, sent)
  BY DEF IInv, OnTheWay
<1>2. Typed /\ EncoderOK /\ AnnouncedOK
  BY DEF IInv
<1> DEFINE p == CSID_PROTOCOL_CONTROL
           m == Control(MSG_ABORT, c)
           all == Encode(m, encoder[p], out_size)
<1>3. /\ CanSend /\ outbox[p] = << >> /\ outbox[c] # << >> /\ Head(outbox[c]).number > 1
      /\ encoder' = [encoder EXCEPT ![p] = Encoded(m, @)]
      /\ outbox' = [outbox EXCEPT ![p] = all, ![c] = << >>]
      /\ number' = number + 1
      /\ sent' = [sent EXCEPT ![c] = Front(@)]
      /\ UNCHANGED <<state, wire, read_buf, out_size, decoder, in_size, reading, received, derailed>>
  <2>1. m.csid = p
    BY DEF Control
  <2> HIDE DEF m
  <2> QED BY <2>1 DEF SendAbort, receiverVars, m
<1>4. /\ p \in Csids /\ p \notin DataCsids /\ DataCsids \subseteq Csids /\ c \in Csids
      /\ c # p /\ c \in Nat \ {0}
  <2>1. c \in Nat /\ c # 0
    BY CsidFacts DEF IsCsid
  <2> QED BY <2>1, CsidFacts
<1>5. /\ outbox \in [Csids -> Seq(Chunk)] /\ sent \in [DataCsids -> Seq(Message)]
      /\ out_size \in 1 .. MaxChunkSize /\ outbox[c] \in Seq(Chunk)
  BY <1>2, <1>4 DEF Typed
<1> HIDE DEF m, all
<1>6. /\ outbox'[p] = all /\ outbox'[c] = << >>
      /\ \A x \in DataCsids \ {c} : outbox'[x] = outbox[x] /\ sent'[x] = sent[x]
      /\ sent'[c] = Front(sent[c])
  <2> HIDE DEF p
  <2> QED BY <1>3, <1>4, <1>5
<1>7. /\ EncoderOK' /\ AnnouncedOK' /\ Announces(MSG_ABORT, c, h, f)
      /\ encoder' \in [Csids -> StreamStates(Word)]
      /\ \A x \in DataCsids : encoder'[x] = encoder[x]
      /\ outbox'[p] \in Seq(Chunk)
  <2>1. MSG_ABORT \in {MSG_SET_CHUNK_SIZE, MSG_ABORT}
    OBVIOUS
  <2>2. outbox[p] = << >> /\ outbox'[p] = Encode(m, encoder[p], out_size)
    BY <1>3, <1>6 DEF all
  <2> QED BY <1>1, <1>2, <1>3, <1>4, <2>1, <2>2, ControlAnnounced DEF m
<1>8. PICK g \in View :
          /\ Way(SubSeq(Pipe, h + 1, Len(Pipe)) \o Announced', Now, g, sent)
          /\ g.count = f.count /\ g.size = f.size
          /\ Synced(encoder'[p], g.decoder[p]) /\ g.decoder[p].partial_message = << >>
          /\ \A x \in DataCsids \ {c} : g.decoder[x] = f.decoder[x]
          /\ g.decoder[c] = Emptied(f.decoder[c])
  <2>1. MSG_SET_CHUNK_SIZE # MSG_ABORT
    BY DEF MSG_SET_CHUNK_SIZE, MSG_ABORT
  <2>2. \A x \in DataCsids \ {c} : x \in DataCsids /\ x # c
    OBVIOUS
  <2> QED BY <1>7, <2>1, <2>2, Zenon DEF Announces
<1>9. Busy(c, outbox[c], f)
  BY <1>1, <1>3 DEF SenderOK, Quiet
<1>10. Synced(encoder[c], Emptied(f.decoder[c])) /\ Emptied(f.decoder[c]).partial_message = << >>
  BY <1>3, <1>5, <1>9, GivenUp
<1> DEFINE q == sent[c]
<1>11. q \in Seq(Message) /\ q # << >> /\ f.count[c] + 1 = Len(q) /\ f.count[c] \in Nat
  BY <1>5, <1>9 DEF Busy, View
<1> HIDE DEF q
<1>12. /\ Front(q) \in Seq(Message) /\ Len(Front(q)) = f.count[c]
       /\ \A j \in 1 .. f.count[c] : Front(q)[j] = q[j]
  <2>1. Front(q) = SubSeq(q, 1, Len(q) - 1)
    BY DEF Front
  <2>2. Len(q) - 1 = f.count[c] /\ f.count[c] \in 0 .. Len(q)
    BY <1>11
  <2> QED BY <1>11, <2>1, <2>2
<1>13. state["client"] = "Done" /\ number < MaxMessages
  BY <1>3, SenderFacts
<1>14. Typed'
  <2>1. number' \in 0 .. MaxMessages
    <3>1. number \in Nat /\ MaxMessages \in Nat
      BY <1>2, TransportAssumption DEF Typed
    <3> QED BY <1>3, <1>13, <3>1
  <2>2. sent' \in [DataCsids -> Seq(Message)]
    BY <1>3, <1>5, <1>12 DEF q
  <2>3. outbox' \in [Csids -> Seq(Chunk)]
    <3>1. all \in Seq(Chunk) /\ << >> \in Seq(Chunk)
      BY <1>6, <1>7
    <3> QED BY <1>3, <1>5, <3>1
  <2> QED BY <1>2, <1>3, <1>7, <2>1, <2>2, <2>3 DEF Typed
<1>15. SenderOK(g)'
  <2>1. Quiet(c, outbox[c], g)'
    <3>1. /\ encoder'[c] = encoder[c] /\ sent'[c] = Front(q) /\ outbox'[c] = << >>
          /\ g.decoder[c] = Emptied(f.decoder[c]) /\ g.count = f.count
      BY <1>6, <1>7, <1>8 DEF q
    <3> QED BY <1>10, <1>12, <3>1 DEF Quiet
  <2>2. ASSUME NEW x \in DataCsids \ {c}
        PROVE  Quiet(x, outbox[x], g)' \/ Busy(x, outbox[x], g)'
    <3>1. /\ encoder'[x] \in {encoder[x], Fresh} /\ outbox'[x] = outbox[x] /\ sent'[x] = sent[x]
          /\ out_size' = out_size /\ g.decoder[x] = f.decoder[x] /\ g.count[x] = f.count[x]
      BY <1>3, <1>6, <1>7, <1>8
    <3>2. Quiet(x, outbox[x], f) \/ Busy(x, outbox[x], f)
      BY <1>1 DEF SenderOK
    <3> QED BY <3>1, <3>2, StreamKept
  <2>3. g.size = out_size'
    BY <1>1, <1>3, <1>8 DEF SenderOK
  <2> QED BY <1>8, <2>1, <2>2, <2>3 DEF SenderOK
<1>16. Way(SubSeq(Pipe, h + 1, Len(Pipe)) \o Announced', Now, g, sent')
  <2>1. ASSUME NEW x \in DataCsids, NEW j \in 1 .. g.count[x], j <= Len(sent[x])
        PROVE  j <= Len(sent'[x]) /\ sent'[x][j] = sent[x][j]
    <3>1. CASE x = c
      <4>1. j \in 1 .. f.count[c] /\ sent'[x] = Front(q) /\ sent[x] = q
        BY <1>6, <1>8, <3>1 DEF q
      <4> QED BY <1>12, <4>1
    <3>2. CASE x # c
      BY <1>6, <2>1, <3>2
    <3> QED BY <3>1, <3>2
  <2> QED BY <1>8, <2>1, WayOtherwise
<1> QED BY <1>1, <1>3, <1>7, <1>13, <1>14, <1>15, <1>16, SenderKeeps

(* A chunk that goes out goes into the pipe: that of a control message was *)
(* announced, any other takes the view one step further.                   *)
LEMMA WriteKeeps ==
    ASSUME Setting, IInv, NEW c \in Csids, Write(c)
    PROVE  IInv'
<1>1. PICK h \in Nat, f \in View :
          Handshaken(h) /\ SenderOK(f) /\ Way(Rest(h), Now, f, sent)
  BY DEF IInv, OnTheWay
<1>2. Typed /\ EncoderOK /\ AnnouncedOK
  BY DEF IInv
<1> DEFINE p == CSID_PROTOCOL_CONTROL
           chunk == Head(outbox[c])
           w == Units(chunk)
           U == SubSeq(Pipe, h + 1, Len(Pipe))
<1>3. /\ outbox[c] # << >>
      /\ c = p \/ outbox[p] = << >>
      /\ wire' = [wire EXCEPT !["server"] = @ \o w]
      /\ outbox' = [outbox EXCEPT ![c] = Tail(@)]
      /\ UNCHANGED <<state, read_buf, encoder, out_size, number, sent, decoder, in_size, reading,
                     received, derailed>>
  BY DEF Write, receiverVars, Setting
<1>4. /\ outbox \in [Csids -> Seq(Chunk)] /\ wire \in [Roles -> Seq(Unit)]
      /\ p \in Csids /\ p \notin DataCsids /\ DataCsids \subseteq Csids
      /\ out_size \in 1 .. MaxChunkSize /\ sent \in [DataCsids -> Seq(Message)]
  BY <1>2, CsidFacts DEF Typed
<1>5. chunk \in Chunk /\ Tail(outbox[c]) \in Seq(Chunk)
  <2> DEFINE b == outbox[c]
  <2>1. b \in Seq(Chunk) /\ b # << >>
    BY <1>3, <1>4
  <2> HIDE DEF b
  <2>2. Head(b) \in Chunk /\ Tail(b) \in Seq(Chunk)
    BY <2>1, HeadTailProperties
  <2> QED BY <2>2 DEF b
<1> HIDE DEF chunk
<1>6. w \in Seq(Unit) /\ w \in Seq(ChunkUnit)
  <2>1. w \in Seq(ChunkUnit)
    BY <1>5, UnitsNotEmpty
  <2>2. ChunkUnit \subseteq Unit
    BY DEF Unit
  <2> HIDE DEF w
  <2> QED BY <2>1, <2>2
<1> HIDE DEF w
<1>7. /\ outbox' \in [Csids -> Seq(Chunk)] /\ outbox'[c] = Tail(outbox[c])
      /\ \A x \in Csids \ {c} : outbox'[x] = outbox[x]
  BY <1>3, <1>4, <1>5
<1>8. /\ wire' \in [Roles -> Seq(Unit)] /\ wire'["client"] = wire["client"]
      /\ wire'["server"] = wire["server"] \o w
  <2>1. wire["server"] \o w \in Seq(Unit)
    <3> DEFINE b == wire["server"]
    <3>1. b \in Seq(Unit)
      BY <1>4 DEF Roles
    <3> HIDE DEF b
    <3>2. b \o w \in Seq(Unit)
      BY <1>6, <3>1, Joined
    <3> QED BY <3>2 DEF b
  <2> QED BY <1>3, <1>4, <2>1 DEF Roles
<1>9. /\ Pipe' = Pipe \o w /\ Len(Pipe') = Len(Pipe) + Len(w)
      /\ \A i \in 1 .. Len(Pipe) : Pipe'[i] = Pipe[i]
  <2>1. read_buf'["server"] = read_buf["server"]
    BY <1>3
  <2> QED BY <1>2, <1>6, <1>8, <2>1, PipeGrows
<1>10. Pipe \in Seq(Unit) /\ Len(Pipe) \in Nat /\ h \in 0 .. Len(Pipe)
  <2>1. Pipe \in Seq(Unit) /\ Len(Pipe) \in Nat
    BY <1>2, PipeFacts, Zenon
  <2> QED BY <1>1, <2>1 DEF Handshaken
<1>11. SubSeq(Pipe', h + 1, Len(Pipe')) = U \o w /\ U \in Seq(Unit)
  <2> DEFINE P == Pipe
  <2>1. P \in Seq(Unit) /\ h \in 0 .. Len(P)
    BY <1>10
  <2> HIDE DEF P
  <2>2. SubSeq(P, h + 1, Len(P)) \o w = SubSeq(P \o w, h + 1, Len(P \o w))
        /\ SubSeq(P, h + 1, Len(P)) \in Seq(Unit)
    <3>1. SubSeq(P, h + 1, Len(P)) \o w = SubSeq(P \o w, h + 1, Len(P \o w))
      BY <1>6, <2>1, DropFromJoined
    <3>2. SubSeq(P, h + 1, Len(P)) \in Seq(Unit)
      BY <2>1
    <3> QED BY <3>1, <3>2
  <2> QED BY <1>9, <2>2 DEF P
<1>12. state["client"] = "Done"
  BY <1>1, <1>3 DEF Handshaken
<1>13. Handshaken(h)'
  <2>1. h \in 0 .. Len(Pipe') /\ \A i \in 1 .. h : Pipe'[i] = Pipe[i]
    <3> DEFINE x == Len(Pipe)
               y == Len(w)
    <3>1. x \in Nat /\ y \in Nat /\ h \in 0 .. x /\ Len(Pipe') = x + y
          /\ \A i \in 1 .. x : Pipe'[i] = Pipe[i]
      BY <1>6, <1>9, <1>10
    <3> HIDE DEF x, y
    <3> QED BY <3>1
  <2> QED BY <1>1, <1>3, <1>12, <2>1 DEF Handshaken
<1>14. ClientReads' /\ DryWhileWaiting' /\ EncoderOK' /\ Now' = Now
  <2>1. ClientReads /\ DryWhileWaiting
    BY DEF IInv
  <2>2. DryWhileWaiting'
    BY <1>3, <2>1, DryKept
  <2> QED BY <1>2, <1>3, <1>8, <2>1, <2>2 DEF ClientReads, EncoderOK, Now
<1>15. Typed'
  BY <1>2, <1>3, <1>7, <1>8 DEF Typed
<1> SUFFICES AnnouncedOK' /\ \E g \in View : SenderOK(g)' /\ Way(Rest(h)', Now, g, sent')
  BY <1>13, <1>14, <1>15 DEF IInv, OnTheWay
<1> HIDE DEF U
<1>16. CASE c = p
  <2>1. Len(outbox[p]) = 1 /\ chunk = outbox[p][1] /\ Announced = w
    <3>1. outbox[p] # << >>
      BY <1>3, <1>16
    <3>2. Head(outbox[p]) = outbox[p][1]
      OBVIOUS
    <3> QED BY <1>2, <1>16, <3>1, <3>2 DEF AnnouncedOK, Announced, chunk, w
  <2>2. outbox'[p] = << >>
    <3> DEFINE b == outbox[p]
    <3>1. b \in Seq(Chunk) /\ Len(b) = 1
      BY <1>4, <2>1
    <3> HIDE DEF b
    <3>2. Tail(b) = SubSeq(b, 2, Len(b))
      BY <3>1, TailIsSubSeq
    <3>3. Tail(b) = << >>
      BY <3>1, <3>2, SubSeqEmpty
    <3> QED BY <1>7, <1>16, <3>3 DEF b
  <2>3. AnnouncedOK' /\ Announced' = << >>
    BY <2>2 DEF AnnouncedOK, Announced
  <2>4. Rest(h)' = Rest(h)
    <3>1. U \o w \in Seq(Unit)
      BY <1>6, <1>11, Joined
    <3>2. (U \o w) \o << >> = U \o w
      BY <3>1, ConcatEmptySeq
    <3>3. Rest(h)' = (U \o w) \o << >>
      BY <1>11, <2>3 DEF Rest
    <3>4. Rest(h) = U \o w
      BY <2>1 DEF Rest, U
    <3> QED BY <3>2, <3>3, <3>4
  <2>5. SenderOK(f)'
    <3>1. ASSUME NEW x \in DataCsids
          PROVE  Quiet(x, outbox[x], f)' \/ Busy(x, outbox[x], f)'
      <4>1. encoder'[x] \in {encoder[x], Fresh} /\ outbox'[x] = outbox[x] /\ sent'[x] = sent[x]
            /\ out_size' = out_size
        BY <1>3, <1>4, <1>7, <1>16
      <4>2. Quiet(x, outbox[x], f) \/ Busy(x, outbox[x], f)
        BY <1>1 DEF SenderOK
      <4> QED BY <4>1, <4>2, StreamKept
    <3> QED BY <1>1, <1>3, <3>1 DEF SenderOK
  <2> QED BY <1>1, <1>3, <2>3, <2>4, <2>5
<1>17. CASE c # p
  <2>1. c \in DataCsids /\ outbox[p] = << >> /\ outbox'[p] = << >>
    BY <1>3, <1>4, <1>7, <1>17 DEF Csids
  <2>2. AnnouncedOK' /\ Announced = << >> /\ Announced' = << >>
    BY <2>1 DEF AnnouncedOK, Announced
  <2>3. Busy(c, outbox[c], f) /\ f.size = out_size
    BY <1>1, <1>3, <2>1 DEF SenderOK, Quiet
  <2> DEFINE g == After(chunk, f)
             box == outbox[c]
  <2>4. /\ Readable(chunk, f, sent) /\ g \in View /\ g.size = f.size
        /\ \A x \in Csids \ {c} : g.decoder[x] = f.decoder[x]
        /\ \A x \in DataCsids : f.count[x] <= g.count[x]
        /\ \A x \in DataCsids \ {c} : g.count[x] = f.count[x]
        /\ Quiet(c, Tail(box), g) \/ Busy(c, Tail(box), g)
    <3>1. Busy(c, box, f) /\ sent[c] \in Seq(Message)
      BY <1>4, <2>1, <2>3
    <3>2. chunk = Head(box)
      BY DEF chunk
    <3> HIDE DEF box
    <3> QED BY <1>4, <2>1, <2>3, <3>1, <3>2, NextChunk
  <2>5. PICK b \in View : b = g
    BY <2>4
  <2> HIDE DEF g
  <2>6. Way(U, Now, f, sent)
    <3>1. U \o << >> = U
      BY <1>11, ConcatEmptySeq
    <3>2. Rest(h) = U \o << >>
      BY <2>2 DEF Rest, U
    <3> QED BY <1>1, <3>1, <3>2
  <2>7. Way(U \o w, Now, b, sent)
    BY <1>5, <2>4, <2>5, <2>6, WayTail DEF g, w
  <2>8. Rest(h)' = U \o w
    <3>1. U \o w \in Seq(Unit)
      BY <1>6, <1>11, Joined
    <3>2. (U \o w) \o << >> = U \o w
      BY <3>1, ConcatEmptySeq
    <3>3. Rest(h)' = (U \o w) \o << >>
      BY <1>11, <2>2 DEF Rest
    <3> QED BY <3>2, <3>3
  <2>9. SenderOK(b)'
    <3>1. ASSUME NEW x \in DataCsids \ {c}
          PROVE  Quiet(x, outbox[x], b)' \/ Busy(x, outbox[x], b)'
      <4>1. /\ encoder'[x] \in {encoder[x], Fresh} /\ outbox'[x] = outbox[x] /\ sent'[x] = sent[x]
            /\ out_size' = out_size /\ b.decoder[x] = f.decoder[x] /\ b.count[x] = f.count[x]
        BY <1>3, <1>4, <1>7, <2>4, <2>5
      <4>2. Quiet(x, outbox[x], f) \/ Busy(x, outbox[x], f)
        BY <1>1 DEF SenderOK
      <4> QED BY <4>1, <4>2, StreamKept
    <3>2. Quiet(c, outbox[c], b)' \/ Busy(c, outbox[c], b)'
      <4>1. Quiet(c, Tail(box), b) \/ Busy(c, Tail(box), b)
        BY <2>4, <2>5
      <4>2. encoder' = encoder /\ sent' = sent /\ out_size' = out_size /\ outbox'[c] = Tail(box)
        BY <1>3, <1>7
      <4>3. CASE Quiet(c, Tail(box), b)
        BY <4>2, <4>3 DEF Quiet
      <4>4. CASE Busy(c, Tail(box), b)
        BY <4>2, <4>4 DEF Busy, Remaining
      <4> QED BY <4>1, <4>3, <4>4
    <3>3. b.size = out_size' /\ b.decoder[p] = f.decoder[p] /\ encoder' = encoder
      BY <1>3, <1>4, <1>17, <2>3, <2>4, <2>5
    <3> QED BY <1>1, <3>1, <3>2, <3>3 DEF SenderOK
  <2> QED BY <1>3, <2>2, <2>7, <2>8, <2>9
<1> QED BY <1>16, <1>17

----------------------------------------------------------------------------
(* The step of the receiver.                                               *)

(* What is announced is laid out as units.                                 *)
LEMMA AnnouncedType ==
    ASSUME Typed
    PROVE  Announced \in Seq(Unit)
<1> DEFINE b == outbox[CSID_PROTOCOL_CONTROL]
<1>1. b \in Seq(Chunk)
  BY CsidFacts DEF Typed
<1> HIDE DEF b
<1>2. CASE b = << >>
  <2>1. Announced = << >>
    BY <1>2 DEF Announced, b
  <2> QED BY <2>1
<1>3. CASE b # << >>
  <2>1. b[1] \in Chunk
    <3>1. 1 \in 1 .. Len(b)
      BY <1>1, <1>3
    <3> QED BY <1>1, <3>1
  <2>2. Announced = Units(b[1])
    BY <1>3 DEF Announced, b
  <2>3. Units(b[1]) \in Seq(ChunkUnit)
    BY <2>1, UnitsNotEmpty
  <2>4. ChunkUnit \subseteq Unit
    BY DEF Unit
  <2> DEFINE u == Units(b[1])
  <2> HIDE DEF u
  <2>5. u \in Seq(Unit)
    BY <2>3, <2>4 DEF u
  <2> QED BY <2>2, <2>5 DEF u
<1> QED BY <1>2, <1>3

(* What the server has in its buffer after the handshake begins with a     *)
(* chunk that it takes for what it is.                                     *)
Begins(chunk, f) ==
    LET n == Len(Units(chunk))
        U == Pipe \o Announced
    IN  /\ n \in Nat \ {0} /\ SenderOK(f) /\ Readable(chunk, Now, sent)
        /\ Way(SubSeq(U, n + 1, Len(U)), After(chunk, Now), f, sent)
        /\ Buffer[1] = [kind |-> "header", header |-> chunk.header]
        /\ ChunkLength(chunk.header, decoder[Csid(chunk.header.basic)], in_size) = n
        /\ n <= Len(Buffer) => SubSeq(Buffer, 1, n) = Units(chunk)

(* Once the handshake is over, all the pipe holds is chunks.               *)
LEMMA AfterHandshake ==
    ASSUME Setting, IInv, state["server"] = "Done"
    PROVE  \E f \in View : /\ SenderOK(f) /\ Handshaken(0)
                           /\ Way(Pipe \o Announced, Now, f, sent)
<1>1. PICK h \in Nat, f \in View :
          Handshaken(h) /\ SenderOK(f) /\ Way(Rest(h), Now, f, sent)
  BY DEF IInv, OnTheWay
<1>2. h = 0
  BY <1>1 DEF Handshaken
<1>3. Rest(0) = Pipe \o Announced
  <2>1. Pipe \in Seq(Unit)
    BY PipeFacts, Zenon DEF IInv
  <2> DEFINE P == Pipe
  <2> HIDE DEF P
  <2>2. SubSeq(P, 0 + 1, Len(P)) = P
    <3>1. SubSeq(P, 1, Len(P)) = P
      BY <2>1, SubSeqFull DEF P
    <3> QED BY <3>1
  <2> QED BY <2>2 DEF Rest, P
<1> QED BY <1>1, <1>2, <1>3

(* After the handshake a buffer that is not empty begins with a chunk.     *)
LEMMA BufferBegins ==
    ASSUME Setting, IInv, state["server"] = "Done", Buffer # << >>
    PROVE  \E chunk \in Chunk, f \in View : Begins(chunk, f)
<1> DEFINE B == Buffer
           T == wire["server"] \o Announced
           U == Pipe \o Announced
<1>1. PICK f \in View : SenderOK(f) /\ Way(U, Now, f, sent)
  BY AfterHandshake
<1>2. /\ B \in Seq(Unit) /\ T \in Seq(Unit) /\ U = B \o T /\ B # << >>
  <2>1. /\ read_buf["server"] \in Seq(Unit) /\ wire["server"] \in Seq(Unit)
        /\ Announced \in Seq(Unit) /\ Buffer = read_buf["server"]
    BY AnnouncedType, RoleFacts, PipeFacts DEF IInv
  <2> DEFINE a == read_buf["server"]
             b == wire["server"]
             c == Announced
  <2>2. a \in Seq(Unit) /\ b \in Seq(Unit) /\ c \in Seq(Unit) /\ Pipe = a \o b
    BY <2>1 DEF Pipe
  <2> HIDE DEF a, b, c
  <2>3. (a \o b) \o c = a \o (b \o c) /\ b \o c \in Seq(Unit)
    BY <2>2, ConcatAssociative, Joined
  <2> QED BY <2>1, <2>2, <2>3 DEF a, b, c
<1> HIDE DEF B, T
<1>3. /\ Len(B) \in Nat \ {0} /\ U \in Seq(Unit) /\ Len(U) = Len(B) + Len(T) /\ Len(T) \in Nat
      /\ \A i \in 1 .. Len(B) : U[i] = B[i]
  <2>1. /\ B \o T \in Seq(Unit) /\ Len(B \o T) = Len(B) + Len(T)
        /\ \A i \in 1 .. Len(B) : (B \o T)[i] = B[i]
    BY <1>2, Joined
  <2>2. Len(B) \in Nat \ {0} /\ Len(T) \in Nat
    BY <1>2
  <2> QED BY <1>2, <2>1, <2>2
<1>4. U # << >>
  <2>1. Len(U) # 0
    BY <1>3
  <2> HIDE DEF U
  <2>2. Len(<< >>) = 0
    OBVIOUS
  <2> QED BY <2>1, <2>2
<1> HIDE DEF U
<1>5. PICK chunk \in Chunk :
          /\ Len(Units(chunk)) \in 1 .. Len(U)
          /\ SubSeq(U, 1, Len(Units(chunk))) = Units(chunk)
          /\ Readable(chunk, Now, sent)
          /\ Way(SubSeq(U, Len(Units(chunk)) + 1, Len(U)), After(chunk, Now), f, sent)
  BY <1>1, <1>4, WayHead
<1> DEFINE n == Len(Units(chunk))
           w == Units(chunk)
<1>6. /\ n = 1 + Len(chunk.data) /\ w[1] = [kind |-> "header", header |-> chunk.header]
      /\ n \in Nat \ {0} /\ w \in Seq(ChunkUnit)
  BY UnitsShape, UnitsNotEmpty
<1>7. U[1] = w[1]
  <2> HIDE DEF n
  <2>1. SubSeq(U, 1, n)[1] = U[1]
    BY <1>3, <1>5, <1>6 DEF n
  <2> QED BY <1>5, <2>1 DEF n
<1>8. B[1] = [kind |-> "header", header |-> chunk.header]
  <2>1. 1 \in 1 .. Len(B)
    BY <1>3
  <2> QED BY <1>3, <1>6, <1>7, <2>1
<1>9. ChunkLength(chunk.header, decoder[Csid(chunk.header.basic)], in_size) = n
  <2>1. /\ ~ExtendedPeeked(chunk.header, decoder[Csid(chunk.header.basic)])
        /\ ChunkDataLength(chunk.header, decoder[Csid(chunk.header.basic)], in_size)
               = Len(chunk.data)
    BY <1>5 DEF Readable, Now
  <2>2. chunk.data \in Seq(Word)
    BY DEF Chunk
  <2>3. Len(chunk.data) \in Nat
    BY <2>2
  <2> HIDE DEF n
  <2> QED BY <1>6, <2>1, <2>3 DEF ChunkLength
<1>10. n <= Len(B) => SubSeq(B, 1, n) = w
  <2> HIDE DEF n, w
  <2>1. ASSUME n <= Len(B) PROVE SubSeq(B \o T, 1, n) = SubSeq(B, 1, n)
    <3>1. n \in 0 .. Len(B) /\ 1 \in Nat \ {0}
      BY <1>3, <1>6, <2>1
    <3> QED BY <1>2, <3>1, PartOfLonger
  <2> QED BY <1>2, <1>5, <2>1 DEF n, w
<1>11. Begins(chunk, f)
  <2> HIDE DEF w
  <2>1. SenderOK(f) /\ Readable(chunk, Now, sent) /\ n \in Nat \ {0}
    BY <1>1, <1>5, <1>6
  <2>2. Way(SubSeq(U, n + 1, Len(U)), After(chunk, Now), f, sent)
    BY <1>5
  <2> QED BY <1>8, <1>9, <1>10, <2>1, <2>2, Zenon DEF Begins, U, B, w
<1> QED BY <1>11

(* The decoder looks for the chunk where it is.                            *)
LEMMA NeverOffTrack ==
    ASSUME Setting, IInv, Buffer # << >>, NEW chunk \in Chunk, NEW f \in View, Begins(chunk, f)
    PROVE  /\ ~Misplaced /\ ~OffTrack
           /\ NextHeader = chunk.header /\ NextState = decoder[Csid(chunk.header.basic)]
           /\ ChunkLength(NextHeader, NextState, in_size) = Len(Units(chunk))
           /\ ChunkReady <=> Len(Units(chunk)) <= Len(Buffer)
           /\ ~ExtendedPeeked(NextHeader, NextState)
<1> DEFINE n == Len(Units(chunk))
           w == Units(chunk)
           c == Csid(chunk.header.basic)
<1>1. /\ Buffer[1] = [kind |-> "header", header |-> chunk.header] /\ n \in Nat \ {0}
      /\ ChunkLength(chunk.header, decoder[c], in_size) = n
      /\ n <= Len(Buffer) => SubSeq(Buffer, 1, n) = w
      /\ ~ExtendedPeeked(chunk.header, decoder[c]) /\ ~ExtendedRead(chunk.header, decoder[c])
  BY DEF Begins, Readable, Now
<1>2. NextHeader = chunk.header /\ Buffer[1].kind = "header"
  BY <1>1 DEF NextHeader
<1>3. NextState = decoder[c]
  BY <1>2 DEF NextState
<1> HIDE DEF n, w, c
<1>4. ~Misplaced
  BY <1>2 DEF Misplaced
<1>5. ChunkReady <=> n <= Len(Buffer)
  <2>1. Len(Buffer) \in Nat
    BY RoleFacts, PipeFacts DEF IInv
  <2> QED BY <1>1, <1>2, <1>3, <1>4, <2>1 DEF ChunkReady
<1>6. ~OffTrack
  <2>1. ASSUME ChunkReady
        PROVE  WellPlaced(SubSeq(Buffer, 1, n), NextHeader, NextState)
    <3>1. SubSeq(Buffer, 1, n) = w
      BY <1>1, <1>5, <2>1
    <3>2. /\ Len(w) = 1 + Len(chunk.data) /\ Len(chunk.data) \in Nat
          /\ \A j \in 1 .. Len(chunk.data) : w[1 + j] = [kind |-> "data", word |-> chunk.data[j]]
      <4>1. chunk.data \in Seq(Word)
        BY DEF Chunk
      <4>2. Len(chunk.data) \in Nat
        BY <4>1
      <4>3. /\ Len(Units(chunk)) = 1 + Len(chunk.data)
            /\ \A j \in 1 .. Len(chunk.data) :
                   Units(chunk)[1 + j] = [kind |-> "data", word |-> chunk.data[j]]
        BY UnitsShape, Zenon
      <4> QED BY <4>2, <4>3, Zenon DEF w
    <3>3. ASSUME NEW i \in 2 .. Len(w) PROVE w[i].kind = "data"
      <4> DEFINE j == i - 1
      <4>1. j \in 1 .. Len(chunk.data) /\ i = 1 + j
        BY <3>2
      <4> HIDE DEF j
      <4>2. w[1 + j] = [kind |-> "data", word |-> chunk.data[j]]
        BY <3>2, <4>1, Zenon
      <4>3. w[i] = [kind |-> "data", word |-> chunk.data[j]]
        BY <4>1, <4>2, Zenon
      <4> QED BY <4>3
    <3> QED BY <1>1, <1>2, <1>3, <3>1, <3>3 DEF WellPlaced
  <2> QED BY <1>1, <1>2, <1>3, <1>4, <2>1 DEF OffTrack
<1> QED BY <1>1, <1>2, <1>3, <1>4, <1>5, <1>6 DEF n, c

(* The next message of c arrives.                                          *)
Delivers(c) ==
    /\ Len(received[c]) < Len(sent[c])
    /\ received' = [received EXCEPT ![c] = Append(@, sent[c][Len(received[c]) + 1])]

(* What decode makes of the chunk is the next view, and if that completes  *)
(* a message it is the next one sent.                                      *)
LEMMA DecodedIsAfter ==
    ASSUME Setting, IInv, Buffer # << >>, NEW chunk \in Chunk, NEW f \in View,
           Begins(chunk, f), DecodeChunk
    PROVE  /\ Len(Units(chunk)) <= Len(Buffer)
           /\ Now' = After(chunk, Now) /\ reading' = "buffer"
           /\ read_buf' = [read_buf EXCEPT !["server"] =
                              SubSeq(@, Len(Units(chunk)) + 1, Len(@))]
           /\ received' \in [DataCsids -> Seq(Message)]
           /\ received' = received \/ \E x \in DataCsids : Delivers(x)
<1> DEFINE n == Len(Units(chunk))
           w == Units(chunk)
           c == Csid(chunk.header.basic)
           s == ReadBy(chunk, Now)
           m == ReadMessage(chunk, Now)
           done == [decoder EXCEPT ![c] = Emptied(s)]
<1>1. /\ NextHeader = chunk.header /\ NextState = decoder[c]
      /\ ChunkLength(NextHeader, NextState, in_size) = n
      /\ ChunkReady <=> n <= Len(Buffer)
      /\ ~ExtendedPeeked(NextHeader, NextState)
  BY NeverOffTrack
<1>2. n <= Len(Buffer)
  <2>1. ChunkReady
    BY Zenon DEF DecodeChunk
  <2> HIDE DEF n
  <2> QED BY <1>1, <2>1, Zenon
<1>3. SubSeq(Buffer, 1, n) = w /\ Readable(chunk, Now, sent) /\ c \in Csids
  BY <1>2 DEF Begins, Readable
<1>4. [i \in 1 .. n - 1 |-> w[1 + i].word] = chunk.data
  <2>1. chunk.data \in Seq(Word)
    BY DEF Chunk
  <2>2. /\ n = 1 + Len(chunk.data)
        /\ \A j \in 1 .. Len(chunk.data) : w[1 + j] = [kind |-> "data", word |-> chunk.data[j]]
    BY UnitsShape
  <2> HIDE DEF w, n
  <2>3. Len(chunk.data) \in Nat /\ n - 1 = Len(chunk.data)
    BY <2>1, <2>2
  <2>4. ASSUME NEW j \in 1 .. Len(chunk.data)
        PROVE  w[1 + j].word = chunk.data[j]
    <3>1. w[1 + j] = [kind |-> "data", word |-> chunk.data[j]]
      BY <2>2, Zenon
    <3> QED BY <3>1
  <2>5. chunk.data = [i \in 1 .. Len(chunk.data) |-> chunk.data[i]]
    BY <2>1
  <2> QED BY <2>3, <2>4, <2>5
<1> HIDE DEF n, w
<1>5. /\ IF MessageComplete(s)
         THEN /\ decoder' = StreamsAfter(c, s, m)
              /\ received' = IF c \in DataCsids
                             THEN [received EXCEPT ![c] = Append(@, m)] ELSE received
              /\ in_size' \in SizesAfter(m)
              /\ reading' = "buffer"
         ELSE /\ decoder' = [decoder EXCEPT ![c] = s]
              /\ reading' = AfterPartialChunk
              /\ UNCHANGED <<received, in_size>>
      /\ read_buf' = [read_buf EXCEPT ![Receiver] = SubSeq(@, n + 1, Len(@))]
  <2>1. s = DataRead(HeaderRead(chunk.header, decoder[c], 0),
                     [i \in 1 .. n - 1 |-> SubSeq(Buffer, 1, n)[1 + i].word])
    BY <1>3, <1>4 DEF ReadBy, Now
  <2>2. m = MessageOf(s, c)
    BY DEF ReadMessage
  <2>3. c = Csid(NextHeader.basic)
    BY <1>1
  <2> DEFINE skip == IF ExtendedPeeked(NextHeader, NextState) THEN 2 ELSE 1
             units == SubSeq(Buffer, 1, n)
             extended == IF skip = 2 THEN units[2].time ELSE 0
             words == [i \in 1 .. n - skip |-> units[skip + i].word]
  <2>4. skip = 1 /\ extended = 0
    BY <1>1
  <2>5. words = [i \in 1 .. n - 1 |-> units[1 + i].word]
    <3>1. skip = 1
      BY <2>4
    <3> HIDE DEF skip, units
    <3> QED BY <3>1
  <2>6. s = DataRead(HeaderRead(NextHeader, NextState, extended), words)
    <3> HIDE DEF s, words, extended, c
    <3> QED BY <1>1, <2>1, <2>4, <2>5
  <2> HIDE DEF s, m, c
  <2>7. n = ChunkLength(NextHeader, NextState, in_size)
    BY <1>1
  <2> QED BY <2>2, <2>3, <2>6, <2>7, Zenon DEF DecodeChunk
<1>6. Typed
  BY DEF IInv
<1>7. reading' = "buffer"
  BY <1>5 DEF AfterPartialChunk, Setting
<1>8. read_buf' = [read_buf EXCEPT !["server"] = SubSeq(@, n + 1, Len(@))]
  BY <1>5 DEF Setting
<1> HIDE DEF s
<1>9. MessageComplete(s) /\ c \in DataCsids
      => m \in Message
  <2> HIDE DEF m
  <2>1. ASSUME MessageComplete(s), c \in DataCsids
        PROVE  m \in Message
    <3>1. /\ Now.count[c] + 1 <= Len(sent[c])
          /\ m = sent[c][Now.count[c] + 1]
      BY <1>3, <2>1 DEF Readable, s, m
    <3>2. Now.count[c] \in Nat /\ sent[c] \in Seq(Message)
      BY <1>6, <2>1 DEF Typed, Now
    <3>3. Now.count[c] + 1 \in 1 .. Len(sent[c])
      BY <3>1, <3>2
    <3> QED BY <3>1, <3>2, <3>3
  <2> QED BY <2>1
<1>10. received' \in [DataCsids -> Seq(Message)]
  <2> HIDE DEF m
  <2>1. received \in [DataCsids -> Seq(Message)]
    BY <1>6 DEF Typed
  <2>2. CASE MessageComplete(s) /\ c \in DataCsids
    <3>1. received' = [received EXCEPT ![c] = Append(@, m)]
      BY <1>5, <2>2
    <3>2. Append(received[c], m) \in Seq(Message)
      BY <1>9, <2>1, <2>2
    <3> QED BY <2>1, <3>1, <3>2
  <2>3. CASE ~(MessageComplete(s) /\ c \in DataCsids)
    <3>1. received' = received
      BY <1>5, <2>3
    <3> QED BY <2>1, <3>1
  <2> QED BY <2>2, <2>3
<1>11. Now'.count = IF MessageComplete(s) /\ c \in DataCsids
                    THEN [Now.count EXCEPT ![c] = @ + 1] ELSE Now.count
  <2> HIDE DEF m, c
  <2>1. received \in [DataCsids -> Seq(Message)]
    BY <1>6 DEF Typed
  <2>2. Now.count = [x \in DataCsids |-> Len(received[x])]
        /\ Now'.count = [x \in DataCsids |-> Len(received'[x])]
    BY DEF Now
  <2>3. CASE MessageComplete(s) /\ c \in DataCsids
    <3>1. received' = [received EXCEPT ![c] = Append(@, m)]
      BY <1>5, <2>3
    <3>2. Len(received'[c]) = Len(received[c]) + 1
      BY <1>9, <2>1, <2>3, <3>1
    <3>3. \A x \in DataCsids \ {c} : received'[x] = received[x]
      BY <2>1, <3>1
    <3> QED BY <2>2, <2>3, <3>2, <3>3
  <2>4. CASE ~(MessageComplete(s) /\ c \in DataCsids)
    <3>1. received' = received
      BY <1>5, <2>4
    <3> QED BY <2>2, <2>4, <3>1
  <2> QED BY <2>3, <2>4
<1>12. decoder' = IF ~MessageComplete(s) THEN [decoder EXCEPT ![c] = s]
                  ELSE IF m.message_type = MSG_ABORT
                       THEN [done EXCEPT ![m.payload[1][1]] = Emptied(@)]
                  ELSE done
  <2> HIDE DEF m, c
  <2> QED BY <1>5 DEF StreamsAfter, Setting
<1>13. in_size' = IF MessageComplete(s) /\ m.message_type = MSG_SET_CHUNK_SIZE
                  THEN ChunkSize(m.payload[1][1]) ELSE in_size
  <2> HIDE DEF m, c
  <2> QED BY <1>5 DEF SizesAfter, Setting
<1>14. Now' = After(chunk, Now)
  <2>1. Now' = [decoder |-> decoder', size |-> in_size', count |-> Now'.count]
    BY DEF Now
  <2>2. Now.decoder = decoder /\ Now.size = in_size
    BY DEF Now
  <2>3. After(chunk, Now) =
            [decoder |-> IF ~MessageComplete(s) THEN [decoder EXCEPT ![c] = s]
                         ELSE IF m.message_type = MSG_ABORT
                              THEN [done EXCEPT ![m.payload[1][1]] = Emptied(@)]
                         ELSE done,
             size |-> IF MessageComplete(s) /\ m.message_type = MSG_SET_CHUNK_SIZE
                      THEN ChunkSize(m.payload[1][1]) ELSE in_size,
             count |-> IF MessageComplete(s) /\ c \in DataCsids
                       THEN [Now.count EXCEPT ![c] = @ + 1] ELSE Now.count]
    <3> HIDE DEF m, c
    <3> QED BY <2>2 DEF After, s, m, c
  <2> HIDE DEF m, c, done
  <2> QED BY <1>11, <1>12, <1>13, <2>1, <2>3
<1>15. received' = received \/ \E x \in DataCsids : Delivers(x)
  <2> HIDE DEF c
  <2>1. CASE MessageComplete(s) /\ c \in DataCsids
    <3>1. /\ Now.count[c] + 1 <= Len(sent[c])
          /\ m = sent[c][Now.count[c] + 1]
      BY <1>3, <2>1 DEF Readable, s, m, c
    <3> HIDE DEF m
    <3>2. Now.count[c] = Len(received[c])
      BY <2>1 DEF Now
    <3>3. received[c] \in Seq(Message) /\ sent[c] \in Seq(Message)
      BY <1>6, <2>1 DEF Typed
    <3>4. received' = [received EXCEPT ![c] = Append(@, m)]
      BY <1>5, <2>1
    <3>5. m = sent[c][Len(received[c]) + 1] /\ Len(received[c]) < Len(sent[c])
      <4>1. Len(received[c]) + 1 <= Len(sent[c]) /\ m = sent[c][Len(received[c]) + 1]
        BY <3>1, <3>2, Zenon
      <4>2. Len(received[c]) \in Nat /\ Len(sent[c]) \in Nat
        BY <3>3
      <4> QED BY <4>1, <4>2
    <3>6. Delivers(c)
      BY <3>4, <3>5, Zenon DEF Delivers
    <3> QED BY <2>1, <3>6
  <2>2. CASE ~(MessageComplete(s) /\ c \in DataCsids)
    <3> HIDE DEF m
    <3> QED BY <1>5, <2>2
  <2> QED BY <2>1, <2>2
<1> QED BY <1>2, <1>7, <1>8, <1>10, <1>14, <1>15 DEF n

(* The receiver's step (decode): it waits for more, or takes a chunk out   *)
(* of its buffer and knows what the sender counts on it to know.           *)
LEMMA DecodeKeeps ==
    ASSUME Setting, IInv, Decode
    PROVE  IInv'
<1>1. state["server"] = "Done" /\ reading = "buffer"
  BY DEF Decode, Decoding, Setting
<1>2. Typed /\ ClientReads /\ EncoderOK /\ AnnouncedOK
  BY DEF IInv
<1>3. ~OffTrack
  <2>1. CASE Buffer = << >>
    BY <2>1 DEF OffTrack, Misplaced, ChunkReady
  <2>2. CASE Buffer # << >>
    <3>1. PICK chunk \in Chunk, f \in View : Begins(chunk, f)
      BY <1>1, <2>2, BufferBegins
    <3> QED BY <2>2, <3>1, NeverOffTrack
  <2> QED BY <2>1, <2>2
<1>4. CASE DecodeNothing
  <2>1. /\ ~ChunkReady /\ reading' = "socket" /\ number' = number
        /\ UNCHANGED <<state, wire, read_buf, derailed>> /\ ChunksUntouched
    BY <1>4 DEF DecodeNothing, ChunksUntouched, senderVars
  <2>2. PICK f \in View : SenderOK(f) /\ Handshaken(0) /\ Way(Rest(0), Now, f, sent)
    <3>1. PICK h \in Nat, f \in View :
              Handshaken(h) /\ SenderOK(f) /\ Way(Rest(h), Now, f, sent)
      BY DEF IInv, OnTheWay
    <3>2. h = 0
      BY <1>1, <3>1 DEF Handshaken
    <3> QED BY <3>1, <3>2
  <2>3. Pipe' = Pipe
    BY <2>1 DEF Pipe
  <2>4. Typed' /\ ClientReads'
    BY <1>2, <2>1 DEF Typed, ClientReads, ChunksUntouched
  <2>5. DryWhileWaiting'
    <3>1. ChunkReady' = ChunkReady
      BY <2>1, ReadyUnchanged DEF ChunksUntouched
    <3> QED BY <2>1, <3>1 DEF DryWhileWaiting
  <2>6. Handshaken(0)'
    <3>1. outbox' = outbox
      BY <2>1 DEF ChunksUntouched
    <3> QED BY <1>1, <2>1, <2>2, <2>3, <3>1 DEF Handshaken
  <2> QED BY <2>1, <2>2, <2>3, <2>4, <2>5, <2>6, HandshakeKeeps
<1>5. CASE DecodeChunk
  <2>1. Buffer # << >>
    BY <1>5 DEF DecodeChunk, ChunkReady
  <2>2. PICK chunk \in Chunk, f \in View : Begins(chunk, f)
    BY <1>1, <2>1, BufferBegins
  <2> DEFINE n == Len(Units(chunk))
             U == Pipe \o Announced
  <2>3. /\ n <= Len(Buffer)
        /\ Now' = After(chunk, Now) /\ reading' = "buffer"
        /\ read_buf' = [read_buf EXCEPT !["server"] = SubSeq(@, n + 1, Len(@))]
        /\ received' \in [DataCsids -> Seq(Message)]
    BY <1>5, <2>1, <2>2, DecodedIsAfter
  <2>4. UNCHANGED <<state, wire, encoder, out_size, outbox, number, sent, derailed>>
    BY <1>5 DEF DecodeChunk, senderVars
  <2>5. /\ n \in Nat \ {0} /\ SenderOK(f)
        /\ Way(SubSeq(U, n + 1, Len(U)), After(chunk, Now), f, sent)
    BY <2>2 DEF Begins
  <2> HIDE DEF n
  <2>6. Now' \in View
    BY <2>3, <2>5, WayType
  <2>7. decoder' \in [Csids -> StreamStates(Word)] /\ in_size' \in 1 .. MaxChunkSize
    BY <2>6 DEF Now, View
  <2>8. /\ read_buf' \in [Roles -> Seq(Unit)] /\ read_buf'["client"] = read_buf["client"]
        /\ read_buf'["server"] = SubSeq(read_buf["server"], n + 1, Len(read_buf["server"]))
    <3>1. read_buf \in [Roles -> Seq(Unit)]
      BY <1>2 DEF Typed
    <3>2. SubSeq(read_buf["server"], n + 1, Len(read_buf["server"])) \in Seq(Unit)
      <4> DEFINE b == read_buf["server"]
      <4>1. b \in Seq(Unit)
        BY <3>1 DEF Roles
      <4> HIDE DEF b
      <4>2. SubSeq(b, n + 1, Len(b)) \in Seq(Unit)
        BY <2>5, <4>1
      <4> QED BY <4>2 DEF b
    <3> QED BY <2>3, <3>1, <3>2 DEF Roles
  <2>9. Typed'
    BY <1>2, <2>3, <2>4, <2>7, <2>8 DEF Typed
  <2>10. ClientReads' /\ EncoderOK' /\ AnnouncedOK' /\ Announced' = Announced
    BY <1>2, <2>4, <2>8 DEF ClientReads, EncoderOK, AnnouncedOK, Announced
  <2>11. DryWhileWaiting'
    BY <2>3 DEF DryWhileWaiting
  <2>12. Buffer = read_buf["server"] /\ n <= Len(read_buf["server"]) /\ wire'["server"] = wire["server"]
    BY <2>3, <2>4, RoleFacts
  <2>13. Pipe' = SubSeq(Pipe, n + 1, Len(Pipe))
    BY <1>2, <2>5, <2>8, <2>12, PipeShortens
  <2>14. Rest(0)' = SubSeq(U, n + 1, Len(U))
    <3> DEFINE P == Pipe
               A == Announced
               Q == SubSeq(P, n + 1, Len(P))
    <3>1. P \in Seq(Unit) /\ A \in Seq(Unit) /\ n \in 0 .. Len(P)
      <4>1. P \in Seq(Unit) /\ A \in Seq(Unit) /\ Len(P) = Len(Buffer) + Len(wire["server"])
            /\ wire["server"] \in Seq(Unit) /\ Buffer \in Seq(Unit)
        BY <1>2, <2>12, PipeFacts, AnnouncedType
      <4> DEFINE x == Len(Buffer)
                 y == Len(wire["server"])
      <4>2. x \in Nat /\ y \in Nat /\ n <= x /\ Len(P) = x + y
        BY <2>3, <4>1
      <4> HIDE DEF P, A, x, y
      <4> QED BY <2>5, <4>1, <4>2
    <3>2. Pipe' = Q /\ Announced' = A
      BY <2>10, <2>13
    <3> HIDE DEF P, A
    <3>3. Q \o A = SubSeq(P \o A, n + 1, Len(P \o A)) /\ Q \in Seq(Unit)
      <4>1. Q \o A = SubSeq(P \o A, n + 1, Len(P \o A))
        BY <3>1, DropFromJoined
      <4>2. Q \in Seq(Unit)
        BY <3>1
      <4> QED BY <4>1, <4>2
    <3> HIDE DEF Q
    <3>4. SubSeq(Q, 1, Len(Q)) = Q
      BY <3>3, SubSeqFull
    <3>5. Rest(0)' = SubSeq(Q, 0 + 1, Len(Q)) \o A
      BY <3>2 DEF Rest
    <3>6. Rest(0)' = Q \o A
      BY <3>4, <3>5
    <3> QED BY <3>3, <3>6 DEF P, A
  <2>15. SenderOK(f)'
    <3>1. ASSUME NEW x \in DataCsids
          PROVE  Quiet(x, outbox[x], f)' \/ Busy(x, outbox[x], f)'
      <4>1. encoder'[x] \in {encoder[x], Fresh} /\ outbox'[x] = outbox[x] /\ sent'[x] = sent[x]
            /\ out_size' = out_size
        BY <2>4
      <4>2. Quiet(x, outbox[x], f) \/ Busy(x, outbox[x], f)
        BY <2>5 DEF SenderOK
      <4> QED BY <4>1, <4>2, StreamKept
    <3> QED BY <2>4, <2>5, <3>1 DEF SenderOK
  <2>16. Handshaken(0)'
    <3>1. Handshaken(0)
      BY <1>1, AfterHandshake
    <3>2. 0 \in 0 .. Len(Pipe')
      <4>1. Len(Pipe') \in Nat
        BY <2>9, PipeFacts
      <4> QED BY <4>1
    <3> QED BY <1>1, <2>4, <3>1, <3>2 DEF Handshaken
  <2>17. Way(Rest(0)', Now', f, sent')
    BY <2>3, <2>4, <2>5, <2>14
  <2> QED BY <2>9, <2>10, <2>11, <2>15, <2>16, <2>17 DEF IInv, OnTheWay
<1> QED BY <1>3, <1>4, <1>5 DEF Decode

(* When nothing happens nothing is lost.                                   *)
LEMMA StutterKeeps ==
    ASSUME Setting, IInv, UNCHANGED vars
    PROVE  IInv'
<1>1. /\ ChunksUntouched /\ Pipe' = Pipe
      /\ state' = state /\ wire' = wire /\ read_buf' = read_buf /\ reading' = reading
      /\ derailed' = derailed /\ number' = number
  BY DEF vars, ChunksUntouched, Pipe
<1>2. Typed' /\ ClientReads'
  BY <1>1 DEF IInv, Typed, ClientReads, ChunksUntouched
<1>3. DryWhileWaiting'
  <2>1. read_buf' = read_buf /\ decoder' = decoder /\ in_size' = in_size /\ reading' = reading
        /\ state' = state
    BY <1>1 DEF ChunksUntouched
  <2>2. DryWhileWaiting
    BY DEF IInv
  <2> QED BY <2>1, <2>2, DryKept
<1>4. PICK h \in Nat, f \in View :
          Handshaken(h) /\ SenderOK(f) /\ Way(Rest(h), Now, f, sent)
  BY DEF IInv, OnTheWay
<1>5. Handshaken(h)'
  <2>1. outbox' = outbox
    BY <1>1 DEF ChunksUntouched
  <2> QED BY <1>1, <1>4, <2>1, HandshakenKept
<1> QED BY <1>1, <1>2, <1>3, <1>4, <1>5, HandshakeKeeps

(* The invariant is inductive.                                             *)
LEMMA NextKeeps ==
    ASSUME Setting, IInv, [Next]_vars
    PROVE  IInv'
<1>1. CASE ClientHello
  BY <1>1, ClientHelloKeeps
<1>2. CASE ServerPeerPacket
  BY <1>2, ServerPeerPacketKeeps
<1>3. CASE ServerPeerResponse
  BY <1>3, ServerPeerResponseKeeps
<1>4. CASE ClientPeerPacket
  BY <1>4, ClientPeerPacketKeeps
<1>5. CASE \E r \in Roles : HandshakeTimeout(r)
  BY <1>5, TimeoutKeeps
<1>6. CASE \E m \in Traffic : Send(m)
  BY <1>6, SendKeeps
<1>7. CASE \E size \in ChunkSizes : SendSetChunkSize(size)
  BY <1>7, SendSetChunkSizeKeeps
<1>8. CASE \E c \in DataCsids : SendAbort(c)
  BY <1>8, SendAbortKeeps
<1>9. CASE Reset
  BY <1>9, ResetKeeps
<1>10. CASE \E c \in Csids : Write(c)
  BY <1>10, WriteKeeps
<1>11. CASE Decode
  BY <1>11, DecodeKeeps
<1>12. CASE \E r \in Roles : Read(r)
  BY <1>12, ReadKeeps
<1>13. CASE UNCHANGED vars
  BY <1>13, StutterKeeps
<1> QED
  BY <1>1, <1>2, <1>3, <1>4, <1>5, <1>6, <1>7, <1>8, <1>9, <1>10, <1>11, <1>12, <1>13
  DEF Next, Handshaking, Sending

(* The invariant holds in every reachable state.                           *)
LEMMA Invariance ==
    ASSUME Setting
    PROVE  Spec => []IInv
<1>1. Init => IInv
  BY InitHolds
<1>2. IInv /\ [Next]_vars => IInv'
  BY NextKeeps
<1> QED BY <1>1, <1>2, PTL DEF Spec

-----------------------------------------------------------------------------
(* What has arrived was sent; what a busy chunk stream has still to write  *)
(* has not arrived.                                                        *)
LEMMA NoMoreThanSent ==
    ASSUME IInv, NEW c \in DataCsids
    PROVE  /\ Len(received[c]) <= Len(sent[c])
           /\ outbox[c] # << >> => Len(received[c]) < Len(sent[c])
<1>1. PICK h \in Nat, f \in View : SenderOK(f) /\ Way(Rest(h), Now, f, sent)
  BY DEF IInv, OnTheWay
<1>2. Now.count[c] <= f.count[c]
  BY <1>1, WayType
<1>3. Now.count[c] = Len(received[c])
  BY DEF Now
<1>4. Quiet(c, outbox[c], f) \/ Busy(c, outbox[c], f)
  BY <1>1 DEF SenderOK
<1>5. /\ f.count[c] = Len(sent[c]) \/ f.count[c] + 1 = Len(sent[c])
      /\ outbox[c] # << >> => f.count[c] + 1 = Len(sent[c])
  BY <1>4 DEF Quiet, Busy
<1>6. Len(received[c]) \in Nat /\ Len(sent[c]) \in Nat /\ f.count[c] \in Nat
  BY DEF IInv, Typed, View
<1> DEFINE r == Len(received[c])
           s == Len(sent[c])
           n == f.count[c]
<1>7. r <= n /\ (n = s \/ n + 1 = s) /\ r \in Nat /\ s \in Nat /\ n \in Nat
  BY <1>2, <1>3, <1>5, <1>6, Zenon
<1>8. outbox[c] # << >> => n + 1 = s
  BY <1>5
<1> HIDE DEF r, s, n
<1>9. r <= s /\ (outbox[c] # << >> => r < s)
  BY <1>7, <1>8
<1> QED BY <1>9 DEF r, s

(* Every reachable state has its shape, and nothing arrives that was not   *)
(* sent.                                                                   *)
THEOREM TransportTypeCorrect ==
    ASSUME Setting
    PROVE  Spec => []TypeOK
<1>1. IInv => TypeOK
  <2>1. ASSUME IInv PROVE TypeOK
    <3>1. Typed
      BY <2>1 DEF IInv
    <3>2. \A c \in DataCsids : Len(received[c]) <= Len(sent[c])
      BY <2>1, NoMoreThanSent
    <3> QED BY <3>1, <3>2 DEF TypeOK, Typed, Phases
  <2> QED BY <2>1
<1> QED BY <1>1, Invariance, PTL

(* Neither the handshake nor the decoder ever takes one thing for another. *)
THEOREM NeverDerailed ==
    ASSUME Setting
    PROVE  Spec => []StaysOnTrack
<1>1. IInv => StaysOnTrack
  BY DEF IInv, Typed, StaysOnTrack
<1> QED BY <1>1, Invariance, PTL

(* The server never waits for the socket with a whole chunk in its buffer. *)
THEOREM NeverWaitsOnChunk ==
    ASSUME Setting
    PROVE  Spec => []WaitsOnlyWhenDry
<1>1. IInv => WaitsOnlyWhenDry
  BY DEF IInv, DryWhileWaiting, WaitsOnlyWhenDry, Setting
<1> QED BY <1>1, Invariance, PTL

(* Where nothing but a control message is between sender and decoder, the  *)
(* view the sender counts on differs from what the server knows at most by *)
(* what that message does.                                                 *)
LEMMA OnlyControlAhead ==
    ASSUME Setting, IInv, wire["server"] = << >>, Buffer = << >>
    PROVE  \E f \in View :
               /\ SenderOK(f)
               /\ \A c \in DataCsids : f.decoder[c] \in {decoder[c], Emptied(decoder[c])}
               /\ outbox[CSID_PROTOCOL_CONTROL] = << >> => f = Now
<1> DEFINE p == CSID_PROTOCOL_CONTROL
<1>1. PICK h \in Nat, f \in View :
          Handshaken(h) /\ SenderOK(f) /\ Way(Rest(h), Now, f, sent)
  BY DEF IInv, OnTheWay
<1>2. Typed /\ AnnouncedOK
  BY DEF IInv
<1>3. Pipe = << >> /\ h = 0
  <2>1. Pipe = << >>
    <3>1. read_buf["server"] = << >> /\ wire["server"] = << >>
      BY RoleFacts
    <3>2. << >> \o << >> = << >>
      BY ConcatEmptySeq, EmptySeq
    <3> QED BY <3>1, <3>2 DEF Pipe
  <2>2. Len(Pipe) = 0
    BY <2>1
  <2>3. h \in 0 .. Len(Pipe)
    BY <1>1 DEF Handshaken
  <2> QED BY <2>1, <2>2, <2>3
<1>4. Rest(0) = Announced
  <2>1. Announced \in Seq(Unit)
    BY <1>2, AnnouncedType
  <2>2. SubSeq(<< >>, 0 + 1, Len(<< >>)) = << >>
    OBVIOUS
  <2>3. << >> \o Announced = Announced
    BY <2>1, ConcatEmptySeq
  <2> QED BY <1>3, <2>2, <2>3 DEF Rest
<1>5. Way(Announced, Now, f, sent)
  BY <1>1, <1>3, <1>4
<1>6. CASE outbox[p] = << >>
  <2>1. Announced = << >>
    BY <1>6 DEF Announced
  <2>2. Now = f
    BY <1>5, <2>1, WayEnds
  <2>3. \A c \in DataCsids : f.decoder[c] = decoder[c]
    BY <2>2 DEF Now
  <2> QED BY <1>1, <2>2, <2>3
<1>7. CASE outbox[p] # << >>
  <2> DEFINE k == outbox[p][1]
             U == Announced
  <2>1. k \in Chunk /\ Csid(k.header.basic) = p /\ U = Units(k)
    <3>1. outbox[p] \in Seq(Chunk) /\ Len(outbox[p]) = 1
      BY <1>2, <1>7, CsidFacts DEF Typed, AnnouncedOK
    <3>2. k \in Chunk
      BY <3>1
    <3> QED BY <1>2, <1>7, <3>2 DEF Announced, AnnouncedOK
  <2> HIDE DEF k
  <2>2. /\ U \in Seq(ChunkUnit) /\ Len(U) = 1 + Len(k.data) /\ Len(k.data) \in Nat
        /\ U[1] = [kind |-> "header", header |-> k.header]
        /\ \A j \in 1 .. Len(k.data) : U[1 + j] = [kind |-> "data", word |-> k.data[j]]
    <3>1. k.data \in Seq(Word)
      BY <2>1 DEF Chunk
    <3>2. Len(k.data) \in Nat
      BY <3>1
    <3>3. /\ Units(k) \in Seq(ChunkUnit) /\ Len(Units(k)) = 1 + Len(k.data)
          /\ Units(k)[1] = [kind |-> "header", header |-> k.header]
          /\ \A j \in 1 .. Len(k.data) : Units(k)[1 + j] = [kind |-> "data", word |-> k.data[j]]
      BY <2>1, UnitsShape, Zenon
    <3> QED BY <2>1, <3>2, <3>3, Zenon
  <2> HIDE DEF U
  <2>3. U # << >>
    <3>1. Len(U) # 0
      BY <2>2
    <3>2. Len(<< >>) = 0
      OBVIOUS
    <3> QED BY <3>1, <3>2
  <2>4. PICK chunk \in Chunk :
            /\ Len(Units(chunk)) \in 1 .. Len(U)
            /\ SubSeq(U, 1, Len(Units(chunk))) = Units(chunk)
            /\ Readable(chunk, Now, sent)
            /\ Way(SubSeq(U, Len(Units(chunk)) + 1, Len(U)), After(chunk, Now), f, sent)
    BY <1>5, <2>3, WayHead DEF U
  <2> DEFINE n == Len(Units(chunk))
             T == SubSeq(U, n + 1, Len(U))
             g == After(chunk, Now)
  <2>5. Csid(chunk.header.basic) = p
    <3>1. Units(chunk)[1] = [kind |-> "header", header |-> chunk.header]
      BY UnitsShape
    <3>2. SubSeq(U, 1, n)[1] = U[1]
      <4>1. n \in 1 .. Len(U)
        BY <2>4
      <4> HIDE DEF n
      <4> QED BY <2>2, <4>1
    <3>3. [kind |-> "header", header |-> chunk.header] = [kind |-> "header", header |-> k.header]
      BY <2>2, <2>4, <3>1, <3>2
    <3>4. chunk.header = k.header
      BY <3>3
    <3> QED BY <2>1, <3>4
  <2>6. n = Len(U)
    <3>1. n \in 1 .. Len(U) /\ Way(T, g, f, sent) /\ Len(U) \in Nat
      BY <2>2, <2>4
    <3> HIDE DEF n
    <3>2. ASSUME n < Len(U) PROVE FALSE
      <4>1. T \in Seq(ChunkUnit) /\ Len(T) = Len(U) - n /\ T[1] = U[n + 1] /\ Len(T) # 0
        BY <2>2, <3>1, <3>2
      <4> HIDE DEF T, g
      <4>2. T # << >>
        <5>1. Len(<< >>) = 0
          OBVIOUS
        <5> QED BY <4>1, <5>1
      <4>3. PICK other \in Chunk :
                Len(Units(other)) \in 1 .. Len(T) /\ SubSeq(T, 1, Len(Units(other))) = Units(other)
        BY <3>1, <4>2, WayHead
      <4>4. T[1].kind = "header"
        <5>1. Units(other)[1] = [kind |-> "header", header |-> other.header]
          BY UnitsShape
        <5> DEFINE o == Len(Units(other))
        <5>2. o \in 1 .. Len(T) /\ SubSeq(T, 1, o) = Units(other)
          BY <4>3
        <5> HIDE DEF o
        <5>3. SubSeq(T, 1, o)[1] = T[1]
          BY <4>1, <5>2
        <5>4. T[1] = [kind |-> "header", header |-> other.header]
          BY <5>1, <5>2, <5>3
        <5> QED BY <5>4
      <4>5. n \in 1 .. Len(k.data)
        BY <2>2, <3>1, <3>2
      <4>6. U[1 + n] = [kind |-> "data", word |-> k.data[n]] /\ n + 1 = 1 + n
        BY <2>2, <4>5
      <4>7. T[1] = [kind |-> "data", word |-> k.data[n]]
        BY <4>1, <4>6
      <4> QED BY <4>4, <4>7
    <3> QED BY <3>1, <3>2
  <2>7. f = g
    <3>1. Way(T, g, f, sent)
      BY <2>4
    <3>2. T = << >>
      <4> HIDE DEF n
      <4> QED BY <2>2, <2>6
    <3> HIDE DEF T, g
    <3> QED BY <3>1, <3>2, WayEnds
  <2>8. ASSUME NEW c \in DataCsids
        PROVE  g.decoder[c] \in {decoder[c], Emptied(decoder[c])}
    <3> DEFINE s == ReadBy(chunk, Now)
               m == ReadMessage(chunk, Now)
               done == [decoder EXCEPT ![p] = Emptied(s)]
    <3>1. g.decoder = IF ~MessageComplete(s) THEN [decoder EXCEPT ![p] = s]
                      ELSE IF m.message_type = MSG_ABORT
                           THEN [done EXCEPT ![m.payload[1][1]] = Emptied(@)]
                      ELSE done
      <4>1. Now.decoder = decoder
        BY DEF Now
      <4> HIDE DEF p
      <4> QED BY <2>5, <4>1 DEF After
    <3>2. c # p /\ c \in Csids /\ p \in Csids
      BY CsidFacts
    <3>3. DOMAIN decoder = Csids
      BY <1>2 DEF Typed
    <3> HIDE DEF s, m, g, p
    <3>4. done[c] = decoder[c] /\ DOMAIN done = Csids
      BY <3>2, <3>3
    <3> HIDE DEF done
    <3>5. CASE ~MessageComplete(s)
      BY <3>1, <3>2, <3>3, <3>5
    <3>6. CASE MessageComplete(s) /\ m.message_type = MSG_ABORT
      <4> DEFINE x == m.payload[1][1]
      <4>1. g.decoder = [done EXCEPT ![x] = Emptied(@)]
        BY <3>1, <3>6
      <4> HIDE DEF x
      <4> QED BY <3>2, <3>4, <4>1
    <3>7. CASE MessageComplete(s) /\ m.message_type # MSG_ABORT
      BY <3>1, <3>4, <3>7
    <3> QED BY <3>5, <3>6, <3>7
  <2> HIDE DEF g
  <2> QED BY <1>1, <1>7, <2>7, <2>8
<1> QED BY <1>6, <1>7

(* Once all of a chunk stream has been read, both ends remember the same   *)
(* of it.                                                                  *)
LEMMA AgreeOnceRead ==
    ASSUME Setting, IInv, NEW c \in Csids, outbox[c] = << >>, encoder[c] # Fresh,
           wire["server"] = << >>, Buffer = << >>
    PROVE  Agree(encoder[c], decoder[c])
<1> DEFINE p == CSID_PROTOCOL_CONTROL
<1>1. PICK f \in View :
          /\ SenderOK(f)
          /\ \A x \in DataCsids : f.decoder[x] \in {decoder[x], Emptied(decoder[x])}
          /\ outbox[p] = << >> => f = Now
  BY OnlyControlAhead
<1>2. Typed
  BY DEF IInv
<1>3. Synced(encoder[c], f.decoder[c]) => Agree(encoder[c], f.decoder[c])
  BY DEF Synced
<1>4. CASE c = p
  <2>1. f.decoder[c] = decoder[c]
    BY <1>1, <1>4 DEF Now
  <2> QED BY <1>1, <1>3, <1>4, <2>1 DEF SenderOK
<1>5. CASE c # p
  <2>1. c \in DataCsids
    BY <1>5 DEF Csids
  <2>2. Quiet(c, outbox[c], f)
    <3>1. out_size \in 1 .. MaxChunkSize
      BY <1>2 DEF Typed
    <3>2. ~Busy(c, outbox[c], f)
      BY <3>1, BusyHasChunks
    <3> QED BY <1>1, <2>1, <3>2 DEF SenderOK
  <2>3. Agree(encoder[c], f.decoder[c])
    BY <1>3, <2>2 DEF Quiet
  <2>4. decoder[c] \in StreamStates(Word)
    BY <1>2 DEF Typed
  <2>5. Agree(encoder[c], Emptied(decoder[c])) => Agree(encoder[c], decoder[c])
    <3> DEFINE d == decoder[c]
    <3>1. d \in StreamStates(Word)
      BY <2>4
    <3> HIDE DEF d
    <3>2. Agree(encoder[c], Emptied(d)) => Agree(encoder[c], d)
      BY <3>1 DEF Agree, Emptied, StreamStates
    <3> QED BY <3>2 DEF d
  <2> QED BY <1>1, <2>1, <2>3, <2>5
<1> QED BY <1>4, <1>5

(* Both ends of a chunk stream that has been read to its end remember the  *)
(* same of it, whatever was interleaved, aborted or reset.                 *)
THEOREM BothEndsAgree ==
    ASSUME Setting
    PROVE  Spec => []EndsAgree
<1>1. ASSUME IInv PROVE EndsAgree
  <2>1. ASSUME NEW c \in Csids, outbox[c] = << >>, encoder[c] # Fresh,
               wire[Receiver] = << >>, Buffer = << >>
        PROVE  \A f \in {"timestamp", "timestamp_delta", "message_length", "message_type",
                         "stream_id", "has_extended_timestamp"} :
                   encoder[c][f] = decoder[c][f]
    <3>1. wire["server"] = << >>
      BY <2>1 DEF Setting
    <3>2. Agree(encoder[c], decoder[c])
      BY <1>1, <2>1, <3>1, AgreeOnceRead
    <3> QED BY <3>2 DEF Agree
  <2> QED BY <2>1 DEF EndsAgree
<1>2. IInv => EndsAgree
  BY <1>1
<1> QED BY <1>2, Invariance, PTL

-----------------------------------------------------------------------------
(* The channel that handshake and chunks implement: the messages on their  *)
(* way, and whether the connection is up.                                  *)
Queue == [c \in DataCsids |-> SubSeq(sent[c], Len(received[c]) + 1, Len(sent[c]))]
Up == \A r \in Roles : state[r] # "Failed"

(* A step of the channel, or none.                                         *)
ChannelStep == [Channel!Next]_<<Queue, received, Up>>

(* Nothing arrives and nothing is sent or taken back.                      *)
LEMMA SameMessages ==
    ASSUME sent' = sent, received' = received, Up' => Up
    PROVE  ChannelStep
<1>1. Queue' = Queue
  BY DEF Queue
<1>2. CASE Up'
  <2>1. Up' = Up
    BY <1>2, Zenon DEF Up
  <2> QED BY <1>1, <2>1, Zenon DEF ChannelStep
<1>3. CASE ~Up'
  <2>1. Up' = FALSE
    BY <1>3, Zenon DEF Up
  <2>2. Channel!Break
    BY <1>1, <2>1, Zenon DEF Channel!Break, Queue, Up
  <2> QED BY <2>2, Zenon DEF ChannelStep, Channel!Next
<1> QED BY <1>2, <1>3

(* The handshake of one role goes on; it does not recover from failure.    *)
LEMMA OneRoleMoves ==
    ASSUME NEW r \in Roles, NEW phase, state[r] # "Failed",
           state' = [state EXCEPT ![r] = phase], sent' = sent, received' = received,
           state \in [Roles -> Phases]
    PROVE  ChannelStep
<1>1. \A x \in Roles \ {r} : state'[x] = state[x]
  OBVIOUS
<1>2. Up' => Up
  BY <1>1 DEF Up
<1> QED BY <1>2, SameMessages

(* The queue of one chunk stream, before and after.                        *)
LEMMA QueueAt ==
    ASSUME NEW c \in DataCsids, NEW q,
           SubSeq(sent'[c], Len(received'[c]) + 1, Len(sent'[c])) = q,
           \A x \in DataCsids \ {c} : sent'[x] = sent[x] /\ received'[x] = received[x]
    PROVE  Queue' = [Queue EXCEPT ![c] = q] /\ Queue'[c] = q
<1>1. Queue' = [x \in DataCsids |-> SubSeq(sent'[x], Len(received'[x]) + 1, Len(sent'[x]))]
  BY DEF Queue
<1>2. [Queue EXCEPT ![c] = q] = [x \in DataCsids |-> IF x = c THEN q ELSE Queue[x]]
  BY DEF Queue
<1>3. \A x \in DataCsids \ {c} : Queue'[x] = Queue[x]
  BY DEF Queue
<1>4. Queue'[c] = q
  BY DEF Queue
<1>5. Queue' = [x \in DataCsids |-> Queue'[x]]
  BY DEF Queue
<1> QED BY <1>2, <1>3, <1>4, <1>5

(* The last elements of a sequence, without the last one or the first.     *)
LEMMA FrontOfPart ==
    ASSUME NEW S, NEW s \in Seq(S), NEW r \in Nat, r < Len(s)
    PROVE  /\ SubSeq(s, r + 1, Len(s)) # << >>
           /\ SubSeq(Front(s), r + 1, Len(Front(s))) = Front(SubSeq(s, r + 1, Len(s)))
<1> DEFINE q == SubSeq(s, r + 1, Len(s))
           l == Len(s) - 1
           k == l - r
<1>1. /\ Len(s) \in Nat /\ l \in 0 .. Len(s) /\ k \in Nat /\ r + k = l
      /\ (Len(s) - r) - 1 = k /\ Len(s) - r # 0
  OBVIOUS
<1>2. q \in Seq(S) /\ Len(q) = Len(s) - r
  OBVIOUS
<1>3. Len(q) - 1 = k /\ Len(q) # 0
  <2> HIDE DEF q, k
  <2> QED BY <1>1, <1>2
<1>4. Front(s) = SubSeq(s, 1, l) /\ Front(q) = SubSeq(q, 1, k)
  <2>1. Front(s) = SubSeq(s, 1, Len(s) - 1) /\ Front(q) = SubSeq(q, 1, Len(q) - 1)
    BY Zenon DEF Front
  <2> HIDE DEF q, k
  <2> QED BY <1>3, <2>1
<1> HIDE DEF l, k
<1>5. q # << >>
  <2> HIDE DEF q
  <2>1. Len(<< >>) = 0
    OBVIOUS
  <2> QED BY <1>3, <2>1
<1>6. Len(SubSeq(s, 1, l)) = l /\ SubSeq(SubSeq(s, 1, l), r + 1, l) = SubSeq(s, r + 1, l)
  BY <1>1
<1>7. SubSeq(q, 1, k) = SubSeq(s, r + 1, r + k)
  <2>1. r \in 0 .. Len(s) /\ 1 \in Nat \ {0} /\ r + k <= Len(s)
    BY <1>1
  <2> QED BY <1>1, <2>1, PartOfPart
<1> HIDE DEF q
<1> QED BY <1>1, <1>4, <1>5, <1>6, <1>7 DEF q

(* The rest of a sequence, without its first element.                      *)
LEMMA TailOfPart ==
    ASSUME NEW S, NEW s \in Seq(S), NEW r \in Nat, r < Len(s)
    PROVE  /\ SubSeq(s, r + 1, Len(s)) # << >>
           /\ Head(SubSeq(s, r + 1, Len(s))) = s[r + 1]
           /\ Tail(SubSeq(s, r + 1, Len(s))) = SubSeq(s, (r + 1) + 1, Len(s))
<1>1. r + 1 \in 1 .. Len(s) /\ Len(s) \in r + 1 .. Len(s)
  OBVIOUS
<1>2. SubSeq(s, r + 1, Len(s)) # << >>
  BY FrontOfPart
<1> QED BY <1>1, <1>2, HeadTailOfSubSeq

(* A message is sent: it is the last of those on their way.                *)
LEMMA SendIsSend ==
    ASSUME Setting, IInv, NEW m \in Traffic, Send(m)
    PROVE  ChannelStep
<1> DEFINE c == m.csid
           s == sent[c]
           r == Len(received[c])
           q == SubSeq(s, r + 1, Len(s))
<1>1. Typed /\ EncoderOK
  BY DEF IInv
<1>2. c \in DataCsids /\ m \in Message
  BY <1>1, TrafficFacts
<1>3. /\ sent' = [sent EXCEPT ![c] = Append(@, m)] /\ received' = received /\ state' = state
  BY DEF Send, receiverVars
<1>4. sent \in [DataCsids -> Seq(Message)]
  BY <1>1 DEF Typed
<1>5. s \in Seq(Message) /\ r \in Nat /\ r <= Len(s) /\ sent'[c] = Append(s, m)
  <2>1. received[c] \in Seq(Message)
    BY <1>1, <1>2 DEF Typed
  <2>2. r <= Len(s)
    BY <1>2, NoMoreThanSent
  <2> HIDE DEF c
  <2> QED BY <1>2, <1>3, <1>4, <2>1, <2>2
<1>6. /\ SubSeq(Append(s, m), r + 1, Len(Append(s, m))) = Append(q, m)
      /\ q \in Seq(Message)
  <2> HIDE DEF s, r
  <2>1. s \in Seq(Message) /\ << m >> \in Seq(Message) /\ r \in 0 .. Len(s)
    BY <1>2, <1>5
  <2>2. q \in Seq(Message)
    BY <1>5
  <2>3. Append(s, m) = s \o << m >> /\ Append(q, m) = q \o << m >>
    <3> HIDE DEF q
    <3> QED BY <1>2, <1>5, <2>2, AppendIsConcat
  <2>4. q \o << m >> = SubSeq(s \o << m >>, r + 1, Len(s \o << m >>))
    BY <2>1, DropFromJoined
  <2> HIDE DEF q
  <2> QED BY <2>2, <2>3, <2>4, Zenon
<1>7. Append(q, m) # << >> /\ Last(Append(q, m)) = m
  <2> HIDE DEF q
  <2> QED BY <1>2, <1>6 DEF Last
<1>8. /\ Queue' = [Queue EXCEPT ![c] = Append(q, m)] /\ Queue'[c] = Append(q, m)
  <2>1. SubSeq(sent'[c], Len(received'[c]) + 1, Len(sent'[c])) = Append(q, m)
    BY <1>3, <1>5, <1>6
  <2>2. \A x \in DataCsids \ {c} : sent'[x] = sent[x] /\ received'[x] = received[x]
    <3> HIDE DEF c
    <3> QED BY <1>3, <1>4
  <2> HIDE DEF q, c
  <2> QED BY <1>2, <2>1, <2>2, QueueAt
<1>9. Queue[c] = q
  BY <1>2 DEF Queue
<1>10. Up' = Up
  BY <1>3 DEF Up
<1> HIDE DEF q, c
<1>11. Channel!Send(c)
  <2>1. Queue' = [Queue EXCEPT ![c] = Append(@, Channel!Last(Queue'[c]))]
    <3>1. Channel!Last(Queue'[c]) = m
      BY <1>7, <1>8, Zenon DEF Last, Channel!Last
    <3> QED BY <1>8, <1>9, <3>1
  <2>2. Queue'[c] # << >>
    BY <1>7, <1>8
  <2> QED BY <1>3, <1>10, <2>1, <2>2, Zenon DEF Channel!Send, Queue, Up
<1> QED BY <1>2, <1>11, Zenon DEF ChannelStep, Channel!Next

(* A message is given up: it has not arrived, and it is the last one.      *)
LEMMA AbortIsTakeBack ==
    ASSUME Setting, IInv, NEW c \in DataCsids, SendAbort(c)
    PROVE  ChannelStep
<1> DEFINE s == sent[c]
           r == Len(received[c])
           q == SubSeq(s, r + 1, Len(s))
<1>1. Typed
  BY DEF IInv
<1>2. /\ sent' = [sent EXCEPT ![c] = Front(@)] /\ received' = received /\ state' = state
      /\ outbox[c] # << >>
  BY DEF SendAbort, receiverVars
<1>3. sent \in [DataCsids -> Seq(Message)]
  BY <1>1 DEF Typed
<1>4. s \in Seq(Message) /\ r \in Nat /\ r < Len(s) /\ sent'[c] = Front(s)
  <2>1. received[c] \in Seq(Message)
    BY <1>1 DEF Typed
  <2>2. r < Len(s)
    BY <1>2, NoMoreThanSent
  <2> QED BY <1>2, <1>3, <2>1, <2>2
<1>5. SubSeq(Front(s), r + 1, Len(Front(s))) = Front(q) /\ q # << >>
  <2> HIDE DEF s, r
  <2> QED BY <1>4, FrontOfPart
<1>6. Queue' = [Queue EXCEPT ![c] = Front(q)]
  <2>1. SubSeq(sent'[c], Len(received'[c]) + 1, Len(sent'[c])) = Front(q)
    BY <1>2, <1>4, <1>5
  <2>2. \A x \in DataCsids \ {c} : sent'[x] = sent[x] /\ received'[x] = received[x]
    BY <1>2, <1>3
  <2> HIDE DEF q
  <2> QED BY <2>1, <2>2, QueueAt
<1>7. Queue[c] = q
  BY DEF Queue
<1>8. Up' = Up
  BY <1>2 DEF Up
<1> HIDE DEF q
<1>9. Channel!TakeBack(c)
  <2>1. Queue' = [Queue EXCEPT ![c] = Channel!Front(@)]
    <3>1. Channel!Front(q) = Front(q)
      BY Zenon DEF Front, Channel!Front
    <3> QED BY <1>6, <1>7, <3>1
  <2>2. Queue[c] # << >>
    BY <1>5, <1>7
  <2> QED BY <1>2, <1>8, <2>1, <2>2, Zenon DEF Channel!TakeBack, Queue, Up
<1> QED BY <1>9, Zenon DEF ChannelStep, Channel!Next

(* A message arrives: it is the first of those on their way.               *)
LEMMA DeliveryIsReceive ==
    ASSUME IInv, NEW c \in DataCsids, Delivers(c), sent' = sent, state' = state, Up
    PROVE  ChannelStep
<1> DEFINE s == sent[c]
           r == Len(received[c])
           q == SubSeq(s, r + 1, Len(s))
<1>1. Typed
  BY DEF IInv
<1>2. r < Len(s) /\ received' = [received EXCEPT ![c] = Append(@, s[r + 1])]
  BY DEF Delivers
<1>3. received \in [DataCsids -> Seq(Message)]
  BY <1>1 DEF Typed
<1>4. s \in Seq(Message) /\ r \in Nat
  <2>1. received[c] \in Seq(Message) /\ s \in Seq(Message)
    BY <1>1 DEF Typed
  <2> QED BY <2>1
<1>5. q # << >> /\ Head(q) = s[r + 1] /\ Tail(q) = SubSeq(s, (r + 1) + 1, Len(s))
  <2> HIDE DEF s, r
  <2> QED BY <1>2, <1>4, TailOfPart
<1>6. Len(received'[c]) = r + 1
  <2>1. received'[c] = Append(received[c], s[r + 1]) /\ received[c] \in Seq(Message)
    BY <1>2, <1>3
  <2>2. s[r + 1] \in Message
    <3> HIDE DEF s, r
    <3> QED BY <1>2, <1>4
  <2> QED BY <2>1, <2>2
<1>7. Queue' = [Queue EXCEPT ![c] = Tail(q)]
  <2>1. SubSeq(sent'[c], Len(received'[c]) + 1, Len(sent'[c])) = Tail(q)
    <3> HIDE DEF r
    <3> QED BY <1>5, <1>6
  <2>2. \A x \in DataCsids \ {c} : sent'[x] = sent[x] /\ received'[x] = received[x]
    BY <1>2, <1>3
  <2> HIDE DEF q
  <2> QED BY <2>1, <2>2, QueueAt
<1>8. Queue[c] = q
  BY DEF Queue
<1>9. Up' = Up
  BY DEF Up
<1> HIDE DEF q
<1>10. Channel!Receive(c)
  <2>1. received' = [received EXCEPT ![c] = Append(@, Head(Queue[c]))]
    BY <1>2, <1>5, <1>8
  <2>2. Queue' = [Queue EXCEPT ![c] = Tail(@)]
    BY <1>7, <1>8
  <2>3. Queue[c] # << >>
    BY <1>5, <1>8
  <2> QED BY <1>9, <2>1, <2>2, <2>3, Zenon DEF Channel!Receive, Queue, Up
<1> QED BY <1>10, Zenon DEF ChannelStep, Channel!Next

(* What the server decodes arrives, or nothing does.                       *)
LEMMA DecodeIsReceive ==
    ASSUME Setting, IInv, Decode
    PROVE  ChannelStep
<1>1. state["server"] = "Done"
  BY DEF Decode, Decoding, Setting
<1>2. sent' = sent /\ state' = state
  BY DEF Decode, DecodeNothing, DecodeChunk, senderVars
<1>3. Up' = Up
  BY <1>2 DEF Up
<1>4. CASE received' = received
  BY <1>2, <1>3, <1>4, SameMessages
<1>5. CASE received' # received
  <2>1. DecodeChunk
    BY <1>5 DEF Decode, DecodeNothing, receiverVars
  <2>2. Buffer # << >>
    BY <2>1 DEF DecodeChunk, ChunkReady
  <2>3. PICK chunk \in Chunk, f \in View : Begins(chunk, f)
    BY <1>1, <2>2, BufferBegins
  <2>4. \E c \in DataCsids : Delivers(c)
    BY <1>5, <2>1, <2>2, <2>3, DecodedIsAfter
  <2>5. Up
    <3>1. Handshaken(0)
      BY <1>1, AfterHandshake
    <3>2. state["client"] = "Done"
      BY <1>1, <3>1 DEF Handshaken
    <3> QED BY <1>1, <3>2 DEF Up, Roles
  <2> QED BY <1>2, <2>4, <2>5, DeliveryIsReceive
<1> QED BY <1>4, <1>5

(* Every step is a step of the channel or none.                            *)
LEMMA NextIsChannelStep ==
    ASSUME Setting, IInv, [Next]_vars
    PROVE  ChannelStep
<1>1. state \in [Roles -> Phases] /\ "client" \in Roles /\ "server" \in Roles
  BY DEF IInv, Typed, Roles
<1>2. CASE ClientHello
  <2>1. \E phase : state' = [state EXCEPT !["client"] = phase]
    BY <1>2 DEF ClientHello
  <2>2. state["client"] # "Failed" /\ sent' = sent /\ received' = received
    BY <1>2 DEF ClientHello, senderVars, receiverVars
  <2> QED BY <1>1, <2>1, <2>2, OneRoleMoves
<1>3. CASE ServerPeerPacket
  <2>1. \E phase : state' = [state EXCEPT !["server"] = phase]
    BY <1>3 DEF ServerPeerPacket
  <2>2. state["server"] # "Failed" /\ sent' = sent /\ received' = received
    BY <1>3 DEF ServerPeerPacket, senderVars, receiverVars
  <2> QED BY <1>1, <2>1, <2>2, OneRoleMoves
<1>4. CASE ServerPeerResponse
  <2>1. \E phase : state' = [state EXCEPT !["server"] = phase]
    BY <1>4 DEF ServerPeerResponse
  <2>2. state["server"] # "Failed" /\ sent' = sent /\ received' = received
    BY <1>4 DEF ServerPeerResponse, senderVars, receiverVars
  <2> QED BY <1>1, <2>1, <2>2, OneRoleMoves
<1>5. CASE ClientPeerPacket
  <2>1. \E phase : state' = [state EXCEPT !["client"] = phase]
    BY <1>5 DEF ClientPeerPacket
  <2>2. state["client"] # "Failed" /\ sent' = sent /\ received' = received
    BY <1>5 DEF ClientPeerPacket, senderVars, receiverVars
  <2> QED BY <1>1, <2>1, <2>2, OneRoleMoves
<1>6. CASE \E r \in Roles : HandshakeTimeout(r)
  <2>1. PICK r \in Roles : HandshakeTimeout(r)
    BY <1>6
  <2>2. /\ state[r] # "Failed" /\ state' = [state EXCEPT ![r] = "Failed"]
        /\ sent' = sent /\ received' = received
    BY <2>1 DEF HandshakeTimeout, Waiting, senderVars, receiverVars
  <2> QED BY <1>1, <2>2, OneRoleMoves
<1>7. CASE \E m \in Traffic : Send(m)
  BY <1>7, SendIsSend
<1>8. CASE \E c \in DataCsids : SendAbort(c)
  BY <1>8, AbortIsTakeBack
<1>9. CASE Decode
  BY <1>9, DecodeIsReceive
<1>10. CASE \/ \E size \in ChunkSizes : SendSetChunkSize(size)
            \/ Reset
            \/ \E c \in Csids : Write(c)
            \/ \E r \in Roles : Read(r)
            \/ UNCHANGED vars
  <2>1. state' = state /\ sent' = sent /\ received' = received
    BY <1>10 DEF SendSetChunkSize, Reset, Write, Read, vars, receiverVars, senderVars
  <2>2. Up' = Up
    BY <2>1 DEF Up
  <2> QED BY <2>1, <2>2, SameMessages
<1> QED
  BY <1>2, <1>3, <1>4, <1>5, <1>6, <1>7, <1>8, <1>9, <1>10 DEF Next, Handshaking, Sending

(* Handshake and chunks implement the lossless channel: each message       *)
(* arrives as it was sent and in its turn, unless its sender takes it back *)
(* or the connection breaks.  That it arrives in the end is left to TLC.   *)
THEOREM ImplementsChannel ==
    ASSUME Setting
    PROVE  Spec => Channel!Spec
<1>1. Init => Channel!Init
  <2>1. ASSUME Init PROVE Channel!Init
    <3>1. /\ sent = [c \in DataCsids |-> << >>] /\ received = [c \in DataCsids |-> << >>]
          /\ state = [r \in Roles |-> IF r = "client" THEN "Initial" ELSE "WaitingForPeerPacket"]
      BY <2>1 DEF Init
    <3>2. Queue = [c \in DataCsids |-> << >>]
      BY <3>1 DEF Queue
    <3>3. Up = TRUE
      BY <3>1 DEF Up
    <3> QED BY <3>1, <3>2, <3>3 DEF Channel!Init, Queue, Up
  <2> QED BY <2>1
<1>2. IInv /\ [Next]_vars => ChannelStep
  BY NextIsChannelStep
<1>3. Spec => Channel!Init /\ [][Channel!Next]_<<Queue, received, Up>>
  BY <1>1, <1>2, Invariance, PTL DEF Spec, ChannelStep
<1> QED BY <1>3, PTL DEF Channel!Spec, Queue, Up
=============================================================================
