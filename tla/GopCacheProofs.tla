--------------------------- MODULE GopCacheProofs ---------------------------
(***************************************************************************)
(* Facts about the GOP buffer, for frames of any kind that have a size:    *)
(* what TotalSize adds up to, and what drops, room and a push leave of the *)
(* frames.                                                                 *)
(*                                                                         *)
(* TotalSize is a recursive function, a CHOOSE of a function over 0 ..     *)
(* Len, so what it is for every sequence needs induction. It is done by    *)
(* the least counterexample, from the well-foundedness of the naturals.    *)
(***************************************************************************)
EXTENDS GopCache, SequenceTheorems, WellFoundedInduction, TLAPS

----------------------------------------------------------------------------
(* Induction: a nonempty set of naturals has a least element.              *)

LessThan == {pair \in Nat \X Nat : pair[1] < pair[2]}

(* The naturals are well founded.                                          *)
LEMMA NoDescent == IsWellFoundedOn(LessThan, Nat)
BY NatLessThanWellFounded DEF OpToRel, LessThan

(* A nonempty set of naturals has a least element: the form of induction   *)
(* used below, as an argument by the least counterexample.                 *)
LEMMA LeastNatural ==
    ASSUME NEW S \in SUBSET Nat, S # {}
    PROVE  \E n \in S : \A m \in S : n <= m
<1>1. PICK n \in S : \A m \in S : <<m, n>> \notin LessThan
  BY NoDescent, WFMin
<1>2. ASSUME NEW m \in S PROVE n <= m
  <2>1. n \in Nat /\ m \in Nat
    OBVIOUS
  <2>2. ~(m < n)
    BY <1>1, <2>1 DEF LessThan
  <2> QED BY <2>1, <2>2
<1> QED BY <1>2

(* The library's minimum of a set of naturals is its least element.        *)
LEMMA MinOfNaturals ==
    ASSUME NEW S \in SUBSET Nat, S # {}
    PROVE  Min(S) \in S /\ \A n \in S : Min(S) <= n
BY LeastNatural DEF Min

----------------------------------------------------------------------------
(* Sums of sizes.                                                          *)

IsSum(f, frames, N) ==
    /\ f \in [0 .. N -> Nat]
    /\ f[0] = 0
    /\ \A n \in 1 .. N : f[n] = f[n - 1] + frames[n].size

(* The partial sums of the sizes of finitely many frames form a function.  *)
LEMMA SumsExist ==
    ASSUME NEW frames, NEW N \in Nat, \A i \in 1 .. N : frames[i].size \in Nat
    PROVE  \E f : IsSum(f, frames, N)
<1> DEFINE S == {k \in 0 .. N : ~ \E f : IsSum(f, frames, k)}
<1>1. SUFFICES ASSUME S # {} PROVE FALSE
  BY <1>1
<1>2. PICK k \in S : \A m \in S : k <= m
  <2>1. S \in SUBSET Nat
    OBVIOUS
  <2> HIDE DEF S
  <2> QED BY <1>1, <2>1, LeastNatural
<1>3. CASE k = 0
  <2>1. IsSum([n \in 0 .. 0 |-> 0], frames, 0)
    BY DEF IsSum
  <2> QED BY <1>2, <1>3, <2>1
<1>4. CASE k # 0
  <2>1. k - 1 \in 0 .. N /\ k - 1 \notin S
    BY <1>2, <1>4
  <2>2. PICK g : IsSum(g, frames, k - 1)
    BY <2>1
  <2> DEFINE f == [n \in 0 .. k |-> IF n = k THEN g[k - 1] + frames[k].size ELSE g[n]]
  <2>3. g[k - 1] + frames[k].size \in Nat
    BY <1>2, <1>4, <2>2 DEF IsSum
  <2>4. f \in [0 .. k -> Nat] /\ f[0] = 0
    BY <1>2, <1>4, <2>2, <2>3 DEF IsSum
  <2>5. ASSUME NEW n \in 1 .. k PROVE f[n] = f[n - 1] + frames[n].size
    <3>1. n \in 0 .. k /\ n - 1 \in 0 .. k /\ n - 1 # k
      BY <1>2, <1>4
    <3>2. n # k => n \in 1 .. k - 1
      BY <1>2, <1>4
    <3> QED BY <2>2, <3>1, <3>2 DEF IsSum
  <2>6. IsSum(f, frames, k)
    BY <2>4, <2>5 DEF IsSum
  <2> QED BY <1>2, <2>4, <2>6
<1> QED BY <1>2, <1>3, <1>4

(* TotalSize is the last of the partial sums.                              *)
LEMMA TotalIsSum ==
    ASSUME NEW frames, Len(frames) \in Nat, \A i \in 1 .. Len(frames) : frames[i].size \in Nat,
           NEW f, IsSum(f, frames, Len(frames))
    PROVE  TotalSize(frames) = f[Len(frames)]
<1> DEFINE N == Len(frames)
           Is(t) == t = [n \in 0 .. N |-> IF n = 0 THEN 0 ELSE t[n - 1] + frames[n].size]
           total == CHOOSE t : Is(t)
<1>1. Is(f)
  BY DEF IsSum
<1>2. Is(total)
  BY <1>1
<1>3. TotalSize(frames) = total[N]
  BY DEF TotalSize
<1> HIDE DEF total
<1> DEFINE S == {k \in 0 .. N : total[k] # f[k]}
<1>4. SUFFICES ASSUME S # {} PROVE FALSE
  <2>1. N \in 0 .. N
    OBVIOUS
  <2> QED BY <1>3, <1>4, <2>1
<1>5. PICK k \in S : \A m \in S : k <= m
  <2>1. S \in SUBSET Nat
    OBVIOUS
  <2> HIDE DEF S
  <2> QED BY <1>4, <2>1, LeastNatural
<1>6. k # 0
  BY <1>1, <1>2
<1>7. k - 1 \in 0 .. N /\ k - 1 \notin S
  BY <1>5, <1>6
<1> QED BY <1>1, <1>2, <1>5, <1>6, <1>7

(* The total of the empty buffer, of one frame more, of a suffix.          *)
LEMMA TotalEmpty == TotalSize(<< >>) = 0
<1> DEFINE f == [n \in 0 .. 0 |-> 0]
<1>1. IsSum(f, << >>, 0)
  BY DEF IsSum
<1>2. Len(<< >>) = 0
  OBVIOUS
<1> QED BY <1>1, <1>2, TotalIsSum

Sized(T) == \A tag \in T : tag.size \in Nat /\ tag.keyframe \in BOOLEAN

(* The size of frames whose sizes are naturals is a natural.               *)
LEMMA TotalType ==
    ASSUME NEW T, Sized(T), NEW s \in Seq(T)
    PROVE  TotalSize(s) \in Nat
<1>1. Len(s) \in Nat /\ \A i \in 1 .. Len(s) : s[i].size \in Nat
  BY DEF Sized
<1>2. PICK f : IsSum(f, s, Len(s))
  BY <1>1, SumsExist
<1>3. f[Len(s)] \in Nat
  BY <1>1, <1>2 DEF IsSum
<1> QED BY <1>1, <1>2, <1>3, TotalIsSum

(* A frame at the end adds its size.                                       *)
LEMMA TotalAppend ==
    ASSUME NEW T, Sized(T), NEW s \in Seq(T), NEW tag \in T
    PROVE  TotalSize(Append(s, tag)) = TotalSize(s) + tag.size
<1> DEFINE N == Len(s)
           t == Append(s, tag)
<1>1. N \in Nat /\ \A i \in 1 .. N : s[i].size \in Nat
  BY DEF Sized
<1>2. PICK f : IsSum(f, s, N)
  BY <1>1, SumsExist
<1>3. /\ Len(t) = N + 1 /\ t[N + 1] = tag
      /\ \A i \in 1 .. N : t[i] = s[i]
  BY AppendProperties
<1>4. tag.size \in Nat
  BY DEF Sized
<1> DEFINE g == [n \in 0 .. N + 1 |-> IF n = N + 1 THEN f[N] + tag.size ELSE f[n]]
<1> HIDE DEF N, t
<1>5. g \in [0 .. N + 1 -> Nat] /\ g[0] = 0
  BY <1>1, <1>2, <1>4 DEF IsSum
<1>6. ASSUME NEW n \in 1 .. N + 1 PROVE g[n] = g[n - 1] + t[n].size
  <2>1. n \in 0 .. N + 1 /\ n - 1 \in 0 .. N + 1 /\ n - 1 # N + 1
    BY <1>1
  <2>2. n # N + 1 => n \in 1 .. N
    BY <1>1
  <2>3. CASE n = N + 1
    <3>1. g[n] = f[N] + tag.size /\ n - 1 = N /\ g[n - 1] = f[n - 1]
      BY <1>1, <2>1, <2>3
    <3> QED BY <1>3, <2>3, <3>1
  <2>4. CASE n # N + 1
    <3>1. g[n] = f[n] /\ g[n - 1] = f[n - 1] /\ n \in 1 .. N
      BY <2>1, <2>2, <2>4
    <3> QED BY <1>2, <1>3, <3>1 DEF IsSum
  <2> QED BY <2>3, <2>4
<1>7. IsSum(g, t, N + 1)
  BY <1>5, <1>6 DEF IsSum
<1>8. \A i \in 1 .. Len(t) : t[i].size \in Nat
  BY <1>1, <1>3, <1>4
<1>9. TotalSize(t) = g[N + 1]
  BY <1>1, <1>3, <1>7, <1>8, TotalIsSum
<1>10. TotalSize(s) = f[N]
  BY <1>1, <1>2, TotalIsSum DEF N
<1> QED BY <1>1, <1>9, <1>10 DEF t

(* The size of a sequence is that of any two parts of it.                  *)
LEMMA TotalSplit ==
    ASSUME NEW T, Sized(T), NEW s \in Seq(T), NEW n \in 0 .. Len(s)
    PROVE  TotalSize(s) = TotalSize(SubSeq(s, 1, n)) + TotalSize(SubSeq(s, n + 1, Len(s)))
<1> DEFINE N == Len(s)
           front == SubSeq(s, 1, n)
           back == SubSeq(s, n + 1, N)
<1>1. N \in Nat /\ n \in Nat /\ N - n \in Nat /\ \A i \in 1 .. N : s[i].size \in Nat
  BY DEF Sized
<1>2. Len(front) = n /\ \A i \in 1 .. n : front[i] = s[i]
  BY <1>1, SubSeqProperties
<1>3. Len(back) = N - n /\ \A i \in 1 .. N - n : back[i] = s[n + i]
  BY <1>1, SubSeqProperties
<1> HIDE DEF N, front, back
<1>4. \A i \in 1 .. n : front[i].size \in Nat
  <2>1. \A i \in 1 .. n : i \in 1 .. N
    BY <1>1
  <2> QED BY <1>1, <1>2, <2>1
<1>5. \A i \in 1 .. N - n : back[i].size \in Nat
  <2>1. \A i \in 1 .. N - n : n + i \in 1 .. N
    BY <1>1
  <2> QED BY <1>1, <1>3, <2>1
<1>6. PICK f : IsSum(f, front, n)
  BY <1>1, <1>4, SumsExist
<1>7. PICK g : IsSum(g, back, N - n)
  BY <1>1, <1>5, SumsExist
<1> DEFINE h == [k \in 0 .. N |-> IF k <= n THEN f[k] ELSE f[n] + g[k - n]]
<1>8. ASSUME NEW k \in 0 .. N PROVE h[k] \in Nat
  <2>1. f[n] \in Nat
    BY <1>1, <1>6 DEF IsSum
  <2>2. CASE k <= n
    BY <1>1, <1>6, <2>2 DEF IsSum
  <2>3. CASE ~(k <= n)
    <3>1. k - n \in 0 .. N - n
      BY <1>1, <2>3
    <3>2. g[k - n] \in Nat
      BY <1>7, <3>1 DEF IsSum
    <3> QED BY <2>1, <2>3, <3>2
  <2> QED BY <2>2, <2>3
<1>9. h[0] = 0
  BY <1>1, <1>6 DEF IsSum
<1>10. ASSUME NEW k \in 1 .. N PROVE h[k] = h[k - 1] + s[k].size
  <2>1. k \in 0 .. N /\ k - 1 \in 0 .. N
    BY <1>1
  <2>2. CASE k <= n
    <3>1. k - 1 <= n /\ k \in 1 .. n
      BY <1>1, <2>2
    <3> QED BY <1>2, <1>6, <2>1, <2>2, <3>1 DEF IsSum
  <2>3. CASE ~(k <= n)
    <3>1. k - n \in 1 .. N - n /\ n + (k - n) = k /\ (k - n) - 1 = (k - 1) - n
      BY <1>1, <2>3
    <3>2. h[k] = f[n] + g[k - n]
      BY <2>1, <2>3
    <3>3. g[k - n] = g[(k - 1) - n] + s[k].size
      BY <1>3, <1>7, <3>1 DEF IsSum
    <3>4. h[k - 1] = f[n] + g[(k - 1) - n]
      <4>1. CASE k - 1 = n
        <5>1. g[(k - 1) - n] = 0 /\ f[n] \in Nat /\ k - 1 <= n
          BY <1>1, <1>6, <1>7, <4>1 DEF IsSum
        <5> QED BY <2>1, <4>1, <5>1
      <4>2. CASE k - 1 # n
        <5>1. ~(k - 1 <= n)
          BY <1>1, <2>3, <4>2
        <5> QED BY <2>1, <5>1
      <4> QED BY <4>1, <4>2
    <3>5. f[n] \in Nat /\ g[(k - 1) - n] \in Nat /\ s[k].size \in Nat
      <4>1. (k - 1) - n \in 0 .. N - n
        BY <1>1, <2>3
      <4> QED BY <1>1, <1>6, <1>7, <4>1 DEF IsSum
    <3> HIDE DEF h
    <3> QED BY <3>2, <3>3, <3>4, <3>5
  <2> QED BY <2>2, <2>3
<1>11. IsSum(h, s, N)
  <2>1. h \in [0 .. N -> Nat]
    BY <1>8
  <2> HIDE DEF h
  <2> QED BY <1>9, <1>10, <2>1 DEF IsSum
<1>12. TotalSize(s) = h[N]
  <2> HIDE DEF h
  <2> QED BY <1>1, <1>11, TotalIsSum DEF N
<1>13. TotalSize(front) = f[n]
  BY <1>1, <1>2, <1>6, <1>4, TotalIsSum
<1>14. TotalSize(back) = g[N - n]
  BY <1>1, <1>3, <1>7, <1>5, TotalIsSum
<1>15. h[N] = f[n] + g[N - n]
  <2>1. CASE N = n
    <3>1. N \in 0 .. N /\ N <= n /\ g[N - n] = 0 /\ f[n] \in Nat
      BY <1>1, <1>6, <1>7, <2>1 DEF IsSum
    <3> QED BY <2>1, <3>1
  <2>2. CASE N # n
    <3>1. N \in 0 .. N /\ ~(N <= n)
      BY <1>1, <2>2
    <3> QED BY <3>1
  <2> QED BY <2>1, <2>2
<1> QED BY <1>12, <1>13, <1>14, <1>15 DEF N, front, back

(* One frame more at the front.                                            *)
LEMMA TotalFirst ==
    ASSUME NEW T, Sized(T), NEW s \in Seq(T), NEW n \in 1 .. Len(s)
    PROVE  TotalSize(SubSeq(s, n, Len(s)))
               = s[n].size + TotalSize(SubSeq(s, n + 1, Len(s)))
<1> DEFINE all == TotalSize(s)
           before == TotalSize(SubSeq(s, 1, n - 1))
           upto == TotalSize(SubSeq(s, 1, n))
           from == TotalSize(SubSeq(s, n, Len(s)))
           after == TotalSize(SubSeq(s, n + 1, Len(s)))
           one == s[n].size
<1>1. Len(s) \in Nat /\ n - 1 \in 0 .. Len(s) /\ n \in 0 .. Len(s) /\ (n - 1) + 1 = n
  OBVIOUS
<1>2. TotalSize(s) = TotalSize(SubSeq(s, 1, n - 1)) + TotalSize(SubSeq(s, n, Len(s)))
  BY <1>1, TotalSplit
<1>3. TotalSize(s) = TotalSize(SubSeq(s, 1, n)) + TotalSize(SubSeq(s, n + 1, Len(s)))
  BY <1>1, TotalSplit
<1>4. /\ SubSeq(s, 1, n) = Append(SubSeq(s, 1, n - 1), s[n])
      /\ SubSeq(s, 1, n - 1) \in Seq(T) /\ s[n] \in T
  BY <1>1
<1>5. TotalSize(SubSeq(s, 1, n)) = TotalSize(SubSeq(s, 1, n - 1)) + s[n].size
  BY <1>4, TotalAppend
<1>6. /\ TotalSize(SubSeq(s, 1, n - 1)) \in Nat /\ s[n].size \in Nat
      /\ TotalSize(SubSeq(s, n, Len(s))) \in Nat /\ TotalSize(SubSeq(s, n + 1, Len(s))) \in Nat
  <2>1. SubSeq(s, n, Len(s)) \in Seq(T) /\ SubSeq(s, n + 1, Len(s)) \in Seq(T)
    BY <1>1
  <2>2. s[n].size \in Nat
    BY <1>4 DEF Sized
  <2> QED BY <1>4, <2>1, <2>2, TotalType
<1>7. /\ all = before + from /\ all = upto + after /\ upto = before + one
      /\ before \in Nat /\ one \in Nat /\ from \in Nat /\ after \in Nat
  BY <1>2, <1>3, <1>5, <1>6
<1>8. from = one + after
  <2> HIDE DEF all, before, upto, from, after, one
  <2> QED BY <1>7
<1> QED BY <1>8

----------------------------------------------------------------------------
(* The operations of the buffer, for tags of any sizes.                    *)

Buffer(T) == [frames : Seq(T), current_size : Int, has_complete_gop : BOOLEAN]

Accounted(gop) == gop.current_size = TotalSize(gop.frames)

(* The new buffer accounts for its frames, of which there are none.        *)
LEMMA EmptyAccounted ==
    ASSUME NEW T
    PROVE  EmptyGop \in Buffer(T) /\ Accounted(EmptyGop)
BY TotalEmpty DEF EmptyGop, Buffer, Accounted

(* Dropping the first n frames keeps the others, and keeps the size right. *)
LEMMA DropOldestFacts ==
    ASSUME NEW T, Sized(T), NEW gop \in Buffer(T), NEW n \in 0 .. Len(gop.frames)
    PROVE  /\ DropOldest(gop, n) \in Buffer(T)
           /\ DropOldest(gop, n).frames = SubSeq(gop.frames, n + 1, Len(gop.frames))
           /\ DropOldest(gop, n).has_complete_gop = gop.has_complete_gop
           /\ Accounted(gop) => Accounted(DropOldest(gop, n))
<1> DEFINE N == Len(gop.frames)
           front == SubSeq(gop.frames, 1, n)
           back == SubSeq(gop.frames, n + 1, N)
<1>1. gop.frames \in Seq(T) /\ N \in Nat
  BY DEF Buffer
<1>2. front \in Seq(T) /\ back \in Seq(T)
  BY <1>1
<1>3. TotalSize(front) \in Nat /\ TotalSize(back) \in Nat
  BY <1>2, TotalType
<1>4. TotalSize(gop.frames) = TotalSize(front) + TotalSize(back)
  BY <1>1, TotalSplit
<1> HIDE DEF front, back
<1>5. DropOldest(gop, n) = [frames |-> back,
                            current_size |-> gop.current_size - TotalSize(front),
                            has_complete_gop |-> gop.has_complete_gop]
  <2>1. gop = [frames |-> gop.frames, current_size |-> gop.current_size,
               has_complete_gop |-> gop.has_complete_gop]
    BY DEF Buffer
  <2>2. DropOldest(gop, n) = [gop EXCEPT !.frames = back,
                                         !.current_size = gop.current_size - TotalSize(front)]
    BY DEF DropOldest, front, back
  <2> QED BY <2>1, <2>2
<1>6. gop.current_size - TotalSize(front) \in Int /\ gop.has_complete_gop \in BOOLEAN
  BY <1>3 DEF Buffer
<1> QED BY <1>2, <1>3, <1>4, <1>5, <1>6 DEF Buffer, Accounted, back

(* MakeRoom drops some of the oldest frames, and all of them unless what   *)
(* is left fits.                                                           *)
LEMMA MakeRoomFacts ==
    ASSUME NEW T, Sized(T), NEW gop \in Buffer(T), NEW size
    PROVE  \E n \in 0 .. Len(gop.frames) :
               /\ MakeRoom(gop, size) = DropOldest(gop, n)
               /\ Fits(MakeRoom(gop, size), size) \/ n = Len(gop.frames)
               /\ n # 0 => ~Fits(DropOldest(gop, n - 1), size)
<1> DEFINE enough == {n \in 0 .. Len(gop.frames) :
                         Fits(DropOldest(gop, n), size) \/ n = Len(gop.frames)}
<1>1. Len(gop.frames) \in Nat
  BY DEF Buffer
<1>2. enough \in SUBSET Nat /\ Len(gop.frames) \in enough
  BY <1>1
<1>3. MakeRoom(gop, size) = DropOldest(gop, Min(enough))
  BY DEF MakeRoom
<1>4. Min(enough) \in enough /\ \A n \in enough : Min(enough) <= n
  <2> HIDE DEF enough
  <2> QED BY <1>2, MinOfNaturals
<1>5. ASSUME Min(enough) # 0
      PROVE  ~Fits(DropOldest(gop, Min(enough) - 1), size)
  <2>1. Min(enough) - 1 \in 0 .. Len(gop.frames) /\ Min(enough) - 1 \notin enough
    <3>1. Min(enough) \in 0 .. Len(gop.frames) /\ ~(Min(enough) <= Min(enough) - 1)
      BY <1>1, <1>4
    <3> HIDE DEF enough
    <3> QED BY <1>1, <1>4, <1>5, <3>1
  <2> QED BY <2>1
<1> QED BY <1>3, <1>4, <1>5

(* What the frames are after push: those that were there, or none if the   *)
(* tag is a keyframe, less the oldest n; and behind them the tag, which is *)
(* missing only if everything had to go.                                   *)
Before(gop, tag) == IF tag.keyframe THEN << >> ELSE gop.frames

(* What a push may do: the frames before it, or none for a keyframe, lose  *)
(* some at the front and get the new one at the end, or all go. The size   *)
(* stays right and within the limit.                                       *)
LEMMA PushFacts ==
    ASSUME NEW T, Sized(T), NEW gop \in Buffer(T), NEW tag \in T
    PROVE  /\ Push(gop, tag) \in Buffer(T)
           /\ \E n \in 0 .. Len(Before(gop, tag)) :
                  \/ Push(gop, tag).frames =
                         Append(SubSeq(Before(gop, tag), n + 1, Len(Before(gop, tag))), tag)
                  \/ Push(gop, tag).frames = << >>
           /\ Push(gop, tag).has_complete_gop = (tag.keyframe \/ gop.has_complete_gop)
           /\ Accounted(gop) => /\ Accounted(Push(gop, tag))
                                /\ Push(gop, tag).current_size \in 0 .. MaxGopSize
                                /\ Push(gop, tag).frames = << >> => tag.size > MaxGopSize
<1> DEFINE started == IF tag.keyframe THEN [EmptyGop EXCEPT !.has_complete_gop = TRUE] ELSE gop
           room == MakeRoom(started, tag.size)
           push == Push(gop, tag)
           old == Before(gop, tag)
<1>1. /\ started \in Buffer(T) /\ started.frames = old
      /\ started.has_complete_gop = (tag.keyframe \/ gop.has_complete_gop)
      /\ Accounted(gop) => Accounted(started)
  <2>1. CASE tag.keyframe
    <3>1. started = [frames |-> << >>, current_size |-> 0, has_complete_gop |-> TRUE]
      BY <2>1 DEF EmptyGop
    <3>2. << >> \in Seq(T) /\ old = << >>
      BY <2>1 DEF Before
    <3> HIDE DEF started
    <3>3. started \in Buffer(T)
      BY <3>1, <3>2 DEF Buffer
    <3>4. started.has_complete_gop = (tag.keyframe \/ gop.has_complete_gop)
      BY <2>1, <3>1
    <3>5. Accounted(started)
      BY <3>1, TotalEmpty DEF Accounted
    <3>6. started.frames = old
      BY <3>1, <3>2
    <3> QED BY <3>3, <3>4, <3>5, <3>6
  <2>2. CASE ~tag.keyframe
    <3>1. started = gop
      BY <2>2
    <3>2. gop.has_complete_gop = (tag.keyframe \/ gop.has_complete_gop)
      BY <2>2 DEF Buffer
    <3> QED BY <2>2, <3>1, <3>2 DEF Before
  <2> QED BY <2>1, <2>2 DEF Sized
<1> HIDE DEF started
<1>2. PICK n \in 0 .. Len(old) :
          /\ room = DropOldest(started, n)
          /\ Fits(room, tag.size) \/ n = Len(old)
  BY <1>1, MakeRoomFacts
<1>3. /\ room \in Buffer(T) /\ room.frames = SubSeq(old, n + 1, Len(old))
      /\ room.has_complete_gop = started.has_complete_gop
      /\ Accounted(gop) => Accounted(room)
  BY <1>1, <1>2, DropOldestFacts
<1>4. push = IF Fits(room, tag.size)
             THEN [room EXCEPT !.frames = Append(@, tag), !.current_size = @ + tag.size]
             ELSE room
  BY DEF Push, started
<1> HIDE DEF room, push, old
<1>5. CASE Fits(room, tag.size)
  <2>1. push = [frames |-> Append(room.frames, tag), current_size |-> room.current_size + tag.size,
                has_complete_gop |-> room.has_complete_gop]
    <3>1. room = [frames |-> room.frames, current_size |-> room.current_size,
                  has_complete_gop |-> room.has_complete_gop]
      BY <1>3 DEF Buffer
    <3> QED BY <1>4, <1>5, <3>1
  <2>2. /\ Append(room.frames, tag) \in Seq(T) /\ Append(room.frames, tag) # << >>
        /\ TotalSize(Append(room.frames, tag)) = TotalSize(room.frames) + tag.size
        /\ TotalSize(room.frames) \in Nat
    <3>1. room.frames \in Seq(T)
      BY <1>3 DEF Buffer
    <3> QED BY <3>1, TotalAppend, TotalType, AppendProperties
  <2>3. tag.size \in Nat /\ room.current_size \in Int /\ room.has_complete_gop \in BOOLEAN
    BY <1>3 DEF Sized, Buffer
  <2>4. room.current_size + tag.size <= MaxGopSize
    BY <1>5 DEF Fits
  <2>5. push \in Buffer(T)
    BY <2>1, <2>2, <2>3 DEF Buffer
  <2>6. push.frames = Append(SubSeq(old, n + 1, Len(old)), tag) /\ push.frames # << >>
    BY <1>3, <2>1, <2>2
  <2>7. push.has_complete_gop = (tag.keyframe \/ gop.has_complete_gop)
    BY <1>1, <1>3, <2>1
  <2>8. ASSUME Accounted(gop)
        PROVE  Accounted(push) /\ push.current_size \in 0 .. MaxGopSize
    BY <1>3, <2>1, <2>2, <2>3, <2>4, <2>8, GopAssumption DEF Accounted
  <2> QED BY <2>5, <2>6, <2>7, <2>8 DEF push, old
<1>6. CASE ~Fits(room, tag.size)
  <2>1. room.frames = << >>
    BY <1>1, <1>2, <1>3, <1>6 DEF Buffer
  <2>2. ASSUME Accounted(gop)
        PROVE  room.current_size = 0 /\ tag.size > MaxGopSize
    <3>1. room.current_size = 0
      BY <1>3, <2>1, <2>2, TotalEmpty DEF Accounted
    <3>2. ~(0 + tag.size <= MaxGopSize) /\ tag.size \in Nat
      BY <1>6, <3>1 DEF Fits, Sized
    <3> QED BY <3>1, <3>2, GopAssumption
  <2>3. push = room
    BY <1>4, <1>6
  <2> QED BY <1>1, <1>3, <2>1, <2>2, <2>3, GopAssumption DEF push, old
<1> QED BY <1>5, <1>6

(* Frames are dropped only under pressure: the newest of the dropped ones, *)
(* together with what is in the buffer now, would exceed its size.         *)
LEMMA PushDropsUnderPressure ==
    ASSUME NEW T, Sized(T), NEW gop \in Buffer(T), Accounted(gop), NEW tag \in T,
           ~tag.keyframe, Push(gop, tag).frames # << >>,
           NEW n \in 1 .. Len(gop.frames),
           Len(Push(gop, tag).frames) = Len(gop.frames) - n + 1
    PROVE  TotalSize(Push(gop, tag).frames) + gop.frames[n].size > MaxGopSize
<1> DEFINE room == MakeRoom(gop, tag.size)
           N == Len(gop.frames)
<1>1. gop.frames \in Seq(T) /\ N \in Nat /\ tag.size \in Nat
  BY DEF Buffer, Sized
<1>2. PICK m \in 0 .. N : /\ room = DropOldest(gop, m)
                          /\ Fits(room, tag.size) \/ m = N
                          /\ m # 0 => ~Fits(DropOldest(gop, m - 1), tag.size)
  BY MakeRoomFacts
<1>3. room \in Buffer(T) /\ room.frames = SubSeq(gop.frames, m + 1, N)
  BY <1>2, DropOldestFacts
<1>4. Push(gop, tag) = IF Fits(room, tag.size)
                       THEN [room EXCEPT !.frames = Append(@, tag), !.current_size = @ + tag.size]
                       ELSE room
  BY DEF Push
<1>5. Push(gop, tag).frames = Append(room.frames, tag)
  <2>1. CASE Fits(room, tag.size)
    BY <1>3, <1>4, <2>1 DEF Buffer
  <2>2. CASE ~Fits(room, tag.size)
    <3>1. room.frames = << >>
      BY <1>1, <1>2, <1>3, <2>2
    <3> QED BY <1>4, <2>2, <3>1
  <2> QED BY <2>1, <2>2
<1>6. m = n
  <2>1. Len(room.frames) = N - m
    <3>1. m \in 0 .. N /\ room.frames = SubSeq(gop.frames, m + 1, N)
      BY <1>3
    <3>2. Len(SubSeq(gop.frames, m + 1, N)) = N - m
      <4> HIDE DEF room
      <4> QED BY <1>1
    <3> QED BY <3>1, <3>2, Zenon
  <2>2. Len(Append(room.frames, tag)) = N - m + 1
    BY <1>3, <2>1, AppendProperties DEF Buffer
  <2>3. Len(Append(room.frames, tag)) = N - n + 1
    BY <1>5, Zenon
  <2>4. N - m + 1 = N - n + 1
    BY <2>2, <2>3, Zenon
  <2>5. n \in 1 .. N /\ m \in 0 .. N
    BY <1>2
  <2> HIDE DEF N
  <2> QED BY <1>1, <2>4, <2>5
<1>7. TotalSize(Push(gop, tag).frames) = TotalSize(SubSeq(gop.frames, n + 1, N)) + tag.size
  <2>1. room.frames \in Seq(T) /\ room.frames = SubSeq(gop.frames, n + 1, N)
    BY <1>3, <1>6 DEF Buffer
  <2>2. TotalSize(Append(room.frames, tag)) = TotalSize(room.frames) + tag.size
    <3> HIDE DEF room
    <3> QED BY <2>1, TotalAppend
  <2> QED BY <1>5, <2>1, <2>2, Zenon
<1>8. TotalSize(SubSeq(gop.frames, n, N))
          = gop.frames[n].size + TotalSize(SubSeq(gop.frames, n + 1, N))
  BY <1>1, TotalFirst
<1>9. DropOldest(gop, n - 1).current_size = TotalSize(SubSeq(gop.frames, n, N))
  <2>1. n - 1 \in 0 .. N /\ (n - 1) + 1 = n
    BY <1>1
  <2>2. /\ DropOldest(gop, n - 1).frames = SubSeq(gop.frames, n, N)
        /\ Accounted(DropOldest(gop, n - 1))
    BY <2>1, DropOldestFacts
  <2> QED BY <2>2 DEF Accounted
<1>10. ~(DropOldest(gop, n - 1).current_size + tag.size <= MaxGopSize)
  BY <1>2, <1>6 DEF Fits
<1>11. gop.frames[n].size \in Nat /\ TotalSize(SubSeq(gop.frames, n + 1, N)) \in Nat
  <2>1. gop.frames[n] \in T /\ SubSeq(gop.frames, n + 1, N) \in Seq(T)
    BY <1>1
  <2> QED BY <2>1, TotalType DEF Sized
<1> DEFINE kept == TotalSize(SubSeq(gop.frames, n + 1, N))
           first == gop.frames[n].size
           added == tag.size
<1>12. ~(first + kept + added <= MaxGopSize)
  BY <1>8, <1>9, <1>10
<1>13. first \in Nat /\ kept \in Nat /\ added \in Nat
  BY <1>1, <1>11
<1> HIDE DEF kept, first, added
<1>14. kept + added + first > MaxGopSize
  BY <1>12, <1>13, GopAssumption
<1> QED BY <1>7, <1>14 DEF kept, first, added
=============================================================================
