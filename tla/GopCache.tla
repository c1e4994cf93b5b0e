------------------------------ MODULE GopCache ------------------------------
(***************************************************************************)
(* The operations of the GOP buffer (src/media/gop.rs) as functions of its *)
(* value.  A buffered tag keeps what the buffer looks at: whether it is a  *)
(* keyframe and how large it is.  The headers and the metadata the buffer  *)
(* can also hold are set by no caller of the registry.                     *)
(***************************************************************************)
EXTENDS Integers, SequencesExt

CONSTANT MaxGopSize         \* max_size

ASSUME GopAssumption == MaxGopSize \in Nat

EmptyGop == [frames |-> << >>, current_size |-> 0, has_complete_gop |-> FALSE]

TotalSize(frames) ==
    LET total[n \in 0 .. Len(frames)] == IF n = 0 THEN 0 ELSE total[n - 1] + frames[n].size
    IN  total[Len(frames)]

(* A slip: the buffer may never be full.                                   *)
FitsWithRoom(gop, size) == gop.current_size + size < MaxGopSize

Fits(gop, size) == gop.current_size + size <= MaxGopSize

(* A slip: the frames go, their size stays.                                *)
DropOldestKeepSize(gop, n) == [gop EXCEPT !.frames = SubSeq(@, n + 1, Len(@))]

(* The buffer after pop_front, n times.                                    *)
DropOldest(gop, n) ==
    [gop EXCEPT !.frames = SubSeq(@, n + 1, Len(@)),
                !.current_size = @ - TotalSize(SubSeq(gop.frames, 1, n))]

(* The loop of push: drop the oldest frames until the new one fits or      *)
(* nothing is left.                                                        *)
MakeRoom(gop, size) ==
    LET enough == {n \in 0 .. Len(gop.frames) :
                      Fits(DropOldest(gop, n), size) \/ n = Len(gop.frames)}
    IN  DropOldest(gop, Min(enough))

(* Slips: a frame that cannot fit is ignored; a keyframe does not clear    *)
(* the buffer.                                                             *)
PushUnlessTooLarge(gop, tag) ==
    LET started == IF tag.keyframe THEN [EmptyGop EXCEPT !.has_complete_gop = TRUE] ELSE gop
        room    == MakeRoom(started, tag.size)
    IN  IF tag.size > MaxGopSize THEN started
        ELSE [room EXCEPT !.frames = Append(@, tag), !.current_size = @ + tag.size]

PushNoClear(gop, tag) ==
    LET room == MakeRoom(gop, tag.size)
    IN  IF Fits(room, tag.size)
        THEN [room EXCEPT !.frames = Append(@, tag), !.current_size = @ + tag.size]
        ELSE room

(* push: a keyframe starts a new GOP; a frame larger than the whole buffer *)
(* is rejected, after room has been made for it.                           *)
Push(gop, tag) ==
    LET started == IF tag.keyframe THEN [EmptyGop EXCEPT !.has_complete_gop = TRUE] ELSE gop
        room    == MakeRoom(started, tag.size)
    IN  IF Fits(room, tag.size)
        THEN [room EXCEPT !.frames = Append(@, tag), !.current_size = @ + tag.size]
        ELSE room
=============================================================================
