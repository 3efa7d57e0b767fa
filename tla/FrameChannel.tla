---------------------------- MODULE FrameChannel ----------------------------
(***************************************************************************)
(* What a connection promises to the code above it: frames are read as     *)
(* they were written, in the order they were written, and none is left     *)
(* out.  A damaged unit costs one frame or changes its kind.  The promise  *)
(* ends with a frame larger than the reader accepts, or when the damaged   *)
(* unit was a length: what is read from then on may be anything.  Frames   *)
(* that fit and connections without damage make it the queue module        *)
(* Coordinator uses.                                                       *)
(***************************************************************************)
EXTENDS Naturals, Sequences

CONSTANTS Frame, Kind, MaxPayload

VARIABLES
    queue,           \* frames written and not read
    got,             \* frames read
    spoilt,          \* a damaged unit is under way
    astray           \* the reader has lost the beginnings of frames

Put(f) ==
    /\ queue' = Append(queue, f)
    /\ UNCHANGED <<got, spoilt, astray>>

Get ==
    /\ ~astray /\ queue # <<>>
    /\ got' = Append(got, Head(queue))
    /\ queue' = Tail(queue)
    /\ UNCHANGED <<spoilt, astray>>

Spoil ==
    /\ ~spoilt /\ spoilt' = TRUE
    /\ UNCHANGED <<queue, got, astray>>

\* The damaged frame is refused, or read with another kind.
Misread ==
    /\ ~astray /\ queue # <<>> /\ spoilt
    /\ \/ UNCHANGED got
       \/ \E k \in Kind : got' = Append(got, [Head(queue) EXCEPT !.kind = k])
    /\ queue' = Tail(queue)
    /\ spoilt' = FALSE
    /\ UNCHANGED astray

GoAstray ==
    /\ ~astray /\ queue # <<>>
    /\ spoilt \/ Len(Head(queue).payload) > MaxPayload
    /\ astray' = TRUE
    /\ UNCHANGED <<queue, got, spoilt>>

\* A frame nobody wrote, perhaps.
Stray ==
    /\ astray
    /\ Len(got') = Len(got) + 1 /\ SubSeq(got', 1, Len(got)) = got
    /\ UNCHANGED <<queue, spoilt, astray>>

Init == queue = <<>> /\ got = <<>> /\ spoilt = FALSE /\ astray = FALSE

Next ==
    \/ \E f \in Frame : Put(f)
    \/ Get \/ Spoil \/ Misread \/ GoAstray \/ Stray

Spec == Init /\ [][Next]_<<queue, got, spoilt, astray>>
=============================================================================
