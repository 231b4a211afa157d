------------------------------ MODULE ChunkRing ------------------------------
(***************************************************************************)
(* What a cell promises (README.md: "The cell is essentially a ring buffer *)
(* for cache chunks"), without offsets, sizes or a directory: the chunks   *)
(* written in this round, in the order they were added, and those of the   *)
(* round before that have not been overwritten yet.                        *)
(***************************************************************************)
EXTENDS Integers, Sequences

CONSTANT Chunks

VARIABLES
    newer,  \* added since the ring last started again at the bottom
    older   \* added in the round before, oldest first, not yet overwritten

vars == <<newer, older>>

In(s) == {s[i] : i \in 1 .. Len(s)}

Stored == In(newer) \cup In(older)

\* A chunk goes to the free room at the top and nothing is lost.
AddOnTop(c) ==
    /\ c \notin Stored /\ older = <<>>
    /\ newer' = newer \o <<c>>
    /\ UNCHANGED older

\* A chunk takes the place of the oldest chunks of a round, `least' - 1 of them
\* at least; `last' is one less than the length when the youngest chunk of the
\* round gives way to the directory.
Overwrite(c, round, kept, least) ==
    /\ c \notin Stored
    /\ \E first \in least .. Len(round) + 1, last \in Len(round) - 1 .. Len(round) :
         older' = SubSeq(round, first, last)
    /\ newer' = kept \o <<c>>

\* The top has no room: the next round starts.
StartAgain(c) ==
    /\ older = <<>> /\ newer # <<>>
    /\ Overwrite(c, newer, <<>>, 2)

\* The rest of the round is given up in vain: there is still no room.
Discard == older' = <<>> /\ UNCHANGED newer

\* The contents were lost in a crash.
Reset == newer' = <<>> /\ older' = <<>>

Init == newer = <<>> /\ older = <<>>

Next ==
    \/ \E c \in Chunks :
         AddOnTop(c) \/ Overwrite(c, older, newer, 1) \/ StartAgain(c)
    \/ Discard \/ Reset

Spec == Init /\ [][Next]_vars
=============================================================================
