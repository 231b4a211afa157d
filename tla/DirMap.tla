------------------------------- MODULE DirMap -------------------------------
(***************************************************************************)
(* What the directory of a cell promises (cell_dir.h), as operators on a   *)
(* map from the checksums it indexes to                                    *)
(*     [offset |-> where the body entry starts,                            *)
(*      over   |-> is the entry kept in the overflow area, below the       *)
(*                 header, and not in one of the slots of its block].      *)
(* The overflow area competes with the body for the slab, so its size is   *)
(* part of the promise. Cell works on this map; CellDir is the slot by     *)
(* slot implementation and is shown to keep the promise.                   *)
(***************************************************************************)
EXTENDS Integers, FiniteSets

CONSTANTS
    Checksums,      \* the SHA-256 checksums that occur
    BlockOf,        \* checksum -> its block: byte 17 of the checksum
    BlockEntries    \* CELL_DIR_BLOCK_ENTRIES: slots in a block

ASSUME DirMapAssumption ==
    /\ IsFiniteSet(Checksums)
    /\ DOMAIN BlockOf = Checksums
    /\ BlockEntries \in Nat

EmptyDir == [c \in {} |-> [offset |-> 0, over |-> FALSE]]

Slotted(d, b) == {c \in DOMAIN d : BlockOf[c] = b /\ ~d[c].over}

Overflow(d) == {c \in DOMAIN d : d[c].over}

\* cell_dir_add: a slot of the block when one is unset, else the overflow area.
DirAdd(d, c, offset) ==
    [x \in DOMAIN d \cup {c} |->
        IF x = c
        THEN [offset |-> offset,
              over   |-> Cardinality(Slotted(d, BlockOf[c])) >= BlockEntries]
        ELSE d[x]]

\* cell_dir_remove, once for every checksum of S that is indexed. The entries
\* that stay keep their place: a slot that falls free is not refilled from the
\* overflow area.
DirRemove(d, S) == [x \in DOMAIN d \ S |-> d[x]]
=============================================================================
