------------------------------- MODULE CellDir -------------------------------
(***************************************************************************)
(* The directory of a cell as it lies in memory (cell_dir, cell_dir_block, *)
(* cell_dir_overflow): each block has a few slots and two bit-field        *)
(* counters, and all blocks share one overflow area, an array that grows   *)
(* down from the header and is kept dense by moving its last entry into    *)
(* the gap. `held' is the caller's side, the entries of the ring.          *)
(***************************************************************************)
EXTENDS DirMap, Sequences

CONSTANTS
    Offsets,        \* offsets of body entries that occur
    Capacity,       \* how many chunks the ring can hold at one time
    CountMod,       \* 2^4: values of cell_dir_block.entry_count
    OverflowMod     \* 2^12: values of cell_dir_block.overflow_count

ASSUME CellDirAssumption ==
    /\ Offsets \subseteq Nat /\ Capacity \in Nat
    /\ CountMod \in Nat \ {0} /\ OverflowMod \in Nat \ {0}
    /\ BlockEntries < CountMod

VARIABLES
    slots,              \* block -> slot -> <<>> if unset, else <<entry>>
    block_count,        \* block -> cell_dir_block.entry_count
    block_overflow,     \* block -> cell_dir_block.overflow_count
    overflow,           \* the overflow area, first entry next to the header
    held                \* checksum of each chunk in the ring -> its offset

vars == <<slots, block_count, block_overflow, overflow, held>>

Blocks == {BlockOf[c] : c \in Checksums}
Slots == 1 .. BlockEntries

\* The bit-field overflow_count can count what a block puts into the overflow
\* area, even if all chunks of a full ring are its own. Nothing is said of how
\* many chunks come and go in the course of time.
FewEnough == Capacity < BlockEntries + OverflowMod

Entry(c, offset) == [checksum |-> c, offset |-> offset]

-----------------------------------------------------------------------------
\* cell_dir_block_find: the slots of block b that hold c. None is looked at when
\* the counter says the block is empty.
SlotsWith(b, c) ==
    {i \in Slots : block_count[b] # 0 /\ slots[b][i] # <<>>
                     /\ slots[b][i][1].checksum = c}

OverflowWith(c) == {k \in 1 .. Len(overflow) : overflow[k].checksum = c}

\* Faulty: looks at the slots only.
NeverOverflowed(b) == FALSE

\* cell_dir_block_overflowed
Overflowed(b) == block_overflow[b] > 0

Least(S) == CHOOSE i \in S : \A j \in S : i <= j
Greatest(S) == CHOOSE i \in S : \A j \in S : i >= j

\* cell_dir_get_chunk: the entry found for c, as a sequence of at most one. The
\* overflow area is searched from its far end, and only for a block that has
\* overflowed.
Lookup(c) ==
    LET b == BlockOf[c]
    IN IF SlotsWith(b, c) # {} THEN slots[b][Least(SlotsWith(b, c))]
       ELSE IF Overflowed(b) /\ OverflowWith(c) # {}
            THEN <<overflow[Greatest(OverflowWith(c))]>>
            ELSE <<>>

\* Faulty: the last slot of a block is never used.
UnsetButLast(b) == {i \in Slots \ {BlockEntries} : slots[b][i] = <<>>}

Unset(b) == {i \in Slots : slots[b][i] = <<>>}

\* cell_dir_block_add finds an unset slot.
AddToBlock(c, offset) ==
    LET b == BlockOf[c]
    IN /\ Unset(b) # {}
       /\ slots' = [slots EXCEPT ![b][Least(Unset(b))] = <<Entry(c, offset)>>]
       /\ block_count' = [block_count EXCEPT ![b] = (@ + 1) % CountMod]
       /\ UNCHANGED <<block_overflow, overflow>>

\* Faulty: the overflow counter of the block is not incremented.
AddUncounted(c, offset) ==
    /\ Unset(BlockOf[c]) = {}
    /\ overflow' = Append(overflow, Entry(c, offset))
    /\ UNCHANGED <<slots, block_count, block_overflow>>

\* cell_dir_overflow_add and cell_dir_block_increment_overflow
AddToOverflow(c, offset) ==
    LET b == BlockOf[c]
    IN /\ Unset(b) = {}
       /\ overflow' = Append(overflow, Entry(c, offset))
       /\ block_overflow' = [block_overflow EXCEPT ![b] = (@ + 1) % OverflowMod]
       /\ UNCHANGED <<slots, block_count>>

\* Faulty: one chunk less than necessary is given up.
RingTakesOneMore == Cardinality(DOMAIN held) <= Capacity

\* cell_body_add has given up chunks until the new one fits in the ring.
RingHasRoom == Cardinality(DOMAIN held) < Capacity

\* cell_dir_add, for a chunk that cell_add_chunk did not find.
Add(c, offset) ==
    /\ Lookup(c) = <<>> /\ RingHasRoom
    /\ AddToBlock(c, offset) \/ AddToOverflow(c, offset)
    /\ held' = [x \in DOMAIN held \cup {c} |-> IF x = c THEN offset ELSE held[x]]

\* Faulty: the overflow counter is decremented although a slot was emptied.
RemoveDecrementsBoth(c) ==
    LET b == BlockOf[c]
    IN /\ SlotsWith(b, c) # {}
       /\ slots' = [slots EXCEPT ![b][Least(SlotsWith(b, c))] = <<>>]
       /\ block_count' = [block_count EXCEPT ![b] = (@ - 1) % CountMod]
       /\ block_overflow' = [block_overflow EXCEPT ![b] = @ - 1]
       /\ UNCHANGED overflow

\* cell_dir_block_remove
RemoveFromBlock(c) ==
    LET b == BlockOf[c]
    IN /\ SlotsWith(b, c) # {}
       /\ slots' = [slots EXCEPT ![b][Least(SlotsWith(b, c))] = <<>>]
       /\ block_count' = [block_count EXCEPT ![b] = (@ - 1) % CountMod]
       /\ UNCHANGED <<block_overflow, overflow>>

\* cell_dir_overflow_remove moves the last entry of the area into the gap, and
\* cell_dir_block_decrement_overflow follows.
RemoveFromOverflow(c) ==
    LET b == BlockOf[c]
        gap == Greatest(OverflowWith(c))
        last == Len(overflow)
    IN /\ SlotsWith(b, c) = {}
       /\ Overflowed(b) /\ OverflowWith(c) # {}
       /\ overflow' = SubSeq([overflow EXCEPT ![gap] = overflow[last]], 1, last - 1)
       /\ block_overflow' = [block_overflow EXCEPT ![b] = @ - 1]
       /\ UNCHANGED <<slots, block_count>>

\* cell_dir_remove, which cell_header_remove calls for a chunk of the ring.
Remove(c) ==
    /\ c \in DOMAIN held
    /\ RemoveFromBlock(c) \/ RemoveFromOverflow(c)
    /\ held' = [x \in DOMAIN held \ {c} |-> held[x]]

\* cell_dir_init, in cell_header_init.
Reset ==
    /\ slots' = [b \in Blocks |-> [i \in Slots |-> <<>>]]
    /\ block_count' = [b \in Blocks |-> 0]
    /\ block_overflow' = [b \in Blocks |-> 0]
    /\ overflow' = <<>>
    /\ held' = [x \in {} |-> 0]

Init ==
    /\ slots = [b \in Blocks |-> [i \in Slots |-> <<>>]]
    /\ block_count = [b \in Blocks |-> 0]
    /\ block_overflow = [b \in Blocks |-> 0]
    /\ overflow = <<>>
    /\ held = [x \in {} |-> 0]

Next ==
    \/ \E c \in Checksums :
         Remove(c) \/ \E offset \in Offsets : Add(c, offset)
    \/ Reset

Spec == Init /\ [][Next]_vars

-----------------------------------------------------------------------------
(* Properties                                                              *)

Entries == [checksum : Checksums, offset : Offsets]

\* Type invariant; no counter leaves its bit-field.
TypeOK ==
    /\ slots \in [Blocks -> [Slots -> {<<>>} \cup {<<e>> : e \in Entries}]]
    /\ block_count \in [Blocks -> 0 .. CountMod - 1]
    /\ block_overflow \in [Blocks -> 0 .. OverflowMod - 1]
    /\ overflow \in Seq(Entries)
    /\ DOMAIN held \subseteq Checksums
    /\ \A c \in DOMAIN held : held[c] \in Offsets

\* cell_dir_get_chunk answers for every checksum what the ring holds, through
\* any sequence of additions and of removals that move entries of other blocks
\* about in the overflow area.
LookupIsHeld ==
    \A c \in Checksums :
      Lookup(c) = IF c \in DOMAIN held THEN <<Entry(c, held[c])>> ELSE <<>>

\* Each block's counter is the number of its entries in the shared overflow
\* area: one too low and Lookup skips the area while an entry is still in it.
OverflowCounted ==
    \A b \in Blocks :
      block_overflow[b] =
        Cardinality({k \in 1 .. Len(overflow) : BlockOf[overflow[k].checksum] = b})

-----------------------------------------------------------------------------
(* The map of module DirMap that this directory represents.                *)

InSlots == {c \in Checksums : SlotsWith(BlockOf[c], c) # {}}

dirBar ==
    [c \in InSlots \cup {c \in Checksums : OverflowWith(c) # {}} |->
        [offset |-> Lookup(c)[1].offset, over |-> c \notin InSlots]]

\* The directory implements the map that Cell is built on: a step adds one
\* entry, in a slot whenever its block has one left and else in the overflow
\* area, or removes one and leaves all others where they are, or clears it.
ImplementsDirMap ==
    /\ dirBar = EmptyDir
    /\ [][\/ \E c \in Checksums \ DOMAIN dirBar, offset \in Offsets :
               dirBar' = DirAdd(dirBar, c, offset)
          \/ \E c \in DOMAIN dirBar : dirBar' = DirRemove(dirBar, {c})
          \/ dirBar' = EmptyDir]_dirBar
=============================================================================
