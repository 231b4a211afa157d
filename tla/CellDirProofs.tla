--------------------------- MODULE CellDirProofs ---------------------------
(***************************************************************************)
(* Proofs about CellDir, for every set of checksums, every number of       *)
(* blocks and of slots: the slots, the shared overflow area and the bit-   *)
(* field counters together hold the entries of the ring, each once.        *)
(***************************************************************************)
EXTENDS CellDir, FiniteSetTheorems, NaturalsInduction, TLAPS

\* The checksums of a block.
Members(b) == {c \in Checksums : BlockOf[c] = b}

SlotValues == {<<>>} \cup {<<e>> : e \in Entries}

-----------------------------------------------------------------------------
(* Least, Greatest and sets of indices                                     *)

\* A set of naturals that is not empty has a least element.
LEMMA LeastIsIn ==
    ASSUME NEW S \in SUBSET Nat, S # {}
    PROVE  Least(S) \in S /\ \A j \in S : Least(S) <= j
<1> DEFINE R == OpToRel(<, Nat)
<1>1. \A x, y \in Nat : <<y, x>> \in R <=> y < x
  BY DEF OpToRel
<1>2. IsWellFoundedOn(R, Nat)
  BY NatLessThanWellFounded
<1> HIDE DEF R
<1>3. PICK x \in S : \A y \in S : ~(<<y, x>> \in R)
  BY <1>2, WFMin
<1>4. ASSUME NEW y \in S PROVE x <= y
  <2>1. ~(y < x)
    BY <1>1, <1>3
  <2> QED
    BY <2>1
<1> QED
  BY <1>4 DEF Least

\* A set of indices that is not empty has a greatest element.
LEMMA GreatestIsIn ==
    ASSUME NEW n \in Nat, NEW S \in SUBSET (1 .. n), S # {}
    PROVE  Greatest(S) \in S
<1> DEFINE T == {j \in 1 .. n : n + 1 - j \in S}
<1>1. T \in SUBSET Nat /\ T # {}
  <2>1. PICK i \in S : TRUE
    OBVIOUS
  <2>2. n + 1 - i \in 1 .. n /\ n + 1 - (n + 1 - i) = i
    OBVIOUS
  <2>3. n + 1 - i \in T
    BY <2>2
  <2>4. T \subseteq Nat
    OBVIOUS
  <2> HIDE DEF T
  <2> QED
    BY <2>3, <2>4
<1>2. Least(T) \in T /\ \A j \in T : Least(T) <= j
  <2> HIDE DEF T
  <2> QED
    BY <1>1, LeastIsIn
<1>3. ASSUME NEW j \in S PROVE n + 1 - Least(T) >= j
  <2>1. n + 1 - j \in 1 .. n /\ n + 1 - (n + 1 - j) = j
    OBVIOUS
  <2>2. n + 1 - j \in T
    BY <2>1
  <2>3. Least(T) <= n + 1 - j /\ Least(T) \in 1 .. n
    BY <1>2, <2>2
  <2> QED
    BY <2>1, <2>3
<1>4. n + 1 - Least(T) \in S
  BY <1>2
<1> QED
  BY <1>3, <1>4 DEF Greatest

\* What Least and Greatest return for a set with one element.
LEMMA OnlyOne ==
    ASSUME NEW n \in Nat
    PROVE  Least({n}) = n /\ Greatest({n}) = n
BY DEF Least, Greatest

\* Sets with as many elements.
LEMMA SameCount ==
    ASSUME NEW S, NEW T, NEW f \in [S -> T], IsFiniteSet(S),
           \A a, b \in S : f[a] = f[b] => a = b,
           \A t \in T : \E a \in S : f[a] = t
    PROVE  IsFiniteSet(T) /\ Cardinality(T) = Cardinality(S)
<1>1. f \in Injection(S, T)
  BY DEF Injection, IsInjective
<1>2. f \in Surjection(S, T)
  BY DEF Surjection
<1>3. ExistsBijection(S, T)
  BY <1>1, <1>2 DEF ExistsBijection, Bijection
<1> QED
  BY <1>3, FS_Bijection

\* The size of two sets that share nothing.
LEMMA DisjointCount ==
    ASSUME NEW S, NEW T, IsFiniteSet(S), IsFiniteSet(T), S \cap T = {}
    PROVE  /\ IsFiniteSet(S \cup T)
           /\ Cardinality(S \cup T) = Cardinality(S) + Cardinality(T)
<1>1. /\ IsFiniteSet(S \cup T)
      /\ Cardinality(S \cup T) = Cardinality(S) + Cardinality(T) - Cardinality(S \cap T)
  BY FS_Union
<1>2. Cardinality(S \cap T) = 0 /\ Cardinality(S) \in Nat /\ Cardinality(T) \in Nat
  BY FS_EmptySet, FS_CardinalityType
<1> QED
  BY <1>1, <1>2

\* What the assumptions say of blocks, slots and counters.
LEMMA Constants ==
    /\ BlockEntries \in Nat /\ CountMod \in Nat /\ OverflowMod \in Nat
    /\ CountMod > 0 /\ OverflowMod > 0 /\ BlockEntries < CountMod
    /\ IsFiniteSet(Slots) /\ Cardinality(Slots) = BlockEntries
    /\ Slots \subseteq Nat
    /\ \A c \in Checksums : BlockOf[c] \in Blocks
<1>1. /\ BlockEntries \in Nat /\ CountMod \in Nat /\ OverflowMod \in Nat
      /\ CountMod > 0 /\ OverflowMod > 0 /\ BlockEntries < CountMod
  BY DirMapAssumption, CellDirAssumption
<1>2. IsFiniteSet(Slots) /\ Cardinality(Slots) = BlockEntries
  BY <1>1, FS_Interval DEF Slots
<1> QED
  BY <1>1, <1>2 DEF Slots, Blocks

-----------------------------------------------------------------------------
(* The inductive invariant                                                 *)

\* The checksum in a slot that is set.
Key(b, i) == slots[b][i][1].checksum

\* The slots of a block that are set, and its entries in the overflow area.
Filled(b) == {i \in Slots : slots[b][i] # <<>>}
OverflowOf(b) == {k \in 1 .. Len(overflow) : BlockOf[overflow[k].checksum] = b}

\* Every entry is that of a chunk of the ring, and in the block of its checksum.
EntriesInv ==
    /\ \A b \in Blocks, i \in Slots :
          slots[b][i] # <<>> =>
            /\ Key(b, i) \in DOMAIN held /\ BlockOf[Key(b, i)] = b
            /\ slots[b][i] = <<Entry(Key(b, i), held[Key(b, i)])>>
    /\ \A k \in 1 .. Len(overflow) :
          /\ overflow[k].checksum \in DOMAIN held
          /\ overflow[k].offset = held[overflow[k].checksum]

\* No chunk has two entries.
OnceInv ==
    /\ \A b \in Blocks, i, j \in Slots :
          slots[b][i] # <<>> /\ slots[b][j] # <<>> /\ Key(b, i) = Key(b, j) => i = j
    /\ \A j, k \in 1 .. Len(overflow) : overflow[j].checksum = overflow[k].checksum => j = k
    /\ \A b \in Blocks, i \in Slots, k \in 1 .. Len(overflow) :
          slots[b][i] # <<>> => Key(b, i) # overflow[k].checksum

\* Every chunk of the ring has an entry.
FoundInv ==
    \A c \in DOMAIN held :
      \/ \E i \in Slots : slots[BlockOf[c]][i] # <<>> /\ Key(BlockOf[c], i) = c
      \/ \E k \in 1 .. Len(overflow) : overflow[k].checksum = c

\* The counters of a block are right.
CountInv ==
    \A b \in Blocks :
      /\ block_count[b] = Cardinality(Filled(b))
      /\ block_overflow[b] = Cardinality(OverflowOf(b))

IInv == TypeOK /\ EntriesInv /\ OnceInv /\ FoundInv /\ CountInv

-----------------------------------------------------------------------------
(* What a lookup finds                                                     *)

\* What a slot that is set holds.
LEMMA SlotFacts ==
    ASSUME TypeOK, NEW b \in Blocks, NEW i \in Slots, slots[b][i] # <<>>
    PROVE  /\ slots[b][i][1] \in Entries /\ slots[b][i] = <<slots[b][i][1]>>
           /\ Key(b, i) \in Checksums
<1>1. PICK e \in Entries : slots[b][i] = <<e>>
  BY DEF TypeOK
<1>2. slots[b][i][1] = e
  BY <1>1
<1> QED
  BY <1>1, <1>2 DEF Key, Entries

\* The entries of the overflow area.
LEMMA OverflowFacts ==
    ASSUME TypeOK
    PROVE  /\ Len(overflow) \in Nat
           /\ \A k \in 1 .. Len(overflow) :
                overflow[k] \in Entries /\ overflow[k].checksum \in Checksums
           /\ \A b : IsFiniteSet(OverflowOf(b))
<1>1. Len(overflow) \in Nat /\ \A k \in 1 .. Len(overflow) : overflow[k] \in Entries
  BY DEF TypeOK
<1>2. \A k \in 1 .. Len(overflow) : overflow[k].checksum \in Checksums
  BY <1>1 DEF Entries
<1>3. IsFiniteSet(1 .. Len(overflow))
  BY <1>1, FS_Interval
<1>4. ASSUME NEW b PROVE IsFiniteSet(OverflowOf(b))
  BY <1>3, FS_Subset DEF OverflowOf
<1> QED
  BY <1>1, <1>2, <1>4

\* No more slots of a block are set than it has.
LEMMA FilledFinite ==
    \A b : IsFiniteSet(Filled(b)) /\ Cardinality(Filled(b)) \in Nat
             /\ Cardinality(Filled(b)) <= BlockEntries
<1>1. ASSUME NEW b PROVE IsFiniteSet(Filled(b)) /\ Cardinality(Filled(b)) <= BlockEntries
  BY Constants, FS_Subset DEF Filled
<1> QED
  BY <1>1, FS_CardinalityType

\* cell_dir_block_find does not miss a slot because of the counter.
LEMMA SlotsWithIs ==
    ASSUME IInv, NEW b \in Blocks, NEW c
    PROVE  SlotsWith(b, c) = {i \in Slots : slots[b][i] # <<>> /\ Key(b, i) = c}
<1>1. ASSUME NEW i \in Slots, slots[b][i] # <<>> PROVE block_count[b] # 0
  <2>1. i \in Filled(b)
    BY <1>1 DEF Filled
  <2>2. Cardinality(Filled(b)) # 0
    BY <2>1, FilledFinite, FS_EmptySet
  <2> QED
    BY <2>2 DEF IInv, CountInv
<1> QED
  BY <1>1 DEF SlotsWith, Key

\* Where a chunk that the ring does not hold is looked for.
LEMMA NotHeld ==
    ASSUME IInv, NEW c \in Checksums, c \notin DOMAIN held
    PROVE  SlotsWith(BlockOf[c], c) = {} /\ OverflowWith(c) = {} /\ Lookup(c) = <<>>
<1>1. SlotsWith(BlockOf[c], c) = {}
  <2>1. BlockOf[c] \in Blocks
    BY Constants
  <2>2. \A i \in Slots : ~(slots[BlockOf[c]][i] # <<>> /\ Key(BlockOf[c], i) = c)
    BY <2>1 DEF IInv, EntriesInv
  <2> QED
    BY <2>1, <2>2, SlotsWithIs
<1>2. OverflowWith(c) = {}
  BY DEF OverflowWith, IInv, EntriesInv
<1> QED
  BY <1>1, <1>2 DEF Lookup

\* A chunk with an entry in a slot.
LEMMA HeldInSlot ==
    ASSUME IInv, NEW c \in Checksums, SlotsWith(BlockOf[c], c) # {}
    PROVE  /\ c \in DOMAIN held /\ OverflowWith(c) = {}
           /\ Lookup(c) = <<Entry(c, held[c])>>
           /\ \E i \in Slots : /\ SlotsWith(BlockOf[c], c) = {i}
                               /\ Least(SlotsWith(BlockOf[c], c)) = i
                               /\ slots[BlockOf[c]][i] # <<>> /\ Key(BlockOf[c], i) = c
<1> DEFINE b == BlockOf[c]
<1>1. b \in Blocks
  BY Constants
<1> HIDE DEF b
<1>2. PICK i \in Slots : slots[b][i] # <<>> /\ Key(b, i) = c
  BY <1>1, SlotsWithIs DEF b
<1>3. SlotsWith(b, c) = {i}
  BY <1>1, <1>2, SlotsWithIs DEF IInv, OnceInv
<1>4. Least(SlotsWith(b, c)) = i
  BY <1>3, OnlyOne, Constants
<1>5. OverflowWith(c) = {}
  BY <1>1, <1>2 DEF OverflowWith, IInv, OnceInv
<1>6. c \in DOMAIN held /\ slots[b][i] = <<Entry(c, held[c])>>
  BY <1>1, <1>2 DEF IInv, EntriesInv
<1>7. Lookup(c) = slots[b][i]
  BY <1>3, <1>4 DEF Lookup, b
<1> QED
  BY <1>2, <1>3, <1>4, <1>5, <1>6, <1>7 DEF b

\* A chunk with an entry in the overflow area.
LEMMA HeldInOverflow ==
    ASSUME IInv, NEW c \in DOMAIN held, SlotsWith(BlockOf[c], c) = {}
    PROVE  /\ Lookup(c) = <<Entry(c, held[c])>> /\ Overflowed(BlockOf[c])
           /\ \E k \in 1 .. Len(overflow) :
                /\ OverflowWith(c) = {k} /\ Greatest(OverflowWith(c)) = k
                /\ overflow[k].checksum = c /\ k \in OverflowOf(BlockOf[c])
<1>1. c \in Checksums /\ BlockOf[c] \in Blocks /\ TypeOK
  BY Constants DEF IInv, TypeOK
<1>2. PICK k \in 1 .. Len(overflow) : overflow[k].checksum = c
  BY <1>1, SlotsWithIs DEF IInv, FoundInv
<1>3. OverflowWith(c) = {k}
  BY <1>2 DEF OverflowWith, IInv, OnceInv
<1>4. Greatest(OverflowWith(c)) = k
  <2>1. k \in Nat
    BY <1>1, OverflowFacts
  <2> QED
    BY <1>3, <2>1, OnlyOne
<1>5. k \in OverflowOf(BlockOf[c])
  BY <1>2 DEF OverflowOf
<1>6. Overflowed(BlockOf[c])
  <2>1. IsFiniteSet(OverflowOf(BlockOf[c]))
    BY <1>1, OverflowFacts
  <2>2. Cardinality(OverflowOf(BlockOf[c])) # 0 /\ Cardinality(OverflowOf(BlockOf[c])) \in Nat
    BY <1>5, <2>1, FS_EmptySet, FS_CardinalityType
  <2> QED
    BY <1>1, <2>2 DEF Overflowed, IInv, CountInv
<1>7. overflow[k] = Entry(c, held[c])
  <2>1. overflow[k] \in Entries /\ overflow[k].offset = held[c]
    BY <1>1, <1>2, OverflowFacts DEF IInv, EntriesInv
  <2> QED
    BY <1>2, <2>1 DEF Entry, Entries
<1>8. Lookup(c) = <<overflow[k]>>
  BY <1>3, <1>4, <1>6 DEF Lookup
<1> QED
  BY <1>2, <1>3, <1>4, <1>5, <1>6, <1>7, <1>8

\* cell_dir_get finds exactly the checksums that are held.
LEMMA IInvLookup == IInv => LookupIsHeld
<1>1. ASSUME IInv, NEW c \in Checksums, c \in DOMAIN held
      PROVE  Lookup(c) = <<Entry(c, held[c])>>
  BY <1>1, HeldInSlot, HeldInOverflow
<1>2. ASSUME IInv, NEW c \in Checksums, c \notin DOMAIN held
      PROVE  Lookup(c) = <<>>
  BY <1>2, NotHeld
<1> QED
  BY <1>1, <1>2 DEF LookupIsHeld

-----------------------------------------------------------------------------
(* The steps                                                               *)

\* One slot is written.
LEMMA SlotWritten ==
    ASSUME NEW s \in [Blocks -> [Slots -> SlotValues]], NEW b \in Blocks, NEW i \in Slots,
           NEW v \in SlotValues, NEW t, t = [s EXCEPT ![b][i] = v]
    PROVE  /\ t \in [Blocks -> [Slots -> SlotValues]] /\ t[b][i] = v
           /\ \A a \in Blocks, j \in Slots : a # b \/ j # i => t[a][j] = s[a][j]
OBVIOUS

\* A directory entry holds its checksum and its offset.
LEMMA EntryFacts ==
    ASSUME NEW c \in Checksums, NEW offset \in Offsets
    PROVE  /\ Entry(c, offset) \in Entries /\ <<Entry(c, offset)>> \in SlotValues
           /\ <<Entry(c, offset)>> # <<>> /\ <<Entry(c, offset)>>[1].checksum = c
           /\ Entry(c, offset).checksum = c /\ Entry(c, offset).offset = offset
BY DEF Entry, Entries, SlotValues

\* A chunk goes into a slot of its block.
LEMMA AddToBlockStep ==
    ASSUME IInv, NEW c \in Checksums, NEW offset \in Offsets, c \notin DOMAIN held,
           AddToBlock(c, offset),
           held' = [x \in DOMAIN held \cup {c} |-> IF x = c THEN offset ELSE held[x]]
    PROVE  IInv'
<1> DEFINE v == <<Entry(c, offset)>>
<1>1. PICK b \in Blocks : b = BlockOf[c]
  BY Constants
<1>2. PICK i \in Slots : i = Least(Unset(b)) /\ slots[b][i] = <<>>
  <2>1. Unset(b) \in SUBSET Nat /\ Unset(b) # {}
    BY <1>1, Constants DEF AddToBlock, Unset
  <2>2. Least(Unset(b)) \in Unset(b)
    BY <2>1, LeastIsIn
  <2> QED
    BY <2>2 DEF Unset
<1>3. /\ slots' = [slots EXCEPT ![b][i] = v]
      /\ block_count' = [block_count EXCEPT ![b] = (@ + 1) % CountMod]
      /\ UNCHANGED <<block_overflow, overflow>>
  BY <1>1, <1>2 DEF AddToBlock
<1>4. v \in SlotValues /\ v # <<>> /\ v[1].checksum = c
  BY EntryFacts
<1>5. /\ slots' \in [Blocks -> [Slots -> SlotValues]] /\ slots'[b][i] = v
      /\ \A a \in Blocks, j \in Slots : a # b \/ j # i => slots'[a][j] = slots[a][j]
  <2> HIDE DEF v
  <2>1. slots \in [Blocks -> [Slots -> SlotValues]]
    BY DEF IInv, TypeOK, SlotValues
  <2> QED
    BY <1>3, <1>4, <2>1, SlotWritten
<1>6. /\ DOMAIN held' = DOMAIN held \cup {c} /\ held'[c] = offset
      /\ \A x \in DOMAIN held : held'[x] = held[x]
  OBVIOUS
<1>7. BlockOf[c] = b
  BY <1>1
<1>8. Filled(b)' = Filled(b) \cup {i} /\ i \notin Filled(b)
      /\ \A a \in Blocks \ {b} : Filled(a)' = Filled(a)
  <2> HIDE DEF v
  <2> QED
    BY <1>1, <1>2, <1>4, <1>5 DEF Filled
<1>9. /\ block_count'[b] = block_count[b] + 1
      /\ block_count' \in [Blocks -> 0 .. CountMod - 1]
      /\ \A a \in Blocks \ {b} : block_count'[a] = block_count[a]
  <2>1. block_count[b] \in Nat /\ block_count[b] + 1 <= BlockEntries
    <3>1. IsFiniteSet(Filled(b)) /\ Cardinality(Filled(b)) \in Nat
      BY FilledFinite
    <3>2. Cardinality(Filled(b) \cup {i}) = Cardinality(Filled(b)) + 1
      BY <1>8, <3>1, FS_AddElement
    <3>3. Cardinality(Filled(b) \cup {i}) <= BlockEntries
      BY <1>2, Constants, FS_Subset DEF Filled
    <3> QED
      BY <1>1, <3>1, <3>2, <3>3 DEF IInv, CountInv
  <2>2. (block_count[b] + 1) % CountMod = block_count[b] + 1
    BY <2>1, Constants
  <2>3. block_count[b] + 1 \in 0 .. CountMod - 1
    BY <2>1, Constants
  <2> QED
    BY <1>1, <1>3, <2>2, <2>3 DEF IInv, TypeOK
<1>10. TypeOK'
  BY <1>3, <1>5, <1>6, <1>9 DEF IInv, TypeOK, SlotValues
<1>11. EntriesInv'
  <2>1. ASSUME NEW a \in Blocks, NEW j \in Slots, slots'[a][j] # <<>>
        PROVE  /\ Key(a, j)' \in DOMAIN held' /\ BlockOf[Key(a, j)'] = a
               /\ slots'[a][j] = <<Entry(Key(a, j)', held'[Key(a, j)'])>>
    <3>1. CASE a = b /\ j = i
      <4>1. slots'[a][j] = v /\ Key(a, j)' = c
        BY <1>4, <1>5, <3>1 DEF Key
      <4> QED
        BY <1>6, <1>7, <3>1, <4>1
    <3>2. CASE a # b \/ j # i
      <4>1. slots'[a][j] = slots[a][j] /\ Key(a, j)' = Key(a, j)
        BY <1>5, <3>2 DEF Key
      <4>2. /\ Key(a, j) \in DOMAIN held /\ BlockOf[Key(a, j)] = a
            /\ slots[a][j] = <<Entry(Key(a, j), held[Key(a, j)])>>
        BY <2>1, <4>1 DEF IInv, EntriesInv
      <4>3. held'[Key(a, j)] = held[Key(a, j)]
        BY <1>6, <4>2
      <4> QED
        BY <1>6, <4>1, <4>2, <4>3
    <3> QED
      BY <3>1, <3>2
  <2>2. ASSUME NEW k \in 1 .. Len(overflow)
        PROVE  /\ overflow[k].checksum \in DOMAIN held'
               /\ overflow[k].offset = held'[overflow[k].checksum]
    BY <1>6 DEF IInv, EntriesInv
  <2> QED
    BY <1>3, <2>1, <2>2 DEF EntriesInv
<1>12. OnceInv'
  <2>1. \A a \in Blocks, j \in Slots :
          slots'[a][j] # <<>> =>
            \/ a = b /\ j = i /\ Key(a, j)' = c
            \/ slots[a][j] # <<>> /\ Key(a, j)' = Key(a, j) /\ Key(a, j) # c
    <3>1. ASSUME NEW a \in Blocks, NEW j \in Slots, slots'[a][j] # <<>>, a # b \/ j # i
          PROVE  slots[a][j] # <<>> /\ Key(a, j)' = Key(a, j) /\ Key(a, j) # c
      BY <1>5, <3>1 DEF Key, IInv, EntriesInv
    <3>2. Key(b, i)' = c
      BY <1>4, <1>5 DEF Key
    <3> QED
      BY <3>1, <3>2
  <2>2. \A k \in 1 .. Len(overflow) : overflow[k].checksum # c
    BY DEF IInv, EntriesInv
  <2> HIDE DEF v
  <2> QED
    BY <1>3, <2>1, <2>2 DEF IInv, OnceInv
<1>13. FoundInv'
  <2>1. ASSUME NEW x \in DOMAIN held
        PROVE  \/ \E j \in Slots : slots'[BlockOf[x]][j] # <<>> /\ Key(BlockOf[x], j)' = x
               \/ \E k \in 1 .. Len(overflow') : overflow'[k].checksum = x
    <3>1. x \in Checksums /\ BlockOf[x] \in Blocks
      BY Constants DEF IInv, TypeOK
    <3>2. ASSUME NEW j \in Slots, slots[BlockOf[x]][j] # <<>>
          PROVE  slots'[BlockOf[x]][j] = slots[BlockOf[x]][j]
      BY <1>2, <1>5, <3>1, <3>2
    <3> QED
      BY <1>3, <3>2 DEF IInv, FoundInv, Key
  <2>2. slots'[b][i] # <<>> /\ Key(b, i)' = c
    BY <1>4, <1>5 DEF Key
  <2> QED
    BY <1>2, <1>6, <1>7, <2>1, <2>2 DEF FoundInv
<1>14. CountInv'
  <2>1. Cardinality(Filled(b) \cup {i}) = Cardinality(Filled(b)) + 1
    BY <1>8, FilledFinite, FS_AddElement
  <2>2. \A a \in Blocks : block_count'[a] = Cardinality(Filled(a)')
    BY <1>8, <1>9, <2>1 DEF IInv, CountInv
  <2>3. \A a \in Blocks : block_overflow'[a] = Cardinality(OverflowOf(a)')
    BY <1>3 DEF IInv, CountInv, OverflowOf
  <2> QED
    BY <2>2, <2>3 DEF CountInv
<1> QED
  BY <1>10, <1>11, <1>12, <1>13, <1>14 DEF IInv

\* The checksums of a block that are in its slots, and in the overflow area.
SlotKeys(b) == {c \in InSlots : BlockOf[c] = b}
OverflowKeys(b) == {c \in Members(b) : OverflowWith(c) # {}}

\* There are as many checksums in the slots as slots are set.
LEMMA SlotKeysCount ==
    ASSUME IInv, NEW b \in Blocks
    PROVE  /\ IsFiniteSet(SlotKeys(b)) /\ Cardinality(SlotKeys(b)) = Cardinality(Filled(b))
           /\ SlotKeys(b) \subseteq Members(b)
<1> DEFINE f == [i \in Filled(b) |-> Key(b, i)]
<1>1. \A c \in Checksums : c \in SlotKeys(b) <=>
          BlockOf[c] = b /\ \E i \in Filled(b) : Key(b, i) = c
  <2>1. ASSUME NEW c \in Checksums
        PROVE  c \in SlotKeys(b) <=> BlockOf[c] = b /\ SlotsWith(b, c) # {}
    BY <2>1 DEF SlotKeys, InSlots
  <2>2. ASSUME NEW c \in Checksums
        PROVE  SlotsWith(b, c) # {} <=> \E i \in Filled(b) : Key(b, i) = c
    BY SlotsWithIs DEF Filled
  <2> QED
    BY <2>1, <2>2
<1>2. \A i \in Filled(b) : Key(b, i) \in Checksums /\ BlockOf[Key(b, i)] = b
  BY SlotFacts DEF IInv, EntriesInv, Filled
<1>3. SlotKeys(b) \subseteq Checksums
  BY DEF SlotKeys, InSlots
<1>4. f \in [Filled(b) -> SlotKeys(b)]
  BY <1>1, <1>2
<1>5. \A i, j \in Filled(b) : f[i] = f[j] => i = j
  BY DEF IInv, OnceInv, Filled
<1>6. \A c \in SlotKeys(b) : \E i \in Filled(b) : f[i] = c
  BY <1>1, <1>3
<1>7. IsFiniteSet(SlotKeys(b)) /\ Cardinality(SlotKeys(b)) = Cardinality(Filled(b))
  <2> HIDE DEF f
  <2> QED
    BY <1>4, <1>5, <1>6, FilledFinite, SameCount
<1> QED
  BY <1>3, <1>7 DEF Members, SlotKeys

\* And as many in the overflow area as the block has entries there.
LEMMA OverflowKeysCount ==
    ASSUME IInv, NEW b \in Blocks
    PROVE  /\ IsFiniteSet(OverflowKeys(b))
           /\ Cardinality(OverflowKeys(b)) = Cardinality(OverflowOf(b))
<1> DEFINE f == [k \in OverflowOf(b) |-> overflow[k].checksum]
<1>1. /\ IsFiniteSet(OverflowOf(b)) /\ OverflowOf(b) \subseteq 1 .. Len(overflow)
      /\ \A k \in OverflowOf(b) : overflow[k].checksum \in Members(b)
  BY OverflowFacts DEF IInv, OverflowOf, Members
<1>2. f \in [OverflowOf(b) -> OverflowKeys(b)]
  BY <1>1 DEF OverflowKeys, OverflowWith
<1>3. \A j, k \in OverflowOf(b) : f[j] = f[k] => j = k
  BY <1>1 DEF IInv, OnceInv
<1>4. \A c \in OverflowKeys(b) : \E k \in OverflowOf(b) : f[k] = c
  BY DEF OverflowKeys, OverflowWith, OverflowOf, Members
<1> HIDE DEF f
<1> QED
  BY <1>1, <1>2, <1>3, <1>4, SameCount

\* The slots are all in use exactly when there are BlockEntries checksums in them.
LEMMA BlockIsFull ==
    ASSUME IInv, NEW b \in Blocks
    PROVE  Unset(b) = {} <=> Cardinality(SlotKeys(b)) >= BlockEntries
<1>1. Unset(b) = {} <=> Filled(b) = Slots
  BY DEF Unset, Filled
<1>2. Filled(b) = Slots <=> Cardinality(Filled(b)) >= BlockEntries
  <2>1. Filled(b) \in SUBSET Slots
    BY DEF Filled
  <2>2. Cardinality(Slots) = Cardinality(Filled(b)) => Slots = Filled(b)
    BY <2>1, Constants, FS_Subset
  <2> QED
    BY <2>2, Constants, FilledFinite
<1> QED
  BY <1>1, <1>2, SlotKeysCount

\* A block that has to put one more entry into the overflow area can count it: the
\* entries in its slots and those there already are chunks of the ring.
LEMMA OverflowFits ==
    ASSUME FewEnough, IInv, NEW b \in Blocks, RingHasRoom, Unset(b) = {}
    PROVE  block_overflow[b] \in Nat /\ block_overflow[b] + 1 < OverflowMod
<1>1. /\ IsFiniteSet(SlotKeys(b)) /\ Cardinality(SlotKeys(b)) = BlockEntries
      /\ SlotKeys(b) \subseteq Members(b)
  BY SlotKeysCount, BlockIsFull, FilledFinite, Constants
<1>2. IsFiniteSet(OverflowKeys(b)) /\ Cardinality(OverflowKeys(b)) = block_overflow[b]
  BY OverflowKeysCount DEF IInv, CountInv
<1>3. SlotKeys(b) \cap OverflowKeys(b) = {}
  <2>1. \A x \in SlotKeys(b) : OverflowWith(x) = {}
    BY HeldInSlot DEF SlotKeys, InSlots
  <2> QED
    BY <2>1 DEF OverflowKeys
<1> DEFINE S == SlotKeys(b) \cup OverflowKeys(b)
<1>4. IsFiniteSet(S) /\ Cardinality(S) = BlockEntries + block_overflow[b]
  BY <1>1, <1>2, <1>3, DisjointCount
<1>5. S \subseteq DOMAIN held
  <2>1. \A x \in Checksums : SlotsWith(BlockOf[x], x) # {} \/ OverflowWith(x) # {} => x \in DOMAIN held
    BY NotHeld
  <2> QED
    BY <2>1 DEF SlotKeys, InSlots, OverflowKeys, Members
<1>6. IsFiniteSet(DOMAIN held)
  BY DirMapAssumption, FS_Subset DEF IInv, TypeOK
<1>7. Cardinality(S) <= Cardinality(DOMAIN held) /\ Cardinality(DOMAIN held) \in Nat
  <2> HIDE DEF S
  <2> QED
    BY <1>5, <1>6, FS_Subset, FS_CardinalityType
<1>8. Cardinality(DOMAIN held) < BlockEntries + OverflowMod - 1
  BY <1>7, Constants, CellDirAssumption DEF FewEnough, RingHasRoom
<1>9. block_overflow[b] \in Nat
  BY <1>2, FS_CardinalityType
<1> QED
  BY <1>4, <1>7, <1>8, <1>9, Constants

\* A chunk goes into the overflow area.
LEMMA AddToOverflowStep ==
    ASSUME FewEnough, IInv, NEW c \in Checksums, NEW offset \in Offsets, c \notin DOMAIN held,
           RingHasRoom, AddToOverflow(c, offset),
           held' = [x \in DOMAIN held \cup {c} |-> IF x = c THEN offset ELSE held[x]]
    PROVE  IInv'
<1> DEFINE e == Entry(c, offset)
<1>1. PICK b \in Blocks : b = BlockOf[c]
  BY Constants
<1>2. PICK n \in Nat : n = Len(overflow)
  BY OverflowFacts DEF IInv
<1>3. /\ overflow' = Append(overflow, e) /\ Unset(b) = {}
      /\ block_overflow' = [block_overflow EXCEPT ![b] = (@ + 1) % OverflowMod]
      /\ UNCHANGED <<slots, block_count>>
  BY <1>1 DEF AddToOverflow
<1>4. e \in Entries /\ e.checksum = c /\ e.offset = offset
  BY EntryFacts
<1> HIDE DEF e
<1>5. /\ overflow' \in Seq(Entries) /\ Len(overflow') = n + 1 /\ overflow'[n + 1] = e
      /\ \A k \in 1 .. n : overflow'[k] = overflow[k]
  BY <1>2, <1>3, <1>4 DEF IInv, TypeOK
<1>6. /\ DOMAIN held' = DOMAIN held \cup {c} /\ held'[c] = offset
      /\ \A x \in DOMAIN held : held'[x] = held[x]
  OBVIOUS
<1>7. /\ block_overflow'[b] = block_overflow[b] + 1
      /\ block_overflow' \in [Blocks -> 0 .. OverflowMod - 1]
      /\ \A a \in Blocks \ {b} : block_overflow'[a] = block_overflow[a]
  <2>1. block_overflow[b] \in Nat /\ block_overflow[b] + 1 < OverflowMod
    BY <1>3, OverflowFits
  <2>2. (block_overflow[b] + 1) % OverflowMod = block_overflow[b] + 1
    BY <2>1, Constants
  <2>3. block_overflow[b] + 1 \in 0 .. OverflowMod - 1
    BY <2>1, Constants
  <2> QED
    BY <1>3, <2>2, <2>3 DEF IInv, TypeOK
<1>8. TypeOK'
  BY <1>3, <1>5, <1>6, <1>7 DEF IInv, TypeOK
<1>9. EntriesInv'
  <2>1. ASSUME NEW a \in Blocks, NEW j \in Slots, slots[a][j] # <<>>
        PROVE  /\ Key(a, j) \in DOMAIN held' /\ BlockOf[Key(a, j)] = a
               /\ slots[a][j] = <<Entry(Key(a, j), held'[Key(a, j)])>>
    <3>1. /\ Key(a, j) \in DOMAIN held /\ BlockOf[Key(a, j)] = a
          /\ slots[a][j] = <<Entry(Key(a, j), held[Key(a, j)])>>
      BY <2>1 DEF IInv, EntriesInv
    <3>2. held'[Key(a, j)] = held[Key(a, j)]
      BY <1>6, <3>1
    <3> QED
      BY <1>6, <3>1, <3>2
  <2>2. ASSUME NEW k \in 1 .. n + 1
        PROVE  /\ overflow'[k].checksum \in DOMAIN held'
               /\ overflow'[k].offset = held'[overflow'[k].checksum]
    <3>1. CASE k = n + 1
      BY <1>4, <1>5, <1>6, <3>1
    <3>2. CASE k \in 1 .. n
      BY <1>2, <1>5, <1>6, <3>2 DEF IInv, EntriesInv
    <3> QED
      BY <1>2, <3>1, <3>2
  <2> QED
    BY <1>3, <1>5, <2>1, <2>2 DEF EntriesInv, Key
<1>10. OnceInv'
  <2>1. \A k \in 1 .. n + 1 :
          \/ k = n + 1 /\ overflow'[k].checksum = c
          \/ k \in 1 .. n /\ overflow'[k].checksum = overflow[k].checksum
               /\ overflow[k].checksum # c
    BY <1>2, <1>4, <1>5 DEF IInv, EntriesInv
  <2>2. \A a \in Blocks, j \in Slots : slots[a][j] # <<>> => Key(a, j) # c
    BY DEF IInv, EntriesInv
  <2> QED
    BY <1>2, <1>3, <1>5, <2>1, <2>2 DEF IInv, OnceInv, Key
<1>11. FoundInv'
  <2>1. n + 1 \in 1 .. n + 1 /\ 1 .. n \subseteq 1 .. n + 1
    BY <1>2
  <2> QED
    BY <1>2, <1>3, <1>4, <1>5, <1>6, <2>1 DEF IInv, FoundInv, Key
<1>12. CountInv'
  <2>1. /\ OverflowOf(b)' = OverflowOf(b) \cup {n + 1} /\ n + 1 \notin OverflowOf(b)
        /\ \A a \in Blocks \ {b} : OverflowOf(a)' = OverflowOf(a)
    <3>1. \A k : k \in 1 .. n + 1 <=> k = n + 1 \/ k \in 1 .. n
      BY <1>2
    <3>2. n + 1 \notin 1 .. n
      BY <1>2
    <3> QED
      BY <1>1, <1>2, <1>4, <1>5, <3>1, <3>2 DEF OverflowOf
  <2>2. Cardinality(OverflowOf(b) \cup {n + 1}) = Cardinality(OverflowOf(b)) + 1
    BY <2>1, OverflowFacts, FS_AddElement DEF IInv
  <2>3. \A a \in Blocks : block_overflow'[a] = Cardinality(OverflowOf(a)')
    BY <1>7, <2>1, <2>2 DEF IInv, CountInv
  <2>4. \A a \in Blocks : block_count'[a] = Cardinality(Filled(a)')
    BY <1>3 DEF IInv, CountInv, Filled
  <2> QED
    BY <2>3, <2>4 DEF CountInv
<1> QED
  BY <1>8, <1>9, <1>10, <1>11, <1>12 DEF IInv

\* A chunk leaves its slot.
LEMMA RemoveFromBlockStep ==
    ASSUME IInv, NEW c \in DOMAIN held, RemoveFromBlock(c),
           held' = [x \in DOMAIN held \ {c} |-> held[x]]
    PROVE  IInv'
<1>1. c \in Checksums
  BY DEF IInv, TypeOK
<1>2. PICK b \in Blocks : b = BlockOf[c]
  BY <1>1, Constants
<1>3. PICK i \in Slots : /\ Least(SlotsWith(b, c)) = i
                         /\ slots[b][i] # <<>> /\ Key(b, i) = c
  BY <1>1, <1>2, HeldInSlot DEF RemoveFromBlock
<1>4. OverflowWith(c) = {}
  BY <1>1, HeldInSlot DEF RemoveFromBlock
<1>5. /\ slots' = [slots EXCEPT ![b][i] = <<>>]
      /\ block_count' = [block_count EXCEPT ![b] = (@ - 1) % CountMod]
      /\ UNCHANGED <<block_overflow, overflow>>
  BY <1>2, <1>3 DEF RemoveFromBlock
<1>6. /\ slots' \in [Blocks -> [Slots -> SlotValues]] /\ slots'[b][i] = <<>>
      /\ \A a \in Blocks, j \in Slots : a # b \/ j # i => slots'[a][j] = slots[a][j]
  <2>1. slots \in [Blocks -> [Slots -> SlotValues]] /\ <<>> \in SlotValues
    BY DEF IInv, TypeOK, SlotValues
  <2> QED
    BY <1>5, <2>1, SlotWritten
<1>7. DOMAIN held' = DOMAIN held \ {c} /\ \A x \in DOMAIN held \ {c} : held'[x] = held[x]
  OBVIOUS
<1>8. /\ Filled(b)' = Filled(b) \ {i} /\ i \in Filled(b)
      /\ \A a \in Blocks \ {b} : Filled(a)' = Filled(a)
  BY <1>3, <1>6 DEF Filled
<1>9. /\ block_count'[b] = block_count[b] - 1
      /\ block_count' \in [Blocks -> 0 .. CountMod - 1]
      /\ \A a \in Blocks \ {b} : block_count'[a] = block_count[a]
  <2>1. block_count[b] \in 1 .. CountMod - 1
    <3>1. Cardinality(Filled(b)) # 0
      BY <1>8, FilledFinite, FS_EmptySet
    <3> QED
      BY <3>1 DEF IInv, CountInv, TypeOK
  <2>2. (block_count[b] - 1) % CountMod = block_count[b] - 1
    BY <2>1, Constants
  <2>3. block_count[b] - 1 \in 0 .. CountMod - 1
    BY <2>1, Constants
  <2> QED
    BY <1>5, <2>2, <2>3 DEF IInv, TypeOK
<1>10. TypeOK'
  BY <1>5, <1>6, <1>7, <1>9 DEF IInv, TypeOK, SlotValues
<1>11. \A a \in Blocks, j \in Slots :
         slots'[a][j] # <<>> =>
           slots'[a][j] = slots[a][j] /\ Key(a, j)' = Key(a, j) /\ Key(a, j) # c
  <2>1. ASSUME NEW a \in Blocks, NEW j \in Slots, slots'[a][j] # <<>>
        PROVE  slots'[a][j] = slots[a][j] /\ Key(a, j)' = Key(a, j)
    BY <1>6, <2>1 DEF Key
  <2>2. ASSUME NEW a \in Blocks, NEW j \in Slots, slots'[a][j] # <<>>, Key(a, j) = c
        PROVE  FALSE
    <3>1. slots[a][j] # <<>> /\ a = b
      BY <1>2, <2>1, <2>2 DEF IInv, EntriesInv
    <3>2. j = i
      BY <1>3, <2>2, <3>1 DEF IInv, OnceInv
    <3> QED
      BY <1>6, <2>2, <3>1, <3>2
  <2> QED
    BY <2>1, <2>2
<1>12. EntriesInv'
  <2>1. ASSUME NEW a \in Blocks, NEW j \in Slots, slots'[a][j] # <<>>
        PROVE  /\ Key(a, j)' \in DOMAIN held' /\ BlockOf[Key(a, j)'] = a
               /\ slots'[a][j] = <<Entry(Key(a, j)', held'[Key(a, j)'])>>
    <3>1. PICK x : x = Key(a, j)
      OBVIOUS
    <3>2. Key(a, j)' = x /\ slots'[a][j] = slots[a][j] /\ x # c
      BY <1>11, <2>1, <3>1
    <3>3. x \in DOMAIN held /\ BlockOf[x] = a /\ slots[a][j] = <<Entry(x, held[x])>>
      BY <2>1, <3>1, <3>2 DEF IInv, EntriesInv
    <3>4. x \in DOMAIN held' /\ held'[x] = held[x]
      BY <1>7, <3>2, <3>3
    <3> QED
      BY <3>2, <3>3, <3>4
  <2>2. ASSUME NEW k \in 1 .. Len(overflow)
        PROVE  /\ overflow[k].checksum \in DOMAIN held'
               /\ overflow[k].offset = held'[overflow[k].checksum]
    BY <1>4, <1>7 DEF IInv, EntriesInv, OverflowWith
  <2> QED
    BY <1>5, <2>1, <2>2 DEF EntriesInv
<1>13. OnceInv'
  BY <1>5, <1>11 DEF IInv, OnceInv
<1>14. FoundInv'
  <2>1. ASSUME NEW x \in DOMAIN held', NEW j \in Slots,
               slots[BlockOf[x]][j] # <<>>, Key(BlockOf[x], j) = x
        PROVE  slots'[BlockOf[x]][j] # <<>> /\ Key(BlockOf[x], j)' = x
    <3>1. x # c /\ x \in Checksums /\ BlockOf[x] \in Blocks
      BY <1>7, Constants DEF IInv, TypeOK
    <3>2. slots'[BlockOf[x]][j] = slots[BlockOf[x]][j]
      BY <1>3, <1>6, <2>1, <3>1
    <3> QED
      BY <2>1, <3>2 DEF Key
  <2> QED
    BY <1>5, <1>7, <2>1 DEF IInv, FoundInv
<1>15. CountInv'
  <2>1. Cardinality(Filled(b) \ {i}) = Cardinality(Filled(b)) - 1
    BY <1>8, FilledFinite, FS_RemoveElement
  <2>2. \A a \in Blocks : block_count'[a] = Cardinality(Filled(a)')
    BY <1>8, <1>9, <2>1 DEF IInv, CountInv
  <2>3. \A a \in Blocks : block_overflow'[a] = Cardinality(OverflowOf(a)')
    BY <1>5 DEF IInv, CountInv, OverflowOf
  <2> QED
    BY <2>2, <2>3 DEF CountInv
<1> QED
  BY <1>10, <1>12, <1>13, <1>14, <1>15 DEF IInv

\* cell_dir_overflow_remove: what is where once the last entry is in the gap.
LEMMA GapFilled ==
    ASSUME NEW s \in Seq(Entries), NEW n \in Nat, n = Len(s), NEW g \in 1 .. n,
           NEW t, t = SubSeq([s EXCEPT ![g] = s[n]], 1, n - 1)
    PROVE  /\ t \in Seq(Entries) /\ Len(t) = n - 1
           /\ \A k \in 1 .. n - 1 : t[k] = IF k = g THEN s[n] ELSE s[k]
<1> DEFINE u == [s EXCEPT ![g] = s[n]]
<1>1. u \in Seq(Entries) /\ Len(u) = n /\ \A k \in 1 .. n : u[k] = IF k = g THEN s[n] ELSE s[k]
  OBVIOUS
<1> HIDE DEF u
<1>2. t = SubSeq(u, 1, n - 1)
  BY DEF u
<1> QED
  BY <1>1, <1>2

\* A chunk leaves the overflow area.
LEMMA RemoveFromOverflowStep ==
    ASSUME IInv, NEW c \in DOMAIN held, RemoveFromOverflow(c),
           held' = [x \in DOMAIN held \ {c} |-> held[x]]
    PROVE  IInv'
<1>1. c \in Checksums
  BY DEF IInv, TypeOK
<1>2. PICK b \in Blocks : b = BlockOf[c]
  BY <1>1, Constants
<1>3. PICK n \in Nat : n = Len(overflow)
  BY OverflowFacts DEF IInv
<1>4. PICK g \in 1 .. n : /\ Greatest(OverflowWith(c)) = g /\ overflow[g].checksum = c
                          /\ g \in OverflowOf(b)
  BY <1>2, <1>3, HeldInOverflow DEF RemoveFromOverflow
<1>5. /\ overflow' = SubSeq([overflow EXCEPT ![g] = overflow[n]], 1, n - 1)
      /\ block_overflow' = [block_overflow EXCEPT ![b] = @ - 1]
      /\ UNCHANGED <<slots, block_count>>
  BY <1>2, <1>3, <1>4 DEF RemoveFromOverflow
<1>6. /\ overflow' \in Seq(Entries) /\ Len(overflow') = n - 1
      /\ \A k \in 1 .. n - 1 : overflow'[k] = IF k = g THEN overflow[n] ELSE overflow[k]
  BY <1>3, <1>5, GapFilled DEF IInv, TypeOK
<1>7. DOMAIN held' = DOMAIN held \ {c} /\ \A x \in DOMAIN held \ {c} : held'[x] = held[x]
  OBVIOUS
\* Entry k is now where Home(k) was.
<1> DEFINE Home(k) == IF k = g THEN n ELSE k
<1>8. /\ \A k \in 1 .. n - 1 :
           /\ Home(k) \in 1 .. n /\ Home(k) # g /\ overflow'[k] = overflow[Home(k)]
      /\ \A j, k \in 1 .. n - 1 : Home(j) = Home(k) => j = k
      /\ \A m \in 1 .. n \ {g} : \E k \in 1 .. n - 1 : Home(k) = m
  <2>1. \A k \in 1 .. n - 1 :
           /\ Home(k) \in 1 .. n /\ Home(k) # g /\ overflow'[k] = overflow[Home(k)]
    BY <1>6
  <2>2. \A j, k \in 1 .. n - 1 : Home(j) = Home(k) => j = k
    OBVIOUS
  <2>3. ASSUME NEW m \in 1 .. n \ {g} PROVE \E k \in 1 .. n - 1 : Home(k) = m
    <3>1. CASE m = n
      BY <3>1
    <3>2. CASE m # n
      BY <3>2
    <3> QED
      BY <3>1, <3>2
  <2> QED
    BY <2>1, <2>2, <2>3
<1> HIDE DEF Home
<1>9. \A m \in 1 .. n : overflow[m].checksum = c <=> m = g
  BY <1>3, <1>4 DEF IInv, OnceInv
<1>10. /\ block_overflow'[b] = block_overflow[b] - 1
       /\ block_overflow' \in [Blocks -> 0 .. OverflowMod - 1]
       /\ \A a \in Blocks \ {b} : block_overflow'[a] = block_overflow[a]
  <2>1. block_overflow[b] \in 0 .. OverflowMod - 1 /\ block_overflow[b] > 0
    BY <1>2 DEF RemoveFromOverflow, Overflowed, IInv, TypeOK
  <2>2. block_overflow[b] - 1 \in 0 .. OverflowMod - 1
    BY <2>1, Constants
  <2> QED
    BY <1>5, <2>2 DEF IInv, TypeOK
<1>11. TypeOK'
  BY <1>5, <1>6, <1>7, <1>10 DEF IInv, TypeOK
<1>12. \A a \in Blocks, j \in Slots : slots[a][j] # <<>> => Key(a, j) # c
  BY <1>3, <1>4 DEF IInv, OnceInv
<1>13. EntriesInv'
  <2>1. ASSUME NEW a \in Blocks, NEW j \in Slots, slots[a][j] # <<>>
        PROVE  /\ Key(a, j) \in DOMAIN held' /\ BlockOf[Key(a, j)] = a
               /\ slots[a][j] = <<Entry(Key(a, j), held'[Key(a, j)])>>
    <3>1. /\ Key(a, j) \in DOMAIN held /\ BlockOf[Key(a, j)] = a
          /\ slots[a][j] = <<Entry(Key(a, j), held[Key(a, j)])>>
      BY <2>1 DEF IInv, EntriesInv
    <3>2. Key(a, j) \in DOMAIN held' /\ held'[Key(a, j)] = held[Key(a, j)]
      BY <1>7, <1>12, <2>1, <3>1
    <3> QED
      BY <3>1, <3>2
  <2>2. ASSUME NEW k \in 1 .. n - 1
        PROVE  /\ overflow'[k].checksum \in DOMAIN held'
               /\ overflow'[k].offset = held'[overflow'[k].checksum]
    <3>1. Home(k) \in 1 .. n /\ Home(k) # g /\ overflow'[k] = overflow[Home(k)]
      BY <1>8
    <3>2. /\ overflow[Home(k)].checksum \in DOMAIN held /\ overflow[Home(k)].checksum # c
          /\ overflow[Home(k)].offset = held[overflow[Home(k)].checksum]
      BY <1>3, <1>9, <3>1 DEF IInv, EntriesInv
    <3> QED
      BY <1>7, <3>1, <3>2
  <2> QED
    BY <1>5, <1>6, <2>1, <2>2 DEF EntriesInv, Key
<1>14. OnceInv'
  <2>1. ASSUME NEW j \in 1 .. n - 1, NEW k \in 1 .. n - 1,
               overflow'[j].checksum = overflow'[k].checksum
        PROVE  j = k
    <3>1. Home(j) = Home(k)
      BY <1>3, <1>8, <2>1 DEF IInv, OnceInv
    <3> QED
      BY <1>8, <3>1
  <2>2. ASSUME NEW a \in Blocks, NEW i \in Slots, NEW k \in 1 .. n - 1, slots[a][i] # <<>>
        PROVE  Key(a, i) # overflow'[k].checksum
    BY <1>3, <1>8, <2>2 DEF IInv, OnceInv
  <2>3. \A a \in Blocks, i, j \in Slots :
          slots[a][i] # <<>> /\ slots[a][j] # <<>> /\ Key(a, i) = Key(a, j) => i = j
    BY DEF IInv, OnceInv
  <2>4. slots' = slots /\ \A a, i : Key(a, i)' = Key(a, i)
    BY <1>5 DEF Key
  <2> QED
    BY <1>6, <2>1, <2>2, <2>3, <2>4 DEF OnceInv
<1>15. FoundInv'
  <2>1. ASSUME NEW x \in DOMAIN held',
               ~ \E i \in Slots : slots[BlockOf[x]][i] # <<>> /\ Key(BlockOf[x], i) = x
        PROVE  \E k \in 1 .. n - 1 : overflow'[k].checksum = x
    <3>1. x \in DOMAIN held /\ x # c
      BY <1>7
    <3>2. PICK m \in 1 .. n : overflow[m].checksum = x
      BY <1>3, <2>1, <3>1 DEF IInv, FoundInv
    <3>3. PICK k \in 1 .. n - 1 : Home(k) = m
      BY <1>4, <1>8, <3>1, <3>2
    <3> QED
      BY <1>8, <3>2, <3>3
  <2> QED
    BY <1>5, <1>6, <2>1 DEF FoundInv, Key
<1>16. CountInv'
  <2>1. ASSUME NEW a \in Blocks
        PROVE  Cardinality(OverflowOf(a)') = Cardinality(OverflowOf(a) \ {g})
    <3> DEFINE S == OverflowOf(a)'
               f == [k \in S |-> Home(k)]
    <3>1. \A k : k \in S <=> k \in 1 .. n - 1 /\ BlockOf[overflow'[k].checksum] = a
      BY <1>6 DEF OverflowOf
    <3>2. \A m : m \in OverflowOf(a) <=> m \in 1 .. n /\ BlockOf[overflow[m].checksum] = a
      BY <1>3 DEF OverflowOf
    <3>3. IsFiniteSet(S)
      <4>1. IsFiniteSet(1 .. n - 1)
        <5>1. n - 1 \in Int
          OBVIOUS
        <5> QED
          BY <5>1, FS_Interval
      <4> HIDE DEF S
      <4>2. S \in SUBSET (1 .. n - 1)
        BY <3>1
      <4> QED
        BY <4>1, <4>2, FS_Subset
    <3> HIDE DEF S
    <3>4. f \in [S -> OverflowOf(a) \ {g}]
      BY <1>8, <3>1, <3>2
    <3>5. \A j, k \in S : f[j] = f[k] => j = k
      BY <1>8, <3>1
    <3>6. \A m \in OverflowOf(a) \ {g} : \E k \in S : f[k] = m
      BY <1>8, <3>1, <3>2
    <3> HIDE DEF f
    <3>7. Cardinality(OverflowOf(a) \ {g}) = Cardinality(S)
      BY <3>3, <3>4, <3>5, <3>6, SameCount
    <3> QED
      BY <3>7 DEF S
  <2>2. Cardinality(OverflowOf(b) \ {g}) = Cardinality(OverflowOf(b)) - 1
    BY <1>4, OverflowFacts, FS_RemoveElement DEF IInv
  <2>3. \A a \in Blocks \ {b} : OverflowOf(a) \ {g} = OverflowOf(a)
    BY <1>2, <1>4 DEF OverflowOf
  <2>4. \A a \in Blocks : block_overflow'[a] = Cardinality(OverflowOf(a)')
    BY <1>10, <2>1, <2>2, <2>3 DEF IInv, CountInv
  <2>5. \A a \in Blocks : block_count'[a] = Cardinality(Filled(a)')
    BY <1>5 DEF IInv, CountInv, Filled
  <2> QED
    BY <2>4, <2>5 DEF CountInv
<1> QED
  BY <1>11, <1>13, <1>14, <1>15, <1>16 DEF IInv

\* The inductive invariant holds of an empty directory.
LEMMA InitIInv == Init => IInv
<1> SUFFICES ASSUME Init PROVE IInv
  OBVIOUS
<1>1. /\ \A b \in Blocks, i \in Slots : slots[b][i] = <<>>
      /\ overflow = <<>> /\ Len(overflow) = 0 /\ DOMAIN held = {}
      /\ \A b \in Blocks : block_count[b] = 0 /\ block_overflow[b] = 0
  BY DEF Init
<1>2. TypeOK
  BY Constants DEF Init, TypeOK
<1>3. EntriesInv /\ OnceInv /\ FoundInv
  BY <1>1 DEF EntriesInv, OnceInv, FoundInv
<1>4. CountInv
  <2>1. \A b \in Blocks : Filled(b) = {} /\ OverflowOf(b) = {}
    BY <1>1 DEF Filled, OverflowOf
  <2> QED
    BY <1>1, <2>1, FS_EmptySet DEF CountInv
<1> QED
  BY <1>2, <1>3, <1>4 DEF IInv

\* A chunk is added only if the ring does not hold it.
LEMMA AddedIsNew ==
    ASSUME IInv, NEW c \in Checksums, NEW offset \in Offsets, Add(c, offset)
    PROVE  c \notin DOMAIN held
<1>1. <<Entry(c, held[c])>> # <<>>
  OBVIOUS
<1> QED
  BY <1>1, IInvLookup DEF LookupIsHeld, Add

\* As long as its counters cannot overflow, every operation keeps the inductive invariant.
LEMMA StepIInv ==
    ASSUME FewEnough
    PROVE  IInv /\ [Next]_vars => IInv'
<1> SUFFICES ASSUME IInv, [Next]_vars
             PROVE  IInv'
  OBVIOUS
<1>1. ASSUME NEW c \in Checksums, NEW offset \in Offsets, Add(c, offset)
      PROVE  IInv'
  <2>1. c \notin DOMAIN held
    BY <1>1, AddedIsNew
  <2> QED
    BY <1>1, <2>1, AddToBlockStep, AddToOverflowStep DEF Add
<1>2. ASSUME NEW c \in Checksums, Remove(c)
      PROVE  IInv'
  BY <1>2, RemoveFromBlockStep, RemoveFromOverflowStep DEF Remove
<1>3. CASE Reset
  <2>1. Init'
    BY <1>3 DEF Reset, Init
  <2>2. Init' => IInv'
    BY InitIInv, PTL
  <2> QED
    BY <2>1, <2>2
<1>4. CASE UNCHANGED vars
  <2>1. UNCHANGED <<slots, block_count, block_overflow, overflow, held>>
    BY <1>4 DEF vars
  <2>2. TypeOK' /\ EntriesInv' /\ FoundInv'
    BY <2>1 DEF IInv, TypeOK, EntriesInv, FoundInv, Key
  <2>3. OnceInv'
    BY <2>1 DEF IInv, OnceInv, Key
  <2>4. CountInv'
    BY <2>1 DEF IInv, CountInv, Filled, OverflowOf
  <2> QED
    BY <2>2, <2>3, <2>4 DEF IInv
<1> QED
  BY <1>1, <1>2, <1>3, <1>4 DEF Next

-----------------------------------------------------------------------------
(* The map that the directory represents                                   *)

Located == [offset : Offsets, over : BOOLEAN]

\* It has the chunks of the ring, and says of each where it is.
DirBarInv ==
    /\ dirBar \in [DOMAIN held -> Located]
    /\ \A c \in DOMAIN held : dirBar[c].offset = held[c] /\ (dirBar[c].over <=> c \notin InSlots)

\* The refinement mapping has what is held.
LEMMA IInvDirBar == IInv => DirBarInv
<1> SUFFICES ASSUME IInv PROVE DirBarInv
  OBVIOUS
<1>1. DOMAIN held \subseteq Checksums /\ \A c \in DOMAIN held : held[c] \in Offsets
  BY DEF IInv, TypeOK
<1>2. InSlots \cup {c \in Checksums : OverflowWith(c) # {}} = DOMAIN held
  <2>1. ASSUME NEW c \in Checksums
        PROVE  c \in DOMAIN held <=> SlotsWith(BlockOf[c], c) # {} \/ OverflowWith(c) # {}
    BY NotHeld, HeldInOverflow
  <2> QED
    BY <1>1, <2>1 DEF InSlots
<1>3. ASSUME NEW c \in DOMAIN held
      PROVE  Lookup(c)[1].offset = held[c]
  <2>1. Lookup(c) = <<Entry(c, held[c])>>
    BY <1>1, IInvLookup DEF LookupIsHeld
  <2> QED
    BY <2>1 DEF Entry
<1>4. dirBar = [c \in DOMAIN held |-> [offset |-> Lookup(c)[1].offset, over |-> c \notin InSlots]]
  BY <1>2 DEF dirBar
<1> QED
  BY <1>1, <1>3, <1>4 DEF DirBarInv, Located

\* Entries that agree are the same.
LEMMA SameEntry ==
    ASSUME NEW r \in Located, NEW s \in Located, r.offset = s.offset, r.over <=> s.over
    PROVE  r = s
<1>1. r.over = s.over
  BY DEF Located
<1> QED
  BY <1>1 DEF Located

\* The map of the directory, in the state before a step and in the state after it.
LEMMA DirBarStep ==
    ASSUME IInv, IInv'
    PROVE  DirBarInv /\ DirBarInv' /\ DOMAIN dirBar = DOMAIN held /\ DOMAIN dirBar' = DOMAIN held'
<1>1. DirBarInv
  BY IInvDirBar
<1>2. DirBarInv'
  <2>1. IInv' => DirBarInv'
    BY IInvDirBar, PTL
  <2> QED
    BY <2>1
<1> QED
  BY <1>1, <1>2 DEF DirBarInv

\* The slots of a block, as DirMap counts them.
LEMMA SlottedIs ==
    ASSUME IInv, NEW b \in Blocks
    PROVE  Slotted(dirBar, b) = SlotKeys(b)
<1>1. DirBarInv /\ DOMAIN dirBar = DOMAIN held
  BY IInvDirBar DEF DirBarInv
<1>2. InSlots \subseteq DOMAIN held
  BY HeldInSlot DEF InSlots
<1> QED
  BY <1>1, <1>2 DEF Slotted, SlotKeys, DirBarInv

\* Which chunks are in slots.
In(x) == \E i \in Slots : slots[BlockOf[x]][i] # <<>> /\ Key(BlockOf[x], i) = x
InSlotsInv == \A x \in Checksums : x \in InSlots <=> In(x)

\* A checksum in a slot is in a slot of its own block.
LEMMA IInvInSlots == IInv => InSlotsInv
<1> SUFFICES ASSUME IInv, NEW x \in Checksums PROVE x \in InSlots <=> In(x)
  BY DEF InSlotsInv
<1>1. BlockOf[x] \in Blocks
  BY Constants
<1> QED
  BY <1>1, SlotsWithIs DEF InSlots, In

\* Which chunks are in slots after a step.
LEMMA InSlotsStep ==
    ASSUME IInv, IInv', NEW c \in Checksums
    PROVE  /\ \A offset \in Offsets :
                AddToBlock(c, offset) => InSlots' = InSlots \cup {c}
           /\ RemoveFromBlock(c) => InSlots' = InSlots \ {c}
<1>1. InSlotsInv /\ InSlotsInv'
  <2>1. IInv' => InSlotsInv'
    BY IInvInSlots, PTL
  <2> QED
    BY <2>1, IInvInSlots
<1>2. InSlots \subseteq Checksums /\ InSlots' \subseteq Checksums
  BY DEF InSlots
<1>3. PICK b \in Blocks : b = BlockOf[c]
  BY Constants
<1>4. slots \in [Blocks -> [Slots -> SlotValues]] /\ <<>> \in SlotValues
  BY DEF IInv, TypeOK, SlotValues
<1>5. ASSUME NEW offset \in Offsets, AddToBlock(c, offset)
      PROVE  InSlots' = InSlots \cup {c}
  <2> DEFINE v == <<Entry(c, offset)>>
  <2>1. PICK i \in Slots : i = Least(Unset(b)) /\ slots[b][i] = <<>>
    <3>1. Unset(b) \in SUBSET Nat /\ Unset(b) # {}
      BY <1>3, <1>5, Constants DEF AddToBlock, Unset
    <3>2. Least(Unset(b)) \in Unset(b)
      BY <3>1, LeastIsIn
    <3> QED
      BY <3>2 DEF Unset
  <2>2. slots' = [slots EXCEPT ![b][i] = v]
    BY <1>3, <1>5, <2>1 DEF AddToBlock
  <2>3. v \in SlotValues /\ v # <<>> /\ v[1].checksum = c
    BY EntryFacts
  <2>4. /\ slots'[b][i] = v
        /\ \A a \in Blocks, j \in Slots : a # b \/ j # i => slots'[a][j] = slots[a][j]
    <3> HIDE DEF v
    <3> QED
      BY <1>4, <2>2, <2>3, SlotWritten
  <2>5. In(c)'
    BY <1>3, <2>3, <2>4 DEF In, Key
  <2>6. ASSUME NEW x \in Checksums, x # c
        PROVE  In(x)' <=> In(x)
    <3>1. BlockOf[x] \in Blocks
      BY Constants
    <3>2. ASSUME NEW j \in Slots
          PROVE  slots'[BlockOf[x]][j] # <<>> /\ Key(BlockOf[x], j)' = x
                   <=> slots[BlockOf[x]][j] # <<>> /\ Key(BlockOf[x], j) = x
      <4>1. CASE BlockOf[x] = b /\ j = i
        BY <2>1, <2>3, <2>4, <2>6, <4>1 DEF Key
      <4>2. CASE BlockOf[x] # b \/ j # i
        BY <2>4, <3>1, <4>2 DEF Key
      <4> QED
        BY <4>1, <4>2
    <3> QED
      BY <3>2 DEF In
  <2> QED
    BY <1>1, <1>2, <2>5, <2>6 DEF InSlotsInv
<1>6. ASSUME RemoveFromBlock(c)
      PROVE  InSlots' = InSlots \ {c}
  <2>1. PICK i \in Slots : /\ Least(SlotsWith(b, c)) = i /\ SlotsWith(b, c) = {i}
                           /\ slots[b][i] # <<>> /\ Key(b, i) = c
    BY <1>3, <1>6, HeldInSlot DEF RemoveFromBlock
  <2>2. slots' = [slots EXCEPT ![b][i] = <<>>]
    BY <1>3, <1>6, <2>1 DEF RemoveFromBlock
  <2>3. /\ slots'[b][i] = <<>>
        /\ \A a \in Blocks, j \in Slots : a # b \/ j # i => slots'[a][j] = slots[a][j]
    BY <1>4, <2>2, SlotWritten
  <2>4. ~In(c)'
    <3>1. ASSUME NEW j \in Slots, slots'[b][j] # <<>>, Key(b, j)' = c
          PROVE  FALSE
      <4>1. j # i
        BY <2>3, <3>1
      <4>2. slots'[b][j] = slots[b][j] /\ Key(b, j) = c
        BY <2>3, <3>1, <4>1 DEF Key
      <4> QED
        BY <2>1, <3>1, <4>1, <4>2 DEF IInv, OnceInv
    <3> QED
      BY <1>3, <3>1 DEF In
  <2>5. ASSUME NEW x \in Checksums, x # c
        PROVE  In(x)' <=> In(x)
    <3>1. BlockOf[x] \in Blocks
      BY Constants
    <3>2. ASSUME NEW j \in Slots
          PROVE  slots'[BlockOf[x]][j] # <<>> /\ Key(BlockOf[x], j)' = x
                   <=> slots[BlockOf[x]][j] # <<>> /\ Key(BlockOf[x], j) = x
      <4>1. CASE BlockOf[x] = b /\ j = i
        BY <2>1, <2>3, <2>5, <4>1
      <4>2. CASE BlockOf[x] # b \/ j # i
        BY <2>3, <3>1, <4>2 DEF Key
      <4> QED
        BY <4>1, <4>2
    <3> QED
      BY <3>2 DEF In
  <2> QED
    BY <1>1, <1>2, <2>4, <2>5 DEF InSlotsInv
<1> QED
  BY <1>5, <1>6

\* The actions of the map.
DirStep ==
    \/ \E c \in Checksums \ DOMAIN dirBar, offset \in Offsets :
         dirBar' = DirAdd(dirBar, c, offset)
    \/ \E c \in DOMAIN dirBar : dirBar' = DirRemove(dirBar, {c})
    \/ dirBar' = EmptyDir

\* Every step of the directory is a step of the map, or leaves it alone.
LEMMA StepIsDirStep ==
    ASSUME IInv, IInv', [Next]_vars
    PROVE  [DirStep]_dirBar
<1>1. DirBarInv /\ DirBarInv' /\ DOMAIN dirBar = DOMAIN held /\ DOMAIN dirBar' = DOMAIN held'
  BY DirBarStep
<1>2. DOMAIN held \subseteq Checksums
  BY DEF IInv, TypeOK
<1>3. ASSUME NEW c \in Checksums, NEW offset \in Offsets, Add(c, offset)
      PROVE  DirStep
  <2>1. c \notin DOMAIN held
    BY <1>3, AddedIsNew
  <2>2. /\ DOMAIN held' = DOMAIN held \cup {c} /\ held'[c] = offset
        /\ \A x \in DOMAIN held : held'[x] = held[x]
    BY <1>3, <2>1 DEF Add
  <2> DEFINE full == Cardinality(Slotted(dirBar, BlockOf[c])) >= BlockEntries
             d == DirAdd(dirBar, c, offset)
  <2>3. full <=> Unset(BlockOf[c]) = {}
    BY Constants, SlottedIs, BlockIsFull
  <2>4. /\ c \in InSlots' <=> ~full
        /\ \A x \in DOMAIN held : x \in InSlots' <=> x \in InSlots
    <3>1. CASE AddToBlock(c, offset)
      <4>1. InSlots' = InSlots \cup {c}
        BY <3>1, InSlotsStep
      <4>2. ~full
        BY <2>3, <3>1 DEF AddToBlock
      <4> QED
        BY <2>1, <4>1, <4>2
    <3>2. CASE AddToOverflow(c, offset)
      <4>1. InSlots' = InSlots
        BY <3>2 DEF AddToOverflow, InSlots, SlotsWith
      <4>2. full
        BY <2>3, <3>2 DEF AddToOverflow
      <4>3. c \notin InSlots
        BY <2>1, NotHeld DEF InSlots
      <4> QED
        BY <4>1, <4>2, <4>3
    <3> QED
      BY <1>3, <3>1, <3>2 DEF Add
  <2>5. full \in BOOLEAN
    OBVIOUS
  <2>6. /\ d \in [DOMAIN held \cup {c} -> Located]
        /\ d[c].offset = offset /\ (d[c].over <=> full)
        /\ \A x \in DOMAIN held : d[x] = dirBar[x]
    <3> DEFINE new == [offset |-> offset, over |-> full]
    <3>1. new \in Located /\ new.offset = offset /\ (new.over <=> full)
      BY <2>5 DEF Located
    <3>2. d = [x \in DOMAIN held \cup {c} |-> IF x = c THEN new ELSE dirBar[x]]
      BY <1>1 DEF DirAdd
    <3> HIDE DEF new, d
    <3> QED
      BY <1>1, <2>1, <3>1, <3>2 DEF DirBarInv
  <2>7. \A x \in DOMAIN held \cup {c} : dirBar'[x] = d[x]
    <3> HIDE DEF d, full
    <3>1. ASSUME NEW x \in DOMAIN held'
          PROVE  dirBar'[x] \in Located /\ dirBar'[x].offset = held'[x]
                   /\ (dirBar'[x].over <=> x \notin InSlots')
      BY <1>1 DEF DirBarInv
    <3>2. dirBar'[c] = d[c]
      <4>1. c \in DOMAIN held'
        BY <2>2
      <4>2. dirBar'[c] \in Located /\ d[c] \in Located
        BY <2>6, <3>1, <4>1
      <4>3. dirBar'[c].offset = d[c].offset /\ (dirBar'[c].over <=> d[c].over)
        BY <2>2, <2>4, <2>6, <3>1, <4>1
      <4> QED
        BY <4>2, <4>3, SameEntry
    <3>3. ASSUME NEW x \in DOMAIN held
          PROVE  dirBar'[x] = d[x]
      <4>1. x \in DOMAIN held' /\ held'[x] = held[x]
        BY <2>2
      <4>2. /\ dirBar[x] \in Located /\ dirBar[x].offset = held[x]
            /\ (dirBar[x].over <=> x \notin InSlots)
        BY <1>1 DEF DirBarInv
      <4>3. dirBar'[x] \in Located
        BY <3>1, <4>1
      <4>4. dirBar'[x].offset = dirBar[x].offset /\ (dirBar'[x].over <=> dirBar[x].over)
        BY <2>4, <3>1, <4>1, <4>2
      <4>5. dirBar'[x] = dirBar[x]
        BY <4>2, <4>3, <4>4, SameEntry
      <4> QED
        BY <2>6, <4>5
    <3> QED
      BY <3>2, <3>3
  <2>8. dirBar' \in [DOMAIN held \cup {c} -> Located]
    BY <1>1, <2>2 DEF DirBarInv
  <2>9. dirBar' = d
    <3> HIDE DEF d
    <3> QED
      BY <2>6, <2>7, <2>8
  <2> QED
    BY <1>1, <2>1, <2>9 DEF DirStep
<1>4. ASSUME NEW c \in Checksums, Remove(c)
      PROVE  DirStep
  <2>1. c \in DOMAIN held
    BY <1>4 DEF Remove
  <2>2. DOMAIN held' = DOMAIN held \ {c} /\ \A x \in DOMAIN held \ {c} : held'[x] = held[x]
    BY <1>4 DEF Remove
  <2>3. \A x \in DOMAIN held \ {c} : x \in InSlots' <=> x \in InSlots
    <3>1. CASE RemoveFromBlock(c)
      BY <3>1, InSlotsStep
    <3>2. CASE RemoveFromOverflow(c)
      <4>1. InSlots' = InSlots
        BY <3>2 DEF RemoveFromOverflow, InSlots, SlotsWith
      <4> QED
        BY <4>1
    <3> QED
      BY <1>4, <3>1, <3>2 DEF Remove
  <2>4. \A x \in DOMAIN held \ {c} : dirBar'[x] = dirBar[x]
    <3>1. ASSUME NEW x \in DOMAIN held \ {c} PROVE dirBar'[x] = dirBar[x]
      <4>1. x \in DOMAIN held' /\ held'[x] = held[x]
        BY <2>2
      <4>2. /\ dirBar[x] \in Located /\ dirBar[x].offset = held[x]
            /\ (dirBar[x].over <=> x \notin InSlots)
        BY <1>1 DEF DirBarInv
      <4>3. /\ dirBar'[x] \in Located /\ dirBar'[x].offset = held'[x]
            /\ (dirBar'[x].over <=> x \notin InSlots')
        BY <1>1, <4>1 DEF DirBarInv
      <4>4. dirBar'[x].offset = dirBar[x].offset /\ (dirBar'[x].over <=> dirBar[x].over)
        BY <2>3, <4>1, <4>2, <4>3
      <4> QED
        BY <4>2, <4>3, <4>4, SameEntry
    <3> QED
      BY <3>1
  <2>5. dirBar' \in [DOMAIN held \ {c} -> Located]
    BY <1>1, <2>2 DEF DirBarInv
  <2>6. dirBar' = DirRemove(dirBar, {c})
    BY <1>1, <2>4, <2>5 DEF DirRemove
  <2> QED
    BY <1>1, <2>1, <2>6 DEF DirStep
<1>5. CASE Reset
  <2>1. DOMAIN held' = {}
    BY <1>5 DEF Reset
  <2>2. dirBar' = EmptyDir
    BY <1>1, <2>1 DEF EmptyDir, DirBarInv
  <2> QED
    BY <2>2 DEF DirStep
<1>6. CASE UNCHANGED vars
  <2>1. dirBar' = dirBar
    BY <1>6 DEF vars, dirBar, InSlots, SlotsWith, OverflowWith, Lookup, Overflowed
  <2> QED
    BY <2>1
<1> QED
  BY <1>3, <1>4, <1>5, <1>6 DEF Next

-----------------------------------------------------------------------------
(* Types                                                                   *)

\* A bit-field that is one more or one less keeps its width.
LEMMA FieldType ==
    ASSUME NEW m \in Nat \ {0}, NEW n \in 0 .. m - 1
    PROVE  (n + 1) % m \in 0 .. m - 1 /\ (n - 1) % m \in 0 .. m - 1
OBVIOUS

\* An addition keeps the types.
LEMMA AddTypeOK ==
    ASSUME TypeOK, NEW c \in Checksums, NEW offset \in Offsets, Add(c, offset)
    PROVE  TypeOK'
<1>0. BlockOf[c] \in Blocks /\ CountMod \in Nat \ {0} /\ OverflowMod \in Nat \ {0}
  BY Constants
<1>1. DOMAIN held' \subseteq Checksums /\ \A x \in DOMAIN held' : held'[x] \in Offsets
  BY DEF Add, TypeOK
<1>2. CASE AddToBlock(c, offset)
  <2>1. Least(Unset(BlockOf[c])) \in Slots
    <3>1. Unset(BlockOf[c]) \in SUBSET Nat /\ Unset(BlockOf[c]) # {}
      BY <1>2, Constants DEF AddToBlock, Unset
    <3> QED
      BY <3>1, LeastIsIn DEF Unset
  <2>2. slots' \in [Blocks -> [Slots -> SlotValues]]
    BY <1>0, <1>2, <2>1, EntryFacts, SlotWritten DEF AddToBlock, TypeOK, SlotValues
  <2>3. block_count' \in [Blocks -> 0 .. CountMod - 1]
    BY <1>0, <1>2, FieldType DEF AddToBlock, TypeOK
  <2> QED
    BY <1>1, <1>2, <2>2, <2>3 DEF AddToBlock, TypeOK, SlotValues
<1>3. CASE AddToOverflow(c, offset)
  <2>1. overflow' \in Seq(Entries)
    <3>1. PICK e \in Entries : overflow' = Append(overflow, e)
      BY <1>3, EntryFacts DEF AddToOverflow
    <3> QED
      BY <3>1 DEF TypeOK
  <2>2. block_overflow' \in [Blocks -> 0 .. OverflowMod - 1]
    BY <1>0, <1>3, FieldType DEF AddToOverflow, TypeOK
  <2> QED
    BY <1>1, <1>3, <2>1, <2>2 DEF AddToOverflow, TypeOK
<1> QED
  BY <1>2, <1>3 DEF Add

\* So does a removal.
LEMMA RemoveTypeOK ==
    ASSUME TypeOK, NEW c \in Checksums, Remove(c)
    PROVE  TypeOK'
<1>0. BlockOf[c] \in Blocks /\ CountMod \in Nat \ {0} /\ OverflowMod \in Nat \ {0}
  BY Constants
<1>1. DOMAIN held' \subseteq Checksums /\ \A x \in DOMAIN held' : held'[x] \in Offsets
  BY DEF Remove, TypeOK
<1>2. CASE RemoveFromBlock(c)
  <2>1. Least(SlotsWith(BlockOf[c], c)) \in Slots
    <3>1. SlotsWith(BlockOf[c], c) \in SUBSET Nat /\ SlotsWith(BlockOf[c], c) # {}
      BY <1>2, Constants DEF RemoveFromBlock, SlotsWith
    <3> QED
      BY <3>1, LeastIsIn DEF SlotsWith
  <2>2. slots' \in [Blocks -> [Slots -> SlotValues]]
    <3>1. <<>> \in SlotValues
      BY DEF SlotValues
    <3> QED
      BY <1>0, <1>2, <2>1, <3>1, SlotWritten DEF RemoveFromBlock, TypeOK, SlotValues
  <2>3. block_count' \in [Blocks -> 0 .. CountMod - 1]
    BY <1>0, <1>2, FieldType DEF RemoveFromBlock, TypeOK
  <2> QED
    BY <1>1, <1>2, <2>2, <2>3 DEF RemoveFromBlock, TypeOK, SlotValues
<1>3. CASE RemoveFromOverflow(c)
  <2>1. overflow' \in Seq(Entries)
    <3>1. Len(overflow) \in Nat /\ overflow \in Seq(Entries)
      BY DEF TypeOK
    <3>2. Greatest(OverflowWith(c)) \in 1 .. Len(overflow)
      <4>1. OverflowWith(c) \in SUBSET (1 .. Len(overflow)) /\ OverflowWith(c) # {}
        BY <1>3 DEF RemoveFromOverflow, OverflowWith
      <4> QED
        BY <3>1, <4>1, GreatestIsIn
    <3> QED
      BY <1>3, <3>1, <3>2, GapFilled DEF RemoveFromOverflow
  <2>2. block_overflow' \in [Blocks -> 0 .. OverflowMod - 1]
    BY <1>0, <1>3 DEF RemoveFromOverflow, Overflowed, TypeOK
  <2> QED
    BY <1>1, <1>3, <2>1, <2>2 DEF RemoveFromOverflow, TypeOK
<1> QED
  BY <1>2, <1>3 DEF Remove

\* Every step keeps the types, whatever the ring holds.
LEMMA StepTypeOK == TypeOK /\ [Next]_vars => TypeOK'
<1> SUFFICES ASSUME TypeOK, [Next]_vars PROVE TypeOK'
  OBVIOUS
<1>1. CASE Reset
  <2>1. CountMod \in Nat \ {0} /\ OverflowMod \in Nat \ {0}
    BY Constants
  <2> QED
    BY <1>1, <2>1 DEF Reset, TypeOK
<1>2. CASE UNCHANGED vars
  BY <1>2 DEF vars, TypeOK
<1> QED
  BY <1>1, <1>2, AddTypeOK, RemoveTypeOK DEF Next

-----------------------------------------------------------------------------
(* Theorems                                                                *)

\* No counter of a block leaves its bit-field, and every entry is one of a chunk.
\* This needs no bound on what the ring holds: where the overflow counter wraps,
\* the entries are no longer found, but are still entries.
THEOREM DirTypeOK == Spec => []TypeOK
<1>1. Init => TypeOK
  BY InitIInv DEF IInv
<1>2. TypeOK /\ [Next]_vars => TypeOK'
  BY StepTypeOK
<1> QED
  BY <1>1, <1>2, PTL DEF Spec

\* cell_dir_get_chunk finds exactly the chunks of the ring, where they are.
THEOREM DirLookupIsHeld ==
    ASSUME FewEnough
    PROVE  Spec => []LookupIsHeld
<1>1. IInv /\ [Next]_vars => IInv'
  BY StepIInv
<1> QED
  BY <1>1, InitIInv, IInvLookup, PTL DEF Spec

\* cell_dir_block.overflow_count is the number of the block's entries in the
\* shared overflow area, whatever removals have moved about in it.
THEOREM DirOverflowCounted ==
    ASSUME FewEnough
    PROVE  Spec => []OverflowCounted
<1>1. IInv => OverflowCounted
  BY DEF IInv, CountInv, OverflowCounted, OverflowOf
<1>2. IInv /\ [Next]_vars => IInv'
  BY StepIInv
<1> QED
  BY <1>1, <1>2, InitIInv, PTL DEF Spec

\* The slots and the overflow area implement the map that Cell works on.
THEOREM DirImplementsDirMap ==
    ASSUME FewEnough
    PROVE  Spec => ImplementsDirMap
<1>1. Init => dirBar = EmptyDir
  <2>1. SUFFICES ASSUME Init PROVE dirBar = EmptyDir
    OBVIOUS
  <2>2. DirBarInv /\ DOMAIN held = {}
    BY <2>1, InitIInv, IInvDirBar DEF Init
  <2> QED
    BY <2>2 DEF DirBarInv, EmptyDir
<1>2. IInv /\ [Next]_vars => IInv'
  BY StepIInv
<1>3. IInv /\ IInv' /\ [Next]_vars => [DirStep]_dirBar
  BY StepIsDirStep
<1>4. Spec => dirBar = EmptyDir /\ [][DirStep]_dirBar
  BY <1>1, <1>2, <1>3, InitIInv, PTL DEF Spec
<1> QED
  BY <1>4 DEF ImplementsDirMap, DirStep
=============================================================================
