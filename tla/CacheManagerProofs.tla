------------------------- MODULE CacheManagerProofs -------------------------
(***************************************************************************)
(* Proofs about CacheManager, for every set of requests, every unit of     *)
(* writing and every set of chunks.                                        *)
(***************************************************************************)
EXTENDS CacheManager, FiniteSetTheorems, WellFoundedInduction, TLAPS

-----------------------------------------------------------------------------
(* Lengths                                                                 *)

\* A finite set of naturals has a greatest element.
LEMMA HasGreatest ==
    ASSUME NEW S \in SUBSET Nat, IsFiniteSet(S), S # {}
    PROVE  \E n \in S : \A m \in S : m <= n
<1> DEFINE Greatest(T) == \E n \in T : \A m \in T : m <= n
           Bad == {T \in FiniteSubsetsOf(S) : T # {} /\ ~Greatest(T)}
           R == StrictSubsetOrdering(S)
<1>1. SUFFICES ASSUME Bad # {} PROVE FALSE
  <2>1. S \in FiniteSubsetsOf(S)
    BY DEF FiniteSubsetsOf
  <2> QED
    BY <2>1
<1>2. IsWellFoundedOn(R, FiniteSubsetsOf(S))
  BY FS_StrictSubsetOrderingWellFounded
<1>3. Bad \subseteq FiniteSubsetsOf(S)
  OBVIOUS
<1>4. PICK T \in Bad : \A U \in Bad : ~(<<U, T>> \in R)
  <2> HIDE DEF Bad, R
  <2> QED
    BY <1>1, <1>2, <1>3, WFMin
<1>5. T \in SUBSET Nat /\ IsFiniteSet(T) /\ T # {} /\ ~Greatest(T) /\ T \in SUBSET S
  BY DEF FiniteSubsetsOf
<1>6. PICK x \in T : TRUE
  BY <1>5
<1> DEFINE U == T \ {x}
<1>7. U \in FiniteSubsetsOf(S) /\ <<U, T>> \in R
  BY <1>5, <1>6, FS_RemoveElement DEF FiniteSubsetsOf, StrictSubsetOrdering
<1>8. U = {} \/ Greatest(U)
  BY <1>4, <1>7
<1>9. CASE U = {}
  <2>1. \A m \in T : m <= x
    BY <1>5, <1>6, <1>9
  <2> QED
    BY <1>5, <1>6, <2>1
<1>10. CASE Greatest(U)
  <2>1. PICK y \in U : \A m \in U : m <= y
    BY <1>10
  <2>2. x \in Nat /\ y \in Nat /\ y \in T
    BY <1>5, <1>6, <2>1
  <2>3. CASE x <= y
    <3>1. \A m \in T : m <= y
      BY <2>1, <2>3
    <3> QED
      BY <1>5, <2>2, <3>1
  <2>4. CASE y <= x
    <3>1. \A m \in T : m <= x
      BY <1>5, <2>1, <2>2, <2>4
    <3> QED
      BY <1>5, <1>6, <3>1
  <2> QED
    BY <2>2, <2>3, <2>4
<1> QED
  BY <1>8, <1>9, <1>10

\* A cell has a size.
LEMMA Units == MB \in Nat /\ MB > 0
BY CacheManagerAssumption

\* Division by a megabyte.
LEMMA Division ==
    ASSUME NEW n \in Nat
    PROVE  /\ n \div MB \in Nat /\ n % MB \in 0 .. MB - 1
           /\ n = MB * (n \div MB) + (n % MB)
BY Units

\* Where the cells of a file start: multiples of the size of a cell.
LEMMA Products ==
    ASSUME NEW i \in Nat, NEW j \in Nat
    PROVE  /\ MB * i \in Nat
           /\ MB * (i + 1) = MB * i + MB
           /\ i < j => MB * i + MB <= MB * j
           /\ i <= j => MB * i <= MB * j
           /\ (MB * i) \div MB = i
           /\ MB * i = MB * j => i = j
<1>1. MB * i \in Nat /\ MB * (i + 1) = MB * i + MB
  BY Units
<1>2. i <= j => MB * i <= MB * j
  <2>1. ASSUME i <= j PROVE MB * i <= MB * j
    <3>1. PICK d \in Nat : j = i + d
      <4>1. j - i \in Nat /\ j = i + (j - i)
        BY <2>1
      <4> QED
        BY <4>1
    <3>2. MB * j = MB * i + MB * d /\ MB * d \in Nat
      BY <3>1, Units
    <3> QED
      BY <1>1, <3>2
  <2> QED
    BY <2>1
<1>3. i < j => MB * i + MB <= MB * j
  <2>1. ASSUME i < j PROVE MB * i + MB <= MB * j
    <3>1. PICK d \in Nat : j = i + 1 + d
      <4>1. j - i - 1 \in Nat /\ j = i + 1 + (j - i - 1)
        BY <2>1
      <4> QED
        BY <4>1
    <3>2. MB * j = MB * i + MB + MB * d /\ MB * d \in Nat
      BY <3>1, Units
    <3> QED
      BY <1>1, <3>2, Units
  <2> QED
    BY <2>1
<1>4. (MB * i) \div MB = i
  BY Units
<1>5. MB * i = MB * j => i = j
  BY Units
<1> QED
  BY <1>1, <1>2, <1>3, <1>4, <1>5

\* What cache_manager_filesize returns for the requests that occur.
Sizes == {FileSize(r) : r \in Requests}

\* No request asks for more cells than MaxCells.
LEMMA MaxCellsIs == MaxCells \in Nat /\ \A r \in Requests : r \div MB <= MaxCells
<1> DEFINE S == {r \div MB : r \in Requests}
           f == [r \in Requests |-> r \div MB]
<1>1. Requests \subseteq Nat /\ Requests # {} /\ IsFiniteSet(Requests)
  BY CacheManagerAssumption
<1>2. S \in SUBSET Nat /\ S # {}
  BY <1>1, Division
<1>3. f \in Surjection(Requests, S)
  BY DEF Surjection
<1>4. IsFiniteSet(S)
  <2> HIDE DEF S, f
  <2> QED
    BY <1>1, <1>3, FS_Surjection
<1>5. \E n \in S : \A m \in S : m <= n
  <2> HIDE DEF S
  <2> QED
    BY <1>2, <1>4, HasGreatest
<1>6. \E n \in S : \A r \in Requests : r \div MB <= n
  BY <1>5
<1>7. MaxCells \in S /\ \A r \in Requests : r \div MB <= MaxCells
  BY <1>6 DEF MaxCells
<1> QED
  BY <1>2, <1>7

\* The length of the file is a whole number of slots, one of them the header's.
LEMMA SizeFacts ==
    ASSUME NEW m \in Sizes
    PROVE  /\ m \in Nat /\ m <= MB * (MaxCells + 1)
           /\ m \div MB \in 1 .. MaxCells + 1 /\ m = MB * (m \div MB)
<1>1. PICK r \in Requests : m = FileSize(r)
  BY DEF Sizes
<1>2. r \in Nat
  BY CacheManagerAssumption
<1> DEFINE k == r \div MB
<1>3. k \in Nat /\ k <= MaxCells /\ MaxCells \in Nat
  BY <1>2, Division, MaxCellsIs
<1>4. m = MB * (k + 1)
  BY <1>1, <1>3, Units DEF FileSize
<1> HIDE DEF k
<1>5. m \in Nat /\ m \div MB = k + 1 /\ m <= MB * (MaxCells + 1)
  BY <1>3, <1>4, Products
<1> QED
  BY <1>3, <1>4, <1>5

\* A write that ends with a megabyte, or before, ends within the file.
LEMMA FillFits ==
    ASSUME NEW m \in Sizes, NEW d \in Nat, d < m, NEW n \in 1 .. MB - (d % MB)
    PROVE  d + n \in Nat /\ d + n <= m
<1> DEFINE q == d \div MB
           k == m \div MB
<1>1. m \in Nat /\ k \in Nat /\ m = MB * k
  BY SizeFacts, MaxCellsIs
<1>2. q \in Nat /\ d % MB \in 0 .. MB - 1 /\ d = MB * q + (d % MB)
  BY Division
<1> HIDE DEF q, k
<1>3. MB * q \in Nat /\ MB * q <= d
  BY <1>2, Products, Units
<1>4. q < k
  <2>1. SUFFICES ASSUME k <= q PROVE FALSE
    BY <1>1, <1>2
  <2>2. MB * k <= MB * q
    BY <1>1, <1>2, <2>1, Products
  <2>3. MB * k \in Nat
    BY <1>1
  <2> QED
    BY <1>1, <1>3, <2>2, <2>3
<1>5. MB * q + MB <= MB * k
  BY <1>1, <1>2, <1>4, Products
<1> QED
  BY <1>1, <1>2, <1>3, <1>5, Units

-----------------------------------------------------------------------------
(* Types and resources                                                     *)

Mapped == {"slots", "header", "magic", "cells", "opened"}

\* How far the call has come and what that means for its variables.
FlowInv ==
    /\ pc # "closed" => memory_size \in Sizes
    /\ pc \notin {"fill", "cells"} => done = 0
    /\ pc = "fill" => done <= memory_size
    /\ pc = "cells" => done <= Slots - 1
    /\ pc \in {"header", "magic", "cells", "opened"} => Slots >= 2
    /\ file.magic => file.count > 0
    /\ unlinked.magic => unlinked.count > 0
    /\ pc \in {"magic", "cells", "opened"} => file.count > 0

\* Which resources the process holds, by where it is.
HeldInv ==
    /\ fds = IF pc \in {"fill", "map"} \cup Mapped THEN 1 ELSE 0
    /\ maps = IF pc \in Mapped THEN 1 ELSE 0
    /\ fd <=> pc \in {"map"} \cup Mapped
    /\ ptr <=> pc \in Mapped
    /\ cells = IF pc = "opened" \/ (pc = "cells" /\ done > 0) THEN Slots - 1 ELSE 0

BaseInv == TypeOK /\ FlowInv /\ HeldInv

\* What is in a cache file.
LEMMA FileFields ==
    ASSUME NEW f \in FileType
    PROVE  /\ f.there \in BOOLEAN /\ f.synced \in BOOLEAN /\ f.magic \in BOOLEAN
           /\ f.size \in Nat /\ f.size <= MB * (MaxCells + 1)
           /\ f.count \in Nat /\ f.count <= MaxCells
           /\ f.cells \in [CellNumbers -> CellType]
<1>1. MaxCells \in Nat /\ MB * (MaxCells + 1) \in Nat
  BY MaxCellsIs, Products
<1> QED
  BY <1>1 DEF FileType

\* A file that is not there and one that was just made have the fields of a file.
LEMMA NoFileType == NoFile \in FileType /\ EmptyFile \in FileType
<1>1. MaxCells \in Nat /\ MB * (MaxCells + 1) \in Nat
  BY MaxCellsIs, Products
<1>2. ZeroCell \in CellType
  BY DEF ZeroCell, CellType
<1>3. NoFile \in FileType
  BY <1>1, <1>2 DEF NoFile, FileType
<1> QED
  BY <1>3 DEF EmptyFile, FileType

\* The fields of a file after zeros were written.
LEMMA ZeroedFields ==
    ASSUME NEW f \in FileType, NEW from \in Nat, NEW to \in Nat, to <= MB * (MaxCells + 1),
           NEW g, g = Zeroed(f, from, to)
    PROVE  /\ g \in FileType /\ g.there = f.there
           /\ g.size = IF f.size < to THEN to ELSE f.size
           /\ g.magic => f.magic /\ g.count = f.count
           /\ g.count \in {0, f.count}
           /\ \A i \in CellNumbers :
                g.cells[i] \in {ZeroCell, f.cells[i],
                               [f.cells[i] EXCEPT !.intact = ~f.cells[i].sane]}
<1> DEFINE Hits(u) == from <= u /\ u < to
           Header(i) == Hits(MB * (i + 1) - 1)
           Body(i) == \E u \in MB * i .. MB * (i + 1) - 2 : Hits(u)
           s == IF f.size < to THEN to ELSE f.size
           y == f.synced /\ to <= f.size
           m == IF Hits(0) THEN FALSE ELSE f.magic
           n == IF Hits(0) THEN 0 ELSE f.count
           c == [i \in CellNumbers |->
                    CASE Header(i) -> ZeroCell
                      [] ~Header(i) /\ Body(i) ->
                            [f.cells[i] EXCEPT !.intact = ~f.cells[i].sane]
                      [] OTHER -> f.cells[i]]
<1>1. MaxCells \in Nat /\ MB * (MaxCells + 1) \in Nat
  BY MaxCellsIs, Products
<1>2. \A i \in CellNumbers :
        /\ f.cells[i] \in CellType /\ ZeroCell \in CellType
        /\ [f.cells[i] EXCEPT !.intact = ~f.cells[i].sane] \in CellType
  BY FileFields DEF CellType, ZeroCell
<1>3. Zeroed(f, from, to) =
        [f EXCEPT !.size = s, !.synced = y, !.magic = m, !.count = n, !.cells = c]
  BY DEF Zeroed
<1>4. s \in 0 .. MB * (MaxCells + 1)
  BY <1>1, FileFields
<1>5. y \in BOOLEAN /\ m \in BOOLEAN
  BY FileFields
<1>6. n \in 0 .. MaxCells
  BY <1>1, FileFields
<1>7. ASSUME NEW i \in CellNumbers
      PROVE  \/ c[i] = ZeroCell
             \/ c[i] = f.cells[i]
             \/ c[i] = [f.cells[i] EXCEPT !.intact = ~f.cells[i].sane]
  <2> HIDE DEF Header, Body
  <2>1. CASE Header(i)
    BY <2>1
  <2>2. CASE ~Header(i) /\ Body(i)
    BY <2>2
  <2>3. CASE ~Header(i) /\ ~Body(i)
    BY <2>3
  <2> QED
    BY <2>1, <2>2, <2>3
<1>8. c \in [CellNumbers -> CellType]
  <2> HIDE DEF Header, Body
  <2>1. \A i \in CellNumbers : c[i] \in CellType
    <3> HIDE DEF c
    <3> QED
      BY <1>2, <1>7
  <2> QED
    BY <2>1
<1>9. (m => f.magic) /\ (m => n = f.count) /\ n \in {0, f.count}
  OBVIOUS
<1>10. /\ g \in FileType /\ g.there = f.there /\ g.size = s /\ g.synced = y
       /\ g.magic = m /\ g.count = n /\ g.cells = c
  <2> HIDE DEF s, y, m, n, c
  <2> QED
    BY <1>3, <1>4, <1>5, <1>6, <1>8 DEF FileType
<1> HIDE DEF c, m, n
<1> QED
  BY <1>7, <1>9, <1>10

\* The fields of a file after a loss of power.
LEMMA RemainsFields ==
    ASSUME NEW f \in FileType, NEW g \in Remains(f)
    PROVE  /\ g \in FileType /\ g.there = f.there /\ g.synced = f.synced
           /\ g.size \in 0 .. f.size /\ (f.synced => g.size = f.size)
           /\ g.magic \in {FALSE, f.magic} /\ g.count \in {0, f.count}
           /\ g.magic => g.count = f.count
           /\ \A i \in CellNumbers : g.cells[i] \in {ZeroCell, f.cells[i]}
<1> DEFINE S == IF f.synced THEN {f.size} ELSE 0 .. f.size
<1>1. PICK s \in S, h \in BOOLEAN, lost \in SUBSET CellNumbers : g = Remnant(f, s, h, lost)
  BY DEF Remains
<1>2. MaxCells \in Nat /\ MB * (MaxCells + 1) \in Nat /\ ZeroCell \in CellType
  BY MaxCellsIs, Products DEF ZeroCell, CellType
<1>3. s \in 0 .. f.size /\ (f.synced => s = f.size) /\ s \in 0 .. MB * (MaxCells + 1)
  BY <1>2, FileFields
<1> DEFINE m == f.magic /\ h
           n == IF h THEN f.count ELSE 0
           c == [i \in CellNumbers |-> IF i \in lost THEN ZeroCell ELSE f.cells[i]]
<1>4. m \in BOOLEAN /\ n \in 0 .. MaxCells /\ c \in [CellNumbers -> CellType]
  BY <1>2, FileFields
<1>5. /\ m \in {FALSE, f.magic} /\ n \in {0, f.count} /\ (m => n = f.count)
      /\ \A i \in CellNumbers : c[i] \in {ZeroCell, f.cells[i]}
  BY FileFields
<1>6. g = [f EXCEPT !.size = s, !.magic = m, !.count = n, !.cells = c]
  BY <1>1 DEF Remnant
<1>7. /\ g \in FileType /\ g.there = f.there /\ g.size = s /\ g.synced = f.synced
      /\ g.magic = m /\ g.count = n /\ g.cells = c
  <2> HIDE DEF m, n, c
  <2> QED
    BY <1>3, <1>4, <1>6 DEF FileType
<1> HIDE DEF m, n, c
<1> QED
  BY <1>3, <1>5, <1>7

\* The types and bounds hold at the start.
LEMMA InitBaseInv == Init => BaseInv
<1> SUFFICES ASSUME Init PROVE BaseInv
  OBVIOUS
<1>1. MaxCells \in Nat /\ MB * (MaxCells + 1) \in Nat
  BY MaxCellsIs, Products
<1>2. fd \in BOOLEAN /\ ptr \in BOOLEAN
  BY Zenon DEF Init
<1>3. TypeOK
  BY <1>1, <1>2, NoFileType DEF Init, TypeOK
<1>4. FlowInv
  BY DEF Init, FlowInv, NoFile
<1>5. HeldInv
  BY DEF Init, HeldInv, Mapped
<1> QED
  BY <1>3, <1>4, <1>5 DEF BaseInv

\* Facts about the constants and the current state that most steps need.
LEMMA BaseFacts ==
    ASSUME BaseInv
    PROVE  /\ MaxCells \in Nat /\ MB * (MaxCells + 1) \in Nat /\ MB \in Nat /\ MB > 0
           /\ MaxCells <= MB * (MaxCells + 1)
           /\ file \in FileType /\ unlinked \in FileType
           /\ done \in Nat /\ memory_size \in Nat
           /\ memory_size \in Sizes =>
                 /\ memory_size <= MB * (MaxCells + 1)
                 /\ Slots \in 1 .. MaxCells + 1 /\ memory_size = MB * Slots
<1>1. MaxCells \in Nat /\ MB * (MaxCells + 1) \in Nat /\ MB \in Nat /\ MB > 0
  BY MaxCellsIs, Products, Units
<1>2. MaxCells <= MB * (MaxCells + 1)
  <2>1. MB * MaxCells \in Nat /\ MB * (MaxCells + 1) = MB * MaxCells + MB
    BY <1>1, Products
  <2>2. MaxCells <= MB * MaxCells
    BY <1>1
  <2> QED
    BY <1>1, <2>1, <2>2
<1>3. file \in FileType /\ unlinked \in FileType /\ done \in Nat
  BY <1>1 DEF BaseInv, TypeOK
<1>4. memory_size \in Nat
  BY SizeFacts DEF BaseInv, TypeOK, Sizes
<1>5. memory_size \in Sizes =>
         /\ memory_size <= MB * (MaxCells + 1)
         /\ Slots \in 1 .. MaxCells + 1 /\ memory_size = MB * Slots
  BY SizeFacts DEF Slots
<1> QED
  BY <1>1, <1>2, <1>3, <1>4, <1>5

\* A step that ends the process, with the file in any state.
LEMMA EndsBase ==
    ASSUME BaseInv, Ends,
           file' \in FileType, file'.magic => file'.count > 0,
           unlinked' \in FileType, unlinked'.magic => unlinked'.count > 0
    PROVE  BaseInv'
<1>0. fd' \in BOOLEAN /\ ptr' \in BOOLEAN
  BY Zenon DEF Ends
<1>1. TypeOK'
  BY <1>0, BaseFacts DEF Ends, TypeOK
<1>2. FlowInv'
  BY DEF Ends, FlowInv
<1>3. HeldInv'
  BY DEF Ends, HeldInv, Mapped
<1> QED
  BY <1>1, <1>2, <1>3 DEF BaseInv

\* The steps of cache_manager_open_cache up to the mapping.
LEMMA FileStepsBase ==
    ASSUME BaseInv,
           Open \/ StatFails \/ StatRightSize \/ StatWrongSize \/ Unlink \/ CreateFile
             \/ Fill \/ WriteFails \/ SyncFile \/ CallFails \/ OpenFile
    PROVE  BaseInv'
<1> USE DEF BaseInv
<1>1. CASE Open
  <2>1. memory_size' \in Sizes /\ memory_size' \in {0} \cup {FileSize(r) : r \in Requests}
    BY <1>1 DEF Open, Sizes
  <2> QED
    BY <1>1, <2>1, BaseFacts DEF Open, TypeOK, FlowInv, HeldInv, Mapped, held
<1>2. CASE StatFails \/ StatRightSize \/ StatWrongSize \/ CallFails
  BY <1>2 DEF StatFails, StatRightSize, StatWrongSize, CallFails, Goto, TypeOK, FlowInv,
              HeldInv, Mapped, held, manager
<1>3. CASE Unlink
  BY <1>3, NoFileType DEF Unlink, TypeOK, FlowInv, HeldInv, Mapped, held, manager, NoFile
<1>4. CASE CreateFile
  <2>1. file' \in FileType /\ (file'.magic => file'.count > 0)
    BY <1>4, BaseFacts, NoFileType DEF CreateFile, FlowInv, EmptyFile, NoFile
  <2> QED
    BY <1>4, <2>1, BaseFacts DEF CreateFile, TypeOK, FlowInv, HeldInv, Mapped, manager
<1>5. CASE Fill
  <2>1. PICK n \in 1 .. MB - (done % MB) : Write(n)
    BY <1>5 DEF Fill
  <2>2. memory_size \in Sizes /\ done < memory_size
    BY <1>5 DEF Fill, FlowInv
  <2>3. done + n \in Nat /\ done + n <= memory_size
    BY <2>1, <2>2, BaseFacts, FillFits
  <2>5. done + n <= MB * (MaxCells + 1)
    BY <2>2, <2>3, BaseFacts
  <2>6. file' \in FileType /\ (file'.magic => file'.count > 0)
    <3> DEFINE to == done + n
    <3>1. file \in FileType /\ done \in Nat /\ to \in Nat /\ to <= MB * (MaxCells + 1)
      BY <2>3, <2>5, BaseFacts
    <3>2. file' = Zeroed(file, done, to) /\ (file.magic => file.count > 0)
      BY <2>1 DEF Write, FlowInv
    <3> HIDE DEF to
    <3> QED
      BY <3>1, <3>2, ZeroedFields
  <2> QED
    BY <1>5, <2>1, <2>3, <2>5, <2>6, BaseFacts
    DEF Fill, Write, TypeOK, FlowInv, HeldInv, Mapped, manager, held
<1>6. CASE WriteFails
  BY <1>6, BaseFacts DEF WriteFails, TypeOK, FlowInv, HeldInv, Mapped, manager
<1>7. CASE SyncFile
  <2>1. /\ file' \in FileType /\ file'.magic = file.magic /\ file'.count = file.count
    BY <1>7, BaseFacts DEF SyncFile, FileType
  <2> QED
    BY <1>7, <2>1, BaseFacts DEF SyncFile, TypeOK, FlowInv, HeldInv, Mapped, manager
<1>8. CASE OpenFile
  BY <1>8 DEF OpenFile, TypeOK, FlowInv, HeldInv, Mapped
<1> QED
  BY <1>1, <1>2, <1>3, <1>4, <1>5, <1>6, <1>7, <1>8

\* The steps from the mapping to the open cache, and its use.
LEMMA CacheStepsBase ==
    ASSUME BaseInv,
           \/ Map \/ MapFails \/ EnoughSlots \/ KeepHeader \/ StoreCount \/ StoreMagic
           \/ InitCell \/ Opened \/ Release \/ \E c \in Chunks : AddChunk(c)
    PROVE  BaseInv'
<1> USE DEF BaseInv
<1>1. CASE Map
  <2>1. ptr' \in BOOLEAN
    BY <1>1, Zenon DEF Map
  <2>2. maps = 0 /\ cells = 0 /\ fds = 1 /\ fd /\ done = 0
    BY <1>1 DEF Map, HeldInv, Mapped, FlowInv
  <2> QED
    BY <1>1, <2>1, <2>2 DEF Map, TypeOK, FlowInv, HeldInv, Mapped
<1>2. CASE MapFails \/ Release
  <2>1. Released /\ pc \in {"map", "opened", "closed"} /\ pc' = "closed"
    BY <1>2 DEF MapFails, Release
  <2>2. fd' \in BOOLEAN /\ ptr' \in BOOLEAN
    BY <2>1, Zenon DEF Released
  <2>3. fds' = 0 /\ maps' = 0 /\ done = 0
    BY <2>1 DEF Released, HeldInv, FlowInv, Mapped
  <2>4. TypeOK'
    BY <2>1, <2>2, <2>3, BaseFacts DEF Released, TypeOK
  <2>5. FlowInv'
    BY <2>1, <2>3 DEF Released, FlowInv
  <2>6. HeldInv'
    BY <2>1, <2>3 DEF Released, HeldInv, Mapped
  <2> QED
    BY <2>4, <2>5, <2>6
<1>3. CASE EnoughSlots \/ KeepHeader
  <2>1. KeepHeader => done <= Slots - 1 /\ done = 0
    BY BaseFacts DEF KeepHeader, FlowInv
  <2> QED
    BY <1>3, <2>1 DEF EnoughSlots, KeepHeader, Goto, TypeOK, FlowInv, HeldInv, Mapped, held,
                      manager, Slots
<1>4. CASE StoreCount
  <2> DEFINE f == [file EXCEPT !.count = Slots - 1]
  <2>1. Slots - 1 \in 1 .. MaxCells /\ ~file.magic
    BY <1>4, BaseFacts DEF StoreCount, FlowInv
  <2>2. f \in FileType /\ f.magic = file.magic /\ f.count = Slots - 1
    BY <2>1, BaseFacts DEF FileType
  <2> HIDE DEF f
  <2>3. /\ file' = [f EXCEPT !.synced = @ \/ Dax] /\ pc' = "magic"
        /\ UNCHANGED <<unlinked, done, manager, held>>
    BY <1>4 DEF StoreCount, StoreHeader, f
  <2>4. file' \in FileType /\ file'.magic = f.magic /\ file'.count = f.count
    BY <2>2, <2>3, CacheManagerAssumption DEF FileType
  <2> QED
    BY <1>4, <2>1, <2>2, <2>3, <2>4
    DEF StoreCount, TypeOK, FlowInv, HeldInv, Mapped, held, manager, Slots
<1>5. CASE StoreMagic
  <2> DEFINE f == [file EXCEPT !.magic = TRUE]
  <2>1. file.count > 0
    BY <1>5 DEF StoreMagic, FlowInv
  <2>2. f \in FileType /\ f.count = file.count
    BY BaseFacts DEF FileType
  <2> HIDE DEF f
  <2>3. /\ file' = [f EXCEPT !.synced = @ \/ Dax] /\ pc' = "cells"
        /\ UNCHANGED <<unlinked, done, manager, held>>
    BY <1>5 DEF StoreMagic, StoreHeader, f
  <2>4. file' \in FileType /\ file'.count = f.count
    BY <2>2, <2>3, CacheManagerAssumption DEF FileType
  <2>5. done = 0 /\ done <= Slots - 1
    BY <1>5, BaseFacts DEF StoreMagic, FlowInv
  <2> QED
    BY <1>5, <2>1, <2>2, <2>3, <2>4, <2>5
    DEF StoreMagic, TypeOK, FlowInv, HeldInv, Mapped, held, manager, Slots
<1>6. CASE InitCell
  <2>1. Slots - 1 \in 1 .. MaxCells /\ done + 1 \in 1 .. MaxCells /\ done + 1 \in CellNumbers
    BY <1>6, BaseFacts DEF InitCell, FlowInv, CellNumbers
  <2>2. FreshCell \in CellType
    BY DEF FreshCell, CellType
  <2>3. /\ file' \in FileType /\ file'.magic = file.magic /\ file'.count = file.count
    BY <1>6, <2>1, <2>2, BaseFacts DEF InitCell, FileType
  <2>4. done' = done + 1 /\ cells' = Slots - 1 /\ done' <= Slots - 1 /\ done' > 0
    BY <1>6, <2>1, BaseFacts DEF InitCell
  <2>5. TypeOK'
    BY <1>6, <2>1, <2>3, <2>4, BaseFacts DEF InitCell, TypeOK, held
  <2>6. FlowInv'
    BY <1>6, <2>3, <2>4 DEF InitCell, FlowInv, Slots
  <2>7. HeldInv'
    BY <1>6, <2>4 DEF InitCell, HeldInv, Mapped, held, Slots
  <2> QED
    BY <2>5, <2>6, <2>7
<1>7. CASE Opened
  BY <1>7, BaseFacts DEF Opened, TypeOK, FlowInv, HeldInv, Mapped, held, manager, Slots
<1>8. ASSUME NEW c \in Chunks, AddChunk(c)
      PROVE  BaseInv'
  <2>1. file.count \in 1 .. MaxCells
    BY <1>8, BaseFacts, FileFields DEF AddChunk, FlowInv
  <2>2. CellOf(c) \in CellNumbers
    <3>1. Part[c] \in Nat
      BY CacheManagerAssumption
    <3>2. Part[c] % file.count \in 0 .. file.count - 1
      BY <2>1, <3>1
    <3> QED
      BY <2>1, <3>2, BaseFacts DEF CellOf, CellNumbers
  <2>3. PICK kept \in SUBSET (file.cells[CellOf(c)].chunks \cup {c}) :
          file' = [file EXCEPT !.cells[CellOf(c)].chunks = kept]
    BY <1>8 DEF AddChunk
  <2>4. file.cells[CellOf(c)] \in CellType
    BY <2>2, BaseFacts, FileFields
  <2>5. kept \in SUBSET Chunks
    BY <2>3, <2>4 DEF CellType
  <2>6. /\ file' \in FileType /\ file'.magic = file.magic /\ file'.count = file.count
    BY <2>2, <2>3, <2>4, <2>5, BaseFacts DEF FileType, CellType
  <2> QED
    BY <1>8, <2>6 DEF AddChunk, TypeOK, FlowInv, HeldInv, Mapped, held, manager, Slots
<1> QED
  BY <1>1, <1>2, <1>3, <1>4, <1>5, <1>6, <1>7, <1>8

\* Every step of cache_manager keeps types, bounds and what is held of the file.
LEMMA StepBaseInv == BaseInv /\ [Next]_vars => BaseInv'
<1> SUFFICES ASSUME BaseInv, [Next]_vars
             PROVE  BaseInv'
  OBVIOUS
<1>0. /\ file \in FileType /\ (file.magic => file.count > 0)
      /\ unlinked \in FileType /\ (unlinked.magic => unlinked.count > 0)
  BY BaseFacts DEF BaseInv, FlowInv
<1>1. CASE Aborts
  BY <1>0, <1>1, EndsBase DEF Aborts
<1>2. CASE Kill
  <2>1. CASE file' = file
    BY <1>0, <1>2, <2>1, EndsBase DEF Kill
  <2>2. ASSUME pc = "opened", NEW i \in 1 .. cells,
               file' = [file EXCEPT !.cells[i] = [@ EXCEPT !.sane = FALSE, !.chunks = {}]]
        PROVE  BaseInv'
    <3>1. i \in CellNumbers
      BY <2>2, BaseFacts DEF BaseInv, TypeOK, CellNumbers
    <3>2. [file.cells[i] EXCEPT !.sane = FALSE, !.chunks = {}] \in CellType
      <4>1. file.cells[i] \in CellType
        BY <1>0, <3>1, FileFields
      <4> QED
        BY <4>1 DEF CellType
    <3>3. /\ file' \in FileType /\ file'.magic = file.magic /\ file'.count = file.count
      BY <1>0, <2>2, <3>1, <3>2 DEF FileType
    <3> QED
      BY <1>0, <1>2, <3>3, EndsBase DEF Kill
  <2> QED
    BY <1>2, <2>1, <2>2 DEF Kill
<1>3. CASE PowerLoss
  <2>1. NoFile \in FileType /\ (NoFile.magic => NoFile.count > 0)
    BY NoFileType DEF NoFile
  <2>2. file' \in FileType /\ (file'.magic => file'.count > 0)
    <3>1. CASE file' \in Remains(file)
      BY <1>0, <3>1, RemainsFields
    <3> QED
      BY <1>0, <1>3, <2>1, <3>1 DEF PowerLoss
  <2> QED
    BY <1>3, <2>1, <2>2, EndsBase DEF PowerLoss
<1>4. CASE UNCHANGED vars
  BY <1>4 DEF vars, BaseInv, TypeOK, FlowInv, HeldInv, held, manager, Slots
<1> QED
  BY <1>1, <1>2, <1>3, <1>4, FileStepsBase, CacheStepsBase DEF Next, Proceed

-----------------------------------------------------------------------------
(* The contents of the file                                                *)

\* A file as it may be found: its header was stored only once the length of the
\* file was there to stay, zeros are under no sane header, and a cell that is not
\* sane has lost its chunks. (The first and the last hold with DAX only: without
\* it the count in the header may be another than that of the cells.)
FileInv(f) ==
    /\ ~f.there => f = NoFile
    /\ Dax /\ f.count > 0 => f.synced /\ f.size = MB * (f.count + 1)
    /\ \A i \in CellNumbers :
          f.cells[i].intact /\ (Dax /\ ~f.cells[i].sane => f.cells[i].chunks = {})

\* A file that is being filled has nothing in it.
Unused(f) == f.count = 0 /\ \A i \in CellNumbers : f.cells[i] = ZeroCell

\* What the call has found out about the file, or done to it.
ContentInv ==
    /\ FileInv(file) /\ FileInv(unlinked)
    /\ pc = "unlink" => file.size # memory_size
    /\ pc = "create" => ~file.there
    /\ pc = "fill" => file.there /\ Unused(file) /\ file.size = done
    /\ pc \in {"open", "map"} \cup Mapped => file.there /\ file.size = memory_size
    /\ Dax /\ pc \in {"magic", "cells", "opened"} => file.count = Slots - 1
    /\ pc = "cells" => \A i \in 1 .. done : file.cells[i].sane
    /\ pc = "opened" => \A i \in 1 .. Slots - 1 : file.cells[i].sane

IInv == BaseInv /\ ContentInv

\* A file that is not there, or is empty, has no half-made cells.
LEMMA NoFileInv == FileInv(NoFile) /\ FileInv(EmptyFile) /\ Unused(EmptyFile)
<1>1. /\ NoFile.there = FALSE /\ NoFile.count = 0
      /\ NoFile.cells = [i \in CellNumbers |-> ZeroCell]
  BY DEF NoFile
<1>2. /\ EmptyFile.there = TRUE /\ EmptyFile.count = 0
      /\ EmptyFile.cells = [i \in CellNumbers |-> ZeroCell]
  BY DEF EmptyFile, NoFile
<1>3. ZeroCell.intact /\ ~ZeroCell.sane /\ ZeroCell.chunks = {}
  BY DEF ZeroCell
<1> QED
  BY <1>1, <1>2, <1>3 DEF FileInv, Unused

\* The chunks of a cell change, or it is reset.
LEMMA CellStored ==
    ASSUME NEW f \in FileType, FileInv(f), f.there, NEW i \in CellNumbers, NEW d \in CellType,
           d.intact, Dax /\ ~d.sane => d.chunks = {},
           NEW g, g = [f EXCEPT !.cells[i] = d]
    PROVE  FileInv(g)
<1>1. /\ g.there = f.there /\ g.size = f.size /\ g.synced = f.synced /\ g.count = f.count
      /\ g.cells[i] = d /\ \A j \in CellNumbers \ {i} : g.cells[j] = f.cells[j]
  BY DEF FileType
<1> QED
  BY <1>1 DEF FileInv

\* A loss of power leaves a file that may be found.
LEMMA RemainsInv ==
    ASSUME NEW f \in FileType, FileInv(f), NEW g \in Remains(f)
    PROVE  FileInv(g)
<1>1. /\ g \in FileType /\ g.there = f.there /\ g.synced = f.synced
      /\ f.synced => g.size = f.size
      /\ g.count \in {0, f.count}
      /\ \A i \in CellNumbers : g.cells[i] \in {ZeroCell, f.cells[i]}
  BY RemainsFields
<1>2. ZeroCell.intact /\ ~ZeroCell.sane /\ ZeroCell.chunks = {}
  BY DEF ZeroCell
<1>3. ~g.there => g = NoFile
  <2>1. SUFFICES ASSUME ~f.there PROVE g = NoFile
    BY <1>1
  <2>2. f = NoFile
    BY <2>1 DEF FileInv
  <2>3. g.size = 0 /\ g.count = 0 /\ g.magic = FALSE
    <3>1. f.size = 0 /\ f.count = 0 /\ f.magic = FALSE
      BY <2>2 DEF NoFile
    <3>2. /\ g.size \in 0 .. f.size /\ g.count \in {0, f.count}
          /\ g.magic \in {FALSE, f.magic}
      BY RemainsFields
    <3>3. g.size = 0 /\ g.count = 0
      BY <3>1, <3>2
    <3>4. g.magic = FALSE
      BY <3>1, <3>2, Zenon
    <3> QED
      BY <3>3, <3>4
  <2>4. g.there = FALSE /\ g.synced = FALSE
    BY <1>1, <2>2 DEF NoFile
  <2>5. \A i \in CellNumbers : g.cells[i] = ZeroCell
    BY <1>1, <2>2 DEF NoFile
  <2>6. g.cells = [i \in CellNumbers |-> ZeroCell]
    BY <1>1, <2>5, FileFields
  <2> QED
    BY <1>1, <2>3, <2>4, <2>6 DEF NoFile, FileType
<1>4. Dax /\ g.count > 0 => g.synced /\ g.size = MB * (g.count + 1)
  BY <1>1 DEF FileInv
<1>5. \A i \in CellNumbers :
          g.cells[i].intact /\ (Dax /\ ~g.cells[i].sane => g.cells[i].chunks = {})
  BY <1>1, <1>2 DEF FileInv
<1> QED
  BY <1>3, <1>4, <1>5 DEF FileInv

\* The contents are whole at the start.
LEMMA InitContentInv == Init => ContentInv
BY NoFileInv DEF Init, ContentInv, Mapped

\* The steps up to the mapping.
LEMMA FileStepsContent ==
    ASSUME ~StatMayFail, IInv,
           Open \/ StatFails \/ StatRightSize \/ StatWrongSize \/ Unlink \/ CreateFile
             \/ Fill \/ WriteFails \/ SyncFile \/ CallFails \/ OpenFile
    PROVE  ContentInv'
<1> USE DEF IInv
<1>1. CASE Open \/ StatFails \/ StatRightSize \/ StatWrongSize \/ CallFails \/ OpenFile
           \/ WriteFails
  BY <1>1 DEF Open, StatFails, StatRightSize, StatWrongSize, CallFails, OpenFile, WriteFails,
              Goto, ContentInv, Mapped, manager, held
<1>2. CASE Unlink
  BY <1>2, NoFileInv DEF Unlink, ContentInv, Mapped, NoFile
<1>3. CASE CreateFile
  <2>1. file' = EmptyFile /\ done' = 0 /\ pc' = "fill" /\ unlinked' = unlinked
    BY <1>3 DEF CreateFile, ContentInv
  <2>2. EmptyFile.size = 0 /\ EmptyFile.there
    BY DEF EmptyFile, NoFile
  <2> QED
    BY <2>1, <2>2, NoFileInv DEF ContentInv, Mapped
<1>4. CASE Fill
  <2>1. PICK n \in 1 .. MB - (done % MB) : Write(n)
    BY <1>4 DEF Fill
  <2>2. memory_size \in Sizes /\ done < memory_size /\ pc = "fill"
    BY <1>4 DEF Fill, BaseInv, FlowInv
  <2> DEFINE to == done + n
  <2>3. /\ file \in FileType /\ done \in Nat /\ to \in Nat /\ to <= MB * (MaxCells + 1)
        /\ to > done
    <3>1. to \in Nat /\ to <= memory_size
      BY <2>1, <2>2, BaseFacts, FillFits
    <3> QED
      BY <2>1, <2>2, <3>1, BaseFacts
  <2>4. /\ file' = Zeroed(file, done, to) /\ done' = to
        /\ UNCHANGED <<unlinked, pc, memory_size>>
    BY <2>1 DEF Write, manager
  <2> HIDE DEF to
  <2>5. file.there /\ file.count = 0 /\ file.size = done
    BY <2>2 DEF ContentInv, Unused
  <2>6. /\ file'.there = file.there /\ file'.count = 0 /\ file'.size = to
        /\ \A i \in CellNumbers :
             file'.cells[i] \in {ZeroCell, file.cells[i],
                                 [file.cells[i] EXCEPT !.intact = ~file.cells[i].sane]}
    <3> DEFINE g == file'
    <3>1. g = Zeroed(file, done, to)
      BY <2>4
    <3> HIDE DEF g
    <3>2. /\ g.there = file.there /\ g.count \in {0, file.count}
          /\ g.size = IF file.size < to THEN to ELSE file.size
          /\ \A i \in CellNumbers :
               g.cells[i] \in {ZeroCell, file.cells[i],
                              [file.cells[i] EXCEPT !.intact = ~file.cells[i].sane]}
      BY <2>3, <3>1, ZeroedFields
    <3>3. g.count = 0 /\ g.size = to
      BY <2>3, <2>5, <3>2
    <3> QED
      BY <3>2, <3>3 DEF g
  <2>7. [ZeroCell EXCEPT !.intact = ~ZeroCell.sane] = ZeroCell
    <3> DEFINE z == [ZeroCell EXCEPT !.intact = ~ZeroCell.sane]
    <3>1. z.intact = TRUE
      BY DEF ZeroCell
    <3>2. z.sane = FALSE /\ z.chunks = {}
      BY DEF ZeroCell
    <3>3. z \in [sane : BOOLEAN, intact : BOOLEAN, chunks : {{}}]
      BY DEF ZeroCell
    <3> HIDE DEF z
    <3>4. z = ZeroCell
      BY <3>1, <3>2, <3>3 DEF ZeroCell
    <3> QED
      BY <3>4 DEF z
  <2>8. \A i \in CellNumbers : file'.cells[i] = ZeroCell
    BY <2>2, <2>6, <2>7 DEF ContentInv, Unused
  <2>9. ZeroCell.intact /\ ~ZeroCell.sane /\ ZeroCell.chunks = {}
    BY DEF ZeroCell
  <2>10. FileInv(file')
    BY <2>5, <2>6, <2>8, <2>9 DEF FileInv
  <2> QED
    BY <2>2, <2>4, <2>5, <2>6, <2>8, <2>10 DEF ContentInv, Unused, Mapped, FileInv
<1>5. CASE SyncFile
  <2>1. /\ file'.there = file.there /\ file'.count = file.count /\ file'.size = file.size
        /\ file'.cells = file.cells /\ file'.synced
    BY <1>5, BaseFacts DEF SyncFile, FileType
  <2>2. file.there
    BY <1>5 DEF SyncFile, ContentInv
  <2>3. FileInv(file')
    BY <2>1, <2>2 DEF FileInv, ContentInv
  <2> QED
    BY <1>5, <2>1, <2>3 DEF SyncFile, ContentInv, Mapped, manager, FileInv
<1> QED
  BY <1>1, <1>2, <1>3, <1>4, <1>5

\* The steps from the mapping on.
LEMMA CacheStepsContent ==
    ASSUME IInv,
           \/ Map \/ MapFails \/ EnoughSlots \/ KeepHeader \/ StoreCount \/ StoreMagic
           \/ InitCell \/ Opened \/ Release \/ \E c \in Chunks : AddChunk(c)
    PROVE  ContentInv'
<1> USE DEF IInv
<1>1. CASE Map \/ EnoughSlots \/ MapFails \/ Release \/ Opened
  BY <1>1 DEF Map, EnoughSlots, MapFails, Release, Opened, Released, Goto, ContentInv, Mapped,
              manager, held, Slots
<1>2. CASE KeepHeader
  <2>1. Dax => file.count = Slots - 1
    <3>1. SUFFICES ASSUME Dax PROVE file.count = Slots - 1
      OBVIOUS
    <3>2. file.count > 0 /\ file.count \in Nat
      BY <1>2, BaseFacts, FileFields DEF KeepHeader, BaseInv, FlowInv
    <3>3. MB * (file.count + 1) = MB * Slots
      BY <1>2, <3>1, <3>2, BaseFacts
      DEF KeepHeader, ContentInv, FileInv, BaseInv, FlowInv, Mapped
    <3>4. Slots \in Nat
      BY <1>2, BaseFacts DEF KeepHeader, BaseInv, FlowInv
    <3>5. file.count + 1 = Slots
      BY <3>2, <3>3, <3>4, Products
    <3> QED
      BY <3>2, <3>4, <3>5
  <2> QED
    BY <1>2, <2>1 DEF KeepHeader, Goto, ContentInv, Mapped, manager, Slots, BaseInv, FlowInv
<1>3. CASE StoreCount
  <2> DEFINE f == [file EXCEPT !.count = Slots - 1]
  <2>1. /\ f \in FileType /\ f.there = file.there /\ f.size = file.size
        /\ f.cells = file.cells /\ f.count = Slots - 1
    <3>1. Slots - 1 \in 0 .. MaxCells
      BY <1>3, BaseFacts DEF StoreCount, BaseInv, FlowInv
    <3> QED
      BY <3>1, BaseFacts DEF FileType
  <2> HIDE DEF f
  <2>2. /\ file' = [f EXCEPT !.synced = @ \/ Dax] /\ pc' = "magic"
        /\ UNCHANGED <<unlinked, memory_size>>
    BY <1>3 DEF StoreCount, StoreHeader, f, manager
  <2>3. /\ file'.there = f.there /\ file'.size = f.size /\ file'.cells = f.cells
        /\ file'.count = f.count /\ (Dax => file'.synced)
    BY <2>1, <2>2, CacheManagerAssumption DEF FileType
  <2>4. file.there /\ file.size = memory_size /\ memory_size = MB * Slots /\ Slots \in Nat
    BY <1>3, BaseFacts DEF StoreCount, ContentInv, Mapped, BaseInv, FlowInv
  <2>5. MB * (file'.count + 1) = file'.size
    <3>1. file'.count + 1 = Slots
      BY <2>1, <2>3, <2>4
    <3> QED
      BY <2>1, <2>3, <2>4, <3>1
  <2>6. FileInv(file')
    BY <2>1, <2>3, <2>4, <2>5 DEF FileInv, ContentInv
  <2> QED
    BY <1>3, <2>1, <2>2, <2>3, <2>4, <2>6 DEF StoreCount, ContentInv, Mapped, Slots, FileInv
<1>4. CASE StoreMagic
  <2> DEFINE f == [file EXCEPT !.magic = TRUE]
  <2>1. /\ f \in FileType /\ f.there = file.there /\ f.size = file.size
        /\ f.cells = file.cells /\ f.count = file.count
    BY BaseFacts DEF FileType
  <2> HIDE DEF f
  <2>2. /\ file' = [f EXCEPT !.synced = @ \/ Dax] /\ pc' = "cells"
        /\ UNCHANGED <<unlinked, memory_size, done>> /\ done = 0
    BY <1>4 DEF BaseInv, FlowInv, StoreMagic, StoreHeader, f, manager
  <2>3. /\ file'.there = f.there /\ file'.size = f.size /\ file'.cells = f.cells
        /\ file'.count = f.count /\ (Dax => file'.synced)
    BY <2>1, <2>2, CacheManagerAssumption DEF FileType
  <2>4. file.there
    BY <1>4 DEF StoreMagic, ContentInv, Mapped
  <2>5. FileInv(file')
    BY <2>1, <2>3, <2>4 DEF FileInv, ContentInv
  <2> QED
    BY <1>4, <2>1, <2>2, <2>3, <2>5 DEF StoreMagic, ContentInv, Mapped, Slots, FileInv
<1>5. CASE InitCell
  <2> DEFINE i == done + 1
             d == IF file.cells[i].sane THEN file.cells[i] ELSE FreshCell
  <2>1. i \in CellNumbers
    BY <1>5, BaseFacts DEF InitCell, BaseInv, FlowInv, CellNumbers
  <2>2. file' = [file EXCEPT !.cells[i] = d] /\ pc' = "cells" /\ pc = "cells"
    BY <1>5 DEF InitCell
  <2>3. file.cells[i] \in CellType /\ FreshCell \in CellType
    BY <2>1, BaseFacts, FileFields DEF FreshCell, CellType
  <2>4. d \in CellType /\ d.intact /\ d.sane
    BY <2>1, <2>3 DEF FreshCell, ContentInv, FileInv
  <2>5. FileInv(file) /\ file.there
    BY <2>2 DEF ContentInv, Mapped
  <2> HIDE DEF i, d
  <2>6. /\ FileInv(file') /\ file'.there /\ file'.size = file.size /\ file'.count = file.count
        /\ file'.cells[i] = d /\ \A j \in CellNumbers \ {i} : file'.cells[j] = file.cells[j]
    <3>1. file \in FileType /\ (Dax /\ ~d.sane => d.chunks = {})
      BY <2>4, BaseFacts
    <3> DEFINE g == file'
    <3>2. g = [file EXCEPT !.cells[i] = d]
      BY <2>2
    <3> HIDE DEF g
    <3>3. FileInv(g)
      BY <2>1, <2>4, <2>5, <3>1, <3>2, CellStored
    <3>4. /\ g.there = file.there /\ g.size = file.size /\ g.count = file.count
          /\ g.cells[i] = d /\ \A j \in CellNumbers \ {i} : g.cells[j] = file.cells[j]
      BY <2>1, <3>1, <3>2 DEF FileType
    <3> QED
      BY <2>5, <3>3, <3>4 DEF g
  <2>7. \A j \in 1 .. i : file'.cells[j].sane
    <3>1. ASSUME NEW j \in 1 .. i PROVE j \in CellNumbers /\ (j = i \/ j \in 1 .. done)
      BY <2>1, BaseFacts DEF i, CellNumbers
    <3>2. \A j \in 1 .. done : file.cells[j].sane
      BY <2>2 DEF ContentInv
    <3> QED
      BY <2>4, <2>6, <3>1, <3>2
  <2>8. done' = i /\ UNCHANGED <<unlinked, memory_size>>
    BY <1>5 DEF InitCell, i
  <2> QED
    BY <2>2, <2>6, <2>7, <2>8 DEF ContentInv, Mapped, Slots, FileInv
<1>6. ASSUME NEW c \in Chunks, AddChunk(c)
      PROVE  ContentInv'
  <2> DEFINE i == CellOf(c)
  <2>1. i \in CellNumbers
    <3>1. file.count \in 1 .. MaxCells
      BY <1>6, BaseFacts, FileFields DEF AddChunk, BaseInv, FlowInv
    <3>2. Part[c] \in Nat
      BY CacheManagerAssumption
    <3>3. Part[c] % file.count \in 0 .. file.count - 1
      BY <3>1, <3>2
    <3> QED
      BY <3>1, <3>3, BaseFacts DEF CellOf, CellNumbers
  <2> HIDE DEF i
  <2>2. PICK kept \in SUBSET (file.cells[i].chunks \cup {c}) :
          file' = [file EXCEPT !.cells[i].chunks = kept]
    BY <1>6 DEF AddChunk, i
  <2> DEFINE d == [file.cells[i] EXCEPT !.chunks = kept]
  <2>3. file.cells[i] \in CellType /\ kept \in SUBSET Chunks
    BY <2>1, <2>2, BaseFacts, FileFields DEF CellType
  <2>4. /\ d \in CellType /\ d.intact = file.cells[i].intact /\ d.sane = file.cells[i].sane
        /\ file' = [file EXCEPT !.cells[i] = d]
    BY <2>2, <2>3 DEF CellType
  <2>5. FileInv(file) /\ file.there /\ pc = "opened" /\ pc' = "opened"
    BY <1>6 DEF AddChunk, ContentInv, Mapped
  <2>6. d.intact /\ (Dax => d.sane)
    <3>1. d.intact
      BY <2>1, <2>4, <2>5 DEF FileInv
    <3>2. Dax => i \in 1 .. Slots - 1
      <4>1. ASSUME Dax PROVE i \in 1 .. Slots - 1
        <5>1. file.count = Slots - 1 /\ file.count \in Nat /\ file.count > 0
          BY <2>5, <4>1, BaseFacts, FileFields DEF ContentInv, BaseInv, FlowInv
        <5>2. Part[c] % file.count \in 0 .. file.count - 1
          BY <5>1, CacheManagerAssumption
        <5> QED
          BY <5>1, <5>2 DEF i, CellOf
      <4> QED
        BY <4>1
    <3>3. \A j \in 1 .. Slots - 1 : file.cells[j].sane
      BY <2>5 DEF ContentInv
    <3> QED
      BY <2>4, <3>1, <3>2, <3>3
  <2> HIDE DEF d
  <2>7. /\ FileInv(file') /\ file'.there /\ file'.size = file.size /\ file'.count = file.count
        /\ file'.cells[i] = d /\ \A j \in CellNumbers \ {i} : file'.cells[j] = file.cells[j]
    <3>1. file \in FileType /\ (Dax /\ ~d.sane => d.chunks = {})
      BY <2>6, BaseFacts
    <3> DEFINE g == file'
    <3>2. g = [file EXCEPT !.cells[i] = d]
      BY <2>4
    <3> HIDE DEF g
    <3>3. FileInv(g)
      BY <2>1, <2>4, <2>5, <2>6, <3>1, <3>2, CellStored
    <3>4. /\ g.there = file.there /\ g.size = file.size /\ g.count = file.count
          /\ g.cells[i] = d /\ \A j \in CellNumbers \ {i} : g.cells[j] = file.cells[j]
      BY <2>1, <3>1, <3>2 DEF FileType
    <3> QED
      BY <2>5, <3>3, <3>4 DEF g
  <2>8. \A j \in 1 .. Slots - 1 : file'.cells[j].sane
    <3>1. \A j \in 1 .. Slots - 1 : j \in CellNumbers /\ file.cells[j].sane
      BY <2>5, BaseFacts DEF ContentInv, CellNumbers, BaseInv, FlowInv
    <3> QED
      BY <2>4, <2>7, <3>1
  <2>9. UNCHANGED <<unlinked, memory_size, done>>
    BY <1>6 DEF AddChunk, manager
  <2> QED
    BY <2>5, <2>7, <2>8, <2>9 DEF ContentInv, Mapped, Slots, FileInv
<1> QED
  BY <1>1, <1>2, <1>3, <1>4, <1>5, <1>6

\* If fstat does not fail, every step keeps the inductive invariant.
LEMMA StepIInv ==
    ASSUME ~StatMayFail
    PROVE  IInv /\ [Next]_vars => IInv'
<1> SUFFICES ASSUME IInv, [Next]_vars
             PROVE  IInv'
  OBVIOUS
<1>1. BaseInv'
  BY StepBaseInv DEF IInv
<1>2. FileInv(file) /\ FileInv(unlinked)
  BY DEF IInv, ContentInv
<1>3. ASSUME Ends, FileInv(file'), FileInv(unlinked')
      PROVE  ContentInv'
  BY <1>3 DEF Ends, ContentInv, Mapped, FileInv
<1>4. CASE Aborts
  <2>1. FileInv(file') /\ FileInv(unlinked') /\ Ends
    BY <1>2, <1>4 DEF Aborts, FileInv
  <2> QED
    BY <1>1, <1>3, <2>1 DEF IInv
<1>5. CASE Kill
  <2>1. Ends /\ unlinked' = unlinked
    BY <1>5 DEF Kill
  <2>2. FileInv(file')
    <3>1. CASE file' = file
      BY <1>2, <3>1 DEF FileInv
    <3>2. ASSUME pc = "opened", NEW i \in 1 .. cells,
                 file' = [file EXCEPT !.cells[i] = [@ EXCEPT !.sane = FALSE, !.chunks = {}]]
          PROVE  FileInv(file')
      <4> DEFINE d == [file.cells[i] EXCEPT !.sane = FALSE, !.chunks = {}]
      <4>1. i \in CellNumbers
        BY <3>2, BaseFacts DEF IInv, BaseInv, TypeOK, CellNumbers
      <4>2. file.cells[i] \in CellType /\ file.cells[i].intact
        BY <1>2, <4>1, BaseFacts, FileFields DEF IInv, FileInv
      <4>3. d \in CellType /\ d.intact /\ d.chunks = {}
        BY <4>2 DEF CellType
      <4>4. file.there /\ file \in FileType
        BY <3>2, BaseFacts DEF IInv, ContentInv, Mapped
      <4>5. file' = [file EXCEPT !.cells[i] = d]
        BY <3>2
      <4> HIDE DEF d
      <4> QED
        BY <1>2, <4>1, <4>3, <4>4, <4>5, CellStored
    <3> QED
      BY <1>5, <3>1, <3>2 DEF Kill
  <2> QED
    BY <1>1, <1>2, <1>3, <2>1, <2>2 DEF IInv, FileInv
<1>6. CASE PowerLoss
  <2>1. FileInv(file')
    <3>1. CASE file' \in Remains(file)
      BY <1>2, <3>1, RemainsInv, BaseFacts DEF IInv
    <3> QED
      BY <1>2, <1>6, <3>1, NoFileInv DEF PowerLoss, FileInv
  <2>2. FileInv(unlinked') /\ Ends
    BY <1>6, NoFileInv DEF PowerLoss, FileInv
  <2> QED
    BY <1>1, <1>3, <2>1, <2>2 DEF IInv
<1>7. CASE UNCHANGED vars
  BY <1>1, <1>7 DEF vars, IInv, ContentInv, FileInv, Unused, held, manager, Slots
<1> QED
  BY <1>1, <1>4, <1>5, <1>6, <1>7, FileStepsContent, CacheStepsContent DEF Next, Proceed, IInv

-----------------------------------------------------------------------------
(* Theorems                                                                *)

\* Type correctness, whatever fails and whenever the process or the power does.
THEOREM ManagerTypeOK == Spec => []TypeOK
<1>1. BaseInv => TypeOK
  BY DEF BaseInv
<1> QED
  BY <1>1, InitBaseInv, StepBaseInv, PTL DEF Spec

\* cache_manager_open_cache and cache_manager_release: no path through a failed
\* system call leaves a descriptor or a mapping behind, or gives one back twice.
THEOREM ManagerNothingLeaks == Spec => []NothingLeaks
<1>1. BaseInv => NothingLeaks
  <2>1. SUFFICES ASSUME BaseInv PROVE NothingLeaks
    OBVIOUS
  <2>2. pc = "closed" => fds = 0 /\ maps = 0 /\ ~fd /\ ~ptr /\ cells = 0
    BY <2>1 DEF BaseInv, HeldInv, Mapped
  <2>3. pc = "opened" => fds = 1 /\ maps = 1 /\ fd /\ ptr
    BY <2>1 DEF BaseInv, HeldInv, Mapped
  <2>4. pc = "opened" => cells > 0
    BY <2>1, BaseFacts DEF BaseInv, HeldInv, FlowInv
  <2> QED
    BY <2>2, <2>3, <2>4 DEF NothingLeaks
<1> QED
  BY <1>1, InitBaseInv, StepBaseInv, PTL DEF Spec

\* cache_manager_create_file: where stat fails only for a missing file, the zeros
\* of an interrupted creation are never under the sane header of a cell in use.
THEOREM ManagerNoHalfCells ==
    ASSUME ~StatMayFail
    PROVE  Spec => []NoHalfCells
<1>1. IInv => NoHalfCells
  <2>1. SUFFICES ASSUME IInv, pc = "opened", NEW i \in 1 .. cells
                 PROVE  file.cells[i].intact
    BY DEF NoHalfCells
  <2>2. i \in CellNumbers
    BY <2>1, BaseFacts DEF IInv, BaseInv, TypeOK, CellNumbers
  <2> QED
    BY <2>1, <2>2 DEF IInv, ContentInv, FileInv
<1>2. Init => IInv
  BY InitBaseInv, InitContentInv DEF IInv
<1>3. IInv /\ [Next]_vars => IInv'
  BY StepIInv
<1> QED
  BY <1>1, <1>2, <1>3, PTL DEF Spec

\* cache_init: with DAX, the count that an earlier process left in the header is
\* the length of the array of cells, and all of them are within the file.
THEOREM ManagerCellsAreThere ==
    ASSUME ~StatMayFail, Dax
    PROVE  Spec => []CellsAreThere
<1>1. IInv => CellsAreThere
  <2>1. SUFFICES ASSUME IInv, pc = "opened"
                 PROVE  file.count = cells /\ cells > 0 /\ MB * (cells + 1) <= file.size
    BY DEF CellsAreThere
  <2>2. cells = Slots - 1 /\ file.count = Slots - 1 /\ Slots >= 2
    BY <2>1 DEF IInv, BaseInv, HeldInv, ContentInv, FlowInv
  <2>3. file.size = MB * Slots /\ Slots \in Nat /\ file.size \in Nat
    BY <2>1, BaseFacts DEF IInv, BaseInv, FlowInv, ContentInv, Mapped
  <2>4. cells + 1 = Slots
    BY <2>2, <2>3
  <2>5. MB * (cells + 1) <= file.size
    BY <2>3, <2>4
  <2> QED
    BY <2>2, <2>3, <2>5
<1>2. Init => IInv
  BY InitBaseInv, InitContentInv DEF IInv
<1>3. IInv /\ [Next]_vars => IInv'
  BY StepIInv
<1> QED
  BY <1>1, <1>2, <1>3, PTL DEF Spec

\* Chunks are lost from a file only if some cell has fewer of them.
LEMMA StoredGrows ==
    ASSUME NEW f, NEW g, \A i \in CellNumbers : f.cells[i].chunks \subseteq g.cells[i].chunks
    PROVE  Stored(f) \subseteq Stored(g)
BY DEF Stored

\* cache_init and cell_init: with DAX, where stat fails only for a missing file,
\* opening a file of the right length loses no chunk that an earlier process
\* left in it.
THEOREM ManagerOpenKeepsChunks ==
    ASSUME ~StatMayFail, Dax
    PROVE  Spec => OpenKeepsChunks
<1> DEFINE Kept == Stored(file) \subseteq Stored(file')
           Excused == pc = "opened" \/ pc' = "closed" \/ file.size # memory_size
<1>1. ASSUME IInv, [Next]_vars
      PROVE  [~Kept => Excused]_vars
  <2> SUFFICES ASSUME Next PROVE Kept \/ Excused
    BY <1>1
  <2>1. CASE file'.cells = file.cells
    BY <2>1 DEF Stored
  <2>2. ASSUME Stored(file) = {} PROVE Kept
    BY <2>2
  <2>3. CASE Open \/ StatFails \/ StatRightSize \/ StatWrongSize \/ WriteFails \/ CallFails
             \/ OpenFile \/ Map \/ MapFails \/ EnoughSlots \/ KeepHeader \/ Opened \/ Aborts
    <3>1. file' = file
      BY <2>3 DEF Open, StatFails, StatRightSize, StatWrongSize, WriteFails, CallFails, OpenFile,
                  Map, MapFails, Released, EnoughSlots, KeepHeader, Opened, Aborts, Goto
    <3> QED
      BY <2>1, <3>1
  <2>4. CASE Release \/ Kill \/ PowerLoss \/ \E c \in Chunks : AddChunk(c)
    BY <2>4 DEF Release, Kill, PowerLoss, Ends, AddChunk
  <2>5. CASE Unlink
    BY <1>1, <2>5 DEF Unlink, IInv, ContentInv
  <2>6. CASE CreateFile
    <3>1. file = NoFile
      BY <1>1, <2>6 DEF CreateFile, IInv, ContentInv, FileInv
    <3>2. Stored(file) = {}
      BY <3>1 DEF Stored, NoFile, ZeroCell
    <3> QED
      BY <2>2, <3>2
  <2>7. CASE Fill
    <3>1. \A i \in CellNumbers : file.cells[i].chunks = {}
      BY <1>1, <2>7 DEF Fill, IInv, ContentInv, Unused, ZeroCell
    <3> QED
      BY <3>1, StoredGrows
  <2>8. CASE SyncFile
    <3>1. file'.cells = file.cells
      BY <1>1, <2>8, BaseFacts DEF SyncFile, IInv, FileType
    <3> QED
      BY <2>1, <3>1
  <2>9. CASE StoreCount
    <3>1. file' = [[file EXCEPT !.count = Slots - 1] EXCEPT !.synced = @ \/ Dax]
      BY <2>9 DEF StoreCount, StoreHeader
    <3>2. file'.cells = file.cells
      BY <1>1, <3>1, BaseFacts DEF IInv, FileType
    <3> QED
      BY <2>1, <3>2
  <2>10. CASE StoreMagic
    <3>1. file' = [[file EXCEPT !.magic = TRUE] EXCEPT !.synced = @ \/ Dax]
      BY <2>10 DEF StoreMagic, StoreHeader
    <3>2. file'.cells = file.cells
      BY <1>1, <3>1, BaseFacts DEF IInv, FileType
    <3> QED
      BY <2>1, <3>2
  <2>11. CASE InitCell
    <3> DEFINE i == done + 1
               d == IF file.cells[i].sane THEN file.cells[i] ELSE FreshCell
    <3>1. i \in CellNumbers
      BY <1>1, <2>11, BaseFacts DEF InitCell, IInv, BaseInv, FlowInv, CellNumbers
    <3>2. file' = [file EXCEPT !.cells[i] = d]
      BY <2>11 DEF InitCell
    <3>3. file.cells[i].chunks \subseteq d.chunks
      BY <1>1, <3>1 DEF IInv, ContentInv, FileInv
    <3> HIDE DEF i, d
    <3>4. file'.cells[i] = d /\ \A j \in CellNumbers \ {i} : file'.cells[j] = file.cells[j]
      BY <1>1, <3>1, <3>2, BaseFacts DEF IInv, FileType
    <3>5. \A j \in CellNumbers : file.cells[j].chunks \subseteq file'.cells[j].chunks
      BY <3>3, <3>4
    <3> QED
      BY <3>5, StoredGrows
  <2> QED
    BY <2>3, <2>4, <2>5, <2>6, <2>7, <2>8, <2>9, <2>10, <2>11 DEF Next, Proceed
<1>2. Init => IInv
  BY InitBaseInv, InitContentInv DEF IInv
<1>3. IInv /\ [Next]_vars => IInv'
  BY StepIInv
<1> QED
  BY <1>1, <1>2, <1>3, PTL DEF Spec, OpenKeepsChunks
=============================================================================
