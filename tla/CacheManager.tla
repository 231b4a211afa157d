---------------------------- MODULE CacheManager ----------------------------
(***************************************************************************)
(* The life of the cache file: cache_manager_open_cache with all that it   *)
(* calls (cache_manager_check_file, cache_manager_create_file, cache_init, *)
(* cache_header_init, cell_init), one action per system call or store, and *)
(* cache_manager_release. Every system call may fail, the process may be   *)
(* killed and power may be lost between any two steps.                     *)
(*                                                                         *)
(* Lengths are in units of which MB make a megabyte, so that a write may   *)
(* stop inside one. Slot 0 of the file holds the header of the cache and   *)
(* slot i > 0 cell i, whose own header is at the end of the slot. A cell   *)
(* is abstracted to whether its header is sane, whether its body is what   *)
(* the header describes, and the chunks in it; module Cell has the rest.   *)
(***************************************************************************)
EXTENDS Integers, FiniteSets

CONSTANTS
    MB,             \* CACHE_MANAGER_MB and CACHE_CELL_SIZE, in units
    Requests,       \* the sizes with which callers open the cache
    Chunks,         \* the chunks
    Part,           \* chunk -> first 8 bytes of its checksum
    Dax,            \* does the first mmap, with MAP_SYNC, succeed?
    StatMayFail     \* may stat fail although the file exists?

\* cache_manager_filesize: one more than the whole megabytes asked for.
FileSize(request) == (request \div MB + 1) * MB

ASSUME CacheManagerAssumption ==
    /\ MB \in Nat \ {0}
    /\ Requests \subseteq Nat /\ Requests # {} /\ IsFiniteSet(Requests)
    /\ IsFiniteSet(Chunks) /\ Part \in [Chunks -> Nat]
    /\ Dax \in BOOLEAN /\ StatMayFail \in BOOLEAN

VARIABLES
    file,           \* the cache file
    unlinked,       \* the file unlinked last: a loss of power may undo that
    pc,             \* where the process is
    done,           \* units written, or cells initialised, by the current loop
    memory_size,    \* cache_manager->memory_size
    fd,             \* is cache_manager->fd an open descriptor?
    ptr,            \* is cache_manager->ptr a mapping?
    cells,          \* length of the array cache->cells, 0 when it is not there
    fds,            \* descriptors the kernel holds for the process
    maps            \* mappings the kernel holds for the process

held == <<fds, maps>>
manager == <<memory_size, fd, ptr, cells>>
vars == <<file, unlinked, pc, done, manager, held>>

\* As many cells as the largest request makes.
MaxCells == CHOOSE n \in {r \div MB : r \in Requests} :
                \A r \in Requests : r \div MB <= n
CellNumbers == 1 .. MaxCells

ZeroCell == [sane |-> FALSE, intact |-> TRUE, chunks |-> {}]
NoFile == [there |-> FALSE, size |-> 0, synced |-> FALSE, magic |-> FALSE,
           count |-> 0, cells |-> [i \in CellNumbers |-> ZeroCell]]
EmptyFile == [NoFile EXCEPT !.there = TRUE]

-----------------------------------------------------------------------------
(* cache_manager_open_cache                                                *)

\* The call begins.
Open ==
    /\ pc = "closed"
    /\ pc' = "stat"
    /\ \E r \in Requests : memory_size' = FileSize(r)
    /\ UNCHANGED <<file, unlinked, done, fd, ptr, cells, held>>

\* The call goes on, or returns an error, without touching anything else.
Goto(label) ==
    /\ pc' = label
    /\ UNCHANGED <<file, unlinked, done, manager, held>>

\* cache_manager_check_file: any failure of stat is taken for a missing file.
StatFails ==
    /\ pc = "stat" /\ (file.there => StatMayFail)
    /\ Goto("create")

\* Faulty: a file that is longer than needed will do.
LongFileWillDo ==
    /\ pc = "stat" /\ file.there /\ file.size >= memory_size
    /\ Goto("open")

StatRightSize ==
    /\ pc = "stat" /\ file.there /\ file.size = memory_size
    /\ Goto("open")

StatWrongSize ==
    /\ pc = "stat" /\ file.there /\ file.size # memory_size
    /\ Goto("unlink")

\* Faulty: the file of the wrong size is written over instead.
KeepOldFile == pc = "unlink" /\ Goto("create")

Unlink ==
    /\ pc = "unlink"
    /\ pc' = "create"
    /\ file' = NoFile /\ unlinked' = file
    /\ UNCHANGED <<done, manager, held>>

\* cache_manager_create_file: open with O_CREAT, and without O_TRUNC.
CreateFile ==
    /\ pc = "create"
    /\ pc' = "fill" /\ done' = 0
    /\ file' = IF file.there THEN file ELSE EmptyFile
    /\ fds' = fds + 1
    /\ UNCHANGED <<unlinked, manager, maps>>

\* Units from .. to - 1 of the file are overwritten with zeros. The header of a
\* cell is in the last unit of its slot, and only there zeros make it insane.
Zeroed(f, from, to) ==
    LET Hits(u) == from <= u /\ u < to
        Header(i) == Hits(MB * (i + 1) - 1)
        Body(i) == \E u \in MB * i .. MB * (i + 1) - 2 : Hits(u)
    IN  [f EXCEPT
            !.size = IF f.size < to THEN to ELSE f.size,
            !.synced = f.synced /\ to <= f.size,
            !.magic = IF Hits(0) THEN FALSE ELSE f.magic,
            !.count = IF Hits(0) THEN 0 ELSE f.count,
            !.cells = [i \in CellNumbers |->
                CASE Header(i) -> ZeroCell
                  [] ~Header(i) /\ Body(i) ->
                        [f.cells[i] EXCEPT !.intact = ~f.cells[i].sane]
                  [] OTHER -> f.cells[i]]]

Write(n) ==
    /\ file' = Zeroed(file, done, done + n)
    /\ done' = done + n
    /\ UNCHANGED <<unlinked, pc, manager, held>>

\* Faulty: after a short write a whole megabyte is written again.
FillWholeMegabytes ==
    /\ pc = "fill" /\ done < memory_size
    /\ \E n \in 1 .. MB : Write(n)

\* The loop writes megabyte by megabyte, each in as many calls as it takes.
Fill ==
    /\ pc = "fill" /\ done < memory_size
    /\ \E n \in 1 .. MB - (done % MB) : Write(n)

\* Faulty: a failed write starts the file all over again.
WriteRetries ==
    /\ pc = "fill" /\ done < memory_size
    /\ done' = 0
    /\ UNCHANGED <<file, unlinked, pc, manager, held>>

\* write fails: the descriptor is closed and the part of the file stays.
WriteFails ==
    /\ pc = "fill" /\ done < memory_size
    /\ pc' = "closed" /\ fds' = fds - 1 /\ done' = 0
    /\ UNCHANGED <<file, unlinked, manager, maps>>

\* fsync and close.
SyncFile ==
    /\ pc = "fill" /\ done = memory_size
    /\ pc' = "open" /\ fds' = fds - 1 /\ done' = 0
    /\ file' = [file EXCEPT !.synced = TRUE]
    /\ UNCHANGED <<unlinked, manager, maps>>

\* open, for the mapping.
OpenFile ==
    /\ pc = "open"
    /\ pc' = "map" /\ fd' = TRUE /\ fds' = fds + 1
    /\ UNCHANGED <<file, unlinked, done, memory_size, ptr, cells, maps>>

\* unlink, creation or open fail: the call returns an error.
CallFails == pc \in {"unlink", "create", "open"} /\ Goto("closed")

\* mmap with MAP_SYNC or, where that is not supported, without. The difference
\* shows at the first store: see StoreHeader.
Map ==
    /\ pc = "map"
    /\ pc' = "slots" /\ ptr' = TRUE /\ maps' = maps + 1
    /\ UNCHANGED <<file, unlinked, done, memory_size, fd, cells, fds>>

\* What cache_manager_release does: cache_release, munmap, close.
Released ==
    /\ cells' = 0
    /\ ptr' = FALSE /\ maps' = IF ptr THEN maps - 1 ELSE maps
    /\ fd' = FALSE /\ fds' = IF fd THEN fds - 1 ELSE fds
    /\ UNCHANGED <<file, unlinked, done, memory_size>>

\* Faulty: a failed mmap just returns.
MapFailsUnreleased == pc = "map" /\ Goto("closed")

MapFails == pc = "map" /\ pc' = "closed" /\ Released

-----------------------------------------------------------------------------
(* cache_init and cache_header_init                                        *)

Slots == memory_size \div MB

\* cache_init begins: ALWAYS(slots >= 2).
EnoughSlots == pc = "slots" /\ Slots >= 2 /\ Goto("header")

\* The header says how many cells there are; one with the magic number is kept.
KeepHeader == pc = "header" /\ file.magic /\ Goto("cells")

\* A store to a page mapped with MAP_SYNC first commits the length of the file.
StoreHeader(label, f) ==
    /\ file' = [f EXCEPT !.synced = @ \/ Dax] /\ pc' = label
    /\ UNCHANGED <<unlinked, done, manager, held>>

StoreCount ==
    /\ pc = "header" /\ ~file.magic
    /\ StoreHeader("magic", [file EXCEPT !.count = Slots - 1])

StoreMagic == pc = "magic" /\ StoreHeader("cells", [file EXCEPT !.magic = TRUE])

FreshCell == [sane |-> TRUE, intact |-> TRUE, chunks |-> {}]

\* Faulty: cell_init resets a sane cell too.
ResetAnyCell ==
    /\ pc = "cells" /\ done < Slots - 1
    /\ done' = done + 1 /\ cells' = Slots - 1
    /\ file' = [file EXCEPT !.cells[done + 1] = FreshCell]
    /\ UNCHANGED <<unlinked, pc, memory_size, fd, ptr, held>>

\* One round of the loop: cell_init resets a cell that is not sane.
InitCell ==
    /\ pc = "cells" /\ done < Slots - 1
    /\ done' = done + 1 /\ cells' = Slots - 1
    /\ file' = [file EXCEPT !.cells[done + 1] = IF @.sane THEN @ ELSE FreshCell]
    /\ UNCHANGED <<unlinked, pc, memory_size, fd, ptr, held>>

Opened ==
    /\ pc = "cells" /\ done = Slots - 1
    /\ pc' = "opened" /\ done' = 0
    /\ UNCHANGED <<file, unlinked, manager, held>>

-----------------------------------------------------------------------------
(* Use of the open cache                                                   *)

\* cache_get_cell_index: the cell of a chunk, by the count in the header.
CellOf(c) == (Part[c] % file.count) + 1

\* cache_add_chunk. The cell may give up any of its chunks, the new one too.
AddChunk(c) ==
    /\ pc = "opened" /\ c \notin file.cells[CellOf(c)].chunks
    /\ \E kept \in SUBSET (file.cells[CellOf(c)].chunks \cup {c}) :
          file' = [file EXCEPT !.cells[CellOf(c)].chunks = kept]
    /\ UNCHANGED <<unlinked, pc, done, manager, held>>

\* cache_manager_release, once or once more.
Release ==
    /\ pc \in {"opened", "closed"}
    /\ pc' = "closed" /\ Released

-----------------------------------------------------------------------------
(* The environment                                                         *)

\* The process ends; the next one begins with cache_manager_init.
Ends ==
    /\ pc' = "closed" /\ done' = 0
    /\ memory_size' = 0 /\ fd' = FALSE /\ ptr' = FALSE /\ cells' = 0
    /\ fds' = 0 /\ maps' = 0

\* ALWAYS fails: too small a request, or fsync.
Aborts ==
    /\ \/ pc = "slots" /\ Slots < 2
       \/ pc = "fill" /\ done = memory_size
    /\ Ends /\ UNCHANGED <<file, unlinked>>

\* A kill in the middle of an addition leaves a cell that is not sane.
Kill ==
    /\ \/ file' = file
       \/ /\ pc = "opened"
          /\ \E i \in 1 .. cells :
                file' = [file EXCEPT !.cells[i] = [@ EXCEPT !.sane = FALSE, !.chunks = {}]]
    /\ Ends /\ UNCHANGED unlinked

\* File f with length s, its header only if h, and without the cells lost. (That
\* a cell notices is shown in CellPersist, so here it is not sane.)
Remnant(f, s, h, lost) ==
    [f EXCEPT !.size = s, !.magic = f.magic /\ h, !.count = IF h THEN f.count ELSE 0,
              !.cells = [i \in CellNumbers |-> IF i \in lost THEN ZeroCell ELSE f.cells[i]]]

\* What may be left of a file: before fsync its length is open; of the mapped
\* pages those with the header, or with any of the cells, may be unwritten.
Remains(f) ==
    {Remnant(f, s, h, lost) : s \in IF f.synced THEN {f.size} ELSE 0 .. f.size,
                              h \in BOOLEAN, lost \in SUBSET CellNumbers}

PowerLoss ==
    /\ file' \in {NoFile, unlinked} \cup Remains(file)
    /\ unlinked' = NoFile
    /\ Ends

-----------------------------------------------------------------------------
Init ==
    /\ file = NoFile /\ unlinked = NoFile
    /\ pc = "closed" /\ done = 0
    /\ memory_size = 0 /\ fd = FALSE /\ ptr = FALSE /\ cells = 0
    /\ fds = 0 /\ maps = 0

\* The steps of cache_manager_open_cache after the first.
Proceed ==
    \/ StatFails \/ StatRightSize \/ StatWrongSize \/ Unlink
    \/ CreateFile \/ Fill \/ WriteFails \/ SyncFile \/ CallFails
    \/ OpenFile \/ Map \/ MapFails
    \/ EnoughSlots \/ KeepHeader \/ StoreCount \/ StoreMagic
    \/ InitCell \/ Opened \/ Aborts

Next ==
    \/ Open \/ Proceed \/ Release \/ Kill \/ PowerLoss
    \/ \E c \in Chunks : AddChunk(c)

\* The thread that opens the cache is scheduled and its system calls return.
Spec == Init /\ [][Next]_vars /\ WF_vars(Proceed)
-----------------------------------------------------------------------------
(* Properties                                                              *)

CellType == [sane : BOOLEAN, intact : BOOLEAN, chunks : SUBSET Chunks]
FileType == [there : BOOLEAN, size : 0 .. MB * (MaxCells + 1), synced : BOOLEAN,
             magic : BOOLEAN, count : 0 .. MaxCells, cells : [CellNumbers -> CellType]]

\* Type invariant. A file is never longer than the longest that is asked for.
TypeOK ==
    /\ file \in FileType /\ unlinked \in FileType
    /\ pc \in {"closed", "stat", "unlink", "create", "fill", "open", "map",
               "slots", "header", "magic", "cells", "opened"}
    /\ done \in 0 .. MB * (MaxCells + 1)
    /\ memory_size \in {0} \cup {FileSize(r) : r \in Requests}
    /\ fd \in BOOLEAN /\ ptr \in BOOLEAN /\ cells \in 0 .. MaxCells
    /\ fds \in 0 .. 1 /\ maps \in 0 .. 1

\* cache_get_cell_index and cache_release index the array cache->cells, which
\* has the length that memory_size gives, with the count that an earlier process
\* left in the header. However that process ended, the two agree, and all cells
\* are within the file.
CellsAreThere ==
    pc = "opened" =>
        /\ file.count = cells /\ cells > 0
        /\ MB * (cells + 1) <= file.size

\* No way out of cache_manager_open_cache, and no release after it, leaves a
\* descriptor or a mapping behind, or releases one twice.
NothingLeaks ==
    /\ pc = "closed" => fds = 0 /\ maps = 0 /\ ~fd /\ ~ptr /\ cells = 0
    /\ pc = "opened" => fds = 1 /\ maps = 1 /\ fd /\ ptr /\ cells > 0

\* cache_manager_open_cache returns, however short the writes are, unless the
\* process ends.
OpenReturns == (pc \notin {"closed", "opened"}) ~> (pc \in {"closed", "opened"})

\* README.md: "we cannot compromise the integrity of the cache". The zeros of an
\* interrupted cache_manager_create_file are never under the sane header of a
\* cell in use.
NoHalfCells == pc = "opened" => \A i \in 1 .. cells : file.cells[i].intact

Stored(f) == UNION {f.cells[i].chunks : i \in CellNumbers}

\* Opening a file of the right length loses no chunk; the only chunks that go are
\* those of a file of another length, those a cell gives up, and those that a
\* kill or a loss of power takes.
OpenKeepsChunks ==
    [][~(Stored(file) \subseteq Stored(file')) =>
          pc = "opened" \/ pc' = "closed" \/ file.size # memory_size]_vars
=============================================================================
