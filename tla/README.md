# TLA+ models and proofs for libtheo

libtheo is a data-deduplication cache for non-volatile memory: a stream is cut
into chunks, each chunk is named by its SHA-256, and chunks are kept in a file
of fixed size that is mapped into memory and must survive crashes. This
directory holds TLA+ models of the code in `src/src/theo`, the TLC
configurations that check them, and machine-checked proofs of what they promise.

File names below without a directory are in `src/src/theo`.

## 1. The system

| component | state | operations | interacts with |
|---|---|---|---|
| `cell_body`, `cell_body_entry` | ring of entries from offset 0 of the slab: each has a checksum, two flags, a 15-bit size and a 15-bit back pointer; `top_entry_offset`, `next_entry_offset` | `cell_body_init`, `cell_body_add` (`add_top`, `add_offset`, `push_down_top`, `add_dir_entry`) | removes from and adds to the directory through `cell_header`; shares the free room with the overflow area |
| `cell_dir`, `cell_dir_block`, `cell_dir_overflow`, `cell_dir_entry` | 256 blocks of 3 slots, a 4-bit and a 12-bit counter per block, one overflow array growing down from the header | `cell_dir_init`, `_add`, `_remove`, `_get_chunk` | called by `cell_header` and `cell` |
| `cell_header` | magic number, entry and byte counter | `_init`, `_sane`, `_remove`, `_add` | owns `cell_ic`, `cell_body`, `cell_dir` |
| `cell_ic` | entry code and exit code | `_init`, `_sane`, `_on_entry`, `_on_exit` | brackets every update of the slab |
| `cell` | slab, mutex | `cell_init`, `_release`, `_add_chunk`, `_has_chunk`, `_get_chunk`, counters | one mutex, held for each whole call |
| `cache`, `cache_header`, `cache_metrics` | array of cells, cell count, magic number | `cache_init`, `_release`, `_add/_has/_get_chunk`, `_get_metrics` | picks the cell by the checksum modulo the cell count |
| `cache_manager` | file descriptor, mapping, cache | create, check, open, release | file system, `mmap` |
| `chunker`, `chunk_ref` | retained bytes, rolling-hash state | cut a buffer, flush what is retained | third-party rolling hash |
| `chunk_streamer` | a chunker, counters of hits and additions | process a buffer, flush | cache manager: look up, then add |
| `chunk`, `checksum`, `msys`, `xmalloc` | none of their own | copies, SHA-256, system calls | |

What is hard in it:

* **The ring.** Chunks have different sizes. A new chunk takes the place of one
  or several old ones, leaves a free entry behind, and back pointers must be
  fixed. The directory may claim room at the end of the ring, which takes away
  the last entry. Errors need long sequences of additions with particular sizes.
* **Shared room.** The ring grows up, the overflow area of the directory grows
  down, the difference is unsigned.
* **Bit-fields.** Sizes (15 bits), overflow counters (12 bits), codes (32 bits).
* **Crashes.** The process can be killed, or abort on an assertion, anywhere in
  an update, and power can be lost while lines are still in the CPU's cache. The
  two codes are the only defence.
* **Threads.** One mutex per cell is all that keeps the steps of two calls apart;
  the streamer's look-up and addition are two calls, and metrics are read cell by
  cell.
* **Streams in pieces.** Reads return any number of bytes; what is left after the
  last cut is retained, flushed to the caller's buffer and hashed again with more
  bytes behind it, by a hash that keeps its state from call to call.

What makes it correct: a chunk that is found is the chunk that was stored; the
walk of the ring stays on entries; ring and overflow area never overlap; the
counters count what is there, also while other threads add; equal data is cut
into equal chunks, however it is read, and no byte of it is lost; an interrupted update is noticed on the next
open, and an uninterrupted one loses nothing; assertions hold; chunks go in the
order in which they came. `PROJECT.json` lists the hazards line by line.

## 2. Modules

| module | models | relation |
|---|---|---|
| `DirMap` | the directory as a map from a checksum to an offset and to whether it sits in the overflow area | used by `Cell`; the abstract specification of `CellDir` |
| `Cell` | `cell.c`, `cell_body*.c`, `cell_header.c`, `cell_ic.c` | extends `DirMap` |
| `ChunkRing` | the promise of a cell: a ring buffer of chunks, without offsets | abstract specification of `Cell`, which holds the mapping (`Promise`) |
| `CellDir` | `cell_dir*.c` as laid out in memory | implements `DirMap` |
| `CellPersist` | `cell_ic.c` and `cell_header_init`, store by store, with write-back, kills and losses of power | refines the atomic treatment of crashes in `Cell` (by argument, not formally) |
| `CacheManager` | `cache_manager.c`, `cache_init`, `cache_release`, `cache_header.c`: the life of the cache file, call by call | a cell is abstracted to what `Cell` and `CellPersist` show of it |
| `Chunker` | `chunker.c`, `chunk_ref_set`, the loop of `chunk_streamer_process_buffer`, the flush, and the caller's side of the protocol | its chunks are what a streamer of `Cache` looks up and adds |
| `Cache` | the open cache and its threads: `chunk_streamer`'s look-up and addition, `cache.c`, all calls of `cell.c` step by step under the mutex, the metrics | a cell is abstracted to slots; `Cell` has the rest |
| `ChunkStore` | the promise to threads: each call takes effect at one moment | abstract specification of `Cache`, which holds the mapping (`Store`) |
| `CellProofs` | the theorems about the layout of `Cell`: ring, directory, room, codes | extends `Cell` |
| `CellCountProofs` | the theorems about what `Cell` counts, evicts and keeps | extends `CellProofs` |
| `CellRingProofs` | the theorem that `Cell` implements `ChunkRing` | extends `CellCountProofs` |
| `CellDirProofs`, `CellPersistProofs`, `CacheManagerProofs`, `ChunkerProofs`, `CacheProofs` | the theorems about the module of that name | each extends its module |
| `MCCell`, `MCCellDir`, `MCCellPersist`, `MCCacheManager`, `MCChunker`, `MCCache` | instances for TLC | |

Definitions whose comment begins with "Faulty:" are variants with one plausible
bug. They are used by nothing; putting one in the place of its original shows
that the property named in `PROJECT.json` notices the bug.

### Cell

`body` maps the offset of each entry to its fields, so that two entries overlap
exactly when one offset lies in the extent of another. Chunk data is abstracted
to its length. `top` and `next` are `top_entry_offset` and `next_entry_offset`.
`torn` is true when the process stopped inside an update; then the slab holds
some part of the update, the other variables keep their last values, and nothing
is claimed about them until the reset. `failed` names the assertion that ended
the last process.

`cell_add_chunk` holds the mutex throughout and is one step. It is an action per
path: `AddTop` (room above the top), `AddReplace` (entry of equal size),
`AddSplit` (merged entries, left-over, stopping short of the top), `AddPushDown`
and `AddDropped` (the merged room reaches the top; the chunk fits there, or does
not and is silently dropped), `AddAborts` (an `ALWAYS` fails) and `AddKilled`.
The loop of `cell_body_add_offset` is not stepped through: `Makes(c, last)` says
at which entry it stops. `Failure(S, pop)` lists the assertions in the order in
which the code meets them while it removes the entries at `S` and then the entry
below the top. `Field` is the truncation of a size to its bit-field.

### CellDir

One action per way through `cell_dir_add` and `cell_dir_remove`; `Lookup` is
`cell_dir_get_chunk`, with its shortcuts (an empty block is not searched, and the
overflow area is not when the block's counter is 0) and its search order. `held`
is what the ring holds: only held chunks are removed, and only chunks that the
look-up does not find are added, while the ring has room (`RingHasRoom`). How many
chunks it holds at one time, `Capacity`, follows from their sizes; how many come and
go in the course of time is not bounded.

### CellPersist

The slab is the line with the magic number, the codes, counters and offsets (they
are the first 28 bytes of the header, which starts in the middle of a line of the
1 MB cell, so they lie in one line) and a set of other lines. `cpu` is what the
CPU sees, `nvm` what is on the medium; `WriteBack` copies one line at any time. A
kill keeps `cpu`, a loss of power replaces it by `nvm`. What a line holds is the
number of the update that stored it. `BarrierFlushes` says whether
`__sync_synchronize` waits until everything is written back; it does not on real
machines, but the README of the repository relies on it, so both are checked.

### CacheManager

`file` is the cache file: its length, whether that is durable, the header of the
cache (magic number and count) and the cells. `pc` is where
`cache_manager_open_cache` is; each system call and each store of the header is
an action, with another for its failure. `fds` and `maps` are what the kernel
holds for the process, next to the fields `fd` and `ptr` in which the manager
remembers it. Lengths are in units smaller than a megabyte, so that a write can
stop inside a cell, whose header is at the end of its megabyte. `cells` is the
length of the array that `cache_init` allocates from `memory_size`; chunks are
found with the count in the file's header, which an earlier process stored.

`Kill` and `PowerLoss` can follow any step. After a kill the file is as it was,
except that a cell in the middle of an addition is not sane. After a loss of
power a file that was not synced may be shorter, the page of the header and any
cell may be as before the mapping was written, and an unlinked file may be back.
With `Dax`, the first store to a page mapped with `MAP_SYNC` commits the length of
the file before it goes through. `StatMayFail` allows `stat` to fail although the
file exists.

### Chunker

`chunker_chunk_buffer` on a buffer `b` is `Found(b, n)`, a chunk of `n` bytes, or
`NotFound(b)`. The hash is reset with the last `Width` bytes of the shortest chunk
and then run over the buffer *from its start* (`chunker.c:67` passes `buffer`, not
`buffer` plus an offset), so `WindowAt(b, i)` is a window of those bytes followed by
the buffer. A hash of 64 bits over a sliding window depends on the window alone;
which windows trigger is the constant `Triggers`. `window` is the state that
`rh_state2` keeps between calls. `CutChunk` is one round of the streamer's loop,
`Retain` the last; `ChunkAborts` and `FlushAborts` are the two assertions.

The caller is the loop of `test_chunk_streamer_file.c`: read behind what was
flushed, process, flush. Callers differ in the size of their buffer and in whether
they flush at all; a streamer is used for one stream after the other. What is in
`base` at the end of the stream is in no chunk: the code has no call that would
store it, and the tests' byte counts leave it out.

### Cache

Each thread has a program, a sequence of calls. A call that takes the mutex does its
first access in the same step, and the last access gives the mutex back; in between,
the steps of an addition are `Evict` (directory and counters), `WriteChunk` and
`IndexChunk`, those of a get the look-up and the copy, those of the metrics the two
counters of each cell. A streamer's call is a look-up (`HasHit`, `HasMiss`) and then an
addition (`AddRefused`, `AddLocked`, ...), with the mutex free in between; the streamer
counts in a step of its own after the call has given the mutex back (`CountHit`,
`CountAdded`), so others may find an added chunk that nobody has counted yet. `hit` and
`added` are `chunk_hit` and `chunk_added`, by chunk; the code keeps the sums. Where
all chunks that map to a cell fit (`Roomy`), nothing makes way; in other cells an
addition gives up any chunks, and may drop the new one (`AddDropped` of `Cell`).
`kept` and `seen` are history, for the property about the metrics.

## 3. Runs

| run | bounds | result |
|---|---|---|
| `cell` | 7 chunks of 3 sizes, body of 30 units, header and directory entry of 2, 2 blocks of 1 slot, codes of 1 bit | all properties of `Cell` hold, and `Cell` implements `ChunkRing` |
| `cell_remove` | as `cell` | **`RemoveAlwaysFinds` fails** |
| `cell_stored` | as `cell` | **`AddedIsStored` fails** |
| `cell_leftover` | as `cell`, size field of 5 values | **`LegalSizesKeepRing` fails** |
| `cell_dir` | 6 + 3 chunks in 2 blocks of 2 slots, a ring of 5 chunks, overflow counters of 4 values, 2 offsets | all hold, and `CellDir` implements the map of `DirMap` |
| `persist_kill` | 2 lines, 3 updates, 2 kills, no loss of power, barriers that only order | `TypeOK`, `OpenIsWhole` and `ComesUp` hold |
| `persist_power` | 2 lines, 3 losses of power, no kills, barriers that flush | `OpenIsWhole` and `ComesUp` hold |
| `persist_barrier` | 1 loss of power, barriers that only order | **`OpenIsWhole` fails** |
| `manager` | 2 chunks, requests for 0 to 3 cells, 2 units to a megabyte, DAX, `stat` is reliable | all properties of `CacheManager` hold |
| `manager_stat` | 2 chunks, requests for 0, 1 and 2 cells, DAX, `stat` may fail | **`NoHalfCells` fails** |
| `chunker` | all streams of bits of up to 9 bytes, chunks of 4 to 6, window of 2, buffers of 5, 6 and 9 bytes, with and without flush | all properties of `Chunker` hold |
| `cache` | 3 threads with 3 or 4 calls each, 2 cells of 2 chunks, one with room for one of them and one for both | all properties of `Cache` hold, and `Cache` implements `ChunkStore` |

The body of 30 units holds the ring through several rounds: every path through
`cell_body_add`, merges of up to four entries, a left-over of every size up to
the bound, an overflow area with entries of both blocks, and the loss of the last
entry to the directory all occur. It is also the smallest in which
`CountersStayPositive` holds; with 28, one addition can empty the ring and the
assertions of `cell_header_remove` fail, so that property is about slabs that are
large compared with a chunk, as a cell of 1 MB is (section 4 has a size that is
always enough). Codes of one bit wrap at every
second update. Chunks of equal size and block are symmetric.

In `CellDir` a ring of 5 chunks of one block fills its 2 slots and puts 3 entries into the
overflow area, which is the last value of a counter of 4 values; with a ring of 6 the
counter wraps (section "What disagrees" below).

`CellDir` and `CellPersist` are finite because chunks, updates, kills and losses
are; the run may end there, so deadlock is not an error in `CellPersist`.

`CacheManager` needs no bound on crashes or failures: its states are finite as it
is. Two units to a megabyte are enough for a write to stop between the body and
the header of a cell, and two different counts of cells for a header that belongs
to another length. A request below a megabyte has no cell, and `cache_init` aborts.

`Chunker` needs streams of two chunks and a rest; with a shortest cut of 4 bytes,
9 bytes are enough, and hits at the first and the last possible byte,
cuts at the longest chunk, and rests of every length occur. The buffers are one byte
too short, just long enough and longer; the first shows that `FlushAborts` is real.

In `Cache` the three threads all stream one chunk of the roomy cell, so that up to
three miss it and two are refused, and two threads overwrite each other's chunk in
the other cell while the third copies from it or sums the metrics. The threads end
when their programs do, so deadlock is not an error there; `Terminates` says that
this is the only way in which they stop.

**Fairness.** `CellPersist`: weak fairness of the process (threads
are scheduled, no step of an update or reset waits for anything but a barrier,
and an operator starts a process that is down) and of write-back (no line stays
in the CPU's cache for ever, on which only a flushing barrier would depend).
`CacheManager`: weak fairness of the steps of `cache_manager_open_cache` (its
thread is scheduled and system calls return; a write of more than 0 bytes to a
file writes some or fails). Callers are not forced to call. `Chunker`: weak fairness
of the thread that reads the stream; nobody is forced to start another one. `Cache`:
weak fairness of each thread. Nothing is assumed about the order in which a mutex is
granted, since programs are finite: a thread that is passed over gets its turn when
the others are through.

### What disagrees with the code's own words

1. `cell_remove`: an equal-sized chunk that replaces the last entry below the top
   is itself given up for its directory entry, before it is in the directory;
   `cell_header.c:68` aborts ("there should always be something to remove").
2. `cell_stored`: `cell_body_push_down_top` ignores that the chunk does not fit;
   `cell_add_chunk` returns true and the chunk is not there.
3. `cell_leftover`: `CHUNK_MAX_BUFFER_SIZE` is one more than 15 bits hold, and such a
   chunk would be stored with length 0. But shorter ones are a danger too: a
   left-over may be a header longer than the longest chunk, so chunks longer than
   2^15 - 36 bytes can break the ring. The chunker's (at most 24 KB) cannot.
4. `persist_barrier`: a memory barrier is not a flush. In the shortest trace it is the
   barrier of the reset (`cell_header.c:31`) behind which the magic number reaches the
   medium before the lines of the body do; those of an update (`cell_ic.c:38`) fail in
   the same way.
5. `manager_stat`: every failure of `stat` is taken for "file does not exist", and
   an existing cache is overwritten in place; stopped inside a cell, that leaves a
   sane header over a body of zeros.

Three more were met with these models and are not kept as runs:

* A block of the directory overflows by 4095 entries, not by 4096 as
  `cell_dir_block.h:32` says: at the 4096th the counter is 0 and the overflow area
  is skipped (`MCCellDir.cfg` with `Capacity = 6`, that is `BlockEntries + OverflowMod`,
  and `LookupIsHeld` or `OverflowCounted`). Chunks of the chunker never get there; a
  caller that fills a cell with more than 4098 small chunks of one block would.
* Even if barriers flushed, the reset in `cell_header_init` lacks one after it clears
  the magic number: a kill in an update and then a loss of power in the reset can
  leave an old sane header over a directory that is cleared in part (`CellPersist`
  with `BarrierFlushes`, `MaxKills = 2` and `MaxLosses = 1`, and `OpenIsWhole`).
  That is why `persist_kill` and `persist_power` are two runs.
* Without DAX (`Dax = FALSE`), `CellsAreThere` does not hold: a process that ends
  between the last write and `fsync` leaves a file that the next one accepts by its
  length, and a loss of power can then keep the cell count and shorten the file.
  That takes a kill, a loss of power and two sizes of cache.

## 4. Proofs

Every invariant, every action property and every refinement of the passing runs is a
theorem, which names the definition that the run checks. What remains with TLC is
listed at the end. Theorems state their assumptions
where they need more than the `ASSUME`s of the modules, which TLC evaluates on its
instances:

| assumption | module | what it says of the code | without it |
|---|---|---|---|
| `FieldsWide` | `Cell` | the 15-bit size field holds a chunk and a header: 24576 + 36 <= 32768 for the chunker | run `cell_leftover` |
| `LargeSlab`, `NoEmptyChunk` | `CellCountProofs` | a slab has room for seven of the longest chunks with two headers each and a directory entry (a 1 MB cell has room for 42 of 24 KB); no chunk is empty (the chunker's have more than 2 KB) | with a slab of 28 units `CountersStayPositive` fails |
| `FewEnough` | `CellDir` | a full ring holds fewer chunks than a block has slots and its 12-bit counter values (3 + 4096); a 1 MB cell has room for about 500 chunks of more than 2 KB | the note on 4095 above |
| `Survivable` | `CellPersistProofs` | processes are killed but power is not lost, or power is lost, processes are not killed, and barriers flush | run `persist_barrier`, and the note on kills and losses above |
| `~StatMayFail` | `CacheManagerProofs` | `stat` fails only if there is no file | run `manager_stat` |
| `Dax` | `CacheManagerProofs` | the file is mapped with `MAP_SYNC` | the note on DAX above |

Sizes are counted as numbers of bytes, that is as cardinalities of sets of pairs of a
chunk and an index, and not summed up recursively. A chunk that comes or goes then
changes the count by its length by the library's theorems on cardinalities, where a
recursive sum would need an induction that is out of this prover's reach.

### Cell: layout

`CellProofs` proves about `Cell`, for every finite set of chunks, every
assignment of sizes and blocks, every number of slots, every slab with room for
one chunk, and one-byte-exact bounds:

* `CellTypeOK`, `CellRingTiled`, `CellFreeOnlyAtNext`, `CellLeftOverFits`,
  `CellDirectoryMatchesRing`, `CellRingBelowOverflow`, `CellPopIsSafe`,
  `CellSaneIsWhole`: each is `Spec => []P` with the `P` of the run `cell`.

Assumptions: those of `DirMap` and `Cell` on the constants, which TLC evaluates on
its instances, and `FieldsWide` (`MaxChunk + H <= SizeMod`), which every theorem
states. It is needed: the run `cell_leftover` is what happens without it. For the
chunker's chunks it says 24576 + 36 <= 32768.

The argument: none of these properties is inductive alone. That the walk of the
ring lands on entries needs the sizes to fit their bit-field; that needs the bound
on left-overs; that bound needs that two left-overs never merge, so that there is
only one and it is at the write position; that the directory agrees with the ring
needs the extents not to overlap; and that the entry below the top makes enough
room needs that it is used and that ring and overflow area did not overlap
before. `IInv` is their conjunction (`RingInv`) with the types, the relation of
the codes to `torn` and `PopIsSafe`. The lemmas follow the code: what each write
to the body does to a tiling (`SetTopTiled`, `PutOnTopTiled`, `ReplaceTiled`,
`SplitTiled`), what `DirAdd` and `DirRemove` do to the room, then the same four
writes for the whole of `RingInv` (`...Keeps`), then one lemma per action. The
case in which the last entry is given up composes two of them (`PopKeeps`).
`LeftOver` is the heart: the entry before `last` was not enough, and `last` holds
a chunk, so less than a chunk and a header are left.

### Cell: what is counted, evicted and kept

`CellCountProofs` proves `CellCountersMatch`, `CellReopenKeepsChunks` and
`CellEvictsLittle` from `FieldsWide`, and `CellCountersStayPositive` from `LargeSlab`
and `NoEmptyChunk` also. `CountersMatch` speaks of the entries of the ring; its
inductive form `CountInv` speaks of the directory, whose keys are the chunks of the
used entries, one to one (`DirectoryMatchesRing`), so that an eviction takes one key
away. That a cell that closed in peace is sane when it is opened (`WholeIsSane`) gives
`ReopenKeepsChunks`. For `CountersStayPositive` one must show that an addition never
evicts the whole ring while the counters still count. An addition that starts at the
write position above the bottom keeps what lies below. One that starts at the bottom
finds the ring full, and the overflow area, which takes an entry for every used entry
of the ring at most, is not longer than the ring (`OverflowBelowTop`); so half of the
slab is ring, more than a chunk with its header, a left-over and the last entry below
the top can take away. The bound is enough and not the least: 30 units are enough in
the run, where the theorem asks for 58.

### Cell implements ChunkRing

`CellRingProofs` proves `CellImplementsRing` from `FieldsWide`. The mapping lists the
used entries below the write position, and those from there on, by offset (`ByOffset`).
That the entries at a finite set of offsets can be listed by rank at all follows from
ranks being different numbers from 1 to the size of the set (`RankOnto`). The entries
between two offsets are then a part of the list without gaps (`PartOfList`), and one
above all others lengthens it (`LongerList`). Each write of `cell_body` has a lemma
that says which entries it keeps (`PutOnTopWrites`, `ReplaceWrites`, `SplitWrites`, in
the form `Written`), also after the last entry was cut off for the directory
(`PopCuts`). One lemma turns that into a step of `ChunkRing` (`WriteImplements`): of the
older round if the write position is below the top, of the round that just ended if it
is not, where `FreeOnlyAtNext` shows that the bottom entry holds a chunk, so that at
least one is overwritten.

### CellDir

`CellDirProofs` proves `DirTypeOK` without further assumptions and `DirLookupIsHeld`,
`DirOverflowCounted` and `DirImplementsDirMap` from `FewEnough`, for every number of
blocks and slots and every finite set of chunks, all SHA-256 checksums too: only what the
ring holds at one time is bounded. `LookupIsHeld` is not inductive. The invariant adds that entries are where their
checksum sends them (`EntriesInv`), that no chunk has two entries (`OnceInv`), that
every held chunk has one (`FoundInv`), and that the counters of a block count its
slots and its entries in the overflow area (`CountInv`), since a look-up does not go
there when the counter is 0. Removal moves the last entry of the overflow area, of
whatever block, to the gap; counting entries by block as a cardinality shows that only
the count of the removed entry's block changes. That no counter wraps (`OverflowFits`):
an entry goes to the overflow area only when the slots of its block are full, and the
chunks in these slots and the block's entries in the overflow area are different chunks
of the ring, which has room for one more; so they are fewer than the slots and the
values of the counter together.

### CellPersist

`CellPersistProofs` proves `PersistTypeOK` and, from `Survivable`,
`PersistOpenIsWhole`, for every number of lines, updates, kills and losses. `CpuInv`
says what the CPU sees: from the entry code to the exit code, and throughout a reset,
the slab does not look sane, and whenever it does it is whole. `NvmInv` says the same of
the medium where barriers flush: it agrees with the CPU's view before the entry code is
believed and before the exit code is set. A kill needs the first, a loss of power the
second. `GoodInv` is about the record of completed updates against which `Whole`
compares: the update in the making is not yet in it.

### CacheManager

`CacheManagerProofs` proves `ManagerTypeOK` and `ManagerNothingLeaks` without further
assumptions, `ManagerNoHalfCells` from `~StatMayFail`, and `ManagerCellsAreThere` and
`ManagerOpenKeepsChunks` from `~StatMayFail` and `Dax`; requests, the number of cells,
crashes and failures are arbitrary. `BaseInv` is the types, what the variables of the call
may be at each of its steps (`FlowInv`), and which descriptors and mappings the process
holds there (`HeldInv`), from which nothing leaks. `ContentInv` is about the contents:
a file, and one that was unlinked, has a header only once its length was synced, and a
cell that is not sane has lost its chunks (`FileInv`, both with DAX only); and at each
step the call knows what it found out of the file: that a file that is filled is
unused, that one of another length is never mapped, and which cells are sane.

### Chunker

`ChunkerProofs` proves about `Chunker`, for every width of the window, every two
sizes of chunks, every set of triggering windows, and all streams and callers:
`ChunkerTypeOK`, with the bound on what is retained, `ChunkerNoAbort`,
`ChunkerNothingLost` and `ChunkerChunksAreCanonical`. The only
assumption is `ChunkerAssumption`; the comparisons of the sizes in it are those of the
constants in `chunker.h`. `NoAbort` is not inductive: that a flush never finds the
buffer too small needs that what is retained is shorter than the longest chunk
(`NotFoundIsShort`), and that the next buffer finds nothing retained needs that the
caller flushed since, or that the streamer is fresh (`Clean`, `Idle`). That a cut
never lies behind the end of the buffer (`FoundIsInside`) needs that a non-empty set of
offsets has a first one, which follows from the well-foundedness of the naturals.
`NothingLost` and `ChunksAreCanonical` speak of the concatenation of all chunks, whose
definition is recursive. That it grows by the bytes of the chunk that is appended
(`FlattenAppend`) is proved by a least counterexample instead of by induction: the
first length at which it would fail is not 0, and it held at the one before. With it,
each buffer is known to be a piece of the stream at an offset (`Places`, `BufferAt`),
so that a cut found in the buffer is a cut of the stream (`FoundEndsChunk`) and a
buffer without one has none (`NotFoundEndsNone`). This is where it matters that the
hash depends on its window alone, and that the hash is reset for every chunk
(`WindowIsHashed`).

### Cache

`CacheProofs` proves `CacheTypeOK`, `CacheCellsConsistent`, `CacheMetricsExplained`,
`CacheCountedRight` and `CacheImplementsStore` for every set of threads, cells, chunks
and programs, with nothing assumed beyond the types of the constants. `LockInv` is the
core: a thread at work on a cell has the cell's mutex (`FlowInv`), what it has found or
done there is known from where it is (`WorkInv`), and the counters, the directory and
the body of each cell agree, also while an addition is under way (`CellInv`).
Each action changes one cell and one thread, so each lemma has the changed ones and a
frame. `MetricsInv` relates the sums to the history variables, cell by cell; `CountInv`
relates `hit` and `added`, and the streamers that have returned from an addition and are
about to count it (`AboutToCount`), to the slots of a roomy cell: such a chunk is stored
from the moment it is indexed, and counted only later. In the refinement an
addition takes effect when the chunk is entered in the directory, and so does the
eviction that made way for it: until then the chunks it gave up (`gone`) still count as
stored, which no other thread can contradict, since the mutex is held.

### Only model-checked

* Liveness (`ComesUp`, `OpenReturns`, `Drains`, `Terminates`): out of the prover's reach.
* That `CellPersist` refines the atomic crashes of `Cell`, and that `Cell` refines the
  slots of `Cache`, is by argument and not formal.

## 5. Not modelled

* The bytes of chunks (outside `Chunker`), SHA-256 and its collisions, the rolling hash, `msys`,
  `xmalloc`, and everything under `third-party`.
* The loops inside `cell_body_add_offset`, `cell_dir_block_find` and the overflow
  area, beyond where they stop.
* `cache_release` while threads still use the cache: destroying a locked mutex is
  undefined, and the callers' duty is to join their threads first, as the tests do.
* Errors of the caller's `read`, which end its loop like the end of the stream.
* The field `dax` of the cache manager, which nothing reads.
* Builds with `NDEBUG`, in which `ALWAYS` does nothing.
* Two processes that map the same file: the mutexes are private to a process, and
  nothing in the code provides for it.

## 6. Plan

1. The lemmas on numbers of bytes, which `CellCountProofs` and `CacheProofs` both have,
   in one place.
2. A smaller slab in `LargeSlab`: the bound that is proved is about twice the one that
   the run `cell` needs.
