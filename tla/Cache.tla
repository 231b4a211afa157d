-------------------------------- MODULE Cache --------------------------------
(***************************************************************************)
(* The open cache and the threads that share it: streamers, which look a   *)
(* chunk up and then add it in a second call (chunk_streamer.c), readers   *)
(* that get chunks, and threads that read counters or sum them up. Every   *)
(* cell has a mutex; what a call does to a cell is several steps, and only *)
(* the mutex keeps the steps of two calls apart.                           *)
(*                                                                         *)
(* A step that takes the mutex also does the first access, and the last    *)
(* access also gives it back. A cell is abstracted to a number of slots    *)
(* for chunks: where all chunks of a cell fit none is given up, otherwise  *)
(* any may be, and the new one may be dropped. Module Cell has the rest.   *)
(***************************************************************************)
EXTENDS Integers, Sequences, FiniteSets, Functions

CONSTANTS
    Threads,
    Chunks,
    NoChunk,
    NoThread,
    CellCount,      \* cache_header.cell_count
    Part,           \* chunk -> first 8 bytes of its checksum
    SizeOf,         \* chunk -> its length
    Room,           \* cell -> how many chunks fit
    Programs        \* thread -> the calls it makes, in order

Cells == 0 .. CellCount - 1

Calls == [op : {"stream", "get", "entries", "bytes"}, chunk : Chunks]
            \cup [op : {"metrics"}, chunk : {NoChunk}]

ASSUME CacheAssumption ==
    /\ IsFiniteSet(Threads) /\ IsFiniteSet(Chunks)
    /\ NoChunk \notin Chunks /\ NoThread \notin Threads
    /\ CellCount \in Nat \ {0}
    /\ Part \in [Chunks -> Nat] /\ SizeOf \in [Chunks -> Nat]
    /\ Room \in [Cells -> Nat \ {0}]
    /\ Programs \in [Threads -> Seq(Calls)]

VARIABLES
    dir,            \* cell -> its directory: chunk |-> slot
    data,           \* cell -> its body: slot |-> the bytes there
    entry_count,    \* cell -> cell_header.entry_count
    byte_count,     \* cell -> cell_header.byte_count
    lock,           \* cell -> the thread that has its mutex
    pc,             \* thread -> where it is in its call
    todo,           \* thread -> the calls it has still to finish
    slot,           \* thread -> the slot it works on
    gone,           \* thread -> the chunks its addition has given up so far
    hit,            \* thread -> chunk_hit, by chunk
    added,          \* thread -> chunk_added, by chunk
    total,          \* thread -> its struct cache_metrics and the next cell to read
    result,         \* thread -> its last call that returned, and the answer
    kept,           \* thread -> chunks in the cache ever since its metrics call began
    seen            \* thread -> chunks in the cache at any time since then

cell == <<dir, data, entry_count, byte_count>>
counters == <<hit, added>>
history == <<kept, seen>>
vars == <<cell, lock, pc, todo, slot, gone, counters, total, result, history>>

-----------------------------------------------------------------------------
(* Helpers                                                                 *)

\* cache_get_cell_index
CellOf(c) == Part[c] % CellCount

\* The call that thread t is in.
Call(t) == Head(todo[t])
Chunk(t) == Call(t).chunk
Home(t) == CellOf(Chunk(t))

Running(t, op) == todo[t] # <<>> /\ Call(t).op = op

Goto(t, label) == pc' = [pc EXCEPT ![t] = label]

\* The call is over; the thread goes on to the next.
Done(t) ==
    /\ todo' = [todo EXCEPT ![t] = Tail(@)]
    /\ Goto(t, "call")

Returns(t, call, answer) ==
    result' = [result EXCEPT ![t] =
                  [call |-> call, chunk |-> Chunk(t), answer |-> answer]]

\* The mutex of cell k is free: pthread_mutex_lock returns.
Free(k) == lock[k] = NoThread
Acquire(t, k) == Free(k) /\ lock' = [lock EXCEPT ![k] = t]
Unlock(k) == lock' = [lock EXCEPT ![k] = NoThread]

Held(k) == DOMAIN dir[k]
Present(c) == c \in Held(CellOf(c))

\* The length of the chunks S together: how many bytes they have.
Size(S) == Cardinality(UNION {{c} \X (1 .. SizeOf[c]) : c \in S})

Count(f, t, c) == f' = [f EXCEPT ![t][c] = @ + 1]

-----------------------------------------------------------------------------
(* chunk_streamer_process_buffer: cache_has_chunk, then cache_add_chunk    *)

\* cell_has_chunk: one look at the directory.
HasHit(t) ==
    /\ Running(t, "stream") /\ pc[t] = "call" /\ Free(Home(t))
    /\ Present(Chunk(t))
    /\ Returns(t, "has", Chunk(t))
    /\ Goto(t, "hit")
    /\ UNCHANGED <<cell, lock, todo, slot, gone, counters, total, history>>

HasMiss(t) ==
    /\ Running(t, "stream") /\ pc[t] = "call" /\ Free(Home(t))
    /\ ~Present(Chunk(t))
    /\ Returns(t, "has", NoChunk)
    /\ Goto(t, "add")
    /\ UNCHANGED <<cell, lock, todo, slot, gone, counters, total, history>>

\* Faulty: a refused addition is tried again.
RefusedAgain(t) ==
    /\ Running(t, "stream") /\ pc[t] = "add" /\ Free(Home(t))
    /\ Present(Chunk(t))
    /\ UNCHANGED vars

\* cell_add_chunk finds that another thread was faster. The streamer does not
\* look at the answer and will count the chunk as added.
AddRefused(t) ==
    /\ Running(t, "stream") /\ pc[t] = "add" /\ Free(Home(t))
    /\ Present(Chunk(t))
    /\ Returns(t, "add", NoChunk)
    /\ Goto(t, "added")
    /\ UNCHANGED <<cell, lock, todo, slot, gone, counters, total, history>>

\* Faulty: relies on the look-up before.
AddUnchecked(t) ==
    /\ Running(t, "stream") /\ pc[t] = "add"
    /\ Acquire(t, Home(t))
    /\ Goto(t, "evict")
    /\ UNCHANGED <<cell, todo, slot, gone, counters, total, result, history>>

AddLocked(t) ==
    /\ Running(t, "stream") /\ pc[t] = "add" /\ ~Present(Chunk(t))
    /\ Acquire(t, Home(t))
    /\ Goto(t, "evict")
    /\ UNCHANGED <<cell, todo, slot, gone, counters, total, result, history>>

\* The chunks that cell k will ever be asked to hold fit.
Roomy(k) == Cardinality({c \in Chunks : CellOf(c) = k}) <= Room[k]

At(k, s) == {c \in Held(k) : dir[k][c] = s}

\* Faulty: overwrites although there is free room.
OverwritesAlways(k, s, S) == s \in 1 .. Room[k] /\ S = At(k, s)

\* With the chunks S given up, slot s can be written. Which make way depends on
\* sizes and on the write position; while there is room at the top, none does.
MakesRoom(k, s, S) ==
    /\ s \in 1 .. Room[k]
    /\ At(k, s) \subseteq S
    /\ Roomy(k) => S = {}

\* Faulty: a free entry is taken off the counter as well.
RemoveUnused(k, S) ==
    /\ dir' = [dir EXCEPT ![k] = Restrict(@, Held(k) \ S)]
    /\ entry_count' = [entry_count EXCEPT ![k] = @ - 1]
    /\ byte_count' = [byte_count EXCEPT ![k] = @ - Size(S)]
    /\ kept' = [u \in Threads |-> kept[u] \ S]
    /\ UNCHANGED <<data, seen>>

\* cell_header_remove, for the chunks S of cell k.
RemoveAll(k, S) ==
    /\ dir' = [dir EXCEPT ![k] = Restrict(@, Held(k) \ S)]
    /\ entry_count' = [entry_count EXCEPT ![k] = @ - Cardinality(S)]
    /\ byte_count' = [byte_count EXCEPT ![k] = @ - Size(S)]
    /\ kept' = [u \in Threads |-> kept[u] \ S]
    /\ UNCHANGED <<data, seen>>

Evict(t) ==
    LET k == Home(t)
    IN /\ pc[t] = "evict"
       /\ \E s \in 1 .. Room[k], S \in SUBSET Held(k) :
            /\ MakesRoom(k, s, S)
            /\ RemoveAll(k, S)
            /\ slot' = [slot EXCEPT ![t] = s]
            /\ gone' = [gone EXCEPT ![t] = S]
       /\ Goto(t, "write")
       /\ UNCHANGED <<lock, todo, counters, total, result>>

\* cell_body_write_chunk
WriteChunk(t) ==
    /\ pc[t] = "write"
    /\ data' = [data EXCEPT ![Home(t)][slot[t]] = Chunk(t)]
    /\ Goto(t, "index")
    /\ UNCHANGED <<dir, entry_count, byte_count, lock, todo, slot, gone, counters,
                   total, result, history>>

\* cell_add_chunk gives the mutex back and returns. The streamer has yet to count.
AddReturns(t) ==
    /\ Unlock(Home(t))
    /\ Returns(t, "add", Chunk(t))
    /\ Goto(t, "added")
    /\ UNCHANGED <<todo, counters, total>>

\* cell_header_add
IndexChunk(t) ==
    LET k == Home(t)  c == Chunk(t)
    IN /\ pc[t] = "index"
       /\ dir' = [dir EXCEPT ![k] =
                     [d \in Held(k) \cup {c} |-> IF d = c THEN slot[t] ELSE dir[k][d]]]
       /\ entry_count' = [entry_count EXCEPT ![k] = @ + 1]
       /\ byte_count' = [byte_count EXCEPT ![k] = @ + SizeOf[c]]
       /\ seen' = [u \in Threads |-> seen[u] \cup {c}]
       /\ gone' = [gone EXCEPT ![t] = {}]
       /\ AddReturns(t)
       /\ UNCHANGED <<data, slot, kept>>

\* cell_body_push_down_top: chunks were given up in vain.
AddDropped(t) ==
    LET k == Home(t)
    IN /\ pc[t] = "evict" /\ ~Roomy(k)
       /\ \E S \in SUBSET Held(k) : RemoveAll(k, S)
       /\ AddReturns(t)
       /\ UNCHANGED <<slot, gone>>

\* The streamer counts, without a mutex: by now others may have found the chunk
\* that it added, or overwritten it.
CountHit(t) ==
    /\ pc[t] = "hit"
    /\ Count(hit, t, Chunk(t))
    /\ Done(t)
    /\ UNCHANGED <<cell, lock, slot, gone, added, total, result, history>>

CountAdded(t) ==
    /\ pc[t] = "added"
    /\ Count(added, t, Chunk(t))
    /\ Done(t)
    /\ UNCHANGED <<cell, lock, slot, gone, hit, total, result, history>>

-----------------------------------------------------------------------------
(* cache_get_chunk                                                         *)

GetMiss(t) ==
    /\ Running(t, "get") /\ pc[t] = "call" /\ Free(Home(t))
    /\ ~Present(Chunk(t))
    /\ Returns(t, "get", NoChunk)
    /\ Done(t)
    /\ UNCHANGED <<cell, lock, slot, gone, counters, total, history>>

\* Faulty: the mutex is given back before the bytes are copied.
FindUnlocked(t) ==
    /\ Running(t, "get") /\ pc[t] = "call" /\ Free(Home(t))
    /\ Present(Chunk(t))
    /\ slot' = [slot EXCEPT ![t] = dir[Home(t)][Chunk(t)]]
    /\ Goto(t, "copy")
    /\ UNCHANGED <<cell, lock, todo, gone, counters, total, result, history>>

\* The directory has the chunk's offset.
GetFound(t) ==
    /\ Running(t, "get") /\ pc[t] = "call" /\ Present(Chunk(t))
    /\ Acquire(t, Home(t))
    /\ slot' = [slot EXCEPT ![t] = dir[Home(t)][Chunk(t)]]
    /\ Goto(t, "copy")
    /\ UNCHANGED <<cell, todo, gone, counters, total, result, history>>

\* chunk_set copies what is at that offset.
GetCopy(t) ==
    /\ pc[t] = "copy"
    /\ Returns(t, "get", data[Home(t)][slot[t]])
    /\ Unlock(Home(t))
    /\ Done(t)
    /\ UNCHANGED <<cell, slot, gone, counters, total, history>>

-----------------------------------------------------------------------------
(* cell_entry_count and cell_byte_count, of the cell of a chunk            *)

CountEntries(t) ==
    /\ Running(t, "entries") /\ Free(Home(t))
    /\ Returns(t, "entries", entry_count[Home(t)])
    /\ Done(t)
    /\ UNCHANGED <<cell, lock, slot, gone, counters, total, history>>

CountBytes(t) ==
    /\ Running(t, "bytes") /\ Free(Home(t))
    /\ Returns(t, "bytes", byte_count[Home(t)])
    /\ Done(t)
    /\ UNCHANGED <<cell, lock, slot, gone, counters, total, history>>

-----------------------------------------------------------------------------
(* cache_get_metrics                                                       *)

NoTotal == [bytes |-> 0, entries |-> 0, next |-> 0]

MetricsBegin(t) ==
    /\ Running(t, "metrics") /\ pc[t] = "call"
    /\ total' = [total EXCEPT ![t] = NoTotal]
    /\ kept' = [kept EXCEPT ![t] = UNION {Held(k) : k \in Cells}]
    /\ seen' = [seen EXCEPT ![t] = UNION {Held(k) : k \in Cells}]
    /\ Goto(t, "bytes")
    /\ UNCHANGED <<cell, lock, todo, slot, gone, counters, result>>

\* Faulty: the mutex is not held from one counter to the other.
MetricsUnlocked(t) ==
    LET k == total[t].next
    IN /\ pc[t] = "bytes" /\ k \in Cells /\ Free(k)
       /\ total' = [total EXCEPT ![t].bytes = @ + byte_count[k]]
       /\ Goto(t, "entries")
       /\ UNCHANGED <<cell, lock, todo, slot, gone, counters, result, history>>

\* cell_get_metrics: the bytes first, then the entries.
MetricsBytes(t) ==
    LET k == total[t].next
    IN /\ pc[t] = "bytes" /\ k \in Cells
       /\ Acquire(t, k)
       /\ total' = [total EXCEPT ![t].bytes = @ + byte_count[k]]
       /\ Goto(t, "entries")
       /\ UNCHANGED <<cell, todo, slot, gone, counters, result, history>>

MetricsEntries(t) ==
    LET k == total[t].next
    IN /\ pc[t] = "entries"
       /\ total' = [total EXCEPT ![t].entries = @ + entry_count[k], ![t].next = k + 1]
       /\ Unlock(k)
       /\ Goto(t, "bytes")
       /\ UNCHANGED <<cell, todo, slot, gone, counters, result, history>>

MetricsEnd(t) ==
    /\ pc[t] = "bytes" /\ total[t].next \notin Cells
    /\ Done(t)
    /\ UNCHANGED <<cell, lock, slot, gone, counters, total, result, history>>

-----------------------------------------------------------------------------
Init ==
    /\ dir = [k \in Cells |-> << >>]
    /\ data = [k \in Cells |-> [s \in 1 .. Room[k] |-> NoChunk]]
    /\ entry_count = [k \in Cells |-> 0] /\ byte_count = [k \in Cells |-> 0]
    /\ lock = [k \in Cells |-> NoThread]
    /\ pc = [t \in Threads |-> "call"] /\ todo = Programs
    /\ slot = [t \in Threads |-> 1] /\ gone = [t \in Threads |-> {}]
    /\ hit = [t \in Threads |-> [c \in Chunks |-> 0]] /\ added = hit
    /\ total = [t \in Threads |-> NoTotal]
    /\ result = [t \in Threads |-> [call |-> "none", chunk |-> NoChunk, answer |-> NoChunk]]
    /\ kept = [t \in Threads |-> {}] /\ seen = kept

Step(t) ==
    \/ HasHit(t) \/ HasMiss(t) \/ AddRefused(t) \/ AddLocked(t)
    \/ Evict(t) \/ WriteChunk(t) \/ IndexChunk(t) \/ AddDropped(t)
    \/ CountHit(t) \/ CountAdded(t)
    \/ GetMiss(t) \/ GetFound(t) \/ GetCopy(t)
    \/ CountEntries(t) \/ CountBytes(t)
    \/ MetricsBegin(t) \/ MetricsBytes(t) \/ MetricsEntries(t) \/ MetricsEnd(t)

Next == \E t \in Threads : Step(t)

\* Every thread is scheduled. Nothing is assumed of the order in which a mutex is
\* granted: a thread may be passed over while others still have calls to make.
Spec == Init /\ [][Next]_vars /\ \A t \in Threads : WF_vars(Step(t))
-----------------------------------------------------------------------------
(* Properties                                                              *)

Labels == {"call", "add", "evict", "write", "index", "added", "hit", "copy",
           "bytes", "entries"}

\* Type invariant.
TypeOK ==
    /\ \A k \in Cells :
         /\ Held(k) \subseteq {c \in Chunks : CellOf(c) = k}
         /\ \A c \in Held(k) : dir[k][c] \in 1 .. Room[k]
         /\ data[k] \in [1 .. Room[k] -> Chunks \cup {NoChunk}]
    /\ entry_count \in [Cells -> Nat] /\ byte_count \in [Cells -> Nat]
    /\ lock \in [Cells -> Threads \cup {NoThread}]
    /\ pc \in [Threads -> Labels]
    /\ \A t \in Threads : todo[t] \in Seq(Calls) /\ gone[t] \subseteq Chunks
    /\ \A t \in Threads : pc[t] # "call" => todo[t] # <<>>
    /\ hit \in [Threads -> [Chunks -> Nat]] /\ added \in [Threads -> [Chunks -> Nat]]

\* Between two calls a cell is as one thread alone would have left it: no chunk
\* is in two slots or in the slot of another, and both counters count the
\* directory. Two streamers that both missed a chunk must not both store it.
CellsConsistent ==
    \A k \in Cells : Free(k) =>
        /\ entry_count[k] = Cardinality(Held(k))
        /\ byte_count[k] = Size(Held(k))
        /\ \A c \in Held(k) : data[k][dir[k][c]] = c

\* The metrics are not those of one moment, but not arbitrary either: they are the
\* number and the size of different chunks, among them all that were in the cache
\* throughout the call, and none that never was during it.
MetricsExplained ==
    \A t \in Threads : pc[t] = "bytes" /\ total[t].next = CellCount =>
        \E S \in SUBSET seen[t] :
            /\ kept[t] \subseteq S
            /\ total[t].entries = Cardinality(S) /\ total[t].bytes = Size(S)

\* A streamer that has added c, or was refused, and has not counted it yet.
AboutToCount(t, c) == pc[t] = "added" /\ Chunk(t) = c

\* chunk_added counts a refused addition too, so the sum over the streamers can
\* exceed what is stored. But where nothing has to make way, no streamer counts a
\* chunk twice, whoever counts a chunk finds it stored, and a chunk is stored,
\* and can be hit, only if somebody counted it as added or is about to.
CountedRight ==
    \A c \in Chunks : Roomy(CellOf(c)) =>
        /\ \A t \in Threads : added[t][c] <= 1
        /\ \A t \in Threads : AboutToCount(t, c) => added[t][c] = 0
        /\ Present(c) <=> \E t \in Threads : added[t][c] > 0 \/ AboutToCount(t, c)
        /\ (\E t \in Threads : hit[t][c] > 0) => Present(c)

\* A chunk that an addition is about to overwrite is gone only when the addition
\* is complete.
Store == INSTANCE ChunkStore WITH
    stored <- (UNION {Held(k) : k \in Cells}) \cup (UNION {gone[t] : t \in Threads})

\* Calls of several threads on the same cell take effect one after the other: the
\* cache implements the store in which each is one step. In particular what
\* cache_get_chunk copies is the chunk it looked up.
ImplementsStore == Store!Spec

\* All threads get through their calls: no mutex is kept, no call waits for ever.
Terminates == <>[](\A t \in Threads : todo[t] = <<>>)
=============================================================================
