-------------------------------- MODULE Cell --------------------------------
(***************************************************************************)
(* One cell of the cache: a slab with a ring of chunks growing up from     *)
(* offset 0 (cell_body), a header with the directory at its end            *)
(* (cell_header, cell_dir), the overflow area of the directory growing     *)
(* down from the header towards the ring, and the integrity codes          *)
(* (cell_ic) that tell a reopened cell whether its contents are whole.     *)
(*                                                                         *)
(* Every operation runs under the mutex of the cell, so one call is one    *)
(* step. cell_add_chunk is one action per path through cell_body_add.      *)
(* cell_has_chunk and cell_get_chunk change nothing and are operators.     *)
(* Chunk data is abstracted to its length: bytes are safe exactly when no  *)
(* other write falls in the extent of their entry.                         *)
(***************************************************************************)
EXTENDS DirMap

CONSTANTS
    NoChecksum,     \* the checksum bytes of a free entry, never read
    SizeOf,         \* checksum -> length of the chunk, buffer_size
    MaxChunk,       \* the longest chunk callers add
    BodySize,       \* slab_size - sizeof(struct cell_header)
    H,              \* sizeof(struct cell_body_entry)
    D,              \* sizeof(struct cell_dir_entry)
    SizeMod,        \* 2^15: values of the bit-field cell_body_entry.size
    CodeMod         \* 2^32: values of an integrity code

ASSUME CellAssumption ==
    /\ NoChecksum \notin Checksums
    /\ SizeOf \in [Checksums -> Nat]
    /\ \A c \in Checksums : SizeOf[c] <= MaxChunk
    /\ MaxChunk \in Nat /\ BodySize \in Nat
    /\ H \in Nat \ {0} /\ D \in Nat \ {0} /\ D <= H
    /\ BodySize >= MaxChunk + 2 * H + D
    /\ SizeMod \in Nat \ {0} /\ CodeMod \in Nat \ {0, 1}

VARIABLES
    body,           \* offset of each body entry |-> the entry (struct cell_body_entry)
    top,            \* cell_body.top_entry_offset
    next,           \* cell_body.next_entry_offset
    dir,            \* cell_header.cell_dir, a map of module DirMap
    entry_count,    \* cell_header.entry_count
    byte_count,     \* cell_header.byte_count
    magic,          \* cell_header.magic = CELL_HEADER_MAGIC
    entry_code,     \* cell_ic.entry_code
    exit_code,      \* cell_ic.exit_code
    up,             \* a process has the cell open
    torn,           \* the process stopped inside an update: the slab holds
                    \* part of it, and body, dir, ... say nothing
    failed          \* the assertion that stopped the process, or "none"

ring == <<body, top, next, dir, entry_count, byte_count>>
codes == <<magic, entry_code, exit_code>>
vars == <<body, top, next, dir, entry_count, byte_count,
          magic, entry_code, exit_code, up, torn, failed>>

Assertions == {"remove_missing", "counters", "free_below_top", "no_room"}

-----------------------------------------------------------------------------
(* Body entries.                                                           *)

Field(n) == n % SizeMod

UsedEntry(c, previous) ==
    [checksum |-> c, free |-> FALSE, top |-> FALSE,
     size |-> Field(SizeOf[c]), prev |-> previous]

FreeEntry(size, previous) ==
    [checksum |-> NoChecksum, free |-> TRUE, top |-> FALSE,
     size |-> Field(size), prev |-> previous]

\* cell_body_set_top leaves previous_size alone.
TopEntry(previous) ==
    [checksum |-> NoChecksum, free |-> TRUE, top |-> TRUE,
     size |-> 0, prev |-> previous]

InitBody == [p \in {0} |-> TopEntry(0)]

\* Where the entry after p starts.
EndIn(b, p) == p + H + b[p].size
End(p) == EndIn(body, p)

\* cell_body_free_space: what the ring and the directory have not taken.
FreeSpace(t, d) == BodySize - (t + H) - D * Cardinality(Overflow(d))

\* Faulty: room for the bytes of the chunk only.
FitsBytesOnly(t, d, n) == FreeSpace(t, d) >= n

\* Faulty: no room for the directory entry.
FitsWithoutDir(t, d, n) == FreeSpace(t, d) >= n + H

\* The check of cell_body_add_top: the chunk, a new top and an overflow entry.
FitsOnTop(t, d, n) == FreeSpace(t, d) >= n + H + D

\* Entry t becomes the top; nothing above it is reached any more.
SetTop(b, t) ==
    [p \in {q \in DOMAIN b : q <= t} |->
        IF p = t THEN TopEntry(b[t].prev) ELSE b[p]]

\* cell_body_add_top, once it knows that c fits: c at t and a new top after it.
PutOnTop(b, t, c) ==
    [p \in {q \in DOMAIN b : q < t} \cup {t, t + H + SizeOf[c]} |->
        IF p < t THEN b[p]
        ELSE IF p = t THEN UsedEntry(c, b[t].prev)
        ELSE TopEntry(Field(SizeOf[c]))]

\* c overwrites entry s, which has its size.
Replace(b, s, c) == [b EXCEPT ![s] = UsedEntry(c, b[s].prev)]

\* Faulty: the back pointer of the entry at e is not fixed.
SplitNoBackPointer(b, s, c, e) ==
    LET hole == s + H + SizeOf[c]
    IN [p \in {q \in DOMAIN b : q <= s \/ q >= e} \cup {hole} |->
           IF p = s THEN UsedEntry(c, b[s].prev)
           ELSE IF p = hole THEN FreeEntry(e - hole - H, Field(SizeOf[c]))
           ELSE b[p]]

\* c overwrites the entries from s up to e; what is left over becomes a free
\* entry and the back pointer of the entry at e is fixed.
Split(b, s, c, e) ==
    LET hole == s + H + SizeOf[c]
        left == e - hole - H
    IN [p \in {q \in DOMAIN b : q <= s \/ q >= e} \cup {hole} |->
           IF p = s THEN UsedEntry(c, b[s].prev)
           ELSE IF p = hole THEN FreeEntry(left, Field(SizeOf[c]))
           ELSE IF p = e THEN [b[e] EXCEPT !.prev = Field(left)]
           ELSE b[p]]

-----------------------------------------------------------------------------
(* The ring: where the next chunk goes and which entries make way for it.  *)

\* cell_body_add takes the path of cell_body_add_offset.
NotOnTop(c) == next = top => ~FitsOnTop(top, dir, SizeOf[c])

\* Faulty: starts at the bottom every time.
StartAtBottom == 0

\* next_entry_offset as cell_body_add_offset finds it: reset to the start of
\* the cell when the top was reached and has no room.
Start == IF next = top THEN 0 ELSE next

Rest == {p \in DOMAIN body : Start <= p /\ p < top}

\* Faulty: makes room for the longest chunk there can be.
EnoughForLongest(c, p) == End(p) - (Start + H) >= MaxChunk + H

\* The loop of cell_body_add_offset merges entries from Start on; with p it has
\* room for the chunk and for the header of what is left over.
Enough(c, p) == End(p) - (Start + H) >= SizeOf[c] + H

UsedIn(S) == {p \in S : ~body[p].free}

\* Faulty: of the merged entries only the first is removed from the directory.
KeyOfFirst(S) == {body[p].checksum : p \in {q \in UsedIn(S) : q = Start}}

Keys(S) == {body[p].checksum : p \in UsedIn(S)}

\* The length of the chunks at S together: how many bytes they have.
Bytes(S) == Cardinality(UNION {{p} \X (1 .. body[p].size) : p \in UsedIn(S)})

\* The entry that cell_body_add_dir_entry gives up for a directory entry.
Below == top - H - body[top].prev

\* The directory, without the entries at S, leaves no room for one more.
NoDirRoom(S) == FreeSpace(top, DirRemove(dir, Keys(S))) < D

Pop(S) == IF NoDirRoom(S) THEN {Below} ELSE {}

\* cell_header_remove wants both counters positive after each removal.
Drained(S) ==
    /\ UsedIn(S) # {}
    /\ \/ entry_count - Cardinality(UsedIn(S)) <= 0
       \/ byte_count - Bytes(S) <= 0

\* The assertion that fails when the entries at S are removed and then the
\* entries at pop, in the order of the code. When the entry below the top is
\* the one just written, its checksum is not in the directory yet.
Failure(S, pop) ==
    IF ~(Keys(S) \subseteq DOMAIN dir) THEN "remove_missing"
    ELSE IF Drained(S) THEN "counters"
    ELSE IF pop = {} THEN "none"
    ELSE IF pop \cap S # {} THEN "remove_missing"
    ELSE IF UsedIn(pop) # pop THEN "free_below_top"
    ELSE IF ~(Keys(pop) \subseteq DOMAIN dir) THEN "remove_missing"
    ELSE IF Drained(S \cup pop) THEN "counters"
    ELSE IF FreeSpace(Below, DirRemove(dir, Keys(S \cup pop))) < D THEN "no_room"
    ELSE "none"

-----------------------------------------------------------------------------
(* cell_has_chunk and cell_get_chunk                                       *)

HasChunk(c) == c \in DOMAIN dir

\* The checksum and the length cell_get_chunk hands out.
GetChunk(c) == [checksum |-> c, size |-> body[dir[c].offset].size]

-----------------------------------------------------------------------------
(* cell_add_chunk                                                          *)

\* A chunk that is there already is refused without any change.
CanAdd(c) == up /\ ~HasChunk(c)

\* Faulty: the entry code does not wrap.
NoWrapOnEntry == entry_code' = entry_code + 1

\* Faulty: the entry code is not advanced.
NothingOnEntry == entry_code' = entry_code

IntegrityOnEntry == entry_code' = (entry_code + 1) % CodeMod

\* Faulty: the exit code does not follow.
NothingOnExit == exit_code' = exit_code

IntegrityOnExit == exit_code' = entry_code'

\* Faulty: the bytes of the entries that are gone stay counted.
BytesStayCounted(S, c, p) ==
    /\ dir' = DirAdd(DirRemove(dir, Keys(S)), c, p)
    /\ entry_count' = entry_count - Cardinality(UsedIn(S)) + 1
    /\ byte_count' = byte_count + SizeOf[c]

\* Faulty: the new entry is not counted.
EntryNotCounted(S, c, p) ==
    /\ dir' = DirAdd(DirRemove(dir, Keys(S)), c, p)
    /\ entry_count' = entry_count - Cardinality(UsedIn(S))
    /\ byte_count' = byte_count - Bytes(S) + SizeOf[c]

\* The entries at S are gone, c is indexed at offset p.
HeaderUpdate(S, c, p) ==
    /\ dir' = DirAdd(DirRemove(dir, Keys(S)), c, p)
    /\ entry_count' = entry_count - Cardinality(UsedIn(S)) + 1
    /\ byte_count' = byte_count - Bytes(S) + SizeOf[c]

Completed ==
    /\ IntegrityOnEntry
    /\ IntegrityOnExit
    /\ UNCHANGED <<magic, up, torn, failed>>

\* The next entry is the top and has room.
AddTop(c) ==
    /\ CanAdd(c)
    /\ next = top /\ FitsOnTop(top, dir, SizeOf[c])
    /\ body' = PutOnTop(body, top, c)
    /\ top' = top + H + SizeOf[c]
    /\ next' = top'
    /\ HeaderUpdate({}, c, top)
    /\ Completed

\* The entry at Start has the size of the chunk.
SameSize(c) == NotOnTop(c) /\ body[Start].size = SizeOf[c]

\* Faulty: does not stop at the first entry that makes enough room.
MakesMore(c, last) ==
    /\ NotOnTop(c) /\ body[Start].size # SizeOf[c]
    /\ Enough(c, last) /\ End(last) # top

\* `last' is the entry with which the merged room is enough, and not the entry
\* below the top.
Makes(c, last) ==
    /\ NotOnTop(c) /\ body[Start].size # SizeOf[c]
    /\ Enough(c, last) /\ \A p \in Rest : p < last => ~Enough(c, p)
    /\ End(last) # top

\* The merged room reaches the top.
ReachesTop(c) ==
    /\ NotOnTop(c) /\ body[Start].size # SizeOf[c]
    /\ \A p \in Rest : Enough(c, p) => End(p) = top

Merged(last) == {p \in Rest : p <= last}

\* The making of room in cell_body_add_dir_entry, after the entries at S were
\* removed: the entry below the top is given up and becomes the top.
PopTop(S) ==
    LET pop == Pop(S)
    IN [body |-> IF pop = {} THEN body ELSE SetTop(body, Below),
        top  |-> IF pop = {} THEN top ELSE Below,
        gone |-> S \cup pop]

AddReplace(c) ==
    LET popped == PopTop({Start})
    IN /\ CanAdd(c) /\ SameSize(c)
       /\ Failure({Start}, Pop({Start})) = "none"
       /\ body' = Replace(popped.body, Start, c)
       /\ top' = popped.top
       /\ next' = Start + H + SizeOf[c]
       /\ HeaderUpdate(popped.gone, c, Start)
       /\ Completed

AddSplit(c) ==
    \E last \in Rest :
      LET popped == PopTop(Merged(last))
      IN /\ CanAdd(c) /\ Makes(c, last)
         /\ Failure(Merged(last), Pop(Merged(last))) = "none"
         /\ body' = Split(popped.body, Start, c, End(last))
         /\ top' = popped.top
         /\ next' = Start + H + SizeOf[c]
         /\ HeaderUpdate(popped.gone, c, Start)
         /\ Completed

\* Faulty: the write position goes back to the bottom.
PushDownToBottom(c) ==
    /\ CanAdd(c) /\ ReachesTop(c)
    /\ Failure(Rest, {}) = "none"
    /\ FitsOnTop(Start, DirRemove(dir, Keys(Rest)), SizeOf[c])
    /\ body' = PutOnTop(body, Start, c)
    /\ top' = Start + H + SizeOf[c]
    /\ next' = 0
    /\ HeaderUpdate(Rest, c, Start)
    /\ Completed

\* cell_body_push_down_top, when cell_body_add_top has room at Start.
AddPushDown(c) ==
    /\ CanAdd(c) /\ ReachesTop(c)
    /\ Failure(Rest, {}) = "none"
    /\ FitsOnTop(Start, DirRemove(dir, Keys(Rest)), SizeOf[c])
    /\ body' = PutOnTop(body, Start, c)
    /\ top' = Start + H + SizeOf[c]
    /\ next' = top'
    /\ HeaderUpdate(Rest, c, Start)
    /\ Completed

\* cell_body_push_down_top, when cell_body_add_top has no room even there: its
\* result is not looked at and cell_add_chunk returns true all the same.
AddDropped(c) ==
    /\ CanAdd(c) /\ ReachesTop(c)
    /\ Failure(Rest, {}) = "none"
    /\ ~FitsOnTop(Start, DirRemove(dir, Keys(Rest)), SizeOf[c])
    /\ body' = SetTop(body, Start)
    /\ top' = Start
    /\ next' = Start
    /\ dir' = DirRemove(dir, Keys(Rest))
    /\ entry_count' = entry_count - Cardinality(UsedIn(Rest))
    /\ byte_count' = byte_count - Bytes(Rest)
    /\ Completed

\* The process stops between cell_ic_on_entry and cell_ic_on_exit.
StopInAdd(reason) ==
    /\ IntegrityOnEntry
    /\ up' = FALSE /\ torn' = TRUE /\ failed' = reason
    /\ UNCHANGED <<ring, magic, exit_code>>

\* An assertion (ALWAYS) fails and aborts the process.
AddAborts(c) ==
    /\ CanAdd(c)
    /\ \E reason \in Assertions :
         /\ \/ SameSize(c) /\ reason = Failure({Start}, Pop({Start}))
            \/ \E last \in Rest :
                 /\ Makes(c, last)
                 /\ reason = Failure(Merged(last), Pop(Merged(last)))
            \/ ReachesTop(c) /\ reason = Failure(Rest, {})
         /\ StopInAdd(reason)

AddKilled(c) == CanAdd(c) /\ StopInAdd("none")

\* True for the steps in which cell_add_chunk(c) returns true.
AddReturnsTrue(c) ==
    AddTop(c) \/ AddReplace(c) \/ AddSplit(c) \/ AddPushDown(c) \/ AddDropped(c)

-----------------------------------------------------------------------------
(* cell_init and cell_release                                              *)

\* cell_header_sane
Sane == magic /\ entry_code = exit_code

OpenSane ==
    /\ ~up /\ Sane
    /\ up' = TRUE /\ failed' = "none"
    /\ UNCHANGED <<ring, codes, torn>>

\* cell_header_init; the magic number is written last.
OpenReset ==
    /\ ~up /\ ~Sane
    /\ body' = InitBody /\ top' = 0 /\ next' = 0 /\ dir' = EmptyDir
    /\ entry_count' = 0 /\ byte_count' = 0
    /\ magic' = TRUE /\ entry_code' = 0 /\ exit_code' = 0
    /\ up' = TRUE /\ torn' = FALSE /\ failed' = "none"

\* The process stops inside cell_header_init, after the header was zeroed.
ResetKilled ==
    /\ ~up /\ ~Sane
    /\ magic' = FALSE /\ entry_code' = 0 /\ exit_code' = 0
    /\ torn' = TRUE /\ failed' = "none"
    /\ UNCHANGED <<ring, up>>

\* cell_release, or the process stops outside cell_add_chunk.
Close == up /\ up' = FALSE /\ UNCHANGED <<ring, codes, torn, failed>>

-----------------------------------------------------------------------------
\* A new file: all zero, so the magic number is not there yet.
Init ==
    /\ body = InitBody /\ top = 0 /\ next = 0 /\ dir = EmptyDir
    /\ entry_count = 0 /\ byte_count = 0
    /\ magic = FALSE /\ entry_code = 0 /\ exit_code = 0
    /\ up = FALSE /\ torn = TRUE /\ failed = "none"

Next ==
    \/ \E c \in Checksums :
         \/ AddTop(c) \/ AddReplace(c) \/ AddSplit(c)
         \/ AddPushDown(c) \/ AddDropped(c)
         \/ AddAborts(c) \/ AddKilled(c)
    \/ OpenSane \/ OpenReset \/ ResetKilled \/ Close

Spec == Init /\ [][Next]_vars

-----------------------------------------------------------------------------
(* Properties                                                              *)

Entries ==
    [checksum : Checksums \cup {NoChecksum}, free : BOOLEAN, top : BOOLEAN,
     size : Nat, prev : Nat]

\* Type invariant. byte_count is left to CountersMatch, which gives its value.
TypeOK ==
    /\ DOMAIN body \subseteq Nat
    /\ \A p \in DOMAIN body : body[p] \in Entries
    /\ top \in Nat /\ next \in Nat
    /\ DOMAIN dir \subseteq Checksums
    /\ \A c \in DOMAIN dir : dir[c] \in [offset : Nat, over : BOOLEAN]
    /\ entry_count \in Int
    /\ magic \in BOOLEAN /\ up \in BOOLEAN /\ torn \in BOOLEAN
    /\ entry_code \in 0 .. CodeMod - 1 /\ exit_code \in 0 .. CodeMod - 1
    /\ failed \in Assertions \cup {"none"}

\* The entries of b tile the ring up to the top at t: 0 and t are entries, each
\* entry ends where another starts, none starts inside another, and every back
\* pointer leads to the entry before.
Tiled(b, t) ==
    /\ {0, t} \subseteq DOMAIN b
    /\ b[t].free
    /\ \A p \in DOMAIN b :
         /\ p <= t
         /\ b[p].top <=> p = t
         /\ p # t => /\ EndIn(b, p) \in DOMAIN b
                     /\ b[EndIn(b, p)].prev = b[p].size
                     /\ \A q \in DOMAIN b : q <= p \/ q >= EndIn(b, p)
         /\ p # 0 => /\ p - H - b[p].prev \in DOMAIN b
                     /\ EndIn(b, p - H - b[p].prev) = p

\* Walking the ring from next (cell_body_add_offset) or stepping back from the
\* top (cell_body_add_dir_entry) visits entries and never lands in chunk data.
RingTiled == Tiled(body, top) /\ next \in DOMAIN body

\* The only free entry besides the top is the left-over at next. So the entry
\* that cell_body_add_dir_entry takes from below the top is never free.
FreeOnlyAtNext == \A p \in DOMAIN body : body[p].free => p \in {next, top}

\* An indexed checksum leads to the entry that holds that very chunk, whole, and
\* every used entry is indexed where it is.
Indexed(b, d) ==
    /\ \A c \in DOMAIN d :
         /\ d[c].offset \in DOMAIN b
         /\ ~b[d[c].offset].free
         /\ b[d[c].offset].checksum = c
         /\ b[d[c].offset].size = SizeOf[c]
    /\ \A p \in DOMAIN b :
         ~b[p].free => b[p].checksum \in DOMAIN d /\ d[b[p].checksum].offset = p

\* cell_get_chunk hands out the chunk that was asked for, and cell_header_remove
\* finds every chunk that the ring gives up.
DirectoryMatchesRing == Indexed(body, dir)

\* No entry outgrows the longest chunk by a header: two left-overs never merge,
\* so the bit-field of the size is wide enough if it is wide enough for that.
LeftOverFits == \A p \in DOMAIN body : body[p].size < MaxChunk + H

\* The ring, with its top entry, never runs into the overflow area of the
\* directory.
RingBelowOverflow == FreeSpace(top, dir) >= 0

\* The counters that the cache reports count what is stored.
CountersMatch ==
    /\ entry_count = Cardinality(DOMAIN dir)
    /\ byte_count = Bytes(DOMAIN body)

\* A header that passes cell_header_sane never covers a slab that was being
\* changed when its process stopped.
SaneIsWhole == Sane => ~torn

\* The two assertions of cell_body_add_dir_entry hold: "Entry below top should
\* never free" and "Removing a single entry must provide enough space to add a
\* directory entry".
PopIsSafe == failed \notin {"free_below_top", "no_room"}

\* The assertions of cell_header_remove on the counters hold, as long as the slab
\* is a few times as large as the longest chunk: the ring never gives up all it
\* has for one chunk.
CountersStayPositive == failed # "counters"

\* An add gives up as little as it can: the entries it evicts from the ring
\* are those from the write position up to the first that makes enough room,
\* and at most one more, the last entry below the top.
EvictsLittle ==
    [][\A c \in Checksums : AddReturnsTrue(c) =>
         \A p \in UsedIn(DOMAIN body) :
           body[p].checksum \notin DOMAIN dir' =>
             \/ Start <= p /\ p - (Start + H) < SizeOf[c] + H
             \/ End(p) = top]_vars

\* Reopening a cell whose last update completed keeps every chunk.
ReopenKeepsChunks ==
    [][~up /\ up' /\ ~torn => ring' = ring]_vars

\* cell_header_remove: "When called there should always be something to remove."
RemoveAlwaysFinds == failed # "remove_missing"

\* A chunk for which cell_add_chunk returns true is in the cell.
AddedIsStored ==
    [][\A c \in Checksums : AddReturnsTrue(c) => HasChunk(c)']_vars

\* chunk.h and chunk_set allow buffers of up to CHUNK_MAX_BUFFER_SIZE = 2^15
\* bytes. Even with chunks that fit the size field: cell_get_chunk hands out their
\* length, and the entry after any entry is where cell_body_next_entry_is_top
\* looks for it.
LegalSizesKeepRing ==
    /\ \A c \in Checksums : HasChunk(c) => GetChunk(c).size = SizeOf[c]
    /\ \A p \in DOMAIN body \ {top} : p + H + body[p].size \in DOMAIN body

-----------------------------------------------------------------------------
(* The cell as a ring buffer of chunks                                     *)

\* The checksums of the entries of b at S, by offset.
ByOffset(b, S) ==
    LET At(i) == CHOOSE p \in S : Cardinality({q \in S : q <= p}) = i
    IN [i \in 1 .. Cardinality(S) |-> b[At(i)].checksum]

Promise == INSTANCE ChunkRing WITH
    Chunks <- Checksums,
    newer  <- ByOffset(body, UsedIn({p \in DOMAIN body : p < next})),
    older  <- ByOffset(body, UsedIn({p \in DOMAIN body : next <= p}))

\* The cell implements the ring of chunks: whatever the sizes, the overflow of
\* the directory and the left-over entries do, chunks are overwritten in the
\* order in which they were added, save the one that gives way to a directory
\* entry, and never while a younger one is.
ImplementsRing == Promise!Spec
=============================================================================
