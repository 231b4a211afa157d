------------------------------ MODULE Chunker ------------------------------
(***************************************************************************)
(* How a stream is cut into chunks: chunker_chunk_buffer, the loop of      *)
(* chunk_streamer_process_buffer around it, the flush of what was          *)
(* retained, and a caller that reads a stream piece by piece, as           *)
(* test_chunk_streamer_file.c does: what was retained goes to the start of *)
(* the buffer and the next piece is read behind it.                        *)
(*                                                                         *)
(* The rolling hash is a function of the last Width bytes, so it is        *)
(* abstracted to the set of windows that trigger a cut. Whether a chunk is *)
(* looked up or added, and by how many threads, is module Cache's.         *)
(***************************************************************************)
EXTENDS Integers, SequencesExt

CONSTANTS
    Byte,           \* the values of a byte; 0 is one of them
    Width,          \* CHUNKER_WINDOW_WIDTH
    MinChunk,       \* CHUNKER_MIN_CHUNK_SIZE
    MaxChunk,       \* CHUNKER_MAX_CHUNK_SIZE
    Triggers,       \* windows whose hash is CHUNKER_TRIGGER under CHUNKER_MASK
    Streams,        \* the streams that are read
    Callers         \* size of the caller's buffer, and does it flush?

ASSUME ChunkerAssumption ==
    /\ 0 \in Byte
    /\ Width \in Nat \ {0} /\ MinChunk \in Nat /\ MaxChunk \in Nat
    /\ Width <= MinChunk /\ MinChunk < MaxChunk
    /\ Triggers \subseteq [1 .. Width -> Byte]
    /\ Streams \subseteq Seq(Byte)
    /\ Callers \subseteq [size : Nat \ {0}, flushes : BOOLEAN]

VARIABLES
    stream,         \* the stream that is being read
    caller,         \* who reads it
    read,           \* how many of its bytes have been read
    base,           \* the bytes at the start of the buffer that were flushed to it
    left,           \* what chunk_streamer_process_buffer has not cut yet
    window,         \* chunker.rh_state2: the bytes the rolling hash covers
    retained,       \* chunker.retained, up to retained_size
    chunks,         \* the chunks handed to the cache, in order
    pc              \* where the caller and the streamer are

vars == <<stream, caller, read, base, left, window, retained, chunks, pc>>
input == <<stream, caller>>

NoWindow == [i \in 1 .. Width |-> 0]
NoCaller == [size |-> 0, flushes |-> FALSE]

-----------------------------------------------------------------------------
(* chunker_chunk_buffer                                                    *)

\* Faulty: the hash goes on with the window of the chunk before.
WindowNotReset(b) == window

\* rolling_hash2_reset, with the last bytes of the shortest chunk.
ResetWindow(b) == SubSeq(b, MinChunk - Width + 1, MinChunk)

\* The window after rolling_hash2_run has taken i bytes. It takes them from the
\* start of the buffer, not from where the reset left off.
WindowAt(b, i) == SubSeq(ResetWindow(b) \o b, i + 1, i + Width)

\* max_len: how many bytes are hashed.
HashLength(b) == (IF Len(b) >= MaxChunk THEN MaxChunk ELSE Len(b)) - MinChunk

Hits(b) == {i \in 1 .. HashLength(b) : WindowAt(b, i) \in Triggers}

First(S) == CHOOSE i \in S : \A j \in S : i <= j

\* CHUNKER_FOUND, with the length of the chunk.
Found(b, n) ==
    /\ Len(b) >= MinChunk
    /\ \/ Hits(b) # {} /\ n = MinChunk + First(Hits(b))
       \/ Hits(b) = {} /\ HashLength(b) = MaxChunk - MinChunk /\ n = MaxChunk

\* Faulty: the longest chunk is retained like any other rest.
NoHitNotFound(b) == Len(b) < MinChunk \/ Hits(b) = {}

\* CHUNKER_NOT_FOUND
NotFound(b) ==
    \/ Len(b) < MinChunk
    \/ Hits(b) = {} /\ HashLength(b) < MaxChunk - MinChunk

-----------------------------------------------------------------------------
(* chunk_streamer_process_buffer and chunk_streamer_flush_retained         *)

\* chunk_ref_set: what is named by its checksum and handed to the cache.
ChunkRef(b, n) == SubSeq(b, 1, n)

\* One round of the loop: a chunk is found and handed on.
CutChunk ==
    /\ pc = "chunk" /\ retained = <<>>
    /\ \E n \in MinChunk + 1 .. MaxChunk :
         /\ Found(left, n)
         /\ chunks' = Append(chunks, ChunkRef(left, n))
         /\ left' = SubSeq(left, n + 1, Len(left))
         /\ window' = WindowAt(left, n - MinChunk)
    /\ UNCHANGED <<input, read, base, retained, pc>>

\* rh_state2 after a buffer without a chunk; a short one is not hashed.
WindowAfter(b) ==
    IF Len(b) < MinChunk THEN window ELSE WindowAt(b, HashLength(b))

\* Faulty: of a buffer shorter than any chunk nothing is kept.
ShortNotRetained ==
    /\ pc = "chunk" /\ retained = <<>> /\ NotFound(left)
    /\ retained' = IF Len(left) < MinChunk THEN <<>> ELSE left
    /\ left' = <<>> /\ window' = WindowAfter(left) /\ pc' = "flush"
    /\ UNCHANGED <<input, read, base, chunks>>

\* Faulty: the loop does not end when the buffer ends with a chunk.
NoEndAtChunk ==
    /\ pc = "chunk" /\ retained = <<>> /\ NotFound(left)
    /\ retained' = left
    /\ left' = <<>> /\ window' = WindowAfter(left)
    /\ pc' = IF left = <<>> THEN "chunk" ELSE "flush"
    /\ UNCHANGED <<input, read, base, chunks>>

\* The last round: the rest is copied to the chunker and the call returns.
Retain ==
    /\ pc = "chunk" /\ retained = <<>> /\ NotFound(left)
    /\ retained' = left
    /\ left' = <<>> /\ window' = WindowAfter(left) /\ pc' = "flush"
    /\ UNCHANGED <<input, read, base, chunks>>

\* ALWAYS(retained_size == 0)
ChunkAborts ==
    /\ pc = "chunk" /\ retained # <<>>
    /\ pc' = "aborted"
    /\ UNCHANGED <<input, read, base, left, window, retained, chunks>>

\* Faulty: retained_size is not set to 0.
FlushNotCleared ==
    /\ pc = "flush" /\ caller.flushes /\ caller.size > Len(retained)
    /\ base' = retained
    /\ pc' = "read"
    /\ UNCHANGED <<input, read, left, window, retained, chunks>>

Flush ==
    /\ pc = "flush" /\ caller.flushes /\ caller.size > Len(retained)
    /\ base' = retained /\ retained' = <<>>
    /\ pc' = "read"
    /\ UNCHANGED <<input, read, left, window, chunks>>

\* ALWAYS(buffer_length > retained_size)
FlushAborts ==
    /\ pc = "flush" /\ caller.flushes /\ caller.size <= Len(retained)
    /\ pc' = "aborted"
    /\ UNCHANGED <<input, read, base, left, window, retained, chunks>>

-----------------------------------------------------------------------------
(* The caller                                                              *)

\* A caller that does not flush reads the next piece at once.
SkipFlush ==
    /\ pc = "flush" /\ ~caller.flushes
    /\ base' = <<>> /\ pc' = "read"
    /\ UNCHANGED <<input, read, left, window, retained, chunks>>

\* read returns some of what there is room for, and the buffer is processed.
ReadPiece ==
    /\ pc = "read" /\ read < Len(stream)
    /\ \E n \in 1 .. caller.size - Len(base) :
         /\ read + n <= Len(stream)
         /\ left' = base \o SubSeq(stream, read + 1, read + n)
         /\ read' = read + n
    /\ pc' = "chunk"
    /\ UNCHANGED <<input, base, window, retained, chunks>>

\* The stream has ended. The bytes in base are in no chunk.
EndOfStream ==
    /\ pc = "read" /\ read = Len(stream)
    /\ pc' = "done"
    /\ UNCHANGED <<input, read, base, left, window, retained, chunks>>

\* The caller is through with the stream. The streamer is kept for another one if
\* nothing is retained in it; otherwise, and after an abort, there is a new one.
Leave ==
    /\ pc \in {"done", "aborted"}
    /\ pc' = "idle"
    /\ stream' = <<>> /\ caller' = NoCaller /\ read' = 0
    /\ base' = <<>> /\ left' = <<>> /\ chunks' = <<>> /\ retained' = <<>>
    /\ window' = IF pc = "done" /\ retained = <<>> THEN window ELSE NoWindow

StartStream ==
    /\ pc = "idle"
    /\ stream' \in Streams /\ caller' \in Callers
    /\ pc' = "read"
    /\ UNCHANGED <<read, base, left, window, retained, chunks>>

\* chunk_streamer_init and chunker_init
Init ==
    /\ stream = <<>> /\ caller = NoCaller
    /\ read = 0 /\ base = <<>> /\ left = <<>>
    /\ window = NoWindow /\ retained = <<>>
    /\ chunks = <<>> /\ pc = "idle"

Proceed ==
    \/ ReadPiece \/ EndOfStream \/ CutChunk \/ Retain \/ ChunkAborts
    \/ Flush \/ FlushAborts \/ SkipFlush

Next == Proceed \/ StartStream \/ Leave

\* The thread that reads the stream is scheduled and reads return.
Spec == Init /\ [][Next]_vars /\ WF_vars(Proceed)
-----------------------------------------------------------------------------
(* Properties                                                              *)

\* Type invariant. What is retained fits its array: it is shorter than the
\* longest chunk.
TypeOK ==
    /\ stream \in Streams \cup {<<>>} /\ caller \in Callers \cup {NoCaller}
    /\ read \in 0 .. Len(stream)
    /\ base \in Seq(Byte) /\ left \in Seq(Byte) /\ retained \in Seq(Byte)
    /\ Len(retained) < MaxChunk
    /\ window \in [1 .. Width -> Byte]
    /\ chunks \in Seq(Seq(Byte))
    /\ pc \in {"idle", "read", "chunk", "flush", "done", "aborted"}

\* The window of the i-th hash of the chunk at offset k of stream s: the bytes
\* before the shortest cut, then those from the start of the chunk.
HashedAt(s, k, i) ==
    [j \in 1 .. Width |-> IF i + j <= Width THEN s[k + MinChunk - Width + i + j]
                                            ELSE s[k + i + j - Width]]

\* Offset e ends the chunk at offset k, whatever the buffers were.
EndsChunk(s, k, e) ==
    /\ e - k \in MinChunk + 1 .. MaxChunk
    /\ e - k = MaxChunk \/ HashedAt(s, k, e - k - MinChunk) \in Triggers
    /\ \A i \in 1 .. e - k - MinChunk - 1 : HashedAt(s, k, i) \notin Triggers

Offset(n) == Len(FlattenSeq(SubSeq(chunks, 1, n)))

\* The chunks of a stream depend on the stream alone, not on how many bytes each
\* read returned, how long the buffer is, or what was hashed before: else the same
\* data would not be found again in the cache. And nothing that can be cut is
\* held back when process_buffer returns.
ChunksAreCanonical ==
    /\ \A n \in 1 .. Len(chunks) : EndsChunk(stream, Offset(n - 1), Offset(n))
    /\ pc \in {"flush", "read"} =>
          \A e \in 1 .. read : ~EndsChunk(stream, Offset(Len(chunks)), e)

\* No byte is lost, repeated or moved on the way through buffer, chunker and flush:
\* chunks and what is still held are what has been read. (A caller that does not
\* flush is stopped by the assertion at its next buffer.)
NothingLost ==
    LET held == CASE pc \in {"chunk", "aborted"} -> retained \o left
                  [] pc = "flush" -> retained
                  [] OTHER -> IF caller.flushes THEN base ELSE retained
    IN  FlattenSeq(chunks) \o held = SubSeq(stream, 1, read)

\* The two assertions hold for every caller that flushes and whose buffer has
\* room for the longest chunk.
NoAbort == caller.flushes /\ caller.size >= MaxChunk => pc # "aborted"

\* Such a caller gets to the end of the stream.
Drains ==
    (pc = "read" /\ caller.flushes /\ caller.size >= MaxChunk)
        ~> (pc = "done" /\ read = Len(stream))
=============================================================================
