----------------------------- MODULE MCChunker -----------------------------
(* Instances of Chunker for TLC: all streams of bits up to a length.        *)
EXTENDS Chunker

CONSTANT MaxStream

MCStreams == BoundedSeq(Byte, MaxStream)

MCTriggers == {<<0, 1>>}

\* Room for the longest chunk, for a little more, for less, and a caller that
\* does not flush.
MCCallers ==
    [size : {MaxChunk, MaxChunk + 3}, flushes : {TRUE}]
        \cup {[size |-> MaxChunk - 1, flushes |-> TRUE],
              [size |-> MaxChunk + 3, flushes |-> FALSE]}
=============================================================================
