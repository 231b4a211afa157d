------------------------------ MODULE MCCache ------------------------------
(* Instances of Cache for TLC. Cell 0 has room for one of its two chunks, so *)
(* that they keep overwriting each other; cell 1 has room for both of its.   *)
EXTENDS Cache

CONSTANTS a, b, x, y, t1, t2, t3

MCPart == [c \in Chunks |-> CASE c = a -> 0 [] c = b -> 2 [] c = x -> 1 [] c = y -> 3]
MCSizeOf == [c \in Chunks |-> CASE c = a -> 2 [] c = b -> 3 [] c = x -> 4 [] c = y -> 6]
MCRoom == [k \in Cells |-> k + 1]

\* The calls of the programs.
Stream(c) == [op |-> "stream", chunk |-> c]
Get(c) == [op |-> "get", chunk |-> c]
Entries(c) == [op |-> "entries", chunk |-> c]
Bytes(c) == [op |-> "bytes", chunk |-> c]
Metrics == [op |-> "metrics", chunk |-> NoChunk]

MCPrograms == [t \in Threads |->
    CASE t = t1 -> <<Stream(a), Stream(x), Stream(y)>>
      [] t = t2 -> <<Stream(b), Stream(x), Stream(x), Entries(x)>>
      [] t = t3 -> <<Get(a), Metrics, Stream(x), Bytes(a)>>]
=============================================================================
