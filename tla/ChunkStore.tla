----------------------------- MODULE ChunkStore -----------------------------
(***************************************************************************)
(* What the cache promises to threads that share it: each call takes       *)
(* effect at one moment between its begin and its return, a chunk that is  *)
(* handed out is the one asked for, and an addition gives up chunks of its *)
(* own cell only. The counters of a cell count what is in it. Locks, slots *)
(* and directories are not there.                                          *)
(***************************************************************************)
EXTENDS Naturals, FiniteSets

CONSTANTS
    Threads,
    Chunks,
    CellOf(_),      \* the cell of a chunk
    SizeOf,         \* chunk -> its length
    NoChunk         \* what a look-up without success hands out

VARIABLES
    stored,         \* the chunks in the cache
    result          \* the last call of each thread that returned, and its answer

vars == <<stored, result>>

Answer(call, c, answer) == [call |-> call, chunk |-> c, answer |-> answer]

Returns(t, call, c, answer) ==
    result' = [result EXCEPT ![t] = Answer(call, c, answer)]

Has(t, c) ==
    /\ Returns(t, "has", c, IF c \in stored THEN c ELSE NoChunk)
    /\ UNCHANGED stored

Get(t, c) ==
    /\ Returns(t, "get", c, IF c \in stored THEN c ELSE NoChunk)
    /\ UNCHANGED stored

Refuse(t, c) ==
    /\ c \in stored
    /\ Returns(t, "add", c, NoChunk)
    /\ UNCHANGED stored

\* What is in the cell of c.
Beside(c) == {d \in stored : CellOf(d) = CellOf(c)}

\* The length of the chunks S together: how many bytes they have.
Size(S) == Cardinality(UNION {{d} \X (1 .. SizeOf[d]) : d \in S})

CountEntries(t, c) ==
    /\ Returns(t, "entries", c, Cardinality(Beside(c)))
    /\ UNCHANGED stored

CountBytes(t, c) ==
    /\ Returns(t, "bytes", c, Size(Beside(c)))
    /\ UNCHANGED stored

\* The call returns true, but the chunk itself may be among those given up.
Add(t, c) ==
    /\ c \notin stored
    /\ \E gone \in SUBSET (Beside(c) \cup {c}) :
          stored' = (stored \cup {c}) \ gone
    /\ Returns(t, "add", c, c)

Init ==
    /\ stored = {}
    /\ result = [t \in Threads |-> Answer("none", NoChunk, NoChunk)]

Next == \E t \in Threads, c \in Chunks :
            \/ Has(t, c) \/ Get(t, c) \/ Refuse(t, c) \/ Add(t, c)
            \/ CountEntries(t, c) \/ CountBytes(t, c)

Spec == Init /\ [][Next]_vars
=============================================================================
