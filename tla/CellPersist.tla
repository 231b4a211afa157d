----------------------------- MODULE CellPersist -----------------------------
(***************************************************************************)
(* The integrity protocol of a cell in persistent memory, store by store:  *)
(* cell_ic_on_entry, the update, cell_ic_on_exit, and the order of stores  *)
(* in cell_header_init. The slab is a set of cache lines that the CPU      *)
(* writes back whenever it likes. Killing the process loses nothing that   *)
(* was stored; a loss of power loses what was not written back.            *)
(*                                                                         *)
(* The magic number, both codes, the counters and the offsets of cell_body *)
(* are the first 28 bytes of the header and lie in one line. What the      *)
(* counters and offsets say is abstracted to the number of the update that *)
(* wrote them, and so is the contents of every other line.                 *)
(***************************************************************************)
EXTENDS Integers, FiniteSets

CONSTANTS
    Lines,          \* the other lines, of the directory and of the body
    FirstEntry,     \* the line of the first body entry
    CodeMod,        \* 2^32: values of an integrity code
    BarrierFlushes, \* does __sync_synchronize wait for write-back? README.md
                    \* relies on it; on x86 it only orders stores
    MaxUpdates,     \* bound on calls of cell_add_chunk
    MaxKills,       \* bound on kills of the process
    MaxLosses       \* bound on losses of power

ASSUME CellPersistAssumption ==
    /\ IsFiniteSet(Lines) /\ FirstEntry \in Lines
    /\ CodeMod \in Nat \ {0, 1}
    /\ BarrierFlushes \in BOOLEAN
    /\ MaxUpdates \in Nat /\ MaxKills \in Nat /\ MaxLosses \in Nat

VARIABLES
    cpu,        \* the slab as the CPU sees it: [head, data]
    nvm,        \* the slab as it would be after a loss of power
    pc,         \* where the process is
    todo,       \* lines of the current update still to be stored
    id,         \* number of the last update; an empty cell counts as update 1
    updates,    \* calls of cell_add_chunk so far
    kills,      \* kills of the process so far
    losses,     \* losses of power so far
    good        \* number of a completed update -> the lines it left behind

vars == <<cpu, nvm, pc, todo, id, updates, kills, losses, good>>

-----------------------------------------------------------------------------
Sane(m) == m.head.magic /\ m.head.entry = m.head.exit

\* __sync_synchronize
Barrier == BarrierFlushes => nvm = cpu

WriteBackHead == nvm' = [nvm EXCEPT !.head = cpu.head]

WriteBackLine(l) == nvm' = [nvm EXCEPT !.data[l] = cpu.data[l]]

WriteBack ==
    /\ WriteBackHead \/ \E l \in Lines : WriteBackLine(l)
    /\ nvm' # nvm
    /\ UNCHANGED <<cpu, pc, todo, id, updates, kills, losses, good>>

StoreHead(h) == cpu' = [cpu EXCEPT !.head = h]

-----------------------------------------------------------------------------
(* cell_add_chunk                                                          *)

\* Faulty: the entry code is not advanced.
EnterSilently ==
    /\ pc = "idle" /\ updates < MaxUpdates
    /\ pc' = "entered" /\ updates' = updates + 1
    /\ UNCHANGED <<cpu, nvm, todo, id, kills, losses, good>>

\* Faulty: the entry code outgrows its width.
EnterUnbounded ==
    /\ pc = "idle" /\ updates < MaxUpdates
    /\ StoreHead([cpu.head EXCEPT !.entry = @ + 1])
    /\ pc' = "entered" /\ updates' = updates + 1
    /\ UNCHANGED <<nvm, todo, id, kills, losses, good>>

\* cell_ic_on_entry
OnEntry ==
    /\ pc = "idle" /\ updates < MaxUpdates
    /\ StoreHead([cpu.head EXCEPT !.entry = (@ + 1) % CodeMod])
    /\ pc' = "entered" /\ updates' = updates + 1
    /\ UNCHANGED <<nvm, todo, id, kills, losses, good>>

\* Faulty: there is no barrier between the entry code and the update.
BeginUnordered ==
    /\ pc = "entered"
    /\ pc' = "updating" /\ id' = id + 1
    /\ todo' \in SUBSET Lines
    /\ UNCHANGED <<cpu, nvm, updates, kills, losses, good>>

\* The barrier of cell_ic_on_entry; cell_body_add then stores to some lines.
BeginUpdate ==
    /\ pc = "entered" /\ Barrier
    /\ pc' = "updating" /\ id' = id + 1
    /\ todo' \in SUBSET Lines
    /\ UNCHANGED <<cpu, nvm, updates, kills, losses, good>>

StoreLine(l, value) ==
    /\ l \in todo
    /\ cpu' = [cpu EXCEPT !.data[l] = value]
    /\ todo' = todo \ {l}
    /\ UNCHANGED <<nvm, pc, id, updates, kills, losses, good>>

Update(l) == pc = "updating" /\ StoreLine(l, id)

\* The offsets of cell_body and the counters of cell_header.
StoreOffsets ==
    /\ pc = "updating" /\ cpu.head.id # id
    /\ StoreHead([cpu.head EXCEPT !.id = id])
    /\ UNCHANGED <<nvm, pc, todo, id, updates, kills, losses, good>>

OnExit ==
    /\ pc = "updating" /\ todo = {} /\ cpu.head.id = id
    /\ Barrier
    /\ StoreHead([cpu.head EXCEPT !.exit = cpu.head.entry])
    /\ pc' = "leaving"
    /\ good' = [i \in DOMAIN good \cup {id} |->
                   IF i = id THEN cpu.data ELSE good[i]]
    /\ UNCHANGED <<nvm, todo, id, updates, kills, losses>>

\* The last barrier of cell_ic_on_exit and of cell_header_init.
Leave ==
    /\ pc = "leaving" /\ Barrier
    /\ pc' = "idle"
    /\ UNCHANGED <<cpu, nvm, todo, id, updates, kills, losses, good>>

-----------------------------------------------------------------------------
(* cell_init                                                               *)

OpenSane ==
    /\ pc = "down" /\ Sane(cpu)
    /\ pc' = "idle"
    /\ UNCHANGED <<cpu, nvm, todo, id, updates, kills, losses, good>>

\* An empty cell: a directory of zeros, and a top entry at the start of the body
\* (the rest of the body is not looked at, so it may as well be zero).
EmptyLine(l) == IF l = FirstEntry THEN 1 ELSE 0

\* Faulty: only a cell that was once in use is reset.
ResetUsedOnly ==
    /\ pc = "down" /\ cpu.head.magic /\ ~Sane(cpu)
    /\ StoreHead([magic |-> FALSE, entry |-> 0, exit |-> 0, id |-> 1])
    /\ pc' = "clearing" /\ todo' = Lines
    /\ UNCHANGED <<nvm, id, updates, kills, losses, good>>

\* cell_header_init: the memset of the header begins with the magic number and
\* the codes; then come the directory and the first entry of the body.
OpenReset ==
    /\ pc = "down" /\ ~Sane(cpu)
    /\ StoreHead([magic |-> FALSE, entry |-> 0, exit |-> 0, id |-> 1])
    /\ pc' = "clearing" /\ todo' = Lines
    /\ UNCHANGED <<nvm, id, updates, kills, losses, good>>

Clear(l) == pc = "clearing" /\ StoreLine(l, EmptyLine(l))

SetMagic ==
    /\ pc = "clearing" /\ todo = {}
    /\ Barrier
    /\ StoreHead([cpu.head EXCEPT !.magic = TRUE])
    /\ pc' = "leaving"
    /\ UNCHANGED <<nvm, todo, id, updates, kills, losses, good>>

-----------------------------------------------------------------------------
(* The environment                                                         *)

Stop ==
    /\ pc' = "down" /\ todo' = {}
    /\ UNCHANGED <<nvm, id, updates, good>>

Kill ==
    /\ pc # "down" /\ kills < MaxKills
    /\ kills' = kills + 1
    /\ Stop /\ UNCHANGED <<cpu, losses>>

PowerLoss ==
    /\ losses < MaxLosses
    /\ losses' = losses + 1
    /\ Stop /\ cpu' = nvm /\ UNCHANGED kills

\* A new file: all zero, on the medium.
Blank == [head |-> [magic |-> FALSE, entry |-> 0, exit |-> 0, id |-> 0],
          data |-> [l \in Lines |-> 0]]

Init ==
    /\ cpu = Blank /\ nvm = Blank
    /\ pc = "down" /\ todo = {} /\ id = 1 /\ updates = 0
    /\ kills = 0 /\ losses = 0
    /\ good = [i \in {1} |-> [l \in Lines |-> EmptyLine(l)]]

Process ==
    \/ OnEntry \/ BeginUpdate \/ StoreOffsets \/ OnExit \/ Leave
    \/ OpenSane \/ OpenReset \/ SetMagic
    \/ \E l \in Lines : Update(l) \/ Clear(l)

Next == Process \/ WriteBack \/ Kill \/ PowerLoss

\* Threads are scheduled, an operator starts the process again, and no line
\* stays in the CPU's cache for ever.
Fairness == WF_vars(Process) /\ WF_vars(WriteBack)

Spec == Init /\ [][Next]_vars /\ Fairness

-----------------------------------------------------------------------------
(* Properties                                                              *)

Heads == [magic : BOOLEAN, entry : 0 .. CodeMod - 1, exit : 0 .. CodeMod - 1,
          id : Nat]
Slabs == [head : Heads, data : [Lines -> Nat]]

\* Type invariant.
TypeOK ==
    /\ cpu \in Slabs /\ nvm \in Slabs
    /\ pc \in {"down", "idle", "entered", "updating", "leaving", "clearing"}
    /\ todo \subseteq Lines
    /\ id \in Nat /\ updates \in 0 .. MaxUpdates
    /\ kills \in 0 .. MaxKills /\ losses \in 0 .. MaxLosses
    /\ DOMAIN good \subseteq 1 .. id
    /\ \A i \in DOMAIN good : good[i] \in [Lines -> Nat]

\* README.md: "we cannot compromise the integrity of the cache". A cell in use
\* holds all lines of one completed update, with the offsets of that update. This is
\* so after any number of kills, or after any number of losses of power if barriers
\* flush; not after a kill in an update and then a loss of power in the reset.
OpenIsWhole ==
    pc = "idle" =>
        /\ cpu.head.id \in DOMAIN good
        /\ cpu.data = good[cpu.head.id]

\* A cell that is down comes up again: no barrier waits for ever.
ComesUp == (pc = "down") ~> (pc = "idle")
=============================================================================
