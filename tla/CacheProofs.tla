---------------------------- MODULE CacheProofs ----------------------------
(***************************************************************************)
(* Proofs about Cache, for every number of threads and of cells, whatever  *)
(* calls the threads make: what the mutex of a cell protects stays         *)
(* consistent, and the calls take effect one after the other.              *)
(***************************************************************************)
EXTENDS Cache, FiniteSetTheorems, TLAPS

-----------------------------------------------------------------------------
(* The inductive invariant                                                 *)

\* The chunks that belong to a cell.
Mine(k) == {c \in Chunks : CellOf(c) = k}

Dirs == UNION {[S -> Nat] : S \in SUBSET Chunks}
Bodies(k) == [1 .. Room[k] -> Chunks \cup {NoChunk}]
AnyBody == UNION {[1 .. n -> Chunks \cup {NoChunk}] : n \in Nat}
Totals == [bytes : Nat, entries : Nat, next : 0 .. CellCount]

\* The types of the variables, with those that TypeOK leaves out.
Shape ==
    /\ dir \in [Cells -> Dirs] /\ data \in [Cells -> AnyBody]
    /\ entry_count \in [Cells -> Nat] /\ byte_count \in [Cells -> Nat]
    /\ lock \in [Cells -> Threads \cup {NoThread}]
    /\ pc \in [Threads -> Labels]
    /\ todo \in [Threads -> Seq(Calls)] /\ slot \in [Threads -> Nat]
    /\ gone \in [Threads -> SUBSET Chunks]
    /\ hit \in [Threads -> [Chunks -> Nat]] /\ added \in [Threads -> [Chunks -> Nat]]
    /\ total \in [Threads -> Totals]
    /\ kept \in [Threads -> SUBSET Chunks] /\ seen \in [Threads -> SUBSET Chunks]

\* The counters, the directory and the body of a cell agree, also while an
\* addition is under way.
CellInv(k) ==
    /\ Held(k) \subseteq Mine(k) /\ data[k] \in Bodies(k)
    /\ \A c \in Held(k) : dir[k][c] \in 1 .. Room[k] /\ data[k][dir[k][c]] = c
    /\ entry_count[k] = Cardinality(Held(k)) /\ byte_count[k] = Size(Held(k))

Working == {"evict", "write", "index", "copy"}
Adding == {"add", "evict", "write", "index"}
Counting == {"hit", "added"}

\* Where a thread is in its call, and which mutex it has.
FlowInv(t) ==
    /\ pc[t] # "call" => todo[t] # <<>>
    /\ pc[t] \in Adding \cup Counting => Call(t).op = "stream"
    /\ pc[t] = "copy" => Call(t).op = "get"
    /\ pc[t] \in {"bytes", "entries"} => Call(t).op = "metrics"
    /\ pc[t] \in Working => lock[Home(t)] = t
    /\ pc[t] = "entries" => total[t].next \in Cells /\ lock[total[t].next] = t

\* What a thread with the mutex of a cell has found or done there.
WorkInv(t) ==
    /\ pc[t] \in {"evict", "write", "index"} => Chunk(t) \notin Held(Home(t))
    /\ pc[t] \in {"write", "index"} =>
         /\ slot[t] \in 1 .. Room[Home(t)]
         /\ \A c \in Held(Home(t)) : dir[Home(t)][c] # slot[t]
         /\ gone[t] \subseteq Mine(Home(t)) \ (Held(Home(t)) \cup {Chunk(t)})
    /\ pc[t] \notin {"write", "index"} => gone[t] = {}
    /\ pc[t] = "index" => data[Home(t)][slot[t]] = Chunk(t)
    /\ pc[t] = "copy" => Chunk(t) \in Held(Home(t)) /\ slot[t] = dir[Home(t)][Chunk(t)]

\* What a thread that sums up counters has so far: the counters of a set S of
\* chunks of the cells before total[t].next.
Summed(t, S) ==
    /\ S \in SUBSET seen[t]
    /\ \A c \in S : CellOf(c) < total[t].next
    /\ \A c \in kept[t] : CellOf(c) < total[t].next => c \in S
    /\ total[t].entries = Cardinality(S)
    /\ total[t].bytes =
         Size(S) + IF pc[t] = "entries" THEN byte_count[total[t].next] ELSE 0

MetricsInv(t) ==
    pc[t] \in {"bytes", "entries"} =>
        /\ \A c \in kept[t] : Present(c)
        /\ \A c \in Chunks : Present(c) => c \in seen[t]
        /\ \E S : Summed(t, S)

\* What the streamers have counted of a chunk: each counts it once at most, and
\* as soon as the chunk is stored somebody did or is about to. Nobody finds a chunk
\* that is not stored.
CountOf(c) ==
    /\ \A t \in Threads : added[t][c] <= 1
    /\ \A t \in Threads : pc[t] \in Adding \cup {"added"} /\ Chunk(t) = c => added[t][c] = 0
    /\ Present(c) <=> \E t \in Threads : added[t][c] > 0 \/ AboutToCount(t, c)
    /\ \A t \in Threads : pc[t] = "hit" /\ Chunk(t) = c => Present(c)
    /\ (\E t \in Threads : hit[t][c] > 0) => Present(c)

\* That holds in the cells with room for all their chunks.
CountInv == \A c \in Chunks : Roomy(CellOf(c)) => CountOf(c)

LockInv == Shape /\ (\A k \in Cells : CellInv(k)) /\ \A t \in Threads : FlowInv(t) /\ WorkInv(t)

IInv == LockInv /\ (\A t \in Threads : MetricsInv(t)) /\ CountInv

-----------------------------------------------------------------------------
(* Constants and sizes                                                     *)

\* What the assumptions say of chunks, cells and threads.
LEMMA Constants ==
    /\ IsFiniteSet(Chunks) /\ NoChunk \notin Chunks /\ NoThread \notin Threads
    /\ CellCount \in Nat /\ CellCount > 0
    /\ \A c \in Chunks : CellOf(c) \in Cells /\ SizeOf[c] \in Nat
    /\ \A k \in Cells : k \in Nat /\ k < CellCount /\ Room[k] \in Nat /\ Room[k] > 0
    /\ Programs \in [Threads -> Seq(Calls)]
<1>1. CellCount \in Nat /\ CellCount > 0 /\ Part \in [Chunks -> Nat]
  BY CacheAssumption
<1>2. ASSUME NEW c \in Chunks PROVE CellOf(c) \in Cells
  <2>1. Part[c] \in Nat
    BY <1>1
  <2>2. Part[c] % CellCount \in 0 .. CellCount - 1
    BY <1>1, <2>1
  <2> QED
    BY <2>2 DEF CellOf, Cells
<1>3. \A k \in Cells : k \in Nat /\ k < CellCount
  BY <1>1 DEF Cells
<1> QED
  BY <1>1, <1>2, <1>3, CacheAssumption

\* The bytes of a chunk.
LEMMA UpTo ==
    ASSUME NEW n \in Nat
    PROVE  IsFiniteSet(1 .. n) /\ Cardinality(1 .. n) = n
BY FS_Interval

\* A set of chunks is finite.
LEMMA ChunksFinite ==
    ASSUME NEW S \in SUBSET Chunks
    PROVE  IsFiniteSet(S) /\ Cardinality(S) \in Nat
BY Constants, FS_Subset, FS_CardinalityType

\* The size of two sets that share nothing.
LEMMA DisjointCount ==
    ASSUME NEW S, NEW T, IsFiniteSet(S), IsFiniteSet(T), S \cap T = {}
    PROVE  /\ IsFiniteSet(S \cup T)
           /\ Cardinality(S \cup T) = Cardinality(S) + Cardinality(T)
<1>1. /\ IsFiniteSet(S \cup T)
      /\ Cardinality(S \cup T) = Cardinality(S) + Cardinality(T) - Cardinality(S \cap T)
  BY FS_Union
<1>2. Cardinality(S \cap T) = 0 /\ Cardinality(S) \in Nat /\ Cardinality(T) \in Nat
  BY FS_EmptySet, FS_CardinalityType
<1> QED
  BY <1>1, <1>2

\* The bytes of a set of chunks.
ByteSet(S) == UNION {{c} \X (1 .. SizeOf[c]) : c \in S}

\* A set of chunks has finitely many bytes.
LEMMA ByteSetFinite ==
    ASSUME NEW S \in SUBSET Chunks
    PROVE  IsFiniteSet(ByteSet(S))
<1> DEFINE Of(c) == {c} \X (1 .. SizeOf[c])
           F == {Of(c) : c \in S}
           f == [c \in S |-> Of(c)]
<1>1. \A c \in S : IsFiniteSet(Of(c))
  <2>1. ASSUME NEW c \in S PROVE IsFiniteSet(Of(c))
    <3>1. IsFiniteSet({c}) /\ IsFiniteSet(1 .. SizeOf[c])
      BY Constants, FS_Singleton, UpTo
    <3> QED
      BY <3>1, FS_Product
  <2> QED
    BY <2>1
<1>2. IsFiniteSet(F)
  <2>1. f \in Surjection(S, F)
    <3> HIDE DEF Of
    <3> QED
      BY DEF Surjection
  <2> HIDE DEF f, F
  <2> QED
    BY <2>1, ChunksFinite, FS_Surjection
<1>3. \A T \in F : IsFiniteSet(T)
  <2> HIDE DEF Of
  <2> QED
    BY <1>1
<1>4. IsFiniteSet(UNION F)
  <2> HIDE DEF F
  <2> QED
    BY <1>2, <1>3, FS_UNION
<1> QED
  BY <1>4 DEF ByteSet

\* The size of a set of chunks is a number.
LEMMA SizeType ==
    ASSUME NEW S \in SUBSET Chunks
    PROVE  Size(S) \in Nat
BY ByteSetFinite, FS_CardinalityType DEF Size, ByteSet

\* No chunks have size 0.
LEMMA SizeEmpty == Size({}) = 0
<1>1. ByteSet({}) = {}
  BY DEF ByteSet
<1> QED
  BY <1>1, FS_EmptySet DEF Size, ByteSet

\* The size of chunks that are different is the sum.
LEMMA SizeUnion ==
    ASSUME NEW S \in SUBSET Chunks, NEW T \in SUBSET Chunks, S \cap T = {}
    PROVE  Size(S \cup T) = Size(S) + Size(T)
<1>1. ByteSet(S \cup T) = ByteSet(S) \cup ByteSet(T)
  BY DEF ByteSet
<1>2. ByteSet(S) \cap ByteSet(T) = {}
  BY DEF ByteSet
<1>3. Size(S) = Cardinality(ByteSet(S)) /\ Size(T) = Cardinality(ByteSet(T))
      /\ Size(S \cup T) = Cardinality(ByteSet(S \cup T))
  BY DEF Size, ByteSet
<1> QED
  BY <1>1, <1>2, <1>3, ByteSetFinite, DisjointCount

\* One chunk is as large as it is long.
LEMMA SizeOne ==
    ASSUME NEW c \in Chunks
    PROVE  Size({c}) = SizeOf[c]
<1>1. IsFiniteSet({c}) /\ Cardinality({c}) = 1
  BY FS_Singleton
<1>2. IsFiniteSet(1 .. SizeOf[c]) /\ Cardinality(1 .. SizeOf[c]) = SizeOf[c]
  BY Constants, UpTo
<1>3. Cardinality({c} \X (1 .. SizeOf[c])) = 1 * SizeOf[c]
  <2>1. Cardinality({c} \X (1 .. SizeOf[c])) = Cardinality({c}) * Cardinality(1 .. SizeOf[c])
    BY <1>1, <1>2, FS_Product
  <2> QED
    BY <1>1, <1>2, <2>1
<1>4. UNION {{d} \X (1 .. SizeOf[d]) : d \in {c}} = {c} \X (1 .. SizeOf[c])
  OBVIOUS
<1> QED
  <2>1. SizeOf[c] \in Nat
    BY Constants
  <2>2. Size({c}) = 1 * SizeOf[c]
    BY <1>3, <1>4 DEF Size
  <2> QED
    BY <2>1, <2>2

\* What is left when chunks go.
LEMMA SizeRest ==
    ASSUME NEW S \in SUBSET Chunks, NEW T \in SUBSET S
    PROVE  /\ Size(S \ T) = Size(S) - Size(T)
           /\ Cardinality(S \ T) = Cardinality(S) - Cardinality(T)
<1>1. S = (S \ T) \cup T /\ (S \ T) \cap T = {} /\ S \ T \in SUBSET Chunks /\ T \in SUBSET Chunks
  OBVIOUS
<1> DEFINE R == S \ T
<1> HIDE DEF R
<1>2. Size(R \cup T) = Size(R) + Size(T)
  BY <1>1, SizeUnion DEF R
<1>3. Cardinality(R \cup T) = Cardinality(R) + Cardinality(T)
  BY <1>1, ChunksFinite, DisjointCount DEF R
<1>4. /\ Size(R) \in Nat /\ Size(T) \in Nat
      /\ Cardinality(R) \in Nat /\ Cardinality(T) \in Nat
  BY <1>1, SizeType, ChunksFinite DEF R
<1>5. Size(S) = Size(R) + Size(T) /\ Cardinality(S) = Cardinality(R) + Cardinality(T)
  <2>1. R \cup T = S
    BY <1>1 DEF R
  <2> QED
    BY <1>2, <1>3, <2>1, Zenon
<1>6. Size(R) = Size(S) - Size(T) /\ Cardinality(R) = Cardinality(S) - Cardinality(T)
  BY <1>4, <1>5
<1> QED
  BY <1>6 DEF R

-----------------------------------------------------------------------------
(* The other threads                                                       *)

\* The call that a thread is in.
LEMMA CallFacts ==
    ASSUME Shape, NEW t \in Threads, todo[t] # <<>>
    PROVE  /\ Call(t) \in Calls /\ Tail(todo[t]) \in Seq(Calls)
           /\ Call(t).op # "metrics" => Chunk(t) \in Chunks /\ Home(t) \in Cells
<1>1. todo[t] \in Seq(Calls)
  BY DEF Shape
<1>2. Call(t) \in Calls /\ Tail(todo[t]) \in Seq(Calls)
  BY <1>1 DEF Call
<1>3. Call(t).op # "metrics" => Chunk(t) \in Chunks
  BY <1>2 DEF Calls, Chunk
<1> QED
  BY <1>2, <1>3, Constants DEF Home

\* A thread that is in the middle of an addition, of a copy or of counting.
LEMMA WorkFacts ==
    ASSUME LockInv, NEW t \in Threads, pc[t] \in Working \cup Counting \cup {"add"}
    PROVE  /\ todo[t] # <<>> /\ Chunk(t) \in Chunks /\ Home(t) \in Cells
           /\ Home(t) = CellOf(Chunk(t)) /\ Tail(todo[t]) \in Seq(Calls)
<1>1. Shape /\ FlowInv(t)
  BY DEF LockInv
<1>2. todo[t] # <<>> /\ Call(t).op # "metrics"
  BY <1>1 DEF FlowInv, Working, Adding, Counting
<1> QED
  BY <1>1, <1>2, CallFacts DEF Home

\* A step of thread t leaves the other threads, and the cells whose mutex they
\* have, as they are.
Elsewhere(t) ==
    /\ \A u \in Threads \ {t} :
         /\ pc'[u] = pc[u] /\ todo'[u] = todo[u] /\ slot'[u] = slot[u]
         /\ gone'[u] = gone[u] /\ total'[u] = total[u]
         /\ hit'[u] = hit[u] /\ added'[u] = added[u]
    /\ \A k \in Cells, u \in Threads \ {t} : lock[k] = u =>
         /\ lock'[k] = u /\ dir'[k] = dir[k] /\ data'[k] = data[k]
         /\ byte_count'[k] = byte_count[k]

\* Neither do the calls that look once, or do not touch a cell at all.
Looks(t) ==
    \/ HasHit(t) \/ HasMiss(t) \/ AddRefused(t) \/ GetMiss(t) \/ CountHit(t) \/ CountAdded(t)
    \/ CountEntries(t) \/ CountBytes(t) \/ MetricsBegin(t) \/ MetricsEnd(t)

Locks(t) == AddLocked(t) \/ GetFound(t) \/ MetricsBytes(t)

Changes(t) == Evict(t) \/ WriteChunk(t) \/ IndexChunk(t) \/ AddDropped(t)

\* A step of a thread looks, takes a lock, changes a cell, copies a chunk or counts entries.
LEMMA StepIs ==
    ASSUME NEW t, Step(t)
    PROVE  Looks(t) \/ Locks(t) \/ Changes(t) \/ GetCopy(t) \/ MetricsEntries(t)
BY DEF Step, Looks, Locks, Changes

\* A look leaves the cells, the locks and the other threads alone.
LEMMA LooksElsewhere ==
    ASSUME LockInv, NEW t \in Threads, Looks(t)
    PROVE  Elsewhere(t) /\ UNCHANGED <<dir, data, entry_count, byte_count, lock, slot, gone>>
<1>1. UNCHANGED <<dir, data, entry_count, byte_count, lock, slot, gone>>
  BY DEF Looks, HasHit, HasMiss, AddRefused, GetMiss, CountHit, CountAdded, CountEntries, CountBytes,
         MetricsBegin, MetricsEnd, cell
<1>2. \A u \in Threads \ {t} : pc'[u] = pc[u] /\ todo'[u] = todo[u]
  BY DEF Looks, HasHit, HasMiss, AddRefused, GetMiss, CountHit, CountAdded, CountEntries, CountBytes,
         MetricsBegin, MetricsEnd, Done, Goto, LockInv, Shape
<1>3. \A u \in Threads \ {t} : total'[u] = total[u] /\ hit'[u] = hit[u] /\ added'[u] = added[u]
  BY DEF Looks, HasHit, HasMiss, AddRefused, GetMiss, CountHit, CountAdded, CountEntries, CountBytes,
         MetricsBegin, MetricsEnd, Count, counters, LockInv, Shape
<1> QED
  BY <1>1, <1>2, <1>3 DEF Elsewhere

\* Taking a lock leaves the cells and the other threads alone.
LEMMA LocksElsewhere ==
    ASSUME LockInv, NEW t \in Threads, Locks(t)
    PROVE  Elsewhere(t) /\ UNCHANGED <<dir, data, entry_count, byte_count, gone, todo, hit, added>>
<1>1. UNCHANGED <<dir, data, entry_count, byte_count, gone, todo, hit, added>>
  BY DEF Locks, AddLocked, GetFound, MetricsBytes, cell, counters
<1>2. \A u \in Threads \ {t} : pc'[u] = pc[u] /\ slot'[u] = slot[u] /\ total'[u] = total[u]
  BY DEF Locks, AddLocked, GetFound, MetricsBytes, Goto, LockInv, Shape
<1>3. PICK k : lock[k] = NoThread /\ lock' = [lock EXCEPT ![k] = t]
  BY DEF Locks, AddLocked, GetFound, MetricsBytes, Acquire, Free
<1>4. \A j \in Cells, u \in Threads \ {t} : lock[j] = u => lock'[j] = u
  BY <1>3, Constants DEF LockInv, Shape
<1> QED
  BY <1>1, <1>2, <1>4 DEF Elsewhere

\* A change of a cell leaves the other threads alone, and the cells they have locked.
LEMMA ChangesElsewhere ==
    ASSUME LockInv, NEW t \in Threads, Changes(t)
    PROVE  Elsewhere(t)
<1>1. PICK h \in Cells : h = Home(t) /\ lock[h] = t
  BY WorkFacts DEF Changes, Evict, WriteChunk, IndexChunk, AddDropped, Working, LockInv, FlowInv
<1>2. \A u \in Threads \ {t} : pc'[u] = pc[u] /\ todo'[u] = todo[u] /\ slot'[u] = slot[u]
                                 /\ gone'[u] = gone[u]
  BY DEF Changes, Evict, WriteChunk, IndexChunk, AddDropped, AddReturns, Goto, Done, LockInv,
         Shape
<1>3. \A u \in Threads \ {t} : total'[u] = total[u] /\ hit'[u] = hit[u] /\ added'[u] = added[u]
  BY DEF Changes, Evict, WriteChunk, IndexChunk, AddDropped, AddReturns, Count, counters,
         LockInv, Shape
<1>4. \A k \in Cells \ {h} : lock'[k] = lock[k]
  BY <1>1 DEF Changes, Evict, WriteChunk, IndexChunk, AddDropped, AddReturns, Unlock, LockInv,
         Shape
<1>5. \A k \in Cells \ {h} : dir'[k] = dir[k] /\ byte_count'[k] = byte_count[k]
  BY <1>1 DEF Changes, Evict, WriteChunk, IndexChunk, AddDropped, RemoveAll, LockInv, Shape
<1>6. \A k \in Cells \ {h} : data'[k] = data[k]
  BY <1>1 DEF Changes, Evict, WriteChunk, IndexChunk, AddDropped, RemoveAll, LockInv, Shape
<1>7. \A k \in Cells, u \in Threads \ {t} : lock[k] = u => k \in Cells \ {h}
  BY <1>1
<1> QED
  BY <1>2, <1>3, <1>4, <1>5, <1>6, <1>7 DEF Elsewhere

\* So does every step of a thread.
LEMMA StepElsewhere ==
    ASSUME LockInv, NEW t \in Threads, Step(t)
    PROVE  Elsewhere(t)
<1>1. CASE GetCopy(t)
  <2>1. UNCHANGED <<dir, data, entry_count, byte_count, slot, gone, hit, added, total>>
    BY <1>1 DEF GetCopy, cell, counters
  <2>2. \A u \in Threads \ {t} : pc'[u] = pc[u] /\ todo'[u] = todo[u]
    BY <1>1 DEF GetCopy, Done, Goto, LockInv, Shape
  <2>3. PICK h \in Cells : h = Home(t) /\ lock[h] = t
    BY <1>1, WorkFacts DEF GetCopy, Working, LockInv, FlowInv
  <2>4. \A k \in Cells, u \in Threads \ {t} : lock[k] = u => lock'[k] = u
    BY <1>1, <2>3 DEF GetCopy, Unlock, LockInv, Shape
  <2> QED
    BY <2>1, <2>2, <2>4 DEF Elsewhere
<1>2. CASE MetricsEntries(t)
  <2>1. UNCHANGED <<dir, data, entry_count, byte_count, slot, gone, hit, added, todo>>
    BY <1>2 DEF MetricsEntries, cell, counters
  <2>2. \A u \in Threads \ {t} : pc'[u] = pc[u] /\ total'[u] = total[u]
    BY <1>2 DEF MetricsEntries, Goto, LockInv, Shape
  <2>3. PICK h \in Cells : h = total[t].next /\ lock[h] = t
    BY <1>2 DEF MetricsEntries, LockInv, FlowInv
  <2>4. \A k \in Cells, u \in Threads \ {t} : lock[k] = u => lock'[k] = u
    BY <1>2, <2>3 DEF MetricsEntries, Unlock, LockInv, Shape
  <2> QED
    BY <2>1, <2>2, <2>4 DEF Elsewhere
<1> QED
  BY <1>1, <1>2, StepIs, LooksElsewhere, LocksElsewhere, ChangesElsewhere

\* So what holds of another thread goes on to hold.
LEMMA OtherThread ==
    ASSUME LockInv, NEW t \in Threads, Elsewhere(t), NEW u \in Threads \ {t}
    PROVE  FlowInv(u)' /\ WorkInv(u)'
<1>1. FlowInv(u) /\ WorkInv(u)
  BY DEF LockInv
<1>2. /\ pc'[u] = pc[u] /\ todo'[u] = todo[u] /\ slot'[u] = slot[u]
      /\ gone'[u] = gone[u] /\ total'[u] = total[u]
  BY DEF Elsewhere
<1>3. Call(u)' = Call(u) /\ Chunk(u)' = Chunk(u) /\ Home(u)' = Home(u)
  BY <1>2 DEF Call, Chunk, Home
<1>4. pc[u] \in Working =>
        /\ Home(u) \in Cells /\ lock'[Home(u)] = u
        /\ dir'[Home(u)] = dir[Home(u)] /\ data'[Home(u)] = data[Home(u)]
  BY <1>1, WorkFacts DEF Elsewhere, FlowInv
<1>5. FlowInv(u)'
  <2>1. pc[u] = "entries" => lock'[total[u].next] = u
    BY <1>1 DEF Elsewhere, FlowInv
  <2> QED
    BY <1>1, <1>2, <1>3, <1>4, <2>1 DEF FlowInv
<1>6. WorkInv(u)'
  <2>1. CASE pc[u] \in Working
    <3>1. PICK h, c : h = Home(u) /\ c = Chunk(u)
      OBVIOUS
    <3>2. Home(u)' = h /\ Chunk(u)' = c /\ dir'[h] = dir[h] /\ data'[h] = data[h]
      BY <1>3, <1>4, <2>1, <3>1
    <3>3. DOMAIN dir'[h] = DOMAIN dir[h]
      BY <3>2
    <3> QED
      BY <1>1, <1>2, <3>1, <3>2, <3>3 DEF WorkInv, Held
  <2>2. CASE pc[u] \notin Working
    BY <1>1, <1>2, <2>2 DEF WorkInv, Working
  <2> QED
    BY <2>1, <2>2
<1> QED
  BY <1>5, <1>6

-----------------------------------------------------------------------------
(* What the mutex protects                                                 *)

\* It is enough to look at the thread that takes the step, and at the cells.
LEMMA LockInvStep ==
    ASSUME LockInv, NEW t \in Threads, Elsewhere(t), Shape', \A k \in Cells : CellInv(k)',
           FlowInv(t)', WorkInv(t)'
    PROVE  LockInv'
<1>1. \A u \in Threads : FlowInv(u)' /\ WorkInv(u)'
  BY OtherThread
<1> QED
  BY <1>1 DEF LockInv

\* A cell that a step leaves alone.
LEMMA CellUnchanged ==
    ASSUME NEW k, CellInv(k), dir'[k] = dir[k], data'[k] = data[k],
           entry_count'[k] = entry_count[k], byte_count'[k] = byte_count[k]
    PROVE  CellInv(k)'
<1>1. Held(k)' = Held(k)
  BY DEF Held
<1> QED
  BY <1>1 DEF CellInv

\* The thread goes on to its next call.
LEMMA NextCall ==
    ASSUME Shape, NEW t \in Threads, Done(t), todo[t] # <<>>
    PROVE  /\ todo' \in [Threads -> Seq(Calls)] /\ pc'[t] = "call"
           /\ pc' \in [Threads -> Labels]
<1>1. Tail(todo[t]) \in Seq(Calls)
  BY CallFacts
<1>2. todo' = [todo EXCEPT ![t] = Tail(todo[t])] /\ pc' = [pc EXCEPT ![t] = "call"]
  BY DEF Done, Goto
<1> QED
  BY <1>1, <1>2 DEF Shape, Labels

\* The thread goes on within its call.
LEMMA SameCall ==
    ASSUME Shape, NEW t \in Threads, todo' = todo,
           NEW l \in Labels,
           Goto(t, l)
    PROVE  /\ Call(t)' = Call(t) /\ Chunk(t)' = Chunk(t) /\ Home(t)' = Home(t) /\ pc'[t] = l
           /\ pc' \in [Threads -> Labels]
BY DEF Goto, Call, Chunk, Home, Shape

\* A counter of a streamer goes up.
LEMMA CountType ==
    ASSUME NEW f \in [Threads -> [Chunks -> Nat]], NEW t \in Threads, NEW c \in Chunks,
           NEW g, g = [f EXCEPT ![t][c] = @ + 1]
    PROVE  g \in [Threads -> [Chunks -> Nat]] /\ g[t][c] = f[t][c] + 1
           /\ \A u \in Threads, d \in Chunks : u # t \/ d # c => g[u][d] = f[u][d]
OBVIOUS

\* A look keeps what the locks guard.
LEMMA LooksLockInv ==
    ASSUME LockInv, NEW t \in Threads, Looks(t)
    PROVE  LockInv'
<1>0. Shape /\ FlowInv(t) /\ WorkInv(t)
  BY DEF LockInv
<1>1. Elsewhere(t) /\ UNCHANGED <<dir, data, entry_count, byte_count, lock, slot, gone>>
  BY LooksElsewhere
<1>2. \A k \in Cells : CellInv(k)'
  BY <1>1, CellUnchanged DEF LockInv
<1>3. pc[t] \in {"call", "add", "hit", "added", "bytes"} /\ todo[t] # <<>>
  BY <1>0 DEF Looks, HasHit, HasMiss, AddRefused, GetMiss, CountHit, CountAdded, CountEntries,
              CountBytes, MetricsBegin, MetricsEnd, Running, FlowInv, Adding, Counting, Shape,
              Labels
<1>4. gone'[t] = {}
  BY <1>0, <1>1, <1>3 DEF WorkInv
<1>5. CASE Done(t)
  <2>1. /\ todo' \in [Threads -> Seq(Calls)] /\ pc'[t] = "call"
        /\ pc' \in [Threads -> Labels]
    BY <1>0, <1>3, <1>5, NextCall
  <2>2. hit' \in [Threads -> [Chunks -> Nat]] /\ added' \in [Threads -> [Chunks -> Nat]]
    <3>1. CASE CountHit(t)
      <4>1. Chunk(t) \in Chunks
        BY <3>1, WorkFacts DEF CountHit, Counting
      <4> QED
        BY <1>0, <3>1, <4>1, CountType DEF CountHit, Count, Shape
    <3>2. CASE CountAdded(t)
      <4>1. Chunk(t) \in Chunks
        BY <3>2, WorkFacts DEF CountAdded, Counting
      <4> QED
        BY <1>0, <3>2, <4>1, CountType DEF CountAdded, Count, Shape
    <3>3. CASE ~CountHit(t) /\ ~CountAdded(t)
      <4>1. hit' = hit /\ added' = added
        BY <3>3 DEF Looks, HasHit, HasMiss, AddRefused, GetMiss, CountEntries, CountBytes,
                    MetricsBegin, MetricsEnd, counters
      <4> QED
        BY <1>0, <4>1 DEF Shape
    <3> QED
      BY <3>1, <3>2, <3>3
  <2>3. UNCHANGED <<total, kept, seen>>
    <3>1. ~MetricsBegin(t)
      BY <1>3, <2>1 DEF MetricsBegin, Goto, Shape, LockInv
    <3> QED
      BY <3>1 DEF Looks, HasHit, HasMiss, AddRefused, GetMiss, CountHit, CountAdded, CountEntries,
                  CountBytes, MetricsEnd, history
  <2>4. Shape'
    BY <1>0, <1>1, <2>1, <2>2, <2>3 DEF Shape
  <2>5. FlowInv(t)'
    BY <2>1 DEF FlowInv, Adding, Counting, Working
  <2>6. WorkInv(t)'
    BY <1>4, <2>1 DEF WorkInv
  <2> QED
    BY <1>1, <1>2, <2>4, <2>5, <2>6, LockInvStep
<1>6. CASE HasHit(t) \/ HasMiss(t) \/ AddRefused(t)
  <2>1. PICK l \in {"add", "hit", "added"} : Goto(t, l)
    BY <1>6 DEF HasHit, HasMiss, AddRefused
  <2>2. UNCHANGED <<todo, hit, added, total, kept, seen>> /\ Call(t).op = "stream"
    BY <1>6 DEF HasHit, HasMiss, AddRefused, Running, counters, history
  <2>3. Call(t)' = Call(t) /\ pc'[t] = l /\ pc' \in [Threads -> Labels]
    BY <1>0, <2>1, <2>2, SameCall DEF Labels
  <2>4. Shape'
    BY <1>0, <1>1, <2>2, <2>3 DEF Shape
  <2>5. FlowInv(t)'
    BY <1>3, <2>1, <2>2, <2>3 DEF FlowInv, Working
  <2>6. WorkInv(t)'
    BY <1>4, <2>1, <2>3 DEF WorkInv
  <2> QED
    BY <1>1, <1>2, <2>4, <2>5, <2>6, LockInvStep
<1>7. CASE MetricsBegin(t)
  <2>1. UNCHANGED <<todo, hit, added>> /\ Goto(t, "bytes")
    BY <1>7 DEF MetricsBegin, counters
  <2>2. /\ Call(t)' = Call(t) /\ pc'[t] = "bytes"
        /\ pc' \in [Threads -> Labels]
    BY <1>0, <2>1, SameCall DEF Labels
  <2>3. total' \in [Threads -> Totals]
    <3>1. NoTotal \in Totals
      BY Constants DEF NoTotal, Totals
    <3> QED
      BY <1>0, <1>7, <3>1 DEF MetricsBegin, Shape
  <2>4. kept' \in [Threads -> SUBSET Chunks] /\ seen' \in [Threads -> SUBSET Chunks]
    <3>1. UNION {Held(k) : k \in Cells} \in SUBSET Chunks
      BY DEF LockInv, CellInv, Mine
    <3> QED
      BY <1>0, <1>7, <3>1 DEF MetricsBegin, Shape
  <2>5. Shape'
    BY <1>0, <1>1, <2>1, <2>2, <2>3, <2>4 DEF Shape
  <2>6. FlowInv(t)'
    BY <1>3, <1>7, <2>1, <2>2 DEF MetricsBegin, Running, FlowInv, Working, Adding, Counting
  <2>7. WorkInv(t)'
    BY <1>4, <2>2 DEF WorkInv
  <2> QED
    BY <1>1, <1>2, <2>5, <2>6, <2>7, LockInvStep
<1> QED
  BY <1>5, <1>6, <1>7 DEF Looks, GetMiss, CountHit, CountAdded, CountEntries, CountBytes,
                          MetricsEnd


\* The bytes of one more cell.
LEMMA BytesOnTop ==
    ASSUME NEW v \in Totals, NEW n \in Nat, NEW w, w = [v EXCEPT !.bytes = v.bytes + n]
    PROVE  w \in Totals /\ w.next = v.next /\ w.bytes = v.bytes + n /\ w.entries = v.entries
BY DEF Totals

\* The entries of one more cell, and on to the next.
LEMMA EntriesOnTop ==
    ASSUME NEW v \in Totals, NEW n \in Nat, NEW j \in 0 .. CellCount,
           NEW w, w = [bytes |-> v.bytes, entries |-> v.entries + n, next |-> j]
    PROVE  w \in Totals /\ w.next = j /\ w.bytes = v.bytes /\ w.entries = v.entries + n
BY DEF Totals

\* What the two halves of a cell's metrics add.
LEMMA MetricsBytesAdd ==
    ASSUME Shape, NEW t \in Threads, MetricsBytes(t)
    PROVE  /\ total' \in [Threads -> Totals] /\ total'[t].next = total[t].next
           /\ total'[t].bytes = total[t].bytes + byte_count[total[t].next]
           /\ total'[t].entries = total[t].entries
<1>1. PICK v \in Totals, k \in Cells : v = total[t] /\ k = total[t].next
  BY DEF MetricsBytes, Shape
<1>2. PICK w : w = [v EXCEPT !.bytes = v.bytes + byte_count[k]]
  OBVIOUS
<1>3. total' = [total EXCEPT ![t] = w] /\ byte_count[k] \in Nat
  BY <1>1, <1>2 DEF MetricsBytes, Shape
<1>4. w \in Totals /\ w.next = v.next /\ w.bytes = v.bytes + byte_count[k] /\ w.entries = v.entries
  BY <1>2, <1>3, BytesOnTop
<1> QED
  BY <1>1, <1>3, <1>4 DEF Shape

\* cache_metrics adds the entries of the next cell.
LEMMA MetricsEntriesAdd ==
    ASSUME Shape, NEW t \in Threads, MetricsEntries(t), total[t].next \in Cells
    PROVE  /\ total' \in [Threads -> Totals] /\ total'[t].next = total[t].next + 1
           /\ total'[t].bytes = total[t].bytes
           /\ total'[t].entries = total[t].entries + entry_count[total[t].next]
<1>1. PICK v \in Totals, k \in Cells : v = total[t] /\ k = total[t].next
  BY DEF Shape
<1>2. PICK j \in 0 .. CellCount : j = k + 1
  BY Constants
<1>3. PICK w : w = [bytes |-> v.bytes, entries |-> v.entries + entry_count[k], next |-> j]
  OBVIOUS
<1>4. total' = [total EXCEPT ![t] = w] /\ entry_count[k] \in Nat
  <2>1. PICK x : x = [v EXCEPT !.entries = v.entries + entry_count[k]]
    OBVIOUS
  <2>2. w = [x EXCEPT !.next = j]
    <3>1. v.entries + entry_count[k] \in Nat /\ v.bytes \in Nat
      BY <1>1 DEF Totals, Shape
    <3>2. x \in Totals /\ x.bytes = v.bytes /\ x.entries = v.entries + entry_count[k]
      BY <2>1, <3>1 DEF Totals
    <3>3. PICK y : y = [x EXCEPT !.next = j]
      OBVIOUS
    <3>4. y \in Totals /\ y.bytes = v.bytes /\ y.entries = v.entries + entry_count[k] /\ y.next = j
      BY <3>2, <3>3 DEF Totals
    <3> QED
      BY <1>3, <3>3, <3>4 DEF Totals
  <2> QED
    BY <1>1, <1>2, <2>1, <2>2 DEF MetricsEntries, Shape
<1>5. w \in Totals /\ w.next = j /\ w.bytes = v.bytes /\ w.entries = v.entries + entry_count[k]
  BY <1>3, <1>4, EntriesOnTop
<1> QED
  BY <1>1, <1>2, <1>4, <1>5 DEF Shape

\* A step that leaves the cells as they are.
LEMMA CellsUnchanged ==
    ASSUME LockInv, UNCHANGED <<dir, data, entry_count, byte_count>>
    PROVE  \A k \in Cells : CellInv(k)'
BY CellUnchanged DEF LockInv

\* A step that takes a mutex.
LEMMA LocksLockInv ==
    ASSUME LockInv, NEW t \in Threads, Locks(t)
    PROVE  LockInv'
<1>0. Shape /\ FlowInv(t) /\ WorkInv(t)
  BY DEF LockInv
<1>1. Elsewhere(t) /\ UNCHANGED <<dir, data, entry_count, byte_count, gone, todo, hit, added>>
  BY LocksElsewhere
<1>2. \A k \in Cells : CellInv(k)'
  BY <1>1, CellsUnchanged
<1>3. kept' = kept /\ seen' = seen
  BY DEF Locks, AddLocked, GetFound, MetricsBytes, history
<1>4. PICK h : h = Home(t)
  OBVIOUS
<1>5. CASE AddLocked(t)
  <2>1. h \in Cells /\ todo[t] # <<>> /\ Call(t).op = "stream" /\ Chunk(t) \notin Held(h)
    BY <1>0, <1>4, <1>5, CallFacts DEF AddLocked, Running, Present, Home
  <2>2. Call(t)' = Call(t) /\ Chunk(t)' = Chunk(t) /\ Home(t)' = h /\ pc'[t] = "evict"
        /\ pc' \in [Threads -> Labels]
    BY <1>0, <1>1, <1>4, <1>5, SameCall DEF AddLocked, Labels
  <2>3. lock' \in [Cells -> Threads \cup {NoThread}] /\ lock'[h] = t
    BY <1>0, <1>4, <1>5, <2>1 DEF AddLocked, Acquire, Shape
  <2>4. slot' = slot /\ total' = total
    BY <1>5 DEF AddLocked
  <2>5. Shape'
    BY <1>0, <1>1, <1>3, <2>2, <2>3, <2>4 DEF Shape
  <2>6. FlowInv(t)'
    BY <1>1, <2>1, <2>2, <2>3 DEF FlowInv, Working, Adding, Counting
  <2>7. gone[t] = {} /\ Held(h)' = Held(h)
    BY <1>0, <1>1, <1>5 DEF AddLocked, WorkInv, Held
  <2>8. WorkInv(t)'
    BY <1>1, <2>1, <2>2, <2>7 DEF WorkInv
  <2> QED
    BY <1>1, <1>2, <2>5, <2>6, <2>8, LockInvStep
<1>6. CASE GetFound(t)
  <2>1. h \in Cells /\ todo[t] # <<>> /\ Call(t).op = "get" /\ Chunk(t) \in Held(h)
    BY <1>0, <1>4, <1>6, CallFacts DEF GetFound, Running, Present, Home
  <2>2. Call(t)' = Call(t) /\ Chunk(t)' = Chunk(t) /\ Home(t)' = h /\ pc'[t] = "copy"
        /\ pc' \in [Threads -> Labels]
    BY <1>0, <1>1, <1>4, <1>6, SameCall DEF GetFound, Labels
  <2>3. lock' \in [Cells -> Threads \cup {NoThread}] /\ lock'[h] = t
    BY <1>0, <1>4, <1>6, <2>1 DEF GetFound, Acquire, Shape
  <2>4. total' = total /\ slot' = [slot EXCEPT ![t] = dir[h][Chunk(t)]]
    BY <1>4, <1>6 DEF GetFound
  <2>5. slot' \in [Threads -> Nat] /\ slot'[t] = dir[h][Chunk(t)]
    <3>1. dir[h][Chunk(t)] \in Nat
      BY <2>1, Constants DEF LockInv, CellInv
    <3> QED
      BY <1>0, <2>4, <3>1 DEF Shape
  <2>6. Shape'
    BY <1>0, <1>1, <1>3, <2>2, <2>3, <2>4, <2>5 DEF Shape
  <2>7. FlowInv(t)'
    BY <1>1, <2>1, <2>2, <2>3 DEF FlowInv, Working, Adding, Counting
  <2>8. gone[t] = {} /\ Held(h)' = Held(h)
    BY <1>0, <1>1, <1>6 DEF GetFound, WorkInv, Held
  <2>9. WorkInv(t)'
    BY <1>1, <2>1, <2>2, <2>5, <2>8 DEF WorkInv
  <2> QED
    BY <1>1, <1>2, <2>6, <2>7, <2>9, LockInvStep
<1>7. CASE MetricsBytes(t)
  <2>1. PICK k \in Cells : k = total[t].next
    BY <1>7 DEF MetricsBytes
  <2>2. Call(t)' = Call(t) /\ pc'[t] = "entries"
        /\ pc' \in [Threads -> Labels]
    BY <1>0, <1>1, <1>7, SameCall DEF MetricsBytes, Labels
  <2>3. lock' \in [Cells -> Threads \cup {NoThread}] /\ lock'[k] = t
    BY <1>0, <1>7, <2>1 DEF MetricsBytes, Acquire, Shape
  <2>4. slot' = slot
    BY <1>7 DEF MetricsBytes
  <2>5. total' \in [Threads -> Totals] /\ total'[t].next = k
    BY <1>0, <1>7, <2>1, MetricsBytesAdd
  <2>6. Shape'
    BY <1>0, <1>1, <1>3, <2>2, <2>3, <2>4, <2>5 DEF Shape
  <2>7. pc[t] = "bytes" /\ todo[t] # <<>> /\ Call(t).op = "metrics"
    BY <1>0, <1>7 DEF MetricsBytes, FlowInv
  <2>8. FlowInv(t)'
    BY <1>1, <2>2, <2>3, <2>5, <2>7 DEF FlowInv, Working, Adding, Counting
  <2>9. WorkInv(t)'
    BY <1>0, <1>1, <2>2, <2>7 DEF WorkInv
  <2> QED
    BY <1>1, <1>2, <2>6, <2>8, <2>9, LockInvStep
<1> QED
  BY <1>5, <1>6, <1>7 DEF Locks

\* The copy of a found chunk, and the second half of a cell's metrics.
LEMMA UnlocksLockInv ==
    ASSUME LockInv, NEW t \in Threads, GetCopy(t) \/ MetricsEntries(t)
    PROVE  LockInv'
<1>0. Shape /\ FlowInv(t) /\ WorkInv(t)
  BY DEF LockInv
<1>1. Elsewhere(t)
  BY StepElsewhere DEF Step
<1>2. UNCHANGED <<dir, data, entry_count, byte_count, gone, slot, hit, added, kept, seen>>
  BY DEF GetCopy, MetricsEntries, cell, counters, history
<1>3. \A k \in Cells : CellInv(k)'
  BY <1>2, CellsUnchanged
<1>4. pc[t] \in {"copy", "entries"} /\ gone[t] = {}
  BY <1>0 DEF GetCopy, MetricsEntries, WorkInv
<1>5. CASE GetCopy(t)
  <2>1. Home(t) \in Cells /\ todo[t] # <<>>
    BY <1>5, WorkFacts DEF GetCopy, Working
  <2>2. /\ todo' \in [Threads -> Seq(Calls)] /\ pc'[t] = "call"
        /\ pc' \in [Threads -> Labels]
    BY <1>0, <1>5, <2>1, NextCall DEF GetCopy
  <2>3. lock' \in [Cells -> Threads \cup {NoThread}] /\ total' = total
    BY <1>0, <1>5, <2>1 DEF GetCopy, Unlock, Shape
  <2>4. Shape'
    BY <1>0, <1>2, <2>2, <2>3 DEF Shape
  <2>5. FlowInv(t)'
    BY <2>2 DEF FlowInv, Working, Adding, Counting
  <2>6. WorkInv(t)'
    BY <1>2, <1>4, <2>2 DEF WorkInv
  <2> QED
    BY <1>1, <1>3, <2>4, <2>5, <2>6, LockInvStep
<1>6. CASE MetricsEntries(t)
  <2>1. PICK k \in Cells : k = total[t].next
    BY <1>0, <1>6 DEF MetricsEntries, FlowInv
  <2>2. todo' = todo /\ Goto(t, "bytes")
    BY <1>6 DEF MetricsEntries
  <2>3. Call(t)' = Call(t) /\ pc'[t] = "bytes"
        /\ pc' \in [Threads -> Labels]
    BY <1>0, <2>2, SameCall DEF Labels
  <2>4. lock' \in [Cells -> Threads \cup {NoThread}]
    BY <1>0, <1>6, <2>1 DEF MetricsEntries, Unlock, Shape
  <2>6. total' \in [Threads -> Totals]
    BY <1>0, <1>6, <2>1, MetricsEntriesAdd
  <2>7. Shape'
    BY <1>0, <1>2, <2>2, <2>3, <2>4, <2>6 DEF Shape
  <2>8. pc[t] = "entries" /\ todo[t] # <<>> /\ Call(t).op = "metrics"
    BY <1>0, <1>6 DEF MetricsEntries, FlowInv
  <2>9. FlowInv(t)'
    BY <2>2, <2>3, <2>8 DEF FlowInv, Working, Adding, Counting
  <2>10. WorkInv(t)'
    BY <1>2, <1>4, <2>3 DEF WorkInv
  <2> QED
    BY <1>1, <1>3, <2>7, <2>9, <2>10, LockInvStep
<1> QED
  BY <1>5, <1>6


\* A directory is a function on a set of chunks.
LEMMA DirFacts ==
    ASSUME LockInv, NEW k \in Cells
    PROVE  /\ Held(k) \in SUBSET Chunks /\ dir[k] \in [Held(k) -> Nat]
           /\ CellInv(k) /\ IsFiniteSet(Held(k))
<1>1. CellInv(k) /\ dir[k] \in Dirs
  BY DEF LockInv, Shape
<1>2. Held(k) \in SUBSET Chunks
  BY <1>1 DEF CellInv, Mine
<1>3. dir[k] \in [Held(k) -> Nat]
  BY <1>1 DEF Dirs, Held
<1> QED
  BY <1>1, <1>2, <1>3, ChunksFinite

\* Chunks that make way leave a consistent cell.
LEMMA RemoveAllFacts ==
    ASSUME LockInv, NEW k \in Cells, NEW S \in SUBSET Held(k), RemoveAll(k, S)
    PROVE  /\ Held(k)' = Held(k) \ S
           /\ \A c \in Held(k) \ S : dir'[k][c] = dir[k][c]
           /\ \A j \in Cells : j # k => dir'[j] = dir[j]
           /\ dir' \in [Cells -> Dirs] /\ data' = data
           /\ entry_count' \in [Cells -> Nat] /\ byte_count' \in [Cells -> Nat]
           /\ \A j \in Cells : CellInv(j)'
           /\ kept' \in [Threads -> SUBSET Chunks] /\ seen' = seen
<1>1. /\ Held(k) \in SUBSET Chunks /\ dir[k] \in [Held(k) -> Nat] /\ CellInv(k) /\ Shape
  BY DirFacts DEF LockInv
<1>2. PICK R : R = Held(k) \ S
  OBVIOUS
<1>3. PICK d : d = [c \in R |-> dir[k][c]]
  OBVIOUS
<1>4. d \in [R -> Nat] /\ R \in SUBSET Chunks /\ (\A c \in R : d[c] = dir[k][c]) /\ DOMAIN d = R
  BY <1>1, <1>2, <1>3
<1>5. dir' = [dir EXCEPT ![k] = d]
  BY <1>2, <1>3 DEF RemoveAll, Restrict
<1>6. dir'[k] = d /\ (\A j \in Cells : j # k => dir'[j] = dir[j])
  BY <1>1, <1>5 DEF Shape
<1>7. dir' \in [Cells -> Dirs]
  <2>1. d \in Dirs
    BY <1>4 DEF Dirs
  <2> QED
    BY <1>1, <1>5, <2>1 DEF Shape
<1>8. data' = data /\ seen' = seen
  BY DEF RemoveAll
<1>9. Held(k)' = R
  BY <1>4, <1>6 DEF Held
<1>10. /\ Cardinality(R) = entry_count[k] - Cardinality(S) /\ Cardinality(R) \in Nat
       /\ Size(R) = byte_count[k] - Size(S) /\ Size(R) \in Nat
  <2>1. Size(R) = Size(Held(k)) - Size(S) /\ Cardinality(R) = Cardinality(Held(k)) - Cardinality(S)
    BY <1>1, <1>2, SizeRest
  <2> QED
    BY <1>1, <1>4, <2>1, SizeType, ChunksFinite DEF CellInv
<1>11. /\ entry_count' = [entry_count EXCEPT ![k] = Cardinality(R)]
       /\ byte_count' = [byte_count EXCEPT ![k] = Size(R)]
  <2>1. /\ entry_count' = [entry_count EXCEPT ![k] = entry_count[k] - Cardinality(S)]
        /\ byte_count' = [byte_count EXCEPT ![k] = byte_count[k] - Size(S)]
    BY DEF RemoveAll
  <2> QED
    BY <1>10, <2>1
<1>12. entry_count' \in [Cells -> Nat] /\ byte_count' \in [Cells -> Nat]
  BY <1>1, <1>10, <1>11 DEF Shape
<1>13. ASSUME NEW j \in Cells PROVE CellInv(j)'
  <2>1. CASE j = k
    <3>1. entry_count'[k] = Cardinality(R) /\ byte_count'[k] = Size(R)
      BY <1>1, <1>11 DEF Shape
    <3>2. R \subseteq Mine(k) /\ data[k] \in Bodies(k)
      BY <1>1, <1>2 DEF CellInv
    <3>3. \A c \in R : dir'[k][c] \in 1 .. Room[k] /\ data[k][dir'[k][c]] = c
      BY <1>1, <1>2, <1>4, <1>6 DEF CellInv
    <3>4. CellInv(k)'
      BY <1>8, <1>9, <3>1, <3>2, <3>3 DEF CellInv
    <3> QED
      BY <2>1, <3>4
  <2>2. CASE j # k
    <3>1. entry_count'[j] = entry_count[j] /\ byte_count'[j] = byte_count[j]
      BY <1>1, <1>11, <2>2 DEF Shape
    <3> QED
      BY <1>6, <1>8, <2>2, <3>1, CellUnchanged DEF LockInv
  <2> QED
    BY <2>1, <2>2
<1>14. kept' \in [Threads -> SUBSET Chunks]
  BY <1>1 DEF RemoveAll, Shape
<1> QED
  BY <1>2, <1>4, <1>6, <1>7, <1>8, <1>9, <1>12, <1>13, <1>14


\* The eviction before a write: the slot is free, and the chunk is not there.
LEMMA EvictLockInv ==
    ASSUME LockInv, NEW t \in Threads, Evict(t)
    PROVE  LockInv'
<1>0. Shape /\ FlowInv(t) /\ WorkInv(t) /\ pc[t] = "evict"
  BY DEF LockInv, Evict
<1>1. Elsewhere(t)
  BY ChangesElsewhere DEF Changes
<1>2. PICK h \in Cells, c \in Chunks : h = Home(t) /\ c = Chunk(t)
  BY <1>0, WorkFacts DEF Working
<1>3. PICK s \in 1 .. Room[h], S \in SUBSET Held(h) :
        /\ MakesRoom(h, s, S) /\ RemoveAll(h, S)
        /\ slot' = [slot EXCEPT ![t] = s] /\ gone' = [gone EXCEPT ![t] = S]
  BY <1>2 DEF Evict
<1>4. /\ Held(h)' = Held(h) \ S
      /\ \A d \in Held(h) \ S : dir'[h][d] = dir[h][d]
      /\ dir' \in [Cells -> Dirs] /\ data' = data
      /\ entry_count' \in [Cells -> Nat] /\ byte_count' \in [Cells -> Nat]
      /\ \A j \in Cells : CellInv(j)'
      /\ kept' \in [Threads -> SUBSET Chunks] /\ seen' = seen
  BY <1>3, RemoveAllFacts
<1>5. UNCHANGED <<lock, todo, hit, added, total>> /\ Goto(t, "write")
  BY DEF Evict, counters
<1>6. Call(t)' = Call(t) /\ Chunk(t)' = c /\ Home(t)' = h /\ pc'[t] = "write"
      /\ pc' \in [Threads -> Labels]
  BY <1>0, <1>2, <1>5, SameCall DEF Labels
<1>7. S \subseteq Mine(h) /\ c \notin Held(h) /\ Held(h) \subseteq Chunks
  BY <1>0, <1>2, <1>3, DirFacts DEF WorkInv, CellInv
<1>8. slot' \in [Threads -> Nat] /\ gone' \in [Threads -> SUBSET Chunks]
      /\ slot'[t] = s /\ gone'[t] = S
  BY <1>0, <1>3, <1>7, Constants DEF Shape
<1>9. Shape'
  BY <1>0, <1>4, <1>5, <1>6, <1>8 DEF Shape
<1>10. FlowInv(t)'
  BY <1>0, <1>2, <1>5, <1>6 DEF FlowInv, Working, Adding, Counting
<1>11. \A d \in Held(h) \ S : dir'[h][d] # s
  BY <1>3, <1>4 DEF MakesRoom, At
<1>12. WorkInv(t)'
  <2>1. c \notin Held(h) \ S /\ S \subseteq Mine(h) \ ((Held(h) \ S) \cup {c})
    BY <1>3, <1>7
  <2> QED
    BY <1>3, <1>4, <1>6, <1>8, <1>11, <2>1 DEF WorkInv
<1> QED
  BY <1>1, <1>4, <1>9, <1>10, <1>12, LockInvStep

\* The write: nothing of the directory points to the slot.
LEMMA WriteLockInv ==
    ASSUME LockInv, NEW t \in Threads, WriteChunk(t)
    PROVE  LockInv'
<1>0. Shape /\ FlowInv(t) /\ WorkInv(t) /\ pc[t] = "write"
  BY DEF LockInv, WriteChunk
<1>1. Elsewhere(t)
  BY ChangesElsewhere DEF Changes
<1>2. PICK h \in Cells, c \in Chunks : h = Home(t) /\ c = Chunk(t)
  BY <1>0, WorkFacts DEF Working
<1>3. PICK s \in 1 .. Room[h] : s = slot[t] /\ \A d \in Held(h) : dir[h][d] # s
  BY <1>0, <1>2 DEF WorkInv
<1>4. UNCHANGED <<dir, entry_count, byte_count, lock, todo, slot, gone, hit, added, total,
                  kept, seen>> /\ Goto(t, "index")
  BY DEF WriteChunk, counters, history
<1>5. PICK b : b = [data[h] EXCEPT ![s] = c]
  OBVIOUS
<1>6. data' = [data EXCEPT ![h] = b]
  BY <1>2, <1>3, <1>5 DEF WriteChunk
<1>7. CellInv(h) /\ data[h] \in Bodies(h)
  BY DirFacts DEF CellInv
<1>8. b \in Bodies(h) /\ b[s] = c /\ \A i \in 1 .. Room[h] : i # s => b[i] = data[h][i]
  BY <1>5, <1>7 DEF Bodies
<1>9. data' \in [Cells -> AnyBody] /\ data'[h] = b /\ \A j \in Cells : j # h => data'[j] = data[j]
  <2>1. b \in AnyBody
    BY <1>8, Constants DEF Bodies, AnyBody
  <2> QED
    BY <1>0, <1>6, <2>1 DEF Shape
<1>10. Call(t)' = Call(t) /\ Chunk(t)' = c /\ Home(t)' = h /\ pc'[t] = "index"
      /\ pc' \in [Threads -> Labels]
  BY <1>0, <1>2, <1>4, SameCall DEF Labels
<1>11. Held(h)' = Held(h)
  BY <1>4 DEF Held
<1>12. ASSUME NEW j \in Cells PROVE CellInv(j)'
  <2>1. CASE j = h
    <3>1. \A d \in Held(h) : dir[h][d] \in 1 .. Room[h] /\ b[dir[h][d]] = d
      BY <1>3, <1>7, <1>8 DEF CellInv
    <3>2. CellInv(h)'
      BY <1>4, <1>7, <1>8, <1>9, <1>11, <3>1 DEF CellInv
    <3> QED
      BY <2>1, <3>2
  <2>2. CASE j # h
    BY <1>4, <1>9, <2>2, CellUnchanged DEF LockInv
  <2> QED
    BY <2>1, <2>2
<1>13. Shape'
  BY <1>0, <1>4, <1>9, <1>10 DEF Shape
<1>14. FlowInv(t)'
  BY <1>0, <1>2, <1>4, <1>10 DEF FlowInv, Working, Adding, Counting
<1>15. WorkInv(t)'
  BY <1>0, <1>2, <1>3, <1>4, <1>8, <1>9, <1>10, <1>11 DEF WorkInv
<1> QED
  BY <1>1, <1>12, <1>13, <1>14, <1>15, LockInvStep

\* What the return of an addition leaves.
LEMMA AddReturnsFacts ==
    ASSUME LockInv, NEW t \in Threads, AddReturns(t), pc[t] \in {"evict", "index"}
    PROVE  /\ lock' \in [Cells -> Threads \cup {NoThread}]
           /\ pc'[t] = "added" /\ pc' \in [Threads -> Labels]
           /\ UNCHANGED <<todo, hit, added, total>> /\ FlowInv(t)'
<1>0. Shape /\ FlowInv(t)
  BY DEF LockInv
<1>1. Home(t) \in Cells /\ todo[t] # <<>> /\ Call(t).op = "stream"
  BY <1>0, WorkFacts DEF Working, FlowInv, Adding
<1>2. UNCHANGED <<todo, hit, added, total>>
  BY DEF AddReturns, counters
<1>3. Call(t)' = Call(t) /\ pc'[t] = "added" /\ pc' \in [Threads -> Labels]
  BY <1>0, <1>2, SameCall DEF AddReturns, Labels
<1>4. lock' \in [Cells -> Threads \cup {NoThread}]
  BY <1>0, <1>1 DEF AddReturns, Unlock, Shape
<1>5. FlowInv(t)'
  BY <1>1, <1>2, <1>3 DEF FlowInv, Working
<1> QED
  BY <1>2, <1>3, <1>4, <1>5

\* An addition that fails for lack of room.
LEMMA DroppedLockInv ==
    ASSUME LockInv, NEW t \in Threads, AddDropped(t)
    PROVE  LockInv'
<1>0. Shape /\ FlowInv(t) /\ WorkInv(t) /\ pc[t] = "evict" /\ AddReturns(t)
  BY DEF LockInv, AddDropped
<1>1. Elsewhere(t)
  BY ChangesElsewhere DEF Changes
<1>2. PICK h \in Cells : h = Home(t)
  BY <1>0, WorkFacts DEF Working
<1>3. PICK S \in SUBSET Held(h) : RemoveAll(h, S)
  BY <1>2 DEF AddDropped
<1>4. /\ dir' \in [Cells -> Dirs] /\ data' = data
      /\ entry_count' \in [Cells -> Nat] /\ byte_count' \in [Cells -> Nat]
      /\ \A j \in Cells : CellInv(j)'
      /\ kept' \in [Threads -> SUBSET Chunks] /\ seen' = seen
  BY <1>3, RemoveAllFacts
<1>5. /\ lock' \in [Cells -> Threads \cup {NoThread}]
      /\ pc'[t] = "added" /\ pc' \in [Threads -> Labels]
      /\ UNCHANGED <<todo, hit, added, total>> /\ FlowInv(t)'
  BY <1>0, AddReturnsFacts
<1>6. slot' = slot /\ gone' = gone
  BY DEF AddDropped
<1>7. Shape'
  BY <1>0, <1>4, <1>5, <1>6 DEF Shape
<1>8. WorkInv(t)'
  BY <1>0, <1>5, <1>6 DEF WorkInv
<1> QED
  BY <1>1, <1>4, <1>5, <1>7, <1>8, LockInvStep

\* The entry of the directory, and the counters.
LEMMA IndexFacts ==
    ASSUME LockInv, NEW t \in Threads, IndexChunk(t), NEW h \in Cells, NEW c \in Chunks,
           h = Home(t), c = Chunk(t)
    PROVE  /\ c \notin Held(h) /\ Held(h)' = Held(h) \cup {c}
           /\ \A j \in Cells : j # h => dir'[j] = dir[j]
           /\ dir' \in [Cells -> Dirs] /\ data' = data
           /\ entry_count' \in [Cells -> Nat] /\ byte_count' \in [Cells -> Nat]
           /\ \A j \in Cells : CellInv(j)'
<1>1. /\ Held(h) \in SUBSET Chunks /\ dir[h] \in [Held(h) -> Nat] /\ CellInv(h) /\ Shape
      /\ IsFiniteSet(Held(h)) /\ WorkInv(t) /\ pc[t] = "index"
  BY DirFacts DEF LockInv, IndexChunk
<1>2. PICK s \in 1 .. Room[h] : s = slot[t] /\ data[h][s] = c
  BY <1>1 DEF WorkInv
<1>3. c \notin Held(h)
  BY <1>1 DEF WorkInv
<1>4. PICK d : d = [e \in Held(h) \cup {c} |-> IF e = c THEN s ELSE dir[h][e]]
  OBVIOUS
<1>5. PICK R : R = Held(h) \cup {c}
  OBVIOUS
<1>6. /\ d \in [R -> Nat] /\ R \in SUBSET Chunks /\ DOMAIN d = R /\ d[c] = s
      /\ \A e \in Held(h) : d[e] = dir[h][e]
  BY <1>1, <1>3, <1>4, <1>5, Constants
<1>7. dir' = [dir EXCEPT ![h] = d]
  BY <1>2, <1>4 DEF IndexChunk
<1>8. dir'[h] = d /\ (\A j \in Cells : j # h => dir'[j] = dir[j])
  BY <1>1, <1>7 DEF Shape
<1>9. dir' \in [Cells -> Dirs]
  <2>1. d \in Dirs
    BY <1>6 DEF Dirs
  <2> QED
    BY <1>1, <1>7, <2>1 DEF Shape
<1>10. Held(h)' = R
  BY <1>6, <1>8 DEF Held
<1>11. /\ Cardinality(R) = entry_count[h] + 1 /\ Cardinality(R) \in Nat
       /\ Size(R) = byte_count[h] + SizeOf[c] /\ Size(R) \in Nat
  <2>1. Cardinality(R) = Cardinality(Held(h)) + 1
    BY <1>1, <1>3, <1>5, FS_AddElement
  <2>2. Size(R) = Size(Held(h)) + SizeOf[c]
    <3>1. Held(h) \cap {c} = {} /\ {c} \in SUBSET Chunks
      BY <1>3
    <3> QED
      BY <1>1, <1>5, <3>1, SizeUnion, SizeOne
  <2> QED
    BY <1>1, <1>6, <2>1, <2>2, SizeType, ChunksFinite DEF CellInv
<1>12. /\ entry_count' = [entry_count EXCEPT ![h] = Cardinality(R)]
       /\ byte_count' = [byte_count EXCEPT ![h] = Size(R)] /\ data' = data
  <2>1. /\ entry_count' = [entry_count EXCEPT ![h] = entry_count[h] + 1]
        /\ byte_count' = [byte_count EXCEPT ![h] = byte_count[h] + SizeOf[c]] /\ data' = data
    BY DEF IndexChunk
  <2> QED
    BY <1>11, <2>1
<1>13. entry_count' \in [Cells -> Nat] /\ byte_count' \in [Cells -> Nat]
  BY <1>1, <1>11, <1>12 DEF Shape
<1>14. ASSUME NEW j \in Cells PROVE CellInv(j)'
  <2>1. CASE j = h
    <3>1. entry_count'[h] = Cardinality(R) /\ byte_count'[h] = Size(R)
      BY <1>1, <1>12 DEF Shape
    <3>2. R \subseteq Mine(h) /\ data[h] \in Bodies(h)
      <4>1. c \in Mine(h)
        BY DEF Mine, Home
      <4> QED
        BY <1>1, <1>5, <4>1 DEF CellInv
    <3>3. \A e \in R : d[e] \in 1 .. Room[h] /\ data[h][d[e]] = e
      BY <1>1, <1>2, <1>5, <1>6 DEF CellInv
    <3>4. CellInv(h)'
      BY <1>8, <1>10, <1>12, <3>1, <3>2, <3>3 DEF CellInv
    <3> QED
      BY <2>1, <3>4
  <2>2. CASE j # h
    <3>1. entry_count'[j] = entry_count[j] /\ byte_count'[j] = byte_count[j]
      BY <1>1, <1>12, <2>2 DEF Shape
    <3> QED
      BY <1>8, <1>12, <2>2, <3>1, CellUnchanged DEF LockInv
  <2> QED
    BY <2>1, <2>2
<1> QED
  BY <1>3, <1>5, <1>8, <1>9, <1>10, <1>12, <1>13, <1>14

\* Entering the chunk in the directory keeps what the locks guard.
LEMMA IndexLockInv ==
    ASSUME LockInv, NEW t \in Threads, IndexChunk(t)
    PROVE  LockInv'
<1>0. Shape /\ FlowInv(t) /\ WorkInv(t) /\ pc[t] = "index" /\ AddReturns(t)
  BY DEF LockInv, IndexChunk
<1>1. Elsewhere(t)
  BY ChangesElsewhere DEF Changes
<1>2. PICK h \in Cells, c \in Chunks : h = Home(t) /\ c = Chunk(t)
  BY <1>0, WorkFacts DEF Working
<1>3. /\ dir' \in [Cells -> Dirs] /\ data' = data
      /\ entry_count' \in [Cells -> Nat] /\ byte_count' \in [Cells -> Nat]
      /\ \A j \in Cells : CellInv(j)'
  BY <1>2, IndexFacts
<1>4. /\ lock' \in [Cells -> Threads \cup {NoThread}]
      /\ pc'[t] = "added" /\ pc' \in [Threads -> Labels]
      /\ UNCHANGED <<todo, hit, added, total>> /\ FlowInv(t)'
  BY <1>0, AddReturnsFacts
<1>5. slot' = slot /\ kept' = kept /\ gone' \in [Threads -> SUBSET Chunks] /\ gone'[t] = {}
  BY <1>0 DEF IndexChunk, Shape
<1>6. seen' \in [Threads -> SUBSET Chunks]
  BY <1>0, <1>2 DEF IndexChunk, Shape
<1>7. Shape'
  BY <1>0, <1>3, <1>4, <1>5, <1>6 DEF Shape
<1>8. WorkInv(t)'
  BY <1>4, <1>5 DEF WorkInv
<1> QED
  BY <1>1, <1>3, <1>4, <1>7, <1>8, LockInvStep

\* Every step keeps what the locks guard.
LEMMA StepLockInv ==
    ASSUME LockInv, NEW t \in Threads, Step(t)
    PROVE  LockInv'
BY StepIs, LooksLockInv, LocksLockInv, UnlocksLockInv, EvictLockInv, WriteLockInv,
   IndexLockInv, DroppedLockInv DEF Changes


\* An empty cache.
LEMMA InitLockInv == Init => LockInv
<1> SUFFICES ASSUME Init PROVE LockInv
  OBVIOUS
<1>1. \A k \in Cells : dir[k] = <<>> /\ Held(k) = {}
  BY DEF Init, Held
<1>2. <<>> \in Dirs
  <2>1. <<>> \in [{} -> Nat]
    OBVIOUS
  <2> QED
    BY <2>1 DEF Dirs
<1>3. dir \in [Cells -> Dirs]
  BY <1>2 DEF Init
<1>4. ASSUME NEW k \in Cells PROVE data[k] \in Bodies(k) /\ data[k] \in AnyBody
  <2>1. data[k] = [s \in 1 .. Room[k] |-> NoChunk] /\ Room[k] \in Nat
    BY Constants DEF Init
  <2> QED
    BY <2>1 DEF Bodies, AnyBody
<1>5. data \in [Cells -> AnyBody]
  BY <1>4 DEF Init
<1>6. total \in [Threads -> Totals]
  <2>1. NoTotal \in Totals
    BY Constants DEF NoTotal, Totals
  <2> QED
    BY <2>1 DEF Init
<1>7. Shape
  BY <1>3, <1>5, <1>6, Constants DEF Init, Shape, Labels
<1>8. ASSUME NEW k \in Cells PROVE CellInv(k)
  <2>1. entry_count[k] = 0 /\ byte_count[k] = 0
    BY DEF Init
  <2> QED
    BY <1>1, <1>4, <2>1, SizeEmpty, FS_EmptySet DEF CellInv
<1>9. \A t \in Threads : pc[t] = "call" /\ gone[t] = {}
  BY DEF Init
<1>10. \A t \in Threads : FlowInv(t) /\ WorkInv(t)
  BY <1>9 DEF FlowInv, WorkInv, Working, Adding, Counting
<1> QED
  BY <1>7, <1>8, <1>10 DEF LockInv

\* A step that changes nothing.
LEMMA StutterLockInv ==
    ASSUME LockInv, UNCHANGED vars
    PROVE  LockInv'
<1>1. UNCHANGED <<dir, data, entry_count, byte_count, lock, pc, todo, slot, gone, hit, added,
                  total, kept, seen>>
  BY DEF vars, cell, counters, history
<1>2. Shape'
  BY <1>1 DEF LockInv, Shape
<1>3. \A k \in Cells : CellInv(k)'
  BY <1>1, CellsUnchanged
<1>4. ASSUME NEW t \in Threads PROVE FlowInv(t)' /\ WorkInv(t)'
  <2>1. FlowInv(t) /\ WorkInv(t)
    BY DEF LockInv
  <2>2. Call(t)' = Call(t) /\ Chunk(t)' = Chunk(t) /\ Home(t)' = Home(t)
        /\ Held(Home(t))' = Held(Home(t))
    BY <1>1 DEF Call, Chunk, Home, Held
  <2> QED
    BY <1>1, <2>1, <2>2 DEF FlowInv, WorkInv
<1> QED
  BY <1>2, <1>3, <1>4 DEF LockInv

\* What the locks guard holds always.
LEMMA LockInvHolds == Spec => []LockInv
<1>1. LockInv /\ [Next]_vars => LockInv'
  BY StepLockInv, StutterLockInv DEF Next
<1> QED
  BY InitLockInv, <1>1, PTL DEF Spec

\* Type correctness.
THEOREM CacheTypeOK == Spec => []TypeOK
<1>1. LockInv => TypeOK
  <2> SUFFICES ASSUME LockInv PROVE TypeOK
    OBVIOUS
  <2>1. ASSUME NEW k \in Cells
        PROVE  /\ Held(k) \subseteq {c \in Chunks : CellOf(c) = k}
               /\ \A c \in Held(k) : dir[k][c] \in 1 .. Room[k]
               /\ data[k] \in [1 .. Room[k] -> Chunks \cup {NoChunk}]
    BY DEF LockInv, CellInv, Mine, Bodies
  <2>2. \A t \in Threads : todo[t] \in Seq(Calls) /\ gone[t] \subseteq Chunks
    BY DEF LockInv, Shape
  <2>3. \A t \in Threads : pc[t] # "call" => todo[t] # <<>>
    BY DEF LockInv, FlowInv
  <2> QED
    BY <2>1, <2>2, <2>3 DEF TypeOK, LockInv, Shape
<1> QED
  BY LockInvHolds, <1>1, PTL

\* Whatever the threads do, a cell whose mutex is free has counters that count its
\* directory, and every entry of the directory leads to the bytes of its chunk.
THEOREM CacheCellsConsistent == Spec => []CellsConsistent
<1>1. LockInv => CellsConsistent
  BY DEF LockInv, CellInv, CellsConsistent
<1> QED
  BY LockInvHolds, <1>1, PTL


-----------------------------------------------------------------------------
(* The sum over the cells                                                  *)

\* What was there throughout, and what was there at all, as a step leaves them.
Watched(u) ==
    /\ kept'[u] \subseteq kept[u] /\ seen[u] \subseteq seen'[u]
    /\ (\A c \in kept[u] : Present(c)) => \A c \in kept'[u] : Present(c)'
    /\ (\A c \in Chunks : Present(c) => c \in seen[u]) =>
            \A c \in Chunks : Present(c)' => c \in seen'[u]

\* Nothing that is in the cache changes.
LEMMA WatchedSame ==
    ASSUME NEW u, dir' = dir, kept'[u] = kept[u], seen'[u] = seen[u]
    PROVE  Watched(u)
<1>1. \A c : Present(c)' <=> Present(c)
  BY DEF Present, Held
<1> QED
  BY <1>1 DEF Watched

\* What is in the cache after chunks of a cell made way.
LEMMA RemovePresent ==
    ASSUME LockInv, NEW k \in Cells, NEW S \in SUBSET Held(k), RemoveAll(k, S),
           NEW c \in Chunks
    PROVE  Present(c)' <=> Present(c) /\ c \notin S
<1>1. Held(k)' = Held(k) \ S /\ \A j \in Cells : j # k => dir'[j] = dir[j]
  BY RemoveAllFacts
<1>2. PICK j \in Cells : j = CellOf(c)
  BY Constants
<1>3. CASE j = k
  BY <1>1, <1>2, <1>3 DEF Present
<1>4. CASE j # k
  <2>1. Held(j)' = Held(j)
    BY <1>1, <1>4 DEF Held
  <2>2. c \notin S
    BY <1>2, <1>4, DirFacts DEF CellInv, Mine
  <2> QED
    BY <1>2, <2>1, <2>2 DEF Present
<1> QED
  BY <1>3, <1>4

\* What a sum over the cells may have seen follows the removal of chunks.
LEMMA WatchedRemoval ==
    ASSUME LockInv, NEW k \in Cells, NEW S \in SUBSET Held(k), RemoveAll(k, S),
           NEW u \in Threads
    PROVE  Watched(u)
<1>1. seen' = seen
  BY RemoveAllFacts
<1>2. kept'[u] = kept[u] \ S /\ kept[u] \in SUBSET Chunks
  BY DEF RemoveAll, LockInv, Shape
<1>3. \A c \in Chunks : Present(c)' <=> Present(c) /\ c \notin S
  BY RemovePresent
<1> QED
  BY <1>1, <1>2, <1>3 DEF Watched

\* What is in the cache after a chunk was entered.
LEMMA IndexPresent ==
    ASSUME LockInv, NEW t \in Threads, IndexChunk(t), NEW d \in Chunks
    PROVE  Present(d)' <=> Present(d) \/ d = Chunk(t)
<1>1. PICK h \in Cells, c \in Chunks : h = Home(t) /\ c = Chunk(t) /\ h = CellOf(c)
  BY WorkFacts DEF IndexChunk, Working
<1>2. Held(h)' = Held(h) \cup {c} /\ \A j \in Cells : j # h => dir'[j] = dir[j]
  BY <1>1, IndexFacts
<1>3. PICK j \in Cells : j = CellOf(d)
  BY Constants
<1>4. CASE j = h
  BY <1>1, <1>2, <1>3, <1>4 DEF Present
<1>5. CASE j # h
  <2>1. Held(j)' = Held(j) /\ d # c
    BY <1>1, <1>2, <1>3, <1>5 DEF Held
  <2> QED
    BY <1>1, <1>3, <2>1 DEF Present
<1> QED
  BY <1>4, <1>5

\* It follows the entry of a chunk.
LEMMA WatchedIndex ==
    ASSUME LockInv, NEW t \in Threads, IndexChunk(t), NEW u \in Threads
    PROVE  Watched(u)
<1>1. kept' = kept /\ seen'[u] = seen[u] \cup {Chunk(t)}
  BY DEF IndexChunk
<1>2. \A d \in Chunks : Present(d)' <=> Present(d) \/ d = Chunk(t)
  BY IndexPresent
<1>3. kept[u] \in SUBSET Chunks
  BY DEF LockInv, Shape
<1> QED
  BY <1>1, <1>2, <1>3 DEF Watched

\* It follows every step.
LEMMA StepWatched ==
    ASSUME LockInv, NEW t \in Threads, Step(t), NEW u \in Threads, u # t \/ ~MetricsBegin(t)
    PROVE  Watched(u)
<1>1. CASE Evict(t)
  <2>1. Home(t) \in Cells
    BY <1>1, WorkFacts DEF Evict, Working
  <2>2. \E S \in SUBSET Held(Home(t)) : RemoveAll(Home(t), S)
    BY <1>1 DEF Evict
  <2> QED
    BY <2>1, <2>2, WatchedRemoval
<1>2. CASE AddDropped(t)
  <2>1. Home(t) \in Cells
    BY <1>2, WorkFacts DEF AddDropped, Working
  <2>2. \E S \in SUBSET Held(Home(t)) : RemoveAll(Home(t), S)
    BY <1>2 DEF AddDropped
  <2> QED
    BY <2>1, <2>2, WatchedRemoval
<1>3. CASE IndexChunk(t)
  BY <1>3, WatchedIndex
<1>4. CASE MetricsBegin(t)
  <2>1. dir' = dir /\ kept'[u] = kept[u] /\ seen'[u] = seen[u]
    BY <1>4 DEF MetricsBegin, cell, LockInv, Shape
  <2> QED
    BY <2>1, WatchedSame
<1>5. CASE ~Evict(t) /\ ~AddDropped(t) /\ ~IndexChunk(t) /\ ~MetricsBegin(t)
  <2>1. dir' = dir /\ kept' = kept /\ seen' = seen
    BY <1>5 DEF Step, HasHit, HasMiss, AddRefused, AddLocked, WriteChunk, CountHit, CountAdded,
                GetMiss, GetFound, GetCopy, CountEntries, CountBytes, MetricsBytes, MetricsEntries, MetricsEnd,
                cell, history
  <2> QED
    BY <2>1, WatchedSame
<1> QED
  BY <1>1, <1>2, <1>3, <1>4, <1>5

\* A sum stays explained by the same chunks.
LEMMA SummedStays ==
    ASSUME NEW u, Watched(u), MetricsInv(u), pc[u] \in {"bytes", "entries"},
           pc'[u] = pc[u], total'[u] = total[u],
           pc[u] = "entries" => byte_count'[total[u].next] = byte_count[total[u].next]
    PROVE  MetricsInv(u)'
<1>1. PICK S : Summed(u, S)
  BY DEF MetricsInv
<1>2. Summed(u, S)'
  <2>1. PICK v : v = total[u]
    OBVIOUS
  <2> QED
    BY <1>1, <2>1 DEF Summed, Watched
<1>3. (\A c \in kept[u] : Present(c)) /\ \A c \in Chunks : Present(c) => c \in seen[u]
  BY DEF MetricsInv
<1>4. (\A c \in kept[u] : Present(c))' /\ (\A c \in Chunks : Present(c) => c \in seen[u])'
  BY <1>3 DEF Watched
<1> QED
  BY <1>2, <1>4 DEF MetricsInv


\* A sum begins with no chunks.
LEMMA BeginMetricsInv ==
    ASSUME LockInv, NEW t \in Threads, MetricsBegin(t)
    PROVE  MetricsInv(t)'
<1>1. PICK H : H = UNION {Held(k) : k \in Cells}
  OBVIOUS
<1>2. kept'[t] = H /\ seen'[t] = H /\ total'[t] = NoTotal /\ dir' = dir /\ pc'[t] = "bytes"
  BY <1>1 DEF MetricsBegin, Goto, LockInv, Shape, cell
<1>3. \A c \in Chunks : Present(c)' <=> Present(c)
  BY <1>2 DEF Present, Held
<1>4. \A c \in Chunks : Present(c) <=> c \in H
  <2>1. ASSUME NEW c \in Chunks, Present(c) PROVE c \in H
    BY <1>1, <2>1, Constants DEF Present
  <2>2. ASSUME NEW c \in Chunks, c \in H PROVE Present(c)
    <3>1. PICK k \in Cells : c \in Held(k)
      BY <1>1, <2>2
    <3>2. CellOf(c) = k
      BY <3>1, DirFacts DEF CellInv, Mine
    <3> QED
      BY <3>1, <3>2 DEF Present
  <2> QED
    BY <2>1, <2>2
<1>5. H \subseteq Chunks
  BY <1>1, DirFacts
<1>6. Summed(t, {})'
  <2>1. total'[t].next = 0 /\ total'[t].entries = 0 /\ total'[t].bytes = 0
    BY <1>2 DEF NoTotal
  <2>2. \A c \in H : ~(CellOf(c) < 0)
    BY <1>5, Constants DEF Cells
  <2> QED
    BY <1>2, <2>1, <2>2, SizeEmpty, FS_EmptySet DEF Summed
<1> QED
  BY <1>2, <1>3, <1>4, <1>5, <1>6 DEF MetricsInv

\* The bytes of a cell are added before its entries.
LEMMA BytesMetricsInv ==
    ASSUME LockInv, NEW t \in Threads, MetricsBytes(t), MetricsInv(t)
    PROVE  MetricsInv(t)'
<1>1. PICK k \in Cells : k = total[t].next /\ pc[t] = "bytes"
  BY DEF MetricsBytes
<1>2. dir' = dir /\ byte_count' = byte_count /\ kept' = kept /\ seen' = seen /\ pc'[t] = "entries"
  BY DEF MetricsBytes, Goto, LockInv, Shape, cell, history
<1>3. PICK S : Summed(t, S)
  BY <1>1 DEF MetricsInv
<1>4. /\ total'[t].next = k /\ total'[t].bytes = total[t].bytes + byte_count[k]
      /\ total'[t].entries = total[t].entries
  BY <1>1, MetricsBytesAdd DEF LockInv
<1>5. total[t].bytes = Size(S) /\ S \in SUBSET Chunks
  <2>1. total[t].bytes = Size(S) + 0 /\ S \in SUBSET seen[t] /\ seen[t] \in SUBSET Chunks
    BY <1>1, <1>3 DEF Summed, LockInv, Shape
  <2> QED
    BY <2>1, SizeType
<1>6. Summed(t, S)'
  BY <1>1, <1>2, <1>3, <1>4, <1>5 DEF Summed
<1>7. \A c : Present(c)' <=> Present(c)
  BY <1>2 DEF Present, Held
<1> QED
  BY <1>1, <1>2, <1>6, <1>7 DEF MetricsInv

\* With its entries, all chunks of the cell are in the sum.
LEMMA EntriesMetricsInv ==
    ASSUME LockInv, NEW t \in Threads, MetricsEntries(t), MetricsInv(t)
    PROVE  MetricsInv(t)'
<1>1. PICK k \in Cells : k = total[t].next /\ pc[t] = "entries"
  BY DEF MetricsEntries, LockInv, FlowInv
<1>2. dir' = dir /\ kept' = kept /\ seen' = seen /\ pc'[t] = "bytes"
  BY DEF MetricsEntries, Goto, LockInv, Shape, cell, history
<1>3. PICK S : Summed(t, S)
  BY <1>1 DEF MetricsInv
<1>4. /\ total'[t].next = k + 1 /\ total'[t].bytes = total[t].bytes
      /\ total'[t].entries = total[t].entries + entry_count[k]
  BY <1>1, MetricsEntriesAdd DEF LockInv
<1>5. /\ S \in SUBSET seen[t] /\ S \in SUBSET Chunks /\ total[t].entries = Cardinality(S)
      /\ total[t].bytes = Size(S) + byte_count[k]
      /\ \A c \in S : CellOf(c) < k
      /\ \A c \in kept[t] : CellOf(c) < k => c \in S
  BY <1>1, <1>3 DEF Summed, LockInv, Shape
<1>6. PICK H : H = Held(k)
  OBVIOUS
<1>7. /\ H \in SUBSET Chunks /\ H \subseteq Mine(k)
      /\ entry_count[k] = Cardinality(H) /\ byte_count[k] = Size(H)
  BY <1>6, DirFacts DEF CellInv
<1>8. S \cap H = {}
  BY <1>5, <1>7, Constants DEF Mine
<1>9. Cardinality(S \cup H) = Cardinality(S) + Cardinality(H)
  BY <1>5, <1>7, <1>8, ChunksFinite, DisjointCount
<1>10. Size(S \cup H) = Size(S) + Size(H) /\ Size(S \cup H) \in Nat
  <2>1. S \cup H \in SUBSET Chunks
    BY <1>5, <1>7
  <2> QED
    BY <1>5, <1>7, <1>8, <2>1, SizeUnion, SizeType
<1>11. (\A c \in kept[t] : Present(c)) /\ \A c \in Chunks : Present(c) => c \in seen[t]
  BY <1>1 DEF MetricsInv
<1>12. S \cup H \in SUBSET seen[t]
  <2>1. \A c \in H : Present(c)
    BY <1>6, <1>7 DEF Present, Mine
  <2> QED
    BY <1>5, <1>7, <1>11, <2>1
<1>13. \A c \in S \cup H : CellOf(c) < k + 1
  BY <1>5, <1>7, Constants DEF Mine, Cells
<1>14. ASSUME NEW c \in kept[t], CellOf(c) < k + 1 PROVE c \in S \cup H
  <2>1. CellOf(c) \in Nat /\ k \in Nat
    <3>1. c \in Chunks
      BY DEF LockInv, Shape
    <3> QED
      BY <3>1, Constants
  <2>2. CASE CellOf(c) < k
    BY <1>5, <2>2
  <2>3. CASE CellOf(c) = k
    BY <1>6, <1>11, <2>3 DEF Present
  <2> QED
    BY <1>14, <2>1, <2>2, <2>3
<1>15. Summed(t, S \cup H)'
  <2>1. total'[t].entries = Cardinality(S \cup H) /\ total'[t].bytes = Size(S \cup H) + 0
    BY <1>4, <1>5, <1>7, <1>9, <1>10
  <2>2. PICK R : R = S \cup H
    OBVIOUS
  <2>3. Summed(t, R)'
    BY <1>2, <1>4, <1>12, <1>13, <1>14, <2>1, <2>2 DEF Summed
  <2> QED
    BY <2>2, <2>3
<1>16. \A c : Present(c)' <=> Present(c)
  BY <1>2 DEF Present, Held
<1> QED
  BY <1>1, <1>2, <1>11, <1>15, <1>16 DEF MetricsInv

\* Any other step leaves its thread outside a sum.
LEMMA OutsideMetrics ==
    ASSUME LockInv, NEW t \in Threads, Step(t), ~MetricsBegin(t), ~MetricsBytes(t),
           ~MetricsEntries(t)
    PROVE  pc'[t] \in Labels \ {"bytes", "entries"}
<1>1. \E l \in {"call", "add", "evict", "write", "index", "added", "hit", "copy"} : Goto(t, l)
  BY Zenon DEF Step, HasHit, HasMiss, AddRefused, AddLocked, Evict, WriteChunk, IndexChunk, AddDropped,
         AddReturns, CountHit, CountAdded, GetMiss, GetFound, GetCopy, CountEntries, CountBytes,
         MetricsEnd, Done
<1> QED
  BY <1>1 DEF Goto, LockInv, Shape, Labels

\* Every step keeps the totals of cache_metrics explained.
LEMMA StepMetricsInv ==
    ASSUME LockInv, NEW t \in Threads, Step(t), NEW u \in Threads, MetricsInv(u)
    PROVE  MetricsInv(u)'
<1>1. CASE u # t
  <2>1. pc'[u] = pc[u] /\ total'[u] = total[u]
    BY <1>1, StepElsewhere DEF Elsewhere
  <2>2. pc[u] = "entries" => byte_count'[total[u].next] = byte_count[total[u].next]
    BY <1>1, StepElsewhere DEF Elsewhere, LockInv, FlowInv
  <2>3. CASE pc[u] \in {"bytes", "entries"}
    BY <1>1, <2>1, <2>2, <2>3, StepWatched, SummedStays
  <2>4. CASE pc[u] \notin {"bytes", "entries"}
    BY <2>1, <2>4 DEF MetricsInv
  <2> QED
    BY <2>3, <2>4
<1>2. CASE u = t
  <2>1. CASE ~MetricsBegin(t) /\ ~MetricsBytes(t) /\ ~MetricsEntries(t)
    <3>1. pc'[t] \notin {"bytes", "entries"}
      BY <2>1, OutsideMetrics
    <3> QED
      BY <1>2, <3>1 DEF MetricsInv
  <2> QED
    BY <1>2, <2>1, BeginMetricsInv, BytesMetricsInv, EntriesMetricsInv
<1> QED
  BY <1>1, <1>2


-----------------------------------------------------------------------------
(* The streamers' counters                                                 *)

\* Thread t counts chunk c as added.
Adds(t, c) == CountAdded(t) /\ Chunk(t) = c

\* Thread t comes back from an addition of chunk c, and will count it.
Back(t, c) == (AddRefused(t) \/ IndexChunk(t)) /\ Chunk(t) = c

\* From a cell with room for all its chunks none ever makes way.
LEMMA RoomyPresent ==
    ASSUME LockInv, NEW t \in Threads, Step(t), NEW c \in Chunks, Roomy(CellOf(c))
    PROVE  Present(c)' <=> Present(c) \/ (IndexChunk(t) /\ Chunk(t) = c)
<1>1. CASE IndexChunk(t)
  BY <1>1, IndexPresent
<1>2. CASE Evict(t) \/ AddDropped(t)
  <2>1. ~IndexChunk(t)
    BY <1>2 DEF Evict, AddDropped, IndexChunk
  <2>2. PICK k \in Cells, j \in Cells : k = Home(t) /\ j = CellOf(c)
    BY <1>2, WorkFacts, Constants DEF Evict, AddDropped, Working
  <2>3. PICK S \in SUBSET Held(k) : RemoveAll(k, S) /\ (Roomy(k) => S = {})
    BY <1>2, <2>2 DEF Evict, AddDropped, MakesRoom
  <2>4. Held(k)' = Held(k) \ S /\ \A i \in Cells : i # k => dir'[i] = dir[i]
    BY <2>3, RemoveAllFacts
  <2>5. Held(j)' = Held(j)
    <3>1. CASE j = k
      BY <2>2, <2>3, <2>4, <3>1
    <3>2. CASE j # k
      BY <2>4, <3>2 DEF Held
    <3> QED
      BY <3>1, <3>2
  <2> QED
    BY <2>1, <2>2, <2>5 DEF Present
<1>3. CASE ~IndexChunk(t) /\ ~Evict(t) /\ ~AddDropped(t)
  <2>1. dir' = dir
    BY <1>3 DEF Step, HasHit, HasMiss, AddRefused, AddLocked, WriteChunk, CountHit, CountAdded,
                GetMiss, GetFound, GetCopy, CountEntries, CountBytes, MetricsBegin, MetricsBytes, MetricsEntries,
                MetricsEnd, cell
  <2> QED
    BY <1>3, <2>1 DEF Present, Held
<1> QED
  BY <1>1, <1>2, <1>3

\* Only a streamer that comes back from an addition counts it.
LEMMA AddedStep ==
    ASSUME LockInv, NEW t \in Threads, Step(t), NEW c \in Chunks, NEW u \in Threads
    PROVE  /\ Adds(t, c) /\ u = t => added'[u][c] = added[u][c] + 1
           /\ ~(Adds(t, c) /\ u = t) => added'[u][c] = added[u][c]
<1>1. added \in [Threads -> [Chunks -> Nat]]
  BY DEF LockInv, Shape
<1>2. CASE CountAdded(t)
  <2>1. Chunk(t) \in Chunks
    BY <1>2, WorkFacts DEF CountAdded, Counting
  <2>2. added' = [added EXCEPT ![t][Chunk(t)] = @ + 1]
    BY <1>2 DEF CountAdded, Count
  <2> QED
    BY <1>1, <1>2, <2>1, <2>2, CountType DEF Adds
<1>3. CASE ~CountAdded(t)
  <2>1. added' = added
    BY <1>3 DEF Step, HasHit, HasMiss, AddRefused, AddLocked, Evict, WriteChunk, IndexChunk,
                AddDropped, AddReturns, CountHit, GetMiss, GetFound, GetCopy, CountEntries,
                CountBytes, MetricsBegin, MetricsBytes, MetricsEntries, MetricsEnd, counters
  <2> QED
    BY <1>3, <2>1 DEF Adds
<1> QED
  BY <1>2, <1>3

\* Only a streamer that found the chunk counts a hit.
LEMMA HitStep ==
    ASSUME LockInv, NEW t \in Threads, Step(t), NEW c \in Chunks, NEW u \in Threads,
           hit'[u][c] # hit[u][c]
    PROVE  pc[t] = "hit" /\ Chunk(t) = c
<1>1. CountHit(t)
  BY DEF Step, HasHit, HasMiss, AddRefused, AddLocked, Evict, WriteChunk, IndexChunk, AddDropped,
         AddReturns, CountAdded, GetMiss, GetFound, GetCopy, CountEntries, CountBytes,
         MetricsBegin, MetricsBytes, MetricsEntries, MetricsEnd, counters
<1>2. pc[t] = "hit" /\ Chunk(t) \in Chunks
  BY <1>1, WorkFacts DEF CountHit, Counting
<1>3. hit \in [Threads -> [Chunks -> Nat]] /\ hit' = [hit EXCEPT ![t][Chunk(t)] = @ + 1]
  BY <1>1 DEF CountHit, Count, LockInv, Shape
<1>4. Chunk(t) = c
  BY <1>2, <1>3, CountType
<1> QED
  BY <1>2, <1>4

\* How a streamer gets to where it looks for, adds or counts a chunk.
LEMMA StreamStep ==
    ASSUME LockInv, NEW t \in Threads, Step(t)
    PROVE  /\ pc'[t] \in Adding \cup {"added"} =>
                /\ Chunk(t)' = Chunk(t) /\ ~CountAdded(t)
                /\ pc[t] \in Adding \/ (~Present(Chunk(t)) /\ HasMiss(t))
           /\ pc'[t] = "hit" => Chunk(t)' = Chunk(t) /\ Present(Chunk(t))
           /\ pc'[t] = "added" <=> AddRefused(t) \/ IndexChunk(t) \/ AddDropped(t)
<1>1. \A l : Goto(t, l) => pc'[t] = l
  BY DEF Goto, LockInv, Shape
<1>2. CASE AddRefused(t) \/ IndexChunk(t) \/ AddDropped(t)
  <2>1. pc'[t] = "added" /\ todo' = todo /\ pc[t] \in Adding /\ ~CountAdded(t)
    BY <1>1, <1>2 DEF AddRefused, IndexChunk, AddDropped, AddReturns, CountAdded, Adding
  <2> QED
    BY <1>2, <2>1 DEF Chunk, Call
<1>3. CASE AddLocked(t) \/ Evict(t) \/ WriteChunk(t)
  <2>1. /\ pc'[t] \in Adding /\ todo' = todo /\ pc[t] \in Adding
        /\ ~CountAdded(t) /\ pc'[t] \notin {"added", "hit"}
    BY <1>1, <1>3 DEF AddLocked, Evict, WriteChunk, CountAdded, Adding
  <2>2. ~AddRefused(t) /\ ~IndexChunk(t) /\ ~AddDropped(t)
    BY <1>1, <2>1 DEF AddRefused, IndexChunk, AddDropped, AddReturns
  <2> QED
    BY <2>1, <2>2 DEF Chunk, Call
<1>4. CASE HasMiss(t)
  <2>1. pc'[t] = "add" /\ todo' = todo /\ pc[t] = "call" /\ ~Present(Chunk(t)) /\ ~CountAdded(t)
    BY <1>1, <1>4 DEF HasMiss, CountAdded
  <2>2. ~AddRefused(t) /\ ~IndexChunk(t) /\ ~AddDropped(t)
    BY <1>1, <2>1 DEF AddRefused, IndexChunk, AddDropped, AddReturns
  <2> QED
    BY <1>4, <2>1, <2>2 DEF Chunk, Call
<1>5. CASE HasHit(t)
  <2>1. pc'[t] = "hit" /\ todo' = todo /\ Present(Chunk(t))
    BY <1>1, <1>5 DEF HasHit
  <2>2. ~AddRefused(t) /\ ~IndexChunk(t) /\ ~AddDropped(t)
    BY <1>1, <2>1 DEF AddRefused, IndexChunk, AddDropped, AddReturns
  <2> QED
    BY <2>1, <2>2 DEF Chunk, Call, Adding
<1>6. CASE \/ CountHit(t) \/ CountAdded(t) \/ GetMiss(t) \/ GetFound(t) \/ GetCopy(t)
           \/ CountEntries(t) \/ CountBytes(t)
           \/ MetricsBegin(t) \/ MetricsBytes(t) \/ MetricsEntries(t) \/ MetricsEnd(t)
  <2>1. pc'[t] \in {"call", "copy", "bytes", "entries"}
    BY <1>1, <1>6 DEF CountHit, CountAdded, GetMiss, GetFound, GetCopy, CountEntries, CountBytes,
                      MetricsBegin, MetricsBytes, MetricsEntries, MetricsEnd, Done
  <2>2. ~AddRefused(t) /\ ~IndexChunk(t) /\ ~AddDropped(t)
    BY <1>1, <2>1 DEF AddRefused, IndexChunk, AddDropped, AddReturns
  <2> QED
    BY <2>1, <2>2 DEF Adding
<1> QED
  BY <1>2, <1>3, <1>4, <1>5, <1>6 DEF Step

\* Who is about to count a chunk of a cell with room for all: whoever was and has not
\* counted yet, and whoever comes back from adding it.
LEMMA AboutStep ==
    ASSUME LockInv, NEW t \in Threads, Step(t), NEW c \in Chunks, Roomy(CellOf(c)),
           NEW u \in Threads
    PROVE  AboutToCount(u, c)' <=> \/ AboutToCount(u, c) /\ ~(u = t /\ Adds(t, c))
                                   \/ u = t /\ Back(t, c)
<1>1. CASE u # t
  <2>1. pc'[u] = pc[u] /\ todo'[u] = todo[u]
    BY <1>1, StepElsewhere DEF Elsewhere
  <2> QED
    BY <1>1, <2>1 DEF AboutToCount, Chunk, Call
<1>2. CASE u = t
  <2>1. pc'[t] = "added" => Chunk(t)' = Chunk(t)
    BY StreamStep
  <2>2. AddDropped(t) => Chunk(t) # c
    BY DEF AddDropped, Home
  <2>3. pc'[t] = "added" <=> AddRefused(t) \/ IndexChunk(t) \/ AddDropped(t)
    BY StreamStep
  <2>4. pc[t] = "added" => CountAdded(t)
    BY DEF Step, HasHit, HasMiss, AddRefused, AddLocked, Evict, WriteChunk, IndexChunk,
           AddDropped, CountHit, GetMiss, GetFound, GetCopy, CountEntries, CountBytes,
           MetricsBegin, MetricsBytes, MetricsEntries, MetricsEnd, Running, LockInv, FlowInv,
           Counting
  <2> QED
    BY <1>2, <2>1, <2>2, <2>3, <2>4 DEF AboutToCount, Adds, Back
<1> QED
  BY <1>1, <1>2

\* Every step keeps the count of additions of a chunk right.
LEMMA StepCountOf ==
    ASSUME LockInv, NEW t \in Threads, Step(t), NEW c \in Chunks, Roomy(CellOf(c)), CountOf(c)
    PROVE  CountOf(c)'
<1>1. \A u \in Threads : added[u][c] \in Nat /\ hit[u][c] \in Nat
  BY DEF LockInv, Shape
<1>2. Present(c)' <=> Present(c) \/ (IndexChunk(t) /\ Chunk(t) = c)
  BY RoomyPresent
<1>3. ASSUME NEW u \in Threads
      PROVE  /\ Adds(t, c) /\ u = t => added'[u][c] = added[u][c] + 1
             /\ ~(Adds(t, c) /\ u = t) => added'[u][c] = added[u][c]
  BY AddedStep
<1>4. ASSUME NEW u \in Threads
      PROVE  AboutToCount(u, c)' <=> \/ AboutToCount(u, c) /\ ~(u = t /\ Adds(t, c))
                                     \/ u = t /\ Back(t, c)
  BY AboutStep
<1>5. Adds(t, c) => AboutToCount(t, c) /\ added[t][c] = 0
  BY DEF Adds, CountAdded, AboutToCount, CountOf
<1>6. \A u \in Threads : added'[u][c] <= 1
  BY <1>1, <1>3, <1>5 DEF CountOf
<1>7. Present(c)' <=> \E u \in Threads : added'[u][c] > 0 \/ AboutToCount(u, c)'
  <2>1. CASE Adds(t, c)
    <3>1. added'[t][c] > 0
      BY <1>1, <1>3, <2>1
    <3>2. Present(c)
      BY <1>5, <2>1 DEF CountOf
    <3> QED
      BY <1>2, <3>1, <3>2
  <2>2. CASE Back(t, c)
    <3>1. Present(c)'
      BY <1>2, <2>2 DEF Back, AddRefused
    <3>2. AboutToCount(t, c)'
      BY <1>4, <2>2
    <3> QED
      BY <3>1, <3>2
  <2>3. CASE ~Adds(t, c) /\ ~Back(t, c)
    <3>1. Present(c)' <=> Present(c)
      BY <1>2, <2>3 DEF Back
    <3>2. \A u \in Threads : added'[u][c] = added[u][c] /\ (AboutToCount(u, c)' <=> AboutToCount(u, c))
      BY <1>3, <1>4, <2>3
    <3> QED
      BY <3>1, <3>2 DEF CountOf
  <2> QED
    BY <2>1, <2>2, <2>3
<1>8. (\E u \in Threads : hit'[u][c] > 0) => Present(c)'
  <2> SUFFICES ASSUME NEW u \in Threads, hit'[u][c] > 0 PROVE Present(c)
    BY <1>2
  <2>1. CASE hit'[u][c] = hit[u][c]
    BY <2>1 DEF CountOf
  <2>2. CASE hit'[u][c] # hit[u][c]
    BY <2>2, HitStep DEF CountOf
  <2> QED
    BY <2>1, <2>2
<1>9. ASSUME NEW u \in Threads, pc'[u] \in Adding \cup {"added"}, Chunk(u)' = c
      PROVE  added'[u][c] = 0
  <2>1. CASE u # t
    <3>1. pc'[u] = pc[u] /\ todo'[u] = todo[u]
      BY <2>1, StepElsewhere DEF Elsewhere
    <3>2. Chunk(u) = c /\ pc[u] \in Adding \cup {"added"}
      BY <1>9, <3>1 DEF Chunk, Call
    <3> QED
      BY <1>3, <2>1, <3>2 DEF CountOf
  <2>2. CASE u = t
    <3>1. /\ Chunk(t) = c /\ ~CountAdded(t)
          /\ pc[t] \in Adding \/ ~Present(Chunk(t))
      BY <1>9, <2>2, StreamStep
    <3>2. added'[t][c] = added[t][c]
      BY <1>3, <3>1 DEF Adds
    <3>3. CASE pc[t] \in Adding
      BY <2>2, <3>1, <3>2, <3>3 DEF CountOf
    <3>4. CASE ~Present(c)
      <4>1. ~(added[t][c] > 0)
        BY <3>4 DEF CountOf
      <4> QED
        BY <1>1, <2>2, <3>2, <4>1
    <3> QED
      BY <3>1, <3>3, <3>4
  <2> QED
    BY <2>1, <2>2
<1>10. ASSUME NEW u \in Threads, pc'[u] = "hit", Chunk(u)' = c PROVE Present(c)'
  <2>1. CASE u # t
    <3>1. pc'[u] = pc[u] /\ todo'[u] = todo[u]
      BY <2>1, StepElsewhere DEF Elsewhere
    <3>2. Chunk(u) = c /\ pc[u] = "hit"
      BY <1>10, <3>1 DEF Chunk, Call
    <3> QED
      BY <1>2, <3>2 DEF CountOf
  <2>2. CASE u = t
    BY <1>2, <1>10, <2>2, StreamStep
  <2> QED
    BY <2>1, <2>2
<1> QED
  BY <1>6, <1>7, <1>8, <1>9, <1>10 DEF CountOf


-----------------------------------------------------------------------------
(* The invariant, and what it says                                         *)

\* The inductive invariant holds when no thread has started.
LEMMA InitIInv == Init => IInv
<1> SUFFICES ASSUME Init PROVE IInv
  OBVIOUS
<1>1. \A t \in Threads : MetricsInv(t)
  BY DEF Init, MetricsInv
<1>2. ASSUME NEW c \in Chunks PROVE CountOf(c)
  <2>1. \A t \in Threads : added[t][c] = 0 /\ hit[t][c] = 0 /\ pc[t] = "call"
    BY DEF Init
  <2>2. ~Present(c)
    BY Constants DEF Init, Present, Held
  <2> QED
    BY <2>1, <2>2 DEF CountOf, Adding, AboutToCount
<1> QED
  BY InitLockInv, <1>1, <1>2 DEF IInv, CountInv

\* Every step keeps the inductive invariant.
LEMMA StepIInv == IInv /\ [Next]_vars => IInv'
<1> SUFFICES ASSUME IInv, [Next]_vars PROVE IInv'
  OBVIOUS
<1>1. CASE Next
  <2>1. PICK t \in Threads : Step(t)
    BY <1>1 DEF Next
  <2>2. LockInv'
    BY <2>1, StepLockInv DEF IInv
  <2>3. \A u \in Threads : MetricsInv(u)'
    BY <2>1, StepMetricsInv DEF IInv
  <2>4. \A c \in Chunks : Roomy(CellOf(c)) => CountOf(c)'
    BY <2>1, StepCountOf DEF IInv, CountInv
  <2> QED
    BY <2>2, <2>3, <2>4 DEF IInv, CountInv
<1>2. CASE UNCHANGED vars
  <2>1. UNCHANGED <<dir, byte_count, pc, todo, hit, added, total, kept, seen>>
    BY <1>2 DEF vars, cell, counters, history
  <2>2. \A c : Present(c)' <=> Present(c)
    BY <2>1 DEF Present, Held
  <2>3. ASSUME NEW u \in Threads PROVE MetricsInv(u)'
    <3>1. MetricsInv(u)
      BY DEF IInv
    <3>2. \A S : Summed(u, S)' <=> Summed(u, S)
      BY <2>1 DEF Summed
    <3> QED
      BY <2>1, <2>2, <3>1, <3>2 DEF MetricsInv
  <2>4. ASSUME NEW c \in Chunks, Roomy(CellOf(c)) PROVE CountOf(c)'
    <3>1. CountOf(c) /\ \A t : Chunk(t)' = Chunk(t)
      BY <2>1, <2>4 DEF IInv, CountInv, Chunk, Call
    <3> QED
      BY <2>1, <2>2, <3>1 DEF CountOf, AboutToCount
  <2> QED
    BY <1>2, <2>3, <2>4, StutterLockInv DEF IInv, CountInv
<1> QED
  BY <1>1, <1>2

\* The inductive invariant holds always.
LEMMA IInvHolds == Spec => []IInv
BY InitIInv, StepIInv, PTL DEF Spec

\* cache_get_metrics, however many additions run beside it, gives the number and
\* the size of some set of chunks: every one that was there from begin to end, and
\* none that was not there in between.
THEOREM CacheMetricsExplained == Spec => []MetricsExplained
<1>1. IInv => MetricsExplained
  <2> SUFFICES ASSUME IInv, NEW t \in Threads, pc[t] = "bytes", total[t].next = CellCount
               PROVE  \E S \in SUBSET seen[t] :
                        /\ kept[t] \subseteq S
                        /\ total[t].entries = Cardinality(S) /\ total[t].bytes = Size(S)
    BY DEF MetricsExplained
  <2>1. PICK S : Summed(t, S)
    BY DEF IInv, MetricsInv
  <2>2. S \in SUBSET seen[t] /\ seen[t] \in SUBSET Chunks /\ kept[t] \in SUBSET Chunks
    BY <2>1 DEF Summed, IInv, LockInv, Shape
  <2>3. kept[t] \subseteq S
    BY <2>1, <2>2, Constants DEF Summed
  <2>4. total[t].bytes = Size(S) + 0 /\ Size(S) \in Nat
    BY <2>1, <2>2, SizeType DEF Summed
  <2>5. total[t].entries = Cardinality(S)
    BY <2>1 DEF Summed
  <2> QED
    BY <2>2, <2>3, <2>4, <2>5
<1> QED
  BY IInvHolds, <1>1, PTL

\* In a cell that has room for its chunks, chunk_added and chunk_hit are right up
\* to additions that were refused and to those whose streamer is about to count.
THEOREM CacheCountedRight == Spec => []CountedRight
<1>1. IInv => CountedRight
  BY DEF IInv, CountInv, CountOf, CountedRight, AboutToCount
<1> QED
  BY IInvHolds, <1>1, PTL


-----------------------------------------------------------------------------
(* The store that the threads see                                          *)

Stored == (UNION {Held(k) : k \in Cells}) \cup (UNION {gone[t] : t \in Threads})

Member(c) == (\E k \in Cells : c \in Held(k)) \/ \E u \in Threads : c \in gone[u]

\* What the refinement mapping takes for stored, chunk by chunk.
LEMMA StoredMember == (\A c : c \in Stored <=> Member(c)) /\ (\A c : c \in Stored' <=> Member(c)')
<1>1. \A c : c \in Stored <=> Member(c)
  BY Zenon DEF Stored, Member
<1>2. \A c : c \in Stored' <=> Member(c)'
  BY Zenon DEF Stored, Member
<1> QED
  BY <1>1, <1>2

\* A chunk that an addition has given up lies in a cell whose mutex that addition has.
StoredIs ==
    /\ Stored \subseteq Chunks
    /\ \A c \in Chunks : c \in Stored <=> Present(c) \/ \E u \in Threads : c \in gone[u]
    /\ \A c \in Chunks, u \in Threads : c \in gone[u] => lock[CellOf(c)] = u

\* What is stored is in a directory or being given up under a mutex.
LEMMA LockInvStored == LockInv => StoredIs
<1> SUFFICES ASSUME LockInv PROVE StoredIs
  OBVIOUS
<1>1. \A k \in Cells : Held(k) \subseteq Chunks /\ \A c \in Held(k) : CellOf(c) = k
  BY DirFacts DEF CellInv, Mine
<1>2. \A u \in Threads : gone[u] \subseteq Chunks
  BY DEF LockInv, Shape
<1>3. Stored \subseteq Chunks
  BY <1>1, <1>2, StoredMember DEF Member
<1>4. ASSUME NEW c \in Chunks
      PROVE  c \in Stored <=> Present(c) \/ \E u \in Threads : c \in gone[u]
  <2>1. (\E k \in Cells : c \in Held(k)) <=> Present(c)
    BY <1>1, Constants DEF Present
  <2> QED
    BY <2>1, StoredMember DEF Member
<1>5. ASSUME NEW c \in Chunks, NEW u \in Threads, c \in gone[u] PROVE lock[CellOf(c)] = u
  <2>1. WorkInv(u) /\ FlowInv(u)
    BY DEF LockInv
  <2>2. pc[u] \in {"write", "index"} /\ CellOf(c) = Home(u)
    BY <1>5, <2>1 DEF WorkInv, Mine
  <2> QED
    BY <2>1, <2>2 DEF FlowInv, Working
<1> QED
  BY <1>3, <1>4, <1>5 DEF StoredIs

\* In a cell whose mutex is free, what the store has is what the directory has.
LEMMA FreeStored ==
    ASSUME LockInv, NEW c \in Chunks, Free(CellOf(c))
    PROVE  c \in Stored <=> Present(c)
BY LockInvStored, Constants DEF StoredIs, Free

\* What is stored depends on the directories and on what is being removed.
LEMMA SameStored ==
    ASSUME dir' = dir, gone' = gone
    PROVE  Stored' = Stored
BY DEF Stored, Held

\* The calls that look once.
LEMMA LooksStore ==
    ASSUME LockInv, NEW t \in Threads,
           HasHit(t) \/ HasMiss(t) \/ AddRefused(t) \/ GetMiss(t) \/ CountEntries(t) \/ CountBytes(t)
    PROVE  Store!Next
<1>1. dir' = dir /\ gone' = gone
  BY DEF HasHit, HasMiss, AddRefused, GetMiss, CountEntries, CountBytes, cell
<1>2. Stored' = Stored
  BY <1>1, SameStored
<1>3. PICK c \in Chunks, h \in Cells : c = Chunk(t) /\ h = Home(t) /\ h = CellOf(c) /\ Free(h)
  BY CallFacts DEF HasHit, HasMiss, AddRefused, GetMiss, CountEntries, CountBytes, Running, LockInv,
                   Home
<1>4. c \in Stored <=> Present(c)
  BY <1>3, FreeStored
<1>5. ASSUME HasHit(t) \/ HasMiss(t) PROVE Store!Has(t, c)
  <2>1. result' = [result EXCEPT ![t] = [call |-> "has", chunk |-> c,
                                         answer |-> IF c \in Stored THEN c ELSE NoChunk]]
    BY <1>3, <1>4, <1>5 DEF HasHit, HasMiss, Returns
  <2> QED
    BY <1>2, <2>1 DEF Store!Has, Store!Returns, Store!Answer, Stored
<1>6. ASSUME AddRefused(t) PROVE Store!Refuse(t, c)
  <2>1. c \in Stored /\ result' = [result EXCEPT ![t] = [call |-> "add", chunk |-> c, answer |-> NoChunk]]
    BY <1>3, <1>4, <1>6 DEF AddRefused, Returns
  <2> QED
    BY <1>2, <2>1 DEF Store!Refuse, Store!Returns, Store!Answer, Stored
<1>7. ASSUME GetMiss(t) PROVE Store!Get(t, c)
  <2>1. result' = [result EXCEPT ![t] = [call |-> "get", chunk |-> c,
                                         answer |-> IF c \in Stored THEN c ELSE NoChunk]]
    BY <1>3, <1>4, <1>7 DEF GetMiss, Returns
  <2> QED
    BY <1>2, <2>1 DEF Store!Get, Store!Returns, Store!Answer, Stored
<1>8. PICK B : B = {d \in Stored : CellOf(d) = CellOf(c)}
  OBVIOUS
<1>9. B = Held(h)
  <2>1. \A d \in Chunks : CellOf(d) = h => (d \in Stored <=> d \in Held(h))
    BY <1>3, FreeStored DEF Present
  <2>2. Stored \subseteq Chunks /\ Held(h) \subseteq Chunks /\ \A d \in Held(h) : CellOf(d) = h
    BY LockInvStored, DirFacts DEF StoredIs, CellInv, Mine
  <2> QED
    BY <1>3, <1>8, <2>1, <2>2
<1>10. entry_count[h] = Cardinality(B) /\ byte_count[h] = Size(B)
  BY <1>9, DirFacts DEF CellInv
<1>11. ASSUME CountEntries(t) PROVE Store!CountEntries(t, c)
  <2>1. result' = [result EXCEPT ![t] = [call |-> "entries", chunk |-> c, answer |-> Cardinality(B)]]
    BY <1>3, <1>10, <1>11 DEF CountEntries, Returns
  <2>2. Store!Beside(c) = B
    BY <1>8 DEF Store!Beside, Stored
  <2>3. Store!Cardinality(B) = Cardinality(B)
    BY DEF Store!Cardinality, Cardinality
  <2> QED
    BY <1>2, <2>1, <2>2, <2>3 DEF Store!CountEntries, Store!Returns, Store!Answer, Stored
<1>12. ASSUME CountBytes(t) PROVE Store!CountBytes(t, c)
  <2>1. result' = [result EXCEPT ![t] = [call |-> "bytes", chunk |-> c, answer |-> Size(B)]]
    BY <1>3, <1>10, <1>12 DEF CountBytes, Returns
  <2>2. Store!Beside(c) = B
    BY <1>8 DEF Store!Beside, Stored
  <2>3. Store!Size(B) = Size(B)
    BY DEF Store!Size, Size, Store!Cardinality, Cardinality
  <2> QED
    BY <1>2, <2>1, <2>2, <2>3 DEF Store!CountBytes, Store!Returns, Store!Answer, Stored
<1> QED
  BY <1>5, <1>6, <1>7, <1>11, <1>12 DEF Store!Next

\* The copy: what is at the offset is the chunk that was looked up.
LEMMA CopyStore ==
    ASSUME LockInv, NEW t \in Threads, GetCopy(t)
    PROVE  Store!Next
<1>1. PICK c \in Chunks, h \in Cells : c = Chunk(t) /\ h = Home(t) /\ h = CellOf(c)
  BY WorkFacts DEF GetCopy, Working
<1>2. c \in Held(h) /\ data[h][slot[t]] = c
  <2>1. c \in Held(h) /\ slot[t] = dir[h][c]
    BY <1>1 DEF GetCopy, LockInv, WorkInv
  <2> QED
    BY <2>1, DirFacts DEF CellInv
<1>3. c \in Stored
  BY <1>2 DEF Stored
<1>4. Stored' = Stored
  BY SameStored DEF GetCopy, cell
<1>5. result' = [result EXCEPT ![t] = [call |-> "get", chunk |-> c,
                                       answer |-> IF c \in Stored THEN c ELSE NoChunk]]
  BY <1>1, <1>2, <1>3 DEF GetCopy, Returns
<1>6. Store!Get(t, c)
  BY <1>4, <1>5 DEF Store!Get, Store!Returns, Store!Answer, Stored
<1> QED
  BY <1>6 DEF Store!Next

\* What lies in the cell that an addition has the mutex of.
LEMMA MineStored ==
    ASSUME LockInv, NEW t \in Threads, NEW c \in Chunks, lock[CellOf(c)] = t
    PROVE  c \in Stored <=> Present(c) \/ c \in gone[t]
BY LockInvStored DEF StoredIs

\* To give chunks up before the write is not to be seen.
LEMMA EvictStore ==
    ASSUME LockInv, NEW t \in Threads, Evict(t)
    PROVE  Stored' = Stored /\ result' = result
<1>1. pc[t] = "evict" /\ result' = result /\ gone[t] = {} /\ gone \in [Threads -> SUBSET Chunks]
  BY DEF Evict, LockInv, WorkInv, Shape
<1>2. PICK h \in Cells : h = Home(t)
  BY <1>1, WorkFacts DEF Working
<1>3. PICK S \in SUBSET Held(h) : RemoveAll(h, S) /\ gone' = [gone EXCEPT ![t] = S]
  BY <1>2 DEF Evict
<1>4. Held(h)' = Held(h) \ S /\ \A j \in Cells : j # h => Held(j)' = Held(j)
  BY <1>3, RemoveAllFacts DEF Held
<1>5. gone'[t] = S /\ \A u \in Threads : u # t => gone'[u] = gone[u]
  BY <1>1, <1>3
<1>6. ASSUME NEW c PROVE c \in Stored' <=> c \in Stored
  <2>1. (\E k \in Cells : c \in Held(k)) <=> (\E k \in Cells : c \in Held(k)') \/ c \in S
    BY <1>3, <1>4
  <2>2. (\E u \in Threads : c \in gone'[u]) <=> (\E u \in Threads : c \in gone[u]) \/ c \in S
    BY <1>1, <1>5
  <2>3. Member(c)' <=> (\E k \in Cells : c \in Held(k)') \/ \E u \in Threads : c \in gone'[u]
    BY DEF Member
  <2>4. Member(c)' <=> Member(c)
    BY <2>1, <2>2, <2>3 DEF Member
  <2> QED
    BY <2>4, StoredMember
<1> QED
  BY <1>1, <1>6


\* A completed addition takes effect when the directory gets the entry: the chunk is
\* there, and those given up for it are not any more.
LEMMA IndexStore ==
    ASSUME LockInv, NEW t \in Threads, IndexChunk(t)
    PROVE  Store!Next
<1>1. PICK c \in Chunks, h \in Cells :
        c = Chunk(t) /\ h = Home(t) /\ h = CellOf(c) /\ lock[h] = t
  BY WorkFacts DEF IndexChunk, Working, LockInv, FlowInv
<1>2. PICK G \in SUBSET Chunks : G = gone[t] /\ G \subseteq Mine(h) \ (Held(h) \cup {c})
  <2>1. gone[t] \in SUBSET Chunks /\ WorkInv(t) /\ pc[t] = "index"
    BY DEF IndexChunk, LockInv, Shape
  <2> QED
    BY <1>1, <2>1 DEF WorkInv
<1>3. ~Present(c) /\ c \notin Stored
  BY <1>1, <1>2, MineStored DEF IndexChunk, LockInv, WorkInv, Present
<1>4. StoredIs /\ StoredIs'
  <2>1. LockInv'
    BY IndexLockInv
  <2>2. LockInv' => StoredIs'
    BY LockInvStored, PTL
  <2> QED
    BY <2>1, <2>2, LockInvStored
<1>5. gone'[t] = {} /\ \A u \in Threads : u # t => gone'[u] = gone[u]
  BY DEF IndexChunk, LockInv, Shape
<1>6. \A d \in Chunks : Present(d)' <=> Present(d) \/ d = c
  BY <1>1, IndexPresent
<1>7. \A d \in G : ~Present(d) /\ d # c /\ CellOf(d) = h /\ d \in Stored
                   /\ \A u \in Threads : u # t => d \notin gone[u]
  BY <1>1, <1>2, <1>4 DEF Present, Mine, StoredIs
<1>8. ASSUME NEW d \in Chunks PROVE d \in Stored' <=> d \in (Stored \cup {c}) \ G
  <2>1. d \in Stored' <=> Present(d)' \/ \E u \in Threads : d \in gone'[u]
    BY <1>4 DEF StoredIs
  <2>2. d \in Stored <=> Present(d) \/ \E u \in Threads : d \in gone[u]
    BY <1>4 DEF StoredIs
  <2>3. (\E u \in Threads : d \in gone'[u]) <=> (\E u \in Threads : u # t /\ d \in gone[u])
    BY <1>5
  <2> QED
    BY <1>2, <1>6, <1>7, <2>1, <2>2, <2>3
<1>9. Stored' = (Stored \cup {c}) \ G
  <2>1. Stored \subseteq Chunks /\ Stored' \subseteq Chunks
    BY <1>4 DEF StoredIs
  <2> QED
    BY <1>8, <2>1
<1>10. G \in SUBSET (Store!Beside(c) \cup {c})
  <2>1. \A d \in G : d \in {e \in Stored : CellOf(e) = CellOf(c)}
    BY <1>1, <1>7
  <2> QED
    BY <2>1 DEF Store!Beside, Stored
<1>11. result' = [result EXCEPT ![t] = [call |-> "add", chunk |-> c, answer |-> c]]
  BY <1>1 DEF IndexChunk, AddReturns, Returns
<1>12. Store!Add(t, c)
  BY <1>3, <1>9, <1>10, <1>11 DEF Store!Add, Store!Returns, Store!Answer, Stored
<1> QED
  BY <1>12 DEF Store!Next

\* So does one that fails: the chunk itself is among those given up.
LEMMA DroppedStore ==
    ASSUME LockInv, NEW t \in Threads, AddDropped(t)
    PROVE  Store!Next
<1>1. PICK c \in Chunks, h \in Cells :
        c = Chunk(t) /\ h = Home(t) /\ h = CellOf(c) /\ lock[h] = t
  BY WorkFacts DEF AddDropped, Working, LockInv, FlowInv
<1>2. gone[t] = {} /\ gone' = gone /\ c \notin Held(h)
  BY <1>1 DEF AddDropped, LockInv, WorkInv
<1>3. ~Present(c) /\ c \notin Stored
  BY <1>1, <1>2, MineStored DEF Present
<1>4. StoredIs /\ StoredIs'
  <2>1. LockInv'
    BY DroppedLockInv
  <2>2. LockInv' => StoredIs'
    BY LockInvStored, PTL
  <2> QED
    BY <2>1, <2>2, LockInvStored
<1>5. PICK S \in SUBSET Held(h) : RemoveAll(h, S)
  BY <1>1 DEF AddDropped
<1>6. \A d \in Chunks : Present(d)' <=> Present(d) /\ d \notin S
  BY <1>5, RemovePresent
<1>7. \A d \in S : d \in Chunks /\ CellOf(d) = h /\ d \in Stored /\ d \notin gone[t]
                   /\ \A u \in Threads : d \notin gone[u]
  <2>1. \A d \in S : d \in Chunks /\ CellOf(d) = h /\ Present(d)
    BY <1>5, DirFacts DEF CellInv, Mine, Present
  <2> QED
    BY <1>1, <1>2, <1>4, <2>1 DEF StoredIs
<1>8. PICK G : G = S \cup {c}
  OBVIOUS
<1>9. ASSUME NEW d \in Chunks PROVE d \in Stored' <=> d \in (Stored \cup {c}) \ G
  <2>1. d \in Stored' <=> Present(d)' \/ \E u \in Threads : d \in gone[u]
    BY <1>2, <1>4 DEF StoredIs
  <2>2. d \in Stored <=> Present(d) \/ \E u \in Threads : d \in gone[u]
    BY <1>4 DEF StoredIs
  <2>3. d = c => ~Present(d) /\ ~\E u \in Threads : d \in gone[u]
    BY <1>3, <2>2
  <2> QED
    BY <1>6, <1>7, <1>8, <2>1, <2>2, <2>3
<1>10. Stored' = (Stored \cup {c}) \ G
  <2>1. Stored \subseteq Chunks /\ Stored' \subseteq Chunks
    BY <1>4 DEF StoredIs
  <2> QED
    BY <1>9, <2>1
<1>11. G \in SUBSET (Store!Beside(c) \cup {c})
  <2>1. \A d \in S : d \in {e \in Stored : CellOf(e) = CellOf(c)}
    BY <1>1, <1>7
  <2> QED
    BY <1>8, <2>1 DEF Store!Beside, Stored
<1>12. result' = [result EXCEPT ![t] = [call |-> "add", chunk |-> c, answer |-> c]]
  BY <1>1 DEF AddDropped, AddReturns, Returns
<1>13. Store!Add(t, c)
  BY <1>3, <1>10, <1>11, <1>12 DEF Store!Add, Store!Returns, Store!Answer, Stored
<1> QED
  BY <1>13 DEF Store!Next

\* Every step of a thread is one of the store, or is not to be seen there.
LEMMA StepStore ==
    ASSUME LockInv, NEW t \in Threads, Step(t)
    PROVE  Store!Next \/ (Stored' = Stored /\ result' = result)
<1>1. CASE \/ MetricsBegin(t) \/ MetricsBytes(t) \/ MetricsEntries(t) \/ MetricsEnd(t)
           \/ AddLocked(t) \/ GetFound(t) \/ WriteChunk(t) \/ CountHit(t) \/ CountAdded(t)
  <2>1. dir' = dir /\ gone' = gone /\ result' = result
    BY <1>1 DEF MetricsBegin, MetricsBytes, MetricsEntries, MetricsEnd, AddLocked, GetFound,
                WriteChunk, CountHit, CountAdded, cell
  <2> QED
    BY <2>1, SameStored
<1> QED
  BY <1>1, LooksStore, CopyStore, EvictStore, IndexStore, DroppedStore DEF Step

\* The cache is linearizable: whatever the number of threads and the calls they
\* make, each call takes effect at one moment, in the store of module ChunkStore.
THEOREM CacheImplementsStore == Spec => ImplementsStore
<1>1. Init => Store!Init
  <2> SUFFICES ASSUME Init PROVE Store!Init
    OBVIOUS
  <2>1. Stored = {}
    <3>1. (\A k \in Cells : Held(k) = {}) /\ \A u \in Threads : gone[u] = {}
      BY DEF Init, Held
    <3> QED
      BY <3>1, StoredMember DEF Member
  <2>2. result = [t \in Threads |-> [call |-> "none", chunk |-> NoChunk, answer |-> NoChunk]]
    BY DEF Init
  <2> QED
    BY <2>1, <2>2 DEF Store!Init, Store!Answer, Stored
<1>2. LockInv /\ [Next]_vars => [Store!Next]_(Store!vars)
  <2> SUFFICES ASSUME LockInv, [Next]_vars PROVE [Store!Next]_(Store!vars)
    OBVIOUS
  <2>1. Store!Next \/ (Stored' = Stored /\ result' = result)
    <3>1. CASE Next
      BY <3>1, StepStore DEF Next
    <3>2. CASE UNCHANGED vars
      BY <3>2, SameStored DEF vars, cell
    <3> QED
      BY <3>1, <3>2
  <2> QED
    BY <2>1 DEF Store!vars, Stored
<1> QED
  BY LockInvHolds, <1>1, <1>2, PTL DEF Spec, ImplementsStore, Store!Spec
=============================================================================
