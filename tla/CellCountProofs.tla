--------------------------- MODULE CellCountProofs ---------------------------
(***************************************************************************)
(* Proofs about what a cell counts, evicts and keeps: the counters of its  *)
(* header, what an addition gives up, and what a reopened cell still has.  *)
(* They rest on the inductive invariant of CellProofs.                     *)
(*                                                                         *)
(* The directory is the measure of the counters: each used entry of the    *)
(* ring is indexed under its checksum and has the length of that chunk, so *)
(* counting entries and bytes at a set of offsets is counting the chunks   *)
(* indexed there.                                                          *)
(***************************************************************************)
EXTENDS CellProofs

-----------------------------------------------------------------------------
(* The bytes of a set of chunks                                            *)

ByteSet(K) == UNION {{c} \X (1 .. SizeOf[c]) : c \in K}

ChunkBytes(K) == Cardinality(ByteSet(K))

\* The bytes of a chunk can be numbered.
LEMMA UpTo ==
    ASSUME NEW n \in Nat
    PROVE  IsFiniteSet(1 .. n) /\ Cardinality(1 .. n) = n
BY FS_Interval

\* A set of checksums is finite.
LEMMA ChecksumsFinite ==
    ASSUME NEW K \in SUBSET Checksums
    PROVE  IsFiniteSet(K) /\ Cardinality(K) \in Nat
BY DirMapAssumption, FS_Subset, FS_CardinalityType

\* Two sets that share nothing are counted together by adding.
LEMMA DisjointCount ==
    ASSUME NEW S, NEW T, IsFiniteSet(S), IsFiniteSet(T), S \cap T = {}
    PROVE  /\ IsFiniteSet(S \cup T)
           /\ Cardinality(S \cup T) = Cardinality(S) + Cardinality(T)
<1>1. /\ IsFiniteSet(S \cup T)
      /\ Cardinality(S \cup T) = Cardinality(S) + Cardinality(T) - Cardinality(S \cap T)
  BY FS_Union
<1>2. Cardinality(S \cap T) = 0 /\ Cardinality(S) \in Nat /\ Cardinality(T) \in Nat
  BY FS_EmptySet, FS_CardinalityType
<1> QED
  BY <1>1, <1>2

\* The chunks of a set of checksums have finitely many bytes.
LEMMA ByteSetFinite ==
    ASSUME NEW K \in SUBSET Checksums
    PROVE  IsFiniteSet(ByteSet(K)) /\ ChunkBytes(K) \in Nat
<1> DEFINE Of(c) == {c} \X (1 .. SizeOf[c])
           F == {Of(c) : c \in K}
           f == [c \in K |-> Of(c)]
<1>1. \A c \in K : IsFiniteSet(Of(c))
  <2>1. ASSUME NEW c \in K PROVE IsFiniteSet(Of(c))
    <3>1. SizeOf[c] \in Nat
      BY CellAssumption
    <3>2. IsFiniteSet({c}) /\ IsFiniteSet(1 .. SizeOf[c])
      BY <3>1, FS_Singleton, UpTo
    <3> QED
      BY <3>2, FS_Product
  <2> QED
    BY <2>1
<1>2. IsFiniteSet(F)
  <2>1. f \in Surjection(K, F)
    <3> HIDE DEF Of
    <3> QED
      BY DEF Surjection
  <2> HIDE DEF f, F
  <2> QED
    BY <2>1, ChecksumsFinite, FS_Surjection
<1>3. \A T \in F : IsFiniteSet(T)
  <2> HIDE DEF Of
  <2> QED
    BY <1>1
<1>4. IsFiniteSet(UNION F)
  <2> HIDE DEF F
  <2> QED
    BY <1>2, <1>3, FS_UNION
<1> QED
  BY <1>4, FS_CardinalityType DEF ByteSet, ChunkBytes

\* One chunk has as many bytes as it is long.
LEMMA BytesOfOne ==
    ASSUME NEW c \in Checksums
    PROVE  ChunkBytes({c}) = SizeOf[c]
<1>0. SizeOf[c] \in Nat
  BY CellAssumption
<1>1. IsFiniteSet({c}) /\ Cardinality({c}) = 1
  BY FS_Singleton
<1>2. IsFiniteSet(1 .. SizeOf[c]) /\ Cardinality(1 .. SizeOf[c]) = SizeOf[c]
  BY <1>0, UpTo
<1>3. Cardinality({c} \X (1 .. SizeOf[c])) = Cardinality({c}) * Cardinality(1 .. SizeOf[c])
  BY <1>1, <1>2, FS_Product
<1>4. ByteSet({c}) = {c} \X (1 .. SizeOf[c])
  BY DEF ByteSet
<1>5. ChunkBytes({c}) = 1 * SizeOf[c]
  BY <1>1, <1>2, <1>3, <1>4 DEF ChunkBytes
<1> QED
  BY <1>0, <1>5

\* Chunks that are different are counted by adding.
LEMMA BytesOfBoth ==
    ASSUME NEW K \in SUBSET Checksums, NEW L \in SUBSET Checksums, K \cap L = {}
    PROVE  ChunkBytes(K \cup L) = ChunkBytes(K) + ChunkBytes(L)
<1>1. ByteSet(K \cup L) = ByteSet(K) \cup ByteSet(L)
  BY DEF ByteSet
<1>2. ByteSet(K) \cap ByteSet(L) = {}
  BY DEF ByteSet
<1> QED
  BY <1>1, <1>2, ByteSetFinite, DisjointCount DEF ChunkBytes

\* What is left when chunks go.
LEMMA CountRest ==
    ASSUME NEW K \in SUBSET Checksums, NEW L \in SUBSET K
    PROVE  /\ Cardinality(K) = Cardinality(K \ L) + Cardinality(L)
           /\ ChunkBytes(K) = ChunkBytes(K \ L) + ChunkBytes(L)
<1> DEFINE R == K \ L
<1>1. /\ K = R \cup L /\ R \cap L = {}
      /\ R \in SUBSET Checksums /\ L \in SUBSET Checksums
  OBVIOUS
<1> HIDE DEF R
<1>2. ChunkBytes(R \cup L) = ChunkBytes(R) + ChunkBytes(L)
  BY <1>1, BytesOfBoth
<1>3. Cardinality(R \cup L) = Cardinality(R) + Cardinality(L)
  BY <1>1, ChecksumsFinite, DisjointCount
<1> QED
  BY <1>1, <1>2, <1>3, Zenon DEF R

\* What is there when a chunk comes.
LEMMA CountAdd ==
    ASSUME NEW K \in SUBSET Checksums, NEW c \in Checksums, c \notin K
    PROVE  /\ Cardinality(K \cup {c}) = Cardinality(K) + 1
           /\ ChunkBytes(K \cup {c}) = ChunkBytes(K) + SizeOf[c]
<1>1. IsFiniteSet(K) /\ {c} \in SUBSET Checksums /\ K \cap {c} = {}
  BY ChecksumsFinite
<1>2. Cardinality(K \cup {c}) = Cardinality(K) + 1
  BY <1>1, FS_AddElement
<1>3. ChunkBytes(K \cup {c}) = ChunkBytes(K) + ChunkBytes({c})
  BY <1>1, BytesOfBoth
<1> QED
  BY <1>2, <1>3, BytesOfOne

-----------------------------------------------------------------------------
(* Entries of the ring and chunks of the directory                         *)

\* The used entries at S and the chunks indexed there are as many and as long.
LEMMA CountedByDirectory ==
    ASSUME NEW n, RingInv(body, top, n, dir), NEW S, S \subseteq DOMAIN body
    PROVE  /\ Keys(S) \subseteq DOMAIN dir /\ Keys(S) \in SUBSET Checksums
           /\ Cardinality(UsedIn(S)) = Cardinality(Keys(S))
           /\ Bytes(S) = ChunkBytes(Keys(S))
<1> DEFINE U == UsedIn(S)
           key == [p \in U |-> body[p].checksum]
           K == Keys(S)
           B == UNION {{p} \X (1 .. body[p].size) : p \in U}
           g == [x \in B |-> <<body[x[1]].checksum, x[2]>>]
<1>1. /\ DirType(dir) /\ Indexed(body, dir) /\ U \subseteq DOMAIN body
      /\ \A p \in U : ~body[p].free
  BY DEF RingInv, UsedIn
<1>2. \A p \in U : /\ body[p].checksum \in DOMAIN dir
                   /\ dir[body[p].checksum].offset = p
                   /\ body[p].size = SizeOf[body[p].checksum]
  BY <1>1 DEF Indexed
<1>3. K = {body[p].checksum : p \in U}
  BY DEF Keys
<1>4. K \subseteq DOMAIN dir /\ K \in SUBSET Checksums
  BY <1>1, <1>2, <1>3 DEF DirType
<1>5. IsFiniteSet(U)
  BY UsedFinite
<1>6. Cardinality(U) = Cardinality(K)
  <2>1. key \in Bijection(U, K)
    <3>1. key \in [U -> K] /\ \A k \in K : \E p \in U : key[p] = k
      BY <1>3
    <3>2. \A p, q \in U : key[p] = key[q] => p = q
      BY <1>2
    <3> QED
      BY <3>1, <3>2 DEF Bijection, Injection, Surjection, IsInjective
  <2> HIDE DEF key, U, K
  <2>2. ExistsBijection(U, K)
    BY <2>1 DEF ExistsBijection
  <2> QED
    BY <2>2, <1>5, FS_Bijection
<1>7. IsFiniteSet(ByteSet(K))
  BY <1>4, ByteSetFinite
<1>8. Cardinality(B) = Cardinality(ByteSet(K))
  <2>1. \A x \in B : /\ x[1] \in U /\ x[2] \in 1 .. body[x[1]].size
                     /\ x = <<x[1], x[2]>>
    OBVIOUS
  <2>2. \A p \in U : \A i \in 1 .. body[p].size : <<p, i>> \in B
    OBVIOUS
  <2>3. \A y \in ByteSet(K) : /\ y[1] \in K /\ y[2] \in 1 .. SizeOf[y[1]]
                              /\ y = <<y[1], y[2]>>
    BY DEF ByteSet
  <2>4. \A k \in K : \A i \in 1 .. SizeOf[k] : <<k, i>> \in ByteSet(K)
    BY DEF ByteSet
  <2> HIDE DEF B, U, K
  <2>5. \A x \in B : g[x] \in ByteSet(K)
    BY <1>2, <1>3, <2>1, <2>4
  <2>6. \A x, y \in B : g[x] = g[y] => x = y
    BY <1>2, <2>1
  <2>7. \A y \in ByteSet(K) : \E x \in B : g[x] = y
    <3>1. ASSUME NEW y \in ByteSet(K) PROVE \E x \in B : g[x] = y
      <4>1. PICK p \in U : y[1] = body[p].checksum
        BY <1>3, <2>3
      <4>2. y[2] \in 1 .. body[p].size /\ y = <<y[1], y[2]>>
        BY <1>2, <2>3, <4>1
      <4>3. <<p, y[2]>> \in B
        BY <2>2, <4>2
      <4>4. g[<<p, y[2]>>] = y
        BY <4>1, <4>2, <4>3
      <4> QED
        BY <4>3, <4>4
    <3> QED
      BY <3>1
  <2>8. g \in [B -> ByteSet(K)]
    BY <2>5
  <2> HIDE DEF g
  <2>9. g \in Injection(B, ByteSet(K)) /\ g \in Bijection(B, ByteSet(K))
    BY <2>6, <2>7, <2>8 DEF Bijection, Injection, Surjection, IsInjective
  <2>10. ExistsBijection(B, ByteSet(K))
    BY <2>9 DEF ExistsBijection
  <2>11. IsFiniteSet(B)
    BY <2>9, <1>7, FS_Injection
  <2> QED
    BY <2>10, <2>11, FS_Bijection
<1> QED
  BY <1>4, <1>6, <1>8 DEF Bytes, ChunkBytes

\* The directory indexes all there is in the ring.
LEMMA KeysOfRing ==
    ASSUME NEW n, RingInv(body, top, n, dir)
    PROVE  Keys(DOMAIN body) = DOMAIN dir
<1>1. Indexed(body, dir)
  BY DEF RingInv
<1>2. ASSUME NEW c \in DOMAIN dir PROVE c \in Keys(DOMAIN body)
  <2>1. dir[c].offset \in UsedIn(DOMAIN body) /\ body[dir[c].offset].checksum = c
    BY <1>1 DEF Indexed, UsedIn
  <2> QED
    BY <2>1 DEF Keys
<1>3. ASSUME NEW c \in Keys(DOMAIN body) PROVE c \in DOMAIN dir
  BY <1>1, <1>3 DEF Keys, UsedIn, Indexed
<1> QED
  BY <1>2, <1>3


-----------------------------------------------------------------------------
(* The counters                                                            *)

CountInv ==
    /\ entry_count = Cardinality(DOMAIN dir)
    /\ byte_count = ChunkBytes(DOMAIN dir)

\* The entries of the ring at G are removed and the counters are lowered.
LEMMA CountRemoved ==
    ASSUME NEW n, RingInv(body, top, n, dir), CountInv,
           NEW G, G \subseteq DOMAIN body
    PROVE  /\ DOMAIN DirRemove(dir, Keys(G)) \in SUBSET Checksums
           /\ DOMAIN DirRemove(dir, Keys(G)) \subseteq DOMAIN dir
           /\ entry_count - Cardinality(UsedIn(G)) =
                Cardinality(DOMAIN DirRemove(dir, Keys(G)))
           /\ byte_count - Bytes(G) = ChunkBytes(DOMAIN DirRemove(dir, Keys(G)))
<1> DEFINE L == Keys(G)
           R == DOMAIN dir \ L
<1>1. DirType(dir) /\ DOMAIN dir \in SUBSET Checksums
  BY DEF RingInv, DirType
<1>2. /\ L \in SUBSET DOMAIN dir /\ L \in SUBSET Checksums /\ R \in SUBSET Checksums
      /\ Cardinality(UsedIn(G)) = Cardinality(L) /\ Bytes(G) = ChunkBytes(L)
  BY <1>1, CountedByDirectory
<1>3. DOMAIN DirRemove(dir, L) = R
  BY DEF DirRemove
<1> HIDE DEF L
<1>4. /\ Cardinality(DOMAIN dir) = Cardinality(R) + Cardinality(L)
      /\ ChunkBytes(DOMAIN dir) = ChunkBytes(R) + ChunkBytes(L)
  BY <1>1, <1>2, CountRest
<1> HIDE DEF R
<1>5. /\ Cardinality(R) \in Nat /\ Cardinality(L) \in Nat
      /\ ChunkBytes(R) \in Nat /\ ChunkBytes(L) \in Nat
  BY <1>2, ChecksumsFinite, ByteSetFinite
<1>6. /\ entry_count - Cardinality(L) = Cardinality(R)
      /\ byte_count - ChunkBytes(L) = ChunkBytes(R)
  BY <1>4, <1>5 DEF CountInv
<1> QED
  BY <1>2, <1>3, <1>6 DEF R, L

\* cell_header_remove for the entries at G and cell_header_add for c.
LEMMA HeaderUpdateCounts ==
    ASSUME NEW n, RingInv(body, top, n, dir), CountInv,
           NEW G, G \subseteq DOMAIN body, NEW c \in Checksums, c \notin DOMAIN dir,
           NEW at \in Nat, HeaderUpdate(G, c, at)
    PROVE  CountInv'
<1> DEFINE d == DirRemove(dir, Keys(G))
<1>1. /\ dir' = DirAdd(d, c, at)
      /\ entry_count' = entry_count - Cardinality(UsedIn(G)) + 1
      /\ byte_count' = byte_count - Bytes(G) + SizeOf[c]
  BY DEF HeaderUpdate
<1>2. /\ DOMAIN d \in SUBSET Checksums /\ DOMAIN d \subseteq DOMAIN dir
      /\ entry_count - Cardinality(UsedIn(G)) = Cardinality(DOMAIN d)
      /\ byte_count - Bytes(G) = ChunkBytes(DOMAIN d)
  BY CountRemoved
<1> HIDE DEF d
<1>3. DOMAIN dir' = DOMAIN d \cup {c}
  BY <1>1 DEF DirAdd
<1>4. /\ Cardinality(DOMAIN d \cup {c}) = Cardinality(DOMAIN d) + 1
      /\ ChunkBytes(DOMAIN d \cup {c}) = ChunkBytes(DOMAIN d) + SizeOf[c]
  BY <1>2, CountAdd
<1>5. /\ entry_count' = Cardinality(DOMAIN d) + 1
      /\ byte_count' = ChunkBytes(DOMAIN d) + SizeOf[c]
  BY <1>1, <1>2, Zenon
<1>6. entry_count' = Cardinality(DOMAIN dir') /\ byte_count' = ChunkBytes(DOMAIN dir')
  BY <1>3, <1>4, <1>5, Zenon
<1> QED
  BY <1>6 DEF CountInv, ChunkBytes, ByteSet

\* What cell_body_add_offset gives up for a chunk are entries of the ring: those
\* it merges, and the entry below the top when the directory needs the room.
LEMMA GoneInRing ==
    ASSUME RingInv(body, top, next, dir), NEW c \in Checksums, NotOnTop(c),
           NEW S, S \subseteq DOMAIN body
    PROVE  /\ PopTop(S).gone \subseteq DOMAIN body
           /\ PopTop(S).gone \subseteq S \cup {Below}
           /\ Below \in DOMAIN body /\ End(Below) = top
<1>1. Start \in Nat /\ Start < top /\ RingInv(body, top, Start, dir) /\ top \in Nat
  BY StartFacts DEF RingInv
<1>2. top # 0
  BY <1>1
<1>3. Below \in DOMAIN body /\ End(Below) = top
  BY <1>1, <1>2, BelowFacts
<1>4. PopTop(S).gone = S \cup Pop(S) /\ Pop(S) \subseteq {Below}
  BY DEF PopTop, Pop
<1> QED
  BY <1>3, <1>4

\* Every step keeps the counters in step with the directory.
LEMMA StepCountInv ==
    ASSUME FieldsWide, IInv, CountInv, [Next]_vars
    PROVE  CountInv'
<1>0. RingInv(body, top, next, dir) /\ top \in Nat
  BY DEF IInv, RingInv
<1>1. ASSUME NEW c \in Checksums, AddTop(c)
      PROVE  CountInv'
  <2>1. HeaderUpdate({}, c, top) /\ c \notin DOMAIN dir
    BY <1>1 DEF AddTop, CanAdd, HasChunk
  <2> QED
    BY <1>0, <2>1, HeaderUpdateCounts
<1>2. ASSUME NEW c \in Checksums, AddReplace(c)
      PROVE  CountInv'
  <2>1. /\ HeaderUpdate(PopTop({Start}).gone, c, Start) /\ c \notin DOMAIN dir
        /\ NotOnTop(c)
    BY <1>2 DEF AddReplace, SameSize, CanAdd, HasChunk
  <2>2. Start \in DOMAIN body /\ Start \in Nat
    BY <1>0, <2>1, StartFacts
  <2>3. PopTop({Start}).gone \subseteq DOMAIN body
    BY <1>0, <2>1, <2>2, GoneInRing
  <2> QED
    BY <1>0, <2>1, <2>2, <2>3, HeaderUpdateCounts
<1>3. ASSUME NEW c \in Checksums, AddSplit(c)
      PROVE  CountInv'
  <2>1. PICK last \in Rest : /\ HeaderUpdate(PopTop(Merged(last)).gone, c, Start)
                             /\ c \notin DOMAIN dir /\ NotOnTop(c)
    BY <1>3 DEF AddSplit, Makes, CanAdd, HasChunk
  <2>2. Start \in Nat /\ Merged(last) \subseteq DOMAIN body
    BY <1>0, <2>1, StartFacts DEF Merged, Rest
  <2>3. PopTop(Merged(last)).gone \subseteq DOMAIN body
    BY <1>0, <2>1, <2>2, GoneInRing
  <2> QED
    BY <1>0, <2>1, <2>2, <2>3, HeaderUpdateCounts
<1>4. ASSUME NEW c \in Checksums, AddPushDown(c)
      PROVE  CountInv'
  <2>1. HeaderUpdate(Rest, c, Start) /\ c \notin DOMAIN dir /\ NotOnTop(c)
    BY <1>4 DEF AddPushDown, ReachesTop, CanAdd, HasChunk
  <2>2. Start \in Nat /\ Rest \subseteq DOMAIN body
    BY <1>0, <2>1, StartFacts DEF Rest
  <2> QED
    BY <1>0, <2>1, <2>2, HeaderUpdateCounts
<1>5. ASSUME NEW c \in Checksums, AddDropped(c)
      PROVE  CountInv'
  <2>1. /\ dir' = DirRemove(dir, Keys(Rest))
        /\ entry_count' = entry_count - Cardinality(UsedIn(Rest))
        /\ byte_count' = byte_count - Bytes(Rest)
    BY <1>5 DEF AddDropped
  <2>2. Rest \subseteq DOMAIN body
    BY DEF Rest
  <2>3. entry_count' = Cardinality(DOMAIN dir') /\ byte_count' = ChunkBytes(DOMAIN dir')
    BY <1>0, <2>1, <2>2, CountRemoved
  <2> QED
    BY <2>3 DEF CountInv, ChunkBytes, ByteSet
<1>6. CASE OpenReset
  <2>1. dir' = EmptyDir /\ entry_count' = 0 /\ byte_count' = 0
    BY <1>6 DEF OpenReset
  <2>2. DOMAIN EmptyDir = {} /\ ByteSet({}) = {}
    BY DEF EmptyDir, ByteSet
  <2>3. entry_count' = Cardinality(DOMAIN dir') /\ byte_count' = ChunkBytes(DOMAIN dir')
    BY <2>1, <2>2, FS_EmptySet DEF ChunkBytes
  <2> QED
    BY <2>3 DEF CountInv, ChunkBytes, ByteSet
<1>7. CASE UNCHANGED ring
  BY <1>7 DEF ring, CountInv, ChunkBytes, ByteSet
<1>8. ASSUME NEW c \in Checksums, AddAborts(c) \/ AddKilled(c)
      PROVE  UNCHANGED ring
  BY <1>8 DEF AddAborts, AddKilled, StopInAdd
<1>9. CASE OpenSane \/ ResetKilled \/ Close \/ UNCHANGED vars
  BY <1>7, <1>9 DEF OpenSane, ResetKilled, Close, ring, vars
<1> QED
  BY <1>1, <1>2, <1>3, <1>4, <1>5, <1>6, <1>7, <1>8, <1>9 DEF Next

\* The counters of a new file.
LEMMA InitCountInv == Init => CountInv
<1>1. DOMAIN EmptyDir = {} /\ ByteSet({}) = {}
  BY DEF EmptyDir, ByteSet
<1> QED
  BY <1>1, FS_EmptySet DEF Init, CountInv, ChunkBytes

\* entry_count and byte_count follow the directory.
LEMMA CountInvHolds ==
    ASSUME FieldsWide
    PROVE  Spec => [](IInv /\ CountInv)
<1>1. Init => IInv /\ CountInv
  BY InitIInv, InitCountInv
<1>2. IInv /\ CountInv /\ [Next]_vars => (IInv /\ CountInv)'
  BY StepIInv, StepCountInv
<1> QED
  BY <1>1, <1>2, PTL DEF Spec

\* The number of entries and of bytes that the header of a cell reports, and that
\* cell_header_add and cell_header_remove keep by adding and subtracting, is the
\* number of chunks indexed and the length of all that the ring holds.
THEOREM CellCountersMatch ==
    ASSUME FieldsWide
    PROVE  Spec => []CountersMatch
<1>1. IInv /\ CountInv => CountersMatch
  <2> SUFFICES ASSUME IInv, CountInv
               PROVE  CountersMatch
    OBVIOUS
  <2>1. RingInv(body, top, next, dir)
    BY DEF IInv
  <2>2. Bytes(DOMAIN body) = ChunkBytes(Keys(DOMAIN body))
    BY <2>1, CountedByDirectory
  <2>3. Keys(DOMAIN body) = DOMAIN dir
    BY <2>1, KeysOfRing
  <2> QED
    BY <2>2, <2>3 DEF CountInv, CountersMatch
<1> QED
  BY <1>1, CountInvHolds, PTL


-----------------------------------------------------------------------------
(* What a reopened cell still has                                          *)

\* A slab whose last update completed passes cell_header_sane.
WholeIsSane == ~torn => Sane

\* A new file, and every step after, keeps a whole slab sane.
LEMMA WholeIsSaneHolds ==
    ASSUME FieldsWide
    PROVE  Spec => []WholeIsSane
<1>1. Init => WholeIsSane
  BY DEF Init, WholeIsSane
<1>2. IInv /\ WholeIsSane /\ [Next]_vars => WholeIsSane'
  <2> SUFFICES ASSUME IInv, WholeIsSane, [Next]_vars
               PROVE  WholeIsSane'
    OBVIOUS
  <2>0. CodesInv
    BY DEF IInv
  <2>1. ASSUME NEW c \in Checksums, AddReturnsTrue(c)
        PROVE  WholeIsSane'
    <3>1. up /\ Completed
      BY <2>1 DEF AddReturnsTrue, AddTop, AddReplace, AddSplit, AddPushDown,
                  AddDropped, CanAdd
    <3> QED
      BY <2>0, <3>1 DEF Completed, IntegrityOnExit, CodesInv, WholeIsSane, Sane
  <2>2. ASSUME NEW c \in Checksums, AddAborts(c) \/ AddKilled(c)
        PROVE  WholeIsSane'
    <3>1. torn' = TRUE
      BY <2>2 DEF AddAborts, AddKilled, StopInAdd
    <3> QED
      BY <3>1 DEF WholeIsSane
  <2>3. CASE OpenSane \/ Close
    BY <2>3 DEF OpenSane, Close, codes, WholeIsSane, Sane
  <2>4. CASE OpenReset
    BY <2>4 DEF OpenReset, WholeIsSane, Sane
  <2>5. CASE ResetKilled
    BY <2>5 DEF ResetKilled, WholeIsSane
  <2>6. CASE UNCHANGED vars
    BY <2>6 DEF vars, WholeIsSane, Sane
  <2> QED
    BY <2>1, <2>2, <2>3, <2>4, <2>5, <2>6 DEF Next, AddReturnsTrue
<1> QED
  BY <1>1, <1>2, CellInductive, PTL DEF Spec

\* cell_init finds everything that was in the cell when it was last closed, or when
\* its process stopped outside cell_add_chunk.
THEOREM CellReopenKeepsChunks ==
    ASSUME FieldsWide
    PROVE  Spec => ReopenKeepsChunks
<1>1. WholeIsSane /\ [Next]_vars => [~up /\ up' /\ ~torn => ring' = ring]_vars
  <2> SUFFICES ASSUME WholeIsSane, Next, ~up, up', ~torn
               PROVE  ring' = ring
    BY DEF vars
  <2>1. ASSUME NEW c \in Checksums, CanAdd(c)
        PROVE  FALSE
    BY <2>1 DEF CanAdd
  <2>2. CASE OpenSane
    BY <2>2 DEF OpenSane
  <2>3. CASE OpenReset
    BY <2>3 DEF OpenReset, WholeIsSane
  <2>4. CASE ResetKilled \/ Close
    BY <2>4 DEF ResetKilled, Close
  <2> QED
    BY <2>1, <2>2, <2>3, <2>4
       DEF Next, AddTop, AddReplace, AddSplit, AddPushDown, AddDropped,
           AddAborts, AddKilled
<1>2. Spec => [][Next]_vars
  BY PTL DEF Spec
<1> QED
  BY <1>1, <1>2, WholeIsSaneHolds, PTL DEF ReopenKeepsChunks

-----------------------------------------------------------------------------
(* What an addition gives up                                               *)

\* A chunk that is no longer indexed was at one of the entries given up.
LEMMA EvictedIsGone ==
    ASSUME NEW n, RingInv(body, top, n, dir), NEW G, G \subseteq DOMAIN body,
           DOMAIN DirRemove(dir, Keys(G)) \subseteq DOMAIN dir',
           NEW p \in UsedIn(DOMAIN body), body[p].checksum \notin DOMAIN dir'
    PROVE  p \in G
<1>1. Indexed(body, dir) /\ p \in DOMAIN body /\ ~body[p].free
  BY DEF RingInv, UsedIn
<1>2. body[p].checksum \in DOMAIN dir /\ dir[body[p].checksum].offset = p
  BY <1>1 DEF Indexed
<1>3. body[p].checksum \in Keys(G)
  BY <1>2 DEF DirRemove
<1>4. PICK q \in G : ~body[q].free /\ body[q].checksum = body[p].checksum
  BY <1>3 DEF Keys, UsedIn
<1>5. q \in DOMAIN body /\ dir[body[q].checksum].offset = q
  BY <1>1, <1>4 DEF Indexed
<1> QED
  BY <1>2, <1>4, <1>5

\* An entry of the ring from Start on is Start or comes after another such entry.
LEMMA EntryBefore ==
    ASSUME NEW n, RingInv(body, top, n, dir), Start \in DOMAIN body,
           NEW p \in DOMAIN body, Start < p
    PROVE  \E q \in Rest : q < p /\ End(q) = p
<1>1. /\ Start \in Nat /\ p \in Nat /\ top \in Nat /\ p <= top /\ p # 0
      /\ H \in Nat \ {0} /\ body[p] \in Entries
  BY CellAssumption DEF RingInv, BodyType, Tiled
<1> DEFINE q == p - H - body[p].prev
<1>2. q \in DOMAIN body /\ End(q) = p
  BY <1>1 DEF RingInv, Tiled, End
<1>3. q < p /\ q \in Nat /\ q # top
  BY <1>1, <1>2 DEF Entries, RingInv, BodyType
<1>4. \A r \in DOMAIN body : r <= q \/ r >= End(q)
  BY <1>2, <1>3 DEF RingInv, Tiled, End
<1>5. Start <= q
  BY <1>1, <1>2, <1>4
<1> QED
  BY <1>1, <1>2, <1>3, <1>5 DEF Rest

\* Additions evict what lies within the room they need from the write position on,
\* and the entry below the top.
LEMMA StepEvicts ==
    ASSUME IInv, NEW c \in Checksums, AddReturnsTrue(c),
           NEW p \in UsedIn(DOMAIN body), body[p].checksum \notin DOMAIN dir'
    PROVE  \/ Start <= p /\ p - (Start + H) < SizeOf[c] + H
           \/ End(p) = top
<1> DEFINE Near == Start <= p /\ p - (Start + H) < SizeOf[c] + H
<1>0. /\ RingInv(body, top, next, dir) /\ p \in DOMAIN body /\ p \in Nat
      /\ H \in Nat \ {0} /\ SizeOf[c] \in Nat /\ ~body[p].free
  BY CellAssumption DEF IInv, RingInv, BodyType, UsedIn
<1>1. ASSUME NEW G, NEW at, HeaderUpdate(G, c, at), G \subseteq DOMAIN body
      PROVE  p \in G
  <2>1. DOMAIN DirRemove(dir, Keys(G)) \subseteq DOMAIN dir'
    BY <1>1 DEF HeaderUpdate, DirAdd
  <2> QED
    BY <1>0, <1>1, <2>1, EvictedIsGone
<1>2. CASE AddTop(c)
  BY <1>1, <1>2 DEF AddTop
<1>3. CASE AddReplace(c)
  <2>1. HeaderUpdate(PopTop({Start}).gone, c, Start) /\ NotOnTop(c)
    BY <1>3 DEF AddReplace, SameSize
  <2>2. Start \in DOMAIN body /\ Start \in Nat
    BY <1>0, <2>1, StartFacts
  <2>3. /\ PopTop({Start}).gone \subseteq {Start} \cup {Below}
        /\ PopTop({Start}).gone \subseteq DOMAIN body /\ End(Below) = top
    BY <1>0, <2>1, <2>2, GoneInRing
  <2>4. p = Start \/ p = Below
    BY <1>1, <2>1, <2>3
  <2> QED
    BY <1>0, <2>2, <2>3, <2>4
<1>4. CASE AddSplit(c)
  <2>1. PICK last \in Rest : /\ HeaderUpdate(PopTop(Merged(last)).gone, c, Start)
                             /\ Makes(c, last) /\ NotOnTop(c)
    BY <1>4 DEF AddSplit, Makes
  <2>2. /\ Start \in DOMAIN body /\ Start \in Nat /\ Merged(last) \subseteq DOMAIN body
    BY <1>0, <2>1, StartFacts DEF Merged, Rest
  <2>3. /\ PopTop(Merged(last)).gone \subseteq Merged(last) \cup {Below}
        /\ PopTop(Merged(last)).gone \subseteq DOMAIN body /\ End(Below) = top
    BY <1>0, <2>1, <2>2, GoneInRing
  <2>4. p \in Merged(last) \/ p = Below
    BY <1>1, <2>1, <2>3
  <2>5. ASSUME p \in Merged(last), p # Start
        PROVE  Near
    <3>1. Start < p /\ p <= last /\ last \in Nat
      BY <1>0, <2>2, <2>5 DEF Merged, Rest, IInv, RingInv, BodyType
    <3>2. PICK q \in Rest : q < p /\ End(q) = p
      BY <1>0, <2>2, <3>1, EntryBefore
    <3>3. q \in Nat /\ q < last
      BY <1>0, <3>1, <3>2 DEF Rest, RingInv, BodyType
    <3>4. ~Enough(c, q)
      BY <2>1, <3>3 DEF Makes
    <3> QED
      BY <1>0, <2>2, <3>1, <3>2, <3>4 DEF Enough
  <2> QED
    BY <1>0, <2>2, <2>3, <2>4, <2>5
<1>5. CASE AddPushDown(c) \/ AddDropped(c)
  <2>1. ReachesTop(c) /\ NotOnTop(c)
    BY <1>5 DEF AddPushDown, AddDropped, ReachesTop
  <2>2. Start \in DOMAIN body /\ Start \in Nat /\ Rest \subseteq DOMAIN body
    BY <1>0, <2>1, StartFacts DEF Rest
  <2>3. DOMAIN DirRemove(dir, Keys(Rest)) \subseteq DOMAIN dir'
    BY <1>5 DEF AddPushDown, AddDropped, HeaderUpdate, DirAdd
  <2>4. p \in Rest
    BY <1>0, <2>2, <2>3, EvictedIsGone
  <2>5. ASSUME p # Start
        PROVE  Near
    <3>1. Start < p /\ p # top
      BY <1>0, <2>2, <2>4, <2>5 DEF Rest, RingInv
    <3>2. PICK q \in Rest : q < p /\ End(q) = p
      BY <1>0, <2>2, <3>1, EntryBefore
    <3>3. ~Enough(c, q)
      BY <2>1, <3>1, <3>2 DEF ReachesTop
    <3> QED
      BY <1>0, <2>2, <3>1, <3>2, <3>3 DEF Enough
  <2> QED
    BY <1>0, <2>2, <2>5
<1> QED
  BY <1>2, <1>3, <1>4, <1>5 DEF AddReturnsTrue

\* cell_add_chunk never throws out more than it has to: what it evicts lies within
\* the room the chunk and a left-over header need, or is the entry below the top.
THEOREM CellEvictsLittle ==
    ASSUME FieldsWide
    PROVE  Spec => EvictsLittle
<1> DEFINE A == \A c \in Checksums : AddReturnsTrue(c) =>
                  \A p \in UsedIn(DOMAIN body) :
                    body[p].checksum \notin DOMAIN dir' =>
                      \/ Start <= p /\ p - (Start + H) < SizeOf[c] + H
                      \/ End(p) = top
<1>1. IInv => A
  BY StepEvicts
<1>2. IInv => [A]_vars
  BY <1>1
<1> QED
  BY <1>2, CellInductive, PTL DEF EvictsLittle


-----------------------------------------------------------------------------
(* The counters stay positive                                              *)

\* The chunker makes no empty chunk.
NoEmptyChunk == \A c \in Checksums : SizeOf[c] > 0

\* Half of the slab, the half that the directory cannot take, has room for three
\* of the longest entries, and for what made the last chunk not fit on top.
LargeSlab == BodySize >= 7 * MaxChunk + 14 * H + D

\* The write position is at the bottom only when the ring is empty.
NextInv == next = 0 => top = 0

\* As long as one chunk stays, cell_header_remove leaves both counters positive.
LEMMA OneStays ==
    ASSUME NoEmptyChunk, NEW n, RingInv(body, top, n, dir), CountInv,
           NEW G, G \subseteq DOMAIN body,
           NEW q \in DOMAIN body, ~body[q].free, q \notin G
    PROVE  ~Drained(G)
<1> DEFINE R == DOMAIN DirRemove(dir, Keys(G))
           c == body[q].checksum
<1>1. /\ R \in SUBSET Checksums /\ R \subseteq DOMAIN dir
      /\ entry_count - Cardinality(UsedIn(G)) = Cardinality(R)
      /\ byte_count - Bytes(G) = ChunkBytes(R)
  BY CountRemoved
<1>2. Indexed(body, dir)
  BY DEF RingInv
<1>3. c \in DOMAIN dir /\ dir[c].offset = q
  BY <1>2 DEF Indexed
<1>4. c \notin Keys(G)
  BY <1>2, <1>3 DEF Keys, UsedIn, Indexed
<1>5. c \in R
  BY <1>3, <1>4 DEF DirRemove
<1> HIDE DEF R, c
<1>6. {c} \in SUBSET R /\ R \ {c} \in SUBSET Checksums /\ c \in Checksums
  BY <1>1, <1>5
<1>7. /\ Cardinality(R) = Cardinality(R \ {c}) + Cardinality({c})
      /\ ChunkBytes(R) = ChunkBytes(R \ {c}) + ChunkBytes({c})
  BY <1>1, <1>6, CountRest
<1>8. Cardinality({c}) = 1 /\ ChunkBytes({c}) = SizeOf[c]
  BY <1>6, FS_Singleton, BytesOfOne
<1>9. Cardinality(R \ {c}) \in Nat /\ ChunkBytes(R \ {c}) \in Nat
  BY <1>6, ChecksumsFinite, ByteSetFinite
<1>10. SizeOf[c] \in Nat /\ SizeOf[c] > 0
  BY <1>6, CellAssumption DEF NoEmptyChunk
<1>11. Cardinality(R) > 0 /\ ChunkBytes(R) > 0
  BY <1>7, <1>8, <1>9, <1>10
<1>12. /\ ~(Cardinality(R) <= 0) /\ ~(ChunkBytes(R) <= 0)
  BY <1>7, <1>8, <1>9, <1>10, <1>11
<1> QED
  BY <1>1, <1>12 DEF Drained

\* Every entry of the overflow area belongs to an entry of the ring, whose header is
\* no shorter: the overflow area takes no more than the ring.
LEMMA OverflowBelowTop ==
    ASSUME NEW n, RingInv(body, top, n, dir)
    PROVE  D * Cardinality(Overflow(dir)) <= top
<1> DEFINE O == Overflow(dir)
           P == O \X (0 .. D - 1)
           T == 0 .. top - 1
           f == [x \in P |-> dir[x[1]].offset + x[2]]
<1>1. /\ DirType(dir) /\ Indexed(body, dir) /\ Tiled(body, top) /\ BodyType(body)
      /\ top \in Nat /\ H \in Nat /\ D \in Nat /\ D > 0 /\ D <= H
  BY CellAssumption DEF RingInv
<1>2. ASSUME NEW k \in O
      PROVE  /\ dir[k].offset \in DOMAIN body /\ dir[k].offset \in Nat
             /\ body[dir[k].offset].checksum = k /\ dir[k].offset + H <= top
             /\ \A q \in DOMAIN body : q <= dir[k].offset \/ q >= dir[k].offset + H
  <2>1. /\ dir[k].offset \in DOMAIN body /\ ~body[dir[k].offset].free
        /\ body[dir[k].offset].checksum = k
    BY <1>1, <1>2 DEF Indexed, Overflow
  <2> DEFINE p == dir[k].offset
  <2> HIDE DEF p
  <2>2. p \in DOMAIN body /\ p # top /\ p \in Nat /\ p <= top
    BY <1>1, <2>1 DEF Tiled, BodyType, p
  <2>3. body[p].size \in Nat /\ DOMAIN body \subseteq Nat
    BY <1>1, <2>2 DEF BodyType, Entries
  <2>4. /\ \A q \in DOMAIN body : q <= p \/ q >= p + H + body[p].size
        /\ top \in DOMAIN body
    BY <1>1, <2>2 DEF Tiled, EndIn
  <2>5. p + H <= top /\ \A q \in DOMAIN body : q <= p \/ q >= p + H
    BY <1>1, <2>2, <2>3, <2>4
  <2> QED
    BY <2>1, <2>2, <2>5 DEF p
<1>3. IsFiniteSet(O) /\ Cardinality(O) \in Nat
  BY <1>1, OverflowFinite
<1>4. IsFiniteSet(0 .. D - 1) /\ Cardinality(0 .. D - 1) = D
  BY <1>1, FS_Interval
<1>5. IsFiniteSet(T) /\ Cardinality(T) = top
  BY <1>1, FS_Interval
<1>6. Cardinality(P) = Cardinality(O) * Cardinality(0 .. D - 1)
  BY <1>3, <1>4, FS_Product
<1>7. f \in Injection(P, T)
  <2>1. \A x \in P : x[1] \in O /\ x[2] \in 0 .. D - 1 /\ x = <<x[1], x[2]>>
    OBVIOUS
  <2> HIDE DEF P, O
  <2>2. \A x \in P : f[x] \in T
    BY <1>1, <1>2, <2>1
  <2>3. ASSUME NEW x \in P, NEW y \in P, f[x] = f[y]
        PROVE  x = y
    <3>1. dir[x[1]].offset + x[2] = dir[y[1]].offset + y[2]
      BY <2>3
    <3>2. dir[x[1]].offset = dir[y[1]].offset
      BY <1>1, <1>2, <2>1, <3>1
    <3>3. x[1] = y[1] /\ x[2] = y[2]
      BY <1>2, <2>1, <3>1, <3>2
    <3> QED
      BY <2>1, <3>3
  <2> QED
    BY <2>2, <2>3 DEF Injection, IsInjective
<1> HIDE DEF f, P, T, O
<1>8. Cardinality(P) <= Cardinality(T)
  BY <1>5, <1>7, FS_Injection
<1>9. Cardinality(O) * D <= top
  BY <1>4, <1>5, <1>6, <1>8
<1> QED
  BY <1>1, <1>3, <1>9 DEF O

\* When the ring starts again at the bottom it has more than three entries.
LEMMA HighTop ==
    ASSUME LargeSlab, RingInv(body, top, next, dir), NEW c \in Checksums,
           ~FitsOnTop(top, dir, SizeOf[c])
    PROVE  top >= 3 * MaxChunk + 6 * H
<1> DEFINE over == D * Cardinality(Overflow(dir))
<1>1. /\ top \in Nat /\ H \in Nat /\ D \in Nat /\ MaxChunk \in Nat /\ BodySize \in Nat
      /\ SizeOf[c] \in Nat /\ SizeOf[c] <= MaxChunk /\ D <= H
      /\ Cardinality(Overflow(dir)) \in Nat
  BY CellAssumption, OverflowFinite DEF RingInv
<1>2. over \in Nat /\ over <= top
  BY <1>1, OverflowBelowTop
<1>3. ~(BodySize - (top + H) - over >= SizeOf[c] + H + D)
  BY DEF FitsOnTop, FreeSpace
<1> HIDE DEF over
<1> QED
  BY <1>1, <1>2, <1>3 DEF LargeSlab

\* The entry before the write position holds a chunk, and lies below what is given up.
LEMMA UsedBeforeStart ==
    ASSUME RingInv(body, top, next, dir), NEW c \in Checksums, NotOnTop(c), Start # 0
    PROVE  \E q \in DOMAIN body : ~body[q].free /\ q < Start /\ q # Below
<1>1. /\ Start \in DOMAIN body /\ Start \in Nat /\ Start < top /\ top \in Nat
      /\ RingInv(body, top, Start, dir) /\ H \in Nat \ {0} /\ body[Start] \in Entries
  BY StartFacts, CellAssumption DEF RingInv, BodyType
<1> DEFINE q == Start - H - body[Start].prev
<1>2. q \in DOMAIN body /\ End(q) = Start
  BY <1>1 DEF RingInv, Tiled, End
<1>3. q < Start /\ q \in Nat
  BY <1>1, <1>2 DEF Entries, RingInv, BodyType
<1>4. ~body[q].free
  BY <1>1, <1>2, <1>3 DEF RingInv
<1>5. Below \in Nat /\ Start <= Below
  <2>1. top # 0
    BY <1>1
  <2>2. Below \in Nat /\ \A r \in DOMAIN body : r <= Below \/ r = top
    BY <1>1, <2>1, BelowFacts
  <2> QED
    BY <1>1, <2>2
<1> HIDE DEF q
<1>6. q # Below
  BY <1>1, <1>3, <1>5
<1> QED
  BY <1>2, <1>3, <1>4, <1>6

\* The entry after x holds a chunk and is not the one below the top, when there is
\* room for one more entry after it.
LEMMA UsedAfter ==
    ASSUME RingInv(body, top, next, dir), next = top, NEW x \in DOMAIN body, x # top,
           End(x) + MaxChunk + 2 * H <= top
    PROVE  /\ End(x) \in DOMAIN body /\ x < End(x) /\ ~body[End(x)].free
           /\ End(x) # Below
<1>1. /\ top \in Nat /\ H \in Nat \ {0} /\ MaxChunk \in Nat
      /\ Tiled(body, top) /\ BodyType(body) /\ x \in Nat /\ body[x].size \in Nat
  BY CellAssumption DEF RingInv, BodyType, Entries
<1>2. End(x) \in DOMAIN body /\ x < End(x) /\ End(x) \in Nat
  BY <1>1 DEF Tiled, End, EndIn, BodyType
<1>3. End(x) # top /\ top # 0
  BY <1>1, <1>2
<1>4. ~body[End(x)].free
  BY <1>2, <1>3 DEF RingInv
<1>5. body[End(x)].size \in Nat /\ body[End(x)].size < MaxChunk + H
  BY <1>1, <1>2 DEF RingInv, BodyType, Entries
<1>6. End(End(x)) = End(x) + H + body[End(x)].size
  BY DEF End, EndIn
<1>7. End(End(x)) < top
  BY <1>1, <1>2, <1>5, <1>6
<1>8. End(Below) = top
  BY <1>3, BelowFacts
<1> QED
  BY <1>1, <1>2, <1>4, <1>7, <1>8


\* An assertion on the counters fails only when all chunks are removed.
LEMMA FailureDrains ==
    ASSUME NEW S, Failure(S, Pop(S)) = "counters"
    PROVE  Drained(S) \/ Drained(S \cup {Below})
<1>1. Pop(S) = {} \/ Pop(S) = {Below}
  BY DEF Pop
<1> QED
  BY <1>1 DEF Failure

\* cell_body_add_offset leaves a chunk in the ring.
LEMMA AddLeavesOne ==
    ASSUME LargeSlab, RingInv(body, top, next, dir), NextInv,
           NEW c \in Checksums, NotOnTop(c), NEW S,
           \/ SameSize(c) /\ S = {Start}
           \/ \E last \in Rest : Makes(c, last) /\ S = Merged(last)
    PROVE  /\ S \subseteq DOMAIN body /\ Below \in DOMAIN body
           /\ \E q \in DOMAIN body : ~body[q].free /\ q \notin S /\ q # Below
<1>1. /\ Start \in DOMAIN body /\ Start \in Nat /\ Start < top /\ top \in Nat
      /\ DOMAIN body \subseteq Nat /\ H \in Nat \ {0} /\ MaxChunk \in Nat
      /\ SizeOf[c] \in Nat /\ SizeOf[c] <= MaxChunk
  BY StartFacts, CellAssumption DEF RingInv, BodyType
<1>2. S \subseteq Rest \cup {Start}
  BY DEF Merged
<1>3. \A p \in S : p \in DOMAIN body /\ Start <= p
  BY <1>1, <1>2 DEF Rest
<1>4. Below \in DOMAIN body
  BY <1>1, BelowFacts
<1>5. CASE Start # 0
  <2>1. PICK q \in DOMAIN body : ~body[q].free /\ q < Start /\ q # Below
    BY <1>5, UsedBeforeStart
  <2>2. q \notin S
    BY <1>1, <1>3, <2>1
  <2> QED
    BY <1>3, <1>4, <2>1, <2>2
<1>6. CASE Start = 0
  <2>1. next = top
    BY <1>1, <1>6 DEF Start, NextInv
  <2>2. top >= 3 * MaxChunk + 6 * H
    BY <2>1, HighTop DEF NotOnTop
  <2>3. \A x \in DOMAIN body : /\ End(x) = x + H + body[x].size /\ body[x].size \in Nat
                               /\ body[x].size < MaxChunk + H
    BY DEF End, EndIn, RingInv, BodyType, Entries
  <2>4. ASSUME NEW x \in DOMAIN body, x < MaxChunk + 2 * H, \A p \in S : p <= x
        PROVE  \E q \in DOMAIN body : ~body[q].free /\ q \notin S /\ q # Below
    <3>1. x \in Nat /\ x # top /\ End(x) \in Nat
      BY <1>1, <2>2, <2>3, <2>4
    <3>2. End(x) + MaxChunk + 2 * H <= top
      BY <1>1, <2>2, <2>3, <2>4, <3>1
    <3>3. /\ End(x) \in DOMAIN body /\ x < End(x) /\ ~body[End(x)].free
          /\ End(x) # Below
      BY <2>1, <3>1, <3>2, UsedAfter
    <3>4. End(x) \notin S
      BY <1>1, <1>3, <2>4, <3>1, <3>3
    <3> QED
      BY <3>3, <3>4
  <2>5. CASE S = {Start}
    <3>1. Start < MaxChunk + 2 * H /\ \A p \in S : p <= Start
      BY <1>1, <1>6, <2>5
    <3> QED
      BY <1>1, <1>3, <1>4, <2>4, <3>1
  <2>6. ASSUME NEW last \in Rest, Makes(c, last), S = Merged(last)
        PROVE  \E q \in DOMAIN body : ~body[q].free /\ q \notin S /\ q # Below
    <3>1. last \in DOMAIN body /\ last \in Nat /\ Start <= last
      BY <1>1 DEF Rest
    <3>2. last < MaxChunk + 2 * H
      <4>1. CASE last = Start
        BY <1>1, <1>6, <4>1
      <4>2. CASE last # Start
        <5>1. Start < last
          BY <1>1, <3>1, <4>2
        <5>2. PICK q \in Rest : q < last /\ End(q) = last
          BY <1>1, <3>1, <5>1, EntryBefore
        <5>3. ~Enough(c, q)
          BY <2>6, <5>2 DEF Makes
        <5> QED
          BY <1>1, <1>6, <3>1, <5>2, <5>3 DEF Enough
      <4> QED
        BY <4>1, <4>2
    <3>3. \A p \in S : p <= last
      BY <2>6 DEF Merged
    <3> QED
      BY <2>4, <3>1, <3>2, <3>3
  <2> QED
    BY <1>3, <1>4, <2>5, <2>6
<1> QED
  BY <1>5, <1>6

\* Pushing down the top leaves a chunk in the ring.
LEMMA PushDownLeavesOne ==
    ASSUME LargeSlab, RingInv(body, top, next, dir), NextInv,
           NEW c \in Checksums, ReachesTop(c)
    PROVE  \E q \in DOMAIN body : ~body[q].free /\ q \notin Rest
<1>0. NotOnTop(c)
  BY DEF ReachesTop
<1>1. /\ Start \in DOMAIN body /\ Start \in Nat /\ Start < top /\ top \in Nat
      /\ DOMAIN body \subseteq Nat /\ H \in Nat \ {0} /\ MaxChunk \in Nat
      /\ SizeOf[c] \in Nat /\ SizeOf[c] <= MaxChunk
  BY <1>0, StartFacts, CellAssumption DEF RingInv, BodyType
<1>2. CASE Start # 0
  <2>1. PICK q \in DOMAIN body : ~body[q].free /\ q < Start /\ q # Below
    BY <1>0, <1>2, UsedBeforeStart
  <2> QED
    BY <1>1, <2>1 DEF Rest
<1>3. CASE Start = 0
  <2>1. next = top
    BY <1>1, <1>3 DEF Start, NextInv
  <2>2. top >= 3 * MaxChunk + 6 * H
    BY <1>0, <2>1, HighTop DEF NotOnTop
  <2>3. Below \in DOMAIN body /\ Below \in Nat /\ Below < top /\ End(Below) = top
    BY <1>1, BelowFacts
  <2>4. /\ End(Below) = Below + H + body[Below].size /\ body[Below].size \in Nat
        /\ body[Below].size < MaxChunk + H
    BY <2>3 DEF End, EndIn, RingInv, BodyType, Entries
  <2>5. Below > 2 * MaxChunk + 3 * H /\ Start < Below
    BY <1>1, <1>3, <2>2, <2>3, <2>4
  <2>6. PICK q \in Rest : q < Below /\ End(q) = Below
    BY <1>1, <2>3, <2>5, EntryBefore
  <2>7. Enough(c, q)
    BY <1>1, <1>3, <2>3, <2>5, <2>6 DEF Enough
  <2>8. End(q) = top
    BY <2>6, <2>7 DEF ReachesTop
  <2> QED
    BY <2>3, <2>6, <2>8
<1> QED
  BY <1>2, <1>3

\* No call of cell_add_chunk stops at an assertion on the counters.
LEMMA AbortKeepsCounters ==
    ASSUME LargeSlab, NoEmptyChunk, IInv, CountInv, NextInv,
           NEW c \in Checksums, AddAborts(c)
    PROVE  failed' # "counters"
<1>0. RingInv(body, top, next, dir)
  BY DEF IInv
<1>1. PICK reason \in Assertions :
        /\ \/ SameSize(c) /\ reason = Failure({Start}, Pop({Start}))
           \/ \E last \in Rest :
                /\ Makes(c, last)
                /\ reason = Failure(Merged(last), Pop(Merged(last)))
           \/ ReachesTop(c) /\ reason = Failure(Rest, {})
        /\ failed' = reason
  BY DEF AddAborts, StopInAdd
<1>2. ASSUME NEW S, NotOnTop(c),
             \/ SameSize(c) /\ S = {Start}
             \/ \E last \in Rest : Makes(c, last) /\ S = Merged(last)
      PROVE  Failure(S, Pop(S)) # "counters"
  <2>1. /\ S \subseteq DOMAIN body /\ Below \in DOMAIN body
        /\ \E q \in DOMAIN body : ~body[q].free /\ q \notin S /\ q # Below
    BY <1>0, <1>2, AddLeavesOne
  <2>2. ~Drained(S) /\ ~Drained(S \cup {Below})
    <3>1. PICK q \in DOMAIN body : ~body[q].free /\ q \notin S /\ q # Below
      BY <2>1
    <3>2. ~Drained(S)
      BY <1>0, <2>1, <3>1, OneStays
    <3>3. S \cup {Below} \subseteq DOMAIN body /\ q \notin S \cup {Below}
      BY <2>1, <3>1
    <3> QED
      BY <1>0, <3>1, <3>2, <3>3, OneStays
  <2> QED
    BY <2>2, FailureDrains
<1>3. CASE SameSize(c) /\ reason = Failure({Start}, Pop({Start}))
  BY <1>1, <1>2, <1>3 DEF SameSize
<1>4. ASSUME NEW last \in Rest, Makes(c, last),
             reason = Failure(Merged(last), Pop(Merged(last)))
      PROVE  failed' # "counters"
  BY <1>1, <1>2, <1>4 DEF Makes
<1>5. CASE ReachesTop(c) /\ reason = Failure(Rest, {})
  <2>1. PICK q \in DOMAIN body : ~body[q].free /\ q \notin Rest
    BY <1>0, <1>5, PushDownLeavesOne
  <2>2. Rest \subseteq DOMAIN body
    BY DEF Rest
  <2>3. ~Drained(Rest)
    BY <1>0, <2>1, <2>2, OneStays
  <2> QED
    BY <1>1, <1>5, <2>3 DEF Failure
<1> QED
  BY <1>1, <1>3, <1>4, <1>5

\* After every step the write position is at the bottom only in an empty ring.
LEMMA StepNextInv ==
    ASSUME IInv, NextInv, [Next]_vars
    PROVE  NextInv'
<1>0. RingInv(body, top, next, dir) /\ top \in Nat
  BY DEF IInv, RingInv
<1>1. ASSUME NEW c \in Checksums, NEW s \in Nat, next' = s + H + SizeOf[c]
      PROVE  NextInv'
  <2>1. H \in Nat \ {0} /\ SizeOf[c] \in Nat
    BY CellAssumption
  <2>2. next' # 0
    BY <1>1, <2>1
  <2> QED
    BY <2>2 DEF NextInv
<1>2. ASSUME NEW c \in Checksums, AddTop(c)
      PROVE  NextInv'
  BY <1>0, <1>1, <1>2 DEF AddTop
<1>3. ASSUME NEW c \in Checksums, AddReplace(c) \/ AddSplit(c)
      PROVE  NextInv'
  <2>1. NotOnTop(c) /\ next' = Start + H + SizeOf[c]
    BY <1>3 DEF AddReplace, AddSplit, SameSize, Makes
  <2>2. Start \in Nat
    BY <1>0, <2>1, StartFacts
  <2> QED
    BY <1>1, <2>1, <2>2
<1>4. ASSUME NEW c \in Checksums, AddPushDown(c) \/ AddDropped(c)
      PROVE  NextInv'
  <2>1. next' = top'
    BY <1>4 DEF AddPushDown, AddDropped
  <2> QED
    BY <2>1 DEF NextInv
<1>5. ASSUME NEW c \in Checksums, AddAborts(c) \/ AddKilled(c)
      PROVE  NextInv'
  BY <1>5 DEF AddAborts, AddKilled, StopInAdd, ring, NextInv
<1>6. CASE OpenSane \/ OpenReset \/ ResetKilled \/ Close \/ UNCHANGED vars
  BY <1>6 DEF OpenSane, OpenReset, ResetKilled, Close, ring, vars, NextInv
<1> QED
  BY <1>2, <1>3, <1>4, <1>5, <1>6 DEF Next

\* Every step keeps the assertions on the counters.
LEMMA StepPositive ==
    ASSUME LargeSlab, NoEmptyChunk, IInv, CountInv, NextInv, CountersStayPositive,
           [Next]_vars
    PROVE  CountersStayPositive'
<1>1. ASSUME NEW c \in Checksums, AddReturnsTrue(c)
      PROVE  CountersStayPositive'
  BY <1>1 DEF AddReturnsTrue, AddTop, AddReplace, AddSplit, AddPushDown, AddDropped,
              Completed, CountersStayPositive
<1>2. ASSUME NEW c \in Checksums, AddAborts(c)
      PROVE  CountersStayPositive'
  BY <1>2, AbortKeepsCounters DEF CountersStayPositive
<1>3. ASSUME NEW c \in Checksums, AddKilled(c)
      PROVE  CountersStayPositive'
  BY <1>3 DEF AddKilled, StopInAdd, CountersStayPositive
<1>4. CASE OpenSane \/ OpenReset \/ ResetKilled \/ Close \/ UNCHANGED vars
  BY <1>4 DEF OpenSane, OpenReset, ResetKilled, Close, vars, CountersStayPositive
<1> QED
  BY <1>1, <1>2, <1>3, <1>4 DEF Next, AddReturnsTrue

\* In a slab some seven times as large as the longest chunk, with no empty chunks,
\* the assertions of cell_header_remove, that both counters are positive after each
\* removal, never stop the process.
THEOREM CellCountersStayPositive ==
    ASSUME FieldsWide, LargeSlab, NoEmptyChunk
    PROVE  Spec => []CountersStayPositive
<1>1. Init => NextInv /\ CountersStayPositive
  BY DEF Init, NextInv, CountersStayPositive
<1>2. IInv /\ CountInv /\ NextInv /\ CountersStayPositive /\ [Next]_vars
        => NextInv' /\ CountersStayPositive'
  BY StepNextInv, StepPositive
<1> QED
  BY <1>1, <1>2, CountInvHolds, PTL DEF Spec
=============================================================================
