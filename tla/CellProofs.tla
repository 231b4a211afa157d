----------------------------- MODULE CellProofs -----------------------------
(***************************************************************************)
(* Proofs about Cell, for every set of checksums, every assignment of      *)
(* sizes and blocks and every slab large enough for one chunk.             *)
(***************************************************************************)
EXTENDS Cell, FiniteSetTheorems, TLAPS

\* Every size that is stored in a body entry fits the bit-field: a chunk, and
\* the left-over when a chunk takes the place of longer ones.
FieldsWide == MaxChunk + H <= SizeMod

BodyType(b) ==
    /\ DOMAIN b \subseteq Nat
    /\ \A p \in DOMAIN b : b[p] \in Entries

-----------------------------------------------------------------------------
(* Entries                                                                 *)

\* A number below the limit of the bit-field is stored as it is.
LEMMA FieldIdentity ==
    ASSUME NEW n \in Nat, n < SizeMod
    PROVE  Field(n) = n
BY CellAssumption DEF Field

\* The length of every chunk fits the bit-field of cell_body_entry.size.
LEMMA ChunkSize ==
    ASSUME FieldsWide, NEW c \in Checksums
    PROVE  /\ SizeOf[c] \in Nat /\ SizeOf[c] <= MaxChunk
           /\ Field(SizeOf[c]) = SizeOf[c]
<1>1. SizeOf[c] \in Nat /\ SizeOf[c] <= MaxChunk /\ SizeOf[c] < SizeMod
  BY CellAssumption DEF FieldsWide
<1> QED
  BY <1>1, FieldIdentity

-----------------------------------------------------------------------------
(* Operators on the body keep it tiled.                                    *)

\* The entry below p ends at p, and no entry lies in between.
LEMMA EndsApart ==
    ASSUME NEW b, NEW t \in Nat, BodyType(b), Tiled(b, t),
           NEW p \in DOMAIN b, NEW q \in DOMAIN b, p < q
    PROVE  /\ p # t
           /\ EndIn(b, p) \in DOMAIN b
           /\ EndIn(b, p) <= q
           /\ p < EndIn(b, p)
BY CellAssumption DEF BodyType, Tiled, EndIn, Entries

\* What cell_body_set_top writes is an entry.
LEMMA TopEntryType ==
    ASSUME NEW previous \in Nat
    PROVE  TopEntry(previous) \in Entries
BY DEF TopEntry, Entries

\* What cell_body_write_chunk writes is an entry with the chunk's length.
LEMMA UsedEntryType ==
    ASSUME FieldsWide, NEW c \in Checksums, NEW previous \in Nat
    PROVE  /\ UsedEntry(c, previous) \in Entries
           /\ UsedEntry(c, previous).size = SizeOf[c]
BY ChunkSize DEF UsedEntry, Entries

\* What cell_body_add_offset writes for a left-over is a free entry of that size.
LEMMA FreeEntryType ==
    ASSUME NEW size \in Nat, size < SizeMod, NEW previous \in Nat
    PROVE  /\ FreeEntry(size, previous) \in Entries
           /\ FreeEntry(size, previous).size = size
           /\ FreeEntry(size, previous).prev = previous
           /\ FreeEntry(size, previous).free
           /\ ~FreeEntry(size, previous).top
BY FieldIdentity DEF FreeEntry, Entries

\* A body whose top is moved down to an entry s (cell_body_set_top) is tiled up to s.
LEMMA SetTopTiled ==
    ASSUME NEW b, NEW t \in Nat, BodyType(b), Tiled(b, t), NEW s \in DOMAIN b
    PROVE  BodyType(SetTop(b, s)) /\ Tiled(SetTop(b, s), s)
<1> DEFINE n == SetTop(b, s)
<1>0. s \in Nat /\ b[s] \in Entries /\ b[s].prev \in Nat
  BY DEF BodyType, Entries
<1>1. /\ DOMAIN n = {q \in DOMAIN b : q <= s}
      /\ n[s] = TopEntry(b[s].prev)
      /\ \A p \in DOMAIN n : p # s => n[p] = b[p]
  BY <1>0 DEF SetTop
<1> HIDE DEF n
<1>2. BodyType(n)
  BY <1>0, <1>1, TopEntryType DEF BodyType
<1>3. \A p \in DOMAIN n : p # s =>
        /\ EndIn(n, p) \in DOMAIN n
        /\ n[EndIn(n, p)].prev = n[p].size
        /\ \A q \in DOMAIN n : q <= p \/ q >= EndIn(n, p)
  <2> SUFFICES ASSUME NEW p \in DOMAIN n, p # s
               PROVE  /\ EndIn(n, p) \in DOMAIN n
                      /\ n[EndIn(n, p)].prev = n[p].size
                      /\ \A q \in DOMAIN n : q <= p \/ q >= EndIn(n, p)
    OBVIOUS
  <2>1. p \in DOMAIN b /\ p \in Nat /\ p < s
    BY <1>0, <1>1 DEF BodyType
  <2>2. n[p] = b[p] /\ EndIn(n, p) = EndIn(b, p)
    BY <1>1 DEF EndIn
  <2>3. EndIn(b, p) \in DOMAIN b /\ EndIn(b, p) <= s /\ p # t
    BY <2>1, EndsApart
  <2>4. n[EndIn(b, p)].prev = b[EndIn(b, p)].prev
    BY <1>1, <2>3 DEF TopEntry
  <2> QED
    BY <1>1, <2>1, <2>2, <2>3, <2>4 DEF Tiled
<1>4. \A p \in DOMAIN n : p # 0 =>
        /\ p - H - n[p].prev \in DOMAIN n
        /\ EndIn(n, p - H - n[p].prev) = p
  BY <1>0, <1>1, CellAssumption DEF Tiled, EndIn, TopEntry, BodyType, Entries
<1>5. \A p \in DOMAIN n : p <= s /\ (n[p].top <=> p = s)
  BY <1>0, <1>1 DEF Tiled, TopEntry, BodyType
<1>6. {0, s} \subseteq DOMAIN n /\ n[s].free
  BY <1>0, <1>1 DEF Tiled, TopEntry
<1> QED
  BY <1>2, <1>3, <1>4, <1>5, <1>6 DEF n, Tiled

\* A body with a chunk at s and a new top behind it (cell_body_add_top) is tiled.
LEMMA PutOnTopTiled ==
    ASSUME FieldsWide, NEW c \in Checksums,
           NEW b, NEW t \in Nat, BodyType(b), Tiled(b, t), NEW s \in DOMAIN b
    PROVE  /\ BodyType(PutOnTop(b, s, c))
           /\ Tiled(PutOnTop(b, s, c), s + H + SizeOf[c])
<1> DEFINE n == PutOnTop(b, s, c)
           e == s + H + SizeOf[c]
<1>0. /\ s \in Nat /\ b[s] \in Entries /\ b[s].prev \in Nat
      /\ SizeOf[c] \in Nat /\ Field(SizeOf[c]) = SizeOf[c]
      /\ e \in Nat /\ s < e
  BY ChunkSize, CellAssumption DEF BodyType, Entries
<1>1. /\ DOMAIN n = {q \in DOMAIN b : q < s} \cup {s, e}
      /\ \A p \in DOMAIN n : p < s => n[p] = b[p]
      /\ n[s] = UsedEntry(c, b[s].prev)
      /\ n[e] = TopEntry(SizeOf[c])
  BY <1>0 DEF PutOnTop
<1>2. /\ n[s] \in Entries /\ n[e] \in Entries
      /\ n[s].size = SizeOf[c] /\ n[s].prev = b[s].prev
      /\ n[e].size = 0 /\ n[e].prev = SizeOf[c]
      /\ ~n[s].free /\ ~n[s].top /\ n[e].free /\ n[e].top
  BY <1>0, <1>1, UsedEntryType, TopEntryType DEF UsedEntry, TopEntry
<1> HIDE DEF n, e
<1>3. BodyType(n)
  BY <1>0, <1>1, <1>2 DEF BodyType
<1>4. \A p \in DOMAIN n : p # e =>
        /\ EndIn(n, p) \in DOMAIN n
        /\ n[EndIn(n, p)].prev = n[p].size
        /\ \A q \in DOMAIN n : q <= p \/ q >= EndIn(n, p)
  <2> SUFFICES ASSUME NEW p \in DOMAIN n, p # e
               PROVE  /\ EndIn(n, p) \in DOMAIN n
                      /\ n[EndIn(n, p)].prev = n[p].size
                      /\ \A q \in DOMAIN n : q <= p \/ q >= EndIn(n, p)
    OBVIOUS
  <2>1. CASE p = s
    <3>1. EndIn(n, p) = e
      BY <2>1, <1>0, <1>2 DEF EndIn, e
    <3> QED
      BY <2>1, <3>1, <1>0, <1>1, <1>2 DEF BodyType
  <2>2. CASE p # s
    <3>1. p \in DOMAIN b /\ p \in Nat /\ p < s
      BY <2>2, <1>0, <1>1 DEF BodyType
    <3>2. n[p] = b[p] /\ EndIn(n, p) = EndIn(b, p)
      BY <3>1, <1>1 DEF EndIn
    <3>3. EndIn(b, p) \in DOMAIN b /\ EndIn(b, p) <= s /\ p # t
      BY <3>1, EndsApart
    <3>4. EndIn(b, p) \in DOMAIN n
      BY <3>3, <1>0, <1>1 DEF BodyType
    <3>5. n[EndIn(b, p)].prev = b[EndIn(b, p)].prev
      BY <3>3, <3>4, <1>0, <1>1, <1>2 DEF BodyType
    <3>6. \A q \in DOMAIN n : q <= p \/ q >= EndIn(n, p)
      BY <3>1, <3>2, <3>3, <1>0, <1>1 DEF Tiled, BodyType
    <3> QED
      BY <3>1, <3>2, <3>3, <3>4, <3>5, <3>6 DEF Tiled
  <2> QED
    BY <2>1, <2>2
<1>5. \A p \in DOMAIN n : p # 0 =>
        /\ p - H - n[p].prev \in DOMAIN n
        /\ EndIn(n, p - H - n[p].prev) = p
  <2> SUFFICES ASSUME NEW p \in DOMAIN n, p # 0
               PROVE  /\ p - H - n[p].prev \in DOMAIN n
                      /\ EndIn(n, p - H - n[p].prev) = p
    OBVIOUS
  <2>1. CASE p = e
    <3>1. p - H - n[p].prev = s
      BY <2>1, <1>0, <1>2, CellAssumption DEF e
    <3> QED
      BY <2>1, <3>1, <1>0, <1>1, <1>2 DEF EndIn, e
  <2>2. CASE p # e
    <3>1. p \in DOMAIN b /\ p \in Nat /\ p <= s /\ n[p].prev = b[p].prev
      BY <2>2, <1>0, <1>1, <1>2 DEF BodyType
    <3>2. PICK q \in DOMAIN b : q = p - H - b[p].prev /\ EndIn(b, q) = p
      BY <3>1 DEF Tiled
    <3>3. q \in Nat /\ q < p
      BY <3>1, <3>2, CellAssumption DEF BodyType, Entries
    <3>4. q \in DOMAIN n /\ n[q] = b[q]
      BY <3>1, <3>3, <1>0, <1>1
    <3> QED
      BY <3>1, <3>2, <3>4 DEF EndIn
  <2> QED
    BY <2>1, <2>2
<1>6. \A p \in DOMAIN n : p <= e /\ (n[p].top <=> p = e)
  BY <1>0, <1>1, <1>2 DEF Tiled, BodyType
<1>7. {0, e} \subseteq DOMAIN n /\ n[e].free
  BY <1>0, <1>1, <1>2 DEF Tiled, BodyType
<1> QED
  BY <1>3, <1>4, <1>5, <1>6, <1>7 DEF n, e, Tiled

\* Overwriting an entry with a chunk of its size keeps the body tiled.
LEMMA ReplaceTiled ==
    ASSUME FieldsWide, NEW c \in Checksums,
           NEW b, NEW t \in Nat, BodyType(b), Tiled(b, t),
           NEW s \in DOMAIN b, s # t, b[s].size = SizeOf[c]
    PROVE  BodyType(Replace(b, s, c)) /\ Tiled(Replace(b, s, c), t)
<1> DEFINE n == Replace(b, s, c)
<1>0. s \in Nat /\ b[s] \in Entries /\ b[s].prev \in Nat
  BY DEF BodyType, Entries
<1>1. /\ DOMAIN n = DOMAIN b
      /\ \A p \in DOMAIN n : p # s => n[p] = b[p]
      /\ n[s] = UsedEntry(c, b[s].prev)
  BY DEF Replace
<1>2. /\ n[s] \in Entries /\ ~n[s].top
      /\ n[s].size = b[s].size /\ n[s].prev = b[s].prev
  BY <1>0, <1>1, UsedEntryType DEF UsedEntry
<1> HIDE DEF n
<1>3. BodyType(n)
  BY <1>0, <1>1, <1>2 DEF BodyType
<1>4. \A p \in DOMAIN n :
        /\ n[p].size = b[p].size /\ n[p].prev = b[p].prev
        /\ EndIn(n, p) = EndIn(b, p)
        /\ n[p].top <=> p = t
  BY <1>1, <1>2 DEF EndIn, Tiled
<1> QED
  BY <1>1, <1>3, <1>4 DEF n, Tiled

\* Overwriting the entries from s up to e with a chunk and a left-over, with the back
\* pointer of e fixed, keeps the body tiled.
LEMMA SplitTiled ==
    ASSUME FieldsWide, NEW c \in Checksums,
           NEW b, NEW t \in Nat, BodyType(b), Tiled(b, t),
           NEW s \in DOMAIN b, NEW e \in DOMAIN b,
           NEW left \in Nat, left < SizeMod,
           e = s + H + SizeOf[c] + H + left
    PROVE  BodyType(Split(b, s, c, e)) /\ Tiled(Split(b, s, c, e), t)
<1> DEFINE n == Split(b, s, c, e)
           h == s + H + SizeOf[c]
<1>0. /\ s \in Nat /\ b[s] \in Entries /\ b[s].prev \in Nat
      /\ e \in Nat /\ b[e] \in Entries
      /\ SizeOf[c] \in Nat /\ Field(SizeOf[c]) = SizeOf[c]
      /\ H \in Nat /\ h \in Nat /\ s < h /\ h < e /\ e <= t
      /\ e - h - H = left /\ Field(left) = left
  BY ChunkSize, FieldIdentity, CellAssumption DEF BodyType, Entries, Tiled
<1>1. /\ DOMAIN n = {q \in DOMAIN b : q <= s \/ q >= e} \cup {h}
      /\ \A p \in DOMAIN n : p \notin {s, h, e} => n[p] = b[p]
      /\ n[s] = UsedEntry(c, b[s].prev)
      /\ n[h] = FreeEntry(left, SizeOf[c])
      /\ n[e] = [b[e] EXCEPT !.prev = left]
  BY <1>0 DEF Split
<1>2. /\ n[s] \in Entries /\ n[h] \in Entries /\ n[e] \in Entries
      /\ n[s].size = SizeOf[c] /\ n[s].prev = b[s].prev /\ ~n[s].top
      /\ n[h].size = left /\ n[h].prev = SizeOf[c] /\ ~n[h].top
      /\ n[e].size = b[e].size /\ n[e].prev = left
  <2>1. n[s] \in Entries /\ n[s].size = SizeOf[c] /\ n[s].prev = b[s].prev /\ ~n[s].top
    BY <1>0, <1>1, UsedEntryType DEF UsedEntry
  <2>2. n[h] \in Entries /\ n[h].size = left /\ n[h].prev = SizeOf[c] /\ ~n[h].top
    BY <1>0, <1>1, FreeEntryType
  <2>3. n[e] \in Entries /\ n[e].size = b[e].size /\ n[e].prev = left
    BY <1>0, <1>1 DEF Entries
  <2> QED
    BY <2>1, <2>2, <2>3
<1>3. (n[e].top <=> b[e].top) /\ (n[e].free <=> b[e].free)
  BY <1>0, <1>1 DEF Entries
<1> HIDE DEF n, h
<1>4. BodyType(n)
  BY <1>0, <1>1, <1>2 DEF BodyType
<1>5. EndIn(n, s) = h /\ EndIn(n, h) = e
  BY <1>0, <1>2 DEF EndIn, h
<1>6. \A p \in DOMAIN n : p # s /\ p # h =>
        p \in DOMAIN b /\ n[p].size = b[p].size /\ EndIn(n, p) = EndIn(b, p)
  BY <1>1, <1>2 DEF EndIn
<1>7. \A p \in DOMAIN n : p # t =>
        /\ EndIn(n, p) \in DOMAIN n
        /\ n[EndIn(n, p)].prev = n[p].size
        /\ \A q \in DOMAIN n : q <= p \/ q >= EndIn(n, p)
  <2> SUFFICES ASSUME NEW p \in DOMAIN n, p # t
               PROVE  /\ EndIn(n, p) \in DOMAIN n
                      /\ n[EndIn(n, p)].prev = n[p].size
                      /\ \A q \in DOMAIN n : q <= p \/ q >= EndIn(n, p)
    OBVIOUS
  <2>1. CASE p = s
    BY <2>1, <1>0, <1>1, <1>2, <1>5 DEF BodyType
  <2>3. CASE p = h
    <3>1. ASSUME NEW q \in DOMAIN n
          PROVE  q <= h \/ q >= e
      <4>1. q = h \/ (q \in DOMAIN b /\ (q <= s \/ q >= e))
        BY <1>1
      <4> QED
        BY <4>1, <1>0 DEF BodyType
    <3>2. e \in DOMAIN n
      BY <1>0, <1>1
    <3>3. n[e].prev = n[h].size
      BY <1>2
    <3> QED
      BY <2>3, <3>1, <3>2, <3>3, <1>5
  <2>2. CASE p \notin {s, h}
    <3> DEFINE f == EndIn(b, p)
    <3>1. /\ p \in DOMAIN b /\ p \in Nat /\ EndIn(n, p) = f
          /\ n[p].size = b[p].size
      BY <2>2, <1>6 DEF BodyType
    <3>2. /\ f \in DOMAIN b /\ f \in Nat /\ b[f].prev = b[p].size
          /\ \A q \in DOMAIN b : q <= p \/ q >= f
          /\ p < f
      BY <3>1, CellAssumption DEF Tiled, EndIn, BodyType, Entries
    <3> HIDE DEF f
    <3>3. CASE p < s
      <4>1. f <= s
        BY <3>1, <3>2, <3>3, <1>0
      <4>2. f \in DOMAIN n /\ n[f].prev = b[f].prev
        BY <4>1, <3>2, <1>0, <1>1, <1>2
      <4>3. \A q \in DOMAIN n : q <= p \/ q >= f
        BY <4>1, <3>1, <3>2, <1>0, <1>1
      <4> QED
        BY <4>2, <4>3, <3>1, <3>2
    <3>4. CASE ~(p < s)
      <4>1. p >= e
        BY <3>1, <3>4, <2>2, <1>0, <1>1
      <4>2. f > e /\ f # s /\ f # h /\ f # e
        BY <4>1, <3>1, <3>2, <1>0
      <4>3. f \in DOMAIN n /\ n[f] = b[f]
        BY <4>2, <3>2, <1>0, <1>1
      <4>4. \A q \in DOMAIN n : q <= p \/ q >= f
        BY <4>1, <3>1, <3>2, <1>0, <1>1
      <4> QED
        BY <4>3, <4>4, <3>1, <3>2
    <3> QED
      BY <3>3, <3>4
  <2> QED
    BY <2>1, <2>2, <2>3
<1>8. \A p \in DOMAIN n : p # 0 =>
        /\ p - H - n[p].prev \in DOMAIN n
        /\ EndIn(n, p - H - n[p].prev) = p
  <2> SUFFICES ASSUME NEW p \in DOMAIN n, p # 0
               PROVE  /\ p - H - n[p].prev \in DOMAIN n
                      /\ EndIn(n, p - H - n[p].prev) = p
    OBVIOUS
  <2>1. CASE p = h
    <3>1. p - H - n[p].prev = s
      BY <2>1, <1>0, <1>2 DEF h
    <3> QED
      BY <2>1, <3>1, <1>0, <1>1, <1>5
  <2>2. CASE p = e
    <3>1. p - H - n[p].prev = h
      BY <2>2, <1>0, <1>2 DEF h
    <3> QED
      BY <2>2, <3>1, <1>1, <1>5
  <2>3. CASE p \notin {h, e}
    <3>1. p \in DOMAIN b /\ p \in Nat /\ n[p].prev = b[p].prev
      BY <2>3, <1>1, <1>2 DEF BodyType
    <3>2. PICK q \in DOMAIN b : q = p - H - b[p].prev /\ EndIn(b, q) = p
      BY <3>1 DEF Tiled
    <3>3. q \in Nat /\ q < p /\ q # t
      BY <3>1, <3>2, CellAssumption DEF BodyType, Entries, Tiled
    <3>4. \A r \in DOMAIN b : r <= q \/ r >= p
      BY <3>2, <3>3 DEF Tiled
    <3>5. q \in DOMAIN n /\ q # s /\ q # h
      <4>1. CASE p <= s
        BY <4>1, <3>1, <3>2, <3>3, <1>0, <1>1
      <4>2. CASE p > e
        <5>1. q >= e
          BY <4>2, <3>1, <3>3, <3>4, <1>0
        <5> QED
          BY <5>1, <3>2, <3>3, <1>0, <1>1
      <4> QED
        BY <4>1, <4>2, <2>3, <3>1, <1>0, <1>1
    <3>6. EndIn(n, q) = EndIn(b, q)
      BY <3>5, <1>6
    <3> QED
      BY <3>1, <3>2, <3>5, <3>6
  <2> QED
    BY <2>1, <2>2, <2>3
<1>9. \A p \in DOMAIN n : p <= t /\ (n[p].top <=> p = t)
  <2> SUFFICES ASSUME NEW p \in DOMAIN n
               PROVE  p <= t /\ (n[p].top <=> p = t)
    OBVIOUS
  <2>1. CASE p \in {s, h}
    BY <2>1, <1>0, <1>2
  <2>2. CASE p = e
    BY <2>2, <1>0, <1>3 DEF Tiled
  <2>3. CASE p \notin {s, h, e}
    BY <2>3, <1>1 DEF Tiled
  <2> QED
    BY <2>1, <2>2, <2>3
<1>10. {0, t} \subseteq DOMAIN n
  BY <1>0, <1>1 DEF Tiled, BodyType
<1>11. n[t].free
  <2>1. b[t].free /\ t \notin {s, h}
    BY <1>0 DEF Tiled
  <2> QED
    BY <2>1, <1>1, <1>3, <1>10
<1> QED
  BY <1>4, <1>11, <1>7, <1>8, <1>9, <1>10 DEF n, Tiled

-----------------------------------------------------------------------------
(* Operators on the directory                                              *)

DirType(d) ==
    /\ DOMAIN d \subseteq Checksums
    /\ \A c \in DOMAIN d : d[c] \in [offset : Nat, over : BOOLEAN]

\* cell_dir_remove yields a directory without the checksums removed, the rest as before.
LEMMA DirRemoveType ==
    ASSUME NEW d, DirType(d), NEW K
    PROVE  /\ DirType(DirRemove(d, K))
           /\ DOMAIN DirRemove(d, K) = DOMAIN d \ K
           /\ \A x \in DOMAIN d \ K : DirRemove(d, K)[x] = d[x]
BY DEF DirType, DirRemove

\* cell_dir_add yields a directory with the checksum added, the rest as before.
LEMMA DirAddType ==
    ASSUME NEW d, DirType(d), NEW c \in Checksums, NEW at \in Nat
    PROVE  /\ DirType(DirAdd(d, c, at))
           /\ DOMAIN DirAdd(d, c, at) = DOMAIN d \cup {c}
           /\ DirAdd(d, c, at)[c].offset = at
           /\ \A x \in DOMAIN d : x # c => DirAdd(d, c, at)[x] = d[x]
<1> DEFINE n == DirAdd(d, c, at)
           over == Cardinality(Slotted(d, BlockOf[c])) >= BlockEntries
<1>1. /\ DOMAIN n = DOMAIN d \cup {c}
      /\ n[c] = [offset |-> at, over |-> over]
      /\ \A x \in DOMAIN d : x # c => n[x] = d[x]
  BY DEF DirAdd
<1>2. over \in BOOLEAN
  OBVIOUS
<1> HIDE DEF n, over
<1>3. n[c] \in [offset : Nat, over : BOOLEAN] /\ n[c].offset = at
  BY <1>1, <1>2
<1> QED
  BY <1>1, <1>3 DEF DirType, n

\* Bytes in the overflow area: removing entries frees some, adding one takes at
\* most one more.
LEMMA OverflowFinite ==
    ASSUME NEW d, DirType(d)
    PROVE  IsFiniteSet(Overflow(d)) /\ Cardinality(Overflow(d)) \in Nat
<1>1. Overflow(d) \subseteq Checksums
  BY DEF Overflow, DirType
<1> QED
  BY <1>1, DirMapAssumption, FS_Subset, FS_CardinalityType

\* cell_dir_remove takes no room in the overflow area.
LEMMA OverflowRemove ==
    ASSUME NEW d, DirType(d), NEW K
    PROVE  Cardinality(Overflow(DirRemove(d, K))) <= Cardinality(Overflow(d))
<1>1. Overflow(DirRemove(d, K)) \subseteq Overflow(d)
  BY DEF Overflow, DirRemove
<1> QED
  BY <1>1, OverflowFinite, FS_Subset

\* cell_dir_add takes at most one entry of the overflow area.
LEMMA OverflowAdd ==
    ASSUME NEW d, DirType(d), NEW c \in Checksums, c \notin DOMAIN d, NEW at \in Nat
    PROVE  Cardinality(Overflow(DirAdd(d, c, at))) <= Cardinality(Overflow(d)) + 1
<1> DEFINE n == DirAdd(d, c, at)
<1>0. DOMAIN n = DOMAIN d \cup {c} /\ \A x \in DOMAIN d : x # c => n[x] = d[x]
  BY DirAddType
<1> HIDE DEF n
<1>1. Overflow(n) \subseteq Overflow(d) \cup {c}
  BY <1>0 DEF Overflow
<1>2. IsFiniteSet(Overflow(d)) /\ c \notin Overflow(d)
  BY OverflowFinite DEF Overflow
<1>3. /\ IsFiniteSet(Overflow(d) \cup {c})
      /\ Cardinality(Overflow(d) \cup {c}) = Cardinality(Overflow(d)) + 1
  BY <1>2, FS_AddElement
<1> QED
  BY <1>1, <1>3, FS_Subset DEF n

\* cell_body_free_space is a number, as long as overflow entries can be counted.
LEMMA FreeSpaceType ==
    ASSUME NEW d, DirType(d), NEW t \in Nat
    PROVE  FreeSpace(t, d) \in Int
BY OverflowFinite, CellAssumption DEF FreeSpace

\* Removing entries and lowering the top gives back at least the room below the old top.
LEMMA FreeSpaceRemove ==
    ASSUME NEW d, DirType(d), NEW K, NEW t \in Nat, NEW u \in Nat, u <= t
    PROVE  FreeSpace(u, DirRemove(d, K)) >= FreeSpace(t, d) + (t - u)
<1> DEFINE x == Cardinality(Overflow(d))
           y == Cardinality(Overflow(DirRemove(d, K)))
<1>1. x \in Nat /\ y \in Nat /\ y <= x
  BY OverflowFinite, OverflowRemove, DirRemoveType
<1> HIDE DEF x, y
<1>2. D * y <= D * x /\ D * y \in Nat /\ D * x \in Nat
  BY <1>1, CellAssumption
<1> QED
  BY <1>2, CellAssumption DEF FreeSpace, x, y

\* cell_dir_add takes at most the room of one directory entry.
LEMMA FreeSpaceAdd ==
    ASSUME NEW d, DirType(d), NEW c \in Checksums, c \notin DOMAIN d,
           NEW at \in Nat, NEW t \in Nat
    PROVE  FreeSpace(t, DirAdd(d, c, at)) >= FreeSpace(t, d) - D
<1> DEFINE x == Cardinality(Overflow(d))
           y == Cardinality(Overflow(DirAdd(d, c, at)))
<1>1. x \in Nat /\ y \in Nat /\ y <= x + 1
  BY OverflowFinite, OverflowAdd, DirAddType
<1> HIDE DEF x, y
<1>2. D * y <= D * x + D /\ D * y \in Nat /\ D * x \in Nat
  BY <1>1, CellAssumption
<1> QED
  BY <1>2, CellAssumption DEF FreeSpace, x, y

\* The entries at G leave the ring and the directory together.
LEMMA IndexedRemove ==
    ASSUME NEW b, NEW n, NEW d, DirType(d), Indexed(b, d),
           NEW G, NEW K, G \subseteq DOMAIN b,
           K = {b[p].checksum : p \in {q \in G : ~b[q].free}},
           \A p \in DOMAIN n : ~n[p].free =>
             p \in DOMAIN b /\ p \notin G /\ n[p] = b[p],
           \A p \in DOMAIN b : ~b[p].free /\ p \notin G =>
             p \in DOMAIN n /\ n[p] = b[p]
    PROVE  Indexed(n, DirRemove(d, K))
<1> DEFINE r == DirRemove(d, K)
<1>1. DOMAIN r = DOMAIN d \ K /\ \A x \in DOMAIN d \ K : r[x] = d[x]
  BY DEF DirRemove
<1> HIDE DEF r
<1>2. ASSUME NEW x \in DOMAIN r
      PROVE  /\ r[x].offset \in DOMAIN n /\ ~n[r[x].offset].free
             /\ n[r[x].offset].checksum = x /\ n[r[x].offset].size = SizeOf[x]
  <2> DEFINE p == d[x].offset
  <2>1. x \in DOMAIN d /\ x \notin K /\ r[x].offset = p
    BY <1>1
  <2>2. p \in DOMAIN b /\ ~b[p].free /\ b[p].checksum = x /\ b[p].size = SizeOf[x]
    BY <2>1 DEF Indexed
  <2>3. p \notin G
    BY <2>1, <2>2
  <2> QED
    BY <2>1, <2>2, <2>3
<1>3. ASSUME NEW p \in DOMAIN n, ~n[p].free
      PROVE  n[p].checksum \in DOMAIN r /\ r[n[p].checksum].offset = p
  <2> DEFINE x == b[p].checksum
  <2>1. p \in DOMAIN b /\ p \notin G /\ ~b[p].free /\ n[p].checksum = x
    BY <1>3
  <2>2. x \in DOMAIN d /\ d[x].offset = p
    BY <2>1 DEF Indexed
  <2>3. x \notin K
    BY <2>1, <2>2 DEF Indexed
  <2> QED
    BY <2>1, <2>2, <2>3, <1>1
<1>4. Indexed(n, r)
  BY <1>2, <1>3 DEF Indexed
<1> QED
  BY <1>4 DEF r

\* ... and c enters both at `at'.
LEMMA IndexedAdd ==
    ASSUME NEW c \in Checksums, NEW at \in Nat,
           NEW b, NEW n, NEW d, DirType(d), Indexed(b, d), c \notin DOMAIN d,
           NEW G, NEW K, G \subseteq DOMAIN b,
           K = {b[p].checksum : p \in {q \in G : ~b[q].free}},
           at \in DOMAIN n, ~n[at].free,
           n[at].checksum = c, n[at].size = SizeOf[c],
           \A p \in DOMAIN n : p # at /\ ~n[p].free =>
             /\ p \in DOMAIN b /\ p \notin G /\ ~b[p].free
             /\ n[p].checksum = b[p].checksum /\ n[p].size = b[p].size,
           \A p \in DOMAIN b : ~b[p].free /\ p \notin G =>
             p \in DOMAIN n /\ p # at /\ ~n[p].free
    PROVE  Indexed(n, DirAdd(DirRemove(d, K), c, at))
<1> DEFINE r == DirRemove(d, K)
           a == DirAdd(r, c, at)
<1>1. DOMAIN r = DOMAIN d \ K /\ \A x \in DOMAIN r : r[x] = d[x]
  BY DEF DirRemove
<1> HIDE DEF r
<1>2. /\ DOMAIN a = DOMAIN r \cup {c} /\ a[c].offset = at
      /\ \A x \in DOMAIN r : x # c => a[x] = r[x]
  BY DEF DirAdd
<1> HIDE DEF a
<1>3. ASSUME NEW x \in DOMAIN a
      PROVE  /\ a[x].offset \in DOMAIN n /\ ~n[a[x].offset].free
             /\ n[a[x].offset].checksum = x /\ n[a[x].offset].size = SizeOf[x]
  <2>1. CASE x = c
    BY <2>1, <1>2
  <2>2. CASE x # c
    <3> DEFINE p == d[x].offset
    <3>1. x \in DOMAIN d /\ x \notin K /\ a[x].offset = p
      BY <2>2, <1>1, <1>2
    <3>2. p \in DOMAIN b /\ ~b[p].free /\ b[p].checksum = x /\ b[p].size = SizeOf[x]
      BY <3>1 DEF Indexed
    <3>3. p \notin G
      BY <3>1, <3>2
    <3> QED
      BY <3>1, <3>2, <3>3
  <2> QED
    BY <2>1, <2>2
<1>4. ASSUME NEW p \in DOMAIN n, ~n[p].free
      PROVE  n[p].checksum \in DOMAIN a /\ a[n[p].checksum].offset = p
  <2>1. CASE p = at
    BY <2>1, <1>2
  <2>2. CASE p # at
    <3> DEFINE x == b[p].checksum
    <3>1. p \in DOMAIN b /\ p \notin G /\ ~b[p].free /\ n[p].checksum = x
      BY <2>2, <1>4
    <3>2. x \in DOMAIN d /\ d[x].offset = p
      BY <3>1 DEF Indexed
    <3>3. x \notin K
      BY <3>1, <3>2 DEF Indexed
    <3> QED
      BY <3>1, <3>2, <3>3, <1>1, <1>2
  <2> QED
    BY <2>1, <2>2
<1>5. Indexed(n, a)
  BY <1>3, <1>4 DEF Indexed
<1> QED
  BY <1>5 DEF a, r

-----------------------------------------------------------------------------
(* What every update keeps of a body b with its top at t, the write        *)
(* position n and the directory d.                                         *)

RingInv(b, t, n, d) ==
    /\ BodyType(b) /\ t \in Nat /\ DirType(d)
    /\ Tiled(b, t) /\ n \in DOMAIN b
    /\ \A p \in DOMAIN b : b[p].free => p \in {n, t}
    /\ \A p \in DOMAIN b : b[p].size < MaxChunk + H
    /\ Indexed(b, d)
    /\ FreeSpace(t, d) >= 0

KeysIn(b, G) == {b[p].checksum : p \in {q \in G : ~b[q].free}}

\* A chunk with room for its directory entry besides.
LEMMA RoomForEntry ==
    ASSUME NEW d, DirType(d), NEW K, NEW c \in Checksums, c \notin DOMAIN d,
           NEW at \in Nat, NEW t \in Nat,
           FreeSpace(t, DirRemove(d, K)) >= D
    PROVE  /\ DirType(DirAdd(DirRemove(d, K), c, at))
           /\ FreeSpace(t, DirAdd(DirRemove(d, K), c, at)) >= 0
<1> DEFINE r == DirRemove(d, K)
<1>1. DirType(r) /\ c \notin DOMAIN r
  BY DirRemoveType DEF DirRemove
<1> HIDE DEF r
<1>2. DirType(DirAdd(r, c, at))
  BY <1>1, DirAddType
<1>3. FreeSpace(t, DirAdd(r, c, at)) >= FreeSpace(t, r) - D
  BY <1>1, FreeSpaceAdd
<1>4. FreeSpace(t, r) \in Int /\ FreeSpace(t, DirAdd(r, c, at)) \in Int
  BY <1>1, <1>2, FreeSpaceType
<1>5. FreeSpace(t, r) >= D
  BY DEF r
<1> QED
  BY <1>2, <1>3, <1>4, <1>5, CellAssumption DEF r

\* cell_body_add_top, at the top or after it was pushed down to s.
LEMMA PutOnTopKeeps ==
    ASSUME FieldsWide, NEW c \in Checksums,
           NEW b, NEW t, NEW n, NEW d, RingInv(b, t, n, d), c \notin DOMAIN d,
           NEW s \in DOMAIN b, \A p \in DOMAIN b : p < s => ~b[p].free,
           NEW G, G \subseteq {p \in DOMAIN b : s <= p},
           {p \in DOMAIN b : s <= p /\ ~b[p].free} \subseteq G,
           FitsOnTop(s, DirRemove(d, KeysIn(b, G)), SizeOf[c])
    PROVE  LET e == s + H + SizeOf[c]
           IN RingInv(PutOnTop(b, s, c), e, e,
                      DirAdd(DirRemove(d, KeysIn(b, G)), c, s))
<1> DEFINE m == PutOnTop(b, s, c)
           e == s + H + SizeOf[c]
           K == KeysIn(b, G)
           a == DirAdd(DirRemove(d, K), c, s)
<1>0. /\ s \in Nat /\ b[s].prev \in Nat /\ e \in Nat /\ s < e
      /\ SizeOf[c] \in Nat /\ SizeOf[c] <= MaxChunk
      /\ BodyType(b) /\ t \in Nat /\ Tiled(b, t) /\ DirType(d) /\ Indexed(b, d)
  BY ChunkSize, CellAssumption DEF RingInv, BodyType, Entries
<1>1. BodyType(m) /\ Tiled(m, e)
  BY <1>0, PutOnTopTiled
<1>2. /\ DOMAIN m = {q \in DOMAIN b : q < s} \cup {s, e}
      /\ \A p \in DOMAIN m : p < s => m[p] = b[p]
      /\ m[s] = UsedEntry(c, b[s].prev)
      /\ m[e].free /\ m[e].size = 0
  BY <1>0 DEF PutOnTop, TopEntry
<1>3. ~m[s].free /\ m[s].checksum = c /\ m[s].size = SizeOf[c]
  BY <1>0, <1>2, ChunkSize DEF UsedEntry
<1>4. DirType(a) /\ FreeSpace(e, a) >= 0
  <2>1. FreeSpace(s, DirRemove(d, K)) >= SizeOf[c] + H + D
    BY DEF FitsOnTop
  <2>2. DirType(DirRemove(d, K))
    BY <1>0, DirRemoveType
  <2>3. Cardinality(Overflow(DirRemove(d, K))) \in Nat
    BY <2>2, OverflowFinite
  <2>4. FreeSpace(e, DirRemove(d, K)) >= D
    BY <1>0, <2>1, <2>3, CellAssumption DEF FreeSpace
  <2> QED
    BY <1>0, <2>4, RoomForEntry
<1> HIDE DEF m, e, a
<1>5. Indexed(m, a)
  <2>1. G \subseteq DOMAIN b /\ s \in DOMAIN m
    BY <1>2
  <2>2. \A p \in DOMAIN m : p # s /\ ~m[p].free =>
          /\ p \in DOMAIN b /\ p \notin G /\ ~b[p].free
          /\ m[p].checksum = b[p].checksum /\ m[p].size = b[p].size
    BY <1>0, <1>2 DEF BodyType
  <2>3. \A p \in DOMAIN b : ~b[p].free /\ p \notin G =>
          p \in DOMAIN m /\ p # s /\ ~m[p].free
    BY <1>0, <1>2 DEF BodyType
  <2> QED
    BY <1>0, <1>3, <2>1, <2>2, <2>3, IndexedAdd DEF a, KeysIn
<1>6. \A p \in DOMAIN m : m[p].free => p \in {e}
  BY <1>0, <1>2, <1>3
<1>7. \A p \in DOMAIN m : m[p].size < MaxChunk + H
  BY <1>0, <1>2, <1>3, CellAssumption DEF RingInv
<1>8. e \in DOMAIN m
  BY <1>2
<1>9. RingInv(m, e, e, a)
  BY <1>0, <1>1, <1>4, <1>5, <1>6, <1>7, <1>8 DEF RingInv
<1> QED
  BY <1>9 DEF m, e, a

\* cell_body_push_down_top when the chunk does not fit, and the making of room
\* in cell_body_add_dir_entry: the entries from s on are given up.
LEMMA SetTopKeeps ==
    ASSUME NEW b, NEW t, NEW n, NEW d, RingInv(b, t, n, d),
           NEW s \in DOMAIN b, NEW m \in DOMAIN b, m <= s,
           \A p \in DOMAIN b : p < s /\ b[p].free => p = m,
           NEW G, G \subseteq {p \in DOMAIN b : s <= p},
           {p \in DOMAIN b : s <= p /\ ~b[p].free} \subseteq G
    PROVE  RingInv(SetTop(b, s), s, m, DirRemove(d, KeysIn(b, G)))
<1> DEFINE u == SetTop(b, s)
           a == DirRemove(d, KeysIn(b, G))
<1>0. /\ s \in Nat /\ m \in Nat /\ s <= t
      /\ BodyType(b) /\ t \in Nat /\ Tiled(b, t) /\ DirType(d) /\ Indexed(b, d)
  BY DEF RingInv, BodyType, Tiled
<1>1. BodyType(u) /\ Tiled(u, s)
  BY <1>0, SetTopTiled
<1>2. /\ DOMAIN u = {q \in DOMAIN b : q <= s}
      /\ \A p \in DOMAIN u : p # s => u[p] = b[p]
      /\ u[s].free /\ u[s].size = 0
  BY <1>0 DEF SetTop, TopEntry
<1>3. DirType(a)
  BY <1>0, DirRemoveType
<1>4. FreeSpace(s, a) >= 0
  <2>1. FreeSpace(s, a) >= FreeSpace(t, d) + (t - s)
    BY <1>0, FreeSpaceRemove
  <2>2. FreeSpace(s, a) \in Int /\ FreeSpace(t, d) \in Int /\ FreeSpace(t, d) >= 0
    BY <1>0, <1>3, FreeSpaceType DEF RingInv
  <2> HIDE DEF a
  <2> QED
    BY <1>0, <2>1, <2>2
<1> HIDE DEF u, a
<1>5. Indexed(u, a)
  <2>1. \A p \in DOMAIN u : ~u[p].free =>
          p \in DOMAIN b /\ p \notin G /\ u[p] = b[p]
    BY <1>0, <1>2 DEF BodyType
  <2>2. \A p \in DOMAIN b : ~b[p].free /\ p \notin G =>
          p \in DOMAIN u /\ u[p] = b[p]
    BY <1>0, <1>2 DEF BodyType
  <2>3. G \subseteq DOMAIN b
    OBVIOUS
  <2> QED
    BY <1>0, <2>1, <2>2, <2>3, IndexedRemove DEF a, KeysIn
<1>6. \A p \in DOMAIN u : u[p].free => p \in {m, s}
  BY <1>0, <1>2 DEF BodyType
<1>7. \A p \in DOMAIN u : u[p].size < MaxChunk + H
  BY <1>2, CellAssumption DEF RingInv
<1>8. m \in DOMAIN u
  BY <1>2
<1>9. RingInv(u, s, m, a)
  BY <1>0, <1>1, <1>3, <1>4, <1>5, <1>6, <1>7, <1>8 DEF RingInv
<1> QED
  BY <1>9 DEF u, a

\* A chunk takes the place of an entry of its size.
LEMMA ReplaceKeeps ==
    ASSUME FieldsWide, NEW c \in Checksums,
           NEW b, NEW t, NEW s, NEW d, RingInv(b, t, s, d), c \notin DOMAIN d,
           s # t, b[s].size = SizeOf[c], NEW G, s \in G, \A p \in G : p = s,
           FreeSpace(t, DirRemove(d, KeysIn(b, G))) >= D
    PROVE  RingInv(Replace(b, s, c), t, EndIn(b, s),
                   DirAdd(DirRemove(d, KeysIn(b, G)), c, s))
<1> DEFINE m == Replace(b, s, c)
           K == KeysIn(b, G)
           a == DirAdd(DirRemove(d, K), c, s)
<1>0. /\ s \in DOMAIN b /\ s \in Nat /\ b[s].prev \in Nat
      /\ BodyType(b) /\ t \in Nat /\ Tiled(b, t) /\ DirType(d) /\ Indexed(b, d)
  BY DEF RingInv, BodyType, Entries
<1>1. BodyType(m) /\ Tiled(m, t)
  BY <1>0, ReplaceTiled
<1>2. /\ DOMAIN m = DOMAIN b
      /\ \A p \in DOMAIN m : p # s => m[p] = b[p]
      /\ m[s] = UsedEntry(c, b[s].prev)
  BY <1>0 DEF Replace
<1>3. ~m[s].free /\ m[s].checksum = c /\ m[s].size = SizeOf[c]
  BY <1>0, <1>2, ChunkSize DEF UsedEntry
<1>4. DirType(a) /\ FreeSpace(t, a) >= 0
  BY <1>0, RoomForEntry
<1> HIDE DEF m, a
<1>5. Indexed(m, a)
  <2>1. G \subseteq DOMAIN b /\ s \in DOMAIN m
    BY <1>0, <1>2
  <2>2. \A p \in DOMAIN m : p # s /\ ~m[p].free =>
          /\ p \in DOMAIN b /\ p \notin G /\ ~b[p].free
          /\ m[p].checksum = b[p].checksum /\ m[p].size = b[p].size
    BY <1>2
  <2>3. \A p \in DOMAIN b : ~b[p].free /\ p \notin G =>
          p \in DOMAIN m /\ p # s /\ ~m[p].free
    BY <1>2
  <2> QED
    BY <1>0, <1>3, <2>1, <2>2, <2>3, IndexedAdd DEF a, KeysIn
<1>6. \A p \in DOMAIN m : m[p].free => p \in {EndIn(b, s), t}
  BY <1>2, <1>3 DEF RingInv
<1>7. \A p \in DOMAIN m : m[p].size < MaxChunk + H
  BY <1>0, <1>2, <1>3 DEF RingInv
<1>8. EndIn(b, s) \in DOMAIN m
  BY <1>0, <1>2 DEF Tiled
<1>9. RingInv(m, t, EndIn(b, s), a)
  BY <1>0, <1>1, <1>4, <1>5, <1>6, <1>7, <1>8 DEF RingInv
<1> QED
  BY <1>9 DEF m, a

\* A chunk takes the place of the entries from s up to e.
LEMMA SplitKeeps ==
    ASSUME FieldsWide, NEW c \in Checksums,
           NEW b, NEW t, NEW s, NEW d, RingInv(b, t, s, d), c \notin DOMAIN d,
           NEW e \in DOMAIN b, NEW left \in Nat, left < MaxChunk + H,
           e = s + H + SizeOf[c] + H + left,
           NEW G, G = {p \in DOMAIN b : s <= p /\ p < e},
           FreeSpace(t, DirRemove(d, KeysIn(b, G))) >= D
    PROVE  RingInv(Split(b, s, c, e), t, s + H + SizeOf[c],
                   DirAdd(DirRemove(d, KeysIn(b, G)), c, s))
<1> DEFINE m == Split(b, s, c, e)
           h == s + H + SizeOf[c]
           K == KeysIn(b, G)
           a == DirAdd(DirRemove(d, K), c, s)
<1>0. /\ s \in DOMAIN b /\ s \in Nat /\ b[s].prev \in Nat
      /\ e \in Nat /\ b[e] \in Entries
      /\ BodyType(b) /\ t \in Nat /\ Tiled(b, t) /\ DirType(d) /\ Indexed(b, d)
      /\ SizeOf[c] \in Nat /\ SizeOf[c] <= MaxChunk /\ Field(SizeOf[c]) = SizeOf[c]
  BY ChunkSize DEF RingInv, BodyType, Entries
<1>1. /\ left < SizeMod /\ h \in Nat /\ s < h /\ h < e /\ e <= t
      /\ e - h - H = left /\ Field(left) = left
  BY <1>0, FieldIdentity, CellAssumption DEF FieldsWide, Tiled
<1>2. BodyType(m) /\ Tiled(m, t)
  BY <1>0, <1>1, SplitTiled
<1>3. /\ DOMAIN m = {q \in DOMAIN b : q <= s \/ q >= e} \cup {h}
      /\ \A p \in DOMAIN m : p \notin {s, h, e} => m[p] = b[p]
      /\ m[s] = UsedEntry(c, b[s].prev)
      /\ m[h] = FreeEntry(left, SizeOf[c])
      /\ m[e] = [b[e] EXCEPT !.prev = left]
  BY <1>0, <1>1 DEF Split
<1>4. /\ ~m[s].free /\ m[s].checksum = c /\ m[s].size = SizeOf[c]
      /\ m[h].free /\ m[h].size = left
  BY <1>0, <1>1, <1>3, ChunkSize, FreeEntryType DEF UsedEntry
<1>5. /\ m[e].free <=> b[e].free
      /\ m[e].checksum = b[e].checksum /\ m[e].size = b[e].size
  BY <1>0, <1>3 DEF Entries
<1>6. DirType(a) /\ FreeSpace(t, a) >= 0
  BY <1>0, RoomForEntry
<1> HIDE DEF m, a, h
<1>7. \A p \in DOMAIN m : p \notin {s, h} =>
        /\ p \in DOMAIN b /\ (m[p].free <=> b[p].free)
        /\ m[p].checksum = b[p].checksum /\ m[p].size = b[p].size
        /\ p < s \/ p >= e
  <2> SUFFICES ASSUME NEW p \in DOMAIN m, p \notin {s, h}
               PROVE  /\ p \in DOMAIN b /\ (m[p].free <=> b[p].free)
                      /\ m[p].checksum = b[p].checksum /\ m[p].size = b[p].size
                      /\ p < s \/ p >= e
    OBVIOUS
  <2>1. p \in DOMAIN b /\ p \in Nat /\ (p < s \/ p >= e)
    BY <1>0, <1>3 DEF BodyType
  <2>2. CASE p = e
    BY <2>1, <2>2, <1>5
  <2>3. CASE p # e
    BY <2>1, <2>3, <1>3
  <2> QED
    BY <2>2, <2>3
<1>8. Indexed(m, a)
  <2>1. G \subseteq DOMAIN b /\ s \in DOMAIN m
    BY <1>0, <1>3
  <2>2. \A p \in DOMAIN m : p # s /\ ~m[p].free =>
          /\ p \in DOMAIN b /\ p \notin G /\ ~b[p].free
          /\ m[p].checksum = b[p].checksum /\ m[p].size = b[p].size
    BY <1>0, <1>1, <1>4, <1>7 DEF BodyType
  <2>3. ASSUME NEW p \in DOMAIN b, ~b[p].free, p \notin G
        PROVE  p \in DOMAIN m /\ p # s /\ ~m[p].free
    <3>1. p \in Nat /\ (p < s \/ p >= e)
      BY <2>3, <1>0 DEF BodyType
    <3>2. p \in DOMAIN m /\ p # s /\ p # h
      BY <3>1, <1>0, <1>1, <1>3
    <3> QED
      BY <2>3, <3>2, <1>7
  <2> QED
    BY <1>0, <1>4, <2>1, <2>2, <2>3, IndexedAdd DEF a, KeysIn
<1>9. \A p \in DOMAIN m : m[p].free => p \in {h, t}
  BY <1>4, <1>7 DEF RingInv
<1>10. \A p \in DOMAIN m : m[p].size < MaxChunk + H
  BY <1>0, <1>4, <1>7, CellAssumption DEF RingInv
<1>11. h \in DOMAIN m
  BY <1>3
<1>12. RingInv(m, t, h, a)
  BY <1>0, <1>2, <1>6, <1>8, <1>9, <1>10, <1>11 DEF RingInv
<1> QED
  BY <1>12 DEF m, a, h

-----------------------------------------------------------------------------
(* Where cell_body_add_offset starts, and the entry below the top.         *)

\* cell_body_add_offset starts at an entry below the top: a chunk fits an empty ring, so
\* next_entry_offset is never reset to 0 when the top is there.
LEMMA StartFacts ==
    ASSUME RingInv(body, top, next, dir), NEW c \in Checksums, NotOnTop(c)
    PROVE  /\ Start \in DOMAIN body /\ Start \in Nat /\ Start < top
           /\ RingInv(body, top, Start, dir)
<1>0. /\ BodyType(body) /\ top \in Nat /\ next \in DOMAIN body /\ next \in Nat
      /\ next <= top /\ Tiled(body, top) /\ Indexed(body, dir) /\ DirType(dir)
      /\ 0 \in DOMAIN body
  BY DEF RingInv, BodyType, Tiled
<1>1. CASE next # top
  <2>1. Start = next
    BY <1>1 DEF Start
  <2> QED
    BY <1>0, <1>1, <2>1
<1>2. CASE next = top
  <2>1. Start = 0
    BY <1>2 DEF Start
  <2>2. top # 0
    <3> SUFFICES ASSUME top = 0 PROVE FALSE
      OBVIOUS
    <3>1. \A p \in DOMAIN body : p = 0 /\ body[p].free
      BY <1>0 DEF Tiled, BodyType
    <3>2. Overflow(dir) = {}
      BY <1>0, <3>1 DEF Indexed, Overflow
    <3>3. Cardinality(Overflow(dir)) = 0
      BY <3>2, FS_EmptySet
    <3>4. SizeOf[c] \in Nat /\ SizeOf[c] <= MaxChunk
      BY CellAssumption
    <3>5. FreeSpace(top, dir) = BodySize - H
      BY <3>3, CellAssumption DEF FreeSpace
    <3>6. FitsOnTop(top, dir, SizeOf[c])
      BY <3>4, <3>5, CellAssumption DEF FitsOnTop
    <3> QED
      BY <1>2, <3>6 DEF NotOnTop
  <2>3. \A p \in DOMAIN body : body[p].free => p \in {0, top}
    BY <1>2 DEF RingInv
  <2>4. RingInv(body, top, 0, dir)
    BY <1>0, <2>3 DEF RingInv
  <2> QED
    BY <1>0, <2>1, <2>2, <2>4
<1> QED
  BY <1>1, <1>2

\* The back pointer of the top leads to the last entry of the ring.
LEMMA BelowFacts ==
    ASSUME NEW n, RingInv(body, top, n, dir), top # 0
    PROVE  /\ Below \in DOMAIN body /\ Below \in Nat /\ Below < top
           /\ End(Below) = top /\ Below + H <= top
           /\ \A q \in DOMAIN body : q <= Below \/ q = top
<1>0. BodyType(body) /\ top \in Nat /\ Tiled(body, top) /\ top \in DOMAIN body
  BY DEF RingInv, Tiled
<1>1. Below \in DOMAIN body /\ End(Below) = top
  BY <1>0 DEF Tiled, Below, End
<1>2. Below \in Nat /\ body[Below].size \in Nat
  BY <1>0, <1>1 DEF BodyType, Entries
<1>3. Below + H <= top /\ Below < top
  BY <1>0, <1>1, <1>2, CellAssumption DEF End, EndIn
<1>4. \A q \in DOMAIN body : q <= Below \/ q >= top
  BY <1>0, <1>1, <1>3, <1>2 DEF Tiled, End
<1>5. \A q \in DOMAIN body : q \in Nat /\ q <= top
  BY <1>0 DEF Tiled, BodyType
<1> QED
  BY <1>0, <1>1, <1>2, <1>3, <1>4, <1>5

\* The ring after the entry below the top made room, the entries at S being
\* about to make way for the new chunk.
LEMMA PopKeeps ==
    ASSUME RingInv(body, top, Start, dir), Start < top,
           NEW S, S \subseteq DOMAIN body, Start \in S, \A p \in S : p < Below
    PROVE  LET b == SetTop(body, Below)
               d == DirRemove(dir, KeysIn(body, {Below}))
           IN /\ RingInv(b, Below, Start, d)
              /\ DOMAIN b = {p \in DOMAIN body : p <= Below}
              /\ \A p \in DOMAIN b : p # Below => b[p] = body[p]
              /\ KeysIn(b, S) = Keys(S)
              /\ DirRemove(d, Keys(S)) = DirRemove(dir, Keys(S \cup {Below}))
<1> DEFINE b == SetTop(body, Below)
           K == KeysIn(body, {Below})
           d == DirRemove(dir, K)
<1>0. /\ Start \in DOMAIN body /\ Start \in Nat /\ top \in Nat
      /\ DOMAIN body \subseteq Nat
  BY DEF RingInv, BodyType
<1>1. /\ Below \in DOMAIN body /\ Below \in Nat /\ Below < top
      /\ \A q \in DOMAIN body : q <= Below \/ q = top
  BY <1>0, BelowFacts
<1>2. body[top].free /\ \A p \in DOMAIN body : body[p].free => p \in {Start, top}
  BY DEF RingInv, Tiled
<1>3. Start < Below
  OBVIOUS
<1>4. RingInv(b, Below, Start, d)
  <2>1. \A p \in DOMAIN body : p < Below /\ body[p].free => p = Start
    BY <1>0, <1>1, <1>2
  <2>2. {Below} \subseteq {p \in DOMAIN body : Below <= p}
    BY <1>1
  <2>3. {p \in DOMAIN body : Below <= p /\ ~body[p].free} \subseteq {Below}
    BY <1>0, <1>1, <1>2
  <2>4. Start <= Below
    BY <1>0, <1>1, <1>3
  <2> QED
    BY <1>0, <1>1, <2>1, <2>2, <2>3, <2>4, SetTopKeeps
<1>5. /\ DOMAIN b = {p \in DOMAIN body : p <= Below}
      /\ \A p \in DOMAIN b : p # Below => b[p] = body[p]
  BY DEF SetTop
<1> HIDE DEF b
<1>6. \A p \in S : p \in DOMAIN b /\ b[p] = body[p]
  BY <1>0, <1>1, <1>5
<1>7. KeysIn(b, S) = Keys(S)
  BY <1>6 DEF KeysIn, Keys, UsedIn
<1>8. Keys(S \cup {Below}) = Keys(S) \cup K
  BY DEF Keys, KeysIn, UsedIn
<1> HIDE DEF K
<1>9. DirRemove(d, Keys(S)) = DirRemove(dir, Keys(S) \cup K)
  <2>1. (DOMAIN dir \ K) \ Keys(S) = DOMAIN dir \ (Keys(S) \cup K)
    OBVIOUS
  <2> QED
    BY <2>1 DEF DirRemove
<1> QED
  BY <1>4, <1>5, <1>7, <1>8, <1>9 DEF b, K

\* What is left over once the entries from Start to `last' are merged.
LEMMA LeftOver ==
    ASSUME RingInv(body, top, Start, dir), NEW c \in Checksums,
           NEW last \in Rest, Makes(c, last)
    PROVE  /\ End(last) \in DOMAIN body /\ End(last) \in Nat /\ last < End(last)
           /\ Merged(last) = {p \in DOMAIN body : Start <= p /\ p < End(last)}
           /\ \E left \in Nat : /\ left < MaxChunk + H
                                /\ End(last) = Start + H + SizeOf[c] + H + left
<1>0. /\ BodyType(body) /\ top \in Nat /\ Tiled(body, top)
      /\ Start \in DOMAIN body /\ Start \in Nat
      /\ DOMAIN body \subseteq Nat
      /\ last \in DOMAIN body /\ last \in Nat /\ Start <= last /\ last < top
      /\ body[last] \in Entries /\ body[last].size \in Nat /\ H \in Nat \ {0}
      /\ SizeOf[c] \in Nat
  BY CellAssumption DEF RingInv, BodyType, Rest, Entries
<1>1. /\ End(last) \in DOMAIN body /\ End(last) \in Nat /\ last < End(last)
      /\ End(last) = last + H + body[last].size
      /\ \A p \in DOMAIN body : p <= last \/ p >= End(last)
  BY <1>0 DEF Tiled, End, EndIn
<1>2. Merged(last) = {p \in DOMAIN body : Start <= p /\ p < End(last)}
  BY <1>0, <1>1 DEF Merged, Rest
<1>3. PICK left \in Nat : End(last) = Start + H + SizeOf[c] + H + left
  <2>1. End(last) - (Start + H) >= SizeOf[c] + H
    BY DEF Makes, Enough
  <2>2. End(last) - Start - H - SizeOf[c] - H \in Nat
    BY <2>1, <1>0, <1>1
  <2> QED
    BY <2>2, <1>0, <1>1
<1>4. left < MaxChunk + H
  <2>1. CASE last = Start
    <3>1. body[last].size < MaxChunk + H
      BY <1>0 DEF RingInv
    <3> QED
      BY <2>1, <3>1, <1>0, <1>1, <1>3, CellAssumption
  <2>2. CASE last # Start
    <3>1. PICK q \in DOMAIN body : EndIn(body, q) = last /\ q = last - H - body[last].prev
      BY <2>2, <1>0 DEF Tiled
    <3>2. q \in Nat /\ q < last
      BY <3>1, <1>0 DEF BodyType, Entries
    <3>3. Start <= q
      <4>1. q # top
        BY <3>2, <1>0
      <4>2. Start <= q \/ Start >= EndIn(body, q)
        BY <4>1, <1>0 DEF Tiled
      <4> QED
        BY <4>2, <2>2, <3>1, <3>2, <1>0
    <3>4. ~(last - (Start + H) >= SizeOf[c] + H)
      BY <3>1, <3>2, <3>3, <1>0 DEF Makes, Enough, Rest, End
    <3>5. body[last].size <= MaxChunk
      <4>1. ~body[last].free
        BY <2>2, <1>0 DEF RingInv
      <4>2. /\ body[last].checksum \in DOMAIN dir
            /\ dir[body[last].checksum].offset = last
        BY <4>1, <1>0 DEF RingInv, Indexed
      <4>3. body[last].size = SizeOf[body[last].checksum]
        BY <4>2 DEF RingInv, Indexed
      <4> QED
        BY <4>2, <4>3, CellAssumption DEF RingInv, DirType
    <3> QED
      BY <3>4, <3>5, <1>0, <1>1, <1>3, CellAssumption
  <2> QED
    BY <2>1, <2>2
<1> QED
  BY <1>1, <1>2, <1>3, <1>4

-----------------------------------------------------------------------------
(* Every action keeps the ring.                                            *)

\* cell_body_add_top keeps the ring.
LEMMA AddTopKeeps ==
    ASSUME FieldsWide, RingInv(body, top, next, dir),
           NEW c \in Checksums, AddTop(c)
    PROVE  RingInv(body, top, next, dir)'
<1> DEFINE K == KeysIn(body, {})
<1>1. next = top /\ c \notin DOMAIN dir /\ FitsOnTop(top, dir, SizeOf[c])
  BY DEF AddTop, CanAdd, HasChunk
<1>2. Keys({}) = K
  BY DEF Keys, KeysIn, UsedIn
<1>3. /\ body' = PutOnTop(body, top, c) /\ top' = top + H + SizeOf[c]
      /\ next' = top + H + SizeOf[c] /\ dir' = DirAdd(DirRemove(dir, K), c, top)
  BY <1>2 DEF AddTop, HeaderUpdate
<1>4. /\ top \in Nat /\ DirType(dir) /\ top \in DOMAIN body
      /\ \A p \in DOMAIN body : p <= top /\ p \in Nat
      /\ \A p \in DOMAIN body : body[p].free => p = top
  BY <1>1 DEF RingInv, Tiled, BodyType
<1> HIDE DEF K
<1>5. FitsOnTop(top, DirRemove(dir, K), SizeOf[c])
  <2>1. FreeSpace(top, DirRemove(dir, K)) >= FreeSpace(top, dir) + (top - top)
    BY <1>4, FreeSpaceRemove
  <2>2. /\ FreeSpace(top, DirRemove(dir, K)) \in Int
        /\ FreeSpace(top, dir) \in Int /\ SizeOf[c] \in Nat
    BY <1>4, DirRemoveType, FreeSpaceType, CellAssumption
  <2> QED
    BY <1>1, <1>4, <2>1, <2>2, CellAssumption DEF FitsOnTop
<1>6. \A p \in DOMAIN body : p < top => ~body[p].free
  BY <1>4
<1>7. {p \in DOMAIN body : top <= p /\ ~body[p].free} \subseteq {}
  <2>1. body[top].free
    BY DEF RingInv, Tiled
  <2> QED
    BY <2>1, <1>4
<1>8. RingInv(PutOnTop(body, top, c), top + H + SizeOf[c], top + H + SizeOf[c],
              DirAdd(DirRemove(dir, K), c, top))
  BY <1>1, <1>4, <1>5, <1>6, <1>7, PutOnTopKeeps DEF K
<1> QED
  BY <1>3, <1>8

\* What the two push-downs have in common.
LEMMA RestFacts ==
    ASSUME RingInv(body, top, next, dir), NEW c \in Checksums, NotOnTop(c)
    PROVE  /\ RingInv(body, top, Start, dir)
           /\ Start \in DOMAIN body /\ Start \in Nat
           /\ \A p \in DOMAIN body : p < Start => ~body[p].free
           /\ Rest \subseteq {p \in DOMAIN body : Start <= p}
           /\ {p \in DOMAIN body : Start <= p /\ ~body[p].free} \subseteq Rest
           /\ Keys(Rest) = KeysIn(body, Rest)
<1>1. /\ Start \in DOMAIN body /\ Start \in Nat /\ Start < top
      /\ RingInv(body, top, Start, dir)
  BY StartFacts
<1>2. /\ \A p \in DOMAIN body : p <= top /\ p \in Nat
      /\ \A p \in DOMAIN body : body[p].free => p \in {Start, top}
      /\ body[top].free /\ top \in Nat
  BY <1>1 DEF RingInv, Tiled, BodyType
<1>3. \A p \in DOMAIN body : p < Start => ~body[p].free
  BY <1>1, <1>2
<1>4. {p \in DOMAIN body : Start <= p /\ ~body[p].free} \subseteq Rest
  BY <1>1, <1>2 DEF Rest
<1>5. Keys(Rest) = KeysIn(body, Rest) /\ Rest \subseteq {p \in DOMAIN body : Start <= p}
  BY DEF Keys, KeysIn, UsedIn, Rest
<1> QED
  BY <1>1, <1>3, <1>4, <1>5

\* cell_body_push_down_top keeps the ring when the chunk fits.
LEMMA AddPushDownKeeps ==
    ASSUME FieldsWide, RingInv(body, top, next, dir),
           NEW c \in Checksums, AddPushDown(c)
    PROVE  RingInv(body, top, next, dir)'
<1> DEFINE K == KeysIn(body, Rest)
<1>1. NotOnTop(c) /\ c \notin DOMAIN dir
  BY DEF AddPushDown, ReachesTop, CanAdd, HasChunk
<1>2. /\ RingInv(body, top, Start, dir) /\ Start \in DOMAIN body
      /\ \A p \in DOMAIN body : p < Start => ~body[p].free
      /\ Rest \subseteq {p \in DOMAIN body : Start <= p}
      /\ {p \in DOMAIN body : Start <= p /\ ~body[p].free} \subseteq Rest
      /\ Keys(Rest) = K
  BY <1>1, RestFacts
<1>3. /\ body' = PutOnTop(body, Start, c) /\ top' = Start + H + SizeOf[c]
      /\ next' = Start + H + SizeOf[c] /\ dir' = DirAdd(DirRemove(dir, K), c, Start)
      /\ FitsOnTop(Start, DirRemove(dir, K), SizeOf[c])
  BY <1>2 DEF AddPushDown, HeaderUpdate
<1>4. RingInv(PutOnTop(body, Start, c), Start + H + SizeOf[c], Start + H + SizeOf[c],
              DirAdd(DirRemove(dir, K), c, Start))
  BY <1>1, <1>2, <1>3, PutOnTopKeeps
<1> QED
  BY <1>3, <1>4

\* cell_body_push_down_top keeps the ring when the chunk does not fit.
LEMMA AddDroppedKeeps ==
    ASSUME RingInv(body, top, next, dir), NEW c \in Checksums, AddDropped(c)
    PROVE  RingInv(body, top, next, dir)'
<1>1. NotOnTop(c)
  BY DEF AddDropped, ReachesTop
<1>2. /\ RingInv(body, top, Start, dir) /\ Start \in DOMAIN body /\ Start \in Nat
      /\ \A p \in DOMAIN body : p < Start => ~body[p].free
      /\ Rest \subseteq {p \in DOMAIN body : Start <= p}
      /\ {p \in DOMAIN body : Start <= p /\ ~body[p].free} \subseteq Rest
      /\ Keys(Rest) = KeysIn(body, Rest)
  BY <1>1, RestFacts
<1>3. /\ body' = SetTop(body, Start) /\ top' = Start /\ next' = Start
      /\ dir' = DirRemove(dir, KeysIn(body, Rest))
  BY <1>2 DEF AddDropped
<1>4. RingInv(SetTop(body, Start), Start, Start, DirRemove(dir, KeysIn(body, Rest)))
  BY <1>2, SetTopKeeps
<1> QED
  BY <1>3, <1>4

\* The two ways through cell_body_add_dir_entry: there is room for a directory
\* entry once the entries at S are gone, or the entry below the top makes it.
LEMMA PopCases ==
    ASSUME NEW S, Failure(S, Pop(S)) = "none"
    PROVE  \/ /\ ~NoDirRoom(S) /\ PopTop(S).body = body
              /\ PopTop(S).top = top /\ PopTop(S).gone = S
           \/ /\ Below \notin S /\ PopTop(S).body = SetTop(body, Below)
              /\ PopTop(S).top = Below /\ PopTop(S).gone = S \cup {Below}
              /\ ~(FreeSpace(Below, DirRemove(dir, Keys(S \cup {Below}))) < D)
<1>1. CASE ~NoDirRoom(S)
  <2>1. Pop(S) = {}
    BY <1>1 DEF Pop
  <2> QED
    BY <1>1, <2>1 DEF PopTop
<1>2. CASE NoDirRoom(S)
  <2>1. Pop(S) = {Below} /\ Pop(S) # {}
    BY <1>2 DEF Pop
  <2>2. /\ Below \notin S
        /\ ~(FreeSpace(Below, DirRemove(dir, Keys(S \cup {Below}))) < D)
    BY <2>1 DEF Failure
  <2> QED
    BY <2>1, <2>2 DEF PopTop
<1> QED
  BY <1>1, <1>2

\* The replacement of an entry of the chunk's size keeps the ring, with or without the
\* entry below the top being given up.
LEMMA AddReplaceKeeps ==
    ASSUME FieldsWide, RingInv(body, top, next, dir),
           NEW c \in Checksums, AddReplace(c)
    PROVE  RingInv(body, top, next, dir)'
<1> DEFINE S == {Start}
           e == Start + H + SizeOf[c]
<1>1. /\ NotOnTop(c) /\ c \notin DOMAIN dir /\ body[Start].size = SizeOf[c]
      /\ Failure(S, Pop(S)) = "none"
      /\ body' = Replace(PopTop(S).body, Start, c) /\ top' = PopTop(S).top
      /\ next' = e /\ dir' = DirAdd(DirRemove(dir, Keys(PopTop(S).gone)), c, Start)
  BY DEF AddReplace, SameSize, CanAdd, HasChunk, HeaderUpdate
<1>2. /\ Start \in DOMAIN body /\ Start \in Nat /\ Start < top
      /\ RingInv(body, top, Start, dir)
  BY <1>1, StartFacts
<1>3. PICK G : G = S
  OBVIOUS
<1>4. Start \in G /\ (\A p \in G : p = Start) /\ G \subseteq DOMAIN body
  BY <1>2, <1>3
<1> HIDE DEF S
<1>5. CASE /\ ~NoDirRoom(S) /\ PopTop(S).body = body
           /\ PopTop(S).top = top /\ PopTop(S).gone = S
  <2>1. Keys(G) = KeysIn(body, G)
    BY DEF Keys, KeysIn, UsedIn
  <2>2. FreeSpace(top, DirRemove(dir, KeysIn(body, G))) >= D
    <3>1. FreeSpace(top, DirRemove(dir, Keys(G))) \in Int
      BY <1>2, DirRemoveType, FreeSpaceType DEF RingInv
    <3> QED
      BY <1>3, <1>5, <2>1, <3>1, CellAssumption DEF NoDirRoom
  <2>3. EndIn(body, Start) = e
    BY <1>1 DEF EndIn
  <2>4. Start # top
    BY <1>2 DEF RingInv
  <2>5. RingInv(Replace(body, Start, c), top, e,
                DirAdd(DirRemove(dir, KeysIn(body, G)), c, Start))
    BY <1>1, <1>2, <1>4, <2>2, <2>3, <2>4, ReplaceKeeps
  <2> QED
    BY <1>1, <1>3, <1>5, <2>1, <2>5
<1>6. CASE /\ Below \notin S /\ PopTop(S).body = SetTop(body, Below)
           /\ PopTop(S).top = Below /\ PopTop(S).gone = S \cup {Below}
           /\ ~(FreeSpace(Below, DirRemove(dir, Keys(S \cup {Below}))) < D)
  <2> DEFINE b == SetTop(body, Below)
             d == DirRemove(dir, KeysIn(body, {Below}))
  <2>1. /\ Below \in Nat /\ Start < Below
    <3>1. Below # Start
      BY <1>3, <1>4, <1>6
    <3> QED
      BY <3>1, <1>2, BelowFacts DEF RingInv
  <2>2. /\ RingInv(b, Below, Start, d)
        /\ DOMAIN b = {p \in DOMAIN body : p <= Below}
        /\ \A p \in DOMAIN b : p # Below => b[p] = body[p]
        /\ KeysIn(b, G) = Keys(G)
        /\ DirRemove(d, Keys(G)) = DirRemove(dir, Keys(G \cup {Below}))
    BY <1>2, <1>4, <2>1, PopKeeps
  <2>3. c \notin DOMAIN d
    BY <1>1 DEF DirRemove
  <2> HIDE DEF b, d
  <2>4. FreeSpace(Below, DirRemove(d, KeysIn(b, G))) >= D
    <3>1. DirType(d)
      BY <2>2 DEF RingInv
    <3>2. FreeSpace(Below, DirRemove(d, KeysIn(b, G))) \in Int
      BY <2>1, <3>1, DirRemoveType, FreeSpaceType
    <3> QED
      BY <1>3, <1>6, <2>2, <3>2, CellAssumption
  <2>5. b[Start].size = SizeOf[c] /\ EndIn(b, Start) = e /\ Start # Below
    BY <1>1, <1>2, <2>1, <2>2 DEF EndIn
  <2>6. RingInv(Replace(b, Start, c), Below, e,
                DirAdd(DirRemove(d, KeysIn(b, G)), c, Start))
    BY <1>4, <2>2, <2>3, <2>4, <2>5, ReplaceKeeps
  <2> QED
    BY <1>1, <1>3, <1>6, <2>2, <2>6 DEF b
<1> QED
  BY <1>1, <1>5, <1>6, PopCases

\* The merge of several entries keeps the ring, with or without the entry below the top
\* being given up.
LEMMA AddSplitKeeps ==
    ASSUME FieldsWide, RingInv(body, top, next, dir),
           NEW c \in Checksums, AddSplit(c)
    PROVE  RingInv(body, top, next, dir)'
<1>1. PICK last \in Rest :
        /\ Makes(c, last) /\ c \notin DOMAIN dir
        /\ Failure(Merged(last), Pop(Merged(last))) = "none"
        /\ body' = Split(PopTop(Merged(last)).body, Start, c, End(last))
        /\ top' = PopTop(Merged(last)).top
        /\ next' = Start + H + SizeOf[c]
        /\ dir' = DirAdd(DirRemove(dir, Keys(PopTop(Merged(last)).gone)), c, Start)
  BY DEF AddSplit, CanAdd, HasChunk, HeaderUpdate
<1> DEFINE S == Merged(last)
           e == End(last)
<1>2. /\ Start \in DOMAIN body /\ Start \in Nat /\ Start < top
      /\ RingInv(body, top, Start, dir)
  BY <1>1, StartFacts DEF Makes
<1>3. /\ e \in DOMAIN body /\ e \in Nat /\ last < e /\ e # top
      /\ S = {p \in DOMAIN body : Start <= p /\ p < e}
  BY <1>1, <1>2, LeftOver DEF Makes
<1>4. PICK left \in Nat : left < MaxChunk + H /\ e = Start + H + SizeOf[c] + H + left
  BY <1>1, <1>2, LeftOver
<1>5. last \in DOMAIN body /\ last \in Nat /\ Start <= last /\ last \in S
      /\ Start \in S /\ S \subseteq DOMAIN body
  BY <1>2, <1>3 DEF Rest, RingInv, BodyType
<1> HIDE DEF S, e
<1>6. CASE /\ ~NoDirRoom(S) /\ PopTop(S).body = body
           /\ PopTop(S).top = top /\ PopTop(S).gone = S
  <2>1. Keys(S) = KeysIn(body, S)
    BY DEF Keys, KeysIn, UsedIn
  <2>2. FreeSpace(top, DirRemove(dir, KeysIn(body, S))) >= D
    <3>1. FreeSpace(top, DirRemove(dir, Keys(S))) \in Int
      BY <1>2, DirRemoveType, FreeSpaceType DEF RingInv
    <3> QED
      BY <1>6, <2>1, <3>1, CellAssumption DEF NoDirRoom
  <2>3. RingInv(Split(body, Start, c, e), top, Start + H + SizeOf[c],
                DirAdd(DirRemove(dir, KeysIn(body, S)), c, Start))
    BY <1>1, <1>2, <1>3, <1>4, <2>2, SplitKeeps
  <2> QED
    BY <1>1, <1>6, <2>1, <2>3 DEF S, e
<1>7. CASE /\ Below \notin S /\ PopTop(S).body = SetTop(body, Below)
           /\ PopTop(S).top = Below /\ PopTop(S).gone = S \cup {Below}
           /\ ~(FreeSpace(Below, DirRemove(dir, Keys(S \cup {Below}))) < D)
  <2> DEFINE b == SetTop(body, Below)
             d == DirRemove(dir, KeysIn(body, {Below}))
  <2>1. /\ Below \in Nat /\ Below \in DOMAIN body
        /\ \A q \in DOMAIN body : q <= Below \/ q = top
    BY <1>2, BelowFacts DEF RingInv
  <2>2. e <= Below
    <3>1. Start <= Below
      BY <1>2, <2>1
    <3>2. ~(Below < e)
      BY <1>3, <1>7, <2>1, <3>1
    <3> QED
      BY <3>2, <1>3, <2>1
  <2>3. \A p \in S : p < Below
    BY <1>3, <2>1, <2>2 DEF RingInv, BodyType
  <2>4. /\ RingInv(b, Below, Start, d)
        /\ DOMAIN b = {p \in DOMAIN body : p <= Below}
        /\ \A p \in DOMAIN b : p # Below => b[p] = body[p]
        /\ KeysIn(b, S) = Keys(S)
        /\ DirRemove(d, Keys(S)) = DirRemove(dir, Keys(S \cup {Below}))
    BY <1>2, <1>5, <2>3, PopKeeps
  <2>5. c \notin DOMAIN d
    BY <1>1 DEF DirRemove
  <2> HIDE DEF b, d
  <2>6. FreeSpace(Below, DirRemove(d, KeysIn(b, S))) >= D
    <3>1. DirType(d)
      BY <2>4 DEF RingInv
    <3>2. FreeSpace(Below, DirRemove(d, KeysIn(b, S))) \in Int
      BY <2>1, <3>1, DirRemoveType, FreeSpaceType
    <3> QED
      BY <1>7, <2>4, <3>2, CellAssumption
  <2>7. e \in DOMAIN b /\ S = {p \in DOMAIN b : Start <= p /\ p < e}
    BY <1>3, <2>1, <2>2, <2>4 DEF RingInv, BodyType
  <2>8. RingInv(Split(b, Start, c, e), Below, Start + H + SizeOf[c],
                DirAdd(DirRemove(d, KeysIn(b, S)), c, Start))
    BY <1>4, <2>4, <2>5, <2>6, <2>7, SplitKeeps
  <2> QED
    BY <1>1, <1>7, <2>4, <2>8 DEF S, e, b
<1> QED
  BY <1>1, <1>6, <1>7, PopCases DEF S

-----------------------------------------------------------------------------
(* The assertions of cell_body_add_dir_entry                               *)

\* Once the entries at S, the one at Start among them, are gone, the entry below
\* the top is used and is worth a directory entry.
LEMMA FailureSafe ==
    ASSUME RingInv(body, top, next, dir), NEW c \in Checksums, NotOnTop(c),
           NEW S, Start \in S
    PROVE  Failure(S, Pop(S)) \notin {"free_below_top", "no_room"}
<1>1. CASE Pop(S) = {}
  BY <1>1 DEF Failure
<1>2. CASE Pop(S) # {} /\ Pop(S) \cap S # {}
  BY <1>2 DEF Failure
<1>3. CASE Pop(S) # {} /\ Pop(S) \cap S = {}
  <2>1. Pop(S) = {Below} /\ Below \notin S
    BY <1>3 DEF Pop
  <2>2. /\ Start \in DOMAIN body /\ Start \in Nat /\ Start < top
        /\ RingInv(body, top, Start, dir) /\ top \in Nat /\ DirType(dir)
    BY StartFacts DEF RingInv
  <2>3. Below \in DOMAIN body /\ Below \in Nat /\ Below < top /\ Below + H <= top
    BY <2>2, BelowFacts
  <2>4. ~body[Below].free
    BY <2>1, <2>2, <2>3 DEF RingInv
  <2>5. UsedIn(Pop(S)) = Pop(S)
    BY <2>1, <2>4 DEF UsedIn
  <2> DEFINE r == DirRemove(dir, Keys(S \cup Pop(S)))
  <2>6. FreeSpace(Below, r) >= FreeSpace(top, dir) + (top - Below)
    BY <2>2, <2>3, FreeSpaceRemove
  <2>7. FreeSpace(Below, r) \in Int /\ FreeSpace(top, dir) \in Int
    BY <2>2, <2>3, DirRemoveType, FreeSpaceType
  <2>8. FreeSpace(top, dir) >= 0
    BY DEF RingInv
  <2> HIDE DEF r
  <2>9. ~(FreeSpace(Below, r) < D)
    BY <2>2, <2>3, <2>6, <2>7, <2>8, CellAssumption
  <2> QED
    BY <2>5, <2>9 DEF Failure, r
<1> QED
  BY <1>1, <1>2, <1>3

\* Every assertion that can stop cell_add_chunk is one of cell_header_remove.
LEMMA AbortReasons ==
    ASSUME RingInv(body, top, next, dir), NEW c \in Checksums, AddAborts(c)
    PROVE  failed' \in {"remove_missing", "counters"}
<1>1. PICK reason \in Assertions :
        /\ \/ SameSize(c) /\ reason = Failure({Start}, Pop({Start}))
           \/ \E last \in Rest :
                /\ Makes(c, last)
                /\ reason = Failure(Merged(last), Pop(Merged(last)))
           \/ ReachesTop(c) /\ reason = Failure(Rest, {})
        /\ failed' = reason
  BY DEF AddAborts, StopInAdd
<1>2. CASE SameSize(c) /\ reason = Failure({Start}, Pop({Start}))
  BY <1>1, <1>2, FailureSafe DEF SameSize, Assertions
<1>3. ASSUME NEW last \in Rest, Makes(c, last),
             reason = Failure(Merged(last), Pop(Merged(last)))
      PROVE  failed' \in {"remove_missing", "counters"}
  <2>1. NotOnTop(c)
    BY <1>3 DEF Makes
  <2>2. Start \in Merged(last)
    BY <2>1, StartFacts DEF Merged, Rest
  <2> QED
    BY <1>1, <1>3, <2>1, <2>2, FailureSafe DEF Assertions
<1>4. CASE ReachesTop(c) /\ reason = Failure(Rest, {})
  BY <1>1, <1>4 DEF Failure, Assertions
<1> QED
  BY <1>1, <1>2, <1>3, <1>4

-----------------------------------------------------------------------------
(* Counters and codes                                                      *)

\* Entries of the ring can be counted, as cell_header.entry_count does.
LEMMA UsedFinite ==
    ASSUME NEW n, RingInv(body, top, n, dir), NEW S, S \subseteq DOMAIN body
    PROVE  IsFiniteSet(UsedIn(S)) /\ Cardinality(UsedIn(S)) \in Nat
<1>1. UsedIn(S) \subseteq 0 .. top /\ top \in Nat
  BY DEF UsedIn, RingInv, Tiled, BodyType
<1>2. IsFiniteSet(0 .. top)
  BY <1>1, FS_Interval
<1> QED
  BY <1>1, <1>2, FS_Subset, FS_CardinalityType

\* The code that cell_ic_on_entry stores is a code, and not the one before.
LEMMA NextCode ==
    ASSUME NEW x \in 0 .. CodeMod - 1
    PROVE  (x + 1) % CodeMod \in 0 .. CodeMod - 1 /\ (x + 1) % CodeMod # x
<1>1. CodeMod \in Nat /\ CodeMod > 1
  BY CellAssumption
<1>2. CASE x + 1 < CodeMod
  <2>1. (x + 1) % CodeMod = x + 1
    BY <1>1, <1>2
  <2> QED
    BY <2>1, <1>1, <1>2
<1>3. CASE x + 1 = CodeMod
  <2>1. (x + 1) % CodeMod = 0
    BY <1>1, <1>3
  <2> QED
    BY <2>1, <1>1, <1>3
<1> QED
  BY <1>1, <1>2, <1>3

-----------------------------------------------------------------------------
(* The inductive invariant                                                 *)

\* An open cell is sane, and a slab in the middle of an update is not.
CodesInv == (up => Sane /\ ~torn) /\ (torn => ~Sane)

IInv ==
    /\ TypeOK
    /\ RingInv(body, top, next, dir)
    /\ CodesInv
    /\ PopIsSafe

\* cell_body_init and cell_dir_init make an empty ring that satisfies the invariant.
LEMMA EmptyRing == RingInv(InitBody, 0, 0, EmptyDir)
<1> DEFINE b == InitBody
<1>1. DOMAIN b = {0} /\ b[0] = TopEntry(0)
  BY DEF InitBody
<1>2. /\ b[0] \in Entries /\ b[0].free /\ b[0].top
      /\ b[0].size = 0 /\ b[0].prev = 0
  BY <1>1, TopEntryType DEF TopEntry
<1>3. DOMAIN EmptyDir = {} /\ Overflow(EmptyDir) = {}
  BY DEF EmptyDir, Overflow
<1> HIDE DEF b
<1>4. BodyType(b) /\ DirType(EmptyDir)
  BY <1>1, <1>2, <1>3 DEF BodyType, DirType
<1>5. Tiled(b, 0)
  BY <1>1, <1>2 DEF Tiled
<1>6. Indexed(b, EmptyDir)
  BY <1>1, <1>2, <1>3 DEF Indexed
<1>7. Cardinality(Overflow(EmptyDir)) = 0
  BY <1>3, FS_EmptySet
<1>8. FreeSpace(0, EmptyDir) >= 0
  BY <1>7, CellAssumption DEF FreeSpace
<1> QED
  BY <1>1, <1>2, <1>4, <1>5, <1>6, <1>8, CellAssumption DEF RingInv, b

\* The inductive invariant holds of a new file.
LEMMA InitIInv == Init => IInv
<1> SUFFICES ASSUME Init PROVE IInv
  OBVIOUS
<1>1. RingInv(body, top, next, dir)
  BY EmptyRing DEF Init
<1>2. TypeOK
  <2>1. 0 \in 0 .. CodeMod - 1
    BY CellAssumption
  <2>2. /\ DOMAIN body \subseteq Nat
        /\ \A p \in DOMAIN body : body[p] \in Entries
        /\ top \in Nat /\ next \in Nat
        /\ DOMAIN dir \subseteq Checksums
        /\ \A c \in DOMAIN dir : dir[c] \in [offset : Nat, over : BOOLEAN]
    BY <1>1 DEF RingInv, BodyType, DirType
  <2>3. magic \in BOOLEAN /\ up \in BOOLEAN /\ torn \in BOOLEAN
    BY Zenon DEF Init
  <2>4. /\ entry_count \in Int /\ failed \in Assertions \cup {"none"}
        /\ entry_code \in 0 .. CodeMod - 1 /\ exit_code \in 0 .. CodeMod - 1
    BY <2>1 DEF Init
  <2> QED
    BY <2>2, <2>3, <2>4 DEF TypeOK
<1>3. CodesInv /\ PopIsSafe
  BY DEF Init, CodesInv, Sane, PopIsSafe
<1> QED
  BY <1>1, <1>2, <1>3 DEF IInv

\* Every step keeps the part of the invariant about the ring and the directory.
LEMMA StepRing ==
    ASSUME FieldsWide, IInv, [Next]_vars
    PROVE  RingInv(body, top, next, dir)'
<1>0. RingInv(body, top, next, dir)
  BY DEF IInv
<1>1. ASSUME NEW c \in Checksums, AddTop(c)
      PROVE  RingInv(body, top, next, dir)'
  BY <1>0, <1>1, AddTopKeeps
<1>2. ASSUME NEW c \in Checksums, AddReplace(c)
      PROVE  RingInv(body, top, next, dir)'
  BY <1>0, <1>2, AddReplaceKeeps
<1>3. ASSUME NEW c \in Checksums, AddSplit(c)
      PROVE  RingInv(body, top, next, dir)'
  BY <1>0, <1>3, AddSplitKeeps
<1>4. ASSUME NEW c \in Checksums, AddPushDown(c)
      PROVE  RingInv(body, top, next, dir)'
  BY <1>0, <1>4, AddPushDownKeeps
<1>5. ASSUME NEW c \in Checksums, AddDropped(c)
      PROVE  RingInv(body, top, next, dir)'
  BY <1>0, <1>5, AddDroppedKeeps
<1>6. ASSUME NEW c \in Checksums, AddAborts(c) \/ AddKilled(c)
      PROVE  RingInv(body, top, next, dir)'
  BY <1>0, <1>6 DEF AddAborts, AddKilled, StopInAdd, ring
<1>7. CASE OpenReset
  <2>1. body' = InitBody /\ top' = 0 /\ next' = 0 /\ dir' = EmptyDir
    BY <1>7 DEF OpenReset
  <2> QED
    BY <2>1, EmptyRing
<1>8. CASE OpenSane \/ ResetKilled \/ Close
  BY <1>0, <1>8 DEF OpenSane, ResetKilled, Close, ring
<1>9. CASE UNCHANGED vars
  BY <1>0, <1>9 DEF vars
<1> QED
  BY <1>1, <1>2, <1>3, <1>4, <1>5, <1>6, <1>7, <1>8, <1>9 DEF Next

\* Every step leaves an integer in entry_count.
LEMMA StepCount ==
    ASSUME IInv, [Next]_vars
    PROVE  entry_count' \in Int
<1>0. RingInv(body, top, next, dir) /\ entry_count \in Int
  BY DEF IInv, TypeOK
<1>1. ASSUME NEW S, S \subseteq DOMAIN body,
             \/ entry_count' = entry_count - Cardinality(UsedIn(S)) + 1
             \/ entry_count' = entry_count - Cardinality(UsedIn(S))
      PROVE  entry_count' \in Int
  <2>1. Cardinality(UsedIn(S)) \in Nat
    BY <1>0, <1>1, UsedFinite
  <2> QED
    BY <1>0, <1>1, <2>1
<1>2. ASSUME NEW c \in Checksums, NEW S, S \subseteq DOMAIN body, NotOnTop(c),
             entry_count' = entry_count - Cardinality(UsedIn(PopTop(S).gone)) + 1
      PROVE  entry_count' \in Int
  <2>1. Below \in DOMAIN body
    <3>1. Start \in Nat /\ Start < top /\ RingInv(body, top, Start, dir) /\ top \in Nat
      BY <1>0, <1>2, StartFacts DEF RingInv
    <3>2. top # 0
      BY <3>1
    <3> QED
      BY <3>1, <3>2, BelowFacts
  <2>2. PopTop(S).gone \subseteq DOMAIN body
    BY <1>2, <2>1 DEF PopTop, Pop
  <2> QED
    BY <1>1, <1>2, <2>2
<1>3. ASSUME NEW c \in Checksums, AddTop(c)
      PROVE  entry_count' \in Int
  BY <1>1, <1>3 DEF AddTop, HeaderUpdate
<1>4. ASSUME NEW c \in Checksums, AddReplace(c)
      PROVE  entry_count' \in Int
  <2>1. NotOnTop(c) /\ {Start} \subseteq DOMAIN body
    BY <1>0, <1>4, StartFacts DEF AddReplace, SameSize
  <2>2. entry_count' = entry_count - Cardinality(UsedIn(PopTop({Start}).gone)) + 1
    BY <1>4 DEF AddReplace, HeaderUpdate
  <2> QED
    BY <1>2, <2>1, <2>2
<1>5. ASSUME NEW c \in Checksums, AddSplit(c)
      PROVE  entry_count' \in Int
  <2>1. PICK last \in Rest :
          /\ Makes(c, last)
          /\ entry_count' =
               entry_count - Cardinality(UsedIn(PopTop(Merged(last)).gone)) + 1
    BY <1>5 DEF AddSplit, HeaderUpdate
  <2>2. NotOnTop(c) /\ Merged(last) \subseteq DOMAIN body
    BY <2>1 DEF Makes, Merged, Rest
  <2> QED
    BY <1>2, <2>1, <2>2
<1>6. ASSUME NEW c \in Checksums, AddPushDown(c) \/ AddDropped(c)
      PROVE  entry_count' \in Int
  <2>1. Rest \subseteq DOMAIN body
    BY DEF Rest
  <2> QED
    BY <1>1, <1>6, <2>1 DEF AddPushDown, AddDropped, HeaderUpdate
<1>7. ASSUME NEW c \in Checksums, AddAborts(c) \/ AddKilled(c)
      PROVE  entry_count' \in Int
  BY <1>0, <1>7 DEF AddAborts, AddKilled, StopInAdd, ring
<1>8. CASE OpenSane \/ OpenReset \/ ResetKilled \/ Close \/ UNCHANGED vars
  BY <1>0, <1>8 DEF OpenSane, OpenReset, ResetKilled, Close, ring, vars
<1> QED
  BY <1>3, <1>4, <1>5, <1>6, <1>7, <1>8 DEF Next

\* Every step keeps the part of the invariant about the codes and the assertions.
LEMMA StepCodes ==
    ASSUME IInv, [Next]_vars
    PROVE  /\ CodesInv' /\ PopIsSafe'
           /\ magic' \in BOOLEAN /\ up' \in BOOLEAN /\ torn' \in BOOLEAN
           /\ entry_code' \in 0 .. CodeMod - 1 /\ exit_code' \in 0 .. CodeMod - 1
           /\ failed' \in Assertions \cup {"none"}
<1> DEFINE Codes ==
             /\ CodesInv' /\ PopIsSafe'
             /\ magic' \in BOOLEAN /\ up' \in BOOLEAN /\ torn' \in BOOLEAN
             /\ entry_code' \in 0 .. CodeMod - 1 /\ exit_code' \in 0 .. CodeMod - 1
             /\ failed' \in Assertions \cup {"none"}
<1>0. /\ CodesInv /\ PopIsSafe /\ RingInv(body, top, next, dir)
      /\ magic \in BOOLEAN /\ up \in BOOLEAN /\ torn \in BOOLEAN
      /\ entry_code \in 0 .. CodeMod - 1 /\ exit_code \in 0 .. CodeMod - 1
      /\ failed \in Assertions \cup {"none"}
  BY DEF IInv, TypeOK
<1>1. /\ (entry_code + 1) % CodeMod \in 0 .. CodeMod - 1
      /\ (entry_code + 1) % CodeMod # entry_code
      /\ 0 \in 0 .. CodeMod - 1
  BY <1>0, NextCode, CellAssumption
<1>2. ASSUME NEW c \in Checksums, AddReturnsTrue(c)
      PROVE  Codes
  <2>1. up /\ Completed
    BY <1>2 DEF AddReturnsTrue, AddTop, AddReplace, AddSplit, AddPushDown,
                AddDropped, CanAdd
  <2> QED
    BY <1>0, <1>1, <2>1
       DEF Completed, IntegrityOnEntry, IntegrityOnExit, CodesInv, Sane, PopIsSafe
<1>3. ASSUME NEW c \in Checksums, NEW reason \in {"none", "remove_missing", "counters"},
             up, StopInAdd(reason)
      PROVE  Codes
  BY <1>0, <1>1, <1>3
     DEF StopInAdd, IntegrityOnEntry, CodesInv, Sane, PopIsSafe, Assertions
<1>4. ASSUME NEW c \in Checksums, AddAborts(c)
      PROVE  Codes
  <2>1. up /\ failed' \in {"remove_missing", "counters"} /\ StopInAdd(failed')
    BY <1>0, <1>4, AbortReasons DEF AddAborts, CanAdd, StopInAdd
  <2>2. /\ entry_code' = (entry_code + 1) % CodeMod
        /\ up' = FALSE /\ torn' = TRUE /\ magic' = magic /\ exit_code' = exit_code
    BY <2>1 DEF StopInAdd, IntegrityOnEntry
  <2> QED
    BY <1>0, <1>1, <2>1, <2>2 DEF CodesInv, Sane, PopIsSafe, Assertions
<1>5. ASSUME NEW c \in Checksums, AddKilled(c)
      PROVE  Codes
  BY <1>3, <1>5 DEF AddKilled, CanAdd
<1>6. CASE OpenSane
  BY <1>0, <1>6 DEF OpenSane, codes, CodesInv, Sane, PopIsSafe
<1>7. CASE OpenReset
  BY <1>1, <1>7 DEF OpenReset, CodesInv, Sane, PopIsSafe
<1>8. CASE ResetKilled
  BY <1>0, <1>1, <1>8 DEF ResetKilled, CodesInv, Sane, PopIsSafe
<1>9. CASE Close
  BY <1>0, <1>9 DEF Close, codes, CodesInv, Sane, PopIsSafe
<1>10. CASE UNCHANGED vars
  BY <1>0, <1>10 DEF vars, CodesInv, Sane, PopIsSafe
<1> QED
  BY <1>2, <1>4, <1>5, <1>6, <1>7, <1>8, <1>9, <1>10 DEF Next, AddReturnsTrue

\* Every step keeps the inductive invariant.
LEMMA StepIInv ==
    ASSUME FieldsWide
    PROVE  IInv /\ [Next]_vars => IInv'
<1> SUFFICES ASSUME IInv, [Next]_vars
             PROVE  IInv'
  OBVIOUS
<1>1. RingInv(body, top, next, dir)'
  BY StepRing
<1>2. /\ (DOMAIN body \subseteq Nat)'
      /\ (\A p \in DOMAIN body : body[p] \in Entries)'
      /\ (top \in Nat /\ next \in Nat)'
      /\ (DOMAIN dir \subseteq Checksums)'
      /\ (\A c \in DOMAIN dir : dir[c] \in [offset : Nat, over : BOOLEAN])'
  BY <1>1 DEF RingInv, BodyType, DirType
<1>3. TypeOK'
  BY <1>2, StepCount, StepCodes DEF TypeOK
<1> QED
  BY <1>1, <1>3, StepCodes DEF IInv

-----------------------------------------------------------------------------
(* The theorems                                                            *)

\* cell_add_chunk and cell_init keep the inductive invariant, whatever the
\* chunks, their sizes and the blocks of the directory they hash to.
THEOREM CellInductive ==
    ASSUME FieldsWide
    PROVE  Spec => []IInv
<1>1. Init => IInv
  BY InitIInv
<1>2. IInv /\ [Next]_vars => IInv'
  BY StepIInv
<1> QED
  BY <1>1, <1>2, PTL DEF Spec

\* Every variable of the cell keeps its type.
THEOREM CellTypeOK ==
    ASSUME FieldsWide
    PROVE  Spec => []TypeOK
<1>1. IInv => TypeOK
  BY DEF IInv
<1> QED
  BY <1>1, CellInductive, PTL

\* The walk of cell_body_add_offset and the step back of cell_body_add_dir_entry
\* always land on an entry.
THEOREM CellRingTiled ==
    ASSUME FieldsWide
    PROVE  Spec => []RingTiled
<1>1. IInv => RingTiled
  BY DEF IInv, RingInv, RingTiled
<1> QED
  BY <1>1, CellInductive, PTL

\* What cell_get_chunk finds is the chunk that was asked for, and everything the
\* ring gives up is found in the directory.
THEOREM CellDirectoryMatchesRing ==
    ASSUME FieldsWide
    PROVE  Spec => []DirectoryMatchesRing
<1>1. IInv => DirectoryMatchesRing
  BY DEF IInv, RingInv, DirectoryMatchesRing
<1> QED
  BY <1>1, CellInductive, PTL

\* The chunks and the overflow area of the directory, which grow towards each
\* other, never meet.
THEOREM CellRingBelowOverflow ==
    ASSUME FieldsWide
    PROVE  Spec => []RingBelowOverflow
<1>1. IInv => RingBelowOverflow
  BY DEF IInv, RingInv, RingBelowOverflow
<1> QED
  BY <1>1, CellInductive, PTL

\* The only left-over entry of the ring is the one at next_entry_offset, so what
\* cell_body_add_dir_entry takes from below the top holds a chunk.
THEOREM CellFreeOnlyAtNext ==
    ASSUME FieldsWide
    PROVE  Spec => []FreeOnlyAtNext
<1>1. IInv => FreeOnlyAtNext
  BY DEF IInv, RingInv, FreeOnlyAtNext
<1> QED
  BY <1>1, CellInductive, PTL

\* The left-over that cell_body_add_offset makes is shorter than the longest
\* chunk and a header together, which is why FieldsWide is enough.
THEOREM CellLeftOverFits ==
    ASSUME FieldsWide
    PROVE  Spec => []LeftOverFits
<1>1. IInv => LeftOverFits
  BY DEF IInv, RingInv, LeftOverFits
<1> QED
  BY <1>1, CellInductive, PTL

\* The assertions of cell_body_add_dir_entry on the entry below the top hold.
THEOREM CellPopIsSafe ==
    ASSUME FieldsWide
    PROVE  Spec => []PopIsSafe
<1>1. IInv => PopIsSafe
  BY DEF IInv
<1> QED
  BY <1>1, CellInductive, PTL

\* A slab that was being changed when its process stopped never passes
\* cell_header_sane.
THEOREM CellSaneIsWhole ==
    ASSUME FieldsWide
    PROVE  Spec => []SaneIsWhole
<1>1. IInv => SaneIsWhole
  BY DEF IInv, CodesInv, SaneIsWhole, Sane
<1> QED
  BY <1>1, CellInductive, PTL
=============================================================================
