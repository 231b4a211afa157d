--------------------------- MODULE CellRingProofs ---------------------------
(***************************************************************************)
(* A cell implements the ring buffer of module ChunkRing: whatever the     *)
(* sizes of chunks, the left-overs and the overflow area of the directory  *)
(* do, chunks are overwritten in the order in which they were added.       *)
(*                                                                         *)
(* A round of ChunkRing is the list of the used entries between two        *)
(* offsets. An addition keeps those below the write position, writes       *)
(* there, and keeps, of those above it, the ones from some offset on and   *)
(* below another: a part of the list without gaps.                         *)
(***************************************************************************)
EXTENDS CellCountProofs, Sequences

-----------------------------------------------------------------------------
(* Lists of entries by offset                                              *)

\* The place of offset p among those at S.
Rank(S, p) == Cardinality({q \in S : q <= p})

At(S, i) == CHOOSE p \in S : Rank(S, p) = i

\* ByOffset in terms of ranks.
LEMMA ByOffsetIs ==
    ASSUME NEW b, NEW S
    PROVE  ByOffset(b, S) = [i \in 1 .. Cardinality(S) |-> b[At(S, i)].checksum]
BY DEF ByOffset, At, Rank

\* Offsets up to p, and so the rank of p, are finitely many.
LEMMA RankType ==
    ASSUME NEW S \in SUBSET Nat, IsFiniteSet(S), NEW p \in S
    PROVE  /\ Cardinality(S) \in Nat
           /\ Rank(S, p) \in 1 .. Cardinality(S)
<1> DEFINE T == {q \in S : q <= p}
<1>1. T \in SUBSET S /\ p \in T
  OBVIOUS
<1> HIDE DEF T
<1>2. /\ IsFiniteSet(T) /\ Cardinality(T) <= Cardinality(S)
      /\ Cardinality(T) \in Nat /\ Cardinality(S) \in Nat
  BY <1>1, FS_Subset, FS_CardinalityType
<1>3. Cardinality(T) # 0
  BY <1>1, <1>2, FS_EmptySet
<1>4. Rank(S, p) = Cardinality(T)
  BY DEF Rank, T
<1> QED
  BY <1>2, <1>3, <1>4

\* Of two offsets the greater has the greater rank.
LEMMA RankGrows ==
    ASSUME NEW S \in SUBSET Nat, IsFiniteSet(S), NEW p \in S, NEW r \in S, p < r
    PROVE  Rank(S, p) < Rank(S, r)
<1> DEFINE T == {q \in S : q <= p}
           U == {q \in S : q <= r}
<1>1. T \in SUBSET U /\ r \in U /\ r \notin T /\ U \in SUBSET S
  <2>1. p \in Nat /\ r \in Nat /\ \A q \in S : q \in Nat
    OBVIOUS
  <2>2. \A q \in S : q <= p => q <= r
    BY <2>1
  <2>3. r <= r /\ ~(r <= p)
    BY <2>1
  <2> QED
    BY <2>2, <2>3, Zenon
<1> HIDE DEF T, U
<1>2. IsFiniteSet(U) /\ Cardinality(U) \in Nat
  BY <1>1, FS_Subset, FS_CardinalityType
<1>3. /\ IsFiniteSet(T) /\ Cardinality(T) <= Cardinality(U) /\ Cardinality(T) \in Nat
      /\ Cardinality(U) # Cardinality(T)
  BY <1>1, <1>2, FS_Subset, FS_CardinalityType
<1>4. Rank(S, p) = Cardinality(T) /\ Rank(S, r) = Cardinality(U)
  BY DEF Rank, T, U
<1> QED
  BY <1>2, <1>3, <1>4

\* Different offsets have different ranks.
LEMMA RankOnce ==
    ASSUME NEW S \in SUBSET Nat, IsFiniteSet(S), NEW p \in S, NEW r \in S,
           Rank(S, p) = Rank(S, r)
    PROVE  p = r
<1>1. Rank(S, p) \in Nat /\ Rank(S, r) \in Nat
  BY RankType
<1>2. p < r \/ r < p \/ p = r
  OBVIOUS
<1> QED
  BY <1>1, <1>2, RankGrows

\* Every place up to the number of offsets is taken.
LEMMA RankOnto ==
    ASSUME NEW S \in SUBSET Nat, IsFiniteSet(S), NEW i \in 1 .. Cardinality(S)
    PROVE  \E p \in S : Rank(S, p) = i
<1> DEFINE N == 1 .. Cardinality(S)
           f == [p \in S |-> Rank(S, p)]
<1>1. Cardinality(S) \in Nat
  BY FS_CardinalityType
<1>2. IsFiniteSet(N) /\ Cardinality(N) = Cardinality(S)
  BY <1>1, UpTo
<1>3. f \in [S -> N]
  BY RankType
<1>4. \A p, r \in S : f[p] = f[r] => p = r
  BY RankOnce
<1> HIDE DEF f, N
<1>5. f \in Injection(S, N)
  BY <1>3, <1>4 DEF Injection, IsInjective
<1>6. f \in Surjection(S, N)
  BY <1>2, <1>5, FS_Injection
<1>7. \E p \in S : f[p] = i
  BY <1>6 DEF Surjection, N
<1> QED
  BY <1>7 DEF f

\* The offset at place i.
LEMMA AtIs ==
    ASSUME NEW S \in SUBSET Nat, IsFiniteSet(S), NEW i \in 1 .. Cardinality(S)
    PROVE  At(S, i) \in S /\ Rank(S, At(S, i)) = i
BY RankOnto DEF At

\* An offset is at the place of its rank.
LEMMA AtOf ==
    ASSUME NEW S \in SUBSET Nat, IsFiniteSet(S), NEW i, NEW p \in S, Rank(S, p) = i
    PROVE  At(S, i) = p
<1>1. i \in 1 .. Cardinality(S)
  BY RankType
<1>2. At(S, i) \in S /\ Rank(S, At(S, i)) = Rank(S, p)
  BY <1>1, AtIs
<1> QED
  BY <1>2, RankOnce

\* A list depends on the checksums of its entries only.
LEMMA SameList ==
    ASSUME NEW S \in SUBSET Nat, IsFiniteSet(S), NEW a, NEW b,
           \A p \in S : a[p].checksum = b[p].checksum
    PROVE  ByOffset(a, S) = ByOffset(b, S)
<1>1. \A i \in 1 .. Cardinality(S) : At(S, i) \in S
  BY AtIs
<1>2. \A i \in 1 .. Cardinality(S) : a[At(S, i)].checksum = b[At(S, i)].checksum
  BY <1>1
<1> QED
  BY <1>2, ByOffsetIs

\* Nothing in order.
LEMMA EmptyList ==
    ASSUME NEW b
    PROVE  ByOffset(b, {}) = <<>>
<1>1. Cardinality({}) = 0
  BY FS_EmptySet
<1> QED
  BY <1>1, ByOffsetIs

\* A list of checksums is a sequence as long as there are entries.
LEMMA ListType ==
    ASSUME NEW b, NEW S, IsFiniteSet(S)
    PROVE  /\ DOMAIN ByOffset(b, S) = 1 .. Cardinality(S)
           /\ Len(ByOffset(b, S)) = Cardinality(S)
           /\ Cardinality(S) \in Nat
           /\ \A i \in 1 .. Cardinality(S) : ByOffset(b, S)[i] = b[At(S, i)].checksum
<1>1. Cardinality(S) \in Nat
  BY FS_CardinalityType
<1> QED
  BY <1>1, ByOffsetIs

\* What is in a list is the checksum of an entry.
LEMMA FromEntries ==
    ASSUME NEW b, NEW S \in SUBSET Nat, IsFiniteSet(S),
           NEW i \in 1 .. Len(ByOffset(b, S))
    PROVE  \E p \in S : ByOffset(b, S)[i] = b[p].checksum
<1>1. /\ i \in 1 .. Cardinality(S)
      /\ ByOffset(b, S)[i] = b[At(S, i)].checksum
  BY ListType
<1>2. At(S, i) \in S
  BY <1>1, AtIs
<1> QED
  BY <1>1, <1>2

\* Of the offsets at S, those at T are the ones from lo on and below hi, those at A
\* are below lo and those at B below hi.
Parted(S, lo, hi, A, B, T) ==
    /\ lo \in Nat /\ hi \in Nat /\ lo <= hi
    /\ A \in SUBSET S /\ \A p \in S : p \in A <=> p < lo
    /\ B \in SUBSET S /\ \A p \in S : p \in B <=> p < hi
    /\ T \in SUBSET S /\ \A p \in S : p \in T <=> lo <= p /\ p < hi

\* Where the entries from lo on and below hi are in the list of all.
LEMMA PartOfList ==
    ASSUME NEW b, NEW S \in SUBSET Nat, IsFiniteSet(S),
           NEW lo, NEW hi, NEW A, NEW B, NEW T, Parted(S, lo, hi, A, B, T)
    PROVE  /\ Cardinality(B) = Cardinality(A) + Cardinality(T)
           /\ Cardinality(B) <= Cardinality(S)
           /\ \A i \in 1 .. Cardinality(T) :
                ByOffset(b, T)[i] = ByOffset(b, S)[i + Cardinality(A)]
<1> DEFINE m == Cardinality(A)
           n == Cardinality(B)
<1> USE DEF Parted
<1>0. \A p \in S : p \in Nat
  OBVIOUS
<1>1. /\ A \in SUBSET S /\ T \in SUBSET S /\ B \in SUBSET S
      /\ A \cap T = {} /\ A \cup T = B
  <2>1. \A p \in S : ~(p < lo /\ lo <= p) /\ (p < hi <=> p < lo \/ (lo <= p /\ p < hi))
    BY <1>0
  <2> QED
    BY <2>1, Zenon
<1>2. /\ IsFiniteSet(A) /\ IsFiniteSet(T) /\ IsFiniteSet(B) /\ m \in Nat /\ n \in Nat
      /\ Cardinality(T) \in Nat /\ Cardinality(S) \in Nat /\ n <= Cardinality(S)
  <2> QED
    BY <1>1, FS_Subset, FS_CardinalityType
<1>3. n = m + Cardinality(T)
  <2> QED
    BY <1>1, <1>2, DisjointCount
<1>4. ASSUME NEW p \in T PROVE Rank(S, p) = m + Rank(T, p)
  <2> DEFINE P == {q \in S : q <= p}
             Q == {q \in T : q <= p}
  <2>1. p \in Nat /\ lo <= p /\ p < hi
    BY <1>0
  <2>2. A \cap Q = {}
    BY <1>1
  <2>3. A \cup Q = P
    <3>1. \A q \in S : q <= p <=> q < lo \/ (lo <= q /\ q < hi /\ q <= p)
      BY <1>0, <2>1
    <3>2. \A q : q \in Q <=> q \in S /\ lo <= q /\ q < hi /\ q <= p
      OBVIOUS
    <3>3. \A q : q \in A \cup Q <=> q \in P
      BY <3>1, <3>2
    <3> HIDE DEF Q, P
    <3> QED
      BY <3>3
  <2>4. IsFiniteSet(Q)
    <3>1. Q \in SUBSET T
      OBVIOUS
    <3> QED
      BY <1>2, <3>1, FS_Subset
  <2>5. Rank(S, p) = Cardinality(P) /\ Rank(T, p) = Cardinality(Q)
    BY DEF Rank
  <2> HIDE DEF P, Q
  <2> QED
    BY <1>2, <2>2, <2>3, <2>4, <2>5, DisjointCount
<1> HIDE DEF m, n
<1>5. ASSUME NEW i \in 1 .. Cardinality(T) PROVE At(T, i) = At(S, i + m)
  <2>1. At(T, i) \in T /\ Rank(T, At(T, i)) = i /\ T \in SUBSET Nat
    BY <1>1, <1>2, AtIs
  <2>2. Rank(S, At(T, i)) = m + i
    BY <1>4, <2>1
  <2>3. m + i = i + m
    BY <1>2
  <2> QED
    BY <1>1, <2>1, <2>2, <2>3, AtOf
<1> DEFINE s == ByOffset(b, S)
           t == ByOffset(b, T)
<1>6. /\ s = [i \in 1 .. Cardinality(S) |-> b[At(S, i)].checksum]
      /\ t = [i \in 1 .. Cardinality(T) |-> b[At(T, i)].checksum]
  BY ByOffsetIs
<1> HIDE DEF s, t
<1>7. \A i \in 1 .. Cardinality(T) : t[i] = s[i + m]
  BY <1>2, <1>3, <1>5, <1>6
<1> QED
  BY <1>2, <1>3, <1>7 DEF s, t, m, n

\* One more entry above all others.
LEMMA LongerList ==
    ASSUME NEW b, NEW S \in SUBSET Nat, IsFiniteSet(S), NEW x \in Nat,
           \A p \in S : p < x
    PROVE  ByOffset(b, S \cup {x}) = ByOffset(b, S) \o <<b[x].checksum>>
<1> DEFINE T == S \cup {x}
           n == Cardinality(S)
<1>0. /\ x \notin S /\ T \in SUBSET Nat /\ IsFiniteSet(T) /\ x \in T
      /\ n \in Nat /\ Cardinality(T) = n + 1
  <2>1. x \notin S /\ T \in SUBSET Nat /\ x \in T
    OBVIOUS
  <2>2. IsFiniteSet(T) /\ Cardinality(T) = n + 1
    BY <2>1, FS_AddElement, Zenon
  <2>3. n \in Nat
    BY FS_CardinalityType
  <2> QED
    BY <2>1, <2>2, <2>3
<1>1. Rank(T, x) = n + 1
  <2>1. \A q \in T : q <= x
    OBVIOUS
  <2>2. {q \in T : q <= x} = T
    BY <2>1, Zenon
  <2> QED
    BY <1>0, <2>2 DEF Rank
<1>2. ASSUME NEW p \in S PROVE Rank(T, p) = Rank(S, p)
  <2>1. {q \in T : q <= p} = {q \in S : q <= p}
    OBVIOUS
  <2> QED
    BY <2>1 DEF Rank
<1>3. S \subseteq T
  OBVIOUS
<1> HIDE DEF T
<1>4. At(T, n + 1) = x
  BY <1>0, <1>1, AtOf
<1>5. ASSUME NEW i \in 1 .. n PROVE At(T, i) = At(S, i)
  <2>1. At(S, i) \in S /\ Rank(S, At(S, i)) = i
    BY <1>0, AtIs
  <2>2. PICK p \in T : p = At(S, i) /\ Rank(T, p) = i
    BY <1>2, <1>3, <2>1
  <2>3. At(T, i) = p
    BY <1>0, <2>2, AtOf
  <2> QED
    BY <2>2, <2>3
<1> DEFINE s == ByOffset(b, S)
           t == ByOffset(b, T)
           k == b[x].checksum
<1>6. /\ s = [i \in 1 .. n |-> b[At(S, i)].checksum]
      /\ t = [i \in 1 .. n + 1 |-> b[At(T, i)].checksum]
  BY <1>0, ByOffsetIs
<1>7. t[n + 1] = k
  BY <1>0, <1>4, <1>6
<1> HIDE DEF s, t, k, n
<1>8. \A i \in 1 .. n : t[i] = s[i]
  BY <1>0, <1>5, <1>6
<1>9. Len(s) = n /\ s \o <<k>> = [i \in 1 .. n + 1 |-> IF i <= n THEN s[i] ELSE k]
  BY <1>0, <1>6
<1>10. t = s \o <<k>>
  <2>1. \A i \in 1 .. n + 1 : (i <= n /\ i \in 1 .. n) \/ (~(i <= n) /\ i = n + 1)
    BY <1>0
  <2>2. \A i \in 1 .. n + 1 : t[i] = IF i <= n THEN s[i] ELSE k
    BY <1>7, <1>8, <2>1
  <2>3. t = [i \in 1 .. n + 1 |-> t[i]]
    BY <1>6
  <2> QED
    BY <1>9, <2>2, <2>3
<1> QED
  BY <1>10 DEF s, t, k, T


-----------------------------------------------------------------------------
(* What the writes of cell_body do to the used entries                     *)

Used(b) == {p \in DOMAIN b : ~b[p].free}

Before(b, n) == {p \in Used(b) : p < n}

From(b, n) == {p \in Used(b) : n <= p}

\* Of the entries of a those below s stay, those from lo on and below hi too, and
\* c is at s; the write position of b is m, between the one part and the other.
Written(a, b, s, m, c, lo, hi) ==
    /\ lo \in Nat /\ hi \in Nat /\ s < lo /\ lo <= hi
    /\ Before(b, m) = Before(a, s) \cup {s}
    /\ From(b, m) = {p \in Used(a) : lo <= p /\ p < hi}
    /\ b[s].checksum = c
    /\ \A p \in Before(a, s) \cup From(b, m) : b[p].checksum = a[p].checksum

\* The entries of a up to the one at h, which is free, as cell_body_add_dir_entry
\* leaves them.
CutAt(a, b, h) ==
    /\ h \in DOMAIN a /\ DOMAIN b = {p \in DOMAIN a : p <= h}
    /\ \A p \in DOMAIN b : p # h => b[p] = a[p]
    /\ b[h].free

\* cell_body_add_top writes at s and forgets what was above.
LEMMA PutOnTopWrites ==
    ASSUME FieldsWide, NEW c \in Checksums,
           NEW b, NEW t \in Nat, BodyType(b), Tiled(b, t), NEW s \in DOMAIN b
    PROVE  Written(b, PutOnTop(b, s, c), s, s + H + SizeOf[c], c, t + 1, t + 1)
<1> DEFINE n == PutOnTop(b, s, c)
           e == s + H + SizeOf[c]
<1>0. /\ s \in Nat /\ SizeOf[c] \in Nat /\ e \in Nat /\ s < e /\ s <= t
      /\ \A p \in DOMAIN b : p \in Nat /\ p <= t
  BY ChunkSize, CellAssumption DEF BodyType, Tiled
<1>1. /\ DOMAIN n = {q \in DOMAIN b : q < s} \cup {s, e}
      /\ \A p \in DOMAIN b : p < s => n[p] = b[p]
      /\ n[s] = UsedEntry(c, b[s].prev)
      /\ n[e] = TopEntry(Field(SizeOf[c]))
  BY <1>0 DEF PutOnTop
<1>2. n[s].checksum = c /\ ~n[s].free /\ n[e].free
  BY <1>1 DEF UsedEntry, TopEntry
<1> HIDE DEF n, e
<1>3. \A p : p \in Used(n) <=> p \in Before(b, s) \cup {s}
  BY <1>0, <1>1, <1>2 DEF Used, Before
<1>4. Before(n, e) = Before(b, s) \cup {s}
  <2>1. \A p \in Before(b, s) \cup {s} : p < e
    BY <1>0 DEF Before, Used
  <2>2. \A p : p \in Before(n, e) <=> p \in Before(b, s) \cup {s}
    BY <1>3, <2>1 DEF Before
  <2> QED
    BY <2>2
<1>5. From(n, e) = {}
  <2>1. \A p \in Before(b, s) \cup {s} : ~(e <= p)
    BY <1>0 DEF Before, Used
  <2> QED
    BY <1>3, <2>1 DEF From
<1>6. {p \in Used(b) : t + 1 <= p /\ p < t + 1} = {}
  BY <1>0 DEF Used
<1>7. \A p \in Before(b, s) : n[p].checksum = b[p].checksum
  BY <1>1 DEF Before, Used
<1>8. t + 1 \in Nat /\ s < t + 1 /\ t + 1 <= t + 1
  BY <1>0
<1> QED
  BY <1>2, <1>4, <1>5, <1>6, <1>7, <1>8 DEF Written, n, e

\* An entry is overwritten by a chunk of its size.
LEMMA ReplaceWrites ==
    ASSUME FieldsWide, NEW c \in Checksums,
           NEW a, NEW t \in Nat, BodyType(a), Tiled(a, t), NEW s \in DOMAIN a,
           a[s].size = SizeOf[c], NEW b, NEW h, CutAt(a, b, h), s < h
    PROVE  Written(a, Replace(b, s, c), s, s + H + SizeOf[c], c, s + H + SizeOf[c], h)
<1> DEFINE n == Replace(b, s, c)
           e == s + H + SizeOf[c]
<1>0. /\ s \in Nat /\ h \in Nat /\ SizeOf[c] \in Nat /\ e \in Nat /\ s < e
      /\ \A p \in DOMAIN a : p \in Nat
  BY ChunkSize, CellAssumption DEF BodyType, CutAt
<1>1. s \in DOMAIN b /\ h \in DOMAIN b
  BY <1>0 DEF CutAt
<1>2. /\ DOMAIN n = DOMAIN b
      /\ \A p \in DOMAIN b : p # s => n[p] = b[p]
      /\ n[s] = UsedEntry(c, b[s].prev)
  BY <1>1 DEF Replace
<1>3. n[s].checksum = c /\ ~n[s].free
  BY <1>2 DEF UsedEntry
<1>4. EndIn(a, s) = e /\ e <= h
  <2>1. EndIn(a, s) <= h
    BY <1>0, EndsApart DEF CutAt
  <2> QED
    BY <2>1 DEF EndIn
<1>5. \A p \in DOMAIN a : p <= s \/ e <= p
  <2>1. \A p \in DOMAIN a : s < p => EndIn(a, s) <= p
    BY EndsApart
  <2> QED
    BY <1>0, <1>4, <2>1
<1> HIDE DEF n, e
<1>6. \A p : p \in Used(n) <=> p = s \/ (p \in Used(a) /\ p < h /\ p # s)
  <2>1. ASSUME NEW p, p \in Used(n), p # s PROVE p \in Used(a) /\ p < h
    <3>1. p \in DOMAIN b /\ n[p] = b[p] /\ ~b[p].free
      BY <1>2, <2>1 DEF Used
    <3>2. p # h /\ p \in DOMAIN a /\ p <= h /\ b[p] = a[p]
      BY <3>1 DEF CutAt
    <3> QED
      BY <1>0, <3>1, <3>2 DEF Used
  <2>2. ASSUME NEW p \in Used(a), p < h, p # s PROVE p \in Used(n)
    <3>1. p \in DOMAIN a /\ ~a[p].free /\ p \in Nat
      BY <1>0 DEF Used
    <3>2. p \in DOMAIN b /\ p # h
      BY <1>0, <2>2, <3>1 DEF CutAt
    <3>3. n[p] = a[p]
      BY <1>2, <2>2, <3>2 DEF CutAt
    <3> QED
      BY <1>2, <3>1, <3>2, <3>3 DEF Used
  <2>3. s \in Used(n)
    BY <1>1, <1>2, <1>3 DEF Used
  <2> QED
    BY <2>1, <2>2, <2>3
<1>7. \A p \in Used(a) : p \in Nat /\ (p <= s \/ e <= p)
  BY <1>0, <1>5 DEF Used
<1>8. Before(n, e) = Before(a, s) \cup {s}
  <2>1. \A p \in Used(a) : p < h /\ p # s /\ p < e <=> p < s
    BY <1>0, <1>4, <1>7
  <2>2. \A p : p \in Before(n, e) <=> p \in Before(a, s) \cup {s}
    BY <1>0, <1>6, <2>1 DEF Before
  <2> QED
    BY <2>2
<1>9. From(n, e) = {p \in Used(a) : e <= p /\ p < h}
  <2>1. \A p \in Used(a) : p < h /\ p # s /\ e <= p <=> e <= p /\ p < h
    BY <1>0
  <2>2. ~(e <= s)
    BY <1>0
  <2>3. \A p : p \in From(n, e) <=> p \in {q \in Used(a) : e <= q /\ q < h}
    BY <1>6, <2>1, <2>2 DEF From
  <2> QED
    BY <2>3
<1>10. ASSUME NEW p \in Before(a, s) \cup From(n, e)
       PROVE  n[p].checksum = a[p].checksum
  <2>1. p \in DOMAIN a /\ p # s /\ p < h /\ p \in Nat
    BY <1>0, <1>9 DEF Before, Used
  <2>2. p \in DOMAIN b /\ p # h
    BY <1>0, <2>1 DEF CutAt
  <2> QED
    BY <1>2, <2>1, <2>2 DEF CutAt
<1> QED
  BY <1>0, <1>3, <1>4, <1>8, <1>9, <1>10 DEF Written, n, e


\* The entries from s up to e are overwritten by a chunk and a left-over.
LEMMA SplitWrites ==
    ASSUME FieldsWide, NEW c \in Checksums,
           NEW a, BodyType(a), NEW s \in DOMAIN a, NEW e \in DOMAIN a,
           s + H + SizeOf[c] < e,
           NEW b, BodyType(b), NEW h, CutAt(a, b, h), e <= h
    PROVE  Written(a, Split(b, s, c, e), s, s + H + SizeOf[c], c, e, h)
<1> DEFINE n == Split(b, s, c, e)
           m == s + H + SizeOf[c]
<1>0. /\ s \in Nat /\ h \in Nat /\ e \in Nat /\ SizeOf[c] \in Nat
      /\ m \in Nat /\ s < m /\ m < e /\ s < e
      /\ \A p \in DOMAIN a : p \in Nat
  BY ChunkSize, CellAssumption DEF BodyType, CutAt
<1>1. s \in DOMAIN b /\ h \in DOMAIN b /\ e \in DOMAIN b /\ b[e] \in Entries
  BY <1>0 DEF CutAt, BodyType
<1>2. /\ DOMAIN n = {q \in DOMAIN b : q <= s \/ q >= e} \cup {m}
      /\ \A p \in DOMAIN n : p \notin {s, m, e} => n[p] = b[p]
      /\ n[s] = UsedEntry(c, b[s].prev)
      /\ n[m] = FreeEntry(e - m - H, Field(SizeOf[c]))
      /\ n[e] = [b[e] EXCEPT !.prev = Field(e - m - H)]
  BY <1>0, <1>1 DEF Split
<1>3. n[s].checksum = c /\ ~n[s].free /\ n[m].free
  BY <1>2 DEF UsedEntry, FreeEntry
<1>4. (n[e].free <=> b[e].free) /\ n[e].checksum = b[e].checksum
  BY <1>1, <1>2 DEF Entries
<1> HIDE DEF n, m
<1>5. ASSUME NEW p \in DOMAIN b, p # s, p <= s \/ e <= p
      PROVE  p \in DOMAIN n /\ (n[p].free <=> b[p].free) /\ n[p].checksum = b[p].checksum
  <2>1. p \in Nat /\ p # m
    BY <1>0, <1>5 DEF CutAt
  <2>2. p \in DOMAIN n
    BY <1>0, <1>2, <1>5, <2>1
  <2>3. CASE p = e
    BY <1>4, <2>2, <2>3
  <2>4. CASE p # e
    BY <1>2, <1>5, <2>1, <2>2, <2>4
  <2> QED
    BY <2>3, <2>4
<1>6. \A p : p \in Used(n) <=>
               p = s \/ (p \in Used(a) /\ p < h /\ p # s /\ (p <= s \/ e <= p))
  <2>1. ASSUME NEW p, p \in Used(n), p # s
        PROVE  p \in Used(a) /\ p < h /\ (p <= s \/ e <= p)
    <3>1. p \in DOMAIN b /\ (p <= s \/ e <= p)
      BY <1>0, <1>2, <1>3, <2>1 DEF Used, CutAt
    <3>2. ~b[p].free
      BY <1>5, <2>1, <3>1 DEF Used
    <3>3. p # h /\ p \in DOMAIN a /\ p <= h /\ b[p] = a[p]
      BY <3>1, <3>2 DEF CutAt
    <3> QED
      BY <1>0, <3>1, <3>2, <3>3 DEF Used
  <2>2. ASSUME NEW p \in Used(a), p < h, p # s, p <= s \/ e <= p PROVE p \in Used(n)
    <3>1. p \in DOMAIN a /\ ~a[p].free /\ p \in Nat
      BY <1>0 DEF Used
    <3>2. p \in DOMAIN b /\ p # h
      BY <1>0, <2>2, <3>1 DEF CutAt
    <3>3. b[p] = a[p]
      BY <3>2 DEF CutAt
    <3> QED
      BY <1>5, <2>2, <3>1, <3>2, <3>3 DEF Used
  <2>3. s \in Used(n)
    BY <1>0, <1>1, <1>2, <1>3 DEF Used
  <2> QED
    BY <2>1, <2>2, <2>3
<1>7. \A p \in Used(a) : p \in Nat
  BY <1>0 DEF Used
<1>8. Before(n, m) = Before(a, s) \cup {s}
  <2>1. \A p \in Used(a) : p < h /\ p # s /\ (p <= s \/ e <= p) /\ p < m <=> p < s
    BY <1>0, <1>7
  <2>2. \A p : p \in Before(n, m) <=> p \in Before(a, s) \cup {s}
    BY <1>0, <1>6, <2>1 DEF Before
  <2> QED
    BY <2>2
<1>9. From(n, m) = {p \in Used(a) : e <= p /\ p < h}
  <2>1. \A p \in Used(a) :
          p < h /\ p # s /\ (p <= s \/ e <= p) /\ m <= p <=> e <= p /\ p < h
    BY <1>0, <1>7
  <2>2. ~(m <= s)
    BY <1>0
  <2>3. \A p : p \in From(n, m) <=> p \in {q \in Used(a) : e <= q /\ q < h}
    BY <1>6, <2>1, <2>2 DEF From
  <2> QED
    BY <2>3
<1>10. ASSUME NEW p \in Before(a, s) \cup From(n, m)
       PROVE  n[p].checksum = a[p].checksum
  <2>1. p \in DOMAIN a /\ p # s /\ p < h /\ p \in Nat /\ (p <= s \/ e <= p)
    BY <1>0, <1>9 DEF Before, Used
  <2>2. p \in DOMAIN b /\ p # h
    BY <1>0, <2>1 DEF CutAt
  <2> QED
    BY <1>5, <2>1, <2>2 DEF CutAt
<1> QED
  BY <1>0, <1>3, <1>8, <1>9, <1>10 DEF Written, n, m

-----------------------------------------------------------------------------
(* What an addition does to the two rounds                                 *)

Newer == ByOffset(body, Before(body, next))
Older == ByOffset(body, From(body, next))

\* The used entries of a ring are finitely many.
LEMMA UsedIsFinite ==
    ASSUME NEW n, RingInv(body, top, n, dir)
    PROVE  /\ Used(body) \in SUBSET Nat /\ IsFiniteSet(Used(body))
           /\ \A p \in Used(body) : p < top
           /\ \A S \in SUBSET Used(body) : S \in SUBSET Nat /\ IsFiniteSet(S)
<1>1. Used(body) = UsedIn(DOMAIN body)
  BY DEF Used, UsedIn
<1>2. IsFiniteSet(Used(body))
  BY <1>1, UsedFinite
<1>3. Used(body) \in SUBSET Nat
  BY DEF Used, RingInv, BodyType
<1>4. \A p \in Used(body) : p < top
  BY DEF Used, RingInv, BodyType, Tiled
<1>5. \A S \in SUBSET Used(body) : IsFiniteSet(S)
  BY <1>2, FS_Subset
<1> QED
  BY <1>2, <1>3, <1>4, <1>5

\* The rounds of the abstract ring, as lists of the used entries.
LEMMA Rounds ==
    /\ UsedIn({p \in DOMAIN body : p < next}) = Before(body, next)
    /\ UsedIn({p \in DOMAIN body : next <= p}) = From(body, next)
BY DEF UsedIn, Before, From, Used

\* A chunk that is not in the directory is in no round.
LEMMA NewChunk ==
    ASSUME NEW n, RingInv(body, top, n, dir), NEW c, c \notin DOMAIN dir,
           NEW S \in SUBSET Used(body), NEW i \in 1 .. Len(ByOffset(body, S))
    PROVE  ByOffset(body, S)[i] # c
<1>1. S \in SUBSET Nat /\ IsFiniteSet(S)
  BY UsedIsFinite
<1>2. PICK p \in S : ByOffset(body, S)[i] = body[p].checksum
  BY <1>1, FromEntries
<1>3. body[p].checksum \in DOMAIN dir
  BY DEF RingInv, Indexed, Used
<1> QED
  BY <1>2, <1>3


\* From body a to body b with write position m, c lengthens the list of the entries
\* below s, and of those from s on a part without gaps stays, without the first if
\* there was one at s.
Overwritten(a, b, s, m, c) ==
    LET kept  == ByOffset(a, Before(a, s))
        round == ByOffset(a, From(a, s))
    IN /\ ByOffset(b, Before(b, m)) = kept \o <<c>>
       /\ \E first \in 1 .. Len(round) + 1, last \in Len(round) - 1 .. Len(round) :
            /\ ByOffset(b, From(b, m)) = SubSeq(round, first, last)
            /\ s \in Used(a) => first >= 2

\* A write at s that takes away one entry at most from the end of the ring.
LEMMA NextRound ==
    ASSUME NEW n, RingInv(body, top, n, dir), NEW c \in Checksums, NEW s \in Nat,
           NEW b, NEW m, NEW lo, NEW hi, Written(body, b, s, m, c, lo, hi),
           \A p, q \in Used(body) : hi <= p /\ hi <= q => p = q
    PROVE  Overwritten(body, b, s, m, c)
<1> DEFINE K == Before(body, s)
           R == From(body, s)
           T == {p \in R : lo <= p /\ p < hi}
           L == {p \in R : p < lo}
           G == {p \in R : p < hi}
           X == {p \in R : hi <= p}
<1>0. /\ Used(body) \in SUBSET Nat /\ \A S \in SUBSET Used(body) : S \in SUBSET Nat /\ IsFiniteSet(S)
  BY UsedIsFinite
<1>1. /\ K \in SUBSET Used(body) /\ R \in SUBSET Used(body) /\ T \in SUBSET Used(body)
      /\ L \in SUBSET Used(body) /\ G \in SUBSET Used(body) /\ X \in SUBSET Used(body)
  BY DEF Before, From
<1>2. /\ lo \in Nat /\ hi \in Nat /\ s < lo /\ lo <= hi
      /\ Before(b, m) = K \cup {s}
      /\ From(b, m) = {p \in Used(body) : lo <= p /\ p < hi}
      /\ b[s].checksum = c
      /\ \A p \in K \cup From(b, m) : b[p].checksum = body[p].checksum
  BY DEF Written
<1>3. From(b, m) = T
  <2>1. \A p \in Used(body) : lo <= p => s <= p
    BY <1>0, <1>2
  <2>2. \A p : p \in {q \in Used(body) : lo <= q /\ q < hi} <=> p \in T
    BY <2>1 DEF From
  <2> HIDE DEF T
  <2> QED
    BY <1>2, <2>2
<1>4. ByOffset(b, K \cup {s}) = ByOffset(body, K) \o <<c>>
  <2>1. \A p \in K : p < s
    BY DEF Before
  <2>2. K \in SUBSET Nat /\ IsFiniteSet(K)
    BY <1>0, <1>1
  <2> HIDE DEF K
  <2>3. ByOffset(b, K \cup {s}) = ByOffset(b, K) \o <<b[s].checksum>>
    BY <2>1, <2>2, LongerList
  <2>4. ByOffset(b, K) = ByOffset(body, K)
    BY <1>2, <2>2, SameList
  <2> QED
    BY <1>2, <2>3, <2>4
<1>5. ByOffset(b, T) = ByOffset(body, T)
  <2>1. T \in SUBSET Nat /\ IsFiniteSet(T)
    BY <1>0, <1>1
  <2> HIDE DEF T
  <2> QED
    BY <1>2, <1>3, <2>1, SameList
<1> DEFINE first == Cardinality(L) + 1
           last  == Cardinality(G)
           round == ByOffset(body, R)
<1>6. ByOffset(body, T) = SubSeq(round, first, last)
  <2>1. R \in SUBSET Nat /\ IsFiniteSet(R)
    BY <1>0, <1>1
  <2>0. lo \in Nat /\ hi \in Nat /\ lo <= hi
    BY <1>2
  <2> HIDE DEF R
  <2>2. /\ L \in SUBSET R /\ \A p \in R : p \in L <=> p < lo
        /\ G \in SUBSET R /\ \A p \in R : p \in G <=> p < hi
        /\ T \in SUBSET R /\ \A p \in R : p \in T <=> lo <= p /\ p < hi
    OBVIOUS
  <2> HIDE DEF T, L, G, first, last, round
  <2>3. /\ Cardinality(G) = Cardinality(L) + Cardinality(T)
        /\ Cardinality(G) <= Cardinality(R)
        /\ \A i \in 1 .. Cardinality(T) :
             ByOffset(body, T)[i] = ByOffset(body, R)[i + Cardinality(L)]
    <3>1. Parted(R, lo, hi, L, G, T)
      BY <2>0, <2>2 DEF Parted
    <3> QED
      BY <2>1, <3>1, PartOfList
  <2>4. /\ Cardinality(L) \in Nat /\ Cardinality(G) \in Nat /\ Cardinality(T) \in Nat
        /\ Cardinality(R) \in Nat
    BY <2>1, <2>2, FS_Subset, FS_CardinalityType
  <2>5. first = Cardinality(L) + 1 /\ last = Cardinality(G) /\ round = ByOffset(body, R)
    BY DEF first, last, round
  <2>6. SubSeq(round, first, last) =
          [i \in 1 .. last - first + 1 |-> round[i + first - 1]]
    BY <2>4, <2>5
  <2>7. last - first + 1 = Cardinality(T)
    BY <2>3, <2>4, <2>5
  <2>8. \A i \in 1 .. Cardinality(T) : ByOffset(body, T)[i] = round[i + first - 1]
    <3>1. \A i \in 1 .. Cardinality(T) : i + first - 1 = i + Cardinality(L)
      BY <2>4, <2>5
    <3> QED
      BY <2>3, <2>5, <3>1
  <2>9. ByOffset(body, T) = [i \in 1 .. Cardinality(T) |-> ByOffset(body, T)[i]]
    BY ByOffsetIs
  <2> QED
    BY <2>6, <2>7, <2>8, <2>9
<1>7. /\ IsFiniteSet(R) /\ IsFiniteSet(L) /\ IsFiniteSet(G) /\ IsFiniteSet(X)
      /\ Cardinality(R) \in Nat /\ Cardinality(L) \in Nat
      /\ Cardinality(G) \in Nat /\ Cardinality(X) \in Nat
      /\ Len(round) = Cardinality(R)
  <2>1. IsFiniteSet(R) /\ IsFiniteSet(L) /\ IsFiniteSet(G) /\ IsFiniteSet(X)
    BY <1>0, <1>1
  <2> HIDE DEF R, L, G, X
  <2> QED
    BY <2>1, FS_CardinalityType, ListType
<1>8. Cardinality(L) <= Cardinality(R)
  <2>1. L \in SUBSET R
    OBVIOUS
  <2> HIDE DEF L, R
  <2> QED
    BY <1>7, <2>1, FS_Subset
<1>9. Cardinality(R) = Cardinality(G) + Cardinality(X)
  <2>1. \A p \in R : p < hi <=> ~(hi <= p)
    BY <1>0, <1>1, <1>2
  <2>2. G \cap X = {} /\ G \cup X = R
    BY <2>1, Zenon
  <2> HIDE DEF R, G, X
  <2> QED
    BY <1>7, <2>2, DisjointCount
<1>10. Cardinality(X) <= 1
  <2>1. \A p, q \in X : p = q
    BY <1>1
  <2> HIDE DEF X
  <2>2. CASE X = {}
    BY <2>2, FS_EmptySet
  <2>3. CASE X # {}
    <3>1. PICK x : x \in X
      BY <2>3
    <3>2. X = {x}
      BY <2>1, <3>1
    <3> QED
      BY <3>2, FS_Singleton
  <2> QED
    BY <2>2, <2>3
<1>11. ASSUME s \in Used(body) PROVE first >= 2
  <2>1. s \in L
    BY <1>2, <1>11 DEF From
  <2> HIDE DEF L
  <2>2. Cardinality(L) # 0
    BY <1>7, <2>1, FS_EmptySet
  <2> QED
    BY <1>7, <2>2
<1>12. first \in 1 .. Len(round) + 1 /\ last \in Len(round) - 1 .. Len(round)
  <2> HIDE DEF R, L, G, X
  <2> QED
    BY <1>7, <1>8, <1>9, <1>10
<1> HIDE DEF first, last, round, R, K, T
<1>13. /\ ByOffset(b, Before(b, m)) = ByOffset(body, K) \o <<c>>
       /\ ByOffset(b, From(b, m)) = SubSeq(round, first, last)
  BY <1>2, <1>3, <1>4, <1>5, <1>6
<1> QED
  BY <1>11, <1>12, <1>13 DEF R, K, round, Overwritten


\* The rounds that Promise maps a state to, and those of the next state.
LEMMA Mapped ==
    /\ ByOffset(body, UsedIn({p \in DOMAIN body : p < next})) = Newer
    /\ ByOffset(body, UsedIn({p \in DOMAIN body : next <= p})) = Older
    /\ ByOffset(body, UsedIn({p \in DOMAIN body : p < next}))' = Newer'
    /\ ByOffset(body, UsedIn({p \in DOMAIN body : next <= p}))' = Older'
<1>1. ByOffset(body, UsedIn({p \in DOMAIN body : p < next})) = Newer
  BY Rounds DEF Newer
<1>2. ByOffset(body, UsedIn({p \in DOMAIN body : next <= p})) = Older
  BY Rounds DEF Older
<1>3. ByOffset(body, UsedIn({p \in DOMAIN body : p < next}))' = Newer'
  <2>1. UsedIn({p \in DOMAIN body : p < next})' = Before(body', next')
    BY DEF UsedIn, Before, Used
  <2> QED
    BY <2>1 DEF Newer
<1>4. ByOffset(body, UsedIn({p \in DOMAIN body : next <= p}))' = Older'
  <2>1. UsedIn({p \in DOMAIN body : next <= p})' = From(body', next')
    BY DEF UsedIn, From, Used
  <2> QED
    BY <2>1 DEF Older
<1> QED
  BY <1>1, <1>2, <1>3, <1>4

\* A chunk that is not in the directory is not in the abstract ring.
LEMMA NotStored ==
    ASSUME NEW n, RingInv(body, top, n, dir), NEW c, c \notin DOMAIN dir
    PROVE  c \notin Promise!Stored
<1>1. Before(body, next) \in SUBSET Used(body) /\ From(body, next) \in SUBSET Used(body)
  BY DEF Before, From
<1>2. /\ \A i \in 1 .. Len(Newer) : Newer[i] # c
      /\ \A i \in 1 .. Len(Older) : Older[i] # c
  BY <1>1, NewChunk DEF Newer, Older
<1> QED
  BY <1>2, Mapped DEF Promise!Stored, Promise!In

\* A write at the position that cell_body_add_offset starts from is a step of the
\* abstract ring: in the round before, or, from the bottom, in the one that ends.
LEMMA WriteImplements ==
    ASSUME RingInv(body, top, next, dir), NEW c \in Checksums, c \notin DOMAIN dir,
           NotOnTop(c), NEW lo, NEW hi, Written(body, body', Start, next', c, lo, hi),
           \A p, q \in Used(body) : hi <= p /\ hi <= q => p = q
    PROVE  Promise!Next
<1> DEFINE kept  == ByOffset(body, Before(body, Start))
           round == ByOffset(body, From(body, Start))
<1>1. /\ Start \in DOMAIN body /\ Start \in Nat /\ Start < top
      /\ RingInv(body, top, Start, dir)
  BY StartFacts
<1>2. PICK b, m : b = body' /\ m = next'
  OBVIOUS
<1>3. /\ Newer' = kept \o <<c>>
      /\ \E first \in 1 .. Len(round) + 1, last \in Len(round) - 1 .. Len(round) :
           /\ Older' = SubSeq(round, first, last)
           /\ Start \in Used(body) => first >= 2
  <2>1. Overwritten(body, b, Start, m, c)
    BY <1>1, <1>2, NextRound
  <2>2. Newer' = ByOffset(b, Before(b, m)) /\ Older' = ByOffset(b, From(b, m))
    BY <1>2 DEF Newer, Older
  <2> QED
    BY <2>1, <2>2 DEF Overwritten
<1>4. c \notin Promise!Stored
  BY NotStored
<1>5. CASE next # top
  <2>1. kept = Newer /\ round = Older
    BY <1>5 DEF Start, Newer, Older
  <2> HIDE DEF kept, round
  <2>2. Promise!Overwrite(c, Older, Newer, 1)
    BY <1>3, <1>4, <2>1, Mapped DEF Promise!Overwrite
  <2> QED
    BY <2>2, Mapped DEF Promise!Next
<1>6. CASE next = top
  <2>1. Start = 0
    BY <1>6 DEF Start
  <2>2. \A p \in Used(body) : p \in Nat /\ p < top
    BY UsedIsFinite
  <2>3. Before(body, Start) = {}
    BY <2>1, <2>2 DEF Before
  <2>4. From(body, Start) = Before(body, next)
    <3>1. \A p \in Used(body) : Start <= p /\ p < next
      BY <1>6, <2>1, <2>2
    <3> QED
      BY <3>1 DEF From, Before
  <2>5. From(body, next) = {}
    <3>1. \A p \in Used(body) : ~(next <= p)
      BY <1>6, <2>2 DEF RingInv
    <3> QED
      BY <3>1 DEF From
  <2>6. kept = <<>> /\ round = Newer /\ Older = <<>>
    BY <2>3, <2>4, <2>5, EmptyList DEF Newer, Older
  <2>7. Start \in Used(body)
    BY <1>1, <1>6 DEF RingInv, Used
  <2>8. Newer # <<>>
    <3>1. IsFiniteSet(From(body, Start)) /\ Start \in From(body, Start)
      BY <2>1, <2>7, UsedIsFinite DEF From
    <3>2. Cardinality(From(body, Start)) \in Nat \ {0}
      BY <3>1, FS_CardinalityType, FS_EmptySet
    <3>3. Len(Newer) \in Nat \ {0}
      BY <2>6, <3>1, <3>2, ListType
    <3> QED
      BY <3>3
  <2> HIDE DEF kept, round
  <2>9. Promise!StartAgain(c)
    <3>1. PICK first \in 1 .. Len(Newer) + 1, last \in Len(Newer) - 1 .. Len(Newer) :
            Older' = SubSeq(Newer, first, last) /\ first >= 2
      BY <1>3, <2>6, <2>7
    <3>2. first \in 2 .. Len(Newer) + 1
      BY <3>1
    <3>3. Promise!Overwrite(c, Newer, <<>>, 2)
      BY <1>3, <1>4, <2>6, <3>1, <3>2, Mapped DEF Promise!Overwrite
    <3> QED
      BY <2>6, <2>8, <3>3, Mapped DEF Promise!StartAgain
  <2> QED
    BY <2>9 DEF Promise!Next
<1> QED
  BY <1>5, <1>6


-----------------------------------------------------------------------------
(* The paths through cell_body_add                                         *)

\* cell_body_add_dir_entry leaves the ring as it is or cuts off the last entry.
LEMMA PopCuts ==
    ASSUME RingInv(body, top, Start, dir), Start \in Nat, Start < top,
           NEW S, Failure(S, Pop(S)) = "none"
    PROVE  \E h \in DOMAIN body :
             /\ CutAt(body, PopTop(S).body, h) /\ BodyType(PopTop(S).body)
             /\ h = top \/ (h = Below /\ Below \notin S)
             /\ \A p, q \in Used(body) : h <= p /\ h <= q => p = q
<1>0. /\ BodyType(body) /\ top \in Nat /\ Tiled(body, top) /\ top \in DOMAIN body
      /\ \A p \in DOMAIN body : p \in Nat /\ p <= top
      /\ body[top].free
  BY DEF RingInv, Tiled, BodyType
<1>1. /\ Below \in DOMAIN body /\ Below \in Nat /\ Below < top
      /\ \A q \in DOMAIN body : q <= Below \/ q = top
  BY <1>0, BelowFacts
<1>2. CASE PopTop(S).body = body
  <2>1. CutAt(body, body, top)
    BY <1>0 DEF CutAt
  <2>2. \A p \in Used(body) : ~(top <= p)
    BY <1>0 DEF Used
  <2> QED
    BY <1>0, <1>2, <2>1, <2>2
<1>3. CASE Below \notin S /\ PopTop(S).body = SetTop(body, Below)
  <2>1. CutAt(body, SetTop(body, Below), Below)
    BY <1>1, <1>0 DEF CutAt, SetTop, TopEntry
  <2>2. BodyType(SetTop(body, Below))
    BY <1>0, <1>1, SetTopTiled
  <2>3. \A p \in Used(body) : Below <= p => p = Below
    BY <1>0, <1>1 DEF Used
  <2> QED
    BY <1>1, <1>3, <2>1, <2>2, <2>3
<1> QED
  BY <1>2, <1>3, PopCases

\* A chunk on top.
LEMMA AddTopImplements ==
    ASSUME FieldsWide, RingInv(body, top, next, dir), NEW c \in Checksums, AddTop(c)
    PROVE  Promise!Next
<1>1. /\ next = top /\ c \notin DOMAIN dir /\ body' = PutOnTop(body, top, c)
      /\ next' = top + H + SizeOf[c]
  BY DEF AddTop, CanAdd, HasChunk
<1>2. BodyType(body) /\ top \in Nat /\ Tiled(body, top) /\ top \in DOMAIN body
  BY DEF RingInv, Tiled
<1>3. PICK b, m : b = body' /\ m = next'
  OBVIOUS
<1>4. Written(body, b, top, m, c, top + 1, top + 1)
  BY <1>1, <1>2, <1>3, PutOnTopWrites
<1>5. \A p \in Used(body) : p \in Nat /\ p < top
  BY UsedIsFinite
<1>6. Overwritten(body, b, top, m, c)
  BY <1>2, <1>4, <1>5, NextRound
<1>7. Newer' = Newer \o <<c>>
  BY <1>1, <1>3, <1>6 DEF Overwritten, Newer
<1>8. From(body, next) = {}
  <2>1. \A p \in Used(body) : ~(next <= p)
    BY <1>1, <1>2, <1>5
  <2> QED
    BY <2>1 DEF From
<1>9. From(b, m) = {}
  <2>1. \A p \in Used(body) : ~(top + 1 <= p)
    BY <1>2, <1>5
  <2> QED
    BY <1>4, <2>1 DEF Written
<1>10. Older = <<>> /\ Older' = <<>>
  BY <1>3, <1>8, <1>9, EmptyList DEF Older
<1>11. Promise!AddOnTop(c)
  BY <1>1, <1>7, <1>10, NotStored, Mapped DEF Promise!AddOnTop
<1> QED
  BY <1>11 DEF Promise!Next

\* A chunk in the place of one of its size.
LEMMA AddReplaceImplements ==
    ASSUME FieldsWide, RingInv(body, top, next, dir), NEW c \in Checksums, AddReplace(c)
    PROVE  Promise!Next
<1> DEFINE S == {Start}
<1>1. /\ NotOnTop(c) /\ c \notin DOMAIN dir /\ body[Start].size = SizeOf[c]
      /\ Failure(S, Pop(S)) = "none"
      /\ body' = Replace(PopTop(S).body, Start, c)
      /\ next' = Start + H + SizeOf[c]
  BY DEF AddReplace, SameSize, CanAdd, HasChunk
<1>2. /\ Start \in DOMAIN body /\ Start \in Nat /\ Start < top
      /\ RingInv(body, top, Start, dir)
  BY <1>1, StartFacts
<1>3. PICK h \in DOMAIN body :
        /\ CutAt(body, PopTop(S).body, h)
        /\ h = top \/ (h = Below /\ Below \notin S)
        /\ \A p, q \in Used(body) : h <= p /\ h <= q => p = q
  BY <1>1, <1>2, PopCuts
<1>4. BodyType(body) /\ top \in Nat /\ Tiled(body, top) /\ h \in Nat
  BY DEF RingInv, BodyType
<1>5. Start < h
  <2>1. \A q \in DOMAIN body : q <= Below \/ q = top
    BY <1>2, <1>4, BelowFacts
  <2> QED
    BY <1>2, <1>3, <1>4, <2>1
<1>6. PICK a : a = PopTop(S).body
  OBVIOUS
<1>7. Written(body, Replace(a, Start, c), Start, Start + H + SizeOf[c], c,
              Start + H + SizeOf[c], h)
  BY <1>1, <1>2, <1>3, <1>4, <1>5, <1>6, ReplaceWrites
<1> QED
  BY <1>1, <1>3, <1>6, <1>7, WriteImplements

\* A chunk in the place of several.
LEMMA AddSplitImplements ==
    ASSUME FieldsWide, RingInv(body, top, next, dir), NEW c \in Checksums, AddSplit(c)
    PROVE  Promise!Next
<1>1. PICK last \in Rest :
        /\ Makes(c, last) /\ c \notin DOMAIN dir
        /\ Failure(Merged(last), Pop(Merged(last))) = "none"
        /\ body' = Split(PopTop(Merged(last)).body, Start, c, End(last))
        /\ next' = Start + H + SizeOf[c]
  BY DEF AddSplit, CanAdd, HasChunk
<1> DEFINE S == Merged(last)
           e == End(last)
<1>2. /\ Start \in DOMAIN body /\ Start \in Nat /\ Start < top
      /\ RingInv(body, top, Start, dir) /\ NotOnTop(c)
  BY <1>1, StartFacts DEF Makes
<1>3. /\ e \in DOMAIN body /\ e \in Nat /\ e # top
      /\ S = {p \in DOMAIN body : Start <= p /\ p < e}
  BY <1>1, <1>2, LeftOver DEF Makes
<1>4. Start + H + SizeOf[c] < e
  <2>1. PICK left \in Nat : e = Start + H + SizeOf[c] + H + left
    BY <1>1, <1>2, LeftOver
  <2> QED
    BY <1>2, <2>1, CellAssumption
<1> HIDE DEF S, e
<1>5. PICK h \in DOMAIN body :
        /\ CutAt(body, PopTop(S).body, h) /\ BodyType(PopTop(S).body)
        /\ h = top \/ (h = Below /\ Below \notin S)
        /\ \A p, q \in Used(body) : h <= p /\ h <= q => p = q
  BY <1>1, <1>2, PopCuts DEF S
<1>6. /\ BodyType(body) /\ top \in Nat /\ h \in Nat
      /\ \A p \in DOMAIN body : p <= top
  BY DEF RingInv, BodyType, Tiled
<1>7. e <= h
  <2>1. \A q \in DOMAIN body : q <= Below \/ q = top
    BY <1>2, <1>6, BelowFacts
  <2>2. CASE h = top
    BY <1>3, <1>6, <2>2
  <2>3. CASE h = Below /\ Below \notin S
    BY <1>2, <1>3, <1>6, <2>1, <2>3
  <2> QED
    BY <1>5, <2>2, <2>3
<1>8. PICK a : a = PopTop(S).body
  OBVIOUS
<1>9. Written(body, Split(a, Start, c, e), Start, Start + H + SizeOf[c], c, e, h)
  BY <1>2, <1>3, <1>4, <1>5, <1>6, <1>7, <1>8, SplitWrites
<1>10. body' = Split(a, Start, c, e)
  BY <1>1, <1>8 DEF S, e
<1> QED
  BY <1>1, <1>2, <1>5, <1>9, <1>10, WriteImplements

\* A chunk in the place of all from the write position to the top.
LEMMA AddPushDownImplements ==
    ASSUME FieldsWide, RingInv(body, top, next, dir), NEW c \in Checksums, AddPushDown(c)
    PROVE  Promise!Next
<1>1. /\ NotOnTop(c) /\ c \notin DOMAIN dir /\ body' = PutOnTop(body, Start, c)
      /\ next' = Start + H + SizeOf[c]
  BY DEF AddPushDown, ReachesTop, CanAdd, HasChunk
<1>2. Start \in DOMAIN body
  BY <1>1, StartFacts
<1>3. BodyType(body) /\ top \in Nat /\ Tiled(body, top)
  BY DEF RingInv
<1>4. Written(body, body', Start, next', c, top + 1, top + 1)
  BY <1>1, <1>2, <1>3, PutOnTopWrites
<1>5. \A p \in Used(body) : ~(top + 1 <= p)
  <2>1. \A p \in Used(body) : p \in Nat /\ p < top
    BY UsedIsFinite
  <2> QED
    BY <1>3, <2>1
<1> QED
  BY <1>1, <1>4, <1>5, WriteImplements

\* The entries from the write position to the top are gone for nothing: the older
\* round is lost, or, from the bottom, everything.
LEMMA AddDroppedImplements ==
    ASSUME RingInv(body, top, next, dir), NEW c \in Checksums, AddDropped(c)
    PROVE  Promise!Next
<1>1. NotOnTop(c) /\ body' = SetTop(body, Start) /\ next' = Start
  BY DEF AddDropped, ReachesTop
<1>2. Start \in DOMAIN body /\ Start \in Nat /\ \A p \in DOMAIN body : p \in Nat
  BY <1>1, StartFacts DEF RingInv, BodyType
<1>3. PICK b : b = body'
  OBVIOUS
<1>4. /\ DOMAIN b = {q \in DOMAIN body : q <= Start}
      /\ \A p \in DOMAIN b : p # Start => b[p] = body[p]
      /\ b[Start].free
  BY <1>1, <1>2, <1>3 DEF SetTop, TopEntry
<1>5. Before(b, Start) = Before(body, Start)
  <2>1. \A p : p \in Before(b, Start) <=> p \in Before(body, Start)
    BY <1>2, <1>4 DEF Before, Used
  <2> QED
    BY <2>1
<1>6. From(b, Start) = {}
  BY <1>2, <1>4 DEF From, Used
<1>7. Older' = <<>>
  BY <1>1, <1>3, <1>6, EmptyList DEF Older
<1>8. Newer' = ByOffset(body, Before(body, Start))
  <2>1. Before(body, Start) \in SUBSET Nat /\ IsFiniteSet(Before(body, Start))
    <3>1. Before(body, Start) \in SUBSET Used(body)
      BY DEF Before
    <3> QED
      BY <3>1, UsedIsFinite
  <2>2. \A p \in Before(body, Start) : b[p].checksum = body[p].checksum
    BY <1>2, <1>4 DEF Before, Used
  <2>3. ByOffset(b, Before(body, Start)) = ByOffset(body, Before(body, Start))
    BY <2>1, <2>2, SameList
  <2> QED
    BY <1>1, <1>3, <1>5, <2>3 DEF Newer
<1>9. CASE next # top
  <2>1. Newer' = Newer
    BY <1>8, <1>9 DEF Start, Newer
  <2>2. Promise!Discard
    BY <1>7, <2>1, Mapped DEF Promise!Discard
  <2> QED
    BY <2>2 DEF Promise!Next
<1>10. CASE next = top
  <2>1. Before(body, Start) = {}
    BY <1>2, <1>10 DEF Before, Used, Start
  <2>2. Newer' = <<>>
    BY <1>8, <2>1, EmptyList
  <2>3. Promise!Reset
    BY <1>7, <2>2, Mapped DEF Promise!Reset
  <2> QED
    BY <2>3 DEF Promise!Next
<1> QED
  BY <1>9, <1>10

\* An empty ring.
LEMMA EmptyRounds ==
    ASSUME NEW b, b = InitBody
    PROVE  ByOffset(b, Before(b, 0)) = <<>> /\ ByOffset(b, From(b, 0)) = <<>>
<1>1. Used(b) = {}
  BY DEF Used, InitBody, TopEntry
<1>2. Before(b, 0) = {} /\ From(b, 0) = {}
  BY <1>1 DEF Before, From
<1> QED
  BY <1>2, EmptyList

\* The cell implements the ring of chunks: whatever the sizes, the overflow of the
\* directory and the left-over entries do, chunks are overwritten in the order in
\* which they were added, save the one that gives way to a directory entry.
THEOREM CellImplementsRing ==
    ASSUME FieldsWide
    PROVE  Spec => ImplementsRing
<1>1. Init => Promise!Init
  <2> SUFFICES ASSUME Init PROVE Promise!Init
    OBVIOUS
  <2>1. Newer = <<>> /\ Older = <<>>
    BY EmptyRounds DEF Init, Newer, Older
  <2> QED
    BY <2>1, Mapped DEF Promise!Init
<1>2. IInv /\ [Next]_vars => [Promise!Next]_(Promise!vars)
  <2> SUFFICES ASSUME IInv, [Next]_vars PROVE [Promise!Next]_(Promise!vars)
    OBVIOUS
  <2>0. RingInv(body, top, next, dir)
    BY DEF IInv
  <2>1. ASSUME NEW c \in Checksums,
               AddTop(c) \/ AddReplace(c) \/ AddSplit(c) \/ AddPushDown(c) \/ AddDropped(c)
        PROVE  Promise!Next
    BY <2>0, <2>1, AddTopImplements, AddReplaceImplements, AddSplitImplements,
       AddPushDownImplements, AddDroppedImplements
  <2>2. ASSUME UNCHANGED <<body, next>> PROVE UNCHANGED Promise!vars
    BY <2>2, Mapped DEF Promise!vars, Newer, Older
  <2>3. ASSUME NEW c \in Checksums, AddAborts(c) \/ AddKilled(c)
        PROVE  UNCHANGED <<body, next>>
    BY <2>3 DEF AddAborts, AddKilled, StopInAdd, ring
  <2>4. CASE OpenReset
    <3>1. Newer' = <<>> /\ Older' = <<>>
      BY <2>4, EmptyRounds DEF OpenReset, Newer, Older
    <3>2. Promise!Reset
      BY <3>1, Mapped DEF Promise!Reset
    <3> QED
      BY <3>2 DEF Promise!Next
  <2>5. CASE OpenSane \/ ResetKilled \/ Close \/ UNCHANGED vars
    BY <2>2, <2>5 DEF OpenSane, ResetKilled, Close, ring, vars
  <2> QED
    BY <2>1, <2>2, <2>3, <2>4, <2>5 DEF Next
<1> QED
  BY CellInductive, <1>1, <1>2, PTL DEF Spec, ImplementsRing, Promise!Spec
=============================================================================
